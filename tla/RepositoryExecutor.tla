------------------------- MODULE RepositoryExecutor -------------------------
(***************************************************************************)
(* executeSafeRepositoryIndex: fetch one revision into a temporary         *)
(* directory, look at its tree, check it out, read every tracked file into *)
(* facts, and remove the directory whatever happened.  Every git command   *)
(* and every file system call is a step of its own; the ref may move and   *)
(* the remote go away between any two of them, a command may fail or be    *)
(* killed at its time limit before or after it took effect, and the        *)
(* process may crash.  The executor runs one question at a time, which is  *)
(* what the global key of the operation coordinator gives it.              *)
(***************************************************************************)
EXTENDS RepositoryTree

CONSTANTS Commits,
          Histories, \* what the commits may contain: functions to sets of entries
          Roots,    \* names of temporary directories
          None

(* A temporary directory: the commit fetched into it, and the one whose    *)
(* files are in its worktree.                                              *)
Directories == [fetched : Commits \cup {None}, worktree : Commits \cup {None}]

(* What may be thrown: before anything is touched; by a call, or for its   *)
(* time limit; for a limit of the index; for a file that is not there.     *)
Errors == {"source", "fault", "limit", "missing"}

ASSUME ConstantsAreSound ==
  /\ PathsAreNames /\ LimitsAreNumbers
  /\ \A tree \in UNION {{h[c] : c \in DOMAIN h} : h \in Histories} :
       IsFiniteSet(tree) /\ tree \subseteq TreeEntry
  /\ \A h \in Histories : DOMAIN h = Commits
ASSUME NoneIsNothingElse ==
  /\ None \notin Commits \cup Roots \cup Directories \cup Errors
  /\ None \notin [error : Errors]
  /\ None \notin [commit : Commits, files : Seq([path : DOMAIN PathOf, entry : TreeEntry])]

VARIABLES history,   \* the tree of every commit
          remote,    \* the commit the ref names, None when out of reach
          disk,      \* the temporary directories
          run,       \* the execution
          answer,    \* what the last execution returned or threw
          abandoned  \* directories nobody will remove: history variable

vars == <<history, remote, disk, run, answer, abandoned>>

Sources == {"https", "directory", "missing directory", "unsafe"}
Policies == {"remote-only", "local-allowed"}

(* normalizeRepositorySource *)
Allowed(source, policy) ==
  \/ source = "https"
  \/ source = "directory" /\ policy = "local-allowed"

NotRunning == [at |-> "idle", root |-> None, commit |-> None, tracked |-> <<>>,
               files |-> <<>>, error |-> None, named |-> {}]
EmptyRoot == [fetched |-> None, worktree |-> None]
Failed(error) == [error |-> error]

Init == /\ history \in Histories
        /\ remote \in Commits \cup {None}
        /\ disk = [d \in Roots |-> None]
        /\ run = NotRunning
        /\ answer = None
        /\ abandoned = {}

At(place) == run.at = place

(* Whether a call took effect, and whether the caller was told so. *)
Outcomes == {"ok", "lost", "failed"}

(* Control goes to the finally block of withSafeRepositoryCheckout. *)
Throw(error) == [run EXCEPT !.at = "remove", !.error = error]
Proceed(outcome, next) == IF outcome = "ok" THEN next ELSE Throw("fault")

-----------------------------------------------------------------------------
(* The question, and the checks before anything is touched. *)
Ask(source, policy, revisionIsOption) ==
  /\ At("idle")
  /\ IF Allowed(source, policy) /\ ~revisionIsOption
     THEN /\ run' = [NotRunning EXCEPT !.at = "mkdtemp", !.named = {remote} \ {None}]
          /\ answer' = None
     ELSE /\ answer' = Failed("source")
          /\ UNCHANGED run
  /\ UNCHANGED <<history, remote, disk, abandoned>>

(* Outside the try: an error here needs no removal. *)
MakeRoot(outcome) ==
  /\ At("mkdtemp")
  /\ IF outcome = "ok"
     THEN \E d \in {x \in Roots : disk[x] = None} :
            /\ disk' = [disk EXCEPT ![d] = EmptyRoot]
            /\ run' = [run EXCEPT !.at = "init", !.root = d]
            /\ UNCHANGED answer
     ELSE /\ run' = NotRunning
          /\ answer' = Failed("fault")
          /\ UNCHANGED disk
  /\ UNCHANGED <<history, remote, abandoned>>

(* git init and git remote add change nothing the rest looks at. *)
Prepare(outcome) ==
  /\ run.at \in {"init", "remote"}
  /\ run' = Proceed(outcome, [run EXCEPT !.at = IF At("init") THEN "remote" ELSE "fetch"])
  /\ UNCHANGED <<history, remote, disk, answer, abandoned>>

(* One fetch brings the revision with all its blobs. *)
Fetch(outcome) ==
  /\ At("fetch")
  /\ outcome = "ok" => remote # None
  /\ disk' = IF outcome = "failed" THEN disk
             ELSE [disk EXCEPT ![run.root].fetched = remote]
  /\ run' = Proceed(outcome, [run EXCEPT !.at = "resolve"])
  /\ UNCHANGED <<history, remote, answer, abandoned>>

(* Faulty variant: the remote is asked again what the ref names. *)
ResolveRemote(outcome) ==
  /\ At("resolve")
  /\ outcome = "ok" => remote # None
  /\ run' = Proceed(outcome, [run EXCEPT !.at = "inventory", !.commit = remote])
  /\ UNCHANGED <<history, remote, disk, answer, abandoned>>

(* git rev-parse FETCH_HEAD, in the checkout. *)
Resolve(outcome) ==
  /\ At("resolve")
  /\ run' = Proceed(outcome, [run EXCEPT !.at = "inventory",
                                         !.commit = disk[run.root].fetched])
  /\ UNCHANGED <<history, remote, disk, answer, abandoned>>

(* git ls-tree FETCH_HEAD, and the limits on what it lists. *)
Inventory(outcome) ==
  LET tree == history[disk[run.root].fetched]
  IN /\ At("inventory")
     /\ run' = Proceed(outcome, IF Accepted(tree)
                                THEN [run EXCEPT !.at = "checkout", !.tracked = Tracked(tree)]
                                ELSE Throw("limit"))
     /\ UNCHANGED <<history, remote, disk, answer, abandoned>>

Checkout(outcome) ==
  /\ At("checkout")
  /\ disk' = IF outcome = "failed" THEN disk
             ELSE [disk EXCEPT ![run.root].worktree = disk[run.root].fetched]
  /\ run' = Proceed(outcome, [run EXCEPT !.at = "read"])
  /\ UNCHANGED <<history, remote, answer, abandoned>>

-----------------------------------------------------------------------------
(* buildRepositoryIndexFacts *)

EntriesOf(files) == [k \in 1..Len(files) |-> files[k].entry]

(* readTrackedFile, the total of bytes and the budget of facts. *)
ReadFile(outcome) ==
  LET path  == run.tracked[Len(run.files) + 1]
      found == {e \in history[disk[run.root].worktree] : e.name = path}
  IN /\ At("read")
     /\ Len(run.files) < Len(run.tracked)
     /\ run' = IF found = {} THEN Throw("missing")
               ELSE LET e     == CHOOSE e \in found : TRUE
                        files == Append(run.files, [path |-> path, entry |-> e])
                    IN Proceed(outcome,
                         IF \/ e.written > MaxFileBytes
                            \/ Totals(EntriesOf(files)).written > MaxTotalBytes
                            \/ Totals(EntriesOf(files)).facts > MaxFacts
                         THEN Throw("limit")
                         ELSE [run EXCEPT !.files = files])
     /\ UNCHANGED <<history, remote, disk, answer, abandoned>>

(* createRepositoryDependencies, on the facts of all files. *)
Derive ==
  LET total == Totals(EntriesOf(run.files))
  IN /\ At("read")
     /\ Len(run.files) = Len(run.tracked)
     /\ run' = IF total.facts + total.dependencies > MaxFacts
               THEN Throw("limit")
               ELSE [run EXCEPT !.at = "remove"]
     /\ UNCHANGED <<history, remote, disk, answer, abandoned>>

(* An error of the removal takes the place of any answer. *)
Returned(removal) ==
  CASE removal # "ok" -> Failed("fault")
    [] removal = "ok" /\ run.error # None -> Failed(run.error)
    [] removal = "ok" /\ run.error = None -> [commit |-> run.commit, files |-> run.files]

(* Faulty variant: the directory is removed when all went well. *)
RemoveRootOnSuccess(outcome) ==
  /\ At("remove")
  /\ disk' = IF run.error # None \/ outcome = "failed" THEN disk
             ELSE [disk EXCEPT ![run.root] = None]
  /\ abandoned' = IF outcome = "failed" THEN abandoned \cup {run.root} ELSE abandoned
  /\ answer' = Returned(outcome)
  /\ run' = NotRunning
  /\ UNCHANGED <<history, remote>>

(* The finally block. *)
RemoveRoot(outcome) ==
  /\ At("remove")
  /\ disk' = IF outcome = "failed" THEN disk ELSE [disk EXCEPT ![run.root] = None]
  /\ abandoned' = IF outcome = "failed" THEN abandoned \cup {run.root} ELSE abandoned
  /\ answer' = Returned(outcome)
  /\ run' = NotRunning
  /\ UNCHANGED <<history, remote>>

-----------------------------------------------------------------------------
(* The ref is moved, the remote goes away or comes back. *)
MoveRef(c) == /\ remote' = c
              /\ run' = IF At("idle") THEN run
                        ELSE [run EXCEPT !.named = @ \cup ({c} \ {None})]
              /\ UNCHANGED <<history, disk, answer, abandoned>>

(* The directory stays where it is: nothing looks for it at the next start. *)
Crash == /\ ~At("idle")
         /\ run' = NotRunning
         /\ abandoned' = abandoned \cup ({run.root} \ {None})
         /\ UNCHANGED <<history, remote, disk, answer>>

Step == \/ \E outcome \in Outcomes : \/ MakeRoot(outcome) \/ Prepare(outcome)
                                     \/ Fetch(outcome) \/ Resolve(outcome)
                                     \/ Inventory(outcome) \/ Checkout(outcome)
                                     \/ ReadFile(outcome) \/ RemoveRoot(outcome)
        \/ Derive

Next == \/ \E source \in Sources, policy \in Policies, option \in BOOLEAN :
             Ask(source, policy, option)
        \/ Step
        \/ \E c \in Commits \cup {None} : MoveRef(c)
        \/ Crash

(* Every command ends at its time limit, every file system call ends. *)
Spec == Init /\ [][Next]_vars /\ WF_vars(Step)

-----------------------------------------------------------------------------
TypeOK ==
  /\ history \in Histories
  /\ remote \in Commits \cup {None}
  /\ disk \in [Roots -> {None} \cup Directories]
  /\ run.root \in Roots \cup {None}
  /\ run.commit \in Commits \cup {None}
  /\ run.named \subseteq Commits
  /\ abandoned \subseteq Roots

(* Limits of the tree are checked before a checkout writes any file of it: *)
(* no directory ever holds the files of a tree that breaks one.            *)
OnlyAcceptedTreesAreWritten ==
  \A d \in Roots : disk[d] # None /\ disk[d].worktree # None
                     => Accepted(history[disk[d].worktree])

(* A directory on disk is that of the execution, or was left behind by a   *)
(* crash or a removal that failed; no other way out of an execution leaves *)
(* one (repository-checkout.ts finally).                                   *)
OtherRootsAreRemoved ==
  \A d \in Roots : disk[d] # None => d = run.root \/ d \in abandoned

(* An execution ends for a limit only when the revision breaks one, in the *)
(* blobs, the written files or the facts: a revision exactly at every      *)
(* limit is indexed.                                                       *)
LimitErrorsAreTrue ==
  At("remove") /\ run.error = "limit" => ~Indexable(history[disk[run.root].fetched])

(* The limits reject what breaks one, before it is on disk, and no more.   *)
LimitsAreExact == TypeOK /\ OnlyAcceptedTreesAreWritten /\ LimitErrorsAreTrue

(* Every tracked file that was listed is there to be read, the remote gone *)
(* or not (repository-checkout.test.ts).                                   *)
ListedFilesAreThere == run.error # "missing"

(* An answer without the order of its files, an error without its kind. *)
Shown ==
  CASE answer = None -> None
    [] answer # None /\ "error" \in DOMAIN answer -> [error |-> "any"]
    [] answer # None /\ "error" \notin DOMAIN answer ->
         [answer EXCEPT !.files = {answer.files[k] : k \in DOMAIN answer.files}]

(* The executor keeps its promise to the index lifecycle: an answer is one *)
(* whole revision the ref named meanwhile, or an error, and one comes.     *)
Promised == INSTANCE ExecutorPromise
              WITH asked <- run.at # "idle",
                   named <- run.named,
                   answer <- Shown

KeepsThePromise == Promised!Spec

(* Raw checkout directories are ephemeral (repository-indexing.md).        *)
RootsAreEphemeral == \A d \in Roots : disk[d] # None ~> disk[d] = None
=============================================================================
