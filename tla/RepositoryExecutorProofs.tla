---------------------- MODULE RepositoryExecutorProofs ----------------------
(***************************************************************************)
(* The executor, for any commits, trees, limits and directories: what is   *)
(* on disk was accepted first, and is removed or known to be left behind.  *)
(***************************************************************************)
EXTENDS RepositoryExecutor, TLAPS, WellFoundedInduction, FiniteSetTheorems

Places == {"idle", "mkdtemp", "init", "remote", "fetch", "resolve", "inventory",
           "checkout", "read", "remove"}
Fields == {"at", "root", "commit", "tracked", "files", "error", "named"}

(* The directory of the execution is there from its creation to its        *)
(* removal, and holds a commit from the fetch on; that commit was accepted *)
(* when it is about to be checked out.                                     *)
PlaceInv ==
  /\ DOMAIN run = Fields /\ run.at \in Places
  /\ run.at \in {"idle", "mkdtemp"} => run.root = None
  /\ run.at \notin {"idle", "mkdtemp"} =>
       run.root \in Roots /\ disk[run.root] \in Directories
  /\ run.at \in {"resolve", "inventory", "checkout", "read"} =>
       disk[run.root].fetched \in Commits
  /\ run.at = "checkout" => Accepted(history[disk[run.root].fetched])

IInv == TypeOK /\ PlaceInv /\ OnlyAcceptedTreesAreWritten /\ OtherRootsAreRemoved

LEMMA InitInductive == Init => IInv
BY NoneIsNothingElse
   DEF Init, IInv, TypeOK, PlaceInv, OnlyAcceptedTreesAreWritten, OtherRootsAreRemoved,
       NotRunning, Places, Fields

LEMMA NextInductive == IInv /\ [Next]_vars => IInv'
<1> SUFFICES ASSUME IInv, [Next]_vars PROVE IInv'
  OBVIOUS
<1> USE NoneIsNothingElse
        DEF IInv, TypeOK, PlaceInv, OnlyAcceptedTreesAreWritten, OtherRootsAreRemoved,
            Places, Fields, Directories, At
<1>1. ASSUME NEW source \in Sources, NEW policy \in Policies, NEW option \in BOOLEAN,
             Ask(source, policy, option)
      PROVE  IInv'
  <2>1. UNCHANGED <<history, remote, disk, abandoned>>
    BY <1>1 DEF Ask
  <2>2. CASE UNCHANGED run
    BY <2>1, <2>2
  <2>3. CASE run' = [NotRunning EXCEPT !.at = "mkdtemp", !.named = {remote} \ {None}]
    <3>1. /\ DOMAIN run' = Fields /\ run'.at = "mkdtemp" /\ run'.root = None /\ run'.commit = None
          /\ run'.named = {remote} \ {None}
      BY <2>3 DEF NotRunning
    <3>2. run.at = "idle"
      BY <1>1 DEF Ask
    <3> QED BY <2>1, <3>1, <3>2
  <2> QED BY <1>1, <2>2, <2>3 DEF Ask
<1>2. ASSUME NEW outcome \in Outcomes, MakeRoot(outcome) PROVE IInv'
  <2>1. run.at = "mkdtemp" /\ UNCHANGED <<history, remote, abandoned>>
    BY <1>2 DEF MakeRoot
  <2>2. ASSUME NEW d \in Roots, disk' = [disk EXCEPT ![d] = EmptyRoot],
               run' = [run EXCEPT !.at = "init", !.root = d]
        PROVE  IInv'
    <3>1. /\ DOMAIN run' = Fields /\ run'.at = "init" /\ run'.root = d
          /\ run'.commit = run.commit /\ run'.named = run.named
      BY <2>2
    <3>2. EmptyRoot \in Directories /\ EmptyRoot.worktree = None
      BY DEF EmptyRoot
    <3> HIDE DEF EmptyRoot
    <3> QED BY <2>1, <2>2, <3>1, <3>2
  <2>3. CASE run' = NotRunning /\ UNCHANGED disk
    BY <2>1, <2>3 DEF NotRunning
  <2> QED BY <1>2, <2>2, <2>3 DEF MakeRoot
<1>3. ASSUME NEW outcome \in Outcomes, Prepare(outcome) PROVE IInv'
  BY <1>3 DEF Prepare, Proceed, Throw
<1>4. ASSUME NEW outcome \in Outcomes, Fetch(outcome) PROVE IInv'
  <2> DEFINE d == run.root
             row == [disk[d] EXCEPT !.fetched = remote]
  <2>1. run.at = "fetch" /\ d \in Roots /\ UNCHANGED <<history, remote, abandoned>>
    BY <1>4 DEF Fetch
  <2>2. row \in Directories /\ row.worktree = disk[d].worktree /\ row.fetched = remote
    BY <2>1
  <2>3. disk' = disk \/ disk' = [disk EXCEPT ![d] = row]
    BY <1>4 DEF Fetch
  <2>4. /\ DOMAIN run' = Fields /\ run'.root = d /\ run'.commit = run.commit
        /\ run'.named = run.named
        /\ \/ run'.at = "remove"
           \/ run'.at = "resolve" /\ remote \in Commits /\ disk' = [disk EXCEPT ![d] = row]
    BY <1>4 DEF Fetch, Proceed, Throw
  <2> HIDE DEF row
  <2>5. /\ disk' \in [Roots -> {None} \cup Directories]
        /\ \A x \in Roots : x # d => disk'[x] = disk[x]
        /\ disk'[d] \in Directories /\ disk'[d].worktree = disk[d].worktree
        /\ run'.at = "resolve" => disk'[d].fetched = remote
    BY <2>1, <2>2, <2>3, <2>4
  <2>6. OnlyAcceptedTreesAreWritten'
    <3> SUFFICES ASSUME NEW x \in Roots, disk'[x] # None, disk'[x].worktree # None
                 PROVE  Accepted(history[disk'[x].worktree])
      BY <2>1
    <3>1. CASE x = d
      <4>1. disk[d] # None
        BY <2>1, NoneIsNothingElse
      <4> QED BY <2>1, <2>5, <3>1, <4>1
    <3>2. CASE x # d
      BY <2>5, <3>2
    <3> QED BY <3>1, <3>2
  <2>7. OtherRootsAreRemoved'
    BY <2>1, <2>4, <2>5
  <2> QED BY <2>1, <2>4, <2>5, <2>6, <2>7
<1>5. ASSUME NEW outcome \in Outcomes, Resolve(outcome) PROVE IInv'
  BY <1>5 DEF Resolve, Proceed, Throw
<1>6. ASSUME NEW outcome \in Outcomes, Inventory(outcome) PROVE IInv'
  BY <1>6 DEF Inventory, Proceed, Throw
<1>7. ASSUME NEW outcome \in Outcomes, Checkout(outcome) PROVE IInv'
  BY <1>7 DEF Checkout, Proceed, Throw
<1>8. ASSUME NEW outcome \in Outcomes, ReadFile(outcome) PROVE IInv'
  BY <1>8 DEF ReadFile, Proceed, Throw
<1>9. CASE Derive
  BY <1>9 DEF Derive, Throw
<1>10. ASSUME NEW outcome \in Outcomes, RemoveRoot(outcome) PROVE IInv'
  BY <1>10 DEF RemoveRoot, NotRunning
<1>11. ASSUME NEW c \in Commits \cup {None}, MoveRef(c) PROVE IInv'
  BY <1>11 DEF MoveRef
<1>12. CASE Crash
  BY <1>12 DEF Crash, NotRunning
<1>13. CASE UNCHANGED vars
  BY <1>13 DEF vars
<1>14. CASE Step
  BY <1>2, <1>3, <1>4, <1>5, <1>6, <1>7, <1>8, <1>9, <1>10, <1>14, SMTT(30) DEF Step
<1> QED BY <1>1, <1>11, <1>12, <1>13, <1>14, SMTT(30) DEF Next

(***************************************************************************)
(* Between any two system calls of an execution, wherever it fails or the  *)
(* process stops, its record, its directory and what lies in it agree.     *)
(***************************************************************************)
THEOREM InductiveInvariant == Spec => []IInv
BY InitInductive, NextInductive, PTL DEF Spec

(***************************************************************************)
(* The property OtherRootsAreRemoved: of all the directories the executor  *)
(* has made, only the one of the execution under way is on the disk, and   *)
(* those whose removal failed or whose process stopped are counted.        *)
(***************************************************************************)
THEOREM RootsAreRemoved == Spec => []OtherRootsAreRemoved
<1>1. IInv => OtherRootsAreRemoved
  BY DEF IInv
<1> QED BY <1>1, InductiveInvariant, PTL

(***************************************************************************)
(* No tree is written to the disk before its inventory was accepted: the   *)
(* checkout is of the commit that was looked at, though the branch moves   *)
(* in between.                                                             *)
(***************************************************************************)
THEOREM CheckoutsAreAccepted == Spec => []OnlyAcceptedTreesAreWritten
<1>1. IInv => OnlyAcceptedTreesAreWritten
  BY DEF IInv
<1> QED BY <1>1, InductiveInvariant, PTL

-----------------------------------------------------------------------------
(***************************************************************************)
(* The part of the promise that is about revisions.  The commit that was   *)
(* fetched has been named by the ref since the question; from then on the  *)
(* execution keeps to it, whatever the ref does: what was listed, what is  *)
(* in the worktree and what was read are of that commit.                   *)
(***************************************************************************)
Readings(commit) ==
  {[path |-> Tracked(history[commit])[k], entry |-> e] :
     k \in Nat, e \in history[commit]}

Of(commit, files) ==
  /\ files \in Seq(Readings(commit))
  /\ \A k \in 1..Len(files) :
       /\ files[k].path = Tracked(history[commit])[k]
       /\ files[k].entry.name = files[k].path

WholeAnswer(given) ==
  /\ given.commit \in run.named
  /\ Accepted(history[given.commit])
  /\ Len(given.files) = Len(Tracked(history[given.commit]))
  /\ Of(given.commit, given.files)

AnswersAreWhole ==
  [][\/ answer' \in {answer, None}
     \/ "error" \in DOMAIN answer'
     \/ WholeAnswer(answer')]_vars

RevisionInv ==
  /\ run.at # "idle" /\ remote # None => remote \in run.named
  /\ run.at \in {"resolve", "inventory", "checkout", "read"} =>
       disk[run.root].fetched \in run.named
  /\ run.at \in {"inventory", "checkout", "read"} =>
       run.commit = disk[run.root].fetched
  /\ run.at = "read" =>
       disk[run.root].worktree = run.commit /\ Accepted(history[run.commit])
  /\ run.at \in {"checkout", "read"} =>
       run.tracked = Tracked(history[run.commit])
  /\ run.at # "idle" /\ run.at \notin {"read", "remove"} => run.files = <<>>
  /\ run.at = "read" => Of(run.commit, run.files)
  /\ run.at = "remove" /\ run.error = None => WholeAnswer(run)

LEMMA RevisionInitial == Init => RevisionInv
BY DEF Init, NotRunning, RevisionInv

(* A step that throws leaves nothing to be shown. *)
LEMMA ThrowKeepsRevision ==
  ASSUME IInv, RevisionInv, run.at # "idle",
         NEW error \in Errors, run' = Throw(error), UNCHANGED remote
  PROVE  RevisionInv'
BY NoneIsNothingElse DEF Throw, RevisionInv, IInv, PlaceInv, Fields

(* A step of others, or one that touches neither record nor directory. *)
LEMMA UnchangedKeepsRevision ==
  ASSUME RevisionInv, UNCHANGED <<history, remote, disk, run>> PROVE RevisionInv'
<1>1. \A c, files : Of(c, files)' <=> Of(c, files)
  BY DEF Of, Readings
<1>2. WholeAnswer(run)' <=> WholeAnswer(run)
  BY DEF WholeAnswer, Of, Readings
<1> QED BY <1>1, <1>2 DEF RevisionInv

(* What is read for the next path is of the revision. *)
Wanted == run.tracked[Len(run.files) + 1]
Found == {e \in history[disk[run.root].worktree] : e.name = Wanted}
WithFound == Append(run.files, [path |-> Wanted, entry |-> CHOOSE e \in Found : TRUE])

TooMuch == \/ (CHOOSE e \in Found : TRUE).written > MaxFileBytes
           \/ Totals(EntriesOf(WithFound)).written > MaxTotalBytes
           \/ Totals(EntriesOf(WithFound)).facts > MaxFacts

LEMMA ReadingSteps ==
  ASSUME NEW outcome, ReadFile(outcome)
  PROVE  /\ run.at = "read" /\ Len(run.files) < Len(run.tracked)
         /\ UNCHANGED <<history, remote, disk, answer, abandoned>>
         /\ \/ run' \in {Throw("missing"), Throw("fault")}
            \/ Found # {} /\ TooMuch /\ run' = Throw("limit")
            \/ Found # {} /\ ~TooMuch /\ run' = [run EXCEPT !.files = WithFound]
BY DEF ReadFile, At, Proceed, Found, Wanted, WithFound, TooMuch

LEMMA FileIsRead ==
  ASSUME RevisionInv, run.at = "read", Found # {}
  PROVE  Of(run.commit, WithFound)
<1> DEFINE chosen == CHOOSE e \in Found : TRUE
<1>1. /\ disk[run.root].worktree = run.commit /\ run.tracked = Tracked(history[run.commit])
      /\ Of(run.commit, run.files)
  BY DEF RevisionInv
<1>2. chosen \in history[run.commit] /\ chosen.name = Wanted
  BY <1>1 DEF Found
<1> HIDE DEF chosen
<1>3. Len(run.files) \in Nat /\ run.files \in Seq(Readings(run.commit))
  BY <1>1 DEF Of
<1>4. [path |-> Wanted, entry |-> chosen] \in Readings(run.commit)
  BY <1>1, <1>2, <1>3 DEF Readings, Wanted
<1>5. WithFound = Append(run.files, [path |-> Wanted, entry |-> chosen])
  BY DEF WithFound, chosen
<1>6. WithFound \in Seq(Readings(run.commit)) /\ Len(WithFound) = Len(run.files) + 1
  BY <1>3, <1>4, <1>5
<1>7. ASSUME NEW k \in 1..Len(WithFound)
      PROVE  /\ WithFound[k].path = Tracked(history[run.commit])[k]
             /\ WithFound[k].entry.name = WithFound[k].path
  <2>1. CASE k = Len(run.files) + 1
    <3>1. WithFound[k] = [path |-> Wanted, entry |-> chosen]
      BY <1>3, <1>5, <2>1
    <3> QED BY <1>1, <1>2, <2>1, <3>1 DEF Wanted
  <2>2. CASE k # Len(run.files) + 1
    <3>1. k \in 1..Len(run.files) /\ WithFound[k] = run.files[k]
      BY <1>3, <1>5, <1>6, <2>2
    <3> QED BY <1>1, <3>1 DEF Of
  <2> QED BY <2>1, <2>2
<1> QED BY <1>6, <1>7 DEF Of

LEMMA RevisionInductive == IInv /\ IInv' /\ RevisionInv /\ [Next]_vars => RevisionInv'
<1> SUFFICES ASSUME IInv, IInv', RevisionInv, [Next]_vars PROVE RevisionInv'
  OBVIOUS
<1>1. ASSUME NEW source \in Sources, NEW policy \in Policies, NEW option \in BOOLEAN,
             Ask(source, policy, option)
      PROVE  RevisionInv'
  <2>1. /\ UNCHANGED <<history, remote, disk>>
        /\ \/ UNCHANGED run
           \/ run' = [NotRunning EXCEPT !.at = "mkdtemp", !.named = {remote} \ {None}]
    BY <1>1 DEF Ask
  <2>2. CASE UNCHANGED run
    BY <2>1, <2>2, UnchangedKeepsRevision
  <2>3. CASE run' = [NotRunning EXCEPT !.at = "mkdtemp", !.named = {remote} \ {None}]
    <3>1. run'.at = "mkdtemp" /\ run'.files = <<>> /\ run'.named = {remote} \ {None}
      BY <2>3 DEF NotRunning
    <3> QED BY <2>1, <3>1 DEF RevisionInv
  <2> QED BY <2>1, <2>2, <2>3
<1>2. ASSUME NEW outcome \in Outcomes, MakeRoot(outcome) PROVE RevisionInv'
  <2>1. run.at = "mkdtemp" /\ remote' = remote
    BY <1>2 DEF MakeRoot, At
  <2>2. CASE run' = NotRunning
    BY <2>2 DEF NotRunning, RevisionInv
  <2>3. ASSUME NEW d \in Roots, run' = [run EXCEPT !.at = "init", !.root = d]
        PROVE  RevisionInv'
    <3>1. run'.at = "init" /\ run'.files = run.files /\ run'.named = run.named
      BY <2>3 DEF IInv, PlaceInv, Fields
    <3> QED BY <2>1, <3>1 DEF RevisionInv
  <2> QED BY <1>2, <2>2, <2>3 DEF MakeRoot
<1>3. ASSUME NEW outcome \in Outcomes, Prepare(outcome) PROVE RevisionInv'
  <2>1. CASE outcome # "ok"
    BY <1>3, <2>1, ThrowKeepsRevision DEF Prepare, Proceed, At, Errors
  <2>2. CASE outcome = "ok"
    <3>1. /\ run.at \in {"init", "remote"} /\ run'.at \in {"remote", "fetch"}
          /\ run'.files = run.files /\ run'.named = run.named /\ remote' = remote
      BY <1>3, <2>2 DEF Prepare, Proceed, At, IInv, PlaceInv, Fields
    <3> QED BY <3>1 DEF RevisionInv
  <2> QED BY <2>1, <2>2
<1>4. ASSUME NEW outcome \in Outcomes, Fetch(outcome) PROVE RevisionInv'
  <2>1. run.at = "fetch" /\ remote' = remote
    BY <1>4 DEF Fetch, At
  <2>2. CASE outcome # "ok"
    BY <1>4, <2>1, <2>2, ThrowKeepsRevision DEF Fetch, Proceed, Errors
  <2>3. CASE outcome = "ok"
    <3>1. /\ run' = [run EXCEPT !.at = "resolve"] /\ remote # None
          /\ disk' = [disk EXCEPT ![run.root].fetched = remote]
      BY <1>4, <2>3 DEF Fetch, Proceed
    <3>2. /\ run'.at = "resolve" /\ run'.files = run.files
          /\ run'.root = run.root /\ run'.named = run.named
      BY <3>1 DEF IInv, PlaceInv, Fields
    <3>3. disk'[run.root].fetched = remote
      BY <2>1, <3>1 DEF IInv, PlaceInv, TypeOK, Directories
    <3> QED BY <2>1, <3>1, <3>2, <3>3 DEF RevisionInv
  <2> QED BY <2>2, <2>3
<1>5. ASSUME NEW outcome \in Outcomes, Resolve(outcome) PROVE RevisionInv'
  BY <1>5, ThrowKeepsRevision
     DEF Resolve, Proceed, At, RevisionInv, IInv, PlaceInv, Fields, Errors
<1>6. ASSUME NEW outcome \in Outcomes, Inventory(outcome) PROVE RevisionInv'
  BY <1>6, ThrowKeepsRevision
     DEF Inventory, Proceed, At, RevisionInv, IInv, PlaceInv, Fields, Errors
<1>7. ASSUME NEW outcome \in Outcomes, Checkout(outcome) PROVE RevisionInv'
  <2>1. run.at = "checkout" /\ UNCHANGED <<history, remote>>
    BY <1>7 DEF Checkout, At
  <2>2. CASE outcome # "ok"
    BY <1>7, <2>1, <2>2, ThrowKeepsRevision DEF Checkout, Proceed, Errors
  <2>3. CASE outcome = "ok"
    <3>1. /\ run' = [run EXCEPT !.at = "read"]
          /\ disk' = [disk EXCEPT ![run.root].worktree = disk[run.root].fetched]
      BY <1>7, <2>3 DEF Checkout, Proceed
    <3>2. /\ run'.at = "read" /\ run'.files = <<>>
          /\ run'.root = run.root /\ run'.named = run.named
          /\ run'.commit = run.commit /\ run'.tracked = run.tracked
      BY <2>1, <3>1 DEF IInv, PlaceInv, Fields, RevisionInv
    <3>3. /\ disk'[run.root].worktree = disk[run.root].fetched
          /\ disk'[run.root].fetched = disk[run.root].fetched
      BY <2>1, <3>1 DEF IInv, PlaceInv, TypeOK, Directories
    <3>4. Of(run.commit, <<>>)'
      BY <2>1 DEF Of
    <3> QED BY <2>1, <3>2, <3>3, <3>4 DEF RevisionInv, IInv, PlaceInv
  <2> QED BY <2>2, <2>3
<1>8. ASSUME NEW outcome \in Outcomes, ReadFile(outcome) PROVE RevisionInv'
  <2>1. run.at = "read" /\ UNCHANGED <<history, remote, disk>>
    BY <1>8, ReadingSteps
  <2>2. ASSUME NEW error \in Errors, run' = Throw(error) PROVE RevisionInv'
    BY <2>1, <2>2, ThrowKeepsRevision
  <2>3. ASSUME Found # {}, run' = [run EXCEPT !.files = WithFound] PROVE RevisionInv'
    <3>1. Of(run.commit, WithFound)
      BY <2>1, <2>3, FileIsRead
    <3>2. /\ run'.at = "read" /\ run'.files = WithFound /\ run'.root = run.root
          /\ run'.named = run.named /\ run'.commit = run.commit
          /\ run'.tracked = run.tracked
      BY <2>1, <2>3 DEF IInv, PlaceInv, Fields
    <3>3. Of(run.commit, run.files)'
      BY <2>1, <3>1, <3>2 DEF Of, Readings
    <3> QED BY <2>1, <3>2, <3>3 DEF RevisionInv
  <2> QED BY <1>8, <2>2, <2>3, ReadingSteps DEF Errors
<1>9. ASSUME Derive PROVE RevisionInv'
  <2>1. /\ run.at = "read" /\ UNCHANGED <<history, remote, disk>>
        /\ Len(run.files) = Len(run.tracked)
    BY <1>9 DEF Derive, At
  <2>2. CASE run' = Throw("limit")
    BY <2>1, <2>2, ThrowKeepsRevision DEF Errors
  <2>3. CASE run' = [run EXCEPT !.at = "remove"]
    <3>1. /\ run'.at = "remove" /\ run'.files = run.files
          /\ run'.named = run.named /\ run'.commit = run.commit
      BY <2>3 DEF IInv, PlaceInv, Fields
    <3>2. WholeAnswer(run)
      BY <2>1 DEF RevisionInv, WholeAnswer
    <3>3. WholeAnswer(run)'
      BY <2>1, <3>1, <3>2 DEF WholeAnswer, Of, Readings
    <3> QED BY <2>1, <3>1, <3>3 DEF RevisionInv
  <2> QED BY <1>9, <2>2, <2>3 DEF Derive
<1>10. ASSUME NEW outcome \in Outcomes, RemoveRoot(outcome) PROVE RevisionInv'
  <2>1. run' = NotRunning
    BY <1>10 DEF RemoveRoot
  <2> QED BY <2>1 DEF NotRunning, RevisionInv
<1>11. ASSUME NEW c \in Commits \cup {None}, MoveRef(c) PROVE RevisionInv'
  BY <1>11 DEF MoveRef, At, RevisionInv, IInv, PlaceInv, Fields, WholeAnswer, Of, Readings
<1>12. ASSUME Crash PROVE RevisionInv'
  BY <1>12 DEF Crash, NotRunning, RevisionInv
<1>13. ASSUME UNCHANGED vars PROVE RevisionInv'
  BY <1>13, UnchangedKeepsRevision DEF vars
<1> QED BY <1>1, <1>2, <1>3, <1>4, <1>5, <1>6, <1>7, <1>8, <1>9, <1>10, <1>11, <1>12,
           <1>13 DEF Next, Step

(* Every answer that is not an error is about one revision. *)
LEMMA AnswerStep == IInv /\ RevisionInv /\ [Next]_vars =>
                      [\/ answer' \in {answer, None}
                       \/ "error" \in DOMAIN answer'
                       \/ WholeAnswer(answer')]_vars
<1> SUFFICES ASSUME IInv, RevisionInv, [Next]_vars
             PROVE  \/ answer' \in {answer, None}
                    \/ "error" \in DOMAIN answer'
                    \/ WholeAnswer(answer')
  OBVIOUS
<1>1. ASSUME NEW error PROVE "error" \in DOMAIN Failed(error)
  BY DEF Failed
<1>2. ASSUME NEW source \in Sources, NEW policy \in Policies, NEW option \in BOOLEAN,
             Ask(source, policy, option)
      PROVE  answer' = None \/ "error" \in DOMAIN answer'
  BY <1>1, <1>2 DEF Ask
<1>3. ASSUME NEW outcome \in Outcomes, MakeRoot(outcome)
      PROVE  answer' = answer \/ "error" \in DOMAIN answer'
  BY <1>1, <1>3 DEF MakeRoot
<1>4. ASSUME NEW outcome \in Outcomes, RemoveRoot(outcome)
      PROVE  "error" \in DOMAIN answer' \/ WholeAnswer(answer')
  <2>1. CASE outcome # "ok"
    BY <1>1, <1>4, <2>1 DEF RemoveRoot, Returned
  <2>2. CASE outcome = "ok" /\ run.error # None
    BY <1>1, <1>4, <2>2 DEF RemoveRoot, Returned
  <2>3. CASE outcome = "ok" /\ run.error = None
    <3>1. answer' = [commit |-> run.commit, files |-> run.files]
      BY <1>4, <2>3 DEF RemoveRoot, Returned
    <3>2. WholeAnswer(run)
      BY <1>4, <2>3 DEF RemoveRoot, At, RevisionInv
    <3> QED BY <3>1, <3>2 DEF WholeAnswer
  <2> QED BY <2>1, <2>2, <2>3
<1>5. ASSUME NEW outcome \in Outcomes,
             \/ Prepare(outcome) \/ Fetch(outcome) \/ Resolve(outcome)
             \/ Inventory(outcome) \/ Checkout(outcome) \/ ReadFile(outcome)
      PROVE  answer' = answer
  BY <1>5 DEF Prepare, Fetch, Resolve, Inventory, Checkout, ReadFile
<1>6. ASSUME Derive \/ Crash \/ \E c \in Commits \cup {None} : MoveRef(c)
      PROVE  answer' = answer
  BY <1>6 DEF Derive, Crash, MoveRef
<1>7. ASSUME UNCHANGED vars PROVE answer' = answer
  BY <1>7 DEF vars
<1> QED BY <1>2, <1>3, <1>4, <1>5, <1>6, <1>7 DEF Next, Step

(***************************************************************************)
(* The heart of KeepsThePromise.  Wherever the ref moves between the git   *)
(* commands of an execution, an answer without an error names a commit the *)
(* ref has named since the question, whose tree was accepted, and gives,   *)
(* in the order of its listing, one entry of that tree for every tracked   *)
(* path.                                                                   *)
(***************************************************************************)
THEOREM AnswersAreOfOneRevision == Spec => AnswersAreWhole
<1>1. Spec => []RevisionInv
  BY RevisionInitial, RevisionInductive, InductiveInvariant, PTL DEF Spec
<1> QED BY <1>1, AnswerStep, InductiveInvariant, PTL DEF Spec, AnswersAreWhole

-----------------------------------------------------------------------------
(* What is counted. *)

LEMMA LeastNumber ==
  ASSUME NEW T, T \subseteq Nat, T # {}
  PROVE  \E m \in T : \A k \in T : m <= k
<1> DEFINE R == OpToRel(<, Nat)
<1>1. IsWellFoundedOn(R, Nat)
  BY NatLessThanWellFounded
<1>2. \A x, y \in Nat : x < y => <<x, y>> \in R
  BY DEF OpToRel
<1> HIDE DEF R
<1>3. PICK m \in T : \A y \in T : <<y, m>> \notin R
  BY <1>1, WFMin
<1>4. ASSUME NEW k \in T PROVE m <= k
  <2>1. m \in Nat /\ k \in Nat /\ ~(k < m)
    BY <1>2, <1>3
  <2> QED BY <2>1
<1> QED BY <1>4

(* f counts the first n numbers, one after the other. *)
Counts(f, numbers, n) ==
  /\ f \in [0..n -> Nat]
  /\ f[0] = 0
  /\ \A k \in 1..n : f[k] = f[k - 1] + numbers[k]

LEMMA CountExists ==
  ASSUME NEW numbers \in Seq(Nat)
  PROVE  \E f : Counts(f, numbers, Len(numbers))
<1> DEFINE T == {n \in 0..Len(numbers) : ~ \E f : Counts(f, numbers, n)}
<1>0. Len(numbers) \in 0..Len(numbers)
  OBVIOUS
<1>1. SUFFICES ASSUME T # {} PROVE FALSE
  BY <1>0
<1>2. PICK n \in T : \A k \in T : n <= k
  <2>1. T \subseteq Nat
    OBVIOUS
  <2> HIDE DEF T
  <2> QED BY <1>1, <2>1, LeastNumber
<1>3. CASE n = 0
  <2>1. Counts([k \in 0..0 |-> 0], numbers, 0)
    BY DEF Counts
  <2> QED BY <1>2, <1>3, <2>1
<1>4. CASE n # 0
  <2>1. n \in Nat /\ n - 1 \in 0..Len(numbers) /\ n \in 1..Len(numbers)
    BY <1>2, <1>4
  <2>2. PICK f : Counts(f, numbers, n - 1)
    BY <1>2, <2>1
  <2> DEFINE g == [k \in 0..n |-> IF k = n THEN f[n - 1] + numbers[n] ELSE f[k]]
  <2>3. Counts(g, numbers, n)
    <3>1. numbers[n] \in Nat
      BY <2>1
    <3>2. g \in [0..n -> Nat]
      BY <2>1, <2>2, <3>1 DEF Counts
    <3>3. g[0] = 0
      BY <2>1, <2>2 DEF Counts
    <3>4. ASSUME NEW k \in 1..n PROVE g[k] = g[k - 1] + numbers[k]
      BY <2>1, <2>2, <3>4 DEF Counts
    <3> QED BY <3>2, <3>3, <3>4 DEF Counts
  <2> QED BY <1>2, <2>3
<1> QED BY <1>3, <1>4

LEMMA CountGrows ==
  ASSUME NEW numbers \in Seq(Nat), NEW n \in 0..Len(numbers), NEW f, Counts(f, numbers, n)
  PROVE  \A k \in 0..n : f[k] <= f[n]
<1> DEFINE T == {n - k : k \in {l \in 0..n : ~ (f[l] <= f[n])}}
<1>1. SUFFICES ASSUME T # {} PROVE FALSE
  OBVIOUS
<1>2. PICK d \in T : \A l \in T : d <= l
  <2>1. T \subseteq Nat
    OBVIOUS
  <2> HIDE DEF T
  <2> QED BY <1>1, <2>1, LeastNumber
<1>3. PICK k \in 0..n : d = n - k /\ ~ (f[k] <= f[n])
  BY <1>2
<1>4. k # n
  BY <1>3 DEF Counts
<1>5. k + 1 \in 1..n /\ k + 1 \in 1..Len(numbers)
  BY <1>3, <1>4
<1>6. f[k + 1] <= f[n]
  <2>1. n - (k + 1) < d
    BY <1>3
  <2>2. n - (k + 1) \notin T
    <3>1. T \subseteq Nat /\ n - (k + 1) \in Nat /\ d \in Nat
      BY <1>3, <1>5
    <3> HIDE DEF T
    <3> QED BY <1>2, <2>1, <3>1
  <2>3. k + 1 \in 0..n
    BY <1>5
  <2>4. ~ (k + 1 \in {l \in 0..n : ~ (f[l] <= f[n])})
    BY <2>2
  <2> QED BY <2>3, <2>4
<1>7. f[k + 1] = f[k] + numbers[k + 1]
  <2>1. (k + 1) - 1 = k
    BY <1>3
  <2>2. \A l \in 1..n : f[l] = f[l - 1] + numbers[l]
    BY DEF Counts
  <2>3. f[k + 1] = f[(k + 1) - 1] + numbers[k + 1]
    BY <1>5, <2>2
  <2> HIDE DEF T
  <2> QED BY <2>1, <2>3
<1>8. /\ f[k] \in Nat /\ f[k + 1] \in Nat /\ f[n] \in Nat /\ numbers[k + 1] \in Nat
  <2>1. f \in [0..n -> Nat]
    BY DEF Counts
  <2>2. k \in 0..n /\ k + 1 \in 0..n /\ n \in 0..n
    BY <1>3, <1>5
  <2>3. numbers[k + 1] \in Nat
    BY <1>5
  <2> HIDE DEF T
  <2> QED BY <2>1, <2>2, <2>3
<1> QED BY <1>3, <1>6, <1>7, <1>8

LEMMA TotalIs ==
  ASSUME NEW numbers \in Seq(Nat), NEW f, Counts(f, numbers, Len(numbers))
  PROVE  Total(numbers) = f[Len(numbers)]
<1> DEFINE N == Len(numbers)
           Body(h) == [k \in 0..N |-> IF k = 0 THEN 0 ELSE h[k - 1] + numbers[k]]
           upTo == CHOOSE h : h = Body(h)
<1>1. N \in Nat
  OBVIOUS
<1>2. f = Body(f)
  BY <1>1 DEF Counts
<1>3. upTo = Body(upTo)
  <2> HIDE DEF Body
  <2> QED BY <1>2
<1> HIDE DEF upTo
<1>4. \A k \in 0..N : f[k] = upTo[k]
  <2> DEFINE T == {k \in 0..N : f[k] # upTo[k]}
  <2>1. SUFFICES ASSUME T # {} PROVE FALSE
    OBVIOUS
  <2>2. PICK k \in T : \A l \in T : k <= l
    <3>1. T \subseteq Nat
      OBVIOUS
    <3> HIDE DEF T
    <3> QED BY <2>1, <3>1, LeastNumber
  <2>3. k \in 0..N /\ f[k] # upTo[k]
    OBVIOUS
  <2>4. \A l \in 0..N : upTo[l] = IF l = 0 THEN 0 ELSE upTo[l - 1] + numbers[l]
    BY <1>3
  <2>5. \A l \in 0..N : f[l] = IF l = 0 THEN 0 ELSE f[l - 1] + numbers[l]
    BY <1>2
  <2>6. k # 0
    BY <1>1, <2>3, <2>4, <2>5
  <2>7. k - 1 \in 0..N /\ k - 1 \notin T
    BY <1>1, <2>2, <2>6
  <2>8. f[k - 1] = upTo[k - 1]
    BY <2>7
  <2> HIDE DEF T
  <2> QED BY <2>3, <2>4, <2>5, <2>6, <2>8
<1>5. Total(numbers) = upTo[N]
  BY DEF Total, upTo
<1> QED BY <1>1, <1>4, <1>5

(* A list counts at least as much as what it begins with. *)
LEMMA PrefixesCountLess ==
  ASSUME NEW numbers \in Seq(Nat), NEW others \in Seq(Nat),
         Len(numbers) <= Len(others),
         \A k \in 1..Len(numbers) : numbers[k] = others[k]
  PROVE  Total(numbers) \in Nat /\ Total(others) \in Nat /\ Total(numbers) <= Total(others)
<1>0. Len(numbers) \in Nat /\ Len(others) \in Nat
  OBVIOUS
<1>1. PICK f : Counts(f, numbers, Len(numbers))
  BY CountExists
<1>2. PICK g : Counts(g, others, Len(others))
  BY CountExists
<1>3. f[Len(numbers)] = g[Len(numbers)]
  <2> DEFINE T == {k \in 0..Len(numbers) : f[k] # g[k]}
  <2>1. SUFFICES ASSUME T # {} PROVE FALSE
    BY <1>0
  <2>2. PICK k \in T : \A l \in T : k <= l
    <3>1. T \subseteq Nat
      BY <1>0
    <3> HIDE DEF T
    <3> QED BY <2>1, <3>1, LeastNumber
  <2>3. k # 0
    BY <1>1, <1>2 DEF Counts
  <2>4. k - 1 \in 0..Len(numbers) /\ k - 1 \notin T /\ k \in 1..Len(numbers)
    BY <1>0, <2>2, <2>3
  <2>5. k \in 1..Len(others) /\ numbers[k] = others[k]
    BY <1>0, <2>4
  <2> QED BY <1>1, <1>2, <2>4, <2>5 DEF Counts
<1>4. g[Len(numbers)] <= g[Len(others)]
  <2>1. \A k \in 0..Len(others) : g[k] <= g[Len(others)]
    BY <1>0, <1>2, CountGrows
  <2>2. Len(numbers) \in 0..Len(others)
    BY <1>0
  <2> QED BY <2>1, <2>2, Zenon
<1>5. f[Len(numbers)] \in Nat /\ g[Len(numbers)] \in Nat /\ g[Len(others)] \in Nat
  <2>1. Len(numbers) \in 0..Len(numbers) /\ {Len(numbers), Len(others)} \subseteq 0..Len(others)
    BY <1>0
  <2>2. f \in [0..Len(numbers) -> Nat] /\ g \in [0..Len(others) -> Nat]
    BY <1>1, <1>2 DEF Counts
  <2> QED BY <2>1, <2>2
<1>6. Total(numbers) = f[Len(numbers)] /\ Total(others) = g[Len(others)]
  <2>1. Total(numbers) = f[Len(numbers)]
    BY <1>1, TotalIs
  <2> QED BY <1>2, <2>1, TotalIs
<1> QED BY <1>3, <1>4, <1>5, <1>6

-----------------------------------------------------------------------------
(* A tree whose names are all different with / for \ .                      *)
PathsDiffer(tree) == \A d, e \in tree : PathOf[d.name] = PathOf[e.name] => d = e

IsTree(tree) == IsFiniteSet(tree) /\ tree \subseteq TreeEntry /\ PathsDiffer(tree)

Earlier(tree, e) == {d \in tree : InPathOrder(d, e)}

LEMMA EarlierGrows ==
  ASSUME NEW tree, IsTree(tree), NEW d \in tree, NEW e \in tree, d # e
  PROVE  /\ Cardinality(Earlier(tree, d)) # Cardinality(Earlier(tree, e))
         /\ Cardinality(Earlier(tree, e)) \in Nat
         /\ Cardinality(Earlier(tree, e)) < Cardinality(tree)
<1>1. \A x \in tree : PathOf[x.name] \in Nat /\ x.name \in Nat
  BY ConstantsAreSound DEF IsTree, TreeEntry, PathsAreNames
<1>2. \A x, y \in tree : InPathOrder(x, y) <=> PathOf[x.name] < PathOf[y.name]
  BY <1>1 DEF InPathOrder, IsTree, PathsDiffer
<1>3. \A x \in tree : IsFiniteSet(Earlier(tree, x)) /\ Cardinality(Earlier(tree, x)) \in Nat
  BY FS_Subset, FS_CardinalityType DEF Earlier, IsTree
<1>4. ASSUME NEW x \in tree, NEW y \in tree, PathOf[x.name] < PathOf[y.name]
      PROVE  Cardinality(Earlier(tree, x)) # Cardinality(Earlier(tree, y))
  <2>1. Earlier(tree, x) \subseteq Earlier(tree, y)
    BY <1>1, <1>2, <1>4 DEF Earlier
  <2>2. x \in Earlier(tree, y) /\ x \notin Earlier(tree, x)
    BY <1>1, <1>2, <1>4 DEF Earlier
  <2> QED BY <1>3, <2>1, <2>2, FS_Subset
<1>5. Earlier(tree, e) # tree /\ Earlier(tree, e) \subseteq tree
  BY <1>1, <1>2 DEF Earlier
<1>6. Cardinality(Earlier(tree, e)) < Cardinality(tree)
  <2>1. /\ Cardinality(Earlier(tree, e)) <= Cardinality(tree)
        /\ Cardinality(Earlier(tree, e)) # Cardinality(tree)
    BY <1>5, FS_Subset DEF IsTree
  <2> QED BY <1>3, <2>1, FS_CardinalityType DEF IsTree
<1>7. PathOf[d.name] < PathOf[e.name] \/ PathOf[e.name] < PathOf[d.name]
  <2>1. PathOf[d.name] # PathOf[e.name]
    BY DEF IsTree, PathsDiffer
  <2> QED BY <1>1, <2>1
<1> QED BY <1>3, <1>4, <1>6, <1>7

(* The entries of a tree are listed, each once. *)
LEMMA EntriesAreListed ==
  ASSUME NEW tree, IsTree(tree)
  PROVE  /\ Entries(tree) \in Seq(tree)
         /\ Len(Entries(tree)) = Cardinality(tree) /\ Cardinality(tree) \in Nat
         /\ \A e \in tree : \E k \in 1..Cardinality(tree) : Entries(tree)[k] = e
<1> DEFINE n == Cardinality(tree)
           rank == [e \in tree |-> Cardinality(Earlier(tree, e)) + 1]
<1>1. n \in Nat /\ IsFiniteSet(1..n) /\ Cardinality(1..n) = n
  <2>1. n \in Nat
    BY FS_CardinalityType DEF IsTree
  <2> QED BY <2>1, FS_Interval
<1>2. \A e \in tree : rank[e] \in 1..n
  <2>1. ASSUME NEW e \in tree PROVE rank[e] \in 1..n
    <3>1. CASE \E d \in tree : d # e
      BY <1>1, <3>1, EarlierGrows
    <3>2. CASE ~ \E d \in tree : d # e
      <4>1. tree = {e}
        BY <3>2
      <4>2. PathOf[e.name] \in Nat /\ e.name \in Nat
        BY ConstantsAreSound DEF IsTree, TreeEntry, PathsAreNames
      <4>3. Earlier(tree, e) = {}
        BY <4>1, <4>2 DEF Earlier, InPathOrder
      <4>4. Cardinality(Earlier(tree, e)) = 0 /\ n = 1
        BY <4>1, <4>3, FS_EmptySet, FS_Singleton
      <4> QED BY <4>4
    <3> QED BY <3>1, <3>2
  <2> QED BY <2>1
<1>3. \A d, e \in tree : rank[d] = rank[e] => d = e
  <2>1. ASSUME NEW d \in tree, NEW e \in tree, d # e PROVE rank[d] # rank[e]
    <3>1. /\ Cardinality(Earlier(tree, d)) # Cardinality(Earlier(tree, e))
          /\ Cardinality(Earlier(tree, d)) \in Nat /\ Cardinality(Earlier(tree, e)) \in Nat
      BY <2>1, EarlierGrows
    <3> QED BY <3>1
  <2> QED BY <2>1
<1>4. rank \in Surjection(tree, 1..n)
  <2>1. rank \in Injection(tree, 1..n)
    BY <1>2, <1>3 DEF Injection, IsInjective
  <2> HIDE DEF rank, n
  <2> QED BY <1>1, <2>1, FS_Injection DEF n, IsTree
<1>5. ASSUME NEW k \in 1..n
      PROVE  Entries(tree)[k] \in tree /\ rank[Entries(tree)[k]] = k
  <2>1. PICK e \in tree : rank[e] = k
    BY <1>4, <1>5 DEF Surjection
  <2>2. Cardinality({d \in tree : InPathOrder(d, e)}) = k - 1
    <3>1. Cardinality(Earlier(tree, e)) + 1 = k
      BY <2>1
    <3>2. Cardinality(Earlier(tree, e)) \in Nat
      BY FS_Subset, FS_CardinalityType DEF Earlier, IsTree
    <3> QED BY <1>1, <3>1, <3>2 DEF Earlier
  <2>3. /\ Entries(tree)[k] \in tree
        /\ Cardinality({d \in tree : InPathOrder(d, Entries(tree)[k])}) = k - 1
    BY <2>2, Zenon DEF Entries
  <2>4. rank[Entries(tree)[k]] = k - 1 + 1
    BY <2>3 DEF Earlier
  <2> QED BY <1>1, <2>3, <2>4
<1>6. Entries(tree) \in Seq(tree) /\ Len(Entries(tree)) = n
  <2> DEFINE entry(k) ==
               CHOOSE e \in tree : Cardinality({d \in tree : InPathOrder(d, e)}) = k - 1
  <2>1. Entries(tree) = [k \in 1..n |-> entry(k)]
    BY DEF Entries
  <2> HIDE DEF entry, n
  <2>2. \A k \in 1..n : entry(k) \in tree
    BY <1>5, <2>1
  <2> QED BY <1>1, <2>1, <2>2
<1>7. \A e \in tree : \E k \in 1..n : Entries(tree)[k] = e
  <2>1. ASSUME NEW e \in tree PROVE Entries(tree)[rank[e]] = e
    BY <1>2, <1>3, <1>5
  <2> QED BY <1>2, <2>1
<1> QED BY <1>1, <1>6, <1>7

-----------------------------------------------------------------------------
(***************************************************************************)
(* Limits and the whole of the promise, for trees in which no two names    *)
(* have the same path: there the file that is read for a path is the entry *)
(* that was listed.                                                        *)
(***************************************************************************)
PathsAreDistinct == \A h \in Histories : \A c \in Commits : PathsDiffer(h[c])

LEMMA TreesAreTrees ==
  ASSUME PathsAreDistinct, TypeOK, NEW c \in Commits PROVE IsTree(history[c])
BY ConstantsAreSound DEF TypeOK, PathsAreDistinct, IsTree

ReadAsListed(commit, files) ==
  \A k \in 1..Len(files) :
    /\ files[k].entry = Entries(history[commit])[k]
    /\ files[k] = [path |-> PathOf[files[k].entry.name], entry |-> files[k].entry]

LEMMA FilesAreEntries ==
  ASSUME NEW commit, IsTree(history[commit]), NEW files, Of(commit, files),
         Len(files) <= Cardinality(history[commit])
  PROVE  ReadAsListed(commit, files)
<1> SUFFICES ASSUME NEW k \in 1..Len(files)
             PROVE  /\ files[k].entry = Entries(history[commit])[k]
                    /\ files[k] = [path |-> PathOf[files[k].entry.name],
                                   entry |-> files[k].entry]
  BY DEF ReadAsListed
<1> DEFINE tree == history[commit]
           d == Entries(tree)[k]
           e == files[k].entry
<1>1. Len(files) \in Nat /\ k \in 1..Cardinality(tree) /\ d \in tree
  BY EntriesAreListed DEF Of
<1>2. Tracked(tree)[k] = PathOf[d.name]
  BY <1>1 DEF Tracked
<1>3. files[k] \in Readings(commit)
  BY <1>1 DEF Of
<1>4. e \in tree /\ files[k] = [path |-> files[k].path, entry |-> e]
  BY <1>3 DEF Readings
<1>5. e.name = files[k].path /\ files[k].path = PathOf[d.name]
  BY <1>2 DEF Of
<1>6. PathOf[PathOf[d.name]] = PathOf[d.name]
  BY <1>1, ConstantsAreSound DEF PathsAreNames, IsTree, TreeEntry
<1>7. PathOf[e.name] = PathOf[d.name]
  BY <1>5, <1>6
<1> HIDE DEF d, e
<1>8. e = d
  BY <1>1, <1>4, <1>7 DEF IsTree, PathsDiffer
<1> QED BY <1>4, <1>5, <1>7, <1>8 DEF d, e

LEMMA TotalsGrow ==
  ASSUME NEW some \in Seq(TreeEntry), NEW all \in Seq(TreeEntry), Len(some) <= Len(all),
         \A k \in 1..Len(some) : some[k] = all[k]
  PROVE  /\ Totals(some).written \in Nat /\ Totals(all).written \in Nat
         /\ Totals(some).written <= Totals(all).written
         /\ Totals(some).facts \in Nat /\ Totals(all).facts \in Nat
         /\ Totals(some).facts <= Totals(all).facts
         /\ Totals(all).size \in Nat /\ Totals(all).dependencies \in Nat
<1>1. Len(some) \in Nat /\ Len(all) \in Nat
  OBVIOUS
<1> DEFINE written(list) == [k \in 1..Len(list) |-> list[k].written]
           facts(list) == [k \in 1..Len(list) |-> list[k].facts]
           size(list) == [k \in 1..Len(list) |-> list[k].size]
           dependencies(list) == [k \in 1..Len(list) |-> list[k].dependencies]
<1>2. ASSUME NEW list \in Seq(TreeEntry)
      PROVE  /\ written(list) \in Seq(Nat) /\ Len(written(list)) = Len(list)
             /\ facts(list) \in Seq(Nat) /\ Len(facts(list)) = Len(list)
             /\ size(list) \in Seq(Nat) /\ Len(size(list)) = Len(list)
             /\ dependencies(list) \in Seq(Nat) /\ Len(dependencies(list)) = Len(list)
  <2>1. \A k \in 1..Len(list) : list[k] \in TreeEntry
    OBVIOUS
  <2>2. \A e \in TreeEntry : /\ e.written \in Nat /\ e.facts \in Nat
                             /\ e.size \in Nat /\ e.dependencies \in Nat
    BY DEF TreeEntry
  <2> QED BY <2>1, <2>2
<1>3. Total(written(some)) \in Nat /\ Total(written(all)) \in Nat
        /\ Total(written(some)) <= Total(written(all))
  <2>1. \A k \in 1..Len(some) : written(some)[k] = written(all)[k]
    BY <1>1
  <2> HIDE DEF written
  <2> QED BY <1>2, <2>1, PrefixesCountLess
<1>4. Total(facts(some)) \in Nat /\ Total(facts(all)) \in Nat
        /\ Total(facts(some)) <= Total(facts(all))
  <2>1. \A k \in 1..Len(some) : facts(some)[k] = facts(all)[k]
    BY <1>1
  <2> HIDE DEF facts
  <2> QED BY <1>2, <2>1, PrefixesCountLess
<1>5. Total(size(all)) \in Nat /\ Total(dependencies(all)) \in Nat
  <2> HIDE DEF size, dependencies
  <2> QED BY <1>1, <1>2, PrefixesCountLess
<1> QED BY <1>3, <1>4, <1>5 DEF Totals

(* What has been read counts at most what the tree does. *)
LEMMA ReadingCounts ==
  ASSUME NEW commit, IsTree(history[commit]), NEW files, Of(commit, files),
         Len(files) <= Cardinality(history[commit])
  PROVE  LET all  == Totals(Entries(history[commit]))
             some == Totals(EntriesOf(files))
         IN /\ {all.size, all.written, all.facts, all.dependencies} \subseteq Nat
            /\ some.written <= all.written /\ some.facts <= all.facts
            /\ {some.written, some.facts} \subseteq Nat
            /\ Len(files) = Cardinality(history[commit])
                  => EntriesOf(files) = Entries(history[commit])
<1> DEFINE tree == history[commit]
           some == EntriesOf(files)
           all == Entries(tree)
<1>1. /\ all \in Seq(tree) /\ Len(all) = Cardinality(tree) /\ Cardinality(tree) \in Nat
      /\ Len(files) \in Nat
  BY EntriesAreListed DEF Of
<1>2. all \in Seq(TreeEntry)
  BY <1>1 DEF IsTree
<1>3. \A k \in 1..Len(files) : files[k].entry = all[k] /\ all[k] \in TreeEntry
  <2>1. \A k \in 1..Len(files) : files[k].entry = all[k]
    <3> HIDE DEF all
    <3>1. ReadAsListed(commit, files)
      BY FilesAreEntries
    <3> QED BY <3>1 DEF ReadAsListed, all
  <2>2. ASSUME NEW k \in 1..Len(files) PROVE all[k] \in TreeEntry
    <3>1. k \in 1..Len(all)
      BY <1>1
    <3> HIDE DEF all
    <3> QED BY <1>2, <3>1
  <2> QED BY <2>1, <2>2
<1>4. some \in Seq(TreeEntry) /\ Len(some) = Len(files)
  BY <1>1, <1>3 DEF EntriesOf
<1>5. \A k \in 1..Len(some) : some[k] = all[k]
  BY <1>1, <1>3, <1>4 DEF EntriesOf
<1>6. Len(files) = Cardinality(tree) => some = all
  BY <1>1, <1>2, <1>4, <1>5
<1> HIDE DEF some, all
<1>7. /\ Totals(some).written \in Nat /\ Totals(all).written \in Nat
      /\ Totals(some).written <= Totals(all).written
      /\ Totals(some).facts \in Nat /\ Totals(all).facts \in Nat
      /\ Totals(some).facts <= Totals(all).facts
      /\ Totals(all).size \in Nat /\ Totals(all).dependencies \in Nat
  BY <1>1, <1>2, <1>4, <1>5, TotalsGrow
<1> QED BY <1>6, <1>7 DEF some, all

-----------------------------------------------------------------------------
(* While files are read they are within every limit; an execution that     *)
(* goes on to the end has found its revision indexable, and one that ends  *)
(* for a limit has not.                                                    *)
BudgetInv ==
  /\ run.error \in Errors \cup {None}
  /\ run.at # "remove" => run.error = None
  /\ run.at = "read" =>
       /\ Len(run.files) <= Cardinality(history[run.commit])
       /\ \A k \in 1..Len(run.files) : run.files[k].entry.written <= MaxFileBytes
       /\ Totals(EntriesOf(run.files)).written <= MaxTotalBytes
  /\ run.at = "remove" /\ run.error = None => Indexable(history[run.commit])
  /\ run.at = "remove" /\ run.error = "limit" => ~Indexable(history[disk[run.root].fetched])

LEMMA BudgetInitial == Init => BudgetInv
BY DEF Init, NotRunning, BudgetInv

LEMMA IndexableIsAccepted ==
  ASSUME NEW tree, Indexable(tree) PROVE Accepted(tree)
<1>1. \A e \in tree : e.kind = "regular" /\ e.size \in 0..MaxFileBytes
  BY DEF Indexable
<1>2. Cardinality(tree) \in 0..MaxFiles /\ Totals(Entries(tree)).size \in 0..MaxTotalBytes
  BY DEF Indexable
<1>3. MaxFileBytes \in Nat /\ MaxFiles \in Nat /\ MaxTotalBytes \in Nat
  BY ConstantsAreSound DEF LimitsAreNumbers
<1> QED BY <1>1, <1>2, <1>3 DEF Accepted

LEMMA NothingCountsNothing == Totals(EntriesOf(<<>>)).written = 0
<1>1. Counts([k \in 0..0 |-> 0], <<>>, 0)
  BY DEF Counts
<1>2. Total(<<>>) = 0
  BY <1>1, TotalIs
<1>3. EntriesOf(<<>>) = <<>>
  BY DEF EntriesOf
<1>4. [k \in 1..Len(<<>>) |-> <<>>[k].written] = <<>>
  OBVIOUS
<1> QED BY <1>2, <1>3, <1>4 DEF Totals

LEMMA ThrowKeepsBudget ==
  ASSUME IInv, NEW error \in Errors, run' = Throw(error),
         error = "limit" => /\ UNCHANGED <<history, disk>>
                            /\ ~Indexable(history[disk[run.root].fetched])
  PROVE  BudgetInv'
<1>1. run'.at = "remove" /\ run'.error = error /\ run'.root = run.root /\ error # None
  BY NoneIsNothingElse DEF Throw, IInv, PlaceInv, Fields
<1> QED BY <1>1 DEF BudgetInv

LEMMA ElsewhereKeepsBudget ==
  ASSUME run'.at \notin {"read", "remove"}, run'.error = None PROVE BudgetInv'
BY DEF BudgetInv

LEMMA FileKeepsBudget ==
  ASSUME PathsAreDistinct, IInv, RevisionInv, BudgetInv, NEW outcome, ReadFile(outcome)
  PROVE  BudgetInv'
<1> DEFINE tree == history[run.commit]
           e == CHOOSE x \in Found : TRUE
           all == Totals(Entries(tree))
           some == Totals(EntriesOf(WithFound))
<1>1. /\ run.at = "read" /\ UNCHANGED <<history, disk>>
      /\ Len(run.files) < Len(run.tracked)
      /\ run.tracked = Tracked(tree) /\ run.commit = disk[run.root].fetched
      /\ disk[run.root].worktree = run.commit
      /\ run.commit \in Commits
  BY ReadingSteps DEF IInv, PlaceInv, RevisionInv
<1>2. IsTree(tree)
  BY <1>1, TreesAreTrees DEF IInv
<1>3. Cardinality(tree) \in Nat /\ Len(run.tracked) = Cardinality(tree)
  <2>1. Cardinality(tree) \in Nat
    BY <1>2, EntriesAreListed
  <2> HIDE DEF tree
  <2> QED BY <1>1, <2>1 DEF Tracked
<1>4. CASE run' \in {Throw("missing"), Throw("fault")}
  BY <1>4, ThrowKeepsBudget DEF Errors
<1>5. ASSUME Found # {}
      PROVE  /\ Of(run.commit, WithFound) /\ Len(WithFound) = Len(run.files) + 1
             /\ Len(run.files) \in Nat
             /\ Len(WithFound) <= Cardinality(tree)
             /\ e \in tree
             /\ WithFound[Len(run.files) + 1].entry = e
             /\ \A k \in 1..Len(run.files) : WithFound[k] = run.files[k]
  <2>1. Of(run.commit, WithFound) /\ Of(run.commit, run.files)
    BY <1>1, <1>5, FileIsRead DEF RevisionInv
  <2>2. run.files \in Seq(Readings(run.commit))
    BY <2>1 DEF Of
  <2>3. e \in tree
    BY <1>1, <1>5 DEF Found
  <2> HIDE DEF e, tree
  <2>4. WithFound = Append(run.files, [path |-> Wanted, entry |-> e])
    BY DEF WithFound, e
  <2> QED BY <1>1, <1>3, <2>1, <2>2, <2>3, <2>4
<1>6. ASSUME Found # {}
      PROVE  /\ {all.size, all.written, all.facts, all.dependencies} \subseteq Nat
             /\ some.written <= all.written /\ some.facts <= all.facts
             /\ {some.written, some.facts} \subseteq Nat
             /\ MaxFacts \in Nat /\ MaxTotalBytes \in Nat /\ MaxFileBytes \in Nat
             /\ e.written \in Nat
  <2>1. /\ {all.size, all.written, all.facts, all.dependencies} \subseteq Nat
        /\ some.written <= all.written /\ some.facts <= all.facts
        /\ {some.written, some.facts} \subseteq Nat
    BY <1>2, <1>5, <1>6, ReadingCounts
  <2>2. MaxFacts \in Nat /\ MaxTotalBytes \in Nat /\ MaxFileBytes \in Nat
    BY ConstantsAreSound DEF LimitsAreNumbers
  <2>3. e \in TreeEntry
    BY <1>2, <1>5, <1>6 DEF IsTree
  <2>4. e.written \in Nat
    BY <2>3 DEF TreeEntry
  <2> QED BY <2>1, <2>2, <2>4
<1>7. CASE Found # {} /\ TooMuch /\ run' = Throw("limit")
  <2>1. /\ e.written \notin 0..MaxFileBytes \/ all.written \notin 0..MaxTotalBytes
           \/ all.facts + all.dependencies \notin 0..MaxFacts
    <3> HIDE DEF e, all, some
    <3>1. e.written > MaxFileBytes \/ some.written > MaxTotalBytes \/ some.facts > MaxFacts
      BY <1>7 DEF TooMuch, e, some
    <3> QED BY <1>6, <1>7, <3>1
  <2>2. ~Indexable(tree)
    BY <1>5, <1>7, <2>1 DEF Indexable
  <2> QED BY <1>1, <1>7, <2>2, ThrowKeepsBudget DEF Errors
<1>8. CASE Found # {} /\ ~TooMuch /\ run' = [run EXCEPT !.files = WithFound]
  <2>1. /\ run'.at = "read" /\ run'.files = WithFound /\ run'.commit = run.commit
        /\ run'.error = run.error
    BY <1>1, <1>8 DEF IInv, PlaceInv, Fields
  <2>2. e.written <= MaxFileBytes /\ some.written <= MaxTotalBytes
    <3> HIDE DEF e, all, some
    <3>1. ~(e.written > MaxFileBytes) /\ ~(some.written > MaxTotalBytes)
      BY <1>8 DEF TooMuch, e, some
    <3> QED BY <1>6, <1>8, <3>1
  <2>3. ASSUME NEW k \in 1..Len(WithFound) PROVE WithFound[k].entry.written <= MaxFileBytes
    <3>1. CASE k = Len(run.files) + 1
      BY <1>5, <1>8, <2>2, <3>1
    <3>2. CASE k # Len(run.files) + 1
      <4>1. k \in 1..Len(run.files)
        BY <1>5, <1>8, <3>2
      <4> QED BY <1>1, <1>5, <1>8, <4>1 DEF BudgetInv
    <3> QED BY <3>1, <3>2
  <2> HIDE DEF e, all
  <2> QED BY <1>1, <1>5, <1>8, <2>1, <2>2, <2>3 DEF BudgetInv
<1> QED BY <1>4, <1>7, <1>8, ReadingSteps

LEMMA DeriveKeepsBudget ==
  ASSUME PathsAreDistinct, IInv, RevisionInv, BudgetInv, Derive
  PROVE  BudgetInv'
<1> DEFINE tree == history[run.commit]
           total == Totals(EntriesOf(run.files))
<1>1. /\ run.at = "read" /\ UNCHANGED <<history, disk>>
      /\ Len(run.files) = Len(run.tracked)
      /\ run.tracked = Tracked(tree) /\ run.commit = disk[run.root].fetched
      /\ run.commit \in Commits /\ Accepted(tree) /\ Of(run.commit, run.files)
  BY DEF Derive, At, IInv, PlaceInv, RevisionInv
<1>2. IsTree(tree)
  BY <1>1, TreesAreTrees DEF IInv
<1>3. Cardinality(tree) \in Nat /\ Len(run.tracked) = Cardinality(tree)
  <2>1. Cardinality(tree) \in Nat
    BY <1>2, EntriesAreListed
  <2> HIDE DEF tree
  <2> QED BY <1>1, <2>1 DEF Tracked
<1>4. /\ EntriesOf(run.files) = Entries(tree)
      /\ {total.size, total.written, total.facts, total.dependencies} \subseteq Nat
  <2>1. Len(run.files) <= Cardinality(tree) /\ Len(run.files) = Cardinality(tree)
    BY <1>1, <1>3
  <2> QED BY <1>1, <1>2, <2>1, ReadingCounts, SMTT(40)
<1>5. MaxFacts \in Nat /\ MaxTotalBytes \in Nat /\ MaxFileBytes \in Nat /\ MaxFiles \in Nat
  BY ConstantsAreSound DEF LimitsAreNumbers
<1>6. CASE total.facts + total.dependencies > MaxFacts
  <2>1. run' = Throw("limit")
    BY <1>6 DEF Derive
  <2>2. total.facts + total.dependencies \notin 0..MaxFacts
    <3> HIDE DEF total
    <3> QED BY <1>4, <1>5, <1>6
  <2>3. ~Indexable(tree)
    BY <1>4, <2>2 DEF Indexable
  <2> QED BY <1>1, <2>1, <2>3, ThrowKeepsBudget DEF Errors
<1>7. CASE ~(total.facts + total.dependencies > MaxFacts)
  <2>1. run' = [run EXCEPT !.at = "remove"]
    BY <1>7 DEF Derive
  <2>2. /\ run'.at = "remove" /\ run'.commit = run.commit /\ run'.error = None
    BY <1>1, <2>1 DEF IInv, PlaceInv, Fields, BudgetInv
  <2>3. \A e \in tree : e.kind = "regular" /\ {e.size, e.written} \subseteq 0..MaxFileBytes
    <3>1. ASSUME NEW e \in tree
          PROVE  e.kind = "regular" /\ {e.size, e.written} \subseteq 0..MaxFileBytes
      <4>1. e.kind = "regular" /\ e.size <= MaxFileBytes
        BY <1>1 DEF Accepted
      <4>2. e.size \in Nat /\ e.written \in Nat
        BY <1>2 DEF IsTree, TreeEntry
      <4>3. PICK k \in 1..Cardinality(tree) : Entries(tree)[k] = e
        BY <1>2, EntriesAreListed
      <4>4. k \in 1..Len(run.files)
        BY <1>1, <1>3
      <4>5. e = run.files[k].entry
        <5>1. EntriesOf(run.files)[k] = run.files[k].entry
          BY <4>4 DEF EntriesOf
        <5> QED BY <1>4, <4>3, <5>1
      <4>6. e.written <= MaxFileBytes
        BY <1>1, <4>4, <4>5 DEF BudgetInv
      <4> QED BY <1>5, <4>1, <4>2, <4>6
    <3> QED BY <3>1
  <2>4. Cardinality(tree) \in 0..MaxFiles
    BY <1>1, <1>3, <1>5 DEF Accepted
  <2>5. {total.size, total.written} \subseteq 0..MaxTotalBytes
    <3>1. total.size <= MaxTotalBytes
      BY <1>1, <1>4 DEF Accepted
    <3>2. total.written <= MaxTotalBytes
      BY <1>1 DEF BudgetInv
    <3> HIDE DEF total
    <3> QED BY <1>4, <1>5, <3>1, <3>2
  <2>6. total.facts + total.dependencies \in 0..MaxFacts
    <3> HIDE DEF total
    <3> QED BY <1>4, <1>5, <1>7
  <2>7. Indexable(tree)
    BY <1>4, <2>3, <2>4, <2>5, <2>6 DEF Indexable
  <2> QED BY <1>1, <2>2, <2>7, NoneIsNothingElse DEF BudgetInv, Errors
<1> QED BY <1>6, <1>7

LEMMA BudgetInductive ==
  ASSUME PathsAreDistinct, IInv, RevisionInv, BudgetInv, [Next]_vars
  PROVE  BudgetInv'
<1>1. ASSUME NEW source \in Sources, NEW policy \in Policies, NEW option \in BOOLEAN,
             Ask(source, policy, option)
      PROVE  BudgetInv'
  <2>1. CASE UNCHANGED run
    <3>1. run'.at = "idle" /\ run'.error = None
      BY <1>1, <2>1 DEF Ask, At, BudgetInv
    <3> QED BY <3>1, ElsewhereKeepsBudget
  <2>2. CASE run' = [NotRunning EXCEPT !.at = "mkdtemp", !.named = {remote} \ {None}]
    <3>1. run'.at = "mkdtemp" /\ run'.error = None
      BY <2>2 DEF NotRunning
    <3> QED BY <3>1, ElsewhereKeepsBudget
  <2> QED BY <1>1, <2>1, <2>2 DEF Ask
<1>2. ASSUME NEW outcome \in Outcomes, MakeRoot(outcome) PROVE BudgetInv'
  <2>1. run.at = "mkdtemp" /\ run.error = None
    BY <1>2 DEF MakeRoot, At, BudgetInv
  <2>2. CASE run' = NotRunning
    <3>1. run'.at = "idle" /\ run'.error = None
      BY <2>2 DEF NotRunning
    <3> QED BY <3>1, ElsewhereKeepsBudget
  <2>3. ASSUME NEW d, run' = [run EXCEPT !.at = "init", !.root = d] PROVE BudgetInv'
    <3>1. run'.at = "init" /\ run'.error = None
      BY <2>1, <2>3 DEF IInv, PlaceInv, Fields
    <3> QED BY <3>1, ElsewhereKeepsBudget
  <2> QED BY <1>2, <2>2, <2>3 DEF MakeRoot
<1>3. ASSUME NEW outcome \in Outcomes,
             Prepare(outcome) \/ Fetch(outcome) \/ Resolve(outcome)
      PROVE  BudgetInv'
  <2>1. CASE outcome = "ok"
    <3>1. run'.at \in {"remote", "fetch", "resolve", "inventory"} /\ run'.error = None
      BY <1>3, <2>1
         DEF Prepare, Fetch, Resolve, Proceed, At, IInv, PlaceInv, Fields, BudgetInv
    <3> QED BY <3>1, ElsewhereKeepsBudget
  <2>2. CASE outcome # "ok"
    BY <1>3, <2>2, ThrowKeepsBudget DEF Prepare, Fetch, Resolve, Proceed, Errors
  <2> QED BY <2>1, <2>2
<1>4. ASSUME NEW outcome \in Outcomes, Inventory(outcome) PROVE BudgetInv'
  <2>1. run.at = "inventory" /\ UNCHANGED <<history, disk>>
    BY <1>4 DEF Inventory, At
  <2>2. CASE outcome # "ok"
    BY <1>4, <2>2, ThrowKeepsBudget DEF Inventory, Proceed, Errors
  <2>3. CASE outcome = "ok" /\ ~Accepted(history[disk[run.root].fetched])
    BY <1>4, <2>1, <2>3, IndexableIsAccepted, ThrowKeepsBudget DEF Inventory, Proceed, Errors
  <2>4. CASE outcome = "ok" /\ Accepted(history[disk[run.root].fetched])
    <3>1. run'.at = "checkout" /\ run'.error = None
      BY <1>4, <2>1, <2>4 DEF Inventory, Proceed, IInv, PlaceInv, Fields, BudgetInv
    <3> QED BY <3>1, ElsewhereKeepsBudget
  <2> QED BY <2>2, <2>3, <2>4
<1>5. ASSUME NEW outcome \in Outcomes, Checkout(outcome) PROVE BudgetInv'
  <2>1. CASE outcome # "ok"
    BY <1>5, <2>1, ThrowKeepsBudget DEF Checkout, Proceed, Errors
  <2>2. CASE outcome = "ok"
    <3>1. /\ run.at = "checkout" /\ run' = [run EXCEPT !.at = "read"] /\ history' = history
          /\ run.commit = disk[run.root].fetched /\ run.commit \in Commits
          /\ run.files = <<>>
      BY <1>5, <2>2 DEF Checkout, At, Proceed, RevisionInv, IInv, PlaceInv
    <3>2. /\ run'.at = "read" /\ run'.error = None /\ run'.files = <<>>
          /\ run'.commit = run.commit
      BY <3>1 DEF IInv, PlaceInv, Fields, BudgetInv
    <3>3. Cardinality(history[run.commit]) \in Nat
      BY <3>1, TreesAreTrees, EntriesAreListed DEF IInv
    <3>4. MaxTotalBytes \in Nat
      BY ConstantsAreSound DEF LimitsAreNumbers
    <3>5. Len(<<>>) = 0
      OBVIOUS
    <3> QED BY <3>1, <3>2, <3>3, <3>4, <3>5, NothingCountsNothing DEF BudgetInv
  <2> QED BY <2>1, <2>2
<1>6. ASSUME NEW outcome \in Outcomes, ReadFile(outcome) PROVE BudgetInv'
  BY <1>6, FileKeepsBudget
<1>7. ASSUME Derive PROVE BudgetInv'
  BY <1>7, DeriveKeepsBudget
<1>8. ASSUME NEW outcome \in Outcomes, RemoveRoot(outcome) \/ Crash PROVE BudgetInv'
  <2>1. run'.at = "idle" /\ run'.error = None
    BY <1>8 DEF RemoveRoot, Crash, NotRunning
  <2> QED BY <2>1, ElsewhereKeepsBudget
<1>9. ASSUME NEW c \in Commits \cup {None}, MoveRef(c) \/ UNCHANGED vars PROVE BudgetInv'
  <2>1. /\ UNCHANGED <<history, disk>>
        /\ run'.at = run.at /\ run'.error = run.error /\ run'.files = run.files
        /\ run'.commit = run.commit /\ run'.root = run.root
    BY <1>9 DEF MoveRef, vars, IInv, PlaceInv, Fields
  <2> QED BY <2>1 DEF BudgetInv
<1>10. CASE Step
  <2>1. CASE Derive
    BY <1>7, <2>1
  <2>2. ASSUME NEW outcome \in Outcomes,
               \/ MakeRoot(outcome) \/ Prepare(outcome)
               \/ Fetch(outcome) \/ Resolve(outcome)
               \/ Inventory(outcome) \/ Checkout(outcome)
               \/ ReadFile(outcome) \/ RemoveRoot(outcome)
        PROVE  BudgetInv'
    BY <1>2, <1>3, <1>4, <1>5, <1>6, <1>8, <2>2
  <2> QED BY <1>10, <2>1, <2>2 DEF Step
<1>11. CASE Crash
  BY <1>8, <1>11 DEF Outcomes
<1>12. CASE UNCHANGED vars
  BY <1>9, <1>12
<1> QED BY <1>1, <1>9, <1>10, <1>11, <1>12 DEF Next

LEMMA BudgetInvariant ==
  ASSUME PathsAreDistinct PROVE Spec => [](RevisionInv /\ BudgetInv)
<1>1. Spec => []RevisionInv
  BY RevisionInitial, RevisionInductive, InductiveInvariant, PTL DEF Spec
<1>2. IInv /\ RevisionInv /\ BudgetInv /\ [Next]_vars => BudgetInv'
  BY BudgetInductive
<1> QED BY <1>1, <1>2, BudgetInitial, InductiveInvariant, PTL DEF Spec

(***************************************************************************)
(* The property LimitsAreExact.  An execution ends for a limit only when   *)
(* the revision it has fetched breaks one, though the limits are looked at *)
(* in different places and while the facts are counted file by file; and   *)
(* no directory ever holds a tree that breaks a limit of trees.            *)
(***************************************************************************)
THEOREM LimitsHold ==
  ASSUME PathsAreDistinct
  PROVE  Spec => []LimitsAreExact
<1>1. IInv /\ BudgetInv => LimitsAreExact
  BY DEF IInv, BudgetInv, LimitsAreExact, LimitErrorsAreTrue, At
<1> QED BY <1>1, BudgetInvariant, InductiveInvariant, PTL

-----------------------------------------------------------------------------
(* The executor as those see it who ask it: Shown is what they are shown.  *)
LEMMA SameIndexable ==
  \A tree : /\ Promised!Indexable(tree) <=> Indexable(tree)
           /\ Promised!Listing(tree) = Listing(tree)
<1> SUFFICES ASSUME NEW tree
             PROVE  /\ Promised!Indexable(tree) <=> Indexable(tree)
                    /\ Promised!Listing(tree) = Listing(tree)
  OBVIOUS
<1>1. Promised!Entries(tree) = Entries(tree)
  BY DEF Promised!Entries, Entries, Promised!InPathOrder, InPathOrder,
         Promised!Cardinality, Cardinality
<1>2. \A numbers : Promised!Total(numbers) = Total(numbers)
  BY DEF Promised!Total, Total
<1>3. Promised!Totals(Entries(tree)) = Totals(Entries(tree))
  BY <1>2 DEF Promised!Totals, Totals
<1>4. Promised!Cardinality(tree) = Cardinality(tree)
  BY DEF Promised!Cardinality, Cardinality
<1> QED BY <1>1, <1>3, <1>4 DEF Promised!Indexable, Indexable, Promised!Listing, Listing

LEMMA ErrorsAreShown ==
  ASSUME NEW error \in Errors, answer' = Failed(error) PROVE Shown' = Promised!Failure
BY NoneIsNothingElse DEF Shown, Failed, Promised!Failure

(* What is returned is what was promised. *)
LEMMA AnswersAreShown ==
  ASSUME PathsAreDistinct, IInv, RevisionInv, BudgetInv,
         run.at = "remove", run.error = None,
         answer' = [commit |-> run.commit, files |-> run.files]
  PROVE  /\ run.commit \in run.named /\ Indexable(history[run.commit])
         /\ Shown' = [commit |-> run.commit, files |-> Listing(history[run.commit])]
<1> DEFINE tree == history[run.commit]
<1>1. /\ run.commit \in run.named /\ run.commit \in Commits /\ Indexable(tree)
      /\ Len(run.files) = Len(Tracked(tree)) /\ Of(run.commit, run.files)
  BY DEF RevisionInv, BudgetInv, WholeAnswer, IInv, TypeOK
<1>2. IsTree(tree)
  BY <1>1, TreesAreTrees DEF IInv
<1>3. Cardinality(tree) \in Nat /\ Len(run.files) = Cardinality(tree)
  <2>1. Cardinality(tree) \in Nat
    BY <1>2, EntriesAreListed
  <2> HIDE DEF tree
  <2> QED BY <1>1, <2>1 DEF Tracked
<1>4. ReadAsListed(run.commit, run.files)
  BY <1>1, <1>2, <1>3, FilesAreEntries
<1>5. DOMAIN run.files = 1..Cardinality(tree) /\ run.files \in Seq(Readings(run.commit))
  BY <1>1, <1>3 DEF Of
<1>6. {run.files[k] : k \in DOMAIN run.files} = Listing(tree)
  <2>1. ASSUME NEW k \in DOMAIN run.files PROVE run.files[k] \in Listing(tree)
    <3>1. Entries(tree)[k] \in tree
      BY <1>2, <1>3, <1>5, EntriesAreListed
    <3> QED BY <1>3, <1>4, <1>5, <3>1 DEF ReadAsListed, Listing
  <2>2. ASSUME NEW e \in tree
        PROVE  [path |-> PathOf[e.name], entry |-> e] \in {run.files[k] : k \in DOMAIN run.files}
    <3>1. PICK k \in 1..Cardinality(tree) : Entries(tree)[k] = e
      BY <1>2, EntriesAreListed
    <3> QED BY <1>3, <1>4, <1>5, <3>1 DEF ReadAsListed
  <2> QED BY <2>1, <2>2 DEF Listing
<1>7. answer' # None
  <2> DEFINE File == [path : DOMAIN PathOf, entry : TreeEntry]
  <2>1. run.files \in Seq(File)
    <3>1. ASSUME NEW k \in 1..Len(run.files)
          PROVE  run.files[k] \in File
      <4>1. run.files[k] \in Listing(tree)
        BY <1>3, <1>5, <1>6
      <4>2. PICK e \in tree : run.files[k] = [path |-> PathOf[e.name], entry |-> e]
        BY <4>1 DEF Listing
      <4>3. e \in TreeEntry
        BY <1>2 DEF IsTree
      <4>4. PathOf[e.name] \in DOMAIN PathOf
        BY <4>3, ConstantsAreSound DEF TreeEntry, PathsAreNames
      <4> QED BY <4>2, <4>3, <4>4
    <3> HIDE DEF File
    <3> QED BY <1>5, <3>1
  <2>2. answer' \in [commit : Commits, files : Seq(File)]
    <3> HIDE DEF File
    <3> QED BY <1>1, <2>1
  <2> QED BY <2>2, NoneIsNothingElse
<1>8. "error" \notin DOMAIN answer'
  OBVIOUS
<1>9. Shown' = [answer' EXCEPT !.files = {answer'.files[k] : k \in DOMAIN answer'.files}]
  BY <1>7, <1>8 DEF Shown
<1> QED BY <1>1, <1>6, <1>9

LEMMA PromiseInitial == Init => Promised!Init
BY DEF Init, NotRunning, Promised!Init, Shown

(* What is not shown. *)
LEMMA HiddenSteps ==
  ASSUME UNCHANGED <<history, remote, answer>>, run'.named = run.named,
         run'.at # "idle" <=> run.at # "idle"
  PROVE  UNCHANGED Promised!vars
BY DEF Promised!vars, Shown

(* A question ends with an error. *)
LEMMA Failures ==
  ASSUME run.at # "idle", run' = NotRunning, UNCHANGED <<history, remote>>,
         NEW error \in Errors, answer' = Failed(error)
  PROVE  Promised!Answer
<1>1. Shown' = Promised!Failure
  BY ErrorsAreShown
<1>2. run'.at = "idle" /\ run'.named = {}
  BY DEF NotRunning
<1> QED BY <1>1, <1>2 DEF Promised!Answer, Shown

LEMMA PromiseStep ==
  ASSUME PathsAreDistinct, IInv, RevisionInv, BudgetInv, [Next]_vars
  PROVE  [Promised!Next]_(Promised!vars)
<1>1. ASSUME NEW source \in Sources, NEW policy \in Policies, NEW option \in BOOLEAN,
             Ask(source, policy, option)
      PROVE  Promised!Next
  <2>1. run.at = "idle" /\ UNCHANGED <<history, remote>>
    BY <1>1 DEF Ask, At
  <2>2. CASE answer' = Failed("source") /\ UNCHANGED run
    <3>1. Shown' = Promised!Failure
      BY <2>2, ErrorsAreShown DEF Errors
    <3>2. Promised!Refuse
      BY <2>1, <2>2, <3>1 DEF Promised!Refuse, Shown
    <3> QED BY <3>2 DEF Promised!Next
  <2>3. CASE /\ run' = [NotRunning EXCEPT !.at = "mkdtemp", !.named = {remote} \ {None}]
             /\ answer' = None
    <3>1. run'.at = "mkdtemp" /\ run'.named = {remote} \ {None}
      BY <2>3 DEF NotRunning
    <3>2. Shown' = None
      BY <2>3 DEF Shown
    <3>3. Promised!Ask
      BY <2>1, <3>1, <3>2 DEF Promised!Ask, Shown
    <3> QED BY <3>3 DEF Promised!Next
  <2> QED BY <1>1, <2>2, <2>3 DEF Ask
<1>2. ASSUME NEW outcome \in Outcomes, MakeRoot(outcome)
      PROVE  Promised!Next \/ UNCHANGED Promised!vars
  <2>1. run.at = "mkdtemp" /\ UNCHANGED <<history, remote>>
    BY <1>2 DEF MakeRoot, At
  <2>2. CASE run' = NotRunning /\ answer' = Failed("fault")
    <3>1. Promised!Answer
      BY <2>1, <2>2, Failures DEF Errors
    <3> QED BY <3>1 DEF Promised!Next
  <2>3. ASSUME NEW d, run' = [run EXCEPT !.at = "init", !.root = d], answer' = answer
        PROVE  UNCHANGED Promised!vars
    <3>1. run'.at = "init" /\ run'.named = run.named
      BY <2>3 DEF IInv, PlaceInv, Fields
    <3> QED BY <2>1, <2>3, <3>1, HiddenSteps
  <2> QED BY <1>2, <2>2, <2>3 DEF MakeRoot
<1>3. ASSUME NEW outcome \in Outcomes,
             \/ Prepare(outcome) \/ Fetch(outcome) \/ Resolve(outcome)
             \/ Inventory(outcome) \/ Checkout(outcome) \/ ReadFile(outcome) \/ Derive
      PROVE  UNCHANGED Promised!vars
  <2>1. UNCHANGED <<history, remote, answer>> /\ run.at # "idle"
    BY <1>3, ReadingSteps DEF Prepare, Fetch, Resolve, Inventory, Checkout, Derive, At
  <2>2. \A error : Throw(error).at # "idle" /\ Throw(error).named = run.named
    BY DEF Throw, IInv, PlaceInv, Fields
  <2>3. run'.at # "idle" /\ run'.named = run.named
    <3>1. ASSUME Prepare(outcome) \/ Fetch(outcome) \/ Resolve(outcome)
                   \/ Inventory(outcome) \/ Checkout(outcome)
          PROVE  run'.at # "idle" /\ run'.named = run.named
      BY <2>2, <3>1
         DEF Prepare, Fetch, Resolve, Inventory, Checkout, Proceed, IInv, PlaceInv, Fields
    <3>2. ASSUME ReadFile(outcome) PROVE run'.at # "idle" /\ run'.named = run.named
      BY <2>1, <2>2, <3>2, ReadingSteps DEF IInv, PlaceInv, Fields
    <3>3. ASSUME Derive PROVE run'.at # "idle" /\ run'.named = run.named
      BY <2>2, <3>3 DEF Derive, IInv, PlaceInv, Fields
    <3> QED BY <1>3, <3>1, <3>2, <3>3
  <2> QED BY <2>1, <2>3, HiddenSteps
<1>4. ASSUME NEW outcome \in Outcomes, RemoveRoot(outcome) PROVE Promised!Answer
  <2>1. run.at = "remove" /\ run' = NotRunning /\ UNCHANGED <<history, remote>>
    BY <1>4 DEF RemoveRoot, At
  <2>2. CASE outcome # "ok"
    BY <1>4, <2>1, <2>2, Failures DEF RemoveRoot, Returned, Errors
  <2>3. CASE outcome = "ok" /\ run.error # None
    <3>1. run.error \in Errors /\ answer' = Failed(run.error)
      BY <1>4, <2>1, <2>3 DEF RemoveRoot, Returned, BudgetInv
    <3> QED BY <2>1, <3>1, Failures
  <2>4. CASE outcome = "ok" /\ run.error = None
    <3>1. answer' = [commit |-> run.commit, files |-> run.files]
      BY <1>4, <2>4 DEF RemoveRoot, Returned
    <3>2. /\ run.commit \in run.named /\ Promised!Indexable(history[run.commit])
          /\ Shown' = [commit |-> run.commit,
                       files |-> Promised!Listing(history[run.commit])]
      BY <2>1, <2>4, <3>1, AnswersAreShown, SameIndexable
    <3>3. run'.at = "idle" /\ run'.named = {}
      BY <2>1 DEF NotRunning
    <3> QED BY <2>1, <3>2, <3>3 DEF Promised!Answer, Shown
  <2> QED BY <2>2, <2>3, <2>4
<1>5. ASSUME NEW c \in Commits \cup {None}, MoveRef(c) PROVE Promised!Move
  <2>1. /\ UNCHANGED <<history, answer>> /\ remote' = c /\ run'.at = run.at
        /\ run'.named = IF run.at # "idle" THEN run.named \cup ({c} \ {None}) ELSE run.named
    BY <1>5 DEF MoveRef, At, IInv, PlaceInv, Fields
  <2> QED BY <2>1 DEF Promised!Move, Shown
<1>6. ASSUME Crash PROVE Promised!Forget
  <2>1. /\ run.at # "idle" /\ UNCHANGED <<history, remote, answer>>
        /\ run'.at = "idle" /\ run'.named = {}
    BY <1>6 DEF Crash, At, NotRunning
  <2> QED BY <2>1 DEF Promised!Forget, Shown
<1>7. ASSUME UNCHANGED vars PROVE UNCHANGED Promised!vars
  BY <1>7, HiddenSteps DEF vars
<1>8. CASE Step
  BY <1>2, <1>3, <1>4, <1>8 DEF Step, Promised!Next, Outcomes
<1> QED BY <1>1, <1>5, <1>6, <1>7, <1>8 DEF Next, Promised!Next

(***************************************************************************)
(* The safety half of KeepsThePromise: whatever commands fail, are killed  *)
(* or cut off by a crash, and wherever the ref moves in between, those who *)
(* ask see an execution that takes a single step, from the question to one *)
(* whole indexable revision the ref has named since, or to an error.       *)
(***************************************************************************)
THEOREM ExecutorImplementsPromise ==
  ASSUME PathsAreDistinct
  PROVE  Spec => Promised!Safety
<1>1. IInv /\ RevisionInv /\ BudgetInv /\ [Next]_vars => [Promised!Next]_(Promised!vars)
  BY PromiseStep
<1> QED
  BY <1>1, PromiseInitial, BudgetInvariant, InductiveInvariant, PTL DEF Spec, Promised!Safety
=============================================================================
