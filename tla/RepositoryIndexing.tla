------------------------- MODULE RepositoryIndexing -------------------------
(***************************************************************************)
(* The life of repository indexes: their rows and facts in the database,   *)
(* the one execution that rebuilds them, and the operations that read the  *)
(* facts, some of them under the key of the workspace (scan_start,         *)
(* scan_complete) and some under no key at all (search, evidence           *)
(* candidates, boundary map, finding validation).                          *)
(*                                                                         *)
(* The facts of an index are named by the revision they were built from.   *)
(* A requested ref may move: an execution resolves it to any revision.     *)
(* lock is what OperationCoordinator guarantees: who executes under the    *)
(* key of each workspace, one at a time.  Every database call is a step,   *)
(* and may fail before or after it took effect; the process may crash.     *)
(***************************************************************************)
EXTENDS Naturals, Sequences

CONSTANTS Workspaces,
          Indexes,     \* repository indexes, of all workspaces
          Owner,       \* the workspace of each index and of each scan
          Revisions,   \* commits a requested ref may resolve to
          Scans,       \* scan ids, looked up in their workspace
          Sessions,    \* operations that may read facts at the same time
          None         \* absent: no revision, no facts, no holder

ASSUME RowsAreOwned == Owner \in [Indexes \cup Scans -> Workspaces]

ASSUME DistinctNames == /\ None \notin Indexes \cup Revisions \cup Scans \cup Sessions
                        /\ "execution" \notin Sessions \cup {None}

VARIABLES record,    \* rows of repository_indexes
          facts,     \* per index, the revision its fact rows were built from
          lock,      \* per workspace, the holder of its key
          execution, \* the execution that holds the global key
          session,   \* the operations that read facts
          scan       \* scan runs, as far as they depend on an index

vars == <<record, facts, lock, execution, session, scan>>

ActiveStages == {"resolving_ref", "checking_out", "discovering",
                 "indexing_syntax", "normalizing"}
Stages == {"absent", "requested", "completed", "failed"} \cup ActiveStages

MaybeRevision == Revisions \cup {None}

Locked == {"start", "complete"}
Unlocked == {"candidates", "boundary"}

NoExecution == [at |-> "none", index |-> None, fresh |-> TRUE, revision |-> None]
NoSession == [kind |-> "none", index |-> None, scan |-> None, commit |-> None,
              seen |-> <<>>]
NoScan == [status |-> "none", index |-> None, revision |-> None,
           coverage |-> None, evidence |-> {}]

Init == /\ record = [i \in Indexes |-> [stage |-> "absent", commit |-> None,
                                        stats |-> None]]
        /\ facts = [i \in Indexes |-> None]
        /\ lock = [w \in Workspaces |-> None]
        /\ execution = NoExecution
        /\ session = [s \in Sessions |-> NoSession]
        /\ scan = [n \in Scans |-> NoScan]

Free(w) == lock[w] = None

(* Whether a database call took effect, and whether the caller was told so. *)
Outcomes == {"ok", "lost", "failed"}

-----------------------------------------------------------------------------
(* startRepositoryIndex: one row, refused when the id exists. *)
StartIndex(i) ==
  /\ Free(Owner[i])
  /\ record[i].stage = "absent"
  /\ record' = [record EXCEPT ![i].stage = "requested"]
  /\ UNCHANGED <<facts, lock, execution, session, scan>>

-----------------------------------------------------------------------------
(* executeRepositoryIndexMutation, one action per database call.           *)

At(place) == execution.at = place

Finish == /\ lock' = [lock EXCEPT ![Owner[execution.index]] = None]
          /\ execution' = NoExecution

(* Faulty variant: the key is given back while the execution goes on, as   *)
(* when the mutation is not awaited.                                       *)
ProceedUnlocked(place) ==
  /\ execution' = [execution EXCEPT !.at = place]
  /\ lock' = [lock EXCEPT ![Owner[execution.index]] = None]

Proceed(place) == /\ execution' = [execution EXCEPT !.at = place]
                  /\ UNCHANGED lock

(* Faulty variants: only ended attempts count as earlier ones; the key of  *)
(* the workspace is not waited for.                                        *)
BeginExecutionTrustsActive(i) ==
  /\ execution = NoExecution
  /\ Free(Owner[i])
  /\ record[i].stage # "absent"
  /\ lock' = [lock EXCEPT ![Owner[i]] = "execution"]
  /\ execution' = [at |-> "mark", index |-> i,
                   fresh |-> record[i].stage \notin {"completed", "failed"},
                   revision |-> None]
  /\ UNCHANGED <<record, facts, session, scan>>

BeginExecutionAtOnce(i) ==
  /\ execution = NoExecution
  /\ record[i].stage # "absent"
  /\ lock' = [lock EXCEPT ![Owner[i]] = "execution"]
  /\ execution' = [at |-> "mark", index |-> i,
                   fresh |-> record[i].stage = "requested", revision |-> None]
  /\ UNCHANGED <<record, facts, session, scan>>

(* Read the row: any stage may be executed, an active one too. *)
BeginExecution(i) ==
  /\ execution = NoExecution
  /\ Free(Owner[i])
  /\ record[i].stage # "absent"
  /\ lock' = [lock EXCEPT ![Owner[i]] = "execution"]
  /\ execution' = [at |-> "mark", index |-> i,
                   fresh |-> record[i].stage = "requested", revision |-> None]
  /\ UNCHANGED <<record, facts, session, scan>>

(* createRepositoryIndexExecutionRecord, outside the try block: an error   *)
(* ends the execution without a failed row.                                *)
MarkResolving(outcome) ==
  /\ At("mark")
  /\ record' = IF outcome = "failed" THEN record
               ELSE [record EXCEPT ![execution.index] =
                       [stage |-> "resolving_ref", commit |-> None, stats |-> None]]
  /\ IF outcome = "ok"
     THEN Proceed(IF execution.fresh THEN "bump" ELSE "clear")
     ELSE Finish
  /\ UNCHANGED <<facts, session, scan>>

(* Facts of an earlier attempt go in one transaction, also outside the try. *)
ClearContents(outcome) ==
  /\ At("clear")
  /\ facts' = IF outcome = "failed" THEN facts
              ELSE [facts EXCEPT ![execution.index] = None]
  /\ IF outcome = "ok" THEN Proceed("bump") ELSE Finish
  /\ UNCHANGED <<record, session, scan>>

NextStage == [resolving_ref   |-> "checking_out",
              checking_out    |-> "discovering",
              discovering     |-> "indexing_syntax",
              indexing_syntax |-> "normalizing"]

(* bumpRepositoryIndexStage: read the row, write it back with the next     *)
(* stage and, once the executor has answered, the resolved commit.         *)
Bump(outcome) ==
  LET i    == execution.index
      next == NextStage[record[i].stage]
  IN /\ At("bump")
     /\ record' = IF outcome = "failed" THEN record
                  ELSE [record EXCEPT ![i].stage = next,
                                      ![i].commit = execution.revision]
     /\ Proceed(IF outcome # "ok" THEN "catch"
                ELSE CASE next = "checking_out" -> "execute"
                       [] next = "normalizing"  -> "replace"
                       [] OTHER                 -> "bump")
     /\ UNCHANGED <<facts, session, scan>>

(* The executor checks out whatever the ref resolves to, or fails. *)
RunExecutor(r) ==
  /\ At("execute")
  /\ execution' = [execution EXCEPT !.at = IF r = None THEN "catch" ELSE "bump",
                                    !.revision = r]
  /\ UNCHANGED <<record, facts, lock, session, scan>>

(* Faulty variant: nobody looks at how the call ended. *)
ReplaceContentsUnchecked(outcome) ==
  /\ At("replace")
  /\ facts' = IF outcome = "failed" THEN facts
              ELSE [facts EXCEPT ![execution.index] = execution.revision]
  /\ Proceed("publish")
  /\ UNCHANGED <<record, session, scan>>

ReplaceContents(outcome) ==
  /\ At("replace")
  /\ facts' = IF outcome = "failed" THEN facts
              ELSE [facts EXCEPT ![execution.index] = execution.revision]
  /\ Proceed(IF outcome = "ok" THEN "publish" ELSE "catch")
  /\ UNCHANGED <<record, session, scan>>

PublishCompleted(outcome) ==
  /\ At("publish")
  /\ record' = IF outcome = "failed" THEN record
               ELSE [record EXCEPT ![execution.index] =
                       [stage |-> "completed", commit |-> execution.revision,
                        stats |-> execution.revision]]
  /\ IF outcome = "ok" THEN Finish ELSE Proceed("catch")
  /\ UNCHANGED <<facts, session, scan>>

(* The catch block re-reads the row and keeps its commit and stats. *)
RecordFailure(outcome) ==
  /\ At("catch")
  /\ record' = IF outcome = "failed" THEN record
               ELSE [record EXCEPT ![execution.index].stage = "failed"]
  /\ Finish
  /\ UNCHANGED <<facts, session, scan>>

ExecutionStep == \/ \E outcome \in Outcomes :
                      \/ MarkResolving(outcome) \/ ClearContents(outcome)
                      \/ Bump(outcome) \/ ReplaceContents(outcome)
                      \/ PublishCompleted(outcome) \/ RecordFailure(outcome)
                 \/ \E r \in MaybeRevision : RunExecutor(r)

-----------------------------------------------------------------------------
(* Operations that read facts: check the row, list the tables one query    *)
(* after another, use what was read.                                       *)

(* Faulty variant: scan_start and scan_complete read outside the key. *)
OpenUnlocked(s, kind, i, n) ==
  /\ session[s] = NoSession
  /\ session' = [session EXCEPT ![s] =
                   [kind |-> kind, index |-> i, scan |-> n,
                    commit |-> record[i].commit, seen |-> <<>>]]
  /\ UNCHANGED <<record, facts, lock, execution, scan>>

Open(s, kind, i, n) ==
  /\ session[s] = NoSession
  /\ session' = [session EXCEPT ![s] =
                   [kind |-> kind, index |-> i, scan |-> n,
                    commit |-> record[i].commit, seen |-> <<>>]]
  /\ IF kind \in Locked
     THEN /\ Free(Owner[i])
          /\ lock' = [lock EXCEPT ![Owner[i]] = s]
     ELSE UNCHANGED lock
  /\ UNCHANGED <<record, facts, execution, scan>>

(* listRepositoryEvidenceCandidates and validateScanFinding need a         *)
(* completed index and hold no key (searchRepositoryIndex likewise, with   *)
(* one query: a prefix of these).                                          *)
OpenCandidates(s, i) == /\ record[i].stage = "completed"
                        /\ Open(s, "candidates", i, None)

(* buildScanBoundaryMap, for a run that is in progress. *)
OpenBoundary(s, n) == /\ scan[n].status = "in_progress"
                      /\ record[scan[n].index].stage = "completed"
                      /\ Open(s, "boundary", scan[n].index, n)

(* startScanMutation: a new run over a completed index of the workspace. *)
OpenStart(s, n, i) == /\ Owner[n] = Owner[i]
                      /\ scan[n].status = "none"
                      /\ record[i].stage = "completed"
                      /\ Open(s, "start", i, n)

(* completeScanMutation: the stage of the index is not looked at. *)
OpenComplete(s, n) == /\ scan[n].status = "in_progress"
                      /\ Open(s, "complete", scan[n].index, n)

(* Files, chunks and symbols, and without a key also dependencies. *)
Listed(s) == Len(session[s].seen) = IF session[s].kind \in Locked THEN 3 ELSE 4

ListTable(s) ==
  /\ session[s] # NoSession
  /\ ~Listed(s)
  /\ session' = [session EXCEPT ![s].seen = Append(@, facts[session[s].index])]
  /\ UNCHANGED <<record, facts, lock, execution, scan>>

(* Faulty variant: the key is never given back. *)
CloseKeepsKey(s) ==
  /\ session' = [session EXCEPT ![s] = NoSession]
  /\ UNCHANGED lock

Close(s) ==
  /\ session' = [session EXCEPT ![s] = NoSession]
  /\ lock' = [w \in Workspaces |-> IF lock[w] = s THEN None ELSE lock[w]]

(* The answer of an unlocked operation. *)
Answer(s) == /\ session[s].kind \in Unlocked
             /\ Listed(s)
             /\ Close(s)
             /\ UNCHANGED <<record, facts, execution, scan>>

SaveStartedScan(s) ==
  /\ session[s].kind = "start"
  /\ Listed(s)
  /\ scan' = [scan EXCEPT ![session[s].scan] =
                [status |-> "in_progress", index |-> session[s].index,
                 revision |-> session[s].commit, coverage |-> session[s].seen[1],
                 evidence |-> {}]]
  /\ Close(s)
  /\ UNCHANGED <<record, facts, execution>>

(* The gates of scan_complete are evaluated on what was listed just now. *)
SaveCompletedScan(s) ==
  /\ session[s].kind = "complete"
  /\ Listed(s)
  /\ scan' = [scan EXCEPT ![session[s].scan].status = "completed",
                          ![session[s].scan].evidence =
                             {session[s].seen[t] : t \in 1..3}]
  /\ Close(s)
  /\ UNCHANGED <<record, facts, execution>>

(* A query fails, a gate refuses, or the save is rolled back. *)
FailSession(s) == /\ session[s] # NoSession
                  /\ Close(s)
                  /\ UNCHANGED <<record, facts, execution, scan>>

(* deleteScanMutation, as far as the index is concerned. *)
DeleteScan(n) == /\ scan[n].status # "none"
                 /\ Free(Owner[n])
                 /\ scan' = [scan EXCEPT ![n] = NoScan]
                 /\ UNCHANGED <<record, facts, lock, execution, session>>

SessionStep(s) == \/ ListTable(s) \/ Answer(s) \/ SaveStartedScan(s)
                  \/ SaveCompletedScan(s) \/ FailSession(s)

(* The process stops and starts again: what is in memory is lost. *)
Crash == /\ lock' = [w \in Workspaces |-> None]
         /\ execution' = NoExecution
         /\ session' = [s \in Sessions |-> NoSession]
         /\ UNCHANGED <<record, facts, scan>>

Next == \/ \E i \in Indexes : StartIndex(i) \/ BeginExecution(i)
        \/ ExecutionStep
        \/ \E s \in Sessions : \/ SessionStep(s)
                               \/ \E i \in Indexes : OpenCandidates(s, i)
                               \/ \E n \in Scans : \/ OpenBoundary(s, n)
                                                   \/ OpenComplete(s, n)
                               \/ \E n \in Scans, i \in Indexes : OpenStart(s, n, i)
        \/ \E n \in Scans : DeleteScan(n)
        \/ Crash

Spec == Init /\ [][Next]_vars

(***************************************************************************)
(* Database calls and git commands answer or time out; whether and when    *)
(* anybody asks for an operation is not assumed.                           *)
(***************************************************************************)
FairSpec == /\ Spec
            /\ WF_vars(ExecutionStep)
            /\ \A s \in Sessions : WF_vars(SessionStep(s))

-----------------------------------------------------------------------------
(* Properties.                                                             *)

TypeOK ==
  /\ record \in [Indexes -> [stage : Stages, commit : MaybeRevision,
                             stats : MaybeRevision]]
  /\ facts \in [Indexes -> MaybeRevision]
  /\ lock \in [Workspaces -> Sessions \cup {"execution", None}]
  /\ execution \in [at : {"none", "mark", "clear", "bump", "execute", "replace",
                          "publish", "catch"},
                    index : Indexes \cup {None}, fresh : BOOLEAN,
                    revision : MaybeRevision]
  /\ session \in [Sessions -> [kind : Locked \cup Unlocked \cup {"none"},
                               index : Indexes \cup {None},
                               scan : Scans \cup {None},
                               commit : MaybeRevision,
                               seen : Seq(MaybeRevision)]]
  /\ scan \in [Scans -> [status : {"none", "in_progress", "completed"},
                         index : Indexes \cup {None}, revision : MaybeRevision,
                         coverage : MaybeRevision, evidence : SUBSET MaybeRevision]]

(* A row that says completed is the truth: the facts in the database are   *)
(* all of its resolved commit, and so are its stats, whatever calls failed *)
(* or were applied without an answer and wherever earlier attempts crashed.*)
CompletedIndexIsWhole ==
  \A i \in Indexes :
    record[i].stage = "completed" =>
      /\ record[i].commit # None
      /\ facts[i] = record[i].commit
      /\ record[i].stats = record[i].commit

(* An attempt builds on an empty fact set: once the row shows a stage past *)
(* resolving_ref and until the new facts are written, no fact of an        *)
(* earlier attempt is left, also when that attempt was cut off by a crash. *)
RestartedFromEmpty ==
  \A i \in Indexes :
    /\ record[i].stage \in {"requested", "checking_out", "discovering",
                            "indexing_syntax"} => facts[i] = None
    /\ record[i].stage \in {"normalizing", "failed"} =>
         facts[i] \in {None, record[i].commit}

(* A run starts from one revision: its coverage was derived from the facts *)
(* of the revision it records, although row and facts are read separately. *)
ScanStartsFromItsRevision ==
  \A n \in Scans :
    scan[n].status # "none" => /\ scan[n].revision # None
                               /\ scan[n].coverage = scan[n].revision

(* What an operation under the key has listed so far comes from one        *)
(* revision: the facts of its index do not change under its feet.          *)
LockedReadsAreStable ==
  \A s \in Sessions :
    session[s].kind \in Locked =>
      \A t \in DOMAIN session[s].seen : session[s].seen[t] = facts[session[s].index]

(* An index changes under the key of its workspace only, or is created:    *)
(* nobody rewrites a row or its facts while a scan operation relies on it. *)
IndexChangesUnderKey ==
  [][\A i \in Indexes :
       /\ <<record[i], facts[i]>>' # <<record[i], facts[i]>>
       /\ record[i].stage # "absent"
       => lock[Owner[i]] = "execution" /\ execution.index = i]_vars

(* Every key is free again and again: an execution and a locked operation  *)
(* give the workspace back on every path, failed database calls included.  *)
KeysAreReturned ==
  \A w \in Workspaces : []<>Free(w)

(* docs/specs/repository-scan.md:164: evidence added to a scan matches the *)
(* revision the run recorded; so does a boundary map built for the run.    *)
BoundaryMapMatchesRun ==
  [][\A s \in Sessions :
       session[s].kind = "none" /\ session'[s].kind = "boundary"
       => session'[s].commit = scan[session'[s].scan].revision]_vars

(* The error of completeScanMutation: a scan must reference a completed    *)
(* repository index before completion.                                     *)
CompletionNeedsCompletedIndex ==
  [][\A n \in Scans :
       scan[n].status = "in_progress" /\ scan'[n].status = "completed"
       => record[scan[n].index].stage = "completed"]_vars

(* docs/specs/repository-indexing.md:420: every query is restricted by     *)
(* revision; so one answer never mixes facts of two revisions.             *)
AnswerIsOfOneRevision ==
  \A s \in Sessions :
    session[s].kind \in Unlocked /\ Listed(s) =>
      \A t, u \in DOMAIN session[s].seen : session[s].seen[t] = session[s].seen[u]
=============================================================================
