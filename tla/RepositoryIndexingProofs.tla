---------------------- MODULE RepositoryIndexingProofs ----------------------
(* Theorems about RepositoryIndexing, for every set of workspaces, indexes, *)
(* revisions, scans and concurrent operations.                              *)
EXTENDS RepositoryIndexing, TLAPS

(* What a row says of the facts in the database, whoever looks at it.      *)
RowInv ==
  \A i \in Indexes :
    LET stage == record[i].stage
    IN /\ stage \in {"absent", "requested", "checking_out", "discovering",
                     "indexing_syntax"} => facts[i] = None
       /\ stage \in {"normalizing", "failed"} => facts[i] \in {None, record[i].commit}
       /\ stage = "completed" => /\ record[i].commit # None
                                 /\ facts[i] = record[i].commit
                                 /\ record[i].stats = record[i].commit

(* The row and the facts an execution finds at each of its places.         *)
PlaceInv ==
  LET row == record[execution.index]
      f   == facts[execution.index]
      r   == execution.revision
  IN /\ At("mark") => /\ row.stage # "absent"
                      /\ r = None
                      /\ execution.fresh => f = None
     /\ At("clear") => row.stage = "resolving_ref" /\ r = None
     /\ At("bump") => /\ row.stage \in DOMAIN NextStage
                      /\ row.stage = "resolving_ref" <=> r = None
                      /\ f = None
     /\ At("execute") => row.stage = "checking_out" /\ r = None
     /\ At("replace") => /\ row.stage = "normalizing"
                         /\ r # None
                         /\ row.commit = r
     /\ At("publish") => /\ row.stage = "normalizing"
                         /\ r # None
                         /\ row.commit = r
                         /\ f = r
     /\ At("catch") => /\ row.stage \in ActiveStages \cup {"completed"}
                       /\ f \in {None, row.commit}

(* An execution holds the key of the workspace of its index. *)
ExecutionInv ==
  IF At("none")
  THEN execution = NoExecution
  ELSE /\ execution.index \in Indexes
       /\ lock[Owner[execution.index]] = "execution"
       /\ PlaceInv

(* What an operation has listed under the key is what is in the database;  *)
(* the run it is about is of its workspace, and there if it is completed.  *)
LockedInv(s) ==
  LET op == session[s]
  IN /\ op.scan \in Scans
     /\ Owner[op.scan] = Owner[op.index]
     /\ lock[Owner[op.index]] = s
     /\ \A t \in DOMAIN op.seen : op.seen[t] = facts[op.index]
     /\ op.kind = "start" => op.commit # None /\ op.commit = facts[op.index]
     /\ op.kind = "complete" => scan[op.scan].status # "none"

SessionInv ==
  \A s \in Sessions :
    IF session[s].kind = "none"
    THEN session[s] = NoSession
    ELSE /\ session[s].index \in Indexes
         /\ session[s].kind \in Locked => LockedInv(s)

ScanInv ==
  \A n \in Scans :
    scan[n].status # "none" => /\ scan[n].index \in Indexes
                               /\ Owner[scan[n].index] = Owner[n]
                               /\ scan[n].revision # None
                               /\ scan[n].coverage = scan[n].revision

IInv == TypeOK /\ RowInv /\ ExecutionInv /\ SessionInv /\ ScanInv

-----------------------------------------------------------------------------
LEMMA InitInductive == Init => IInv
<1> SUFFICES ASSUME Init PROVE IInv
  OBVIOUS
<1> USE DEF Init, NoExecution, NoSession, NoScan, MaybeRevision
<1>1. TypeOK
  BY DEF TypeOK, Stages
<1>2. RowInv /\ ExecutionInv /\ SessionInv /\ ScanInv
  BY DEF RowInv, ExecutionInv, At, SessionInv, ScanInv
<1> QED
  BY <1>1, <1>2 DEF IInv

-----------------------------------------------------------------------------
(* A row is created: no execution and no operation is about that index.    *)
LEMMA StartIndexInductive ==
  ASSUME IInv, NEW i \in Indexes, StartIndex(i)
  PROVE  IInv'
<1> USE DEF IInv, StartIndex
<1>1. TypeOK'
  BY DEF TypeOK, Stages
<1>2. RowInv'
  BY DEF RowInv, TypeOK
<1>3. ExecutionInv'
  BY DistinctNames DEF ExecutionInv, PlaceInv, At, Free, TypeOK, NextStage, ActiveStages
<1>4. SessionInv' /\ ScanInv'
  BY DEF SessionInv, LockedInv, ScanInv
<1> QED
  BY <1>1, <1>2, <1>3, <1>4

(* An execution begins under a key that was free.                          *)
LEMMA BeginExecutionInductive ==
  ASSUME IInv, NEW i \in Indexes, BeginExecution(i)
  PROVE  IInv'
<1> USE DEF IInv, BeginExecution
<1>1. TypeOK'
  BY RowsAreOwned DEF TypeOK, MaybeRevision
<1>2. RowInv' /\ ScanInv'
  BY DEF RowInv, ScanInv
<1>3. ExecutionInv'
  BY RowsAreOwned DEF ExecutionInv, PlaceInv, At, RowInv, TypeOK
<1>4. SessionInv'
  BY RowsAreOwned, DistinctNames DEF SessionInv, LockedInv, Free, TypeOK
<1> QED
  BY <1>1, <1>2, <1>3, <1>4

-----------------------------------------------------------------------------
(* The steps of an execution leave the operations under other keys alone:  *)
(* nobody reads under the key the execution holds.                         *)
LEMMA ExecutionSparesSessions ==
  ASSUME IInv, ~At("none"), UNCHANGED <<session, scan>>,
         lock' \in {lock, [lock EXCEPT ![Owner[execution.index]] = None]},
         \A i \in Indexes \ {execution.index} : facts'[i] = facts[i]
  PROVE  SessionInv' /\ ScanInv'
<1>1. ScanInv'
  BY DEF IInv, ScanInv
<1>2. /\ execution.index \in Indexes
      /\ lock[Owner[execution.index]] = "execution"
  BY DEF IInv, ExecutionInv
<1>3. ASSUME NEW s \in Sessions, session[s].kind # "none"
      PROVE  /\ session[s].index \in Indexes
             /\ session[s].kind \in Locked => LockedInv(s)'
  <2>1. session[s].index \in Indexes /\ (session[s].kind \in Locked => LockedInv(s))
    BY <1>3 DEF IInv, SessionInv
  <2>2. SUFFICES ASSUME session[s].kind \in Locked PROVE LockedInv(s)'
    BY <2>1
  <2>3. lock[Owner[session[s].index]] = s /\ s # "execution"
    BY <2>1, <2>2, DistinctNames DEF LockedInv
  <2>4. lock'[Owner[session[s].index]] = s
    BY <1>2, <2>1, <2>3, RowsAreOwned DEF IInv, TypeOK
  <2>5. facts'[session[s].index] = facts[session[s].index]
    BY <1>2, <2>1, <2>3
  <2> QED
    BY <2>1, <2>2, <2>4, <2>5 DEF LockedInv
<1>4. ASSUME NEW s \in Sessions, session[s].kind = "none"
      PROVE  session[s] = NoSession
  BY <1>4 DEF IInv, SessionInv
<1> QED
  BY <1>1, <1>3, <1>4 DEF SessionInv

(* The end of an execution, whatever it did last to its row. *)
LEMMA FinishInductive ==
  ASSUME IInv, ~At("none"), Finish,
         record' \in [Indexes -> [stage : Stages, commit : MaybeRevision,
                                  stats : MaybeRevision]],
         facts' \in [Indexes -> MaybeRevision],
         UNCHANGED <<session, scan>>
  PROVE  TypeOK' /\ ExecutionInv'
<1>1. lock' \in [Workspaces -> Sessions \cup {"execution", None}]
  BY RowsAreOwned DEF IInv, TypeOK, ExecutionInv, Finish
<1>2. execution' \in [at : {"none", "mark", "clear", "bump", "execute", "replace",
                            "publish", "catch"},
                      index : Indexes \cup {None}, fresh : BOOLEAN,
                      revision : MaybeRevision]
  BY DEF Finish, NoExecution, MaybeRevision
<1>3. TypeOK'
  BY <1>1, <1>2 DEF IInv, TypeOK
<1> QED
  BY <1>3 DEF Finish, ExecutionInv, At, NoExecution

LEMMA MarkResolvingInductive ==
  ASSUME IInv, NEW outcome \in Outcomes, MarkResolving(outcome)
  PROVE  IInv'
<1> DEFINE i == execution.index
<1>1. /\ ~At("none")
      /\ i \in Indexes
      /\ lock[Owner[i]] = "execution"
      /\ execution.revision = None
      /\ record[i].stage # "absent"
      /\ execution.fresh => facts[i] = None
  BY DEF IInv, ExecutionInv, PlaceInv, MarkResolving, At
<1>2. SessionInv' /\ ScanInv'
  BY <1>1, ExecutionSparesSessions DEF MarkResolving, Proceed, Finish
<1>3. record' \in [Indexes -> [stage : Stages, commit : MaybeRevision,
                               stats : MaybeRevision]]
  BY <1>1 DEF IInv, TypeOK, MarkResolving, Stages, ActiveStages, MaybeRevision
<1>4. RowInv'
  BY <1>1 DEF IInv, RowInv, MarkResolving, TypeOK
<1>5. CASE outcome = "ok"
  <2>1. /\ execution' = [execution EXCEPT !.at = IF execution.fresh THEN "bump"
                                                 ELSE "clear"]
        /\ record'[i].stage = "resolving_ref"
        /\ UNCHANGED <<facts, lock, session, scan>>
    BY <1>1, <1>5 DEF MarkResolving, Proceed, IInv, TypeOK
  <2>2. TypeOK'
    BY <1>3, <2>1 DEF IInv, TypeOK
  <2>3. ExecutionInv'
    BY <1>1, <2>1 DEF IInv, TypeOK, ExecutionInv, PlaceInv, At, NextStage
  <2> QED
    BY <1>2, <1>4, <2>2, <2>3 DEF IInv
<1>6. CASE outcome # "ok"
  <2>1. Finish /\ UNCHANGED <<facts, session, scan>>
    BY <1>6 DEF MarkResolving
  <2>2. facts' \in [Indexes -> MaybeRevision]
    BY <2>1 DEF IInv, TypeOK
  <2> QED
    BY <1>1, <1>2, <1>3, <1>4, <2>1, <2>2, FinishInductive DEF IInv
<1> QED
  BY <1>5, <1>6

LEMMA ClearContentsInductive ==
  ASSUME IInv, NEW outcome \in Outcomes, ClearContents(outcome)
  PROVE  IInv'
<1> DEFINE i == execution.index
<1>1. /\ ~At("none")
      /\ i \in Indexes
      /\ lock[Owner[i]] = "execution"
      /\ execution.revision = None
      /\ record[i].stage = "resolving_ref"
  BY DEF IInv, ExecutionInv, PlaceInv, ClearContents, At
<1>2. SessionInv' /\ ScanInv'
  BY <1>1, ExecutionSparesSessions DEF ClearContents, Proceed, Finish, IInv, TypeOK
<1>3. facts' \in [Indexes -> MaybeRevision] /\ record' = record
  BY <1>1 DEF IInv, TypeOK, ClearContents, MaybeRevision
<1>4. RowInv'
  BY <1>1 DEF IInv, RowInv, ClearContents, TypeOK
<1>5. CASE outcome = "ok"
  <2>1. /\ execution' = [execution EXCEPT !.at = "bump"]
        /\ facts'[i] = None
        /\ UNCHANGED <<record, lock, session, scan>>
    BY <1>1, <1>5 DEF ClearContents, Proceed, IInv, TypeOK
  <2>2. TypeOK'
    BY <1>3, <2>1 DEF IInv, TypeOK
  <2>3. ExecutionInv'
    BY <1>1, <2>1 DEF IInv, TypeOK, ExecutionInv, PlaceInv, At, NextStage
  <2> QED
    BY <1>2, <1>4, <2>2, <2>3 DEF IInv
<1>6. CASE outcome # "ok"
  <2>1. Finish /\ UNCHANGED <<record, session, scan>>
    BY <1>6 DEF ClearContents
  <2>2. record' \in [Indexes -> [stage : Stages, commit : MaybeRevision,
                                 stats : MaybeRevision]]
    BY <1>3 DEF IInv, TypeOK
  <2> QED
    BY <1>1, <1>2, <1>3, <1>4, <2>1, <2>2, FinishInductive DEF IInv
<1> QED
  BY <1>5, <1>6

LEMMA BumpInductive ==
  ASSUME IInv, NEW outcome \in Outcomes, Bump(outcome)
  PROVE  IInv'
<1> DEFINE i == execution.index
           next == NextStage[record[i].stage]
<1>1. /\ ~At("none")
      /\ i \in Indexes
      /\ lock[Owner[i]] = "execution"
      /\ record[i].stage \in DOMAIN NextStage
      /\ record[i].stage = "resolving_ref" <=> execution.revision = None
      /\ facts[i] = None
      /\ execution.revision \in MaybeRevision
  BY DEF IInv, ExecutionInv, PlaceInv, Bump, At, TypeOK
<1>2. SessionInv' /\ ScanInv'
  BY <1>1, ExecutionSparesSessions DEF Bump, Proceed
<1>3. /\ next \in {"checking_out", "discovering", "indexing_syntax", "normalizing"}
      /\ next = "checking_out" <=> record[i].stage = "resolving_ref"
  BY <1>1 DEF NextStage
<1>4. record' \in [Indexes -> [stage : Stages, commit : MaybeRevision,
                               stats : MaybeRevision]]
  <2>1. next \in Stages /\ record[i].stats \in MaybeRevision
    BY <1>1, <1>3 DEF Stages, ActiveStages, IInv, TypeOK
  <2>2. record' \in {record,
                     [record EXCEPT ![i].stage = next,
                                    ![i].commit = execution.revision]}
    BY DEF Bump
  <2> HIDE DEF next
  <2> QED
    BY <1>1, <2>1, <2>2 DEF IInv, TypeOK
<1>5. RowInv'
  <2>1. \A x \in Indexes :
          /\ facts'[x] = facts[x]
          /\ \/ record'[x] = record[x]
             \/ x = i /\ record'[x].stage = next
    BY <1>1, SMTT(30) DEF IInv, Bump, TypeOK
  <2>2. facts'[i] = None /\ next \notin {"failed", "completed"}
    BY <1>1, <1>3, <2>1
  <2> HIDE DEF next, i
  <2>3. ASSUME NEW x \in Indexes
        PROVE  LET stage == record'[x].stage
               IN /\ stage \in {"absent", "requested", "checking_out", "discovering",
                                "indexing_syntax"} => facts'[x] = None
                  /\ stage \in {"normalizing", "failed"} =>
                       facts'[x] \in {None, record'[x].commit}
                  /\ stage = "completed" => /\ record'[x].commit # None
                                            /\ facts'[x] = record'[x].commit
                                            /\ record'[x].stats = record'[x].commit
    <3>1. CASE record'[x] = record[x]
      BY <2>1, <3>1 DEF IInv, RowInv
    <3>2. CASE x = i /\ record'[x].stage = next
      BY <2>2, <3>2
    <3> QED BY <2>1, <3>1, <3>2
  <2> QED
    BY <2>3 DEF RowInv
<1>6. CASE outcome = "ok"
  <2>1. /\ execution' = [execution EXCEPT !.at =
                           CASE next = "checking_out" -> "execute"
                             [] next = "normalizing"  -> "replace"
                             [] OTHER                 -> "bump"]
        /\ record'[i].stage = next
        /\ record'[i].commit = execution.revision
        /\ UNCHANGED <<facts, lock, session, scan>>
    BY <1>1, <1>6 DEF Bump, Proceed, IInv, TypeOK
  <2>2. TypeOK'
    BY <1>4, <2>1 DEF IInv, TypeOK
  <2>3. ExecutionInv'
    BY <1>1, <1>3, <2>1 DEF IInv, TypeOK, ExecutionInv, PlaceInv, At, NextStage
  <2> QED
    BY <1>2, <1>5, <2>2, <2>3 DEF IInv
<1>7. CASE outcome # "ok"
  <2>1. /\ execution' = [execution EXCEPT !.at = "catch"]
        /\ record'[i].stage \in ActiveStages
        /\ UNCHANGED <<facts, lock, session, scan>>
    BY <1>1, <1>3, <1>7 DEF Bump, Proceed, IInv, TypeOK, ActiveStages, NextStage
  <2>2. TypeOK'
    BY <1>4, <2>1 DEF IInv, TypeOK
  <2>3. ExecutionInv'
    BY <1>1, <2>1 DEF IInv, TypeOK, ExecutionInv, PlaceInv, At
  <2> QED
    BY <1>2, <1>5, <2>2, <2>3 DEF IInv
<1> QED
  BY <1>6, <1>7

(* The executor answers with a revision, any revision, or not at all. *)
LEMMA RunExecutorInductive ==
  ASSUME IInv, NEW r \in MaybeRevision, RunExecutor(r)
  PROVE  IInv'
<1>1. /\ ~At("none")
      /\ execution.index \in Indexes
      /\ lock[Owner[execution.index]] = "execution"
      /\ record[execution.index].stage = "checking_out"
      /\ facts[execution.index] = None
  BY DEF IInv, ExecutionInv, PlaceInv, RunExecutor, At, RowInv
<1>2. SessionInv' /\ ScanInv'
  BY <1>1, ExecutionSparesSessions DEF RunExecutor
<1>3. TypeOK' /\ RowInv'
  BY DEF IInv, TypeOK, RowInv, RunExecutor
<1>4. ExecutionInv'
  BY <1>1 DEF IInv, TypeOK, ExecutionInv, PlaceInv, At, NextStage, ActiveStages,
              RunExecutor
<1> QED
  BY <1>2, <1>3, <1>4 DEF IInv

LEMMA ReplaceContentsInductive ==
  ASSUME IInv, NEW outcome \in Outcomes, ReplaceContents(outcome)
  PROVE  IInv'
<1> DEFINE i == execution.index
<1>1. /\ ~At("none")
      /\ i \in Indexes
      /\ lock[Owner[i]] = "execution"
      /\ record[i].stage = "normalizing"
      /\ execution.revision # None
      /\ execution.revision = record[i].commit
      /\ execution.revision \in MaybeRevision
      /\ facts[i] \in {None, record[i].commit}
  BY DEF IInv, ExecutionInv, PlaceInv, ReplaceContents, At, TypeOK, RowInv
<1>2. SessionInv' /\ ScanInv'
  BY <1>1, ExecutionSparesSessions DEF ReplaceContents, Proceed, IInv, TypeOK
<1>3. /\ facts' \in [Indexes -> MaybeRevision]
      /\ execution' = [execution EXCEPT !.at = IF outcome = "ok" THEN "publish"
                                               ELSE "catch"]
      /\ outcome = "ok" => facts'[i] = execution.revision
      /\ facts'[i] \in {None, record[i].commit}
      /\ UNCHANGED <<record, lock, session, scan>>
  BY <1>1 DEF IInv, TypeOK, ReplaceContents, Proceed
<1>4. TypeOK'
  BY <1>3 DEF IInv, TypeOK
<1>5. RowInv'
  BY <1>1 DEF IInv, RowInv, ReplaceContents, TypeOK
<1>6. ExecutionInv'
  BY <1>1, <1>3 DEF IInv, TypeOK, ExecutionInv, PlaceInv, At, ActiveStages
<1> QED
  BY <1>2, <1>4, <1>5, <1>6 DEF IInv

LEMMA PublishCompletedInductive ==
  ASSUME IInv, NEW outcome \in Outcomes, PublishCompleted(outcome)
  PROVE  IInv'
<1> DEFINE i == execution.index
<1>1. /\ ~At("none")
      /\ i \in Indexes
      /\ lock[Owner[i]] = "execution"
      /\ record[i].stage = "normalizing"
      /\ execution.revision # None
      /\ execution.revision = record[i].commit
      /\ execution.revision \in MaybeRevision
      /\ facts[i] = execution.revision
  BY DEF IInv, ExecutionInv, PlaceInv, PublishCompleted, At, TypeOK
<1>2. SessionInv' /\ ScanInv'
  BY <1>1, ExecutionSparesSessions DEF PublishCompleted, Proceed, Finish
<1>3. /\ record' \in [Indexes -> [stage : Stages, commit : MaybeRevision,
                                  stats : MaybeRevision]]
      /\ record'[i].stage \in {"normalizing", "completed"}
      /\ record'[i].commit = execution.revision
  BY <1>1 DEF IInv, TypeOK, PublishCompleted, Stages
<1>4. RowInv'
  BY <1>1 DEF IInv, RowInv, PublishCompleted, TypeOK
<1>5. CASE outcome = "ok"
  <2>1. Finish /\ UNCHANGED <<facts, session, scan>>
    BY <1>5 DEF PublishCompleted
  <2>2. facts' \in [Indexes -> MaybeRevision]
    BY <2>1 DEF IInv, TypeOK
  <2> QED
    BY <1>1, <1>2, <1>3, <1>4, <2>1, <2>2, FinishInductive DEF IInv
<1>6. CASE outcome # "ok"
  <2>1. /\ execution' = [execution EXCEPT !.at = "catch"]
        /\ UNCHANGED <<facts, lock, session, scan>>
    BY <1>6 DEF PublishCompleted, Proceed
  <2>2. TypeOK'
    BY <1>3, <2>1 DEF IInv, TypeOK
  <2>3. ExecutionInv'
    BY <1>1, <1>3, <2>1 DEF IInv, TypeOK, ExecutionInv, PlaceInv, At, ActiveStages
  <2> QED
    BY <1>2, <1>4, <2>2, <2>3 DEF IInv
<1> QED
  BY <1>5, <1>6

LEMMA RecordFailureInductive ==
  ASSUME IInv, NEW outcome \in Outcomes, RecordFailure(outcome)
  PROVE  IInv'
<1> DEFINE i == execution.index
<1>1. /\ ~At("none")
      /\ i \in Indexes
      /\ facts[i] \in {None, record[i].commit}
  BY DEF IInv, ExecutionInv, PlaceInv, RecordFailure, At
<1>2. SessionInv' /\ ScanInv'
  BY <1>1, ExecutionSparesSessions DEF RecordFailure, Finish
<1>3. record' \in [Indexes -> [stage : Stages, commit : MaybeRevision,
                               stats : MaybeRevision]]
  BY <1>1 DEF IInv, TypeOK, RecordFailure, Stages
<1>4. RowInv'
  BY <1>1 DEF IInv, RowInv, RecordFailure, TypeOK
<1>5. facts' \in [Indexes -> MaybeRevision] /\ Finish /\ UNCHANGED <<session, scan>>
  BY DEF IInv, TypeOK, RecordFailure
<1> QED
  BY <1>1, <1>2, <1>3, <1>4, <1>5, FinishInductive DEF IInv

-----------------------------------------------------------------------------
(* An operation that begins takes the key, if it is one that needs it.     *)
LEMMA OpenInductive ==
  ASSUME IInv, NEW s \in Sessions, NEW kind \in Locked \cup Unlocked,
         NEW i \in Indexes, NEW n \in Scans \cup {None}, Open(s, kind, i, n),
         kind \in Locked => /\ n \in Scans
                            /\ Owner[n] = Owner[i],
         kind = "start" => record[i].stage = "completed",
         kind = "complete" => scan[n].status # "none"
  PROVE  IInv'
<1> DEFINE op == [kind |-> kind, index |-> i, scan |-> n,
                  commit |-> record[i].commit, seen |-> <<>>]
<1>1. /\ session' = [session EXCEPT ![s] = op]
      /\ lock' \in {lock, [lock EXCEPT ![Owner[i]] = s]}
      /\ kind \in Locked => /\ lock[Owner[i]] = None
                            /\ lock' = [lock EXCEPT ![Owner[i]] = s]
      /\ lock' # lock => lock[Owner[i]] = None
      /\ UNCHANGED <<record, facts, execution, scan>>
      /\ Owner[i] \in Workspaces
  BY RowsAreOwned DEF Open, Free
<1>2. TypeOK'
  <2>1. op \in [kind : Locked \cup Unlocked \cup {"none"},
                index : Indexes \cup {None},
                scan : Scans \cup {None},
                commit : MaybeRevision,
                seen : Seq(MaybeRevision)]
    BY DEF IInv, TypeOK
  <2> HIDE DEF op
  <2>2. session' \in [Sessions -> [kind : Locked \cup Unlocked \cup {"none"},
                                  index : Indexes \cup {None},
                                  scan : Scans \cup {None},
                                  commit : MaybeRevision,
                                  seen : Seq(MaybeRevision)]]
    BY <1>1, <2>1 DEF IInv, TypeOK
  <2>3. lock' \in [Workspaces -> Sessions \cup {None, "execution"}]
    BY <1>1 DEF IInv, TypeOK
  <2> QED
    BY <1>1, <2>2, <2>3 DEF IInv, TypeOK
<1>3. RowInv' /\ ScanInv'
  BY <1>1 DEF IInv, RowInv, ScanInv
<1>4. ExecutionInv'
  BY <1>1, DistinctNames, RowsAreOwned DEF IInv, ExecutionInv, PlaceInv, At, TypeOK
<1>5. ASSUME NEW t \in Sessions, t # s
      PROVE  IF session'[t].kind = "none"
             THEN session'[t] = NoSession
             ELSE /\ session'[t].index \in Indexes
                  /\ session'[t].kind \in Locked => LockedInv(t)'
  <2>1. session'[t] = session[t]
    BY <1>1, <1>5 DEF IInv, TypeOK
  <2>2. ASSUME session[t].index \in Indexes, lock[Owner[session[t].index]] = t
        PROVE  lock'[Owner[session[t].index]] = t
    BY <1>1, <2>2, DistinctNames, RowsAreOwned DEF IInv, TypeOK
  <2> QED
    BY <1>1, <2>1, <2>2 DEF IInv, SessionInv, LockedInv
<1>6. /\ session'[s] = op
      /\ kind # "none"
  BY <1>1 DEF IInv, TypeOK, Locked, Unlocked
<1>7. ASSUME kind \in Locked PROVE LockedInv(s)'
  <2>1. lock'[Owner[i]] = s
    BY <1>1, <1>7 DEF IInv, TypeOK
  <2>2. kind = "start" => record[i].commit # None /\ record[i].commit = facts[i]
    BY DEF IInv, RowInv
  <2> QED
    BY <1>1, <1>6, <1>7, <2>1, <2>2 DEF LockedInv
<1>8. SessionInv'
  BY <1>5, <1>6, <1>7 DEF SessionInv
<1> QED
  BY <1>2, <1>3, <1>4, <1>8 DEF IInv

(* One more table is listed. *)
LEMMA ListTableInductive ==
  ASSUME IInv, NEW s \in Sessions, ListTable(s)
  PROVE  IInv'
<1> DEFINE op  == session[s]
           op2 == [op EXCEPT !.seen = Append(@, facts[op.index])]
<1>1. /\ session' = [session EXCEPT ![s] = op2]
      /\ UNCHANGED <<record, facts, lock, execution, scan>>
  BY DEF ListTable
<1>2. op.kind # "none" /\ op.index \in Indexes /\ facts[op.index] \in MaybeRevision
  BY DEF IInv, SessionInv, ListTable, TypeOK
<1>3. /\ op \in [kind : Locked \cup Unlocked \cup {"none"},
                 index : Indexes \cup {None},
                 scan : Scans \cup {None},
                 commit : MaybeRevision,
                 seen : Seq(MaybeRevision)]
      /\ op.seen \in Seq(MaybeRevision)
  BY DEF IInv, TypeOK
<1>4. Append(op.seen, facts[op.index]) \in Seq(MaybeRevision)
  BY <1>2, <1>3
<1>5. /\ op2.kind = op.kind
      /\ op2.index = op.index
      /\ op2.scan = op.scan
      /\ op2.commit = op.commit
      /\ op2.seen = Append(op.seen, facts[op.index])
  BY <1>3
<1>6. TypeOK'
  <2>1. op2 \in [kind : Locked \cup Unlocked \cup {"none"},
                 index : Indexes \cup {None},
                 scan : Scans \cup {None},
                 commit : MaybeRevision,
                 seen : Seq(MaybeRevision)]
    <3> DEFINE longer == Append(op.seen, facts[op.index])
    <3>1. longer \in Seq(MaybeRevision) /\ op2 = [op EXCEPT !.seen = longer]
      BY <1>4
    <3> HIDE DEF longer, op2
    <3> QED
      BY <1>3, <3>1
  <2> HIDE DEF op2
  <2> QED
    BY <1>1, <2>1 DEF IInv, TypeOK
<1>7. RowInv' /\ ScanInv' /\ ExecutionInv'
  BY <1>1 DEF IInv, RowInv, ScanInv, ExecutionInv, PlaceInv, At
<1>8. ASSUME NEW t \in Sessions, t # s
      PROVE  session'[t] = session[t] /\ LockedInv(t)' = LockedInv(t)
  BY <1>1, <1>8 DEF IInv, TypeOK, LockedInv
<1>9. session'[s] = op2
  BY <1>1 DEF IInv, TypeOK
<1>10. ASSUME op.kind \in Locked PROVE LockedInv(s)'
  <2>1. LockedInv(s)
    BY <1>2, <1>10 DEF IInv, SessionInv
  <2>2. \A t \in DOMAIN op2.seen : op2.seen[t] = facts[op.index]
    BY <1>2, <1>3, <1>5, <2>1 DEF LockedInv
  <2> QED
    BY <1>1, <1>5, <1>9, <2>1, <2>2 DEF LockedInv
<1>11. SessionInv'
  BY <1>2, <1>5, <1>8, <1>9, <1>10 DEF IInv, SessionInv
<1> QED
  BY <1>6, <1>7, <1>11 DEF IInv

(* An operation that ends gives back its own key and no other. *)
LEMMA CloseInductive ==
  ASSUME IInv, NEW s \in Sessions, Close(s), UNCHANGED <<record, facts, execution>>,
         scan' \in [Scans -> [status : {"none", "in_progress", "completed"},
                              index : Indexes \cup {None}, revision : MaybeRevision,
                              coverage : MaybeRevision,
                              evidence : SUBSET MaybeRevision]],
         \A n \in Scans : scan[n].status # "none" => scan'[n].status # "none",
         ScanInv'
  PROVE  IInv'
<1>1. /\ session' = [session EXCEPT ![s] = NoSession]
      /\ lock' = [w \in Workspaces |-> IF lock[w] = s THEN None ELSE lock[w]]
  BY DEF Close
<1>2. NoSession \in [kind : Locked \cup Unlocked \cup {"none"},
                     index : Indexes \cup {None}, scan : Scans \cup {None},
                     commit : MaybeRevision, seen : Seq(MaybeRevision)]
  BY DEF NoSession, MaybeRevision
<1>3. TypeOK'
  BY <1>1, <1>2 DEF IInv, TypeOK
<1>4. RowInv'
  BY DEF IInv, RowInv
<1>5. ExecutionInv'
  BY <1>1, DistinctNames, RowsAreOwned DEF IInv, ExecutionInv, PlaceInv, At
<1>6. ASSUME NEW t \in Sessions, t # s
      PROVE  IF session'[t].kind = "none"
             THEN session'[t] = NoSession
             ELSE /\ session'[t].index \in Indexes
                  /\ session'[t].kind \in Locked => LockedInv(t)'
  <2>1. session'[t] = session[t]
    BY <1>1, <1>6 DEF IInv, TypeOK
  <2>2. ASSUME session[t].index \in Indexes, lock[Owner[session[t].index]] = t
        PROVE  lock'[Owner[session[t].index]] = t
    BY <1>1, <1>6, <2>2, RowsAreOwned
  <2> QED
    BY <2>1, <2>2 DEF IInv, SessionInv, LockedInv
<1>7. session'[s] = NoSession
  BY <1>1 DEF IInv, TypeOK
<1>8. SessionInv'
  BY <1>6, <1>7 DEF SessionInv, NoSession
<1> QED
  BY <1>3, <1>4, <1>5, <1>8 DEF IInv

LEMMA SaveStartedScanInductive ==
  ASSUME IInv, NEW s \in Sessions, SaveStartedScan(s)
  PROVE  IInv'
<1> DEFINE op  == session[s]
           run == [status |-> "in_progress", index |-> op.index,
                   revision |-> op.commit, coverage |-> op.seen[1], evidence |-> {}]
<1>1. /\ op.kind = "start"
      /\ op.index \in Indexes
      /\ op.commit \in MaybeRevision
      /\ op.seen \in Seq(MaybeRevision)
      /\ LockedInv(s)
  BY DEF IInv, TypeOK, SessionInv, SaveStartedScan, Locked
<1>2. 1 \in DOMAIN op.seen
  BY <1>1 DEF SaveStartedScan, Listed, Locked
<1>3. /\ op.scan \in Scans
      /\ Owner[op.index] = Owner[op.scan]
      /\ op.commit # None
      /\ op.seen[1] = op.commit
  BY <1>1, <1>2 DEF LockedInv
<1>4. run \in [status : {"none", "in_progress", "completed"},
               index : Indexes \cup {None}, revision : MaybeRevision,
               coverage : MaybeRevision, evidence : SUBSET MaybeRevision]
  BY <1>1, <1>3
<1>5. scan' = [scan EXCEPT ![op.scan] = run]
  BY DEF SaveStartedScan
<1> HIDE DEF run
<1>6. scan' \in [Scans -> [status : {"none", "in_progress", "completed"},
                           index : Indexes \cup {None}, revision : MaybeRevision,
                           coverage : MaybeRevision,
                           evidence : SUBSET MaybeRevision]]
  BY <1>4, <1>5 DEF IInv, TypeOK
<1>7. /\ scan'[op.scan] = run
      /\ \A n \in Scans \ {op.scan} : scan'[n] = scan[n]
  BY <1>3, <1>5 DEF IInv, TypeOK
<1>8. ScanInv'
  BY <1>1, <1>3, <1>7 DEF IInv, ScanInv, run
<1>9. \A n \in Scans : scan[n].status # "none" => scan'[n].status # "none"
  BY <1>7 DEF run
<1> QED
  BY <1>6, <1>8, <1>9, CloseInductive DEF SaveStartedScan

LEMMA SaveCompletedScanInductive ==
  ASSUME IInv, NEW s \in Sessions, SaveCompletedScan(s)
  PROVE  IInv'
<1> DEFINE op == session[s]
           ev == {op.seen[t] : t \in 1..3}
<1>1. /\ op.seen \in Seq(MaybeRevision)
      /\ LockedInv(s)
      /\ Len(op.seen) = 3
  BY DEF IInv, TypeOK, SessionInv, SaveCompletedScan, Locked, Listed
<1>2. /\ op.scan \in Scans
      /\ scan[op.scan].status # "none"
      /\ ev \in SUBSET MaybeRevision
  BY <1>1 DEF LockedInv, SaveCompletedScan
<1>3. scan' = [scan EXCEPT ![op.scan].status = "completed", ![op.scan].evidence = ev]
  BY DEF SaveCompletedScan
<1> HIDE DEF ev
<1>4. scan' \in [Scans -> [status : {"none", "in_progress", "completed"},
                           index : Indexes \cup {None}, revision : MaybeRevision,
                           coverage : MaybeRevision,
                           evidence : SUBSET MaybeRevision]]
  <2> DEFINE Evidence == SUBSET MaybeRevision
             Status == {"none", "in_progress", "completed"}
             Run == [status : Status, index : Indexes \cup {None},
                     revision : MaybeRevision, coverage : MaybeRevision,
                     evidence : Evidence]
  <2>1. /\ scan \in [Scans -> Run]
        /\ ev \in Evidence
        /\ "completed" \in Status
    BY <1>2 DEF IInv, TypeOK
  <2> HIDE DEF Evidence, Status
  <2>2. scan' \in [Scans -> Run]
    BY <1>2, <1>3, <2>1
  <2> QED
    BY <2>2 DEF Evidence, Status
<1>5. /\ \A n \in Scans : /\ scan'[n].index = scan[n].index
                          /\ scan'[n].revision = scan[n].revision
                          /\ scan'[n].coverage = scan[n].coverage
      /\ \A n \in Scans : scan[n].status # "none" <=> scan'[n].status # "none"
  BY <1>2, <1>3 DEF IInv, TypeOK
<1>6. ScanInv'
  BY <1>5 DEF IInv, ScanInv
<1> QED
  BY <1>4, <1>5, <1>6, CloseInductive DEF SaveCompletedScan

(* A run is deleted under the key: no operation that completes it is open. *)
LEMMA DeleteScanInductive ==
  ASSUME IInv, NEW n \in Scans, DeleteScan(n)
  PROVE  IInv'
<1>1. NoScan \in [status : {"none", "in_progress", "completed"},
                  index : Indexes \cup {None}, revision : MaybeRevision,
                  coverage : MaybeRevision, evidence : SUBSET MaybeRevision]
  BY DEF NoScan, MaybeRevision
<1>2. /\ scan' = [scan EXCEPT ![n] = NoScan]
      /\ lock[Owner[n]] = None
      /\ UNCHANGED <<record, facts, lock, execution, session>>
  BY DEF DeleteScan, Free
<1>3. TypeOK'
  BY <1>1, <1>2 DEF IInv, TypeOK
<1>4. RowInv' /\ ExecutionInv'
  BY <1>2 DEF IInv, RowInv, ExecutionInv, PlaceInv, At
<1>5. ScanInv'
  BY <1>2 DEF IInv, ScanInv, NoScan, TypeOK
<1>6. ASSUME NEW s \in Sessions, LockedInv(s) PROVE LockedInv(s)'
  <2>1. session[s].scan # n
    BY <1>2, <1>6, DistinctNames DEF LockedInv
  <2> QED
    BY <1>2, <1>6, <2>1 DEF LockedInv, IInv, TypeOK
<1>7. SessionInv'
  BY <1>2, <1>6 DEF IInv, SessionInv
<1> QED
  BY <1>3, <1>4, <1>5, <1>7 DEF IInv

LEMMA CrashInductive ==
  ASSUME IInv, Crash
  PROVE  IInv'
<1>1. NoSession \in [kind : Locked \cup Unlocked \cup {"none"},
                     index : Indexes \cup {None}, scan : Scans \cup {None},
                     commit : MaybeRevision, seen : Seq(MaybeRevision)]
  BY DEF NoSession, MaybeRevision
<1>2. NoExecution \in [at : {"none", "mark", "clear", "bump", "execute", "replace",
                             "publish", "catch"},
                       index : Indexes \cup {None}, fresh : BOOLEAN,
                       revision : MaybeRevision]
  BY DEF NoExecution, MaybeRevision
<1>3. TypeOK'
  BY <1>1, <1>2 DEF IInv, TypeOK, Crash
<1>4. RowInv' /\ ScanInv'
  BY DEF IInv, RowInv, ScanInv, Crash
<1>5. ExecutionInv' /\ SessionInv'
  BY DEF Crash, ExecutionInv, SessionInv, At, NoExecution, NoSession
<1> QED
  BY <1>3, <1>4, <1>5 DEF IInv

-----------------------------------------------------------------------------
LEMMA SessionInductive ==
  ASSUME IInv, NEW s \in Sessions, SessionStep(s)
  PROVE  IInv'
<1>1. ASSUME Answer(s) \/ FailSession(s) PROVE IInv'
  <2>1. /\ Close(s)
        /\ UNCHANGED <<record, facts, execution, scan>>
    BY <1>1 DEF Answer, FailSession
  <2>2. ScanInv' /\ scan' = scan
    BY <2>1 DEF IInv, ScanInv
  <2> QED
    BY <2>1, <2>2, CloseInductive DEF IInv, TypeOK
<1> QED
  BY <1>1, ListTableInductive, SaveStartedScanInductive, SaveCompletedScanInductive
     DEF SessionStep

LEMMA ExecutionInductive ==
  ASSUME IInv, ExecutionStep
  PROVE  IInv'
BY MarkResolvingInductive, ClearContentsInductive, BumpInductive,
   RunExecutorInductive, ReplaceContentsInductive, PublishCompletedInductive,
   RecordFailureInductive
   DEF ExecutionStep

LEMMA NextInductive == IInv /\ [Next]_vars => IInv'
<1> SUFFICES ASSUME IInv, [Next]_vars PROVE IInv'
  OBVIOUS
<1>1. ASSUME NEW s \in Sessions, NEW i \in Indexes, OpenCandidates(s, i)
      PROVE  IInv'
  BY <1>1, OpenInductive DEF OpenCandidates, Locked, Unlocked
<1>2. ASSUME NEW s \in Sessions, NEW n \in Scans, OpenBoundary(s, n)
      PROVE  IInv'
  BY <1>2, OpenInductive DEF OpenBoundary, Locked, Unlocked, IInv, ScanInv
<1>3. ASSUME NEW s \in Sessions, NEW n \in Scans, OpenComplete(s, n)
      PROVE  IInv'
  BY <1>3, OpenInductive DEF OpenComplete, Locked, Unlocked, IInv, ScanInv
<1>4. ASSUME NEW s \in Sessions, NEW n \in Scans, NEW i \in Indexes, OpenStart(s, n, i)
      PROVE  IInv'
  BY <1>4, OpenInductive DEF OpenStart, Locked, Unlocked
<1>5. CASE UNCHANGED vars
  BY <1>5 DEF vars, IInv, TypeOK, RowInv, ExecutionInv, PlaceInv, At, SessionInv,
              LockedInv, ScanInv
<1> QED
  BY <1>1, <1>2, <1>3, <1>4, <1>5, StartIndexInductive, BeginExecutionInductive,
     ExecutionInductive, SessionInductive, DeleteScanInductive, CrashInductive
     DEF Next

(* Row, facts, key, execution, operations under the key and runs agree at  *)
(* every moment, wherever a call failed or the process stopped.            *)
THEOREM InductiveInvariant == Spec => []IInv
BY InitInductive, NextInductive, PTL DEF Spec

-----------------------------------------------------------------------------
(* A row that says completed is the truth about the facts.                 *)
THEOREM CompletedIsWhole == Spec => []CompletedIndexIsWhole
<1>1. IInv => CompletedIndexIsWhole
  BY DEF IInv, RowInv, CompletedIndexIsWhole
<1> QED
  BY <1>1, InductiveInvariant, PTL

(* No fact of an earlier attempt is left once a new one is under way.      *)
THEOREM AttemptsStartEmpty == Spec => []RestartedFromEmpty
<1>1. IInv => RestartedFromEmpty
  BY DEF IInv, RowInv, RestartedFromEmpty
<1> QED
  BY <1>1, InductiveInvariant, PTL

(* A run is recorded with the revision its coverage was derived from.      *)
THEOREM RunsStartFromOneRevision == Spec => []ScanStartsFromItsRevision
<1>1. IInv => ScanStartsFromItsRevision
  BY DEF IInv, ScanInv, ScanStartsFromItsRevision
<1> QED
  BY <1>1, InductiveInvariant, PTL

(* The facts do not change under an operation that holds the key.          *)
THEOREM ReadsUnderKeyAreStable == Spec => []LockedReadsAreStable
<1>1. IInv => LockedReadsAreStable
  BY DEF IInv, SessionInv, LockedInv, LockedReadsAreStable, Locked
<1> QED
  BY <1>1, InductiveInvariant, PTL

(* A row or facts that are there are rewritten by the execution that holds *)
(* the key of their workspace, and by nobody else.                         *)
THEOREM OnlyTheExecutionRewrites == Spec => IndexChangesUnderKey
<1> DEFINE Rewrite(i) == /\ <<record[i], facts[i]>>' # <<record[i], facts[i]>>
                         /\ record[i].stage # "absent"
           Held(i) == lock[Owner[i]] = "execution" /\ execution.index = i
<1>1. ASSUME IInv, [Next]_vars, NEW i \in Indexes, Rewrite(i)
      PROVE  Held(i)
  <2>1. CASE ExecutionStep
    <3>1. ~At("none")
      BY <2>1 DEF ExecutionStep, MarkResolving, ClearContents, Bump, RunExecutor,
                  ReplaceContents, PublishCompleted, RecordFailure, At
    <3>2. \A j \in Indexes \ {execution.index} :
             record'[j] = record[j] /\ facts'[j] = facts[j]
      BY <1>1, <2>1 DEF IInv, TypeOK, ExecutionStep, MarkResolving, ClearContents,
                        Bump, RunExecutor, ReplaceContents, PublishCompleted,
                        RecordFailure
    <3> QED
      BY <1>1, <3>1, <3>2 DEF IInv, ExecutionInv
  <2>2. ASSUME NEW j \in Indexes, StartIndex(j) PROVE FALSE
    BY <1>1, <2>2 DEF StartIndex, IInv, TypeOK
  <2>3. ASSUME UNCHANGED <<record, facts>> PROVE FALSE
    BY <1>1, <2>3
  <2> QED
    BY <1>1, <2>1, <2>2, <2>3
       DEF Next, BeginExecution, SessionStep, ListTable, Answer, SaveStartedScan,
           SaveCompletedScan, FailSession, OpenCandidates, OpenBoundary, OpenStart,
           OpenComplete, Open, DeleteScan, Crash, vars
<1>2. IInv /\ [Next]_vars => [\A i \in Indexes : Rewrite(i) => Held(i)]_vars
  BY <1>1
<1> QED
  BY <1>2, InductiveInvariant, PTL DEF Spec, IndexChangesUnderKey
=============================================================================
