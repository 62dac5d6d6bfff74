---------------------------- MODULE PostgresStore ----------------------------
(***************************************************************************)
(* packages/storage/src/postgres-store.ts over one workspace and one of    *)
(* its repository indexes.  A session is one call that holds a pooled      *)
(* client: a read or a mutation loads the state table after table with no  *)
(* transaction; a save, a replacement and a replacement of index contents  *)
(* run their statements on a private view that becomes the database when   *)
(* they commit.  Any statement may fail, the answer of a COMMIT may be     *)
(* lost, and the process may stop between any two steps.                   *)
(***************************************************************************)
EXTENDS StoreSchema, Sequences, SequencesExt

CONSTANTS Sessions,   \* calls in flight
          Shapes,     \* which optional tables a saved state may fill or name
          MaxWrites,  \* bound on the number of writes
          Nobody      \* holder of a lock that is free

ASSUME ShapesAreClosed ==
  \A s \in Shapes :
    /\ s \subseteq Tables
    /\ "edges" \in s \/ "projections" \in s => "nodes" \in s
    /\ "category_assignments" \in s => {"nodes", "categories"} \subseteq s
    /\ "scan_runs" \in s => {"nodes", "scan_profiles"} \subseteq s

ASSUME NobodyIsNoSession == Nobody \notin Sessions
ASSUME MaxWritesIsNatural == MaxWrites \in Nat

VARIABLES content,   \* the committed rows
          revision,  \* workspaces.revision
          parts,     \* per write, what it filled or named
          session,   \* per session, what it is doing
          keyed,     \* whether the sessions are of one server, with one coordinator
          key,       \* holder of its key of the workspace
          rowLock    \* holders of the FOR UPDATE locks: workspace row, index row

vars == <<content, revision, parts, session, keyed, key, rowLock>>

Mandatory == {"workspaces", "graphs", "capture_policies"}
Holds(v, t) == t \in StateTables /\ (t \in Mandatory \/ t \in parts[v])

NoView  == [t \in Tables |-> Absent]
Idle    == [at |-> "idle", kind |-> "none", todo |-> <<>>, view |-> NoView, write |-> 0]
NoLocks == [workspace |-> Nobody, index |-> Nobody]
At(s, place) == session[s].at = place

Init == /\ content = NoView
        /\ revision = 0
        /\ parts = <<>>
        /\ session = [s \in Sessions |-> Idle]
        /\ keyed \in BOOLEAN
        /\ key = Nobody
        /\ rowLock = NoLocks

-----------------------------------------------------------------------------
(* The statements of each call, in the order of the code.                  *)

Clear(t)  == [op |-> "clear", table |-> t]
Insert(t) == [op |-> "insert", table |-> t]
Prune     == [op |-> "prune", table |-> "node_embeddings"]
Upsert    == [op |-> "upsert", table |-> "workspaces"]
Bump      == [op |-> "bump", table |-> "workspaces"]
Load(t)   == [op |-> "load", table |-> t]
Each(Query(_), tables) == [i \in DOMAIN tables |-> Query(tables[i])]

(* Faulty variant: profiles are deleted before the runs that name them. *)
ClearWorkspaceStateUnordered ==
  Each(Clear, <<"feedback_events", "category_assignments", "scan_profiles",
                "scan_runs", "projections", "proposals", "capture_policies",
                "categories", "graphs">>)

ClearWorkspaceState ==
  Each(Clear, <<"feedback_events", "category_assignments", "scan_runs",
                "scan_profiles", "projections", "proposals", "capture_policies",
                "categories", "graphs">>)

ReplaceGraph == <<Clear("graphs")>> \o Each(Insert, <<"graphs", "nodes", "edges">>)
ReplaceCategoryCatalog    == <<Insert("categories")>>
InsertCategoryAssignments == <<Insert("category_assignments")>>
ReplaceCapturePolicy      == <<Insert("capture_policies")>>
ReplaceFeedbackEvents     == <<Insert("feedback_events")>>
ReplaceProposals          == <<Insert("proposals")>>
ReplaceProjections        == <<Insert("projections")>>
ReplaceScanProfiles       == <<Insert("scan_profiles")>>
ReplaceScanRuns           == <<Insert("scan_runs")>>

InsertWorkspaceState ==
  ReplaceGraph \o <<Prune>> \o ReplaceCategoryCatalog \o InsertCategoryAssignments
    \o ReplaceCapturePolicy \o ReplaceProposals \o ReplaceProjections
    \o ReplaceFeedbackEvents \o ReplaceScanProfiles \o ReplaceScanRuns

SaveStatements    == <<Upsert>> \o ClearWorkspaceState \o InsertWorkspaceState \o <<Bump>>
ReplaceStatements == <<Clear("workspaces"), Insert("workspaces")>>
                       \o InsertWorkspaceState \o <<Bump>>
ContentStatements ==
  Each(Clear, <<"dependencies", "references", "symbols", "chunks", "files">>)
    \o Each(Insert, <<"files", "chunks", "symbols", "references", "dependencies">>)

StatementsOf(kind) == CASE kind = "save"     -> SaveStatements
                        [] kind = "replace"  -> ReplaceStatements
                        [] kind = "contents" -> ContentStatements

LoadOrder == Each(Load, <<"workspaces", "graphs", "nodes", "edges", "categories",
                          "projections", "category_assignments", "capture_policies",
                          "feedback_events", "proposals", "scan_profiles", "scan_runs">>)

(* validateWorkspaceState: what a state must name in itself. *)
Validated(seen) ==
  /\ \A t \in {"edges", "projections", "category_assignments", "scan_runs"} :
       seen[t] # Absent => seen["nodes"] # Absent
  /\ seen["category_assignments"] # Absent => seen["categories"] # Absent
  /\ seen["scan_runs"] # Absent => seen["scan_profiles"] # Absent

-----------------------------------------------------------------------------
(* Faulty variant: nobody takes the key. *)
TakeNoKey(s) == UNCHANGED key

(* The key of the coordinator; the runtime wraps every writer in it, but   *)
(* another server on the same database has a coordinator of its own.       *)
TakeKey(s) == IF keyed THEN key = Nobody /\ key' = s ELSE UNCHANGED key
GiveKey(s) == key' = IF key = s THEN Nobody ELSE key
Finish(s)  == /\ session' = [session EXCEPT ![s] = Idle]
              /\ GiveKey(s)
              /\ rowLock' = [r \in DOMAIN rowLock |->
                               IF rowLock[r] = s THEN Nobody ELSE rowLock[r]]

(* loadWorkspaceState, for a read or as the first half of a mutation. *)
BeginLoad(s, kind) ==
  /\ At(s, "idle")
  /\ IF kind = "mutation" THEN TakeKey(s) ELSE UNCHANGED key
  /\ session' = [session EXCEPT ![s] =
       [Idle EXCEPT !.at = "load", !.kind = kind, !.todo = LoadOrder]]
  /\ UNCHANGED <<content, revision, parts, rowLock>>

LoadTable(s) ==
  LET t == Head(session[s].todo).table
  IN /\ At(s, "load")
     /\ session[s].todo # <<>>
     /\ t \in Mandatory => content[t] # Absent
     /\ session' = [session EXCEPT ![s].todo = Tail(@), ![s].view[t] = content[t]]
     /\ UNCHANGED <<content, revision, parts, key, rowLock>>

(* A record, graph or policy that is not there, a failed query. *)
FailLoad(s) == /\ At(s, "load")
               /\ Finish(s)
               /\ UNCHANGED <<content, revision, parts>>

EndLoad(s) == /\ At(s, "load")
              /\ session[s].todo = <<>>
              /\ Validated(session[s].view)
              /\ session' = [session EXCEPT ![s].at = "loaded"]
              /\ UNCHANGED <<content, revision, parts, key, rowLock>>

AnswerRead(s) == /\ At(s, "loaded")
                 /\ session[s].kind = "read"
                 /\ Finish(s)
                 /\ UNCHANGED <<content, revision, parts>>

-----------------------------------------------------------------------------
(* Transactions. *)

(* What the caller hands to the store: the parts of the new state.  A run  *)
(* names an index the caller found there.                                  *)
NewWrite(shape) ==
  /\ Len(parts) < MaxWrites
  /\ "repository_indexes" \in shape => content["repository_indexes"] # Absent
  /\ parts' = Append(parts, shape)

BeginTransaction(s, kind, w) ==
  session' = [session EXCEPT ![s] =
    [at |-> "statements", kind |-> kind, todo |-> StatementsOf(kind),
     view |-> content, write |-> w]]

(* Waits for the row locks of a call, and keeps those. *)
Lock(s, rows) == /\ \A r \in rows : rowLock[r] = Nobody
                 /\ rowLock' = [r \in DOMAIN rowLock |->
                                  IF r \in rows THEN s ELSE rowLock[r]]

(* The save of a mutation, or of workspace_create, which loads nothing. *)
BeginSave(s, shape) ==
  /\ \/ At(s, "loaded") /\ session[s].kind = "mutation" /\ UNCHANGED key
     \/ At(s, "idle") /\ TakeKey(s)
  /\ Lock(s, {"workspace"})
  /\ NewWrite(shape)
  /\ BeginTransaction(s, "save", Len(parts) + 1)
  /\ UNCHANGED <<content, revision>>

(* The DELETE cascades to the index, so it waits for that row too. *)
BeginReplace(s, shape) ==
  /\ At(s, "idle")
  /\ content["workspaces"] # Absent
  /\ TakeKey(s)
  /\ Lock(s, {"workspace", "index"})
  /\ NewWrite(shape)
  /\ BeginTransaction(s, "replace", Len(parts) + 1)
  /\ UNCHANGED <<content, revision>>

BeginContents(s) ==
  /\ At(s, "idle")
  /\ content["repository_indexes"] # Absent
  /\ TakeKey(s)
  /\ Lock(s, {"index"})
  /\ NewWrite(FactTables)
  /\ BeginTransaction(s, "contents", Len(parts) + 1)
  /\ UNCHANGED <<content, revision>>

Filled(s, t) == IF session[s].kind = "contents" THEN TRUE
                                                ELSE Holds(session[s].write, t)

(* One statement on the view of the transaction, when the schema lets it. *)
Allowed(s, q) ==
  LET view == session[s].view
  IN CASE q.op = "clear"  -> CanDelete(view, parts, q.table)
       [] q.op = "insert" -> Filled(s, q.table)
                               => CanInsert(view, parts, q.table, session[s].write)
       [] OTHER           -> TRUE

Result(s, q) ==
  LET view == session[s].view
      w    == session[s].write
  IN CASE q.op = "clear"  -> Without(view, parts, q.table)
       [] q.op = "insert" -> IF Filled(s, q.table) THEN [view EXCEPT ![q.table] = w]
                                                   ELSE view
       [] q.op = "upsert" -> [view EXCEPT !["workspaces"] = w]
       [] q.op = "prune"  -> IF "nodes" \in parts[w] THEN view
                             ELSE [view EXCEPT !["node_embeddings"] = Absent]
       [] q.op = "bump"   -> view

(* A refused statement stops the transaction where it is. *)
After(s, q) ==
  IF Allowed(s, q)
  THEN [session[s] EXCEPT !.todo = Tail(session[s].todo), !.view = Result(s, q)]
  ELSE [session[s] EXCEPT !.at = "refused"]

(* A run that names the index waits until nobody replaces its contents. *)
Waits(s, q) == /\ q = Insert("scan_runs")
               /\ "repository_indexes" \in parts[session[s].write]
               /\ rowLock["index"] \notin {s, Nobody}

Statement(s) ==
  /\ At(s, "statements")
  /\ session[s].todo # <<>>
  /\ ~Waits(s, Head(session[s].todo))
  /\ session' = [session EXCEPT ![s] = After(s, Head(session[s].todo))]
  /\ UNCHANGED <<content, revision, parts, key, rowLock>>

(* Faulty variant: the transaction is committed on the way out as well. *)
RollbackCommits(s) ==
  /\ session[s].at \in {"statements", "refused"}
  /\ content' = session[s].view
  /\ Finish(s)
  /\ UNCHANGED <<revision, parts>>

(* A refused statement, a lost connection, a COMMIT that did not arrive. *)
Rollback(s) ==
  /\ session[s].at \in {"statements", "refused"}
  /\ Finish(s)
  /\ UNCHANGED <<content, revision, parts>>

(* The tables the statements of a call touch. *)
Written(kind) == CASE kind = "save"     -> StateTables \cup {"node_embeddings"}
                   [] kind = "replace"  -> Tables
                   [] kind = "contents" -> FactTables

(* Replacing the row starts its revision again from the column default. *)
Commit(s) ==
  /\ At(s, "statements")
  /\ session[s].todo = <<>>
  /\ content' = [t \in Tables |->
       IF t \in Written(session[s].kind) THEN session[s].view[t] ELSE content[t]]
  /\ revision' = CASE session[s].kind = "save"     -> revision + 1
                   [] session[s].kind = "replace"  -> 1
                   [] session[s].kind = "contents" -> revision
  /\ Finish(s)
  /\ UNCHANGED parts

-----------------------------------------------------------------------------
(* Single statements, which commit on their own. *)

DeleteWorkspace ==
  /\ content["workspaces"] # Absent
  /\ rowLock = NoLocks
  /\ keyed => key = Nobody
  /\ CanDelete(content, parts, "workspaces")
  /\ content' = Without(content, parts, "workspaces")
  /\ revision' = 0
  /\ UNCHANGED <<parts, session, key, rowLock>>

(* upsertRepositoryIndex and upsertConceptEmbedding, of a new row. *)
UpsertRow(t) ==
  /\ content[t] = Absent
  /\ content["workspaces"] # Absent
  /\ rowLock["workspace"] = Nobody
  /\ keyed => key = Nobody
  /\ content' = [content EXCEPT ![t] = 1]
  /\ UNCHANGED <<revision, parts, session, key, rowLock>>

Crash == /\ \E s \in Sessions : ~At(s, "idle")
         /\ session' = [s \in Sessions |-> Idle]
         /\ key' = Nobody
         /\ rowLock' = NoLocks
         /\ UNCHANGED <<content, revision, parts>>

Work(s) == \/ LoadTable(s) \/ EndLoad(s) \/ FailLoad(s) \/ AnswerRead(s)
           \/ Statement(s) \/ Rollback(s) \/ Commit(s)

Step == \/ \E s \in Sessions :
             \/ \E kind \in {"read", "mutation"} : BeginLoad(s, kind)
             \/ \E shape \in Shapes : BeginSave(s, shape) \/ BeginReplace(s, shape)
             \/ BeginContents(s)
             \/ Work(s)
        \/ DeleteWorkspace
        \/ \E t \in {"repository_indexes", "node_embeddings"} : UpsertRow(t)
        \/ Crash

Next == Step /\ UNCHANGED keyed

Spec == Init /\ [][Next]_vars

-----------------------------------------------------------------------------
(* Properties. *)

Queries == [op : {"load", "clear", "insert", "prune", "upsert", "bump"}, table : Tables]
Views == [Tables -> 0..MaxWrites]
SessionRows == [at : {"idle", "load", "loaded", "statements", "refused"},
                kind : {"none", "read", "mutation", "save", "replace", "contents"},
                todo : Seq(Queries), view : Views, write : 0..MaxWrites]

TypeOK ==
  /\ content \in Views
  /\ revision \in Nat
  /\ parts \in Seq(SUBSET Tables) /\ Len(parts) <= MaxWrites
  /\ session \in [Sessions -> SessionRows]
  /\ keyed \in BOOLEAN
  /\ key \in Sessions \cup {Nobody}
  /\ rowLock \in [{"workspace", "index"} -> Sessions \cup {Nobody}]

(* The tables of a workspace hold one saved state, whole, or no state at   *)
(* all, and the facts of its index come from one replacement: whatever     *)
(* statement failed, wherever the process stopped, whoever else wrote.     *)
ContentIsOneWrite ==
  /\ \/ \A t \in StateTables : content[t] = Absent
     \/ \E v \in DOMAIN parts : \A t \in StateTables :
          content[t] = IF Holds(v, t) THEN v ELSE Absent
  /\ \E v \in 0..MaxWrites : \A t \in FactTables : content[t] = v

(* No row outlives what it belongs to: with the workspace go its index,    *)
(* its facts and its vectors, and vectors without a concept are pruned.    *)
NothingIsLeftBehind ==
  /\ content["workspaces"] = Absent => \A t \in Tables : content[t] = Absent
  /\ \A fk \in ForeignKeys : Refers(content, parts, fk) => content[fk.to] # Absent

(* The order of the statements suits the foreign keys: no save of a valid  *)
(* state and no replacement of contents is refused by the schema, whatever *)
(* state was there before.                                                 *)
ValidWritesAreAccepted ==
  \A s \in Sessions : At(s, "refused") => session[s].kind = "replace"

(* DELETE FROM workspaces is never refused: the rows that restrict it have *)
(* gone by the time the restriction is looked at.                          *)
WorkspaceCanBeDeleted ==
  content["workspaces"] # Absent => CanDelete(content, parts, "workspaces")

(* What a mutation loaded under the key is what the database holds until   *)
(* the mutation saves: nobody's update is lost within one server.          *)
MutationSeesTheDatabase ==
  \A s \in Sessions :
    keyed /\ session[s].kind = "mutation" =>
      \A t \in StateTables :
        Load(t) \notin ToSet(session[s].todo)
        => session[s].view[t] = content[t]

(* A read that runs beside saves may mix two states, but what it hands out *)
(* is closed: nothing in it names something that is not in it.             *)
AnswersAreClosed ==
  \A s \in Sessions : At(s, "loaded") =>
    \A fk \in GraphKeys \cup CaptureKeys \cup ScanKeys :
      /\ {fk.on, fk.to} \subseteq StateTables
      /\ ~fk.optional
      /\ session[s].view[fk.on] # Absent
      => session[s].view[fk.to] # Absent

(* Writes are whole: what is stored is of one write, and what belonged to  *)
(* a row that has gone has gone with it.                                   *)
ContentIsWhole == TypeOK /\ ContentIsOneWrite /\ NothingIsLeftBehind

(* The schema refuses neither a valid write nor the end of a workspace.    *)
SchemaRefusesNothing == ValidWritesAreAccepted /\ WorkspaceCanBeDeleted

(* A load in twelve queries outside a transaction serves its purpose: a    *)
(* mutation builds on what is there, and a read is closed in itself.       *)
LoadsAreSound == MutationSeesTheDatabase /\ AnswersAreClosed

(* docs/specs/storage-format.md:679: a successful mutating transaction     *)
(* increments workspaces.revision.                                         *)
RevisionIncrements ==
  [][content["workspaces"] # Absent /\ content'["workspaces"] # Absent
     /\ content'["workspaces"] # content["workspaces"]
     => revision' = revision + 1]_vars
=============================================================================
