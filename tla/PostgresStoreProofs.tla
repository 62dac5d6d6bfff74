------------------------ MODULE PostgresStoreProofs ------------------------
(***************************************************************************)
(* Proofs about PostgresStore, for any number of sessions, writes and      *)
(* shapes of states.  LoadInv is about what a load has seen, StoreInv adds *)
(* the transactions.  The statements of a call are a fixed list, so that   *)
(* its order suits the foreign keys is a fact about that list (Ordered,    *)
(* Restores: SaveInOrder, ReplaceInOrder, ContentsInOrder); what holds of  *)
(* a list holds of its tail, and Advance shows that a statement of an      *)
(* ordered list takes the view of its transaction one step further.        *)
(***************************************************************************)
EXTENDS PostgresStore, TLAPS

Writes == [op : {"clear", "insert", "prune", "upsert", "bump"}, table : Tables]
Loads  == {Load(t) : t \in StateTables}

(* The statements of every call. *)
LEMMA EachIsAWrite ==
  ASSUME NEW tables \in Seq(Tables)
  PROVE  /\ Each(Clear, tables) \in Seq(Writes)
         /\ Each(Insert, tables) \in Seq(Writes)
<1>1. DOMAIN tables = 1..Len(tables) /\ Len(tables) \in Nat
      /\ \A i \in 1..Len(tables) : tables[i] \in Tables
  OBVIOUS
<1>2. \A t \in Tables : Clear(t) \in Writes /\ Insert(t) \in Writes
  BY DEF Clear, Insert, Writes
<1> QED BY <1>1, <1>2 DEF Each

LEMMA Names == /\ {"feedback_events", "category_assignments", "scan_runs", "scan_profiles",
                   "projections", "proposals", "capture_policies", "categories", "graphs",
                   "nodes", "edges", "workspaces"} \subseteq Tables
               /\ {"dependencies", "references", "symbols", "chunks", "files"} \subseteq Tables
               /\ "node_embeddings" \in Tables
BY DEF Tables, StateTables, FactTables

LEMMA StatementsAreWrites ==
  ASSUME NEW kind \in {"save", "replace", "contents"}
  PROVE  StatementsOf(kind) \in Seq(Writes)
<1>1. ASSUME NEW t \in Tables PROVE <<Insert(t)>> \in Seq(Writes)
  <2>1. Insert(t) \in Writes
    BY DEF Insert, Writes
  <2> HIDE DEF Writes
  <2> QED BY <2>1
<1>2. <<Prune>> \in Seq(Writes) /\ <<Upsert>> \in Seq(Writes) /\ <<Bump>> \in Seq(Writes)
  <2>1. Prune \in Writes /\ Upsert \in Writes /\ Bump \in Writes
    BY Names DEF Prune, Upsert, Bump, Writes
  <2> QED BY <2>1
<1>3. <<Clear("graphs")>> \in Seq(Writes)
  <2>1. Clear("graphs") \in Writes
    BY Names DEF Clear, Writes
  <2> QED BY <2>1
<1>4. Each(Insert, <<"graphs", "nodes", "edges">>) \in Seq(Writes)
  <2>1. <<"graphs", "nodes", "edges">> \in Seq(Tables)
    BY Names
  <2> QED BY <2>1, EachIsAWrite
<1>5. ReplaceGraph \in Seq(Writes)
  <2> DEFINE c == <<Clear("graphs")>>
             i == Each(Insert, <<"graphs", "nodes", "edges">>)
  <2> HIDE DEF c, i
  <2>1. c \o i \in Seq(Writes)
    BY <1>3, <1>4 DEF c, i
  <2> QED BY <2>1 DEF ReplaceGraph, c, i
<1>6. /\ ReplaceCategoryCatalog \in Seq(Writes) /\ InsertCategoryAssignments \in Seq(Writes)
      /\ ReplaceCapturePolicy \in Seq(Writes) /\ ReplaceProposals \in Seq(Writes)
      /\ ReplaceProjections \in Seq(Writes) /\ ReplaceFeedbackEvents \in Seq(Writes)
      /\ ReplaceScanProfiles \in Seq(Writes) /\ ReplaceScanRuns \in Seq(Writes)
  <2>1. {"categories", "category_assignments", "capture_policies", "proposals", "projections",
         "feedback_events", "scan_profiles", "scan_runs"} \subseteq Tables
    BY Names
  <2> QED BY <1>1, <2>1
          DEF ReplaceCategoryCatalog, InsertCategoryAssignments, ReplaceCapturePolicy,
              ReplaceProposals, ReplaceProjections, ReplaceFeedbackEvents,
              ReplaceScanProfiles, ReplaceScanRuns
<1>7. InsertWorkspaceState \in Seq(Writes)
  <2> DEFINE p == <<Prune>>
  <2> HIDE DEF p
  <2>1. p \in Seq(Writes)
    BY <1>2 DEF p
  <2> QED BY <1>5, <1>6, <2>1 DEF InsertWorkspaceState, p
<1>8. ClearWorkspaceState \in Seq(Writes)
  <2>1. <<"feedback_events", "category_assignments", "scan_runs", "scan_profiles",
          "projections", "proposals", "capture_policies", "categories", "graphs">>
           \in Seq(Tables)
    BY Names
  <2> QED BY <2>1, EachIsAWrite DEF ClearWorkspaceState
<1>9. SaveStatements \in Seq(Writes)
  <2> DEFINE u == <<Upsert>>
             b == <<Bump>>
  <2> HIDE DEF u, b
  <2>1. u \in Seq(Writes) /\ b \in Seq(Writes)
    BY <1>2 DEF u, b
  <2> QED BY <1>7, <1>8, <2>1 DEF SaveStatements, u, b
<1>10. ReplaceStatements \in Seq(Writes)
  <2> DEFINE r == <<Clear("workspaces"), Insert("workspaces")>>
             b == <<Bump>>
  <2>1. Clear("workspaces") \in Writes /\ Insert("workspaces") \in Writes
    BY Names DEF Clear, Insert, Writes
  <2>2. r \in Seq(Writes)
    BY <2>1
  <2> HIDE DEF r, b
  <2>3. b \in Seq(Writes)
    BY <1>2 DEF b
  <2> QED BY <1>7, <2>2, <2>3 DEF ReplaceStatements, r, b
<1>11. ContentStatements \in Seq(Writes)
  <2> DEFINE c == <<"dependencies", "references", "symbols", "chunks", "files">>
             i == <<"files", "chunks", "symbols", "references", "dependencies">>
  <2>1. c \in Seq(Tables) /\ i \in Seq(Tables)
    BY Names
  <2> HIDE DEF c, i
  <2>2. Each(Clear, c) \in Seq(Writes) /\ Each(Insert, i) \in Seq(Writes)
    BY <2>1, EachIsAWrite
  <2>3. Each(Clear, c) \o Each(Insert, i) \in Seq(Writes)
    BY <2>2
  <2> QED BY <2>3 DEF ContentStatements, c, i
<1> QED BY <1>9, <1>10, <1>11 DEF StatementsOf

LEMMA LoadsAreQueries ==
  /\ LoadOrder \in Seq(Loads)
  /\ Loads \subseteq Queries
  /\ \A t \in StateTables : Load(t) \in ToSet(LoadOrder)
<1> DEFINE tables == <<"workspaces", "graphs", "nodes", "edges", "categories",
                       "projections", "category_assignments", "capture_policies",
                       "feedback_events", "proposals", "scan_profiles", "scan_runs">>
<1>1. /\ tables \in Seq(StateTables)
      /\ \A t \in StateTables : \E i \in DOMAIN tables : tables[i] = t
  BY DEF StateTables
<1>2. LoadOrder = [i \in DOMAIN tables |-> Load(tables[i])]
  BY DEF LoadOrder, Each
<1> HIDE DEF tables
<1>3. StateTables \subseteq Tables
  BY DEF Tables
<1>4. LoadOrder \in Seq(Loads)
  <2>1. \A x \in StateTables : Load(x) \in Loads
    BY DEF Loads
  <2> QED BY <1>1, <1>2, <2>1
<1>5. Loads \subseteq Queries
  BY <1>3 DEF Loads, Load, Queries
<1>6. \A t \in StateTables : Load(t) \in ToSet(LoadOrder)
  BY <1>1, <1>2 DEF ToSet
<1> QED BY <1>4, <1>5, <1>6

-----------------------------------------------------------------------------
(* What one session is doing.  A load has a value of every table it has    *)
(* read, and the mandatory ones were there; a writer under the key has it; *)
(* a mutation that still loads sees what is stored.                        *)
SessionInv(s) ==
  /\ At(s, "idle") => session[s].kind = "none"
  /\ session[s].at \in {"load", "loaded"} =>
       /\ session[s].kind \in {"read", "mutation"}
       /\ session[s].todo \in Seq(Loads)
       /\ \A t \in Mandatory :
            Load(t) \notin ToSet(session[s].todo) => session[s].view[t] # Absent
  /\ At(s, "loaded") => session[s].todo = <<>> /\ Validated(session[s].view)
  /\ session[s].at \in {"statements", "refused"} =>
       session[s].kind \in {"save", "replace", "contents"} /\ session[s].todo \in Seq(Writes)
  /\ keyed /\ ~At(s, "idle") /\ session[s].kind # "read" => key = s

LoadInv == TypeOK /\ (\A s \in Sessions : SessionInv(s)) /\ MutationSeesTheDatabase

LEMMA LoadInvInit == Init => LoadInv
<1> SUFFICES ASSUME Init PROVE LoadInv
  OBVIOUS
<1>1. NoView \in Views /\ Idle \in SessionRows
  <2>1. NoView \in Views
    BY MaxWritesIsNatural DEF NoView, Views, Absent
  <2>2. <<>> \in Seq(Queries) /\ 0 \in 0..MaxWrites
    BY MaxWritesIsNatural
  <2> HIDE DEF NoView
  <2> QED BY <2>1, <2>2 DEF Idle, SessionRows
<1>2. TypeOK
  <2>1. parts \in Seq(SUBSET Tables) /\ Len(parts) <= MaxWrites
    BY MaxWritesIsNatural DEF Init
  <2> QED BY <1>1, <2>1 DEF Init, TypeOK, NoLocks
<1>3. \A s \in Sessions : session[s].at = "idle" /\ session[s].kind = "none"
  BY DEF Init, Idle
<1> QED BY <1>2, <1>3 DEF LoadInv, SessionInv, At, MutationSeesTheDatabase

(* A step of one session leaves what the others do alone, and takes no key *)
(* from them.                                                              *)
LEMMA OtherSessions ==
  ASSUME LoadInv, NEW s \in Sessions, NEW row, session' = [session EXCEPT ![s] = row],
         keyed' = keyed, key' = key \/ key \in {s, Nobody}
  PROVE  \A u \in Sessions \ {s} : session'[u] = session[u] /\ SessionInv(u)'
<1> SUFFICES ASSUME NEW u \in Sessions \ {s}
             PROVE  session'[u] = session[u] /\ SessionInv(u)'
  OBVIOUS
<1>1. session'[u] = session[u]
  BY DEF LoadInv, TypeOK
<1>2. SessionInv(u)
  BY DEF LoadInv
<1>3. keyed /\ session[u].at # "idle" /\ session[u].kind # "read" => key = u /\ key' = u
  BY <1>2, NobodyIsNoSession DEF SessionInv, At
<1> QED BY <1>1, <1>2, <1>3 DEF SessionInv, At

(* What the mutations of other sessions see does not change with a step    *)
(* that changes no content.                                                *)
LEMMA OtherMutations ==
  ASSUME LoadInv, NEW s \in Sessions, NEW row, session' = [session EXCEPT ![s] = row],
         keyed' = keyed, content' = content,
         row.kind = "mutation" =>
           \A t \in StateTables : Load(t) \notin ToSet(row.todo) => row.view[t] = content[t]
  PROVE  MutationSeesTheDatabase'
<1> SUFFICES ASSUME NEW u \in Sessions, keyed, session'[u].kind = "mutation",
                    NEW t \in StateTables, Load(t) \notin ToSet(session'[u].todo)
             PROVE  session'[u].view[t] = content[t]
  BY DEF MutationSeesTheDatabase
<1>1. session'[u] = IF u = s THEN row ELSE session[u]
  BY DEF LoadInv, TypeOK
<1> QED BY <1>1 DEF LoadInv, MutationSeesTheDatabase

LEMMA IdleRow == Idle \in SessionRows /\ Idle.at = "idle" /\ Idle.kind = "none"
                 /\ Idle = [at |-> "idle", kind |-> "none", todo |-> <<>>, view |-> NoView,
                            write |-> 0]
                 /\ NoView \in Views
<1>1. NoView \in Views
  BY MaxWritesIsNatural DEF NoView, Views, Absent
<1>2. <<>> \in Seq(Queries) /\ 0 \in 0..MaxWrites
  BY MaxWritesIsNatural
<1> HIDE DEF NoView
<1> QED BY <1>1, <1>2 DEF Idle, SessionRows

(* A session is over. *)
LEMMA FinishStep ==
  ASSUME LoadInv, NEW s \in Sessions, Finish(s), UNCHANGED keyed
  PROVE  /\ \A u \in Sessions : SessionInv(u)'
         /\ session' \in [Sessions -> SessionRows]
         /\ key' \in Sessions \cup {Nobody}
         /\ rowLock' \in [{"workspace", "index"} -> Sessions \cup {Nobody}]
         /\ content' = content => MutationSeesTheDatabase'
<1>1. session' = [session EXCEPT ![s] = Idle] /\ (key' = key \/ key \in {s, Nobody})
  BY DEF Finish, GiveKey
<1>2. \A u \in Sessions \ {s} : SessionInv(u)'
  BY <1>1, OtherSessions
<1>3. session'[s] = Idle /\ session' \in [Sessions -> SessionRows]
  BY <1>1, IdleRow DEF LoadInv, TypeOK
<1>4. SessionInv(s)'
  BY <1>3, IdleRow DEF SessionInv, At
<1>5. content' = content => MutationSeesTheDatabase'
  BY <1>1, IdleRow, OtherMutations
<1>6. /\ key' \in Sessions \cup {Nobody}
      /\ rowLock' \in [{"workspace", "index"} -> Sessions \cup {Nobody}]
  BY DEF Finish, GiveKey, LoadInv, TypeOK
<1> QED BY <1>2, <1>3, <1>4, <1>5, <1>6

LEMMA BeginLoadStep ==
  ASSUME LoadInv, NEW s \in Sessions, NEW kind \in {"read", "mutation"}, BeginLoad(s, kind),
         UNCHANGED keyed
  PROVE  LoadInv'
<1> DEFINE row == [Idle EXCEPT !.at = "load", !.kind = kind, !.todo = LoadOrder]
<1>1. /\ session' = [session EXCEPT ![s] = row] /\ session[s].at = "idle"
      /\ UNCHANGED <<content, revision, parts, rowLock>>
      /\ kind = "mutation" => TakeKey(s)
      /\ kind = "read" => UNCHANGED key
  BY DEF BeginLoad, At
<1>2. /\ row.at = "load" /\ row.kind = kind /\ row.todo = LoadOrder /\ row.view = NoView
      /\ row \in SessionRows
  <2>1. LoadOrder \in Seq(Queries)
    BY LoadsAreQueries
  <2> HIDE DEF LoadOrder, Queries, NoView
  <2> QED BY <2>1, IdleRow DEF SessionRows
<1> HIDE DEF row
<1>3. session'[s] = row /\ session' \in [Sessions -> SessionRows]
  BY <1>1, <1>2 DEF LoadInv, TypeOK
<1>4. /\ key' \in Sessions \cup {Nobody}
      /\ key' = key \/ key = Nobody
      /\ keyed /\ kind # "read" => key' = s
  BY <1>1 DEF TakeKey, LoadInv, TypeOK
<1>5. \A u \in Sessions \ {s} : SessionInv(u)'
  BY <1>1, <1>4, OtherSessions
<1>6. \A t \in StateTables : Load(t) \in ToSet(row.todo)
  BY <1>2, LoadsAreQueries
<1>7. SessionInv(s)'
  <2>1. Mandatory \subseteq StateTables
    BY DEF Mandatory, StateTables
  <2> QED BY <1>2, <1>3, <1>4, <1>6, <2>1, LoadsAreQueries DEF SessionInv, At
<1>8. MutationSeesTheDatabase'
  BY <1>1, <1>6, OtherMutations
<1>9. TypeOK'
  BY <1>1, <1>3, <1>4 DEF LoadInv, TypeOK
<1> QED BY <1>5, <1>7, <1>8, <1>9 DEF LoadInv

LEMMA HeadAndTail ==
  ASSUME NEW Q, NEW q \in Seq(Q), q # <<>>
  PROVE  /\ Head(q) \in Q /\ Tail(q) \in Seq(Q)
         /\ ToSet(q) = {Head(q)} \cup ToSet(Tail(q))
<1>1. Head(q) \in Q /\ Tail(q) \in Seq(Q)
  OBVIOUS
<1>2. ASSUME NEW x \in ToSet(q) PROVE x \in {Head(q)} \cup ToSet(Tail(q))
  <2>1. PICK i \in 1..Len(q) : x = q[i]
    BY <1>2 DEF ToSet
  <2>2. CASE i = 1
    BY <2>1, <2>2
  <2>3. CASE i # 1
    <3>1. i - 1 \in 1..Len(Tail(q)) /\ Tail(q)[i - 1] = q[i]
      BY <2>1, <2>3
    <3>2. DOMAIN Tail(q) = 1..Len(Tail(q))
      BY <1>1
    <3>3. Tail(q)[i - 1] \in ToSet(Tail(q))
      BY <3>1, <3>2 DEF ToSet
    <3> QED BY <2>1, <3>1, <3>3
  <2> QED BY <2>2, <2>3
<1>3. ASSUME NEW x \in {Head(q)} \cup ToSet(Tail(q)) PROVE x \in ToSet(q)
  <2>1. CASE x = Head(q)
    BY <2>1 DEF ToSet
  <2>2. CASE x \in ToSet(Tail(q))
    <3>1. PICK i \in 1..Len(Tail(q)) : x = Tail(q)[i]
      BY <2>2, <1>1 DEF ToSet
    <3>2. i + 1 \in 1..Len(q) /\ q[i + 1] = x
      BY <3>1
    <3> QED BY <3>2 DEF ToSet
  <2> QED BY <1>3, <2>1, <2>2
<1> QED BY <1>1, <1>2, <1>3

LEMMA LoadTableStep ==
  ASSUME LoadInv, NEW s \in Sessions, LoadTable(s), UNCHANGED keyed
  PROVE  LoadInv'
<1> DEFINE old == session[s]
           t == Head(old.todo).table
           row1 == [old EXCEPT !.todo = Tail(old.todo)]
           row == [row1 EXCEPT !.view = [old.view EXCEPT ![t] = content[t]]]
<1>1. /\ old.at = "load" /\ old.todo # <<>>
      /\ t \in Mandatory => content[t] # Absent
      /\ UNCHANGED <<content, revision, parts, key, rowLock>>
  BY DEF LoadTable, At
<1>2. old \in SessionRows /\ SessionInv(s) /\ content \in Views
  BY DEF LoadInv, TypeOK
<1>3. old.todo \in Seq(Loads) /\ old.kind \in {"read", "mutation"}
  BY <1>1, <1>2 DEF SessionInv
<1>4. /\ Head(old.todo) \in Loads /\ Tail(old.todo) \in Seq(Loads)
      /\ ToSet(old.todo) = {Head(old.todo)} \cup ToSet(Tail(old.todo))
  BY <1>1, <1>3, HeadAndTail
<1>5. t \in StateTables /\ Head(old.todo) = Load(t) /\ t \in Tables
  BY <1>4 DEF Loads, Load, Tables
<1>6. /\ row.at = "load" /\ row.kind = old.kind /\ row.todo = Tail(old.todo)
      /\ row.view = [old.view EXCEPT ![t] = content[t]]
      /\ row \in SessionRows
  <2>1. Tail(old.todo) \in Seq(Queries)
    BY <1>4, LoadsAreQueries
  <2>2. [old.view EXCEPT ![t] = content[t]] \in Views
    BY <1>2, <1>5 DEF SessionRows, Views
  <2> HIDE DEF t, old
  <2> QED BY <1>1, <1>2, <2>1, <2>2 DEF SessionRows
<1>7. session' = [session EXCEPT ![s] = row]
  <2> DEFINE session1 == [session EXCEPT ![s] = row1]
  <2>1. session1[s] = row1 /\ row1.view = old.view
    BY <1>2 DEF LoadInv, TypeOK, SessionRows
  <2>2. session' = [session1 EXCEPT ![s] = [session1[s] EXCEPT !.view =
                                              [session1[s].view EXCEPT ![t] = content[t]]]]
    BY DEF LoadTable
  <2> HIDE DEF row1
  <2> QED BY <2>1, <2>2
<1> HIDE DEF row
<1>8. session'[s] = row /\ session' \in [Sessions -> SessionRows]
  BY <1>6, <1>7 DEF LoadInv, TypeOK
<1>9. \A u \in Sessions \ {s} : SessionInv(u)'
  BY <1>1, <1>7, OtherSessions
<1>10. ASSUME NEW x \in StateTables, Load(x) \notin ToSet(row.todo)
       PROVE  /\ x = t \/ Load(x) \notin ToSet(old.todo)
              /\ row.view[x] = IF x = t THEN content[t] ELSE old.view[x]
  <2>1. Load(x) = Load(t) => x = t
    BY DEF Load
  <2>2. x \in DOMAIN old.view
    BY <1>2 DEF SessionRows, Views, Tables
  <2> QED BY <1>4, <1>5, <1>6, <1>10, <2>1, <2>2
<1>11. SessionInv(s)'
  <2>1. Mandatory \subseteq StateTables
    BY DEF Mandatory, StateTables
  <2>2. \A x \in Mandatory : Load(x) \notin ToSet(row.todo) => row.view[x] # Absent
    BY <1>1, <1>2, <1>10, <2>1 DEF SessionInv
  <2>3. keyed /\ old.kind # "read" => key = s
    BY <1>1, <1>2 DEF SessionInv, At
  <2> QED BY <1>1, <1>3, <1>4, <1>6, <1>8, <2>2, <2>3 DEF SessionInv, At
<1>12. ASSUME keyed, row.kind = "mutation", NEW x \in StateTables,
              Load(x) \notin ToSet(row.todo)
       PROVE  row.view[x] = content[x]
  BY <1>6, <1>10, <1>12 DEF LoadInv, MutationSeesTheDatabase
<1>13. MutationSeesTheDatabase'
  <2> SUFFICES ASSUME NEW u \in Sessions, keyed, session'[u].kind = "mutation",
                      NEW x \in StateTables, Load(x) \notin ToSet(session'[u].todo)
               PROVE  session'[u].view[x] = content[x]
    BY <1>1 DEF MutationSeesTheDatabase
  <2>1. CASE u = s
    BY <1>8, <1>12, <2>1
  <2>2. CASE u # s
    BY <1>1, <1>7, <2>2, OtherSessions DEF LoadInv, MutationSeesTheDatabase
  <2> QED BY <2>1, <2>2
<1>14. TypeOK'
  BY <1>1, <1>8 DEF LoadInv, TypeOK
<1> QED BY <1>9, <1>11, <1>13, <1>14 DEF LoadInv

LEMMA EndLoadStep ==
  ASSUME LoadInv, NEW s \in Sessions, EndLoad(s), UNCHANGED keyed
  PROVE  LoadInv'
<1> DEFINE old == session[s]
           row == [old EXCEPT !.at = "loaded"]
<1>1. /\ old.at = "load" /\ old.todo = <<>> /\ Validated(old.view)
      /\ session' = [session EXCEPT ![s] = row]
      /\ UNCHANGED <<content, revision, parts, key, rowLock>>
  BY DEF EndLoad, At
<1>2. old \in SessionRows /\ SessionInv(s)
  BY DEF LoadInv, TypeOK
<1>3. /\ row \in SessionRows /\ row.at = "loaded" /\ row.kind = old.kind
      /\ row.todo = old.todo /\ row.view = old.view
  BY <1>2 DEF SessionRows
<1> HIDE DEF row, old
<1>4. session'[s] = row /\ session' \in [Sessions -> SessionRows]
  BY <1>1, <1>3 DEF LoadInv, TypeOK
<1>5. \A u \in Sessions \ {s} : SessionInv(u)'
  BY <1>1, OtherSessions
<1>6. SessionInv(s)'
  BY <1>1, <1>2, <1>3, <1>4 DEF SessionInv, At, old
<1>7. MutationSeesTheDatabase'
  <2>1. keyed /\ row.kind = "mutation" =>
          \A t \in StateTables : Load(t) \notin ToSet(row.todo) => row.view[t] = content[t]
    BY <1>3 DEF LoadInv, MutationSeesTheDatabase, old
  <2> SUFFICES ASSUME NEW u \in Sessions, keyed, session'[u].kind = "mutation",
                      NEW t \in StateTables, Load(t) \notin ToSet(session'[u].todo)
               PROVE  session'[u].view[t] = content[t]
    BY <1>1 DEF MutationSeesTheDatabase
  <2>2. CASE u = s
    BY <1>4, <2>1, <2>2
  <2>3. CASE u # s
    BY <1>1, <2>3, OtherSessions DEF LoadInv, MutationSeesTheDatabase
  <2> QED BY <2>2, <2>3
<1>8. TypeOK'
  BY <1>1, <1>4 DEF LoadInv, TypeOK
<1> QED BY <1>5, <1>6, <1>7, <1>8 DEF LoadInv

(* A transaction begins, of whatever kind, for whatever shape. *)
LEMMA BeginTransactionStep ==
  ASSUME LoadInv, NEW s \in Sessions, NEW kind \in {"save", "replace", "contents"},
         NEW shape \in SUBSET Tables, NEW rows \in SUBSET {"workspace", "index"},
         NewWrite(shape), BeginTransaction(s, kind, Len(parts) + 1), Lock(s, rows),
         UNCHANGED <<content, revision, keyed>>,
         \/ At(s, "loaded") /\ session[s].kind = "mutation" /\ UNCHANGED key
         \/ At(s, "idle") /\ TakeKey(s)
  PROVE  LoadInv'
<1> DEFINE w == Len(parts) + 1
           row == [at |-> "statements", kind |-> kind, todo |-> StatementsOf(kind),
                   view |-> content, write |-> w]
<1>1. session' = [session EXCEPT ![s] = row] /\ parts' = Append(parts, shape)
      /\ Len(parts) < MaxWrites
  BY DEF BeginTransaction, NewWrite
<1>2. w \in 0..MaxWrites /\ parts' \in Seq(SUBSET Tables) /\ Len(parts') <= MaxWrites
  <2>1. parts \in Seq(SUBSET Tables)
    BY DEF LoadInv, TypeOK
  <2> QED BY <1>1, <2>1, MaxWritesIsNatural
<1>3. StatementsOf(kind) \in Seq(Writes) /\ Writes \subseteq Queries
  BY StatementsAreWrites DEF Writes, Queries
<1>4. /\ row \in SessionRows /\ row.at = "statements" /\ row.kind = kind
      /\ row.todo = StatementsOf(kind)
  <2>1. StatementsOf(kind) \in Seq(Queries) /\ content \in Views
    BY <1>3 DEF LoadInv, TypeOK
  <2> HIDE DEF w
  <2> QED BY <1>2, <2>1 DEF SessionRows
<1> HIDE DEF row, w
<1>5. session'[s] = row /\ session' \in [Sessions -> SessionRows]
  BY <1>1, <1>4 DEF LoadInv, TypeOK
<1>6. /\ key' \in Sessions \cup {Nobody}
      /\ key' = key \/ key = Nobody
      /\ keyed => key' = s
  <2>1. CASE At(s, "loaded") /\ session[s].kind = "mutation" /\ UNCHANGED key
    <3>1. keyed => key = s
      BY <2>1 DEF LoadInv, SessionInv, At
    <3> QED BY <2>1, <3>1 DEF LoadInv, TypeOK
  <2>2. CASE At(s, "idle") /\ TakeKey(s)
    BY <2>2 DEF TakeKey, LoadInv, TypeOK
  <2> QED BY <2>1, <2>2
<1>7. \A u \in Sessions \ {s} : SessionInv(u)'
  BY <1>1, <1>6, OtherSessions
<1>8. SessionInv(s)'
  BY <1>3, <1>4, <1>5, <1>6 DEF SessionInv, At
<1>9. MutationSeesTheDatabase'
  BY <1>1, <1>4, OtherMutations
<1>10. rowLock' \in [{"workspace", "index"} -> Sessions \cup {Nobody}]
  BY DEF Lock, LoadInv, TypeOK
<1> QED BY <1>2, <1>5, <1>6, <1>7, <1>8, <1>9, <1>10 DEF LoadInv, TypeOK

LEMMA BeginSteps ==
  ASSUME LoadInv, NEW s \in Sessions, UNCHANGED keyed,
         \/ \E shape \in Shapes : BeginSave(s, shape) \/ BeginReplace(s, shape)
         \/ BeginContents(s)
  PROVE  LoadInv'
<1>1. \A shape \in Shapes : shape \in SUBSET Tables
  BY ShapesAreClosed
<1>2. ASSUME NEW shape \in Shapes, BeginSave(s, shape) PROVE LoadInv'
  BY <1>1, <1>2, BeginTransactionStep DEF BeginSave
<1>3. ASSUME NEW shape \in Shapes, BeginReplace(s, shape) PROVE LoadInv'
  BY <1>1, <1>3, BeginTransactionStep DEF BeginReplace
<1>4. CASE BeginContents(s)
  <2>1. FactTables \in SUBSET Tables
    BY DEF Tables
  <2> QED BY <1>4, <2>1, BeginTransactionStep DEF BeginContents
<1> QED BY <1>2, <1>3, <1>4

LEMMA StatementStep ==
  ASSUME LoadInv, NEW s \in Sessions, Statement(s), UNCHANGED keyed
  PROVE  LoadInv'
<1> DEFINE old == session[s]
           q == Head(old.todo)
           done == [old EXCEPT !.todo = Tail(old.todo), !.view = Result(s, q)]
           refused == [old EXCEPT !.at = "refused"]
           row == IF Allowed(s, q) THEN done ELSE refused
<1>1. /\ old.at = "statements" /\ old.todo # <<>>
      /\ session' = [session EXCEPT ![s] = row]
      /\ UNCHANGED <<content, revision, parts, key, rowLock>>
  BY DEF Statement, At, After
<1>2. old \in SessionRows /\ SessionInv(s)
  BY DEF LoadInv, TypeOK
<1>3. old.todo \in Seq(Writes) /\ old.kind \in {"save", "replace", "contents"}
  BY <1>1, <1>2 DEF SessionInv
<1>4. q \in Writes /\ Tail(old.todo) \in Seq(Writes) /\ Writes \subseteq Queries
  <2>1. Writes \subseteq Queries
    BY DEF Writes, Queries
  <2> QED BY <1>1, <1>3, <2>1, HeadAndTail
<1>5. old.view \in Views /\ old.write \in 0..MaxWrites /\ 0 \in 0..MaxWrites
  BY <1>2, MaxWritesIsNatural DEF SessionRows
<1>6. Result(s, q) \in Views
  <2>1. Without(old.view, parts, q.table) \in Views
    BY <1>5 DEF Without, Views, Absent
  <2>2. [old.view EXCEPT ![q.table] = old.write] \in Views
    BY <1>4, <1>5 DEF Views, Writes
  <2>3. [old.view EXCEPT !["workspaces"] = old.write] \in Views
    BY <1>5 DEF Views
  <2>4. [old.view EXCEPT !["node_embeddings"] = Absent] \in Views
    BY <1>5 DEF Views, Absent
  <2>5. q.op \in {"clear", "insert", "prune", "upsert", "bump"}
    BY <1>4 DEF Writes
  <2> HIDE DEF q, old, Without, Views
  <2> QED BY <1>5, <2>1, <2>2, <2>3, <2>4, <2>5 DEF Result, old
<1> HIDE DEF q
<1>7. /\ done \in SessionRows /\ done.at = "statements" /\ done.kind = old.kind
      /\ done.todo = Tail(old.todo)
  <2>1. Tail(old.todo) \in Seq(Queries)
    BY <1>4
  <2> HIDE DEF old
  <2> QED BY <1>1, <1>2, <1>6, <2>1 DEF SessionRows
<1>8. /\ refused \in SessionRows /\ refused.at = "refused" /\ refused.kind = old.kind
      /\ refused.todo = old.todo
  BY <1>2 DEF SessionRows
<1> HIDE DEF done, refused
<1>9. /\ row \in SessionRows /\ row.at \in {"statements", "refused"} /\ row.kind = old.kind
      /\ row.todo \in Seq(Writes)
  BY <1>3, <1>4, <1>7, <1>8
<1> HIDE DEF row
<1>10. session'[s] = row /\ session' \in [Sessions -> SessionRows]
  BY <1>1, <1>9 DEF LoadInv, TypeOK
<1>11. \A u \in Sessions \ {s} : SessionInv(u)'
  BY <1>1, OtherSessions
<1>12. SessionInv(s)'
  BY <1>1, <1>2, <1>3, <1>9, <1>10 DEF SessionInv, At
<1>13. MutationSeesTheDatabase'
  BY <1>1, <1>3, <1>9, OtherMutations
<1> QED BY <1>1, <1>10, <1>11, <1>12, <1>13 DEF LoadInv, TypeOK

LEMMA CommitStep ==
  ASSUME LoadInv, NEW s \in Sessions, Commit(s), UNCHANGED keyed
  PROVE  LoadInv'
<1>1. session[s].at = "statements" /\ Finish(s) /\ parts' = parts
  BY DEF Commit, At
<1>2. session[s] \in SessionRows /\ SessionInv(s)
  BY DEF LoadInv, TypeOK
<1>3. session[s].kind \in {"save", "replace", "contents"}
  BY <1>1, <1>2 DEF SessionInv
<1>4. content' \in Views
  <2>1. session[s].view \in Views /\ content \in Views
    BY <1>2 DEF SessionRows, LoadInv, TypeOK
  <2>2. \A t \in Tables : session[s].view[t] \in 0..MaxWrites /\ content[t] \in 0..MaxWrites
    BY <2>1 DEF Views
  <2>3. content' = [t \in Tables |-> IF t \in Written(session[s].kind) THEN session[s].view[t]
                                                                       ELSE content[t]]
    BY DEF Commit
  <2> HIDE DEF Tables, Written
  <2> QED BY <2>2, <2>3 DEF Views
<1>5. revision' \in Nat
  BY <1>3 DEF Commit, LoadInv, TypeOK
<1>6. MutationSeesTheDatabase'
  <2>1. ASSUME NEW u \in Sessions, keyed, session'[u].kind = "mutation" PROVE FALSE
    <3>1. u # s /\ session'[u] = session[u]
      BY <2>1, <1>1, IdleRow DEF Finish, LoadInv, TypeOK
    <3>2. key = u
      BY <2>1, <3>1 DEF LoadInv, SessionInv, At
    <3>3. key = s
      BY <2>1, <1>1, <1>2, <1>3 DEF SessionInv, At
    <3> QED BY <3>1, <3>2, <3>3
  <2> QED BY <2>1 DEF MutationSeesTheDatabase
<1> QED BY <1>1, <1>4, <1>5, <1>6, FinishStep DEF LoadInv, TypeOK

LEMMA EndWithoutWriteStep ==
  ASSUME LoadInv, NEW s \in Sessions, FailLoad(s) \/ AnswerRead(s) \/ Rollback(s),
         UNCHANGED keyed
  PROVE  LoadInv'
<1>1. Finish(s) /\ UNCHANGED <<content, revision, parts>>
  BY DEF FailLoad, AnswerRead, Rollback
<1> QED BY <1>1, FinishStep DEF LoadInv, TypeOK

(* A statement of its own waits for the key, so no mutation is under way. *)
LEMMA StatementOfItsOwn ==
  ASSUME LoadInv, UNCHANGED <<parts, session, key, rowLock, keyed>>,
         keyed => key = Nobody, content' \in Views, revision' \in Nat
  PROVE  LoadInv'
<1>1. \A u \in Sessions : SessionInv(u)'
  BY DEF LoadInv, SessionInv, At
<1>2. MutationSeesTheDatabase'
  BY NobodyIsNoSession DEF MutationSeesTheDatabase, LoadInv, SessionInv, At
<1> QED BY <1>1, <1>2 DEF LoadInv, TypeOK

LEMMA DeleteWorkspaceStep ==
  ASSUME LoadInv, DeleteWorkspace, UNCHANGED keyed
  PROVE  LoadInv'
<1>1. Without(content, parts, "workspaces") \in Views
  BY MaxWritesIsNatural DEF LoadInv, TypeOK, Without, Views, Absent
<1>2. content' \in Views /\ revision' \in Nat
  BY <1>1 DEF DeleteWorkspace
<1> QED BY <1>2, StatementOfItsOwn DEF DeleteWorkspace

LEMMA UpsertRowStep ==
  ASSUME LoadInv, NEW t \in Tables, UpsertRow(t), UNCHANGED keyed
  PROVE  LoadInv'
<1>1. content["workspaces"] \in 0..MaxWrites \ {0}
  BY Names DEF UpsertRow, LoadInv, TypeOK, Views, Absent
<1>2. [content EXCEPT ![t] = 1] \in Views
  BY <1>1, MaxWritesIsNatural DEF LoadInv, TypeOK, Views
<1>3. content' \in Views /\ revision' \in Nat
  BY <1>2 DEF UpsertRow, LoadInv, TypeOK
<1> QED BY <1>3, StatementOfItsOwn DEF UpsertRow

LEMMA CrashStep ==
  ASSUME LoadInv, Crash, UNCHANGED keyed
  PROVE  LoadInv'
<1>1. \A u \in Sessions : session'[u] = Idle
  BY DEF Crash
<1>2. \A u \in Sessions : SessionInv(u)'
  BY <1>1, IdleRow DEF SessionInv, At
<1>3. MutationSeesTheDatabase'
  BY <1>1, IdleRow DEF MutationSeesTheDatabase
<1>4. session' \in [Sessions -> SessionRows]
  BY <1>1, IdleRow DEF Crash
<1> QED BY <1>2, <1>3, <1>4 DEF Crash, NoLocks, LoadInv, TypeOK

LEMMA LoadInvNext == LoadInv /\ [Next]_vars => LoadInv'
<1> SUFFICES ASSUME LoadInv, [Next]_vars PROVE LoadInv'
  OBVIOUS
<1>1. ASSUME NEW s \in Sessions, UNCHANGED keyed,
             \/ \E kind \in {"read", "mutation"} : BeginLoad(s, kind)
             \/ \E shape \in Shapes : BeginSave(s, shape) \/ BeginReplace(s, shape)
             \/ BeginContents(s)
             \/ Work(s)
      PROVE  LoadInv'
  BY <1>1, BeginLoadStep, BeginSteps, LoadTableStep, EndLoadStep, StatementStep, CommitStep,
     EndWithoutWriteStep DEF Work
<1>2. ASSUME UNCHANGED keyed, DeleteWorkspace PROVE LoadInv'
  BY <1>2, DeleteWorkspaceStep
<1>3. ASSUME UNCHANGED keyed, NEW t \in {"repository_indexes", "node_embeddings"}, UpsertRow(t)
      PROVE  LoadInv'
  <2>1. t \in Tables
    BY DEF Tables
  <2> QED BY <1>3, <2>1, UpsertRowStep
<1>4. ASSUME UNCHANGED keyed, Crash PROVE LoadInv'
  BY <1>4, CrashStep
<1>5. CASE UNCHANGED vars
  BY <1>5 DEF vars, LoadInv, TypeOK, SessionInv, At, MutationSeesTheDatabase
<1> QED BY <1>1, <1>2, <1>3, <1>4, <1>5 DEF Next, Step

(* The keys of the schema, one by one. *)
LEMMA KeysOfTheSchema ==
  ASSUME NEW fk \in ForeignKeys
  PROVE  /\ fk.on \in Tables /\ fk.to \in Tables /\ fk.on # fk.to
         /\ \/ /\ fk.action = "cascade" /\ ~fk.optional
               /\ \/ /\ fk.to = "workspaces"
                     /\ fk.on \in {"graphs", "node_embeddings", "categories",
                                  "category_assignments", "capture_policies", "proposals",
                                  "projections", "feedback_events", "scan_profiles",
                                  "repository_indexes", "scan_runs"}
                  \/ fk.to = "graphs" /\ fk.on \in {"nodes", "edges"}
                  \/ fk.to = "repository_indexes" /\ fk.on \in FactTables
                  \/ fk.to = "files" /\ fk.on \in FactTables \ {"files"}
            \/ /\ fk.action = "restrict" /\ ~fk.optional
               /\ \/ fk.on = "edges" /\ fk.to = "nodes"
                  \/ fk.on = "category_assignments" /\ fk.to = "categories"
                  \/ fk.on = "scan_runs" /\ fk.to = "scan_profiles"
            \/ /\ fk.action # "cascade" /\ fk.optional
               /\ \/ fk.on = "feedback_events" /\ fk.to = "projections"
                  \/ fk.on = "scan_runs" /\ fk.to = "repository_indexes"
<1> USE DEF Owned, Key, Tables, StateTables, FactTables
<1>1. CASE fk \in GraphKeys
  BY <1>1 DEF GraphKeys
<1>2. CASE fk \in CaptureKeys
  <2>1. CASE fk = Key("category_assignments", "categories", "restrict", FALSE)
    BY <2>1
  <2>2. CASE fk = Key("feedback_events", "projections", "set null", TRUE)
    BY <2>2
  <2>3. CASE fk \in Owned({"categories", "category_assignments", "capture_policies",
                          "proposals", "projections", "feedback_events"}, "workspaces")
    BY <2>3
  <2> QED BY <1>2, <2>1, <2>2, <2>3 DEF CaptureKeys
<1>3. CASE fk \in ScanKeys
  BY <1>3 DEF ScanKeys
<1>4. CASE fk \in FileKeys
  BY <1>4 DEF FileKeys
<1>5. CASE fk \in ReferenceKeys
  BY <1>5 DEF ReferenceKeys
<1> QED BY <1>1, <1>2, <1>3, <1>4, <1>5 DEF ForeignKeys

LEMMA LoadInvIsSound == LoadInv => TypeOK /\ LoadsAreSound
<1> SUFFICES ASSUME LoadInv, NEW s \in Sessions, At(s, "loaded"),
                    NEW fk \in GraphKeys \cup CaptureKeys \cup ScanKeys,
                    {fk.on, fk.to} \subseteq StateTables, ~fk.optional,
                    session[s].view[fk.on] # Absent
             PROVE  session[s].view[fk.to] # Absent
  BY DEF LoadInv, LoadsAreSound, AnswersAreClosed
<1>1. /\ Validated(session[s].view)
      /\ \A t \in Mandatory : session[s].view[t] # Absent
  <2>1. SessionInv(s) /\ session[s].todo = <<>>
    BY DEF LoadInv, SessionInv
  <2>2. ToSet(session[s].todo) = {}
    BY <2>1 DEF ToSet
  <2> QED BY <2>1, <2>2 DEF SessionInv, At
<1>2. fk \in ForeignKeys
  BY DEF ForeignKeys
<1> QED BY <1>1, <1>2, KeysOfTheSchema DEF Validated, Mandatory, StateTables, FactTables

(***************************************************************************)
(* The property LoadsAreSound: a load in twelve queries outside any        *)
(* transaction, beside any number of writers, hands out nothing that names *)
(* what it does not hold, and under the key of one server a mutation saves *)
(* over exactly what it loaded.                                            *)
(***************************************************************************)
THEOREM LoadsCanBeTrusted == Spec => []LoadsAreSound
BY LoadInvInit, LoadInvNext, LoadInvIsSound, PTL DEF Spec

-----------------------------------------------------------------------------
(* A table names another; its rows go with those they name, or hold them.  *)
Cascades(t, u)  == \E fk \in ForeignKeys : fk.on = t /\ fk.to = u /\ fk.action = "cascade"
Restricts(t, u) == \E fk \in ForeignKeys : fk.on = t /\ fk.to = u /\ fk.action # "cascade"

(* What a delete of t may take along, and the tables a transaction fills.  *)
Takes(t) == CASE t = "workspaces" -> Tables
              [] t = "graphs"     -> {"graphs", "nodes", "edges"}
              [] t = "files"      -> FactTables
              [] OTHER            -> {t}

Filling(kind) == IF kind = "contents" THEN FactTables ELSE StateTables

(* The order of two statements suits the foreign keys: no later delete     *)
(* takes what was put or what that names, rows go before what they hold,   *)
(* and come after what they name.                                          *)
MayPrecede(a, b) ==
  /\ a.op \in {"insert", "upsert"} /\ b.op = "clear" =>
       /\ a.table \notin Takes(b.table)
       /\ \A t \in Takes(b.table) : ~Cascades(a.table, t) /\ ~Restricts(a.table, t)
  /\ a.op = "clear" /\ b.op = "clear" =>
       \A t \in Takes(b.table) : ~Restricts(t, a.table)
  /\ a.op \in {"insert", "upsert"} /\ b.op \in {"insert", "upsert"} =>
       b.table # a.table /\ ~Cascades(a.table, b.table) /\ ~Restricts(a.table, b.table)

Ordered(q) == \A i, j \in DOMAIN q : i < j => MayPrecede(q[i], q[j])

WillClear(q, t) == \E x \in ToSet(q) : x.op = "clear" /\ t \in Takes(x.table)
WillPut(q, t)   == \E x \in ToSet(q) : x.op \in {"insert", "upsert"} /\ x.table = t

(* What is to be deleted is to be filled again, and so is what holds it.   *)
Restores(q, kind) ==
  \A x \in ToSet(q) :
    /\ x.op = "clear" =>
         /\ x.table # "repository_indexes"
         /\ \A t \in Takes(x.table) \cap Filling(kind) : Insert(t) \in ToSet(q)
         /\ \A t \in Tables : Restricts(t, x.table) => Insert(t) \in ToSet(q)
         /\ kind # "replace" => Takes(x.table) \subseteq Filling(kind)
    /\ x.op = "insert" => x.table \in Filling(kind)
    /\ x.op \in {"prune", "upsert"} => kind # "contents"
    /\ x.op = "upsert" => x.table = "workspaces"

(* No row is there without those it goes with. *)
Whole(v, tables) ==
  \A t \in tables, u \in Tables : Cascades(t, u) /\ v[t] # Absent => v[u] # Absent

(* The view of a transaction between two of its statements: what is still  *)
(* to be deleted is whole, what was deleted is empty until it is filled,   *)
(* what will not be touched again holds what the transaction writes.       *)
Fills(kind, w, t) == kind = "contents" \/ Holds(w, t)

Progress(kind, w, q, v) ==
  /\ Ordered(q) /\ Restores(q, kind)
  /\ \A t \in Filling(kind) : ~WillClear(q, t) =>
       /\ Insert(t) \in ToSet(q) => v[t] = Absent
       /\ ~WillPut(q, t) => v[t] = IF Fills(kind, w, t) THEN w ELSE Absent
  /\ \A x \in ToSet(q) : x.op = "clear" => Whole(v, Takes(x.table))
  /\ kind = "replace" =>
       /\ Clear("workspaces") \notin ToSet(q) => \A t \in Tables \ StateTables : v[t] = Absent
       /\ Insert("scan_runs") \notin ToSet(q) =>
            ~(Holds(w, "scan_runs") /\ "repository_indexes" \in parts[w])

(* The rows it writes name no index that is not there. *)
IndexIsThere(kind, w, v) ==
  kind = "contents" \/ (kind = "save" /\ "repository_indexes" \in parts[w])
  => v["repository_indexes"] # Absent

TransactionInv(s) ==
  LET row == session[s]
  IN /\ row.write \in DOMAIN parts
     /\ row.kind # "contents" => rowLock["workspace"] = s /\ parts[row.write] \in Shapes
     /\ row.kind # "save" => rowLock["index"] = s
     /\ Progress(row.kind, row.write, row.todo, row.view)
     /\ IndexIsThere(row.kind, row.write, row.view)
     /\ IndexIsThere(row.kind, row.write, content)

StoreInv == /\ LoadInv /\ ContentIsOneWrite /\ NothingIsLeftBehind
            /\ ValidWritesAreAccepted
            /\ \A s \in Sessions : At(s, "statements") => TransactionInv(s)

LEMMA CascadeTable ==
  \A t, u : Cascades(t, u) <=>
    \/ /\ u = "workspaces"
       /\ t \in {"graphs", "node_embeddings", "categories", "category_assignments",
                "capture_policies", "proposals", "projections", "feedback_events",
                "scan_profiles", "repository_indexes", "scan_runs"}
    \/ u = "graphs" /\ t \in {"nodes", "edges"}
    \/ u = "repository_indexes" /\ t \in FactTables
    \/ u = "files" /\ t \in FactTables \ {"files"}
<1>1. ASSUME NEW t, NEW u, Cascades(t, u)
      PROVE  \/ /\ u = "workspaces"
                /\ t \in {"graphs", "node_embeddings", "categories", "category_assignments",
                         "capture_policies", "proposals", "projections", "feedback_events",
                         "scan_profiles", "repository_indexes", "scan_runs"}
             \/ u = "graphs" /\ t \in {"nodes", "edges"}
             \/ u = "repository_indexes" /\ t \in FactTables
             \/ u = "files" /\ t \in FactTables \ {"files"}
  BY <1>1, KeysOfTheSchema DEF Cascades
<1>2. ASSUME NEW S, NEW t \in S, NEW u, Owned(S, u) \subseteq ForeignKeys
      PROVE  Cascades(t, u)
  <2>1. Key(t, u, "cascade", FALSE) \in ForeignKeys
    BY <1>2 DEF Owned
  <2> QED BY <2>1 DEF Cascades, Key
<1>3. /\ Owned({"graphs", "node_embeddings"}, "workspaces") \subseteq ForeignKeys
      /\ Owned({"nodes", "edges"}, "graphs") \subseteq ForeignKeys
      /\ Owned({"categories", "category_assignments", "capture_policies", "proposals",
                "projections", "feedback_events"}, "workspaces") \subseteq ForeignKeys
      /\ Owned({"scan_profiles", "repository_indexes", "scan_runs"}, "workspaces")
           \subseteq ForeignKeys
      /\ Owned({"files", "chunks", "symbols"}, "repository_indexes") \subseteq ForeignKeys
      /\ Owned({"references", "dependencies"}, "repository_indexes") \subseteq ForeignKeys
      /\ Owned({"chunks", "symbols"}, "files") \subseteq ForeignKeys
      /\ Owned({"references", "dependencies"}, "files") \subseteq ForeignKeys
  BY DEF ForeignKeys, GraphKeys, CaptureKeys, ScanKeys, FileKeys, ReferenceKeys
<1> QED BY <1>1, <1>2, <1>3 DEF FactTables

LEMMA RestrictTable ==
  \A t, u : Restricts(t, u) <=>
    \/ t = "edges" /\ u = "nodes"
    \/ t = "category_assignments" /\ u = "categories"
    \/ t = "feedback_events" /\ u = "projections"
    \/ t = "scan_runs" /\ u \in {"scan_profiles", "repository_indexes"}
<1>1. ASSUME NEW t, NEW u, Restricts(t, u)
      PROVE  \/ t = "edges" /\ u = "nodes"
             \/ t = "category_assignments" /\ u = "categories"
             \/ t = "feedback_events" /\ u = "projections"
             \/ t = "scan_runs" /\ u \in {"scan_profiles", "repository_indexes"}
  BY <1>1, KeysOfTheSchema DEF Restricts
<1>2. ASSUME NEW t, NEW u, NEW action, action # "cascade", NEW optional,
             Key(t, u, action, optional) \in ForeignKeys
      PROVE  Restricts(t, u)
  BY <1>2 DEF Restricts, Key
<1>3. Key("edges", "nodes", "restrict", FALSE) \in ForeignKeys
  BY DEF ForeignKeys, GraphKeys
<1>4. /\ Key("category_assignments", "categories", "restrict", FALSE) \in ForeignKeys
      /\ Key("feedback_events", "projections", "set null", TRUE) \in ForeignKeys
  BY DEF ForeignKeys, CaptureKeys
<1>5. /\ Key("scan_runs", "scan_profiles", "restrict", FALSE) \in ForeignKeys
      /\ Key("scan_runs", "repository_indexes", "restrict", TRUE) \in ForeignKeys
  BY DEF ForeignKeys, ScanKeys
<1> QED BY <1>1, <1>2, <1>3, <1>4, <1>5

(* Statements in order, one after another. *)
LEMMA Join ==
  ASSUME NEW a \in Seq(Writes), NEW b \in Seq(Writes)
  PROVE  /\ a \o b \in Seq(Writes)
         /\ ToSet(a \o b) = ToSet(a) \cup ToSet(b)
         /\ (/\ Ordered(a) /\ Ordered(b)
             /\ \A x \in ToSet(a), y \in ToSet(b) : MayPrecede(x, y)) => Ordered(a \o b)
<1> DEFINE n == Len(a)
           m == Len(b)
           c == a \o b
<1>1. /\ n \in Nat /\ m \in Nat /\ DOMAIN a = 1..n /\ DOMAIN b = 1..m /\ DOMAIN c = 1..(n + m)
      /\ c \in Seq(Writes)
  OBVIOUS
<1>2. \A i \in 1..(n + m) : IF i <= n THEN c[i] = a[i] ELSE c[i] = b[i - n]
  OBVIOUS
<1> HIDE DEF n, m, c
<1>3. ASSUME NEW i \in 1..(n + m)
      PROVE  \/ i \in 1..n /\ c[i] = a[i]
             \/ i \notin 1..n /\ i - n \in 1..m /\ c[i] = b[i - n]
  BY <1>1, <1>2
<1>4. ToSet(c) \subseteq ToSet(a) \cup ToSet(b)
  <2> SUFFICES ASSUME NEW i \in 1..(n + m) PROVE c[i] \in ToSet(a) \cup ToSet(b)
    BY <1>1 DEF ToSet
  <2> QED BY <1>1, <1>3 DEF ToSet
<1>5. ToSet(a) \cup ToSet(b) \subseteq ToSet(c)
  <2>1. ASSUME NEW i \in 1..n PROVE a[i] \in ToSet(c)
    <3>1. i \in 1..(n + m) /\ c[i] = a[i]
      BY <1>1, <1>2
    <3> QED BY <1>1, <3>1 DEF ToSet
  <2>2. ASSUME NEW i \in 1..m PROVE b[i] \in ToSet(c)
    <3>1. n + i \in 1..(n + m) /\ ~(n + i <= n) /\ (n + i) - n = i
      BY <1>1
    <3>2. c[n + i] = b[i]
      BY <1>2, <3>1
    <3> QED BY <1>1, <3>1, <3>2 DEF ToSet
  <2> QED BY <1>1, <2>1, <2>2 DEF ToSet
<1>6. ASSUME Ordered(a), Ordered(b), \A x \in ToSet(a), y \in ToSet(b) : MayPrecede(x, y),
             NEW i \in 1..(n + m), NEW j \in 1..(n + m), i < j
      PROVE  MayPrecede(c[i], c[j])
  <2>1. CASE j \in 1..n
    <3>1. i \in 1..n /\ c[i] = a[i] /\ c[j] = a[j]
      BY <1>1, <1>2, <1>6, <2>1
    <3> QED BY <1>1, <1>6, <2>1, <3>1 DEF Ordered
  <2>2. CASE i \in 1..n /\ j \notin 1..n
    <3>1. c[i] = a[i] /\ c[j] = b[j - n] /\ j - n \in 1..m
      BY <1>3, <2>2
    <3>2. a[i] \in ToSet(a) /\ b[j - n] \in ToSet(b)
      BY <1>1, <2>2, <3>1 DEF ToSet
    <3> QED BY <1>6, <3>1, <3>2
  <2>3. CASE i \notin 1..n
    <3>1. i - n \in 1..m /\ c[i] = b[i - n] /\ j \notin 1..n
      BY <1>1, <1>3, <1>6, <2>3
    <3>2. j - n \in 1..m /\ c[j] = b[j - n] /\ i - n < j - n
      BY <1>1, <1>3, <1>6, <3>1
    <3> QED BY <1>1, <1>6, <3>1, <3>2 DEF Ordered
  <2> QED BY <2>1, <2>2, <2>3
<1>7. Ordered(a) /\ Ordered(b) /\ (\A x \in ToSet(a), y \in ToSet(b) : MayPrecede(x, y))
        => Ordered(c)
  BY <1>1, <1>6 DEF Ordered
<1> QED BY <1>1, <1>4, <1>5, <1>7 DEF c

LEMMA Single ==
  ASSUME NEW x \in Writes
  PROVE  <<x>> \in Seq(Writes) /\ ToSet(<<x>>) = {x} /\ Ordered(<<x>>)
<1>1. <<x>> \in Seq(Writes) /\ DOMAIN <<x>> = {1} /\ <<x>>[1] = x
  OBVIOUS
<1> HIDE DEF Writes
<1> QED BY <1>1 DEF ToSet, Ordered

LEMMA Then ==
  ASSUME NEW a \in Seq(Writes), NEW x \in Writes
  PROVE  /\ a \o <<x>> \in Seq(Writes)
         /\ ToSet(a \o <<x>>) = ToSet(a) \cup {x}
         /\ Ordered(a) /\ (\A y \in ToSet(a) : MayPrecede(y, x)) => Ordered(a \o <<x>>)
<1> DEFINE b == <<x>>
<1>1. b \in Seq(Writes) /\ ToSet(b) = {x} /\ Ordered(b)
  BY Single
<1> HIDE DEF b
<1> QED BY <1>1, Join DEF b

LEMMA Precedence ==
  /\ \A t, u : t # u /\ ~Cascades(u, t) /\ ~Restricts(u, t) => MayPrecede(Insert(u), Insert(t))
  /\ \A t, u : MayPrecede(Clear(u), Insert(t)) /\ MayPrecede(Prune, Insert(t))
  /\ \A t : t # "workspaces" => MayPrecede(Upsert, Insert(t))
  /\ \A x \in Writes : MayPrecede(x, Prune) /\ MayPrecede(x, Bump)
  /\ \A t, u : (\A v \in Takes(t) : ~Restricts(v, u)) => MayPrecede(Clear(u), Clear(t))
  /\ \A t : "workspaces" \notin Takes(t) =>
       MayPrecede(Upsert, Clear(t)) /\ MayPrecede(Insert("workspaces"), Clear(t))
<1>1. \A t : ~Cascades("workspaces", t) /\ ~Restricts("workspaces", t)
  BY CascadeTable, RestrictTable DEF FactTables
<1> QED BY <1>1 DEF MayPrecede, Insert, Clear, Prune, Upsert, Bump

LEMMA EachOne ==
  ASSUME NEW tables \in Seq(Tables)
  PROVE  /\ ToSet(Each(Insert, tables)) = {Insert(t) : t \in ToSet(tables)}
         /\ ToSet(Each(Clear, tables)) = {Clear(t) : t \in ToSet(tables)}
         /\ (\A i, j \in DOMAIN tables : i < j =>
               MayPrecede(Insert(tables[i]), Insert(tables[j]))) => Ordered(Each(Insert, tables))
         /\ (\A i, j \in DOMAIN tables : i < j =>
               MayPrecede(Clear(tables[i]), Clear(tables[j]))) => Ordered(Each(Clear, tables))
BY DEF Each, ToSet, Ordered

LEMMA InsertsInOrder ==
  /\ InsertWorkspaceState \in Seq(Writes) /\ Ordered(InsertWorkspaceState)
  /\ ToSet(InsertWorkspaceState) =
       {Clear("graphs"), Prune} \cup {Insert(t) : t \in StateTables \ {"workspaces"}}
<1>1. \A t \in Tables : Insert(t) \in Writes /\ Clear(t) \in Writes
  BY DEF Insert, Clear, Writes
<1>2. Prune \in Writes
  BY Names DEF Prune, Writes
<1> DEFINE Cleared(a, done) ==
             /\ a \in Seq(Writes) /\ Ordered(a)
             /\ ToSet(a) = {Clear("graphs")} \cup {Insert(t) : t \in done}
           Pruned(a, done) ==
             /\ a \in Seq(Writes) /\ Ordered(a)
             /\ ToSet(a) = {Clear("graphs"), Prune} \cup {Insert(t) : t \in done}
<1>3. Cleared(ReplaceGraph, {"graphs", "nodes", "edges"})
  <2> DEFINE tables == <<"graphs", "nodes", "edges">>
             c == <<Clear("graphs")>>
             i == Each(Insert, tables)
  <2>1. tables \in Seq(Tables) /\ ToSet(tables) = {"graphs", "nodes", "edges"}
        /\ DOMAIN tables = 1..3 /\ tables[1] = "graphs" /\ tables[2] = "nodes"
        /\ tables[3] = "edges"
    BY Names DEF ToSet
  <2> HIDE DEF tables
  <2>2. \A k, l \in DOMAIN tables : k < l => MayPrecede(Insert(tables[k]), Insert(tables[l]))
    BY <2>1, Precedence, CascadeTable, RestrictTable DEF FactTables
  <2>3. i \in Seq(Writes) /\ Ordered(i) /\ ToSet(i) = {Insert(t) : t \in ToSet(tables)}
    BY <2>1, <2>2, EachOne, EachIsAWrite
  <2>4. c \in Seq(Writes) /\ Ordered(c) /\ ToSet(c) = {Clear("graphs")}
    BY <1>1, Names, Single
  <2> HIDE DEF i, c
  <2>5. \A x \in ToSet(c), y \in ToSet(i) : MayPrecede(x, y)
    BY <2>3, <2>4, Precedence
  <2>6. c \o i \in Seq(Writes) /\ ToSet(c \o i) = ToSet(c) \cup ToSet(i) /\ Ordered(c \o i)
    BY <2>3, <2>4, <2>5, Join
  <2>7. c \o i = ReplaceGraph
    BY DEF c, i, tables, ReplaceGraph
  <2> QED BY <2>1, <2>3, <2>4, <2>6, <2>7
<1>4. Pruned(ReplaceGraph \o <<Prune>>, {"graphs", "nodes", "edges"})
  <2>1. \A y \in ToSet(ReplaceGraph) : MayPrecede(y, Prune)
    BY <1>1, <1>3, Names, Precedence
  <2> QED BY <1>2, <1>3, <2>1, Then
<1>5. ASSUME NEW a, NEW done, done \subseteq Tables, Pruned(a, done),
             NEW t \in Tables \ done, \A u \in done : ~Cascades(u, t) /\ ~Restricts(u, t)
      PROVE  Pruned(a \o <<Insert(t)>>, done \cup {t})
  <2>1. \A y \in ToSet(a) : MayPrecede(y, Insert(t))
    BY <1>5, Precedence
  <2> QED BY <1>1, <1>5, <2>1, Then
<1> HIDE DEF Pruned
<1> DEFINE a0 == ReplaceGraph \o <<Prune>>
           a1 == a0 \o ReplaceCategoryCatalog
           a2 == a1 \o InsertCategoryAssignments
           a3 == a2 \o ReplaceCapturePolicy
           a4 == a3 \o ReplaceProposals
           a5 == a4 \o ReplaceProjections
           a6 == a5 \o ReplaceFeedbackEvents
           a7 == a6 \o ReplaceScanProfiles
           a8 == a7 \o ReplaceScanRuns
           d0 == {"graphs", "nodes", "edges"}
           d1 == d0 \cup {"categories"}
           d2 == d1 \cup {"category_assignments"}
           d3 == d2 \cup {"capture_policies"}
           d4 == d3 \cup {"proposals"}
           d5 == d4 \cup {"projections"}
           d6 == d5 \cup {"feedback_events"}
           d7 == d6 \cup {"scan_profiles"}
           d8 == d7 \cup {"scan_runs"}
<1> USE CascadeTable, RestrictTable, Names DEF FactTables
<1>6. Pruned(a1, d1)
  <2>1. Pruned(a0 \o <<Insert("categories")>>, d0 \cup {"categories"})
    BY <1>4, <1>5
  <2> QED BY <2>1 DEF ReplaceCategoryCatalog
<1>7. Pruned(a2, d2)
  <2>1. Pruned(a1 \o <<Insert("category_assignments")>>, d1 \cup {"category_assignments"})
    BY <1>6, <1>5
  <2> QED BY <2>1 DEF InsertCategoryAssignments
<1>8. Pruned(a3, d3)
  <2>1. Pruned(a2 \o <<Insert("capture_policies")>>, d2 \cup {"capture_policies"})
    BY <1>7, <1>5
  <2> QED BY <2>1 DEF ReplaceCapturePolicy
<1>9. Pruned(a4, d4)
  <2>1. Pruned(a3 \o <<Insert("proposals")>>, d3 \cup {"proposals"})
    BY <1>8, <1>5
  <2> QED BY <2>1 DEF ReplaceProposals
<1>10. Pruned(a5, d5)
  <2>1. Pruned(a4 \o <<Insert("projections")>>, d4 \cup {"projections"})
    BY <1>9, <1>5
  <2> QED BY <2>1 DEF ReplaceProjections
<1>11. Pruned(a6, d6)
  <2>1. Pruned(a5 \o <<Insert("feedback_events")>>, d5 \cup {"feedback_events"})
    BY <1>10, <1>5
  <2> QED BY <2>1 DEF ReplaceFeedbackEvents
<1>12. Pruned(a7, d7)
  <2>1. Pruned(a6 \o <<Insert("scan_profiles")>>, d6 \cup {"scan_profiles"})
    BY <1>11, <1>5
  <2> QED BY <2>1 DEF ReplaceScanProfiles
<1>13. Pruned(a8, d8)
  <2>1. Pruned(a7 \o <<Insert("scan_runs")>>, d7 \cup {"scan_runs"})
    BY <1>12, <1>5
  <2> QED BY <2>1 DEF ReplaceScanRuns
<1>14. InsertWorkspaceState = a8
  BY DEF InsertWorkspaceState
<1>15. StateTables \ {"workspaces"} = d8
  BY DEF StateTables
<1> HIDE DEF a8, d8
<1> QED BY <1>13, <1>14, <1>15 DEF Pruned

LEMMA SaveInOrder ==
  /\ Ordered(SaveStatements)
  /\ ToSet(SaveStatements) =
       {Upsert, Prune, Bump} \cup {Insert(t) : t \in StateTables \ {"workspaces"}}
         \cup {Clear(t) : t \in StateTables \ {"workspaces", "nodes", "edges"}}
<1> DEFINE tables == <<"feedback_events", "category_assignments", "scan_runs", "scan_profiles",
                       "projections", "proposals", "capture_policies", "categories", "graphs">>
           u == <<Upsert>>
           b == <<Bump>>
<1>1. /\ tables \in Seq(Tables) /\ DOMAIN tables = 1..9
      /\ ToSet(tables) = StateTables \ {"workspaces", "nodes", "edges"}
  BY Names DEF ToSet, StateTables
<1>2. \A i, j \in DOMAIN tables : i < j => \A v \in Takes(tables[j]) : ~Restricts(v, tables[i])
  <2>1. \A t, v \in Tables : v \in Takes(t) /\ t \notin {"workspaces", "graphs", "files"} => v = t
    BY DEF Takes
  <2>2. Takes("graphs") = {"graphs", "nodes", "edges"}
    BY DEF Takes
  <2> SUFFICES ASSUME NEW i \in 1..9, NEW j \in 1..9, i < j, NEW v \in Takes(tables[j]),
                      Restricts(v, tables[i])
               PROVE  FALSE
    BY <1>1
  <2>3. \/ v = "edges" /\ tables[i] = "nodes"
        \/ v = "category_assignments" /\ tables[i] = "categories"
        \/ v = "feedback_events" /\ tables[i] = "projections"
        \/ v = "scan_runs" /\ tables[i] \in {"scan_profiles", "repository_indexes"}
    BY RestrictTable
  <2>4. tables[i] \notin {"nodes", "repository_indexes"}
    BY <1>1 DEF ToSet, StateTables
  <2>5. v = tables[j]
    <3>1. tables[j] \in StateTables \ {"workspaces", "nodes", "edges"}
      BY <1>1 DEF ToSet
    <3>2. tables[j] \in {"feedback_events", "category_assignments", "scan_runs",
                         "scan_profiles", "projections", "proposals", "capture_policies",
                         "categories", "graphs"}
      BY <3>1 DEF StateTables
    <3> QED BY <2>2, <2>3, <2>4, <3>2 DEF Takes
  <2>6. /\ tables[i] = "categories" => i = 8
        /\ tables[i] = "projections" => i = 5
        /\ tables[i] = "scan_profiles" => i = 4
        /\ tables[j] = "category_assignments" => j = 2
        /\ tables[j] = "feedback_events" => j = 1
        /\ tables[j] = "scan_runs" => j = 3
    OBVIOUS
  <2> HIDE DEF tables
  <2> QED BY <2>3, <2>4, <2>5, <2>6
<1> HIDE DEF tables
<1>3. /\ ClearWorkspaceState \in Seq(Writes) /\ Ordered(ClearWorkspaceState)
      /\ ToSet(ClearWorkspaceState) =
           {Clear(t) : t \in StateTables \ {"workspaces", "nodes", "edges"}}
  <2>1. ClearWorkspaceState = Each(Clear, tables)
    BY DEF ClearWorkspaceState, tables
  <2>2. \A i, j \in DOMAIN tables : i < j => MayPrecede(Clear(tables[i]), Clear(tables[j]))
    BY <1>2, Precedence
  <2> QED BY <1>1, <2>1, <2>2, EachOne, EachIsAWrite
<1>4. /\ u \in Seq(Writes) /\ ToSet(u) = {Upsert} /\ Ordered(u)
      /\ b \in Seq(Writes) /\ ToSet(b) = {Bump} /\ Ordered(b)
  <2>1. Upsert \in Writes /\ Bump \in Writes
    BY Names DEF Upsert, Bump, Writes
  <2> QED BY <2>1, Single
<1> HIDE DEF u, b
<1>5. /\ u \o ClearWorkspaceState \in Seq(Writes) /\ Ordered(u \o ClearWorkspaceState)
      /\ ToSet(u \o ClearWorkspaceState) = ToSet(u) \cup ToSet(ClearWorkspaceState)
  <2>1. \A t \in StateTables \ {"workspaces", "nodes", "edges"} : "workspaces" \notin Takes(t)
    BY DEF Takes, StateTables, FactTables
  <2>2. \A x \in ToSet(u), y \in ToSet(ClearWorkspaceState) : MayPrecede(x, y)
    BY <1>3, <1>4, <2>1, Precedence
  <2> QED BY <1>3, <1>4, <2>2, Join
<1>6. /\ u \o ClearWorkspaceState \o InsertWorkspaceState \in Seq(Writes)
      /\ Ordered(u \o ClearWorkspaceState \o InsertWorkspaceState)
      /\ ToSet(u \o ClearWorkspaceState \o InsertWorkspaceState) =
           ToSet(u) \cup ToSet(ClearWorkspaceState) \cup ToSet(InsertWorkspaceState)
  <2>1. \A v \in Takes("graphs"), t \in StateTables \ {"workspaces", "nodes", "edges"} :
          ~Restricts(v, t)
    BY RestrictTable DEF Takes, StateTables
  <2>2. \A x \in ToSet(ClearWorkspaceState) : MayPrecede(x, Clear("graphs"))
    BY <1>3, <2>1, Precedence
  <2>3. MayPrecede(Upsert, Clear("graphs"))
    BY Precedence DEF Takes
  <2>4. \A x \in ToSet(u \o ClearWorkspaceState) : x \in Writes
    BY <1>5 DEF ToSet
  <2>5. \A x \in ToSet(u \o ClearWorkspaceState), y \in ToSet(InsertWorkspaceState) :
          MayPrecede(x, y)
    BY <1>3, <1>4, <1>5, <2>2, <2>3, <2>4, InsertsInOrder, Precedence
  <2> QED BY <1>5, <2>5, InsertsInOrder, Join
<1> DEFINE c == u \o ClearWorkspaceState \o InsertWorkspaceState
<1>7. SaveStatements = c \o b
  BY DEF SaveStatements, u, b
<1> HIDE DEF c
<1>8. Ordered(c \o b) /\ ToSet(c \o b) = ToSet(c) \cup ToSet(b)
  <2>1. \A x \in ToSet(c) : x \in Writes
    BY <1>6 DEF ToSet, c
  <2>2. \A x \in ToSet(c), y \in ToSet(b) : MayPrecede(x, y)
    BY <1>4, <2>1, Precedence
  <2> QED BY <1>4, <1>6, <2>2, Join DEF c
<1> DEFINE inserts == {Insert(t) : t \in StateTables \ {"workspaces"}}
           clears == {Clear(t) : t \in StateTables \ {"workspaces", "nodes", "edges"}}
<1>9. Clear("graphs") \in clears
  BY DEF StateTables
<1>10. /\ ToSet(c) = ToSet(u) \cup ToSet(ClearWorkspaceState) \cup ToSet(InsertWorkspaceState)
       /\ ToSet(ClearWorkspaceState) = clears
       /\ ToSet(InsertWorkspaceState) = {Clear("graphs"), Prune} \cup inserts
  BY <1>3, <1>6, InsertsInOrder DEF c
<1> HIDE DEF inserts, clears
<1>11. ToSet(SaveStatements) = {Upsert, Prune, Bump} \cup inserts \cup clears
  BY <1>4, <1>7, <1>8, <1>9, <1>10
<1> QED BY <1>7, <1>8, <1>11 DEF inserts, clears

LEMMA ReplaceInOrder ==
  /\ Ordered(ReplaceStatements)
  /\ ToSet(ReplaceStatements) =
       {Clear("workspaces"), Clear("graphs"), Prune, Bump} \cup {Insert(t) : t \in StateTables}
<1> DEFINE r == <<Clear("workspaces"), Insert("workspaces")>>
           b == <<Bump>>
<1>1. /\ Clear("workspaces") \in Writes /\ Insert("workspaces") \in Writes /\ Bump \in Writes
  BY Names DEF Clear, Insert, Bump, Writes
<1>2. b \in Seq(Writes) /\ ToSet(b) = {Bump} /\ Ordered(b)
  BY <1>1, Single
<1> HIDE DEF b
<1>3. /\ r \in Seq(Writes) /\ Ordered(r)
      /\ ToSet(r) = {Clear("workspaces"), Insert("workspaces")}
  <2> DEFINE x == Clear("workspaces")
             y == Insert("workspaces")
  <2>1. x \in Writes /\ y \in Writes /\ MayPrecede(x, y)
    BY <1>1, Precedence
  <2> HIDE DEF x, y
  <2>2. <<x, y>> \in Seq(Writes) /\ DOMAIN <<x, y>> = 1..2
        /\ <<x, y>>[1] = x /\ <<x, y>>[2] = y
    BY <2>1
  <2>3. Ordered(<<x, y>>)
    BY <2>1, <2>2 DEF Ordered
  <2>4. ToSet(<<x, y>>) = {x, y}
    BY <2>2 DEF ToSet
  <2> QED BY <2>2, <2>3, <2>4 DEF x, y
<1> HIDE DEF r
<1>4. \A x \in ToSet(r), y \in ToSet(InsertWorkspaceState) : MayPrecede(x, y)
  <2>1. MayPrecede(Insert("workspaces"), Clear("graphs"))
    BY Precedence DEF Takes
  <2>2. MayPrecede(Clear("workspaces"), Clear("graphs"))
    <3>1. \A v \in Takes("graphs") : ~Restricts(v, "workspaces")
      BY RestrictTable
    <3> QED BY <3>1, Precedence
  <2>3. \A t \in StateTables \ {"workspaces"} : MayPrecede(Insert("workspaces"), Insert(t))
    BY Precedence, CascadeTable, RestrictTable DEF FactTables
  <2> QED BY <1>1, <1>3, <2>1, <2>2, <2>3, InsertsInOrder, Precedence
<1> DEFINE c == r \o InsertWorkspaceState
<1>5. c \in Seq(Writes) /\ Ordered(c) /\ ToSet(c) = ToSet(r) \cup ToSet(InsertWorkspaceState)
  BY <1>3, <1>4, InsertsInOrder, Join
<1> HIDE DEF c
<1>6. Ordered(c \o b) /\ ToSet(c \o b) = ToSet(c) \cup ToSet(b)
  <2>1. \A x \in ToSet(c) : x \in Writes
    BY <1>5 DEF ToSet
  <2>2. \A x \in ToSet(c), y \in ToSet(b) : MayPrecede(x, y)
    BY <1>2, <2>1, Precedence
  <2> QED BY <1>2, <1>5, <2>2, Join
<1>7. ReplaceStatements = c \o b
  BY DEF ReplaceStatements, c, b, r
<1> DEFINE inserts == {Insert(t) : t \in StateTables \ {"workspaces"}}
<1>8. {Insert(t) : t \in StateTables} = inserts \cup {Insert("workspaces")}
  BY DEF StateTables
<1>9. ToSet(InsertWorkspaceState) = {Clear("graphs"), Prune} \cup inserts
  BY InsertsInOrder
<1> HIDE DEF inserts
<1> QED BY <1>2, <1>3, <1>5, <1>6, <1>7, <1>8, <1>9

LEMMA ContentsInOrder ==
  /\ Ordered(ContentStatements)
  /\ ToSet(ContentStatements) = {Clear(t) : t \in FactTables} \cup {Insert(t) : t \in FactTables}
<1> DEFINE down == <<"dependencies", "references", "symbols", "chunks", "files">>
           up == <<"files", "chunks", "symbols", "references", "dependencies">>
<1>1. /\ down \in Seq(Tables) /\ DOMAIN down = 1..5 /\ ToSet(down) = FactTables
      /\ up \in Seq(Tables) /\ DOMAIN up = 1..5 /\ ToSet(up) = FactTables
  BY Names DEF ToSet, FactTables
<1>2. \A i, j \in DOMAIN down : i < j => MayPrecede(Clear(down[i]), Clear(down[j]))
  <2>1. \A t \in FactTables, v \in Tables : ~Restricts(v, t)
    BY RestrictTable DEF FactTables
  <2>2. \A t \in FactTables : Takes(t) \subseteq Tables
    BY DEF Takes, Tables, FactTables
  <2>3. \A i \in 1..5 : down[i] \in FactTables
    BY <1>1 DEF ToSet
  <2> QED BY <1>1, <2>1, <2>2, <2>3, Precedence
<1>3. \A i, j \in DOMAIN up : i < j => MayPrecede(Insert(up[i]), Insert(up[j]))
  <2> SUFFICES ASSUME NEW i \in 1..5, NEW j \in 1..5, i < j
               PROVE  MayPrecede(Insert(up[i]), Insert(up[j]))
    BY <1>1
  <2>1. up[i] # up[j] /\ up[i] \in FactTables /\ up[j] \in FactTables \ {"files"}
    BY DEF FactTables
  <2> HIDE DEF up
  <2>2. ~Cascades(up[i], up[j]) /\ ~Restricts(up[i], up[j])
    BY <2>1, CascadeTable, RestrictTable DEF FactTables
  <2> QED BY <2>1, <2>2, Precedence
<1> HIDE DEF down, up
<1>4. /\ Each(Clear, down) \in Seq(Writes) /\ Ordered(Each(Clear, down))
      /\ ToSet(Each(Clear, down)) = {Clear(t) : t \in FactTables}
      /\ Each(Insert, up) \in Seq(Writes) /\ Ordered(Each(Insert, up))
      /\ ToSet(Each(Insert, up)) = {Insert(t) : t \in FactTables}
  BY <1>1, <1>2, <1>3, EachOne, EachIsAWrite
<1>5. \A x \in ToSet(Each(Clear, down)), y \in ToSet(Each(Insert, up)) : MayPrecede(x, y)
  BY <1>4, Precedence
<1>6. ContentStatements = Each(Clear, down) \o Each(Insert, up)
  BY DEF ContentStatements, down, up
<1> QED BY <1>4, <1>5, <1>6, Join

LEMMA TakesWhat ==
  /\ \A t \in Tables : t \in Takes(t) /\ Takes(t) \subseteq Tables
  /\ \A t \in Tables \ {"repository_indexes"} : \A u \in Takes(t) :
       \A x : Cascades(x, u) => x \in Takes(t)
<1>1. \A t \in Tables : t \in Takes(t) /\ Takes(t) \subseteq Tables
  BY DEF Takes, Tables, StateTables, FactTables
<1>2. ASSUME NEW t \in Tables \ {"repository_indexes"}, NEW x, NEW u \in Takes(t), Cascades(x, u)
      PROVE  x \in Takes(t)
  BY <1>2, CascadeTable DEF Takes, Tables, StateTables, FactTables
<1> QED BY <1>1, <1>2

LEMMA StatementsRestore ==
  ASSUME NEW kind \in {"save", "replace", "contents"}
  PROVE  LET q == StatementsOf(kind)
         IN /\ Ordered(q) /\ Restores(q, kind)
            /\ \A t \in Filling(kind) : WillPut(q, t)
            /\ \A t \in Filling(kind) : Insert(t) \in ToSet(q) => WillClear(q, t)
            /\ kind = "replace" =>
                 Clear("workspaces") \in ToSet(q) /\ Insert("scan_runs") \in ToSet(q)
<1> USE DEF Filling
<1>1. \A t : /\ Clear(t).op = "clear" /\ Clear(t).table = t
             /\ Insert(t).op = "insert" /\ Insert(t).table = t
             /\ Upsert.op = "upsert" /\ Upsert.table = "workspaces"
             /\ Bump.op = "bump" /\ Prune.op = "prune"
  BY DEF Clear, Insert, Upsert, Bump, Prune
<1>2. \A t : /\ t \in StateTables \ {"workspaces", "nodes", "edges"} =>
                 /\ Takes(t) \subseteq StateTables \ {"workspaces"}
                 /\ \A x : Restricts(x, t) => x \in StateTables \ {"workspaces"}
             /\ t \in FactTables => Takes(t) \subseteq FactTables
             /\ t \in FactTables \cup {"workspaces", "graphs"} => \A x : ~Restricts(x, t)
             /\ "repository_indexes" \notin StateTables \cup FactTables
             /\ Takes("graphs") \cap StateTables \subseteq StateTables
             /\ {"workspaces", "scan_runs"} \subseteq StateTables
             /\ t \in StateTables \cup FactTables => t \in Takes(t) /\ t \in Takes("workspaces")
             /\ t \in {"nodes", "edges"} => t \in Takes("graphs")
             /\ "graphs" \in StateTables
  BY RestrictTable DEF Takes, Tables, StateTables, FactTables
<1>3. CASE kind = "save"
  <2>1. StatementsOf(kind) = SaveStatements
    BY <1>3 DEF StatementsOf
  <2> QED BY <1>1, <1>2, <1>3, <2>1, SaveInOrder DEF Restores, WillPut, WillClear
<1>4. CASE kind = "replace"
  <2>1. StatementsOf(kind) = ReplaceStatements
    BY <1>4 DEF StatementsOf
  <2> QED BY <1>1, <1>2, <1>4, <2>1, ReplaceInOrder DEF Restores, WillPut, WillClear
<1>5. CASE kind = "contents"
  <2>1. StatementsOf(kind) = ContentStatements
    BY <1>5 DEF StatementsOf
  <2> QED BY <1>1, <1>2, <1>5, <2>1, ContentsInOrder DEF Restores, WillPut, WillClear
<1> QED BY <1>3, <1>4, <1>5

LEMMA AlongIs ==
  ASSUME NEW v, NEW p, NEW gone, NEW u
  PROVE  u \in Along(v, p, gone) <=>
           u \in gone \/ (v[u] # Absent /\ \E t \in gone : Cascades(u, t))
<1>1. \A fk \in ForeignKeys : fk.action = "cascade" => ~fk.optional
  BY KeysOfTheSchema
<1> QED BY <1>1 DEF Along, Refers, Cascades

(* What the four levels of a cascade have removed. *)
LEMMA WhatIsGone ==
  ASSUME NEW v, NEW p, NEW t \in Tables \ {"repository_indexes"}, Whole(v, Takes(t))
  PROVE  LET gone == Cascaded(v, p, t)
         IN /\ DOMAIN gone = 1..4
            /\ \A n \in 1..4 : \A u \in gone[n] : u \in Takes(t) /\ v[u] # Absent
            /\ \A u \in gone[1] : u = t
            /\ \A n \in 2..4 : \A u \in Takes(t) :
                 v[u] # Absent /\ (u = t \/ Cascades(u, t)) => u \in gone[n]
            /\ \A u \in gone[2] : u = t \/ Cascades(u, t)
            /\ \A n \in 3..4 : \A u \in Takes(t) : v[u] # Absent => u \in gone[n]
<1> DEFINE first == {u \in {t} : v[u] # Absent}
           second == Along(v, p, first)
           third == Along(v, p, second)
           fourth == Along(v, p, third)
<1>1. Cascaded(v, p, t) = <<first, second, third, fourth>>
  BY DEF Cascaded
<1>2. \A u : u \in first <=> u = t /\ v[t] # Absent
  OBVIOUS
<1>3. \A u : u \in second <=> u \in first \/ (v[u] # Absent /\ \E x \in first : Cascades(u, x))
  BY AlongIs
<1>4. \A u : u \in third <=> u \in second \/ (v[u] # Absent /\ \E x \in second : Cascades(u, x))
  BY AlongIs
<1>5. \A u : u \in fourth <=> u \in third \/ (v[u] # Absent /\ \E x \in third : Cascades(u, x))
  BY AlongIs
<1> HIDE DEF first, second, third, fourth
<1>6. \A u \in fourth : u \in Takes(t) /\ v[u] # Absent
  <2>1. \A u \in first : u \in Takes(t) /\ v[u] # Absent
    BY <1>2, TakesWhat
  <2>2. \A u \in second : u \in Takes(t) /\ v[u] # Absent
    BY <1>3, <2>1, TakesWhat
  <2>3. \A u \in third : u \in Takes(t) /\ v[u] # Absent
    BY <1>4, <2>2, TakesWhat
  <2> QED BY <1>5, <2>3, TakesWhat
<1>7. \A u \in Takes(t) : v[u] # Absent /\ (u = t \/ Cascades(u, t)) => u \in second
  <2>1. \A u \in Takes(t) : Cascades(u, t) /\ v[u] # Absent => v[t] # Absent
    BY DEF Whole
  <2> QED BY <1>2, <1>3, <2>1
<1>8. ASSUME NEW u \in Takes(t), v[u] # Absent PROVE u \in third
  <2>1. CASE u = t \/ Cascades(u, t)
    BY <1>4, <1>7, <1>8, <2>1
  <2>2. CASE ~(u = t \/ Cascades(u, t))
    <3>1. t = "workspaces"
      BY <2>2, CascadeTable DEF Takes, FactTables
    <3>2. PICK x \in {"graphs", "repository_indexes"} : Cascades(u, x)
      BY <2>2, <3>1, CascadeTable DEF Takes, Tables, StateTables
    <3>3. x \in Tables /\ x \in Takes(t) /\ Cascades(x, t)
      BY <3>1, CascadeTable DEF Takes, Tables, StateTables
    <3>4. v[x] # Absent
      BY <1>8, <3>2, <3>3 DEF Whole
    <3>5. x \in second
      BY <1>7, <3>3, <3>4
    <3> QED BY <1>4, <1>8, <3>2, <3>5
  <2> QED BY <2>1, <2>2
<1>9. first \subseteq second /\ second \subseteq third /\ third \subseteq fourth
  BY <1>3, <1>4, <1>5
<1>10. \A u \in second : u = t \/ Cascades(u, t)
  BY <1>2, <1>3
<1> DEFINE gone == <<first, second, third, fourth>>
<1>11. /\ DOMAIN gone = 1..4
       /\ gone[1] = first /\ gone[2] = second /\ gone[3] = third /\ gone[4] = fourth
  OBVIOUS
<1> HIDE DEF gone
<1>12. \A n \in 1..4 : gone[n] \subseteq fourth
  BY <1>9, <1>11
<1>13. \A n \in 2..4 : second \subseteq gone[n]
  BY <1>9, <1>11
<1>14. \A n \in 3..4 : third \subseteq gone[n]
  BY <1>9, <1>11
<1> QED BY <1>1, <1>2, <1>6, <1>7, <1>8, <1>10, <1>11, <1>12, <1>13, <1>14 DEF gone

LEMMA WithoutIs ==
  ASSUME NEW v \in Views, NEW p, NEW t \in Tables \ {"repository_indexes"}, Whole(v, Takes(t))
  PROVE  /\ Without(v, p, t) = [u \in Tables |-> IF u \in Takes(t) THEN Absent ELSE v[u]]
         /\ Without(v, p, t) \in Views
<1>1. \A u \in Tables : (IF u \in Cascaded(v, p, t)[4] THEN Absent ELSE v[u])
                       = (IF u \in Takes(t) THEN Absent ELSE v[u])
  BY WhatIsGone
<1>2. Absent \in 0..MaxWrites
  BY MaxWritesIsNatural DEF Absent
<1> QED BY <1>1, <1>2 DEF Without, Views

(* The schema lets a table be cleared when nothing holds its rows, and a   *)
(* workspace always.                                                       *)
LEMMA CanDeleteIt ==
  ASSUME NEW v, NEW p, NEW t \in Tables \ {"repository_indexes"}, Whole(v, Takes(t)),
         \A u : Restricts(u, t) => v[u] = Absent
  PROVE  CanDelete(v, p, t)
<1> DEFINE gone == Cascaded(v, p, t)
<1> SUFFICES ASSUME NEW fk \in ForeignKeys, fk.action # "cascade", Refers(v, p, fk),
                    NEW n \in 1..4, fk.to \in gone[n]
             PROVE  fk.on \in gone[n]
  BY WhatIsGone DEF CanDelete
<1>1. Restricts(fk.on, fk.to) /\ v[fk.on] # Absent
  BY DEF Restricts, Refers
<1>2. fk.to \in Takes(t) /\ fk.to # t
  BY <1>1, WhatIsGone
<1>3. t \in {"workspaces", "graphs"} /\ fk.on \in Takes(t)
  BY <1>1, <1>2, RestrictTable DEF Takes, Tables, StateTables, FactTables
<1>4. n # 1
  BY <1>2, WhatIsGone
<1>5. CASE n = 2
  <2>1. Cascades(fk.to, t)
    BY <1>2, <1>5, WhatIsGone
  <2>2. Cascades(fk.on, t)
    BY <1>1, <1>3, <2>1, CascadeTable, RestrictTable DEF FactTables
  <2> QED BY <1>1, <1>3, <1>5, <2>2, WhatIsGone
<1>6. CASE n \in 3..4
  BY <1>1, <1>3, <1>6, WhatIsGone
<1> QED BY <1>4, <1>5, <1>6

-----------------------------------------------------------------------------
(* One statement on the view of a transaction, as Result has it. *)
Executed(kind, w, x, v) ==
  CASE x.op = "clear"  -> Without(v, parts, x.table)
    [] x.op = "insert" -> IF Fills(kind, w, x.table) THEN [v EXCEPT ![x.table] = w] ELSE v
    [] x.op = "upsert" -> [v EXCEPT !["workspaces"] = w]
    [] x.op = "prune"  -> IF "nodes" \in parts[w] THEN v
                          ELSE [v EXCEPT !["node_embeddings"] = Absent]
    [] x.op = "bump"   -> v

LEMMA OrderedTail ==
  ASSUME NEW q \in Seq(Writes), q # <<>>, Ordered(q)
  PROVE  Ordered(Tail(q)) /\ \A y \in ToSet(Tail(q)) : MayPrecede(Head(q), y)
<1>1. /\ Len(q) \in Nat /\ DOMAIN q = 1..Len(q) /\ Len(q) >= 1 /\ Head(q) = q[1]
      /\ Tail(q) \in Seq(Writes) /\ DOMAIN Tail(q) = 1..(Len(q) - 1)
      /\ \A i \in 1..(Len(q) - 1) : Tail(q)[i] = q[i + 1]
  OBVIOUS
<1>2. ASSUME NEW i \in 1..(Len(q) - 1), NEW j \in 1..(Len(q) - 1), i < j
      PROVE  MayPrecede(Tail(q)[i], Tail(q)[j])
  <2>1. i + 1 \in DOMAIN q /\ j + 1 \in DOMAIN q /\ i + 1 < j + 1
    BY <1>1, <1>2
  <2>2. MayPrecede(q[i + 1], q[j + 1])
    BY <2>1 DEF Ordered
  <2> QED BY <1>1, <2>2
<1>3. ASSUME NEW i \in 1..(Len(q) - 1) PROVE MayPrecede(Head(q), Tail(q)[i])
  <2>1. i + 1 \in DOMAIN q /\ 1 \in DOMAIN q /\ 1 < i + 1
    BY <1>1
  <2>2. MayPrecede(q[1], q[i + 1])
    BY <2>1 DEF Ordered
  <2> QED BY <1>1, <2>2
<1> QED BY <1>1, <1>2, <1>3 DEF Ordered, ToSet

LEMMA RestoresTail ==
  ASSUME NEW q \in Seq(Writes), q # <<>>, Ordered(q), NEW kind, Restores(q, kind)
  PROVE  Restores(Tail(q), kind)
<1> DEFINE x == Head(q)
           rest == ToSet(Tail(q))
<1>1. ToSet(q) = {x} \cup rest /\ \A y \in rest : MayPrecede(x, y)
  BY HeadAndTail, OrderedTail
<1> HIDE DEF x, rest
<1>2. ASSUME NEW y \in rest, y.op = "clear", NEW t, Insert(t) \in ToSet(q),
             t \in Takes(y.table) \/ (y.table \in Takes(y.table) /\ Restricts(t, y.table))
      PROVE  Insert(t) \in rest
  <2>1. x # Insert(t)
    BY <1>1, <1>2 DEF MayPrecede, Insert
  <2> QED BY <1>1, <1>2, <2>1
<1>3. ASSUME NEW y \in rest, y.op = "clear"
      PROVE  y.table \in Tables /\ y.table \in Takes(y.table)
  <2>1. y \in Writes
    BY HeadAndTail DEF ToSet, rest
  <2> QED BY <2>1, TakesWhat DEF Writes
<1> QED BY <1>1, <1>2, <1>3 DEF Restores, rest

(* The order of the statements suits the foreign keys: the next one of a   *)
(* save or of a replacement of contents is never refused.                  *)
LEMMA NextIsAllowed ==
  ASSUME TypeOK, NEW kind \in {"save", "contents"}, NEW w \in DOMAIN parts,
         kind = "save" => parts[w] \in Shapes,
         NEW q \in Seq(Writes), q # <<>>, NEW v \in Views,
         Progress(kind, w, q, v), IndexIsThere(kind, w, v)
  PROVE  LET x == Head(q)
         IN /\ x.op = "clear" => CanDelete(v, parts, x.table)
            /\ x.op = "insert" /\ Fills(kind, w, x.table) => CanInsert(v, parts, x.table, w)
<1> DEFINE x == Head(q)
           rest == ToSet(Tail(q))
<1>1. /\ ToSet(q) = {x} \cup rest /\ x \in Writes /\ \A y \in rest : MayPrecede(x, y)
      /\ Restores(q, kind) /\ Ordered(q)
  BY HeadAndTail, OrderedTail DEF Progress
<1>2. w # Absent
  BY DEF TypeOK, Absent
<1> HIDE DEF x, rest
<1>3. ASSUME x.op = "clear" PROVE CanDelete(v, parts, x.table)
  <2>1. x.table \in Tables \ {"repository_indexes"} /\ Whole(v, Takes(x.table))
        /\ Takes(x.table) \subseteq Filling(kind)
    BY <1>1, <1>3 DEF Progress, Restores, Writes
  <2>2. ASSUME NEW u, Restricts(u, x.table) PROVE v[u] = Absent
    <3>1. u \in Tables /\ u # x.table /\ u \notin {"graphs", "workspaces", "files"}
          /\ x.table \notin {"graphs", "workspaces", "files"}
      BY <2>2, RestrictTable DEF Tables, StateTables, FactTables
    <3>2. Insert(u) \in ToSet(q) /\ u \in Filling(kind)
      BY <1>1, <1>3, <2>2, <3>1 DEF Restores, Insert
    <3>3. ~WillClear(q, u)
      BY <1>1, <1>3, <2>2, <3>1 DEF WillClear, MayPrecede, Takes
    <3> QED BY <3>2, <3>3 DEF Progress
  <2> QED BY <2>1, <2>2, CanDeleteIt
<1>4. ASSUME x.op = "insert", Fills(kind, w, x.table) PROVE CanInsert(v, parts, x.table, w)
  <2>1. x.table \in Filling(kind) /\ x = Insert(x.table) /\ x.table \in Tables
    BY <1>1, <1>4 DEF Restores, Writes, Insert
  <2>2. v[x.table] = Absent
    <3>1. ~WillClear(q, x.table)
      BY <1>1, <1>4 DEF WillClear, MayPrecede
    <3> QED BY <1>1, <2>1, <3>1 DEF Progress
  <2>3. ASSUME NEW fk \in ForeignKeys, fk.on = x.table, fk.optional => fk.to \in parts[w]
        PROVE  v[fk.to] # Absent
    <3>1. /\ Cascades(x.table, fk.to) \/ Restricts(x.table, fk.to)
          /\ fk.to # x.table
      BY <2>3, KeysOfTheSchema DEF Cascades, Restricts
    <3>2. CASE fk.to = "repository_indexes"
      BY <2>1, <2>3, <3>2, KeysOfTheSchema
         DEF IndexIsThere, Filling, StateTables, FactTables
    <3>3. CASE fk.to # "repository_indexes"
      <4>1. fk.to \in Filling(kind)
        BY <2>1, <2>3, <3>3, KeysOfTheSchema DEF Filling, StateTables, FactTables
      <4>2. ~WillClear(q, fk.to) /\ ~WillPut(q, fk.to)
        BY <1>1, <1>4, <3>1 DEF WillClear, WillPut, MayPrecede
      <4>3. Fills(kind, w, fk.to)
        BY <1>4, <2>1, <2>3, <3>3, <4>1, KeysOfTheSchema, ShapesAreClosed
           DEF Fills, Holds, Filling, Mandatory, StateTables, FactTables
      <4> QED BY <1>2, <4>1, <4>2, <4>3 DEF Progress
    <3> QED BY <3>2, <3>3
  <2> QED BY <2>2, <2>3 DEF CanInsert
<1> QED BY <1>3, <1>4 DEF x

LEMMA Advance ==
  ASSUME TypeOK, NEW kind \in {"save", "replace", "contents"}, NEW w \in DOMAIN parts,
         NEW q \in Seq(Writes), q # <<>>, NEW v \in Views, Progress(kind, w, q, v),
         Head(q).op = "insert" /\ Fills(kind, w, Head(q).table) =>
           CanInsert(v, parts, Head(q).table, w)
  PROVE  /\ Progress(kind, w, Tail(q), Executed(kind, w, Head(q), v))
         /\ kind # "replace" =>
              Executed(kind, w, Head(q), v)["repository_indexes"] = v["repository_indexes"]
<1> DEFINE x == Head(q)
           rest == ToSet(Tail(q))
           v2 == Executed(kind, w, x, v)
<1>1. /\ ToSet(q) = {x} \cup rest /\ x \in Writes /\ \A y \in rest : MayPrecede(x, y)
      /\ Restores(q, kind) /\ Ordered(Tail(q)) /\ Restores(Tail(q), kind)
      /\ \A y \in rest : y \in Writes
  <2>1. ToSet(q) = {x} \cup rest /\ x \in Writes /\ Tail(q) \in Seq(Writes)
    BY HeadAndTail
  <2>2. \A y \in rest : y \in Writes
    BY <2>1 DEF ToSet
  <2> QED BY <2>1, <2>2, OrderedTail, RestoresTail DEF Progress
<1>2. w # Absent /\ w \in 0..MaxWrites
  BY MaxWritesIsNatural DEF TypeOK, Absent
<1>3. /\ \A t : WillClear(q, t) <=> (x.op = "clear" /\ t \in Takes(x.table)) \/ WillClear(Tail(q), t)
      /\ \A t : WillPut(q, t) <=> (x.op \in {"insert", "upsert"} /\ x.table = t)
                                   \/ WillPut(Tail(q), t)
  BY <1>1 DEF WillClear, WillPut, rest
<1>4. \A t : Insert(t).op = "insert" /\ Insert(t).table = t
             /\ (Insert(t) \in rest => WillPut(Tail(q), t))
  BY DEF Insert, WillPut, rest
<1>5. /\ Filling(kind) \subseteq Tables
      /\ "repository_indexes" \notin Filling(kind) /\ "node_embeddings" \notin Filling(kind)
      /\ kind # "contents" => Filling(kind) = StateTables /\ "workspaces" \in Filling(kind)
  BY DEF Filling, Tables, StateTables, FactTables
<1> DEFINE Empty(t)  == Insert(t) \in rest => v2[t] = Absent
           Final(t)  == ~WillPut(Tail(q), t) => v2[t] = IF Fills(kind, w, t) THEN w ELSE Absent
           Intact(y) == Whole(v2, Takes(y.table))
           Replaced  == /\ Clear("workspaces") \notin rest =>
                             \A t \in Tables \ StateTables : v2[t] = Absent
                        /\ Insert("scan_runs") \notin rest =>
                             ~(Holds(w, "scan_runs") /\ "repository_indexes" \in parts[w])
           Goal == /\ \A t \in Filling(kind) : ~WillClear(Tail(q), t) => Empty(t) /\ Final(t)
                   /\ \A y \in rest : y.op = "clear" => Intact(y)
                   /\ kind = "replace" => Replaced
                   /\ kind # "replace" => v2["repository_indexes"] = v["repository_indexes"]
<1> HIDE DEF rest, x
<1>6. ASSUME x.op = "clear" PROVE Goal
  <2>1. /\ x.table \in Tables \ {"repository_indexes"} /\ Whole(v, Takes(x.table))
        /\ kind # "replace" => Takes(x.table) \subseteq Filling(kind)
        /\ Takes(x.table) \subseteq Tables
    BY <1>1, <1>6, TakesWhat DEF Progress, Restores, Writes
  <2>2. v2 = [u \in Tables |-> IF u \in Takes(x.table) THEN Absent ELSE v[u]]
    BY <1>6, <2>1, WithoutIs DEF Executed
  <2> HIDE DEF v2
  <2>3. ASSUME NEW t \in Filling(kind), ~WillClear(Tail(q), t) PROVE Empty(t) /\ Final(t)
    <3>1. CASE t \in Takes(x.table)
      <4>1. v2[t] = Absent
        BY <1>5, <2>2, <3>1
      <4>2. Insert(t) \in ToSet(q) /\ Insert(t) # x
        BY <1>1, <1>4, <1>6, <3>1 DEF Restores
      <4> QED BY <1>1, <1>4, <4>1, <4>2
    <3>2. CASE t \notin Takes(x.table)
      <4>1. v2[t] = v[t] /\ ~WillClear(q, t)
        BY <1>3, <1>5, <2>2, <2>3, <3>2
      <4>2. WillPut(q, t) <=> WillPut(Tail(q), t)
        BY <1>3, <1>6
      <4> QED BY <1>1, <4>1, <4>2 DEF Progress
    <3> QED BY <3>1, <3>2
  <2>4. ASSUME NEW y \in rest, y.op = "clear" PROVE Intact(y)
    <3>1. Whole(v, Takes(y.table)) /\ Takes(y.table) \subseteq Tables
      BY <1>1, <2>4, TakesWhat DEF Progress, Writes
    <3>2. ASSUME NEW t \in Takes(y.table), NEW u \in Tables, Cascades(t, u), v2[t] # Absent
          PROVE  v2[u] # Absent
      <4>1. t \notin Takes(x.table) /\ v2[t] = v[t]
        BY <2>2, <3>1, <3>2
      <4>2. u \notin Takes(x.table)
        BY <2>1, <3>2, <4>1, TakesWhat
      <4> QED BY <2>2, <3>1, <3>2, <4>1, <4>2 DEF Whole
    <3> QED BY <3>2 DEF Whole
  <2>5. ASSUME kind = "replace" PROVE Replaced
    <3>1. ASSUME Clear("workspaces") \notin rest, NEW t \in Tables \ StateTables
          PROVE  v2[t] = Absent
      <4>1. CASE x = Clear("workspaces")
        BY <2>2, <4>1 DEF Clear, Takes
      <4>2. CASE x # Clear("workspaces")
        BY <1>1, <2>2, <2>5, <3>1, <4>2 DEF Progress
      <4> QED BY <4>1, <4>2
    <3>2. Insert("scan_runs") \notin rest => Insert("scan_runs") \notin ToSet(q)
      BY <1>1, <1>4, <1>6
    <3> QED BY <2>5, <3>1, <3>2 DEF Progress
  <2>6. kind # "replace" => v2["repository_indexes"] = v["repository_indexes"]
    BY <1>5, <2>1, <2>2 DEF Tables
  <2> QED BY <2>3, <2>4, <2>5, <2>6
<1>7. ASSUME x.op \in {"insert", "upsert"} PROVE Goal
  <2> DEFINE t0 == x.table
  <2>1. /\ t0 \in Filling(kind)
        /\ x.op = "insert" => x = Insert(t0)
        /\ x.op = "upsert" => t0 = "workspaces" /\ Fills(kind, w, t0)
        /\ \A y \in rest : y.op = "clear" => t0 \notin Takes(y.table)
        /\ ~WillPut(Tail(q), t0) /\ ~WillClear(q, t0)
    BY <1>1, <1>3, <1>5, <1>7
       DEF Restores, Writes, Insert, MayPrecede, WillPut, WillClear, rest, Fills, Holds,
           Mandatory, StateTables
  <2> HIDE DEF t0
  <2>2. /\ v2 = IF Fills(kind, w, t0) THEN [v EXCEPT ![t0] = w] ELSE v
    BY <1>7, <2>1 DEF Executed, t0
  <2> HIDE DEF v2
  <2>3. /\ v2[t0] = IF Fills(kind, w, t0) THEN w ELSE Absent
        /\ \A u \in Tables \ {t0} : v2[u] = v[u]
    <3>1. ~Fills(kind, w, t0) => v[t0] = Absent
      BY <1>1, <1>7, <2>1 DEF Progress
    <3> QED BY <1>5, <2>1, <2>2, <3>1 DEF Views
  <2>4. ASSUME NEW t \in Filling(kind), ~WillClear(Tail(q), t) PROVE Empty(t) /\ Final(t)
    <3>1. CASE t = t0
      BY <1>4, <2>1, <2>3, <3>1
    <3>2. CASE t # t0
      <4>1. v2[t] = v[t] /\ ~WillClear(q, t) /\ (WillPut(q, t) <=> WillPut(Tail(q), t))
        BY <1>3, <1>5, <1>7, <2>3, <2>4, <3>2 DEF t0
      <4> QED BY <1>1, <4>1 DEF Progress
    <3> QED BY <3>1, <3>2
  <2>5. ASSUME NEW y \in rest, y.op = "clear" PROVE Intact(y)
    <3>1. Whole(v, Takes(y.table)) /\ Takes(y.table) \subseteq Tables /\ t0 \notin Takes(y.table)
      BY <1>1, <2>1, <2>5, TakesWhat DEF Progress, Writes
    <3>2. ASSUME NEW t \in Takes(y.table), NEW u \in Tables, Cascades(t, u), v2[t] # Absent
          PROVE  v2[u] # Absent
      <4>1. v[t] # Absent /\ v[u] # Absent
        BY <2>3, <3>1, <3>2 DEF Whole
      <4> QED BY <1>2, <2>2, <2>3, <4>1
    <3> QED BY <3>2 DEF Whole
  <2>6. ASSUME kind = "replace" PROVE Replaced
    <3>1. Clear("workspaces") \notin rest /\ Clear("workspaces") \notin ToSet(q)
      <4>1. t0 \in Takes("workspaces")
        BY <1>5, <2>1 DEF Takes
      <4> QED BY <1>1, <1>7, <2>1, <4>1 DEF Clear
    <3>2. \A t \in Tables \ StateTables : v2[t] = Absent /\ v[t] = Absent
      BY <1>5, <2>1, <2>3, <2>6, <3>1 DEF Progress
    <3>3. ASSUME Insert("scan_runs") \notin rest, Holds(w, "scan_runs"),
                 "repository_indexes" \in parts[w]
          PROVE  FALSE
      <4>1. Insert("scan_runs") \in ToSet(q)
        BY <2>6, <3>3 DEF Progress
      <4>2. x = Insert("scan_runs")
        BY <1>1, <3>3, <4>1
      <4>3. CanInsert(v, parts, "scan_runs", w)
        BY <1>4, <3>3, <4>2 DEF Fills, x
      <4>4. PICK fk \in ForeignKeys : fk.on = "scan_runs" /\ fk.to = "repository_indexes"
        BY RestrictTable DEF Restricts
      <4>5. v["repository_indexes"] # Absent
        BY <3>3, <4>3, <4>4 DEF CanInsert
      <4>6. "repository_indexes" \in Tables \ StateTables
        BY DEF Tables, StateTables
      <4> QED BY <3>2, <4>5, <4>6
    <3> QED BY <3>2, <3>3
  <2>7. kind # "replace" => v2["repository_indexes"] = v["repository_indexes"]
    <3>1. "repository_indexes" \in Tables \ {t0}
      BY <1>5, <2>1 DEF Tables
    <3> QED BY <2>3, <3>1
  <2> QED BY <2>4, <2>5, <2>6, <2>7
<1>8. ASSUME x.op \in {"prune", "bump"} PROVE Goal
  <2>1. v2 = v \/ (kind # "contents" /\ v2 = [v EXCEPT !["node_embeddings"] = Absent])
    BY <1>1, <1>8 DEF Executed, Restores
  <2> HIDE DEF v2
  <2>2. \A u \in Tables \ {"node_embeddings"} : v2[u] = v[u]
    BY <2>1 DEF Views
  <2>3. v2["node_embeddings"] = Absent \/ v2["node_embeddings"] = v["node_embeddings"]
    BY <2>1, Names DEF Views
  <2>4. ASSUME NEW t \in Filling(kind), ~WillClear(Tail(q), t) PROVE Empty(t) /\ Final(t)
    <3>1. v2[t] = v[t] /\ ~WillClear(q, t) /\ (WillPut(q, t) <=> WillPut(Tail(q), t))
      BY <1>3, <1>5, <1>8, <2>2, <2>4
    <3> QED BY <1>1, <3>1, <2>4 DEF Progress
  <2>5. ASSUME NEW y \in rest, y.op = "clear" PROVE Intact(y)
    <3>1. Whole(v, Takes(y.table)) /\ Takes(y.table) \subseteq Tables
      BY <1>1, <2>5, TakesWhat DEF Progress, Writes
    <3>2. ASSUME NEW t \in Takes(y.table), NEW u \in Tables, Cascades(t, u), v2[t] # Absent
          PROVE  v2[u] # Absent
      <4>1. u # "node_embeddings"
        BY <3>2, CascadeTable
      <4>2. v2[t] = v[t]
        BY <2>2, <2>3, <3>1, <3>2
      <4> QED BY <2>2, <3>1, <3>2, <4>1, <4>2 DEF Whole
    <3> QED BY <3>2 DEF Whole
  <2>6. ASSUME kind = "replace" PROVE Replaced
    <3>1. \A y : y \in ToSet(q) /\ y \notin rest => y.op \in {"prune", "bump"}
      BY <1>1, <1>8
    <3>2. /\ Clear("workspaces") \notin rest => Clear("workspaces") \notin ToSet(q)
          /\ Insert("scan_runs") \notin rest => Insert("scan_runs") \notin ToSet(q)
      BY <3>1 DEF Clear, Insert
    <3> QED BY <2>2, <2>3, <2>6, <3>2 DEF Progress
  <2>7. kind # "replace" => v2["repository_indexes"] = v["repository_indexes"]
    BY <2>2 DEF Tables
  <2> QED BY <2>4, <2>5, <2>6, <2>7
<1>9. Goal
  BY <1>1, <1>6, <1>7, <1>8 DEF Writes
<1> HIDE DEF v2
<1> QED BY <1>1, <1>9 DEF Progress, rest, x, v2

-----------------------------------------------------------------------------
(* The steps. *)

LEMMA ContentHolds ==
  ASSUME TypeOK, ContentIsOneWrite, NothingIsLeftBehind
  PROVE  /\ Whole(content, Tables)
         /\ \A t \in StateTables : content[t] # Absent => content[t] \in DOMAIN parts
<1>1. \A fk \in ForeignKeys : fk.action = "cascade" => ~fk.optional
  BY KeysOfTheSchema
<1>2. Whole(content, Tables)
  BY <1>1 DEF NothingIsLeftBehind, Refers, Whole, Cascades
<1> QED BY <1>2 DEF ContentIsOneWrite

(* The database is what it was, though a write may have been announced. *)
LEMMA SameContent ==
  ASSUME TypeOK, ContentIsOneWrite, NothingIsLeftBehind, content' = content,
         \A i \in DOMAIN parts : i \in DOMAIN parts' /\ parts'[i] = parts[i]
  PROVE  ContentIsOneWrite' /\ NothingIsLeftBehind'
<1>1. ContentIsOneWrite'
  BY DEF ContentIsOneWrite, Holds
<1>2. ASSUME NEW fk \in ForeignKeys, Refers(content', parts', fk) PROVE content'[fk.to] # Absent
  <2>1. Refers(content, parts, fk)
    BY <1>2, KeysOfTheSchema, ContentHolds DEF Refers, StateTables
  <2> QED BY <2>1 DEF NothingIsLeftBehind
<1> QED BY <1>1, <1>2 DEF NothingIsLeftBehind

LEMMA Undisturbed ==
  ASSUME StoreInv, NEW u \in Sessions, session'[u] = session[u], At(u, "statements"),
         \A i \in DOMAIN parts : i \in DOMAIN parts' /\ parts'[i] = parts[i],
         \A r \in {"workspace", "index"} : rowLock[r] = u => rowLock'[r] = u,
         content["repository_indexes"] # Absent => content'["repository_indexes"] # Absent
  PROVE  TransactionInv(u)'
<1>1. TransactionInv(u)
  BY DEF StoreInv
<1>2. ASSUME NEW kind, NEW w \in DOMAIN parts, NEW q, NEW v, Progress(kind, w, q, v)
      PROVE  Progress(kind, w, q, v)'
  <2>1. \A t : Holds(w, t)' <=> Holds(w, t)
    BY DEF Holds
  <2>2. \A t : Fills(kind, w, t)' <=> Fills(kind, w, t)
    BY <2>1 DEF Fills
  <2> QED BY <1>2, <2>1, <2>2 DEF Progress
<1>3. ASSUME NEW kind, NEW w \in DOMAIN parts, NEW v, IndexIsThere(kind, w, v)
      PROVE  IndexIsThere(kind, w, v)'
  BY <1>3 DEF IndexIsThere
<1>4. ASSUME NEW kind, NEW w \in DOMAIN parts, IndexIsThere(kind, w, content)
      PROVE  IndexIsThere(kind, w, content)'
  BY <1>4 DEF IndexIsThere
<1> DEFINE row == session[u]
<1>5. /\ row.write \in DOMAIN parts
      /\ Progress(row.kind, row.write, row.todo, row.view)
      /\ IndexIsThere(row.kind, row.write, row.view)
      /\ IndexIsThere(row.kind, row.write, content)
      /\ row.kind # "contents" => rowLock["workspace"] = u /\ parts[row.write] \in Shapes
      /\ row.kind # "save" => rowLock["index"] = u
  BY <1>1 DEF TransactionInv
<1>6. /\ Progress(row.kind, row.write, row.todo, row.view)'
      /\ IndexIsThere(row.kind, row.write, row.view)'
  <2> DEFINE kind == row.kind
             w == row.write
             q == row.todo
             v == row.view
  <2>1. kind' = kind /\ w' = w /\ q' = q /\ v' = v
    OBVIOUS
  <2> QED BY <1>2, <1>3, <1>5, <2>1
<1>7. IndexIsThere(row.kind, row.write, content)'
  BY <1>4, <1>5
<1> QED BY <1>5, <1>6, <1>7 DEF TransactionInv

LEMMA FilledIsFills ==
  \A s \in Sessions : \A t : Filled(s, t) <=> Fills(session[s].kind, session[s].write, t)
BY DEF Filled, Fills

(* A step of one session that leaves the database alone. *)
LEMMA OneSession ==
  ASSUME StoreInv, NEW s \in Sessions, NEW row, session' = [session EXCEPT ![s] = row],
         content' = content,
         \A i \in DOMAIN parts : i \in DOMAIN parts' /\ parts'[i] = parts[i],
         \A r \in {"workspace", "index"} :
           rowLock[r] = s \/ rowLock[r] = Nobody \/ rowLock'[r] = rowLock[r],
         LoadInv',
         row.at = "refused" => row.kind = "replace",
         row.at = "statements" => TransactionInv(s)'
  PROVE  StoreInv'
<1>1. session'[s] = row /\ \A u \in Sessions \ {s} : session'[u] = session[u]
  BY DEF StoreInv, LoadInv, TypeOK
<1>2. ContentIsOneWrite' /\ NothingIsLeftBehind'
  BY SameContent DEF StoreInv, LoadInv
<1>3. ValidWritesAreAccepted'
  BY <1>1 DEF StoreInv, ValidWritesAreAccepted, At
<1>4. ASSUME NEW u \in Sessions \ {s}, At(u, "statements")' PROVE TransactionInv(u)'
  <2>1. \A r \in {"workspace", "index"} : rowLock[r] = u => rowLock'[r] = u
    BY NobodyIsNoSession
  <2>2. At(u, "statements")
    BY <1>1, <1>4 DEF At
  <2> QED BY <1>1, <2>1, <2>2, Undisturbed
<1> QED BY <1>1, <1>2, <1>3, <1>4 DEF StoreInv, At

LEMMA BeginsInOrder ==
  ASSUME StoreInv, LoadInv', NEW s \in Sessions, NEW kind \in {"save", "replace", "contents"},
         NEW rows \in SUBSET {"workspace", "index"}, NEW shape \in SUBSET Tables,
         NEW w \in Nat, w = Len(parts) + 1,
         Lock(s, rows), NewWrite(shape), BeginTransaction(s, kind, w),
         content' = content,
         kind # "contents" => shape \in Shapes /\ "workspace" \in rows,
         kind # "save" => "index" \in rows,
         kind = "contents" => content["repository_indexes"] # Absent
  PROVE  StoreInv'
<1> DEFINE row == [at |-> "statements", kind |-> kind, todo |-> StatementsOf(kind),
                   view |-> content, write |-> w]
<1>1. /\ parts \in Seq(SUBSET Tables) /\ rowLock \in [{"workspace", "index"} -> Sessions \cup {Nobody}]
      /\ session \in [Sessions -> SessionRows]
      /\ TypeOK /\ ContentIsOneWrite /\ NothingIsLeftBehind
  BY DEF StoreInv, LoadInv, TypeOK
<1>2. /\ parts' = Append(parts, shape) /\ w \in DOMAIN parts' /\ parts'[w] = shape
      /\ \A i \in DOMAIN parts : i \in DOMAIN parts' /\ parts'[i] = parts[i]
  BY <1>1 DEF NewWrite
<1>3. session' = [session EXCEPT ![s] = row]
  BY DEF BeginTransaction
<1>4. /\ row.at = "statements" /\ row.kind = kind /\ row.todo = StatementsOf(kind)
      /\ row.view = content /\ row.write = w
  OBVIOUS
<1> HIDE DEF row
<1>5. /\ \A r \in rows : rowLock[r] = Nobody /\ rowLock'[r] = s
      /\ \A r \in {"workspace", "index"} \ rows : rowLock'[r] = rowLock[r]
  BY <1>1 DEF Lock
<1>6. \A t \in Tables : Takes(t) \subseteq Tables
  BY TakesWhat
<1>7. Progress(kind, w, StatementsOf(kind), content)'
  <2> DEFINE q == StatementsOf(kind)
  <2>1. /\ Ordered(q) /\ Restores(q, kind)
        /\ \A t \in Filling(kind) : WillPut(q, t)
        /\ \A t \in Filling(kind) : Insert(t) \in ToSet(q) => WillClear(q, t)
        /\ kind = "replace" =>
             Clear("workspaces") \in ToSet(q) /\ Insert("scan_runs") \in ToSet(q)
        /\ \A x \in ToSet(q) : x.table \in Tables
    <3>1. q \in Seq(Writes)
      BY StatementsAreWrites
    <3> HIDE DEF q
    <3>2. \A x \in ToSet(q) : x.table \in Tables
      <4>1. \A x \in ToSet(q) : x \in Writes
        BY <3>1 DEF ToSet
      <4> QED BY <4>1 DEF Writes
    <3>3. /\ Ordered(q) /\ Restores(q, kind)
          /\ \A t \in Filling(kind) : WillPut(q, t)
          /\ \A t \in Filling(kind) : Insert(t) \in ToSet(q) => WillClear(q, t)
          /\ kind = "replace" =>
               Clear("workspaces") \in ToSet(q) /\ Insert("scan_runs") \in ToSet(q)
      BY StatementsRestore DEF q
    <3> QED BY <3>2, <3>3
  <2>2. Whole(content, Tables)
    BY <1>1, ContentHolds
  <2> HIDE DEF q
  <2>3. \A x \in ToSet(q) : Whole(content, Takes(x.table))
    BY <1>6, <2>1, <2>2 DEF Whole
  <2>4. Progress(kind, w, q, content)'
    BY <2>1, <2>3 DEF Progress
  <2> QED BY <2>4 DEF q
<1>8. IndexIsThere(kind, w, content)'
  BY <1>2 DEF IndexIsThere, NewWrite
<1>9. session'[s] = row
  BY <1>1, <1>3
<1>10. TransactionInv(s)'
  <2>1. (row.kind)' = kind /\ (row.write)' = w
    BY <1>4 DEF row
  <2> QED BY <1>2, <1>4, <1>5, <1>7, <1>8, <1>9 DEF TransactionInv
<1> QED BY <1>2, <1>3, <1>4, <1>5, <1>10, OneSession

LEMMA StatementInOrder ==
  ASSUME StoreInv, LoadInv', NEW s \in Sessions, Statement(s)
  PROVE  StoreInv'
<1> DEFINE old == session[s]
           x == Head(old.todo)
           view == Executed(old.kind, old.write, x, old.view)
           row == After(s, x)
<1>1. /\ old.at = "statements" /\ old.todo # <<>>
      /\ session' = [session EXCEPT ![s] = row]
      /\ UNCHANGED <<content, revision, parts, key, rowLock>>
  BY DEF Statement, At
<1>2. /\ TypeOK /\ SessionInv(s) /\ TransactionInv(s) /\ old \in SessionRows
      /\ old.kind \in {"save", "replace", "contents"} /\ old.todo \in Seq(Writes)
      /\ old.view \in Views
  BY <1>1 DEF StoreInv, LoadInv, TypeOK, SessionInv, At, SessionRows
<1>3. x \in Writes
  BY <1>1, <1>2, HeadAndTail
<1>4. /\ old.write \in DOMAIN parts /\ Progress(old.kind, old.write, old.todo, old.view)
      /\ IndexIsThere(old.kind, old.write, old.view)
      /\ IndexIsThere(old.kind, old.write, content)
      /\ old.kind # "contents" => parts[old.write] \in Shapes
  BY <1>2 DEF TransactionInv
<1>5. /\ Result(s, x) = view
      /\ Allowed(s, x) <=>
           /\ x.op = "clear" => CanDelete(old.view, parts, x.table)
           /\ x.op = "insert" /\ Fills(old.kind, old.write, x.table) =>
                CanInsert(old.view, parts, x.table, old.write)
  BY <1>3, FilledIsFills DEF Result, Executed, Allowed, Writes
<1>6. /\ row.kind = old.kind /\ row.write = old.write
      /\ ~Allowed(s, x) => row.at = "refused"
      /\ Allowed(s, x) => /\ row.at = old.at /\ row.todo = Tail(old.todo)
                          /\ row.view = Result(s, x)
  BY <1>2 DEF After, SessionRows
<1> HIDE DEF row, x, view
<1>7. old.kind # "replace" => Allowed(s, x)
  BY <1>1, <1>2, <1>4, <1>5, NextIsAllowed DEF x
<1>8. ASSUME Allowed(s, x)
      PROVE  /\ Progress(old.kind, old.write, Tail(old.todo), view)
             /\ IndexIsThere(old.kind, old.write, view)
  <2>1. /\ Progress(old.kind, old.write, Tail(old.todo), view)
        /\ old.kind # "replace" => view["repository_indexes"] = old.view["repository_indexes"]
    BY <1>1, <1>2, <1>4, <1>5, <1>8, Advance DEF x, view
  <2> QED BY <1>4, <2>1 DEF IndexIsThere
<1>9. session'[s] = row
  BY <1>1 DEF StoreInv, LoadInv, TypeOK
<1>10. row.at = "statements" => TransactionInv(s)'
  <2> SUFFICES ASSUME Allowed(s, x), session'[s].at = "statements" PROVE TransactionInv(s)'
    BY <1>6, <1>9
  <2>1. /\ session'[s].kind = old.kind /\ session'[s].write = old.write
        /\ session'[s].todo = Tail(old.todo) /\ session'[s].view = view
    BY <1>5, <1>6, <1>9
  <2> HIDE DEF old
  <2>2. /\ Progress(session'[s].kind, session'[s].write, session'[s].todo, session'[s].view)
        /\ IndexIsThere(session'[s].kind, session'[s].write, session'[s].view)
        /\ IndexIsThere(session'[s].kind, session'[s].write, content)
    BY <1>4, <1>8, <2>1
  <2>3. /\ session'[s].write \in DOMAIN parts
        /\ session'[s].kind # "contents" =>
             rowLock["workspace"] = s /\ parts[session'[s].write] \in Shapes
        /\ session'[s].kind # "save" => rowLock["index"] = s
    BY <1>2, <2>1 DEF TransactionInv, old
  <2> QED BY <1>1, <2>2, <2>3
          DEF TransactionInv, Progress, IndexIsThere, Fills, Holds
<1> QED BY <1>1, <1>6, <1>7, <1>10, OneSession

(* What a transaction has written is whole when no statement is left. *)
LEMMA CommitsWhole ==
  ASSUME StoreInv, NEW s \in Sessions, Commit(s)
  PROVE  ContentIsOneWrite' /\ NothingIsLeftBehind'
<1>0. PICK kind, w, view :
        kind = session[s].kind /\ w = session[s].write /\ view = session[s].view
  OBVIOUS
<1>1. /\ session[s].at = "statements" /\ session[s].todo = <<>> /\ parts' = parts
      /\ content' = [t \in Tables |-> IF t \in Written(kind) THEN view[t] ELSE content[t]]
  BY <1>0 DEF Commit, At
<1>2. /\ TypeOK /\ TransactionInv(s) /\ session[s] \in SessionRows
      /\ kind \in {"save", "replace", "contents"}
      /\ ContentIsOneWrite /\ NothingIsLeftBehind
  BY <1>0, <1>1 DEF StoreInv, LoadInv, TypeOK, SessionInv, At
<1>3. /\ w \in DOMAIN parts /\ w # Absent /\ w \in 0..MaxWrites
      /\ kind # "contents" => parts[w] \in Shapes
      /\ IndexIsThere(kind, w, content)
  BY <1>0, <1>2, MaxWritesIsNatural DEF TransactionInv, TypeOK, Absent
<1>4. /\ \A t \in Filling(kind) : view[t] = IF Fills(kind, w, t) THEN w ELSE Absent
      /\ kind = "replace" =>
           /\ \A t \in Tables \ StateTables : view[t] = Absent
           /\ ~(Holds(w, "scan_runs") /\ "repository_indexes" \in parts[w])
  <2>1. ToSet(session[s].todo) = {}
    BY <1>1 DEF ToSet
  <2> QED BY <1>0, <1>2, <2>1 DEF TransactionInv, Progress, WillClear, WillPut
<1>5. CASE kind = "contents"
  <2>1. /\ \A t \in FactTables : content'[t] = w
        /\ \A t \in Tables \ FactTables : content'[t] = content[t]
        /\ content["repository_indexes"] # Absent
    BY <1>1, <1>3, <1>4, <1>5 DEF Written, Filling, Fills, Tables, IndexIsThere
  <2>2. FactTables \subseteq Tables /\ StateTables \subseteq Tables \ FactTables
        /\ "repository_indexes" \in Tables \ FactTables
    BY DEF Tables, StateTables, FactTables
  <2>3. ContentIsOneWrite'
    BY <1>1, <1>2, <1>3, <2>1, <2>2 DEF ContentIsOneWrite, Holds
  <2>4. ASSUME NEW fk \in ForeignKeys, Refers(content', parts, fk)
        PROVE  content'[fk.to] # Absent
    <3>1. CASE fk.on \in FactTables
      <4>1. fk.to \in {"repository_indexes", "files"}
        BY <3>1, KeysOfTheSchema DEF FactTables
      <4>2. "files" \in FactTables
        BY DEF FactTables
      <4> QED BY <1>3, <2>1, <2>2, <4>1, <4>2
    <3>2. CASE fk.on \notin FactTables
      <4>1. fk.on \in Tables \ FactTables /\ fk.to \in Tables \ FactTables
        BY <3>2, KeysOfTheSchema DEF FactTables, Tables, StateTables
      <4>2. Refers(content, parts, fk)
        BY <2>1, <2>4, <4>1 DEF Refers
      <4> QED BY <1>2, <2>1, <4>1, <4>2 DEF NothingIsLeftBehind
    <3> QED BY <3>1, <3>2
  <2>5. content'["workspaces"] # Absent
    <3>1. "workspaces" \in Tables \ FactTables
      BY DEF Tables, StateTables, FactTables
    <3> QED BY <1>2, <2>1, <2>2, <3>1 DEF NothingIsLeftBehind
  <2> QED BY <1>1, <2>3, <2>4, <2>5 DEF NothingIsLeftBehind
<1>6. CASE kind \in {"save", "replace"}
  <2>1. /\ \A t \in StateTables : content'[t] = IF Holds(w, t) THEN w ELSE Absent
        /\ kind = "save" => \A t \in FactTables \cup {"repository_indexes"} :
                              content'[t] = content[t]
        /\ kind = "replace" => \A t \in Tables \ StateTables : content'[t] = Absent
    BY <1>1, <1>4, <1>6 DEF Written, Filling, Fills, Tables, StateTables, FactTables
  <2>2. FactTables \cup {"repository_indexes"} \subseteq Tables \ StateTables
        /\ StateTables \subseteq Tables /\ "workspaces" \in StateTables
    BY DEF Tables, StateTables, FactTables
  <2>3. ContentIsOneWrite'
    <3>1. \A t \in StateTables : Holds(w, t)' <=> Holds(w, t)
      BY <1>1 DEF Holds
    <3>2. \E v \in DOMAIN parts' : \A t \in StateTables :
            content'[t] = IF Holds(v, t)' THEN v ELSE Absent
      BY <1>1, <1>3, <2>1, <3>1
    <3>3. \E v \in 0..MaxWrites : \A t \in FactTables : content'[t] = v
      BY <1>2, <1>6, <2>1, <2>2, MaxWritesIsNatural DEF ContentIsOneWrite, Absent
    <3> QED BY <3>2, <3>3 DEF ContentIsOneWrite
  <2>4. content'["workspaces"] = w
    BY <2>1, <2>2 DEF Holds, Mandatory
  <2>5. ASSUME NEW fk \in ForeignKeys, Refers(content', parts, fk)
        PROVE  content'[fk.to] # Absent
    <3>1. CASE fk.on \in StateTables
      <4>1. Holds(w, fk.on) /\ content'[fk.on] = w /\ (fk.optional => fk.to \in parts[w])
        BY <2>1, <2>5, <3>1 DEF Refers
      <4>2. CASE fk.to = "repository_indexes"
        <5>1. fk.on = "scan_runs" /\ "repository_indexes" \in parts[w]
          BY <3>1, <4>1, <4>2, KeysOfTheSchema DEF StateTables, FactTables
        <5>2. kind = "save"
          BY <1>4, <1>6, <4>1, <5>1
        <5>3. content["repository_indexes"] # Absent
          BY <1>3, <5>1, <5>2 DEF IndexIsThere
        <5> QED BY <2>1, <4>2, <5>2, <5>3
      <4>3. CASE fk.to # "repository_indexes"
        <5>1. fk.to \in StateTables
          BY <3>1, <4>3, KeysOfTheSchema DEF StateTables, FactTables
        <5>2. Holds(w, fk.to)
          BY <1>3, <1>6, <3>1, <4>1, <4>3, <5>1, KeysOfTheSchema, ShapesAreClosed
             DEF Holds, Mandatory, StateTables, FactTables
        <5> QED BY <1>3, <2>1, <5>1, <5>2
      <4> QED BY <4>2, <4>3
    <3>2. CASE fk.on \notin StateTables /\ fk.to = "workspaces"
      BY <1>3, <2>4, <3>2
    <3>3. CASE fk.on \notin StateTables /\ fk.to # "workspaces"
      <4>1. fk.on \in FactTables /\ fk.to \in FactTables \cup {"repository_indexes"}
        BY <3>3, KeysOfTheSchema DEF StateTables, FactTables, Tables
      <4>2. kind = "save"
        BY <1>6, <2>1, <2>2, <2>5, <4>1 DEF Refers
      <4>3. Refers(content, parts, fk)
        BY <2>1, <2>5, <4>1, <4>2 DEF Refers
      <4> QED BY <1>2, <2>1, <4>1, <4>2, <4>3 DEF NothingIsLeftBehind
    <3> QED BY <3>1, <3>2, <3>3
  <2> QED BY <1>1, <1>3, <2>3, <2>4, <2>5 DEF NothingIsLeftBehind
<1> QED BY <1>2, <1>5, <1>6

LEMMA CommitInOrder ==
  ASSUME StoreInv, LoadInv', NEW s \in Sessions, Commit(s)
  PROVE  StoreInv'
<1>1. /\ session[s].at = "statements" /\ session' = [session EXCEPT ![s] = Idle]
      /\ rowLock' = [r \in DOMAIN rowLock |-> IF rowLock[r] = s THEN Nobody ELSE rowLock[r]]
      /\ parts' = parts
      /\ content' = [t \in Tables |-> IF t \in Written(session[s].kind) THEN session[s].view[t]
                                                                     ELSE content[t]]
  BY DEF Commit, Finish, At
<1>2. /\ TransactionInv(s) /\ session[s].kind \in {"save", "replace", "contents"}
      /\ session'[s] = Idle /\ \A u \in Sessions \ {s} : session'[u] = session[u]
      /\ rowLock \in [{"workspace", "index"} -> Sessions \cup {Nobody}]
  BY <1>1 DEF StoreInv, LoadInv, TypeOK, SessionInv, At
<1>3. ASSUME NEW u \in Sessions \ {s}, At(u, "statements")' PROVE TransactionInv(u)'
  <2>1. At(u, "statements") /\ TransactionInv(u)
    BY <1>2, <1>3 DEF At, StoreInv
  <2>2. session[s].kind # "replace"
    BY <1>2, <2>1 DEF TransactionInv
  <2>3. content'["repository_indexes"] = content["repository_indexes"]
    BY <1>1, <1>2, <2>2 DEF Written, Tables, StateTables, FactTables
  <2>4. \A r \in {"workspace", "index"} : rowLock[r] = u => rowLock'[r] = u
    BY <1>1, <1>2
  <2> QED BY <1>1, <1>2, <2>1, <2>3, <2>4, Undisturbed
<1>4. ValidWritesAreAccepted'
  BY <1>2, IdleRow DEF StoreInv, ValidWritesAreAccepted, At
<1>5. \A u \in Sessions : At(u, "statements")' => TransactionInv(u)'
  BY <1>2, <1>3, IdleRow DEF At
<1> QED BY <1>4, <1>5, CommitsWhole DEF StoreInv

(* Statements of their own wait for the row lock of the workspace, so no   *)
(* state is being saved meanwhile.                                         *)
LEMMA OwnStatementInOrder ==
  ASSUME StoreInv, LoadInv', UNCHANGED <<parts, session, rowLock>>,
         ContentIsOneWrite', NothingIsLeftBehind',
         \/ rowLock = NoLocks
         \/ content["repository_indexes"] # Absent => content'["repository_indexes"] # Absent
  PROVE  StoreInv'
<1>1. ValidWritesAreAccepted'
  BY DEF StoreInv, ValidWritesAreAccepted, At
<1>2. ASSUME NEW u \in Sessions, At(u, "statements")' PROVE TransactionInv(u)'
  <2>1. At(u, "statements") /\ TransactionInv(u)
    BY <1>2 DEF At, StoreInv
  <2>2. rowLock # NoLocks
    BY <2>1, NobodyIsNoSession DEF TransactionInv, NoLocks
  <2> QED BY <2>1, <2>2, Undisturbed
<1> QED BY <1>1, <1>2 DEF StoreInv

LEMMA DeleteInOrder ==
  ASSUME StoreInv, LoadInv', DeleteWorkspace
  PROVE  StoreInv'
<1>1. /\ content' = Without(content, parts, "workspaces") /\ rowLock = NoLocks
      /\ UNCHANGED <<parts, session, rowLock>>
  BY DEF DeleteWorkspace
<1>2. \A t \in Tables : content'[t] = Absent
  <2>1. Whole(content, Takes("workspaces")) /\ content \in Views
        /\ "workspaces" \in Tables \ {"repository_indexes"}
    BY ContentHolds, Names DEF StoreInv, LoadInv, TypeOK, Takes
  <2>2. Takes("workspaces") = Tables
    BY DEF Takes
  <2> QED BY <1>1, <2>1, <2>2, WithoutIs
<1>3. ContentIsOneWrite'
  <2>1. StateTables \subseteq Tables /\ FactTables \subseteq Tables /\ Absent \in 0..MaxWrites
    BY MaxWritesIsNatural DEF Tables, Absent
  <2> QED BY <1>2, <2>1 DEF ContentIsOneWrite
<1>4. NothingIsLeftBehind'
  BY <1>2, KeysOfTheSchema DEF NothingIsLeftBehind, Refers
<1> QED BY <1>1, <1>3, <1>4, OwnStatementInOrder

LEMMA UpsertInOrder ==
  ASSUME StoreInv, LoadInv', NEW t \in {"repository_indexes", "node_embeddings"}, UpsertRow(t)
  PROVE  StoreInv'
<1>1. /\ content[t] = Absent /\ content["workspaces"] # Absent
      /\ content' = [content EXCEPT ![t] = 1] /\ UNCHANGED <<parts, session, rowLock>>
  BY DEF UpsertRow
<1>2. /\ content'[t] = 1 /\ \A u \in Tables \ {t} : content'[u] = content[u]
      /\ t \in Tables /\ t \notin StateTables \cup FactTables
      /\ StateTables \cup FactTables \subseteq Tables /\ "workspaces" \in StateTables
      /\ ContentIsOneWrite /\ NothingIsLeftBehind
  BY <1>1 DEF StoreInv, LoadInv, TypeOK, Views, Tables, StateTables, FactTables
<1>3. ContentIsOneWrite'
  BY <1>1, <1>2 DEF ContentIsOneWrite, Holds
<1>4. ASSUME NEW fk \in ForeignKeys, Refers(content', parts', fk) PROVE content'[fk.to] # Absent
  <2>1. CASE fk.on = t
    BY <1>1, <1>2, <2>1, KeysOfTheSchema DEF FactTables
  <2>2. CASE fk.on # t
    <3>1. Refers(content, parts, fk) /\ fk.to \in Tables
      BY <1>1, <1>2, <1>4, <2>2, KeysOfTheSchema DEF Refers
    <3> QED BY <1>1, <1>2, <3>1 DEF NothingIsLeftBehind, Absent
  <2> QED BY <2>1, <2>2
<1>5. NothingIsLeftBehind'
  BY <1>1, <1>2, <1>4 DEF NothingIsLeftBehind
<1>6. content["repository_indexes"] # Absent => content'["repository_indexes"] # Absent
  BY <1>1, <1>2 DEF Absent, Tables
<1> QED BY <1>1, <1>3, <1>5, <1>6, OwnStatementInOrder

LEMMA CrashInOrder ==
  ASSUME StoreInv, LoadInv', Crash
  PROVE  StoreInv'
<1>1. UNCHANGED <<content, parts>> /\ \A u \in Sessions : session'[u] = Idle
  BY DEF Crash
<1>2. ContentIsOneWrite' /\ NothingIsLeftBehind'
  BY <1>1, SameContent DEF StoreInv, LoadInv
<1> QED BY <1>1, <1>2, IdleRow DEF StoreInv, ValidWritesAreAccepted, At

(* A step of a session that is not in a transaction, or leaves it.         *)
LEMMA OutsideTransactions ==
  ASSUME StoreInv, LoadInv', NEW s \in Sessions,
         \/ \E kind \in {"read", "mutation"} : BeginLoad(s, kind)
         \/ LoadTable(s) \/ EndLoad(s) \/ FailLoad(s) \/ AnswerRead(s) \/ Rollback(s)
  PROVE  StoreInv'
<1>1. UNCHANGED <<content, parts>>
  BY DEF BeginLoad, LoadTable, EndLoad, FailLoad, AnswerRead, Rollback
<1>2. \A r \in {"workspace", "index"} :
        rowLock[r] = s \/ rowLock[r] = Nobody \/ rowLock'[r] = rowLock[r]
  BY DEF BeginLoad, LoadTable, EndLoad, FailLoad, AnswerRead, Rollback, Finish,
         StoreInv, LoadInv, TypeOK
<1>3. session \in [Sessions -> SessionRows]
  BY DEF StoreInv, LoadInv, TypeOK
<1>4. PICK row : session' = [session EXCEPT ![s] = row] /\ row.at \in {"idle", "load", "loaded"}
  <2>1. CASE \E kind \in {"read", "mutation"} : BeginLoad(s, kind)
    <3>1. PICK kind \in {"read", "mutation"} : BeginLoad(s, kind)
      BY <2>1
    <3>2. [Idle EXCEPT !.at = "load", !.kind = kind, !.todo = LoadOrder].at = "load"
      BY IdleRow
    <3> QED BY <3>1, <3>2 DEF BeginLoad
  <2>2. CASE LoadTable(s)
    <3> DEFINE t == Head(session[s].todo).table
               row1 == [session[s] EXCEPT !.todo = Tail(session[s].todo)]
               row2 == [row1 EXCEPT !.view = [session[s].view EXCEPT ![t] = content[t]]]
    <3>1. session' = [session EXCEPT ![s] = row2] /\ session[s].at = "load"
      BY <1>3, <2>2 DEF LoadTable, At, SessionRows
    <3>2. row2.at = "load"
      BY <1>3, <3>1 DEF SessionRows
    <3> QED BY <3>1, <3>2
  <2>3. CASE EndLoad(s)
    <3>1. [session[s] EXCEPT !.at = "loaded"].at = "loaded"
      BY <1>3 DEF SessionRows
    <3> QED BY <2>3, <3>1 DEF EndLoad
  <2>4. CASE FailLoad(s) \/ AnswerRead(s) \/ Rollback(s)
    BY <2>4, IdleRow DEF FailLoad, AnswerRead, Rollback, Finish
  <2> QED BY <2>1, <2>2, <2>3, <2>4
<1> QED BY <1>1, <1>2, <1>4, OneSession

LEMMA StoreInvInit == Init => StoreInv
<1> SUFFICES ASSUME Init PROVE StoreInv
  OBVIOUS
<1>1. \A t \in Tables : content[t] = Absent
  BY DEF Init, NoView
<1>2. ContentIsOneWrite
  <2>1. StateTables \subseteq Tables /\ FactTables \subseteq Tables /\ Absent \in 0..MaxWrites
    BY MaxWritesIsNatural DEF Tables, Absent
  <2> QED BY <1>1, <2>1 DEF ContentIsOneWrite
<1>3. NothingIsLeftBehind
  BY <1>1, KeysOfTheSchema DEF NothingIsLeftBehind, Refers
<1>4. \A s \in Sessions : session[s].at = "idle"
  BY DEF Init, Idle
<1> QED BY <1>2, <1>3, <1>4, LoadInvInit DEF StoreInv, ValidWritesAreAccepted, At

LEMMA StoreInvNext == StoreInv /\ [Next]_vars => StoreInv'
<1> SUFFICES ASSUME StoreInv, [Next]_vars PROVE StoreInv'
  OBVIOUS
<1>1. LoadInv'
  BY LoadInvNext DEF StoreInv
<1>2. parts \in Seq(SUBSET Tables)
  BY DEF StoreInv, LoadInv, TypeOK
<1>3. ASSUME NEW s \in Sessions, NEW shape \in Shapes, BeginSave(s, shape) PROVE StoreInv'
  <2>1. shape \in SUBSET Tables /\ Len(parts) + 1 \in Nat
    BY <1>2, ShapesAreClosed
  <2>2. /\ Lock(s, {"workspace"}) /\ NewWrite(shape) /\ content' = content
        /\ BeginTransaction(s, "save", Len(parts) + 1)
    BY <1>3 DEF BeginSave
  <2> QED BY <1>1, <2>1, <2>2, BeginsInOrder
<1>4. ASSUME NEW s \in Sessions, NEW shape \in Shapes, BeginReplace(s, shape) PROVE StoreInv'
  <2>1. shape \in SUBSET Tables /\ Len(parts) + 1 \in Nat
    BY <1>2, ShapesAreClosed
  <2>2. /\ Lock(s, {"workspace", "index"}) /\ NewWrite(shape) /\ content' = content
        /\ BeginTransaction(s, "replace", Len(parts) + 1)
    BY <1>4 DEF BeginReplace
  <2> QED BY <1>1, <2>1, <2>2, BeginsInOrder
<1>5. ASSUME NEW s \in Sessions, BeginContents(s) PROVE StoreInv'
  <2>1. FactTables \in SUBSET Tables /\ Len(parts) + 1 \in Nat
    BY <1>2 DEF Tables
  <2>2. /\ Lock(s, {"index"}) /\ NewWrite(FactTables) /\ content' = content
        /\ BeginTransaction(s, "contents", Len(parts) + 1)
        /\ content["repository_indexes"] # Absent
    BY <1>5 DEF BeginContents
  <2> QED BY <1>1, <2>1, <2>2, BeginsInOrder
<1>6. ASSUME NEW s \in Sessions,
             Work(s) \/ \E kind \in {"read", "mutation"} : BeginLoad(s, kind)
      PROVE  StoreInv'
  BY <1>1, <1>6, OutsideTransactions, StatementInOrder, CommitInOrder DEF Work
<1>7. CASE DeleteWorkspace
  BY <1>1, <1>7, DeleteInOrder
<1>8. ASSUME NEW t \in {"repository_indexes", "node_embeddings"}, UpsertRow(t) PROVE StoreInv'
  BY <1>1, <1>8, UpsertInOrder
<1>9. CASE Crash
  BY <1>1, <1>9, CrashInOrder
<1>10. CASE UNCHANGED vars
  <2>1. UNCHANGED <<content, parts, session, rowLock>>
    BY <1>10 DEF vars
  <2>2. ContentIsOneWrite' /\ NothingIsLeftBehind'
    BY <2>1, SameContent DEF StoreInv, LoadInv
  <2> QED BY <1>1, <2>1, <2>2, OwnStatementInOrder
<1> QED BY <1>3, <1>4, <1>5, <1>6, <1>7, <1>8, <1>9, <1>10 DEF Next, Step

(***************************************************************************)
(* The inductive invariant: the database between any two steps, and the    *)
(* view of every transaction between any two of its statements.            *)
(***************************************************************************)
THEOREM InductiveInvariant == Spec => []StoreInv
BY StoreInvInit, StoreInvNext, PTL DEF Spec

(***************************************************************************)
(* The property ContentIsWhole: whatever statement fails, wherever the     *)
(* process stops and whoever else writes, the tables of a workspace hold   *)
(* one saved state, those of its index one replacement of contents, and no *)
(* row is there without those it belongs to or names.                      *)
(***************************************************************************)
THEOREM ContentStaysWhole == Spec => []ContentIsWhole
<1>1. StoreInv => ContentIsWhole
  BY DEF StoreInv, LoadInv, ContentIsWhole
<1> QED BY <1>1, InductiveInvariant, PTL

(***************************************************************************)
(* The property SchemaRefusesNothing: the order of the statements suits    *)
(* the foreign keys, so that no save and no replacement of contents is     *)
(* refused, whatever was stored before, and a workspace can be deleted.    *)
(***************************************************************************)
THEOREM NothingIsRefused == Spec => []SchemaRefusesNothing
<1>1. StoreInv => WorkspaceCanBeDeleted
  <2> SUFFICES ASSUME StoreInv PROVE CanDelete(content, parts, "workspaces")
    BY DEF WorkspaceCanBeDeleted
  <2>1. Whole(content, Takes("workspaces")) /\ "workspaces" \in Tables \ {"repository_indexes"}
    BY ContentHolds, Names DEF StoreInv, LoadInv, Takes
  <2>2. \A u : ~Restricts(u, "workspaces")
    BY RestrictTable
  <2> QED BY <2>1, <2>2, CanDeleteIt
<1>2. StoreInv => SchemaRefusesNothing
  BY <1>1 DEF StoreInv, SchemaRefusesNothing
<1> QED BY <1>2, InductiveInvariant, PTL
=============================================================================
