--------------------- MODULE OperationCoordinatorProofs ---------------------
(* Theorems about OperationCoordinator, for every set of calls, workspaces *)
(* and indexes.                                                            *)
EXTENDS OperationCoordinator, Sequences, TLAPS

(* c has started a run under k, which may have ended. *)
Asked(c, k) ==
  \/ /\ k = Key(c)
     /\ pc[c] \in {"workspaceWait", "workspaceRun", "workspaceLeft",
                   "globalLeft", "done"}
  \/ /\ k = GlobalKey
     /\ Executes(c)
     /\ pc[c] \notin {"new", "rejected"}

(* Only executions visit the places of the global key. *)
PlacesInv ==
  \A c \in Calls :
    ~Executes(c) => pc[c] \in {"new", "workspaceWait", "workspaceRun", "done"}

(* Tickets number the runs of a key in order of arrival, and the runs that *)
(* have ended are those with a ticket below served.                        *)
TicketInv ==
  /\ \A k \in Keys : served[k] <= issued[k]
  /\ \A c \in Calls, k \in Keys :
       Asked(c, k) => ticket[<<c, k>>] < issued[k]
  /\ \A c, d \in Calls, k \in Keys :
       /\ Asked(c, k)
       /\ Asked(d, k)
       /\ ticket[<<c, k>>] = ticket[<<d, k>>]
       => c = d
  /\ \A c \in Calls, k \in Keys :
       Asked(c, k) => (Pending(c, k) <=> served[k] <= ticket[<<c, k>>])

(* The entry of a key in tails is its latest run, if that is pending. *)
TailInv ==
  \A k \in Keys :
    IF tails[k] = NoRun
    THEN served[k] = issued[k]
    ELSE \E c \in Calls : /\ tails[k] = <<c, k>>
                          /\ Pending(c, k)
                          /\ ticket[<<c, k>>] + 1 = issued[k]

(* A run waits for the run with the ticket before its own. *)
ChainInv ==
  \A c \in Calls, k \in Keys :
    Asked(c, k) =>
      IF pred[<<c, k>>] = NoRun
      THEN ticket[<<c, k>>] <= served[k]
      ELSE \E d \in Calls : /\ pred[<<c, k>>] = <<d, k>>
                            /\ Asked(d, k)
                            /\ ticket[<<d, k>>] + 1 = ticket[<<c, k>>]

ReleasedInv ==
  /\ settled \subseteq released
  /\ \A c \in Calls, k \in Keys :
       <<c, k>> \in released => Asked(c, k) /\ ~Pending(c, k)

(* The run that executes under a key is the one whose turn it is. *)
TurnInv ==
  \A c \in Calls, k \in Keys : Inside(c, k) => ticket[<<c, k>>] = served[k]

IInv == /\ TypeOK
        /\ PlacesInv
        /\ TicketInv
        /\ TailInv
        /\ ChainInv
        /\ ReleasedInv
        /\ TurnInv

-----------------------------------------------------------------------------
(* The variables keep the types of their JavaScript counterparts (the map  *)
(* tails, the set exclusiveOperations, the promises of each run).          *)
LEMMA TypeCorrect == Spec => []TypeOK
<1>1. Init => TypeOK
  BY DEF Init, TypeOK, Places, Runs
<1>2. TypeOK /\ [Next]_vars => TypeOK'
  <2> SUFFICES ASSUME TypeOK, [Next]_vars PROVE TypeOK'
    OBVIOUS
  <2> USE DEF TypeOK, Places, Runs, Keys, Ops, history
  <2>1. ASSUME NEW c \in Calls, CallMutation(c) PROVE TypeOK'
    BY <2>1 DEF CallMutation, GoTo, Enqueue, Key
  <2>2. ASSUME NEW c \in Calls, RejectBusy(c) PROVE TypeOK'
    BY <2>2 DEF RejectBusy, GoTo
  <2>3. ASSUME NEW c \in Calls, CallExecution(c) PROVE TypeOK'
    BY <2>3 DEF CallExecution, GoTo, Enqueue, OperationId, Executes
  <2>4. ASSUME NEW c \in Calls, EnterGlobal(c) PROVE TypeOK'
    BY <2>4 DEF EnterGlobal, GoTo, Enqueue, Key
  <2>5. ASSUME NEW c \in Calls, EnterWorkspace(c) PROVE TypeOK'
    BY <2>5 DEF EnterWorkspace, GoTo
  <2>6. ASSUME NEW c \in Calls, LeaveWorkspace(c) PROVE TypeOK'
    BY <2>6 DEF LeaveWorkspace, GoTo, Leave, Key
  <2>7. ASSUME NEW c \in Calls, LeaveGlobal(c) PROVE TypeOK'
    BY <2>7 DEF LeaveGlobal, GoTo, Leave
  <2>8. ASSUME NEW c \in Calls, ForgetExclusive(c) PROVE TypeOK'
    BY <2>8 DEF ForgetExclusive, GoTo
  <2>9. ASSUME NEW r \in Runs, SettleTail(r) PROVE TypeOK'
    BY <2>9 DEF SettleTail
  <2>10. CASE UNCHANGED vars
    BY <2>10 DEF vars
  <2> QED
    BY <2>1, <2>2, <2>3, <2>4, <2>5, <2>6, <2>7, <2>8, <2>9, <2>10
       DEF Next, CallStep, AllReturned
<1> QED
  BY <1>1, <1>2, PTL DEF Spec

-----------------------------------------------------------------------------
(* Starting a run under k preserves the invariants about the queues, if it *)
(* is the only change to who asked for what.                               *)
LEMMA EnqueueKeepsQueues ==
  ASSUME TypeOK, TypeOK', TicketInv, TailInv, ChainInv, ReleasedInv,
         NEW c \in Calls, NEW k \in Keys,
         ~Asked(c, k), Enqueue(c, k), UNCHANGED <<released, settled>>,
         \A d \in Calls, l \in Keys :
           /\ Asked(d, l)' <=> (Asked(d, l) \/ (d = c /\ l = k))
           /\ Pending(d, l)' <=> (Pending(d, l) \/ (d = c /\ l = k)),
         \A d \in Calls, l \in Keys : Pending(d, l) => Asked(d, l)
  PROVE  TicketInv' /\ TailInv' /\ ChainInv' /\ ReleasedInv'
<1> USE DEF Enqueue
<1>1. \A d \in Calls, l \in Keys : <<d, l>> \in Runs
  BY DEF Runs
<1>2. /\ ticket'[<<c, k>>] = issued[k]
      /\ \A d \in Calls, l \in Keys :
           ~(d = c /\ l = k) => ticket'[<<d, l>>] = ticket[<<d, l>>]
      /\ issued'[k] = issued[k] + 1
      /\ \A l \in Keys : l # k => issued'[l] = issued[l]
      /\ issued \in [Keys -> Nat] /\ served \in [Keys -> Nat]
      /\ ticket \in [Runs -> Nat]
  BY <1>1 DEF TypeOK
<1>3. TicketInv'
  <2>1. \A l \in Keys : (served[l] <= issued[l])'
    BY <1>2 DEF TicketInv
  <2>2. \A d \in Calls, l \in Keys :
          (Asked(d, l) => ticket[<<d, l>>] < issued[l])'
    BY <1>1, <1>2 DEF TicketInv
  <2>3. \A d, e \in Calls, l \in Keys :
          (/\ Asked(d, l)
           /\ Asked(e, l)
           /\ ticket[<<d, l>>] = ticket[<<e, l>>]
           => d = e)'
    BY <1>1, <1>2 DEF TicketInv
  <2>4. \A d \in Calls, l \in Keys :
          (Asked(d, l) => (Pending(d, l) <=> served[l] <= ticket[<<d, l>>]))'
    BY <1>1, <1>2 DEF TicketInv
  <2> QED
    BY <2>1, <2>2, <2>3, <2>4 DEF TicketInv
<1>4. TailInv'
  <2> SUFFICES ASSUME NEW l \in Keys
               PROVE  (IF tails[l] = NoRun
                       THEN served[l] = issued[l]
                       ELSE \E d \in Calls : /\ tails[l] = <<d, l>>
                                             /\ Pending(d, l)
                                             /\ ticket[<<d, l>>] + 1 = issued[l])'
    BY DEF TailInv
  <2>1. CASE l = k
    <3>1. tails'[k] = <<c, k>> /\ <<c, k>> # NoRun
      BY <1>1, DistinctNames DEF TypeOK
    <3> QED
      BY <2>1, <3>1, <1>2
  <2>2. CASE l # k
    <3>1. tails'[l] = tails[l]
      BY <2>2 DEF TypeOK
    <3>2. served'[l] = served[l] /\ issued'[l] = issued[l]
      BY <2>2, <1>2
    <3>3. CASE tails[l] = NoRun
      BY <3>1, <3>2, <3>3 DEF TailInv
    <3>4. CASE tails[l] # NoRun
      <4>1. PICK d \in Calls : /\ tails[l] = <<d, l>>
                               /\ Pending(d, l)
                               /\ ticket[<<d, l>>] + 1 = issued[l]
        BY <3>4 DEF TailInv
      <4>2. Pending(d, l)' /\ ticket'[<<d, l>>] = ticket[<<d, l>>]
        BY <2>2, <4>1, <1>2
      <4> QED
        BY <3>1, <3>2, <3>4, <4>1, <4>2
    <3> QED
      BY <3>3, <3>4
  <2> QED
    BY <2>1, <2>2
<1>5. ChainInv'
  <2> SUFFICES ASSUME NEW d \in Calls, NEW l \in Keys, Asked(d, l)'
               PROVE  (IF pred[<<d, l>>] = NoRun
                       THEN ticket[<<d, l>>] <= served[l]
                       ELSE \E e \in Calls :
                              /\ pred[<<d, l>>] = <<e, l>>
                              /\ Asked(e, l)
                              /\ ticket[<<e, l>>] + 1 = ticket[<<d, l>>])'
    BY DEF ChainInv
  <2>1. CASE d = c /\ l = k
    <3>1. pred'[<<c, k>>] = tails[k]
      BY <1>1 DEF TypeOK
    <3>2. CASE tails[k] = NoRun
      BY <2>1, <3>1, <3>2, <1>2 DEF TailInv
    <3>3. CASE tails[k] # NoRun
      <4>1. PICK e \in Calls : /\ tails[k] = <<e, k>>
                               /\ Pending(e, k)
                               /\ ticket[<<e, k>>] + 1 = issued[k]
        BY <3>3 DEF TailInv
      <4>2. e # c /\ Asked(e, k)'
        BY <4>1
      <4> QED
        BY <2>1, <3>1, <3>3, <4>1, <4>2, <1>2
    <3> QED
      BY <3>2, <3>3
  <2>2. CASE ~(d = c /\ l = k)
    <3>1. pred'[<<d, l>>] = pred[<<d, l>>] /\ Asked(d, l)
      BY <2>2, <1>1 DEF TypeOK
    <3>2. CASE pred[<<d, l>>] = NoRun
      BY <2>2, <3>1, <3>2, <1>2 DEF ChainInv
    <3>3. CASE pred[<<d, l>>] # NoRun
      <4>1. PICK e \in Calls : /\ pred[<<d, l>>] = <<e, l>>
                               /\ Asked(e, l)
                               /\ ticket[<<e, l>>] + 1 = ticket[<<d, l>>]
        BY <3>1, <3>3 DEF ChainInv
      <4>2. ~(e = c /\ l = k) /\ Asked(e, l)'
        BY <4>1
      <4> QED
        BY <2>2, <3>1, <3>3, <4>1, <4>2, <1>2
    <3> QED
      BY <3>2, <3>3
  <2> QED
    BY <2>1, <2>2
<1>6. ReleasedInv'
  BY DEF ReleasedInv
<1> QED
  BY <1>3, <1>4, <1>5, <1>6

(* The run whose turn it is ends: the next ticket of the key is served.    *)
LEMMA LeaveKeepsQueues ==
  ASSUME TypeOK, TypeOK', TicketInv, TailInv, ChainInv, ReleasedInv,
         NEW c \in Calls, NEW k \in Keys,
         Pending(c, k), ticket[<<c, k>>] = served[k],
         Leave(c, k), UNCHANGED settled,
         \A d \in Calls, l \in Keys :
           /\ Asked(d, l)' <=> Asked(d, l)
           /\ Pending(d, l)' <=> (Pending(d, l) /\ ~(d = c /\ l = k)),
         \A d \in Calls, l \in Keys : Pending(d, l) => Asked(d, l)
  PROVE  TicketInv' /\ TailInv' /\ ChainInv' /\ ReleasedInv'
<1> USE DEF Leave
<1>1. \A d \in Calls, l \in Keys : <<d, l>> \in Runs
  BY DEF Runs
<1>2. /\ served'[k] = served[k] + 1
      /\ \A l \in Keys : l # k => served'[l] = served[l]
      /\ issued \in [Keys -> Nat] /\ served \in [Keys -> Nat]
      /\ ticket \in [Runs -> Nat]
  BY DEF TypeOK
<1>3. TicketInv'
  <2>1. \A l \in Keys : (served[l] <= issued[l])'
    BY <1>1, <1>2 DEF TicketInv
  <2>2. \A d \in Calls, l \in Keys :
          (Asked(d, l) => ticket[<<d, l>>] < issued[l])'
    BY DEF TicketInv
  <2>3. \A d, e \in Calls, l \in Keys :
          (/\ Asked(d, l)
           /\ Asked(e, l)
           /\ ticket[<<d, l>>] = ticket[<<e, l>>]
           => d = e)'
    BY DEF TicketInv
  <2>4. ASSUME NEW d \in Calls, NEW l \in Keys, Asked(d, l)
        PROVE  Pending(d, l)' <=> served'[l] <= ticket[<<d, l>>]
    <3>1. CASE l = k
      <4>1. ticket[<<d, k>>] = ticket[<<c, k>>] => d = c
        BY <2>4, <3>1 DEF TicketInv
      <4>2. Pending(d, k) <=> served[k] <= ticket[<<d, k>>]
        BY <2>4, <3>1 DEF TicketInv
      <4>3. ticket[<<d, k>>] \in Nat /\ served[k] \in Nat
        BY <1>1, <1>2
      <4> QED
        BY <3>1, <4>1, <4>2, <4>3, <1>2
    <3>2. CASE l # k
      BY <2>4, <3>2, <1>2 DEF TicketInv
    <3> QED
      BY <3>1, <3>2
  <2> QED
    BY <2>1, <2>2, <2>3, <2>4 DEF TicketInv
<1>4. TailInv'
  <2> SUFFICES ASSUME NEW l \in Keys
               PROVE  (IF tails[l] = NoRun
                       THEN served[l] = issued[l]
                       ELSE \E d \in Calls : /\ tails[l] = <<d, l>>
                                             /\ Pending(d, l)
                                             /\ ticket[<<d, l>>] + 1 = issued[l])'
    BY DEF TailInv
  <2>1. CASE l = k
    <3>1. tails[k] # NoRun
      BY <1>1, <1>2 DEF TailInv, TicketInv
    <3>2. PICK d \in Calls : /\ tails[k] = <<d, k>>
                             /\ Pending(d, k)
                             /\ ticket[<<d, k>>] + 1 = issued[k]
      BY <3>1 DEF TailInv
    <3>3. CASE d = c
      <4>1. tails'[k] = NoRun
        BY <3>2, <3>3 DEF TypeOK
      <4> QED
        BY <2>1, <3>2, <3>3, <4>1, <1>2
    <3>4. CASE d # c
      <4>1. tails' = tails /\ Pending(d, k)'
        BY <3>2, <3>4
      <4> QED
        BY <2>1, <3>1, <3>2, <4>1
    <3> QED
      BY <3>3, <3>4
  <2>2. CASE l # k
    <3>1. tails'[l] = tails[l] /\ served'[l] = served[l] /\ issued' = issued
      BY <2>2, <1>2 DEF TypeOK
    <3>2. CASE tails[l] = NoRun
      BY <3>1, <3>2 DEF TailInv
    <3>3. CASE tails[l] # NoRun
      <4>1. PICK d \in Calls : /\ tails[l] = <<d, l>>
                               /\ Pending(d, l)
                               /\ ticket[<<d, l>>] + 1 = issued[l]
        BY <3>3 DEF TailInv
      <4> QED
        BY <2>2, <3>1, <3>3, <4>1
    <3> QED
      BY <3>2, <3>3
  <2> QED
    BY <2>1, <2>2
<1>5. ChainInv'
  <2>1. ASSUME NEW d \in Calls, NEW l \in Keys, Asked(d, l)
        PROVE  IF pred[<<d, l>>] = NoRun
               THEN ticket[<<d, l>>] <= served'[l]
               ELSE \E e \in Calls : /\ pred[<<d, l>>] = <<e, l>>
                                     /\ Asked(e, l)
                                     /\ ticket[<<e, l>>] + 1 = ticket[<<d, l>>]
    <3>1. ticket[<<d, l>>] \in Nat /\ served[l] \in Nat /\ served[l] <= served'[l]
      BY <1>1, <1>2
    <3> QED
      BY <2>1, <3>1 DEF ChainInv
  <2> HIDE DEF Leave
  <2>2. pred' = pred /\ ticket' = ticket
    BY DEF Leave
  <2>3. SUFFICES ASSUME NEW d \in Calls, NEW l \in Keys, Asked(d, l)'
                 PROVE  (IF pred[<<d, l>>] = NoRun
                         THEN ticket[<<d, l>>] <= served[l]
                         ELSE \E e \in Calls :
                                /\ pred[<<d, l>>] = <<e, l>>
                                /\ Asked(e, l)
                                /\ ticket[<<e, l>>] + 1 = ticket[<<d, l>>])'
    BY Zenon DEF ChainInv
  <2> QED
    BY <2>1, <2>2, <2>3
<1>6. ReleasedInv'
  <2>1. ASSUME NEW d \in Calls, NEW l \in Keys, <<d, l>> \in released'
        PROVE  Asked(d, l)' /\ ~Pending(d, l)'
    <3>1. <<d, l>> \in released \/ (d = c /\ l = k)
      BY <2>1
    <3> QED
      BY <3>1 DEF ReleasedInv
  <2> QED
    BY <2>1 DEF ReleasedInv
<1> QED
  BY <1>3, <1>4, <1>5, <1>6

(* A step that starts and ends no run. *)
LEMMA QuietStepKeepsQueues ==
  ASSUME TicketInv, TailInv, ChainInv, ReleasedInv,
         UNCHANGED <<tails, pred, released, ticket, issued, served>>,
         settled' \subseteq released,
         \A d \in Calls, l \in Keys :
           /\ Asked(d, l)' <=> Asked(d, l)
           /\ Pending(d, l)' <=> Pending(d, l)
  PROVE  TicketInv' /\ TailInv' /\ ChainInv' /\ ReleasedInv'
<1>1. TicketInv'
  BY DEF TicketInv
<1>2. TailInv'
  BY DEF TailInv
<1>3. ChainInv'
  BY DEF ChainInv
<1>4. ReleasedInv'
  BY DEF ReleasedInv
<1> QED
  BY <1>1, <1>2, <1>3, <1>4

-----------------------------------------------------------------------------
(* Before any call is made, the queues of the keys are consistent.          *)
LEMMA InitInductive == Init => IInv
<1> SUFFICES ASSUME Init PROVE IInv
  OBVIOUS
<1>1. TypeOK
  BY DEF Init, TypeOK, Places, Runs
<1>2. \A c \in Calls, k \in Keys :
        ~Asked(c, k) /\ ~Pending(c, k) /\ ~Inside(c, k)
  BY DEF Init, Asked, Pending, Inside
<1>3. TicketInv /\ TailInv /\ ChainInv /\ TurnInv
  BY <1>2 DEF Init, TicketInv, TailInv, ChainInv, TurnInv
<1>4. PlacesInv /\ ReleasedInv
  BY DEF Init, PlacesInv, ReleasedInv
<1> QED
  BY <1>1, <1>3, <1>4 DEF IInv

(* Who has asked for a key, and who executes under it, follows from pc.    *)
LEMMA PlacesMeaning ==
  \A c \in Calls, k \in Keys :
    /\ Inside(c, k) => Pending(c, k)
    /\ Pending(c, k) => Asked(c, k)
BY DEF Inside, Pending, Asked

(* A run whose predecessor's tail has settled is the one whose turn it is. *)
LEMMA PredecessorEnded ==
  ASSUME TypeOK, TicketInv, ChainInv, ReleasedInv,
         NEW c \in Calls, NEW k \in Keys, Pending(c, k), CanEnter(c, k)
  PROVE  ticket[<<c, k>>] = served[k]
<1>1. /\ \A d \in Calls : <<d, k>> \in Runs /\ ticket[<<d, k>>] \in Nat
      /\ served[k] \in Nat
  BY DEF TypeOK, Runs
<1>2. Asked(c, k)
  BY PlacesMeaning
<1>3. served[k] <= ticket[<<c, k>>]
  BY <1>2 DEF TicketInv
<1>4. CASE pred[<<c, k>>] = NoRun
  BY <1>1, <1>2, <1>3, <1>4 DEF ChainInv
<1>5. CASE pred[<<c, k>>] # NoRun
  <2>1. PICK d \in Calls : /\ pred[<<c, k>>] = <<d, k>>
                           /\ Asked(d, k)
                           /\ ticket[<<d, k>>] + 1 = ticket[<<c, k>>]
    BY <1>2, <1>5 DEF ChainInv
  <2>2. <<d, k>> \in released
    BY <1>5, <2>1 DEF CanEnter, ReleasedInv
  <2>3. ~Pending(d, k)
    BY <2>2 DEF ReleasedInv
  <2>4. ~(served[k] <= ticket[<<d, k>>])
    BY <2>1, <2>3 DEF TicketInv
  <2> QED
    BY <1>1, <1>3, <2>1, <2>4
<1> QED
  BY <1>4, <1>5

(* When the call whose turn it was has left, nobody executes under its key *)
(* and nobody's turn has changed under another.                            *)
LEMMA TurnPasses ==
  ASSUME TypeOK, TicketInv, TurnInv,
         NEW c \in Calls, NEW k \in Keys, Leave(c, k), Inside(c, k),
         \A d \in Calls, l \in Keys :
           Inside(d, l)' <=> (Inside(d, l) /\ ~(d = c /\ l = k))
  PROVE  TurnInv'
<1>1. ticket[<<c, k>>] = served[k] /\ Asked(c, k)
  BY PlacesMeaning DEF TurnInv
<1>2. ASSUME NEW d \in Calls, NEW l \in Keys, Inside(d, l), ~(d = c /\ l = k)
      PROVE  ticket'[<<d, l>>] = served'[l]
  <2>1. ticket[<<d, l>>] = served[l] /\ Asked(d, l)
    BY <1>2, PlacesMeaning DEF TurnInv
  <2>2. l # k
    BY <1>1, <1>2, <2>1 DEF TicketInv
  <2> QED
    BY <2>1, <2>2 DEF Leave, TypeOK
<1> QED
  BY <1>2 DEF TurnInv

(* Every step of run, runExclusive and of a settling promise keeps them so. *)
LEMMA NextInductive == IInv /\ TypeOK' /\ [Next]_vars => IInv'
<1> SUFFICES ASSUME IInv, TypeOK', [Next]_vars PROVE IInv'
  OBVIOUS
<1> USE PlacesMeaning DEF IInv
<1>1. ASSUME NEW c \in Calls, CallMutation(c) PROVE IInv'
  <2> USE <1>1 DEF CallMutation, GoTo
  <2>1. \A d \in Calls : Executes(d)' = Executes(d) /\ Key(d)' = Key(d)
    BY DEF Executes, Key
  <2>2. Key(c) \in Keys /\ ~Asked(c, Key(c))
    BY DEF TypeOK, Ops, Keys, Key, Asked
  <2>3. \A d \in Calls, l \in Keys :
          /\ Asked(d, l)' <=> (Asked(d, l) \/ (d = c /\ l = Key(c)))
          /\ Pending(d, l)' <=> (Pending(d, l) \/ (d = c /\ l = Key(c)))
          /\ Inside(d, l)' <=> Inside(d, l)
    BY <2>1, DistinctNames DEF TypeOK, Asked, Pending, Inside, Keys
  <2>4. TicketInv' /\ TailInv' /\ ChainInv' /\ ReleasedInv'
    BY <2>2, <2>3, EnqueueKeepsQueues
  <2>5. PlacesInv'
    BY <2>1 DEF PlacesInv, TypeOK
  <2>6. TurnInv'
    BY <2>2, <2>3 DEF TurnInv, Enqueue, TypeOK, Runs
  <2> QED
    BY <2>4, <2>5, <2>6
<1>2. ASSUME NEW c \in Calls, RejectBusy(c) PROVE IInv'
  <2> USE <1>2 DEF RejectBusy, GoTo, history
  <2>1. \A d \in Calls : Executes(d)' = Executes(d) /\ Key(d)' = Key(d)
    BY DEF Executes, Key
  <2>2. \A d \in Calls, l \in Keys :
          /\ Asked(d, l)' <=> Asked(d, l)
          /\ Pending(d, l)' <=> Pending(d, l)
          /\ Inside(d, l)' <=> Inside(d, l)
    BY <2>1 DEF TypeOK, Asked, Pending, Inside
  <2>3. TicketInv' /\ TailInv' /\ ChainInv' /\ ReleasedInv'
    BY <2>2, QuietStepKeepsQueues DEF ReleasedInv
  <2>4. PlacesInv' /\ TurnInv'
    BY <2>1, <2>2 DEF PlacesInv, TurnInv, TypeOK
  <2> QED
    BY <2>3, <2>4
<1>3. ASSUME NEW c \in Calls, CallExecution(c) PROVE IInv'
  <2> USE <1>3 DEF CallExecution, GoTo
  <2>1. \A d \in Calls : Executes(d)' = Executes(d) /\ Key(d)' = Key(d)
    BY DEF Executes, Key
  <2>2. GlobalKey \in Keys /\ GlobalKey # Key(c) /\ ~Asked(c, GlobalKey)
    BY DistinctNames DEF TypeOK, Ops, Keys, Key, Asked
  <2>3. \A d \in Calls, l \in Keys :
          /\ Asked(d, l)' <=> (Asked(d, l) \/ (d = c /\ l = GlobalKey))
          /\ Pending(d, l)' <=> (Pending(d, l) \/ (d = c /\ l = GlobalKey))
          /\ Inside(d, l)' <=> Inside(d, l)
    BY <2>1, <2>2 DEF TypeOK, Asked, Pending, Inside
  <2>4. TicketInv' /\ TailInv' /\ ChainInv' /\ ReleasedInv'
    BY <2>2, <2>3, EnqueueKeepsQueues
  <2>5. PlacesInv'
    BY <2>1 DEF PlacesInv, TypeOK
  <2>6. TurnInv'
    BY <2>2, <2>3 DEF TurnInv, Enqueue, TypeOK, Runs
  <2> QED
    BY <2>4, <2>5, <2>6
<1>4. ASSUME NEW c \in Calls, EnterGlobal(c) PROVE IInv'
  <2> USE <1>4 DEF EnterGlobal, GoTo
  <2>1. \A d \in Calls : Executes(d)' = Executes(d) /\ Key(d)' = Key(d)
    BY DEF Executes, Key
  <2>2. /\ Key(c) \in Keys /\ GlobalKey \in Keys /\ GlobalKey # Key(c)
        /\ Executes(c) /\ ~Asked(c, Key(c)) /\ Pending(c, GlobalKey)
    BY DistinctNames DEF PlacesInv, TypeOK, Ops, Keys, Key, Asked, Pending
  <2>3. \A d \in Calls, l \in Keys :
          /\ Asked(d, l)' <=> (Asked(d, l) \/ (d = c /\ l = Key(c)))
          /\ Pending(d, l)' <=> (Pending(d, l) \/ (d = c /\ l = Key(c)))
          /\ Inside(d, l)' <=> (Inside(d, l) \/ (d = c /\ l = GlobalKey))
    BY <2>1, <2>2 DEF TypeOK, Asked, Pending, Inside
  <2>4. TicketInv' /\ TailInv' /\ ChainInv' /\ ReleasedInv'
    BY <2>2, <2>3, EnqueueKeepsQueues
  <2>5. PlacesInv'
    BY <2>1, <2>2 DEF PlacesInv, TypeOK
  <2>6. ticket[<<c, GlobalKey>>] = served[GlobalKey]
    BY <2>2, PredecessorEnded DEF Runs
  <2>7. ASSUME NEW d \in Calls, NEW l \in Keys, Inside(d, l)'
        PROVE  ticket'[<<d, l>>] = served'[l]
    <3>1. ~(d = c /\ l = Key(c))
      BY <2>2, <2>3, <2>7 DEF Inside
    <3>2. ticket'[<<d, l>>] = ticket[<<d, l>>] /\ served' = served
      BY <3>1 DEF Enqueue, TypeOK, Runs
    <3> QED
      BY <2>3, <2>6, <2>7, <3>2 DEF TurnInv
  <2>8. TurnInv'
    BY <2>7 DEF TurnInv
  <2> QED
    BY <2>4, <2>5, <2>8
<1>5. ASSUME NEW c \in Calls, EnterWorkspace(c) PROVE IInv'
  <2> USE <1>5 DEF EnterWorkspace, GoTo, history
  <2>1. \A d \in Calls : Executes(d)' = Executes(d) /\ Key(d)' = Key(d)
    BY DEF Executes, Key
  <2>2. Key(c) \in Keys /\ GlobalKey # Key(c) /\ Pending(c, Key(c))
    BY DistinctNames DEF TypeOK, Ops, Keys, Key, Pending
  <2>3. \A d \in Calls, l \in Keys :
          /\ Asked(d, l)' <=> Asked(d, l)
          /\ Pending(d, l)' <=> Pending(d, l)
          /\ Inside(d, l)' <=> (Inside(d, l) \/ (d = c /\ l = Key(c)))
    BY <2>1, <2>2 DEF TypeOK, Asked, Pending, Inside
  <2>4. TicketInv' /\ TailInv' /\ ChainInv' /\ ReleasedInv'
    BY <2>3, QuietStepKeepsQueues DEF ReleasedInv
  <2>5. ticket[<<c, Key(c)>>] = served[Key(c)]
    BY <2>2, PredecessorEnded
  <2>6. PlacesInv' /\ TurnInv'
    BY <2>1, <2>3, <2>5 DEF PlacesInv, TurnInv, TypeOK
  <2> QED
    BY <2>4, <2>6
<1>6. ASSUME NEW c \in Calls, LeaveWorkspace(c) PROVE IInv'
  <2> USE <1>6 DEF LeaveWorkspace, GoTo
  <2>1. \A d \in Calls : Executes(d)' = Executes(d) /\ Key(d)' = Key(d)
    BY DEF Executes, Key
  <2>2. Key(c) \in Keys /\ GlobalKey # Key(c) /\ Inside(c, Key(c))
    BY DistinctNames DEF TypeOK, Ops, Keys, Key, Inside
  <2>3. \A d \in Calls, l \in Keys :
          /\ Asked(d, l)' <=> Asked(d, l)
          /\ Pending(d, l)' <=> (Pending(d, l) /\ ~(d = c /\ l = Key(c)))
          /\ Inside(d, l)' <=> (Inside(d, l) /\ ~(d = c /\ l = Key(c)))
    BY <2>1, <2>2 DEF TypeOK, Asked, Pending, Inside
  <2>4. ticket[<<c, Key(c)>>] = served[Key(c)]
    BY <2>2 DEF TurnInv
  <2>5. TicketInv' /\ TailInv' /\ ChainInv' /\ ReleasedInv'
    BY <2>2, <2>3, <2>4, LeaveKeepsQueues
  <2>6. PlacesInv'
    BY <2>1 DEF PlacesInv, TypeOK
  <2>7. TurnInv'
    BY <2>2, <2>3, <2>4, TurnPasses
  <2> QED
    BY <2>5, <2>6, <2>7
<1>7. ASSUME NEW c \in Calls, LeaveGlobal(c) PROVE IInv'
  <2> USE <1>7 DEF LeaveGlobal, GoTo
  <2>1. \A d \in Calls : Executes(d)' = Executes(d) /\ Key(d)' = Key(d)
    BY DEF Executes, Key
  <2>2. /\ GlobalKey \in Keys /\ GlobalKey # Key(c) /\ Executes(c)
        /\ Inside(c, GlobalKey)
    BY DistinctNames DEF PlacesInv, TypeOK, Ops, Keys, Key, Inside
  <2>3. \A d \in Calls, l \in Keys :
          /\ Asked(d, l)' <=> Asked(d, l)
          /\ Pending(d, l)' <=> (Pending(d, l) /\ ~(d = c /\ l = GlobalKey))
          /\ Inside(d, l)' <=> (Inside(d, l) /\ ~(d = c /\ l = GlobalKey))
    BY <2>1, <2>2 DEF TypeOK, Asked, Pending, Inside
  <2>4. ticket[<<c, GlobalKey>>] = served[GlobalKey]
    BY <2>2 DEF TurnInv
  <2>5. TicketInv' /\ TailInv' /\ ChainInv' /\ ReleasedInv'
    BY <2>2, <2>3, <2>4, LeaveKeepsQueues
  <2>6. PlacesInv'
    BY <2>1, <2>2 DEF PlacesInv, TypeOK
  <2>7. TurnInv'
    BY <2>2, <2>3, <2>4, TurnPasses
  <2> QED
    BY <2>5, <2>6, <2>7
<1>8. ASSUME NEW c \in Calls, ForgetExclusive(c) PROVE IInv'
  <2> USE <1>8 DEF ForgetExclusive, GoTo, history
  <2>1. \A d \in Calls : Executes(d)' = Executes(d) /\ Key(d)' = Key(d)
    BY DEF Executes, Key
  <2>2. Executes(c)
    BY DEF PlacesInv
  <2>3. \A d \in Calls, l \in Keys :
          /\ Asked(d, l)' <=> Asked(d, l)
          /\ Pending(d, l)' <=> Pending(d, l)
          /\ Inside(d, l)' <=> Inside(d, l)
    BY <2>1, <2>2 DEF TypeOK, Asked, Pending, Inside
  <2>4. TicketInv' /\ TailInv' /\ ChainInv' /\ ReleasedInv'
    BY <2>3, QuietStepKeepsQueues DEF ReleasedInv
  <2>5. PlacesInv' /\ TurnInv'
    BY <2>1, <2>2, <2>3 DEF PlacesInv, TurnInv, TypeOK
  <2> QED
    BY <2>4, <2>5
<1>9. ASSUME NEW r \in Runs, SettleTail(r) PROVE IInv'
  <2> USE <1>9 DEF SettleTail, history
  <2>1. \A d \in Calls, l \in Keys :
          /\ Asked(d, l)' <=> Asked(d, l)
          /\ Pending(d, l)' <=> Pending(d, l)
          /\ Inside(d, l)' <=> Inside(d, l)
    BY DEF Asked, Pending, Inside, Executes, Key
  <2>2. settled' \subseteq released
    BY DEF ReleasedInv
  <2>3. TicketInv' /\ TailInv' /\ ChainInv' /\ ReleasedInv'
    BY <2>1, <2>2, QuietStepKeepsQueues
  <2>4. PlacesInv' /\ TurnInv'
    BY <2>1 DEF PlacesInv, TurnInv, Executes
  <2> QED
    BY <2>3, <2>4
<1>10. CASE UNCHANGED vars
  <2> USE <1>10 DEF vars
  <2>1. \A d \in Calls, l \in Keys :
          /\ Asked(d, l)' <=> Asked(d, l)
          /\ Pending(d, l)' <=> Pending(d, l)
          /\ Inside(d, l)' <=> Inside(d, l)
    BY DEF Asked, Pending, Inside, Executes, Key
  <2>2. TicketInv' /\ TailInv' /\ ChainInv' /\ ReleasedInv'
    BY <2>1, QuietStepKeepsQueues DEF ReleasedInv
  <2>3. PlacesInv' /\ TurnInv'
    BY <2>1 DEF PlacesInv, TurnInv, Executes
  <2> QED
    BY <2>2, <2>3
<1> QED
  BY <1>1, <1>2, <1>3, <1>4, <1>5, <1>6, <1>7, <1>8, <1>9, <1>10
     DEF Next, CallStep, AllReturned

(* The queues of the keys are consistent in every reachable state: each    *)
(* run waits for the tail of the run that asked just before it, and the    *)
(* runs that may have entered are those whose ticket is served.            *)
THEOREM InductiveInvariant == Spec => []IInv
<1>1. TypeOK /\ IInv /\ [Next]_vars /\ TypeOK' => IInv'
  BY NextInductive
<1> QED
  BY <1>1, InitInductive, TypeCorrect, PTL DEF Spec

-----------------------------------------------------------------------------
(* Whoever executes under a key asked before everyone who is waiting.      *)
THEOREM ArrivalOrder == Spec => []FirstComeFirstServed
<1>1. IInv => FirstComeFirstServed
  BY PlacesMeaning DEF IInv, FirstComeFirstServed, TicketInv, TurnInv
<1> QED
  BY <1>1, InductiveInvariant, PTL

(* No two calls execute under the same key.                                *)
THEOREM Exclusion == Spec => []MutualExclusion
<1>1. IInv => MutualExclusion
  BY PlacesMeaning DEF IInv, MutualExclusion, TicketInv, TurnInv
<1> QED
  BY <1>1, InductiveInvariant, PTL

(* tails has an entry for a key exactly while a call of the key has not    *)
(* left, and it is the latest one.                                         *)
THEOREM NoLeakedTail == Spec => []TailIsLatestPending
<1>1. ASSUME IInv, NEW k \in Keys, tails[k] = NoRun, NEW c \in Calls
      PROVE  ~Pending(c, k)
  <2>1. /\ served[k] = issued[k] /\ served[k] \in Nat
        /\ ticket[<<c, k>>] \in Nat
    BY <1>1 DEF IInv, TailInv, TypeOK, Runs
  <2> QED
    BY <1>1, <2>1, PlacesMeaning DEF IInv, TicketInv
<1>2. ASSUME IInv, NEW k \in Keys, tails[k] # NoRun
      PROVE  \E c \in Calls :
               /\ tails[k] = <<c, k>>
               /\ Pending(c, k)
               /\ \A d \in Calls :
                    Pending(d, k) => ticket[<<d, k>>] <= ticket[<<c, k>>]
  <2>1. PICK c \in Calls : /\ tails[k] = <<c, k>>
                           /\ Pending(c, k)
                           /\ ticket[<<c, k>>] + 1 = issued[k]
    BY <1>2 DEF IInv, TailInv
  <2>2. ASSUME NEW d \in Calls, Pending(d, k)
        PROVE  ticket[<<d, k>>] <= ticket[<<c, k>>]
    <3>1. ticket[<<d, k>>] < issued[k]
      BY <1>2, <2>2, PlacesMeaning DEF IInv, TicketInv
    <3>2. ticket[<<d, k>>] \in Nat /\ ticket[<<c, k>>] \in Nat
      BY <1>2 DEF IInv, TypeOK, Runs
    <3> QED
      BY <2>1, <3>1, <3>2
  <2> QED
    BY <2>1, <2>2
<1>3. IInv => TailIsLatestPending
  BY <1>1, <1>2 DEF TailIsLatestPending
<1> QED
  BY <1>3, InductiveInvariant, PTL

-----------------------------------------------------------------------------
(* An operation id is refused exactly while its one execution is under way *)
(* (runExclusive and its finally block).                                   *)
THEOREM BusyIsRunning == Spec => []ExclusiveIdsAreRunning
<1>1. Init => ExclusiveIdsAreRunning
  BY DEF Init, ExclusiveIdsAreRunning, Running
<1>2. IInv /\ ExclusiveIdsAreRunning /\ [Next]_vars => ExclusiveIdsAreRunning'
  <2> SUFFICES ASSUME TypeOK, PlacesInv, ExclusiveIdsAreRunning, [Next]_vars
               PROVE  ExclusiveIdsAreRunning'
    BY DEF IInv
  <2> USE DEF TypeOK
  <2>1. op' = op
    BY DEF Next, CallStep, CallMutation, RejectBusy, CallExecution, EnterGlobal,
           EnterWorkspace, LeaveWorkspace, LeaveGlobal, ForgetExclusive, GoTo,
           SettleTail, AllReturned, vars
  <2>2. \A d \in Calls : /\ Executes(d)' = Executes(d)
                         /\ OperationId(d)' = OperationId(d)
    BY <2>1 DEF Executes, OperationId
  <2>3. ASSUME NEW c \in Calls, CallExecution(c)
        PROVE  ExclusiveIdsAreRunning'
    <3>1. \A d \in Calls : Running(d)' <=> Running(d) \/ d = c
      BY <2>2, <2>3 DEF CallExecution, GoTo, Running
    <3> QED
      BY <2>2, <2>3, <3>1 DEF CallExecution, ExclusiveIdsAreRunning
  <2>4. ASSUME NEW c \in Calls, ForgetExclusive(c)
        PROVE  ExclusiveIdsAreRunning'
    <3>1. \A d \in Calls : Running(d)' <=> Running(d) /\ d # c
      BY <2>2, <2>4 DEF ForgetExclusive, GoTo, Running
    <3>2. Running(c)
      BY <2>4 DEF ForgetExclusive, GoTo, Running, PlacesInv
    <3> QED
      BY <2>2, <2>4, <3>1, <3>2 DEF ForgetExclusive, ExclusiveIdsAreRunning
  <2>5. ASSUME \A d \in Calls : Running(d)' <=> Running(d),
               UNCHANGED exclusiveOperations
        PROVE  ExclusiveIdsAreRunning'
    BY <2>2, <2>5 DEF ExclusiveIdsAreRunning
  <2>6. ASSUME NEW c \in Calls,
               \/ CallMutation(c) \/ RejectBusy(c) \/ EnterGlobal(c)
               \/ EnterWorkspace(c) \/ LeaveWorkspace(c) \/ LeaveGlobal(c)
        PROVE  ExclusiveIdsAreRunning'
    <3>1. \A d \in Calls : Running(d)' <=> Running(d)
      BY <2>2, <2>6 DEF CallMutation, RejectBusy, EnterGlobal, EnterWorkspace,
                        LeaveWorkspace, LeaveGlobal, GoTo, Running
    <3>2. UNCHANGED exclusiveOperations
      BY <2>6 DEF CallMutation, RejectBusy, EnterGlobal,
                  EnterWorkspace, LeaveWorkspace, LeaveGlobal
    <3> QED
      BY <2>5, <3>1, <3>2
  <2>7. CASE UNCHANGED vars \/ \E r \in Runs : SettleTail(r)
    <3>1. UNCHANGED <<pc, exclusiveOperations>>
      BY <2>7 DEF vars, SettleTail
    <3> QED
      BY <2>2, <2>5, <3>1 DEF Running
  <2> QED
    BY <2>3, <2>4, <2>6, <2>7 DEF Next, CallStep, AllReturned
<1> QED
  BY <1>1, <1>2, InductiveInvariant, PTL DEF Spec

-----------------------------------------------------------------------------
(* The refinement of KeyedQueue.  Every ticket between served and issued   *)
(* is that of a waiting or executing run: the queue has no gaps.           *)
QueueInv ==
  \A k \in Keys : \A t \in Nat :
    served[k] <= t /\ t < issued[k] =>
      \E c \in Calls : Pending(c, k) /\ ticket[<<c, k>>] = t

Waiting(k) == issued[k] - served[k]

(* What the mapped queue of k holds. *)
QueueFacts(k) ==
  /\ Waiting(k) \in Nat
  /\ QueueOf(k) \in [1..Waiting(k) -> Calls]
  /\ \A i \in 1..Waiting(k) :
       \E c \in Calls : /\ QueueOf(k)[i] = c
                        /\ Pending(c, k)
                        /\ ticket[<<c, k>>] + 1 = served[k] + i
  /\ \A c \in Calls, i \in 1..Waiting(k) :
       Pending(c, k) /\ ticket[<<c, k>>] + 1 = served[k] + i
         => QueueOf(k)[i] = c

(* The i-th of the mapped queue is the pending call with the i-th ticket   *)
(* that is not served.                                                     *)
LEMMA QueueIsArrivals == IInv /\ QueueInv => \A k \in Keys : QueueFacts(k)
<1> SUFFICES ASSUME IInv, QueueInv, NEW k \in Keys PROVE QueueFacts(k)
  OBVIOUS
<1> USE DEF IInv
<1>1. /\ issued[k] \in Nat /\ served[k] \in Nat /\ Waiting(k) \in Nat
      /\ \A c \in Calls : ticket[<<c, k>>] \in Nat
  BY DEF TypeOK, Runs, Waiting, TicketInv
<1>2. ASSUME NEW i \in 1..Waiting(k)
      PROVE  \E c \in Calls : Pending(c, k) /\ ticket[<<c, k>>] + 1 = served[k] + i
  <2>1. /\ served[k] + i - 1 \in Nat
        /\ served[k] <= served[k] + i - 1
        /\ served[k] + i - 1 < issued[k]
    BY <1>1, <1>2 DEF Waiting
  <2>2. PICK c \in Calls : Pending(c, k) /\ ticket[<<c, k>>] = served[k] + i - 1
    BY <2>1 DEF QueueInv
  <2> QED
    BY <1>1, <2>2
<1>3. ASSUME NEW c \in Calls, NEW d \in Calls, Pending(c, k), Pending(d, k),
             ticket[<<c, k>>] = ticket[<<d, k>>]
      PROVE  c = d
  BY <1>3, PlacesMeaning DEF TicketInv
<1>4. ASSUME NEW i \in 1..Waiting(k)
      PROVE  /\ QueueOf(k)[i] \in Calls
             /\ Pending(QueueOf(k)[i], k)
             /\ ticket[<<QueueOf(k)[i], k>>] + 1 = served[k] + i
  BY <1>2, <1>4 DEF QueueOf, Waiting
<1>5. QueueOf(k) \in [1..Waiting(k) -> Calls]
  <2> DEFINE Arrival(i) == CHOOSE c \in Calls : /\ Pending(c, k)
                                             /\ ticket[<<c, k>>] + 1 = served[k] + i
  <2>1. \A i \in 1..Waiting(k) : Arrival(i) \in Calls
    BY <1>2
  <2>2. QueueOf(k) = [i \in 1..Waiting(k) |-> Arrival(i)]
    BY DEF QueueOf, Waiting
  <2> HIDE DEF Arrival
  <2> QED
    BY <2>1, <2>2
<1>6. ASSUME NEW c \in Calls, NEW i \in 1..Waiting(k), Pending(c, k),
             ticket[<<c, k>>] + 1 = served[k] + i
      PROVE  QueueOf(k)[i] = c
  <2>1. ticket[<<QueueOf(k)[i], k>>] = ticket[<<c, k>>]
    BY <1>1, <1>4, <1>6
  <2> QED
    BY <1>3, <1>4, <1>6, <2>1
<1> QED
  BY <1>1, <1>4, <1>5, <1>6 DEF QueueFacts

(* The queue of a key none of whose runs starts or ends. *)
LEMMA SameQueue ==
  ASSUME NEW k \in Keys, QueueFacts(k), QueueFacts(k)',
         issued'[k] = issued[k], served'[k] = served[k],
         \A c \in Calls : /\ Pending(c, k)' <=> Pending(c, k)
                          /\ ticket'[<<c, k>>] = ticket[<<c, k>>]
  PROVE  QueueOf(k)' = QueueOf(k)
<1>1. Waiting(k)' = Waiting(k)
  BY DEF Waiting
<1>2. /\ Waiting(k) \in Nat
      /\ QueueOf(k) \in [1..Waiting(k) -> Calls]
      /\ QueueOf(k)' \in [1..Waiting(k) -> Calls]
  BY <1>1 DEF QueueFacts
<1>3. ASSUME NEW i \in 1..Waiting(k) PROVE QueueOf(k)'[i] = QueueOf(k)[i]
  <2>1. PICK c \in Calls : /\ QueueOf(k)[i] = c
                           /\ Pending(c, k)
                           /\ ticket[<<c, k>>] + 1 = served[k] + i
    BY DEF QueueFacts
  <2>2. Pending(c, k)' /\ ticket'[<<c, k>>] + 1 = served'[k] + i
    BY <2>1
  <2> QED
    BY <1>1, <2>1, <2>2 DEF QueueFacts
<1>4. \A n \in Nat : \A q, r \in [1..n -> Calls] :
        (\A i \in 1..n : q[i] = r[i]) => q = r
  OBVIOUS
<1> QED
  BY <1>2, <1>3, <1>4

(* Starting a run under k appends its call to the queue of k.              *)
LEMMA EnqueueIsPromised ==
  ASSUME TypeOK, NEW c \in Calls, NEW k \in Keys,
         ~Pending(c, k), Enqueue(c, k),
         \A l \in Keys : QueueFacts(l) /\ QueueFacts(l)',
         \A d \in Calls, l \in Keys :
           Pending(d, l)' <=> (Pending(d, l) \/ (d = c /\ l = k))
  PROVE  Promised!Enqueue(c, k)
<1>1. /\ issued[k] \in Nat /\ served[k] \in Nat
      /\ served' = served
      /\ issued' = [issued EXCEPT ![k] = @ + 1]
      /\ \A l \in Keys : issued'[l] = IF l = k THEN issued[k] + 1 ELSE issued[l]
      /\ \A d \in Calls, l \in Keys : /\ <<d, l>> \in Runs
                                      /\ ticket[<<d, l>>] \in Nat
      /\ ticket'[<<c, k>>] = issued[k]
      /\ \A d \in Calls, l \in Keys :
           ~(d = c /\ l = k) => ticket'[<<d, l>>] = ticket[<<d, l>>]
  BY DEF Enqueue, TypeOK, Runs
<1>2. ASSUME NEW l \in Keys, l # k PROVE QueueOf(l)' = QueueOf(l)
  BY <1>1, <1>2, SameQueue
<1>3. \A i \in 1..Waiting(k) : QueueOf(k)[i] # c
  <2>1. QueueFacts(k)
    OBVIOUS
  <2>2. ASSUME NEW i \in 1..Waiting(k), QueueOf(k)[i] = c PROVE FALSE
    <3>1. PICK d \in Calls : QueueOf(k)[i] = d /\ Pending(d, k)
      BY <2>1 DEF QueueFacts
    <3>2. d = c
      BY <2>2, <3>1
    <3> QED
      BY <3>1, <3>2
  <2> QED
    BY <2>2
<1>4. /\ Waiting(k) \in Nat /\ Waiting(k)' = Waiting(k) + 1
      /\ QueueOf(k) \in [1..Waiting(k) -> Calls]
      /\ QueueOf(k)' \in [1..(Waiting(k) + 1) -> Calls]
      /\ Waiting(k) = issued[k] - served[k]
  <2>1. Waiting(k) \in Nat /\ QueueOf(k) \in [1..Waiting(k) -> Calls]
    BY DEF QueueFacts
  <2>2. Waiting(k)' = Waiting(k) + 1 /\ Waiting(k) = issued[k] - served[k]
    BY <1>1 DEF Waiting
  <2>3. QueueOf(k)' \in [1..Waiting(k)' -> Calls]
    BY DEF QueueFacts
  <2> QED
    BY <2>1, <2>2, <2>3
<1>5. ASSUME NEW i \in 1..Waiting(k) PROVE QueueOf(k)'[i] = QueueOf(k)[i]
  <2>1. PICK d \in Calls : /\ QueueOf(k)[i] = d
                           /\ Pending(d, k)
                           /\ ticket[<<d, k>>] + 1 = served[k] + i
    BY DEF QueueFacts
  <2>2. Pending(d, k)' /\ ticket'[<<d, k>>] + 1 = served'[k] + i
    BY <1>1, <2>1
  <2>3. i \in 1..Waiting(k)'
    BY <1>4
  <2> QED
    BY <2>1, <2>2, <2>3 DEF QueueFacts
<1>6. QueueOf(k)'[Waiting(k) + 1] = c
  <2>1. Waiting(k) + 1 \in 1..Waiting(k)'
    BY <1>4
  <2>2. Pending(c, k)' /\ ticket'[<<c, k>>] + 1 = served'[k] + (Waiting(k) + 1)
    BY <1>1, <1>4
  <2>3. \A j \in 1..Waiting(k)' :
          Pending(c, k)' /\ ticket'[<<c, k>>] + 1 = served'[k] + j
            => QueueOf(k)'[j] = c
    BY DEF QueueFacts
  <2> QED
    BY <2>1, <2>2, <2>3
<1>7. QueueOf(k)' = Append(QueueOf(k), c)
  <2>1. \A n \in Nat : \A q \in [1..n -> Calls], r \in [1..(n + 1) -> Calls] :
          (\A i \in 1..n : r[i] = q[i]) /\ r[n + 1] = c => r = Append(q, c)
    OBVIOUS
  <2> QED
    BY <1>4, <1>5, <1>6, <2>1
<1> DEFINE queue == [l \in Keys |-> QueueOf(l)]
<1>8. queue' = [queue EXCEPT ![k] = Append(@, c)]
  <2>1. \A l \in Keys : QueueOf(l)' = IF l = k THEN Append(QueueOf(k), c) ELSE QueueOf(l)
    BY <1>2, <1>7
  <2> QED
    BY <2>1
<1>9. c \notin {queue[k][i] : i \in DOMAIN queue[k]}
  BY <1>3, <1>4
<1> QED
  BY <1>8, <1>9 DEF Promised!Enqueue, Promised!Queued

(* The run whose turn it is leaves: its call was the head of the queue.    *)
LEMMA LeaveIsPromised ==
  ASSUME TypeOK, NEW c \in Calls, NEW k \in Keys,
         ticket[<<c, k>>] = served[k], served[k] < issued[k],
         Inside(c, k), Leave(c, k),
         \A l \in Keys : QueueFacts(l) /\ QueueFacts(l)',
         \A d \in Calls : Inside(d, k) => d = c,
         \A d \in Calls, l \in Keys :
           /\ Pending(d, l)' <=> (Pending(d, l) /\ ~(d = c /\ l = k))
           /\ Inside(d, l)' <=> (Inside(d, l) /\ ~(d = c /\ l = k))
  PROVE  Promised!Leave(k)
<1>1. /\ issued[k] \in Nat /\ served[k] \in Nat
      /\ issued' = issued /\ ticket' = ticket
      /\ \A l \in Keys : served'[l] = IF l = k THEN served[k] + 1 ELSE served[l]
      /\ \A d \in Calls, l \in Keys : ticket[<<d, l>>] \in Nat
  BY DEF Leave, TypeOK, Runs
<1>2. ASSUME NEW l \in Keys, l # k PROVE QueueOf(l)' = QueueOf(l)
  BY <1>1, <1>2, SameQueue
<1>3. /\ Waiting(k) \in Nat /\ Waiting(k) > 0 /\ Waiting(k)' = Waiting(k) - 1
      /\ QueueOf(k) \in [1..Waiting(k) -> Calls]
      /\ QueueOf(k)' \in [1..(Waiting(k) - 1) -> Calls]
  <2>1. Waiting(k) \in Nat /\ QueueOf(k) \in [1..Waiting(k) -> Calls]
    BY DEF QueueFacts
  <2>2. Waiting(k)' = Waiting(k) - 1 /\ Waiting(k) > 0
    BY <1>1 DEF Waiting
  <2>3. QueueOf(k)' \in [1..Waiting(k)' -> Calls]
    BY DEF QueueFacts
  <2> QED
    BY <2>1, <2>2, <2>3
<1>4. ASSUME NEW i \in 1..(Waiting(k) - 1) PROVE QueueOf(k)'[i] = QueueOf(k)[i + 1]
  <2>1. i + 1 \in 1..Waiting(k) /\ i \in 1..Waiting(k)' /\ i \in Nat /\ i > 0
    BY <1>3
  <2>2. QueueFacts(k)
    OBVIOUS
  <2>3. PICK d \in Calls : /\ QueueOf(k)[i + 1] = d
                           /\ Pending(d, k)
                           /\ ticket[<<d, k>>] + 1 = served[k] + (i + 1)
    BY <2>1, <2>2 DEF QueueFacts
  <2>4. ticket[<<d, k>>] # ticket[<<c, k>>]
    BY <1>1, <2>1, <2>3
  <2>5. Pending(d, k)' /\ ticket'[<<d, k>>] + 1 = served'[k] + i
    BY <1>1, <2>1, <2>3, <2>4
  <2>6. \A e \in Calls, j \in 1..Waiting(k)' :
          Pending(e, k)' /\ ticket'[<<e, k>>] + 1 = served'[k] + j
            => QueueOf(k)'[j] = e
    BY DEF QueueFacts
  <2> QED
    BY <2>1, <2>3, <2>5, <2>6
<1>5. QueueOf(k)' = Tail(QueueOf(k))
  <2>1. \A n \in Nat : \A q \in [1..n -> Calls], r \in [1..(n - 1) -> Calls] :
          n > 0 /\ (\A i \in 1..(n - 1) : r[i] = q[i + 1]) => r = Tail(q)
    OBVIOUS
  <2> QED
    BY <1>3, <1>4, <2>1
<1> DEFINE queue == [l \in Keys |-> QueueOf(l)]
           entered == [l \in Keys |-> Entered(l)]
<1>6. queue' = [queue EXCEPT ![k] = Tail(@)]
  <2>1. \A l \in Keys : QueueOf(l)' = IF l = k THEN Tail(QueueOf(k)) ELSE QueueOf(l)
    BY <1>2, <1>5
  <2> QED
    BY <2>1
<1>7. entered[k]
  BY DEF Entered
<1>8. entered' = [entered EXCEPT ![k] = FALSE]
  <2>1. \A l \in Keys : Entered(l)' = IF l = k THEN FALSE ELSE Entered(l)
    <3>1. ASSUME NEW l \in Keys, l # k PROVE Entered(l)' = Entered(l)
      BY <3>1 DEF Entered
    <3>2. Entered(k)' = FALSE
      BY DEF Entered
    <3> QED
      BY <3>1, <3>2
  <2> QED
    BY <2>1
<1> QED
  BY <1>6, <1>7, <1>8 DEF Promised!Leave

(* The run whose turn it is enters: it is the head of a queue of which     *)
(* nobody executes.                                                        *)
LEMMA EnterIsPromised ==
  ASSUME TypeOK, NEW c \in Calls, NEW k \in Keys,
         ticket[<<c, k>>] = served[k], served[k] < issued[k], Pending(c, k),
         \A l \in Keys : QueueFacts(l),
         \A d \in Calls : ~Inside(d, k),
         \A d \in Calls, l \in Keys :
           Inside(d, l)' <=> (Inside(d, l) \/ (d = c /\ l = k))
  PROVE  Promised!Enter(k) /\ Head(QueueOf(k)) = c
<1>1. /\ issued[k] \in Nat /\ served[k] \in Nat
      /\ ticket[<<c, k>>] \in Nat
  BY DEF TypeOK, Runs
<1>2. QueueFacts(k)
  OBVIOUS
<1>3. /\ Waiting(k) \in Nat /\ 1 \in 1..Waiting(k)
      /\ QueueOf(k) \in [1..Waiting(k) -> Calls]
  BY <1>1, <1>2 DEF QueueFacts, Waiting
<1>4. QueueOf(k)[1] = c
  BY <1>1, <1>2, <1>3 DEF QueueFacts
<1>5. QueueOf(k) # <<>> /\ Head(QueueOf(k)) = c
  BY <1>3, <1>4
<1> DEFINE entered == [l \in Keys |-> Entered(l)]
<1>6. ~entered[k]
  BY DEF Entered
<1>7. entered' = [entered EXCEPT ![k] = TRUE]
  <2>1. \A l \in Keys : Entered(l)' = IF l = k THEN TRUE ELSE Entered(l)
    <3>1. ASSUME NEW l \in Keys, l # k PROVE Entered(l)' = Entered(l)
      BY <3>1 DEF Entered
    <3>2. Entered(k)' = TRUE
      BY DEF Entered
    <3> QED
      BY <3>1, <3>2
  <2> QED
    BY <2>1
<1> QED
  BY <1>5, <1>6, <1>7 DEF Promised!Enter

(* What a step means for the queues: no run starts or ends; nobody enters; *)
(* a run of c starts under k; the one of c ends; c enters k.               *)
Idle == /\ UNCHANGED history
        /\ \A d \in Calls, l \in Keys : Pending(d, l)' <=> Pending(d, l)

StaysOut == \A d \in Calls, l \in Keys : Inside(d, l)' <=> Inside(d, l)

Starts(c, k) ==
  /\ ~Pending(c, k)
  /\ Enqueue(c, k)
  /\ \A d \in Calls, l \in Keys :
       Pending(d, l)' <=> (Pending(d, l) \/ (d = c /\ l = k))

Ends(c, k) ==
  /\ Inside(c, k)
  /\ Leave(c, k)
  /\ \A d \in Calls, l \in Keys :
       /\ Pending(d, l)' <=> (Pending(d, l) /\ ~(d = c /\ l = k))
       /\ Inside(d, l)' <=> (Inside(d, l) /\ ~(d = c /\ l = k))

GetsIn(c, k) ==
  /\ CanEnter(c, k)
  /\ Pending(c, k)
  /\ ~Inside(c, k)
  /\ \A d \in Calls, l \in Keys :
       Inside(d, l)' <=> (Inside(d, l) \/ (d = c /\ l = k))

(* Every step of run and runExclusive is one of five kinds. *)
LEMMA StepKinds ==
  ASSUME TypeOK, PlacesInv, [Next]_vars
  PROVE  \/ Idle /\ StaysOut
         \/ \E c \in Calls, k \in Keys : Starts(c, k) /\ StaysOut
         \/ \E c \in Calls, k \in Keys : Idle /\ GetsIn(c, k)
         \/ \E c \in Calls, k, l \in Keys : k # l /\ GetsIn(c, k) /\ Starts(c, l)
         \/ \E c \in Calls, k \in Keys : Ends(c, k)
<1> DEFINE Kinds == \/ Idle /\ StaysOut
                    \/ \E c \in Calls, k \in Keys : Starts(c, k) /\ StaysOut
                    \/ \E c \in Calls, k \in Keys : Idle /\ GetsIn(c, k)
                    \/ \E c \in Calls, k, l \in Keys :
                         k # l /\ GetsIn(c, k) /\ Starts(c, l)
                    \/ \E c \in Calls, k \in Keys : Ends(c, k)
<1>1. /\ GlobalKey \in Keys
      /\ \A c \in Calls : Key(c) \in Keys /\ GlobalKey # Key(c)
  BY DistinctNames DEF TypeOK, Ops, Keys, Key
<1>2. op' = op => \A d \in Calls : Executes(d)' = Executes(d) /\ Key(d)' = Key(d)
  BY DEF Executes, Key
<1>3. ASSUME NEW c \in Calls, CallMutation(c) PROVE Kinds
  <2> USE <1>3 DEF CallMutation, GoTo
  <2>1. ~Pending(c, Key(c))
    BY <1>1 DEF Pending
  <2>2. \A d \in Calls, l \in Keys :
          /\ Pending(d, l)' <=> (Pending(d, l) \/ (d = c /\ l = Key(c)))
          /\ Inside(d, l)' <=> Inside(d, l)
    BY <1>1, <1>2 DEF TypeOK, Pending, Inside
  <2> QED
    BY <1>1, <2>1, <2>2 DEF Starts, StaysOut
<1>4. ASSUME NEW c \in Calls, CallExecution(c) PROVE Kinds
  <2> USE <1>4 DEF CallExecution, GoTo
  <2>1. ~Pending(c, GlobalKey)
    BY <1>1 DEF Pending
  <2>2. \A d \in Calls, l \in Keys :
          /\ Pending(d, l)' <=> (Pending(d, l) \/ (d = c /\ l = GlobalKey))
          /\ Inside(d, l)' <=> Inside(d, l)
    BY <1>1, <1>2 DEF TypeOK, Pending, Inside
  <2> QED
    BY <1>1, <2>1, <2>2 DEF Starts, StaysOut
<1>5. ASSUME NEW c \in Calls, EnterGlobal(c) PROVE Kinds
  <2> USE <1>5 DEF EnterGlobal, GoTo
  <2>1. /\ Executes(c) /\ Pending(c, GlobalKey)
        /\ ~Inside(c, GlobalKey) /\ ~Pending(c, Key(c))
    BY <1>1 DEF PlacesInv, Pending, Inside
  <2>2. \A d \in Calls, l \in Keys :
          /\ Pending(d, l)' <=> (Pending(d, l) \/ (d = c /\ l = Key(c)))
          /\ Inside(d, l)' <=> (Inside(d, l) \/ (d = c /\ l = GlobalKey))
    BY <1>1, <1>2, <2>1 DEF TypeOK, Pending, Inside
  <2>3. GetsIn(c, GlobalKey) /\ Starts(c, Key(c))
    BY <2>1, <2>2 DEF GetsIn, Starts
  <2> QED
    BY <1>1, <2>3
<1>6. ASSUME NEW c \in Calls, EnterWorkspace(c) PROVE Kinds
  <2> USE <1>6 DEF EnterWorkspace, GoTo
  <2>1. Pending(c, Key(c)) /\ ~Inside(c, Key(c))
    BY <1>1 DEF Pending, Inside
  <2>2. \A d \in Calls, l \in Keys :
          /\ Pending(d, l)' <=> Pending(d, l)
          /\ Inside(d, l)' <=> (Inside(d, l) \/ (d = c /\ l = Key(c)))
    BY <1>1, <1>2 DEF TypeOK, Pending, Inside
  <2>3. Idle /\ GetsIn(c, Key(c))
    BY <2>1, <2>2 DEF Idle, GetsIn
  <2> QED
    BY <1>1, <2>3
<1>7. ASSUME NEW c \in Calls, LeaveWorkspace(c) PROVE Kinds
  <2> USE <1>7 DEF LeaveWorkspace, GoTo
  <2>1. Inside(c, Key(c))
    BY DEF Inside
  <2>2. \A d \in Calls, l \in Keys :
          /\ Pending(d, l)' <=> (Pending(d, l) /\ ~(d = c /\ l = Key(c)))
          /\ Inside(d, l)' <=> (Inside(d, l) /\ ~(d = c /\ l = Key(c)))
    BY <1>1, <1>2 DEF TypeOK, Pending, Inside
  <2> QED
    BY <1>1, <2>1, <2>2 DEF Ends
<1>8. ASSUME NEW c \in Calls, LeaveGlobal(c) PROVE Kinds
  <2> USE <1>8 DEF LeaveGlobal, GoTo
  <2>1. Executes(c) /\ Inside(c, GlobalKey)
    BY DEF PlacesInv, Inside
  <2>2. \A d \in Calls, l \in Keys :
          /\ Pending(d, l)' <=> (Pending(d, l) /\ ~(d = c /\ l = GlobalKey))
          /\ Inside(d, l)' <=> (Inside(d, l) /\ ~(d = c /\ l = GlobalKey))
    BY <1>1, <1>2, <2>1 DEF TypeOK, Pending, Inside
  <2> QED
    BY <1>1, <2>1, <2>2 DEF Ends
<1>9. ASSUME NEW c \in Calls, RejectBusy(c) \/ ForgetExclusive(c) PROVE Kinds
  <2> USE <1>9 DEF RejectBusy, ForgetExclusive, GoTo, history
  <2>1. pc[c] = "globalLeft" => Executes(c)
    BY DEF PlacesInv
  <2>2. \A d \in Calls, l \in Keys :
          /\ Pending(d, l)' <=> Pending(d, l)
          /\ Inside(d, l)' <=> Inside(d, l)
    BY <1>1, <1>2, <2>1 DEF TypeOK, Pending, Inside
  <2> QED
    BY <2>2 DEF Idle, StaysOut
<1>10. ASSUME UNCHANGED vars \/ \E r \in Runs : SettleTail(r) PROVE Kinds
  <2> USE <1>10 DEF vars, SettleTail, history
  <2>1. \A d \in Calls, l \in Keys :
          /\ Pending(d, l)' <=> Pending(d, l)
          /\ Inside(d, l)' <=> Inside(d, l)
    BY <1>2 DEF Pending, Inside
  <2> QED
    BY <2>1 DEF Idle, StaysOut
<1>11. Kinds
  <2> HIDE DEF Kinds
  <2> QED
    BY <1>3, <1>4, <1>5, <1>6, <1>7, <1>8, <1>9, <1>10
       DEF Next, CallStep, AllReturned
<1> QED
  BY <1>11

(* No kind of step leaves a gap in the tickets of a queue. *)
LEMMA QueueStaysDense ==
  ASSUME IInv, QueueInv, [Next]_vars PROVE QueueInv'
<1> USE DEF IInv
<1>1. \A k \in Keys : /\ issued[k] \in Nat /\ served[k] \in Nat
                     /\ \A c \in Calls : <<c, k>> \in Runs /\ ticket[<<c, k>>] \in Nat
  BY DEF TypeOK, Runs
<1>2. CASE Idle
  BY <1>2 DEF Idle, history, QueueInv
<1>3. ASSUME NEW c \in Calls, NEW k \in Keys, Starts(c, k) PROVE QueueInv'
  <2>1. /\ served' = served
        /\ \A l \in Keys : issued'[l] = IF l = k THEN issued[k] + 1 ELSE issued[l]
        /\ ticket'[<<c, k>>] = issued[k]
        /\ \A d \in Calls, l \in Keys :
             ~(d = c /\ l = k) => ticket'[<<d, l>>] = ticket[<<d, l>>]
    BY <1>1, <1>3 DEF Starts, Enqueue, TypeOK
  <2>2. ASSUME NEW l \in Keys, NEW t \in Nat, served'[l] <= t, t < issued'[l]
        PROVE  \E d \in Calls : Pending(d, l)' /\ ticket'[<<d, l>>] = t
    <3>1. CASE l = k /\ t = issued[k]
      BY <1>3, <2>1, <3>1 DEF Starts
    <3>2. CASE ~(l = k /\ t = issued[k])
      <4>1. served[l] <= t /\ t < issued[l]
        BY <1>1, <2>1, <2>2, <3>2
      <4>2. PICK d \in Calls : Pending(d, l) /\ ticket[<<d, l>>] = t
        BY <4>1 DEF QueueInv
      <4> QED
        BY <1>3, <2>1, <4>2 DEF Starts
    <3> QED
      BY <3>1, <3>2
  <2> QED
    BY <2>2 DEF QueueInv
<1>4. ASSUME NEW c \in Calls, NEW k \in Keys, Ends(c, k) PROVE QueueInv'
  <2>1. /\ issued' = issued /\ ticket' = ticket
        /\ \A l \in Keys : served'[l] = IF l = k THEN served[k] + 1 ELSE served[l]
    BY <1>4 DEF Ends, Leave, TypeOK
  <2>2. ticket[<<c, k>>] = served[k]
    BY <1>4 DEF Ends, TurnInv
  <2>3. ASSUME NEW l \in Keys, NEW t \in Nat, served'[l] <= t, t < issued'[l]
        PROVE  \E d \in Calls : Pending(d, l)' /\ ticket'[<<d, l>>] = t
    <3>1. /\ served[l] <= t /\ t < issued[l]
          /\ l = k => t # served[k]
      BY <1>1, <2>1, <2>3
    <3>2. PICK d \in Calls : Pending(d, l) /\ ticket[<<d, l>>] = t
      BY <3>1 DEF QueueInv
    <3> QED
      BY <1>4, <2>1, <2>2, <3>1, <3>2 DEF Ends
  <2> QED
    BY <2>3 DEF QueueInv
<1> QED
  BY <1>2, <1>3, <1>4, StepKinds

(* The queues of the keys have no gaps. *)
LEMMA QueueIsDense == Spec => []QueueInv
<1>1. Init => QueueInv
  BY DEF Init, QueueInv
<1>2. IInv /\ QueueInv /\ [Next]_vars => QueueInv'
  BY QueueStaysDense
<1> QED
  BY <1>1, <1>2, InductiveInvariant, PTL DEF Spec

(* A call that may enter a key is the first of its queue, and nobody       *)
(* executes under the key.                                                 *)
LEMMA TurnOfEntrant ==
  ASSUME IInv, NEW c \in Calls, NEW k \in Keys, GetsIn(c, k)
  PROVE  /\ ticket[<<c, k>>] = served[k]
         /\ served[k] < issued[k]
         /\ \A d \in Calls : ~Inside(d, k)
<1> USE PlacesMeaning DEF IInv
<1>1. ticket[<<c, k>>] = served[k] /\ Asked(c, k)
  BY PredecessorEnded DEF GetsIn
<1>2. served[k] < issued[k]
  BY <1>1 DEF TicketInv
<1>3. \A d \in Calls : Inside(d, k) => d = c
  BY <1>1 DEF TicketInv, TurnInv
<1> QED
  BY <1>1, <1>2, <1>3 DEF GetsIn

(* The executing call is the first of its queue, and the only one.         *)
LEMMA TurnOfHolder ==
  ASSUME IInv, NEW c \in Calls, NEW k \in Keys, Inside(c, k)
  PROVE  /\ ticket[<<c, k>>] = served[k]
         /\ served[k] < issued[k]
         /\ \A d \in Calls : Inside(d, k) => d = c
<1> USE PlacesMeaning DEF IInv
<1>1. ticket[<<c, k>>] = served[k] /\ Asked(c, k)
  BY DEF TurnInv
<1> QED
  BY <1>1 DEF TicketInv, TurnInv

(* Every step of the coordinator is a step of the abstract queues, or      *)
(* changes nothing that they show.                                         *)
LEMMA StepIsPromised ==
  ASSUME IInv, [Next]_vars,
         \A k \in Keys : QueueFacts(k) /\ QueueFacts(k)'
  PROVE  [Promised!Next]_(Promised!vars)
<1> DEFINE queue == [k \in Keys |-> QueueOf(k)]
           entered == [k \in Keys |-> Entered(k)]
<1>1. ASSUME Idle PROVE queue' = queue
  <2>1. \A k \in Keys : QueueOf(k)' = QueueOf(k)
    BY <1>1, SameQueue DEF Idle, history
  <2> QED
    BY <2>1
<1>2. ASSUME StaysOut PROVE entered' = entered
  <2>1. \A k \in Keys : Entered(k)' = Entered(k)
    BY <1>2 DEF StaysOut, Entered
  <2> QED
    BY <2>1
<1>3. ASSUME Idle, StaysOut PROVE UNCHANGED Promised!vars
  BY <1>1, <1>2, <1>3 DEF Promised!vars
<1>4. ASSUME NEW c \in Calls, NEW k \in Keys, Starts(c, k)
      PROVE  Promised!Enqueue(c, k)
  BY <1>4, EnqueueIsPromised DEF Starts, IInv
<1>5. ASSUME NEW c \in Calls, NEW k \in Keys, GetsIn(c, k)
      PROVE  Promised!Enter(k) /\ Head(QueueOf(k)) = c
  BY <1>5, TurnOfEntrant, EnterIsPromised DEF GetsIn, IInv
<1>6. ASSUME NEW c \in Calls, NEW k \in Keys, Ends(c, k)
      PROVE  Promised!Leave(k)
  BY <1>6, TurnOfHolder, LeaveIsPromised DEF Ends, IInv
<1>7. ASSUME NEW c \in Calls, NEW k \in Keys, Starts(c, k), StaysOut
      PROVE  Promised!Next
  BY <1>2, <1>4, <1>7 DEF Promised!Next
<1>8. ASSUME NEW c \in Calls, NEW k \in Keys, Idle, GetsIn(c, k)
      PROVE  Promised!Next
  BY <1>1, <1>5, <1>8 DEF Promised!Next
<1>9. ASSUME NEW c \in Calls, NEW k \in Keys, NEW l \in Keys,
             k # l, GetsIn(c, k), Starts(c, l)
      PROVE  Promised!Next
  BY <1>4, <1>5, <1>9 DEF Promised!Next, Promised!EnterThenEnqueue
<1>10. ASSUME NEW c \in Calls, NEW k \in Keys, Ends(c, k)
       PROVE  Promised!Next
  BY <1>6, <1>10 DEF Promised!Next
<1> QED
  BY <1>3, <1>7, <1>8, <1>9, <1>10, StepKinds DEF IInv

(* The chained promises of run() are, seen from outside, one first-in      *)
(* first-out queue per key of which only the head executes: every          *)
(* behaviour of the coordinator is one of KeyedQueue under the mapping.    *)
THEOREM KeysAreQueues == Spec => ImplementsKeyedQueue
<1>1. Init => Promised!Init
  <2> SUFFICES ASSUME Init PROVE Promised!Init
    OBVIOUS
  <2>1. \A k \in Keys : issued[k] - served[k] = 0
    BY DEF Init
  <2>2. \A k \in Keys : QueueOf(k) = <<>>
    BY <2>1 DEF QueueOf
  <2>3. \A k \in Keys : Entered(k) = FALSE
    BY DEF Init, Entered, Inside
  <2> QED
    BY <2>2, <2>3 DEF Promised!Init
<1>2. /\ IInv /\ QueueInv /\ [Next]_vars
      /\ (\A k \in Keys : QueueFacts(k))'
      => [Promised!Next]_(Promised!vars)
  BY QueueIsArrivals, StepIsPromised
<1>3. Spec => [](\A k \in Keys : QueueFacts(k))
  BY InductiveInvariant, QueueIsDense, QueueIsArrivals, PTL
<1> QED
  BY <1>1, <1>2, <1>3, InductiveInvariant, QueueIsDense, PTL
     DEF Spec, ImplementsKeyedQueue, Promised!Spec
=============================================================================
