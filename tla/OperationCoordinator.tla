------------------------ MODULE OperationCoordinator ------------------------
(***************************************************************************)
(* packages/runtime/src/operation-coordinator.ts, with the two ways        *)
(* HiveMapRuntime uses it: a workspace mutation runs under the key of its  *)
(* workspace, and an index execution runs, exclusively for its index,      *)
(* under one global key and, nested in it, under the key of its workspace. *)
(*                                                                         *)
(* A run of the coordinator is <<c, k>>: call c under key k.  The promise  *)
(* `tail` of a run is named by the run; `current` of a run is resolved     *)
(* when the run is in released, its tail when the run is in settled.  A    *)
(* promise settles in a step of its own (a microtask), so every order in   *)
(* which the event loop may resume the waiting calls is a behaviour.       *)
(***************************************************************************)
EXTENDS Naturals

CONSTANTS Calls,       \* calls of the runtime; each is made at most once
          Workspaces,  \* workspace ids, which are also their keys
          Indexes,     \* repository index ids
          GlobalKey,   \* the key "repository-index-execution"
          NoIndex,     \* the index of a call that is a workspace mutation
          NoRun        \* no entry in tails; the predecessor Promise.resolve()

Keys == Workspaces \cup {GlobalKey}
Runs == Calls \X Keys
Ops  == [workspace : Workspaces, index : Indexes \cup {NoIndex}]

ASSUME DistinctNames == /\ GlobalKey \notin Workspaces
                        /\ NoIndex \notin Indexes
                        /\ NoRun \notin Runs

VARIABLES pc,                   \* where each call is
          op,                   \* what each call asks for
          tails,                \* tails: Map<key, Promise>
          pred,                 \* `predecessor` of each run
          released, settled,    \* runs whose `current` and `tail` resolved
          exclusiveOperations,  \* exclusiveOperations: Set<operationId>
          ticket,               \* history: order of arrival of each run
          issued, served        \* history: per key, runs started and ended

history == <<ticket, issued, served>>
vars == <<pc, op, tails, pred, released, settled, exclusiveOperations,
          ticket, issued, served>>

Places == {"new", "globalWait", "workspaceWait", "workspaceRun",
           "workspaceLeft", "globalLeft", "done", "rejected"}

Executes(c)    == op[c].index # NoIndex
Key(c)         == op[c].workspace
OperationId(c) == <<op[c].workspace, op[c].index>>

Init == /\ pc = [c \in Calls |-> "new"]
        /\ op \in [Calls -> Ops]
        /\ tails = [k \in Keys |-> NoRun]
        /\ pred = [r \in Runs |-> NoRun]
        /\ released = {}
        /\ settled = {}
        /\ exclusiveOperations = {}
        /\ ticket = [r \in Runs |-> 0]
        /\ issued = [k \in Keys |-> 0]
        /\ served = [k \in Keys |-> 0]

GoTo(c, from, to) == /\ pc[c] = from
                     /\ pc' = [pc EXCEPT ![c] = to]
                     /\ UNCHANGED op

-----------------------------------------------------------------------------
(* The parts of run(key, operation).                                       *)

(* Faulty variant: the previous tail is replaced without waiting for it. *)
EnqueueUnchained(c, k) == /\ pred' = [pred EXCEPT ![<<c, k>>] = NoRun]
                          /\ tails' = [tails EXCEPT ![k] = <<c, k>>]
                          /\ ticket' = [ticket EXCEPT ![<<c, k>>] = issued[k]]
                          /\ issued' = [issued EXCEPT ![k] = @ + 1]
                          /\ UNCHANGED served

(* Up to `await predecessor`: this run becomes the tail of its key. *)
Enqueue(c, k) == /\ pred' = [pred EXCEPT ![<<c, k>>] = tails[k]]
                 /\ tails' = [tails EXCEPT ![k] = <<c, k>>]
                 /\ ticket' = [ticket EXCEPT ![<<c, k>>] = issued[k]]
                 /\ issued' = [issued EXCEPT ![k] = @ + 1]
                 /\ UNCHANGED served

(* `await predecessor` may resume. *)
CanEnter(c, k) == pred[<<c, k>>] \in settled \cup {NoRun}

(* Faulty variants: the tail of the key is dropped although a later call   *)
(* has put its own there; it is never dropped; the next call is never told. *)
LeaveDropsTail(c, k) ==
  /\ released' = released \cup {<<c, k>>}
  /\ tails' = [tails EXCEPT ![k] = NoRun]
  /\ served' = [served EXCEPT ![k] = @ + 1]
  /\ UNCHANGED <<pred, ticket, issued>>

LeaveKeepsTail(c, k) ==
  /\ released' = released \cup {<<c, k>>}
  /\ served' = [served EXCEPT ![k] = @ + 1]
  /\ UNCHANGED <<tails, pred, ticket, issued>>

LeaveUnreleased(c, k) ==
  /\ tails' = IF tails[k] = <<c, k>> THEN [tails EXCEPT ![k] = NoRun]
                                     ELSE tails
  /\ served' = [served EXCEPT ![k] = @ + 1]
  /\ UNCHANGED <<released, pred, ticket, issued>>

(* The finally block: release(), and drop the tail if it is still ours. *)
Leave(c, k) ==
  /\ released' = released \cup {<<c, k>>}
  /\ tails' = IF tails[k] = <<c, k>> THEN [tails EXCEPT ![k] = NoRun]
                                     ELSE tails
  /\ served' = [served EXCEPT ![k] = @ + 1]
  /\ UNCHANGED <<pred, ticket, issued>>

-----------------------------------------------------------------------------
(* A workspace mutation: run(workspaceMutationKey(id), mutation). *)
CallMutation(c) ==
  /\ ~Executes(c)
  /\ GoTo(c, "new", "workspaceWait")
  /\ Enqueue(c, Key(c))
  /\ UNCHANGED <<released, settled, exclusiveOperations>>

(* runExclusive refuses an operation id that is still in the set. *)
RejectBusy(c) ==
  /\ Executes(c)
  /\ OperationId(c) \in exclusiveOperations
  /\ GoTo(c, "new", "rejected")
  /\ UNCHANGED <<tails, pred, released, settled, exclusiveOperations, history>>

(* executeRepositoryIndex: runExclusive(globalKey, id, ...). *)
CallExecution(c) ==
  /\ Executes(c)
  /\ OperationId(c) \notin exclusiveOperations
  /\ GoTo(c, "new", "globalWait")
  /\ exclusiveOperations' = exclusiveOperations \cup {OperationId(c)}
  /\ Enqueue(c, GlobalKey)
  /\ UNCHANGED <<released, settled>>

(* The operation under the global key is itself run(workspaceKey, ...). *)
EnterGlobal(c) ==
  /\ CanEnter(c, GlobalKey)
  /\ GoTo(c, "globalWait", "workspaceWait")
  /\ Enqueue(c, Key(c))
  /\ UNCHANGED <<released, settled, exclusiveOperations>>

EnterWorkspace(c) ==
  /\ CanEnter(c, Key(c))
  /\ GoTo(c, "workspaceWait", "workspaceRun")
  /\ UNCHANGED <<tails, pred, released, settled, exclusiveOperations, history>>

(* The mutation resolves or rejects: both leave through the finally block. *)
LeaveWorkspace(c) ==
  /\ GoTo(c, "workspaceRun", IF Executes(c) THEN "workspaceLeft" ELSE "done")
  /\ Leave(c, Key(c))
  /\ UNCHANGED <<settled, exclusiveOperations>>

LeaveGlobal(c) ==
  /\ GoTo(c, "workspaceLeft", "globalLeft")
  /\ Leave(c, GlobalKey)
  /\ UNCHANGED <<settled, exclusiveOperations>>

(* Faulty variant: the id of a finished execution stays in the set. *)
ForgetNothing(c) ==
  /\ GoTo(c, "globalLeft", "done")
  /\ UNCHANGED <<tails, pred, released, settled, exclusiveOperations, history>>

(* The finally block of runExclusive, after its own await resumes. *)
ForgetExclusive(c) ==
  /\ GoTo(c, "globalLeft", "done")
  /\ exclusiveOperations' = exclusiveOperations \ {OperationId(c)}
  /\ UNCHANGED <<tails, pred, released, settled, history>>

(* tail = predecessor.then(() => current) resolves. *)
SettleTail(r) ==
  /\ r \in released \ settled
  /\ pred[r] \in settled \cup {NoRun}
  /\ settled' = settled \cup {r}
  /\ UNCHANGED <<pc, op, tails, pred, released, exclusiveOperations, history>>

(* Every call has been made and has returned: nothing is left to do. *)
AllReturned == /\ \A c \in Calls : pc[c] \in {"done", "rejected"}
               /\ settled = released
               /\ UNCHANGED vars

CallStep(c) == \/ CallMutation(c) \/ RejectBusy(c) \/ CallExecution(c)
               \/ EnterGlobal(c) \/ EnterWorkspace(c)
               \/ LeaveWorkspace(c) \/ LeaveGlobal(c) \/ ForgetExclusive(c)

Next == \/ \E c \in Calls : CallStep(c)
        \/ \E r \in Runs : SettleTail(r)
        \/ AllReturned

Spec == Init /\ [][Next]_vars

(***************************************************************************)
(* The event loop resumes every continuation whose promise has settled,    *)
(* and the operations themselves settle (git commands have a timeout and   *)
(* Postgres answers or fails).  Nobody is obliged to make a call.          *)
(***************************************************************************)
Resume(c) == /\ pc[c] # "new"
             /\ CallStep(c)

FairSpec == /\ Spec
            /\ \A c \in Calls : WF_vars(Resume(c))
            /\ \A r \in Runs : WF_vars(SettleTail(r))

-----------------------------------------------------------------------------
(* Properties.                                                             *)

(* c asked for k and has not left it / is executing under k. *)
Pending(c, k) ==
  \/ /\ k = Key(c)
     /\ pc[c] \in {"workspaceWait", "workspaceRun"}
  \/ /\ k = GlobalKey
     /\ Executes(c)
     /\ pc[c] \in {"globalWait", "workspaceWait", "workspaceRun", "workspaceLeft"}

Inside(c, k) ==
  \/ /\ k = Key(c)
     /\ pc[c] = "workspaceRun"
  \/ /\ k = GlobalKey
     /\ Executes(c)
     /\ pc[c] \in {"workspaceWait", "workspaceRun", "workspaceLeft"}

Running(c) == Executes(c) /\ pc[c] \notin {"new", "done", "rejected"}

TypeOK == /\ pc \in [Calls -> Places]
          /\ op \in [Calls -> Ops]
          /\ tails \in [Keys -> Runs \cup {NoRun}]
          /\ pred \in [Runs -> Runs \cup {NoRun}]
          /\ settled \subseteq Runs
          /\ released \subseteq Runs
          /\ exclusiveOperations \subseteq (Workspaces \X Indexes)
          /\ ticket \in [Runs -> Nat]
          /\ issued \in [Keys -> Nat]
          /\ served \in [Keys -> Nat]

(* Two operations never execute under one key at the same time, in         *)
(* whatever order the promises of their predecessors settle: two mutations *)
(* of a workspace never interleave, and one repository index is executed   *)
(* at a time in the whole process.                                         *)
MutualExclusion ==
  \A k \in Keys : \A c, d \in Calls : Inside(c, k) /\ Inside(d, k) => c = d

(* The operation that executes under a key is the one that asked first     *)
(* among those that have not left: run() keeps the order of the calls.     *)
FirstComeFirstServed ==
  \A k \in Keys : \A c, d \in Calls :
    Inside(c, k) /\ Pending(d, k) => ticket[<<c, k>>] <= ticket[<<d, k>>]

(* The map holds an entry for a key exactly while some operation of the    *)
(* key has not left, and the entry is the latest of them: a deleted entry  *)
(* never cuts a waiting operation out of the chain, and none is leaked.    *)
TailIsLatestPending ==
  \A k \in Keys :
    IF tails[k] = NoRun
    THEN \A c \in Calls : ~Pending(c, k)
    ELSE \E c \in Calls :
           /\ tails[k] = <<c, k>>
           /\ Pending(c, k)
           /\ \A d \in Calls :
                Pending(d, k) => ticket[<<d, k>>] <= ticket[<<c, k>>]

(* An operation id is in the set exactly while one execution of that index *)
(* is under way: a second one is refused for that long, and a caller whose *)
(* execution has returned or failed can execute the index again.           *)
ExclusiveIdsAreRunning ==
  /\ exclusiveOperations = {OperationId(c) : c \in {d \in Calls : Running(d)}}
  /\ \A c, d \in Calls :
       Running(c) /\ Running(d) /\ OperationId(c) = OperationId(d) => c = d

(* Every call that was made returns: the nested order global key, then     *)
(* workspace key, cannot make calls wait for one another in a circle, and  *)
(* no continuation is lost.                                                *)
EveryCallReturns ==
  \A c \in Calls : pc[c] # "new" ~> pc[c] \in {"done", "rejected"}

-----------------------------------------------------------------------------
(* The refinement mapping.  The calls that asked for k and have not left   *)
(* it, in order of arrival: the runs with the tickets not yet served.      *)
QueueOf(k) ==
  [i \in 1..(issued[k] - served[k]) |->
     CHOOSE c \in Calls : /\ Pending(c, k)
                          /\ ticket[<<c, k>>] + 1 = served[k] + i]

Entered(k) == \E c \in Calls : Inside(c, k)

Promised == INSTANCE KeyedQueue WITH
              queue   <- [k \in Keys |-> QueueOf(k)],
              entered <- [k \in Keys |-> Entered(k)]

(* Seen from outside, the coordinator is one first-in first-out queue per  *)
(* key of which only the head executes (KeyedQueue): run() keeps order and *)
(* turn whatever the order in which the promises of the chain settle.      *)
ImplementsKeyedQueue == Promised!Spec
=============================================================================
