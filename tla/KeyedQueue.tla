----------------------------- MODULE KeyedQueue -----------------------------
(***************************************************************************)
(* What the runtime promises its callers about operations that share a     *)
(* coordination key: they wait in one queue per key, in the order in which *)
(* they asked; only the first of a queue may enter; it leaves before the   *)
(* next one enters.  OperationCoordinator implements it with chained       *)
(* promises; the modules above it use these actions directly.              *)
(***************************************************************************)
EXTENDS Sequences, FiniteSets

CONSTANTS Calls,   \* the operations that may be submitted
          Keys     \* the coordination keys

VARIABLES queue,   \* per key, the calls that asked and have not yet left
          entered  \* per key, whether the first of the queue is executing

vars == <<queue, entered>>

Queued(k) == {queue[k][i] : i \in DOMAIN queue[k]}

TypeOK == /\ queue \in [Keys -> Seq(Calls)]
          /\ entered \in [Keys -> BOOLEAN]

Init == /\ queue = [k \in Keys |-> <<>>]
        /\ entered = [k \in Keys |-> FALSE]

Enqueue(c, k) == /\ c \notin Queued(k)
                 /\ queue' = [queue EXCEPT ![k] = Append(@, c)]

Enter(k) == /\ queue[k] # <<>>
            /\ ~entered[k]
            /\ entered' = [entered EXCEPT ![k] = TRUE]

Leave(k) == /\ entered[k]
            /\ queue' = [queue EXCEPT ![k] = Tail(@)]
            /\ entered' = [entered EXCEPT ![k] = FALSE]

(***************************************************************************)
(* Entering a key may submit the same call to another key in the same      *)
(* step: an index execution enters the global key and joins the queue of   *)
(* its workspace before anything else runs.                                *)
(***************************************************************************)
EnterThenEnqueue(k, l) ==
  /\ k # l
  /\ Enter(k)
  /\ Enqueue(Head(queue[k]), l)

Next == \E k \in Keys :
          \/ \E c \in Calls : Enqueue(c, k) /\ UNCHANGED entered
          \/ Enter(k) /\ UNCHANGED queue
          \/ \E l \in Keys : EnterThenEnqueue(k, l)
          \/ Leave(k)

Spec == Init /\ [][Next]_vars
=============================================================================
