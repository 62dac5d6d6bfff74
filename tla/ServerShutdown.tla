--------------------------- MODULE ServerShutdown ---------------------------
(***************************************************************************)
(* The end of an API process: signals, the HTTP server that closes once    *)
(* its connections are done, the store that closes after it, the exit.  A  *)
(* request runs an operation in several store calls and holds its          *)
(* connection until it is answered or the client leaves; the operation of  *)
(* a client that left runs on.  A GET of /mcp opens an event stream, which *)
(* lasts until its client leaves.                                          *)
(***************************************************************************)
EXTENDS Integers, FiniteSets

CONSTANTS Requests,
          Signals,   \* those handled
          MaxCalls,  \* store calls of an operation
          None

SomeCalls == MaxCalls \in Nat \ {0}

VARIABLES http,       \* "starting", "listening", "closing", "refused", "closed"
          handlers,   \* signals with a handler
          started,    \* shutdownStarted
          store,      \* "open", "closing", "closed"
          exit,       \* None, or how the process ended
          connection, \* of each request: "none", "open", "answered", "left"
          operation   \* of each request: where it is, calls made

vars == <<http, handlers, started, store, exit, connection, operation>>

NoOperation == [at |-> "none", calls |-> 0]

Init == /\ http = "starting"
        /\ handlers = Signals
        /\ started = FALSE
        /\ store = "open"
        /\ exit = None
        /\ connection = [r \in Requests |-> "none"]
        /\ operation = [r \in Requests |-> NoOperation]

Runs == exit = None

OpenConnections == {r \in Requests : connection[r] = "open"}

Calling == {r \in Requests : operation[r].at = "calling"}

Streaming == {r \in OpenConnections : operation[r].at = "streaming"}

-----------------------------------------------------------------------------
(* The handlers are there before the address is resolved and bound. *)
Listen == /\ Runs /\ http = "starting"
          /\ http' = "listening"
          /\ UNCHANGED <<handlers, started, store, exit, connection, operation>>

(* Requests. *)
Arrive(r) == /\ Runs /\ http = "listening"
             /\ connection[r] = "none"
             /\ connection' = [connection EXCEPT ![r] = "open"]
             /\ \E at \in {"running", "streaming"} : operation' = [operation EXCEPT ![r].at = at]
             /\ UNCHANGED <<http, handlers, started, store, exit>>

(* A store call takes a client of the pool; a pool that ends gives none. *)
Call(r) == /\ Runs
           /\ operation[r].at = "running"
           /\ operation' = [operation EXCEPT ![r] =
                IF store = "open" THEN [at |-> "calling", calls |-> @.calls + 1]
                                  ELSE [@ EXCEPT !.at = "cut"]]
           /\ UNCHANGED <<http, handlers, started, store, exit, connection>>

Return(r) == /\ Runs
             /\ operation[r].at = "calling"
             /\ \E at \in IF operation[r].calls < MaxCalls THEN {"running", "done"} ELSE {"done"} :
                  operation' = [operation EXCEPT ![r].at = at]
             /\ UNCHANGED <<http, handlers, started, store, exit, connection>>

Respond(r) == /\ Runs
              /\ connection[r] = "open"
              /\ operation[r].at \in {"done", "cut"}
              /\ connection' = [connection EXCEPT ![r] = "answered"]
              /\ UNCHANGED <<http, handlers, started, store, exit, operation>>

ClientLeaves(r) == /\ Runs
                   /\ connection[r] = "open"
                   /\ connection' = [connection EXCEPT ![r] = "left"]
                   /\ UNCHANGED <<http, handlers, started, store, exit, operation>>

-----------------------------------------------------------------------------
(* process.once: the first signal of a kind takes its handler away, the    *)
(* next one has the default action.  server.close lets no connection in    *)
(* any more; of a server that does not listen yet it is an error.          *)
Signal(s) ==
  /\ Runs /\ s \in handlers
  /\ handlers' = handlers \ {s}
  /\ IF started THEN UNCHANGED <<started, http>>
     ELSE started' = TRUE /\ http' = IF http = "starting" THEN "refused" ELSE "closing"
  /\ UNCHANGED <<store, exit, connection, operation>>

SignalAgain(s) == /\ Runs /\ s \notin handlers
                  /\ exit' = "killed"
                  /\ UNCHANGED <<http, handlers, started, store, connection, operation>>

(* The callback of server.close ends the process if there was an error,    *)
(* else it begins to close the store.                                      *)
ServerFailed == /\ Runs /\ http = "refused"
                /\ exit' = "failed"
                /\ UNCHANGED <<http, handlers, started, store, connection, operation>>

ServerClosed == /\ Runs /\ http = "closing"
                /\ OpenConnections = {}
                /\ http' = "closed"
                /\ store' = "closing"
                /\ UNCHANGED <<handlers, started, exit, connection, operation>>

(* pool.end waits for the clients that are out; either way the process     *)
(* ends.  Faulty variant: it does not wait.                                *)
StoreClosedAtOnce == /\ Runs /\ store = "closing"
                     /\ store' = "closed"
                     /\ exit' \in {"closed", "failed"}
                     /\ UNCHANGED <<http, handlers, started, connection, operation>>

StoreClosed == /\ Runs /\ store = "closing"
               /\ Calling = {}
               /\ store' = "closed"
               /\ exit' \in {"closed", "failed"}
               /\ UNCHANGED <<http, handlers, started, connection, operation>>

-----------------------------------------------------------------------------
Next == \/ Listen
        \/ \E r \in Requests : Arrive(r) \/ Call(r) \/ Return(r) \/ Respond(r) \/ ClientLeaves(r)
        \/ \E s \in Signals : Signal(s) \/ SignalAgain(s)
        \/ ServerFailed \/ ServerClosed \/ StoreClosed

(* A store call comes back, a request other than a stream is answered, and *)
(* the process goes on.  Nobody has to send a signal or to leave.          *)
Fairness == /\ \A r \in Requests : WF_vars(Call(r) \/ Return(r) \/ Respond(r))
            /\ WF_vars(ServerFailed \/ ServerClosed \/ StoreClosed)

Spec == Init /\ [][Next]_vars /\ Fairness

-----------------------------------------------------------------------------
TypeOK == /\ http \in {"starting", "listening", "closing", "refused", "closed"}
          /\ handlers \subseteq Signals
          /\ started \in BOOLEAN
          /\ store \in {"open", "closing", "closed"}
          /\ exit \in {None, "closed", "failed", "killed"}
          /\ connection \in [Requests -> {"none", "open", "answered", "left"}]
          /\ operation \in [Requests -> [at : {"none", "running", "streaming", "calling", "done", "cut"},
                                         calls : 0..MaxCalls]]
          /\ started <=> handlers # Signals

(* installShutdownHandlers: nobody who waits for an answer loses it to the *)
(* shutdown; only the operation of a client that left can be cut off.      *)
CutOnlyIfLeft == \A r \in Requests : operation[r].at = "cut" => connection[r] = "left"

(* installShutdownHandlers: a process that ends by itself has answered all *)
(* requests, and no store call is under way: no transaction is broken off. *)
EndsBetweenCalls == exit \in {"closed", "failed"} => OpenConnections = {} /\ Calling = {}

(* installShutdownHandlers: one signal is enough to end the process, with  *)
(* whatever was running then, unless a client keeps its event stream open  *)
(* (a signal cannot be taken back, nor an exit, and no stream opens after  *)
(* the signal).                                                            *)
SignalEnds == []<>(handlers = Signals \/ exit # None \/ Streaming # {})

(* "SIGINT/SIGTERM stop accepting HTTP work, close storage, then exit      *)
(* once" (server-lifecycle.ts:4): whatever clients do.                     *)
SignalAlwaysEnds == []<>(handlers = Signals \/ exit # None)

(* server-lifecycle.ts:4: the store is closed, then the process exits. *)
StoreClosesFirst == exit # None => store = "closed"
=============================================================================
