-------------------------- MODULE StorageReadiness --------------------------
(***************************************************************************)
(* What the API answers while its database comes and goes: operations that *)
(* take connections of the pool, the health probe of the container, and    *)
(* the probe that the API makes of its store before it answers any error.  *)
(* A connection that breaks while idle is an event that the store keeps    *)
(* for the next probe; one that breaks in use fails the query.             *)
(***************************************************************************)
EXTENDS Integers

CONSTANTS Operations,  \* requests other than GET /health
          Health,      \* the health check, one at a time
          Conns,       \* connections the pool may hold
          MaxFaults,   \* bound on outages and broken connections
          None

HealthIsNoOperation == Health \notin Operations

Requests == Operations \cup {Health}

VARIABLES db,        \* "up" or "down"
          link,      \* what the pool makes of each connection
          dead,      \* connections whose other end is gone
          idleError, \* idlePoolError of the store
          request,
          faults

vars == <<db, link, dead, idleError, request, faults>>

(* A request: where it is, the connection it uses, the error it would      *)
(* answer, its answer, and whether the database was up while it ran.       *)
Nothing == [at |-> "none", conn |-> None, error |-> None, answer |-> None, sawUp |-> FALSE]

Init == /\ db = "up"
        /\ link = [c \in Conns |-> "none"]
        /\ dead = {}
        /\ idleError = FALSE
        /\ request = [r \in Requests |-> Nothing]
        /\ faults = 0

At(r, places) == request[r].at \in places

Set(r, doing) == request' = [request EXCEPT ![r] = doing]

Answer(r, answer) == [request[r] EXCEPT !.at = "answered", !.conn = None, !.answer = answer]

-----------------------------------------------------------------------------
(* The database and its connections. *)
Fault == faults < MaxFaults /\ faults' = faults + 1

Outage == /\ db = "up"
          /\ Fault
          /\ db' = "down"
          /\ dead' = {c \in Conns : link[c] # "none"}
          /\ UNCHANGED <<link, idleError, request>>

Recover == /\ db = "down"
           /\ db' = "up"
           /\ request' = [r \in Requests |-> [request[r] EXCEPT !.sawUp = @ \/ ~At(r, {"none", "answered"})]]
           /\ UNCHANGED <<link, dead, idleError, faults>>

Break(c) == /\ link[c] # "none" /\ c \notin dead
            /\ Fault
            /\ dead' = dead \cup {c}
            /\ UNCHANGED <<db, link, idleError, request>>

(* The pool drops an idle connection that broke and emits "error". *)
IdleError(c) == /\ link[c] = "idle" /\ c \in dead
                /\ link' = [link EXCEPT ![c] = "none"]
                /\ dead' = dead \ {c}
                /\ idleError' = TRUE
                /\ UNCHANGED <<db, request, faults>>

-----------------------------------------------------------------------------
(* A request comes in; GET /health has nothing but the probe to make. *)
Begin(r) == /\ At(r, {"none"})
            /\ Set(r, [Nothing EXCEPT !.at = IF r = Health THEN "probe" ELSE "call",
                                      !.sawUp = db = "up"])
            /\ UNCHANGED <<db, link, dead, idleError, faults>>

(* A store call has failed or come back.  Any error of an operation is     *)
(* answered after a probe.                                                 *)
AfterFailure(r) == IF At(r, {"call"})
                   THEN [request[r] EXCEPT !.at = "probe", !.conn = None, !.error = "driver"]
                   ELSE Answer(r, "unavailable")

AfterSuccess(r) == IF At(r, {"call"})
                   THEN {Answer(r, "ok"),
                         [request[r] EXCEPT !.at = "probe", !.conn = None, !.error = "refused"]}
                   ELSE {Answer(r, IF request[r].error = None THEN "ok" ELSE request[r].error)}

Take(r) == /\ At(r, {"call", "ping"}) /\ request[r].conn = None
           /\ \/ \E c \in Conns : /\ \/ link[c] = "idle"
                                     \/ /\ \A o \in Conns : link[o] # "idle"
                                        /\ link[c] = "none" /\ db = "up"
                                  /\ link' = [link EXCEPT ![c] = "used"]
                                  /\ Set(r, [request[r] EXCEPT !.conn = c])
              \/ /\ db = "down"
                 /\ \A c \in Conns : link[c] # "idle"
                 /\ \E c \in Conns : link[c] = "none"
                 /\ Set(r, AfterFailure(r))
                 /\ UNCHANGED link
           /\ UNCHANGED <<db, dead, idleError, faults>>

Finish(r) ==
  /\ At(r, {"call", "ping"})
  /\ \E c \in {request[r].conn} \cap Conns :
       /\ link' = [link EXCEPT ![c] = IF c \in dead THEN "none" ELSE "idle"]
       /\ dead' = dead \ {c}
       /\ request' \in {[request EXCEPT ![r] = next] :
                          next \in IF c \in dead THEN {AfterFailure(r)} ELSE AfterSuccess(r)}
  /\ UNCHANGED <<db, idleError, faults>>

(* checkConnection, up to its query. *)
Check(r) ==
  /\ At(r, {"probe"})
  /\ IF idleError THEN Set(r, Answer(r, "unavailable"))
                  ELSE Set(r, [request[r] EXCEPT !.at = "ping"])
  /\ idleError' = FALSE
  /\ UNCHANGED <<db, link, dead, faults>>

Leave(r) == /\ At(r, {"answered"})
            /\ Set(r, Nothing)
            /\ UNCHANGED <<db, link, dead, idleError, faults>>

-----------------------------------------------------------------------------
Next == \/ Outage \/ Recover
        \/ \E c \in Conns : Break(c) \/ IdleError(c)
        \/ \E r \in Requests : Begin(r) \/ Take(r) \/ Finish(r) \/ Check(r) \/ Leave(r)

(* The container asks for /health for ever; the pool serves who waits in   *)
(* turn; everything else only has to run.                                  *)
Fairness == /\ WF_vars(Begin(Health))
            /\ \A r \in Requests : SF_vars(Take(r)) /\ WF_vars(Finish(r) \/ Check(r) \/ Leave(r))

Spec == Init /\ [][Next]_vars /\ Fairness

-----------------------------------------------------------------------------
Uses(c) == {r \in Requests : request[r].conn = c}

TypeOK == /\ db \in {"up", "down"}
          /\ link \in [Conns -> {"none", "idle", "used"}]
          /\ dead \subseteq {c \in Conns : link[c] # "none"}
          /\ idleError \in BOOLEAN
          /\ request \in [Requests -> [at : {"none", "call", "probe", "ping", "answered"},
                                       conn : Conns \cup {None},
                                       error : {None, "driver", "refused"},
                                       answer : {None, "ok", "refused", "driver", "unavailable"},
                                       sawUp : BOOLEAN]]

(* pool: a connection in use is used by one request, and by a request that *)
(* is still running, so none leaks however the request ends.               *)
ConnectionsReturn ==
  \A c \in Conns : link[c] = "used" <=> \E r \in Requests : Uses(c) = {r}

(* docs/specs/rest-api.md:23: health is answered 200 only if the database  *)
(* answered while the health check ran.                                    *)
HealthIsLive == request[Health].answer = "ok" => request[Health].sawUp

(* docs/specs/storage-format.md:54: a database that stays up is found      *)
(* ready, whatever was kept of earlier failures.                           *)
ReadinessReturns == <>[](db = "up") => []<>(request[Health].answer = "ok")

(* handleRequest: every request is answered, also those that wait for a    *)
(* connection while the database is down.                                  *)
EveryRequestIsAnswered == \A r \in Requests : []<>At(r, {"none", "answered"})

(* docs/specs/rest-api.md:25: the unavailability of the store is answered  *)
(* 503 and no driver error is seen.                                        *)
StoreErrorsAreHidden == \A r \in Requests : request[r].answer # "driver"
=============================================================================
