-------------------------- MODULE ServersAndScreen --------------------------
(***************************************************************************)
(* The life of the API process and of the screen: start on a database,     *)
(* readiness while it comes and goes, shutdown, and the browser workspace. *)
(* The parts share no state; a behaviour is about the one named by the     *)
(* variable part, while the others stay as they began.                     *)
(***************************************************************************)
EXTENDS Integers

CONSTANTS Servers, Versions, Version,                    \* starts on one database
          Operations, Health, Conns,                     \* readiness
          HttpRequests, Signals, MaxCalls,                   \* shutdown
          Workspaces,                                    \* the screen
          MaxFaults, MaxResets, MaxProjections, MaxEntries, MaxDispatches, \* bounds
          None

VARIABLES part,
          database, draft, lock, at, startFaults, resets,
          db, link, dead, idleError, request, faults,
          http, handlers, started, store, exit, connection, operation,
          server, saved, entries, pos, screen, choice, error, queue, dispatched, last, inStep

startupVars == <<database, draft, lock, at, startFaults, resets>>
readinessVars == <<db, link, dead, idleError, request, faults>>
shutdownVars == <<http, handlers, started, store, exit, connection, operation>>
screenVars == <<server, saved, entries, pos, screen, choice, error, queue, dispatched, last, inStep>>

vars == <<part, startupVars, readinessVars, shutdownVars, screenVars>>

Startup == INSTANCE StoreStartup WITH db <- database, faults <- startFaults

Readiness == INSTANCE StorageReadiness

Shutdown == INSTANCE ServerShutdown WITH Requests <- HttpRequests

Screen == INSTANCE WebWorkspace

ASSUME ConstantsAreSound ==
  /\ Startup!VersionOfEach /\ Readiness!HealthIsNoOperation /\ Shutdown!SomeCalls
  /\ MaxFaults \in Nat /\ MaxResets \in Nat
  /\ MaxProjections \in Nat \ {0} /\ MaxEntries \in Nat \ {0} /\ MaxDispatches \in Nat

(* None is no value of the rows, the pool or the screen. *)
ASSUME NoneIsNothingElse ==
  /\ None \notin Servers /\ None \notin Versions
  /\ None \notin Conns /\ None \notin Workspaces
  /\ None \notin {"ok", "closed", "failed", "killed"}
  /\ \A w \in Workspaces, p \in 1..MaxProjections : None # [workspace |-> w, id |-> p]

-----------------------------------------------------------------------------
Init == /\ part \in {"startup", "readiness", "shutdown", "screen"}
        /\ Startup!Init /\ Readiness!Init /\ Shutdown!Init /\ Screen!Init
        /\ part # "startup" => database = Startup!Empty

(* A process that has ended, a server nobody restarts and a tab that is    *)
(* left alone take no further step.                                        *)
Next ==
  \/ /\ part = "startup" /\ Startup!Next
     /\ UNCHANGED <<part, readinessVars, shutdownVars, screenVars>>
  \/ /\ part = "readiness" /\ Readiness!Next
     /\ UNCHANGED <<part, startupVars, shutdownVars, screenVars>>
  \/ /\ part = "shutdown" /\ Shutdown!Next
     /\ UNCHANGED <<part, startupVars, readinessVars, screenVars>>
  \/ /\ part = "screen" /\ Screen!Next
     /\ UNCHANGED <<part, startupVars, readinessVars, shutdownVars>>

(* A behaviour is as fair as the part it is about. *)
Fairness == \/ part = "startup" /\ Startup!Fairness
            \/ part = "readiness" /\ Readiness!Fairness
            \/ part = "shutdown" /\ Shutdown!Fairness
            \/ part = "screen" /\ Screen!Fairness

Spec == Init /\ [][Next]_vars /\ Fairness

-----------------------------------------------------------------------------
(* Servers that start together: only a fresh database is written, with its *)
(* schema whole, nobody is turned away without reason, and who is up finds *)
(* its own schema.                                                         *)
StartsLeaveOneSchema ==
  [](Startup!TypeOK /\ Startup!UpOnItsSchema) /\ Startup!NobodyIsTurnedAway /\ Startup!OnlyFreshIsWritten

(* Connections go back however a request ends, health is only answered for *)
(* a database that is there, and a shutdown cuts off neither an answer     *)
(* that somebody waits for nor a store call.                               *)
NothingIsBrokenOff ==
  /\ Readiness!TypeOK /\ Readiness!ConnectionsReturn /\ Readiness!HealthIsLive
  /\ Shutdown!TypeOK /\ Shutdown!CutOnlyIfLeft /\ Shutdown!EndsBetweenCalls

(* The quiet screen is what the location of the tab says, and mutations    *)
(* are sent to the workspace that is seen.                                 *)
ScreenIsTheLocation == [](Screen!TypeOK /\ Screen!QuietScreenIsTheLocation) /\ Screen!MutationsHitTheScreen

(* Everybody who waits is served in the end: a start for the lock, a       *)
(* request for its answer, health for a database that is up again, a       *)
(* signal for the exit (unless an event stream stays open), the user for   *)
(* the controls.                                                           *)
EveryWaitEnds ==
  /\ Startup!EveryStartIsDecided
  /\ Readiness!EveryRequestIsAnswered
  /\ part = "readiness" => Readiness!ReadinessReturns
  /\ Shutdown!SignalEnds
  /\ Screen!NeverStuck
=============================================================================
