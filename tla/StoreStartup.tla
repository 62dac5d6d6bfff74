---------------------------- MODULE StoreStartup ----------------------------
(***************************************************************************)
(* Servers that start on one database: the transaction that makes the      *)
(* schema of a fresh database or checks the version of a marked one.  The  *)
(* servers need not be of one release.  A server may die in between, lose  *)
(* its connection with the outcome of its commit unknown, stop and start   *)
(* again; an operator may reset a database that nobody uses.               *)
(***************************************************************************)
EXTENDS Integers

CONSTANTS Servers,
          Versions,
          Version,    \* schema version each server was built with
          MaxFaults,  \* bound on crashes and lost connections
          MaxResets,
          None

VersionOfEach == Version \in [Servers -> Versions]

VARIABLES db,     \* what is committed
          draft,  \* what the transaction of a server would commit
          lock,   \* holder of the advisory lock of the transaction
          at,     \* where each server is
          faults, resets

vars == <<db, draft, lock, at, faults, resets>>

(* A database: is schema_metadata there, its version row, are the tables   *)
(* of the records there, is there any other relation.                      *)
Database(metadata, version, records, other) ==
  [metadata |-> metadata, version |-> version, records |-> records, other |-> other]

Empty == Database(FALSE, None, FALSE, FALSE)
Whole(v) == Database(TRUE, v, TRUE, FALSE)
Foreign == Database(FALSE, None, FALSE, TRUE)
Unmarked == Database(TRUE, None, TRUE, FALSE)

Init == /\ db \in {Empty, Foreign, Unmarked} \cup {Whole(v) : v \in Versions}
        /\ draft = [s \in Servers |-> None]
        /\ lock = None
        /\ at = [s \in Servers |-> "off"]
        /\ faults = 0
        /\ resets = 0

InTransaction(s) == at[s] \in {"waiting", "looking", "creating", "marking", "committing"}

Move(s, place) == at' = [at EXCEPT ![s] = place]

(* The end of a transaction lets the advisory lock go. *)
Unlock(s) == lock' = IF lock = s THEN None ELSE lock

-----------------------------------------------------------------------------
Begin(s) == /\ at[s] = "off"
            /\ Move(s, "waiting")
            /\ UNCHANGED <<db, draft, lock, faults, resets>>

Lock(s) == /\ at[s] = "waiting"
           /\ lock = None
           /\ lock' = s
           /\ Move(s, "looking")
           /\ UNCHANGED <<db, draft, faults, resets>>

(* What the checks make of a database. *)
Verdict(s) == IF ~db.metadata
              THEN IF db.records \/ db.other THEN "refused" ELSE "creating"
              ELSE IF db.version = Version[s] THEN "committing" ELSE "refused"

Look(s) == /\ at[s] = "looking"
           /\ Move(s, Verdict(s))
           /\ IF Verdict(s) = "refused" THEN Unlock(s) ELSE UNCHANGED lock
           /\ draft' = [draft EXCEPT ![s] = IF Verdict(s) = "refused" THEN None ELSE db]
           /\ UNCHANGED <<db, faults, resets>>

(* POSTGRES_SCHEMA_SQL waits for another transaction that has made a table *)
(* of the same name, and passes over the tables that are there.  Faulty    *)
(* variant: it runs on the pool and not on the client of the transaction.  *)
CreateOnPool(s) == /\ at[s] = "creating"
                   /\ db' = [db EXCEPT !.metadata = TRUE, !.records = TRUE]
                   /\ draft' = [draft EXCEPT ![s] = db']
                   /\ Move(s, "marking")
                   /\ UNCHANGED <<lock, faults, resets>>

Create(s) == /\ at[s] = "creating"
             /\ \A o \in Servers : at[o] \notin {"marking", "committing"}
             /\ draft' = [draft EXCEPT ![s] = [db EXCEPT !.metadata = TRUE, !.records = TRUE]]
             /\ Move(s, "marking")
             /\ UNCHANGED <<db, lock, faults, resets>>

(* The version is a row under a primary key. *)
Mark(s) == /\ at[s] = "marking"
           /\ IF db.version # None
              THEN Move(s, "conflict") /\ Unlock(s) /\ draft' = [draft EXCEPT ![s] = None]
              ELSE /\ Move(s, "committing")
                   /\ draft' = [draft EXCEPT ![s].version = Version[s]]
                   /\ UNCHANGED lock
           /\ UNCHANGED <<db, faults, resets>>

(* The answer of a commit may be lost with the connection. *)
Commit(s) == /\ at[s] = "committing"
             /\ db' = draft[s]
             /\ draft' = [draft EXCEPT ![s] = None]
             /\ Unlock(s)
             /\ \/ Move(s, "up") /\ UNCHANGED faults
                \/ faults < MaxFaults /\ faults' = faults + 1 /\ Move(s, "off")
             /\ UNCHANGED resets

(* An error of the driver or the end of the process rolls back. *)
Fail(s) == /\ InTransaction(s)
           /\ faults < MaxFaults
           /\ faults' = faults + 1
           /\ Move(s, "off")
           /\ draft' = [draft EXCEPT ![s] = None]
           /\ lock' = IF lock = s THEN None ELSE lock
           /\ UNCHANGED <<db, resets>>

-----------------------------------------------------------------------------
(* The operator. *)
Stop(s) == /\ at[s] \in {"up", "refused"}
           /\ Move(s, "off")
           /\ UNCHANGED <<db, draft, lock, faults, resets>>

Reset == /\ \A s \in Servers : at[s] \in {"off", "refused"}
         /\ resets < MaxResets
         /\ resets' = resets + 1
         /\ db' = Empty
         /\ UNCHANGED <<draft, lock, at, faults>>

Step(s) == Lock(s) \/ Look(s) \/ Create(s) \/ Mark(s) \/ Commit(s)

Next == Reset \/ \E s \in Servers : Begin(s) \/ Step(s) \/ Fail(s) \/ Stop(s)

(* A lock that is let go again and again is granted in the end: the queue  *)
(* of the database is fair.                                                *)
Fairness == \A s \in Servers : SF_vars(Lock(s)) /\ WF_vars(Step(s))

Spec == Init /\ [][Next]_vars /\ Fairness

-----------------------------------------------------------------------------
Databases == [metadata: BOOLEAN, version: Versions \cup {None}, records: BOOLEAN, other: BOOLEAN]

TypeOK == /\ db \in Databases
          /\ draft \in [Servers -> Databases \cup {None}]
          /\ lock \in Servers \cup {None}
          /\ at \in [Servers -> {"off", "waiting", "looking", "creating", "marking",
                                 "committing", "up", "refused", "conflict"}]
          /\ \A s \in Servers : draft[s] # None => InTransaction(s)

(* initialize: a server that has started finds the whole schema of its own *)
(* version for as long as it runs, whatever starts beside it.              *)
UpOnItsSchema == \A s \in Servers : at[s] = "up" => db = Whole(Version[s])

(* initialize: servers that start together do not turn each other away. A  *)
(* start that fails without a fault found a database that is neither fresh *)
(* nor of its version.                                                     *)
NobodyIsTurnedAway ==
  [][\A s \in Servers : at'[s] # at[s] /\ at'[s] \in {"refused", "conflict"}
                        => db \notin {Empty, Whole(Version[s])}]_vars

(* docs/specs/storage-format.md:47: only a fresh database is written, and  *)
(* it has the schema with its version from one moment to the next; a       *)
(* refused or failed start leaves no trace.                                *)
OnlyFreshIsWritten ==
  [][db' # db => \/ resets' # resets
                 \/ db = Empty /\ \E v \in Versions : db' = Whole(v)]_vars

(* withTransaction: the lock ends with the transaction, so every start     *)
(* that waits for it gets its turn.                                        *)
EveryStartIsDecided == \A s \in Servers : []<>(at[s] # "waiting")
=============================================================================
