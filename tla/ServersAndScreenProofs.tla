----------------------- MODULE ServersAndScreenProofs -----------------------
(***************************************************************************)
(* Proofs about the life of the API process and about the screen, for any  *)
(* number of servers, versions, requests, connections, workspaces, history *)
(* entries and operations.  Each part has an inductive invariant of its    *)
(* own, and a step of another part leaves it alone.  The names of a part   *)
(* carry its prefix: Startup, Readiness, Shutdown, Screen.                 *)
(***************************************************************************)
EXTENDS ServersAndScreen, Sequences, TLAPS, WellFoundedInduction

-----------------------------------------------------------------------------
(* Starts on one database. *)

(* What a server has seen and written so far.  Whoever is past the lock    *)
(* holds it; a fresh database stays fresh until the schema is committed    *)
(* with its version.                                                       *)
Past(s) == at[s] \in {"looking", "creating", "marking", "committing"}

Databases == {Startup!Empty, Startup!Foreign, Startup!Unmarked}
             \cup {Startup!Whole(v) : v \in Versions}

OneIsPast == \A s \in Servers : Past(s) <=> lock = s

DraftsFit == \A s \in Servers :
  /\ at[s] = "creating" => database = Startup!Empty
  /\ at[s] = "marking" => /\ database = Startup!Empty
                          /\ draft[s] = Startup!Unmarked
  /\ at[s] = "committing" => /\ database \in {Startup!Empty, Startup!Whole(Version[s])}
                             /\ draft[s] = Startup!Whole(Version[s])

StartupInv == /\ Startup!TypeOK
              /\ database \in Databases
              /\ OneIsPast
              /\ DraftsFit
              /\ \A s \in Servers : at[s] # "conflict"
              /\ Startup!UpOnItsSchema
              /\ resets \in Nat

USE DEF Startup!InTransaction, Startup!Move, Startup!Unlock

(* The databases are all different. *)
LEMMA DatabasesDiffer ==
  /\ Startup!Empty # Startup!Unmarked
  /\ \A v \in Versions : Startup!Whole(v) \notin {Startup!Empty, Startup!Foreign, Startup!Unmarked}
  /\ \A v, w \in Versions : Startup!Whole(v) = Startup!Whole(w) => v = w
  /\ Databases \subseteq Startup!Databases
  <1> DEFINE D == Startup!Databases
  <1>1. \A v \in Versions : /\ Startup!Whole(v) \notin {Startup!Empty, Startup!Foreign}
                            /\ Startup!Whole(v).version = v
                            /\ Startup!Whole(v).version # Startup!Unmarked.version
    BY NoneIsNothingElse
       DEF Startup!Whole, Startup!Empty, Startup!Foreign, Startup!Unmarked, Startup!Database
  <1>2. Startup!Empty # Startup!Unmarked
    BY DEF Startup!Empty, Startup!Unmarked, Startup!Database
  <1>3. Startup!Empty \in D /\ Startup!Foreign \in D /\ Startup!Unmarked \in D
    BY DEF Startup!Databases, Startup!Empty, Startup!Foreign, Startup!Unmarked, Startup!Database
  <1>4. \A v \in Versions : Startup!Whole(v) \in D
    BY DEF Startup!Databases, Startup!Whole, Startup!Database
  <1>5. Databases \subseteq D
    BY <1>3, <1>4 DEF Databases
  <1> QED BY <1>1, <1>2, <1>5

(* The invariant holds in the beginning. *)
LEMMA StartupInit == Init => StartupInv
  <1> SUFFICES ASSUME Init PROVE StartupInv
    OBVIOUS
  <1>1. /\ database \in Databases /\ lock = None
        /\ draft = [s \in Servers |-> None] /\ at = [s \in Servers |-> "off"]
        /\ resets = 0
    BY DEF Init, Startup!Init, Databases
  <1>2. Startup!TypeOK
    BY <1>1, DatabasesDiffer DEF Startup!TypeOK
  <1>3. OneIsPast
    BY <1>1, NoneIsNothingElse DEF OneIsPast, Past
  <1>4. DraftsFit /\ (\A s \in Servers : at[s] # "conflict") /\ Startup!UpOnItsSchema
    BY <1>1 DEF DraftsFit, Startup!UpOnItsSchema
  <1> QED BY <1>1, <1>2, <1>3, <1>4 DEF StartupInv

LEMMA SameDatabase ==
  ASSUME NEW d \in Startup!Databases, NEW e \in Startup!Databases,
         d.metadata = e.metadata, d.version = e.version,
         d.records = e.records, d.other = e.other
  PROVE  d = e
  BY DEF Startup!Databases

(* The schema makes the fresh database an unmarked one, the version row    *)
(* makes that a whole one.                                                 *)
LEMMA SchemaIsMade ==
  /\ Startup!Empty.version = None
  /\ [Startup!Empty EXCEPT !.metadata = TRUE, !.records = TRUE] = Startup!Unmarked
  /\ \A v \in Versions : [Startup!Unmarked EXCEPT !.version = v] = Startup!Whole(v)
  <1> DEFINE e == Startup!Empty
             u == Startup!Unmarked
  <1>1. e \in Startup!Databases /\ e.version = None /\ e.other = FALSE
    BY DEF Startup!Databases, Startup!Empty, Startup!Database
  <1>2. /\ u \in Startup!Databases /\ u.metadata /\ u.records
        /\ u.version = None /\ u.other = FALSE
    BY DEF Startup!Databases, Startup!Unmarked, Startup!Database
  <1> HIDE DEF e, u
  <1>3. [e EXCEPT !.metadata = TRUE, !.records = TRUE] \in Startup!Databases
    BY <1>1 DEF Startup!Databases
  <1>4. [e EXCEPT !.metadata = TRUE, !.records = TRUE] = u
    BY <1>1, <1>2, <1>3, SameDatabase DEF Startup!Databases
  <1>5. ASSUME NEW v \in Versions
        PROVE  [u EXCEPT !.version = v] = Startup!Whole(v)
    <2>1. [u EXCEPT !.version = v] \in Startup!Databases
      BY <1>2 DEF Startup!Databases
    <2> DEFINE w == Startup!Whole(v)
    <2>2. /\ w \in Startup!Databases /\ w.metadata /\ w.records
          /\ w.version = v /\ w.other = FALSE
      BY DEF Startup!Databases, Startup!Whole, Startup!Database
    <2> HIDE DEF w
    <2>3. [u EXCEPT !.version = v] = w
      BY <1>2, <2>1, <2>2, SameDatabase DEF Startup!Databases
    <2> QED BY <2>3 DEF w
  <1> QED BY <1>1, <1>4, <1>5 DEF e, u

(* The checks of a start take the database for fresh, for one of its       *)
(* version, or for neither.                                                *)
LEMMA VerdictIsRight ==
  ASSUME NEW s \in Servers, database \in Databases
  PROVE  /\ Startup!Verdict(s) \in {"creating", "committing", "refused"}
         /\ Startup!Verdict(s) = "creating" => database = Startup!Empty
         /\ Startup!Verdict(s) = "committing" => database = Startup!Whole(Version[s])
         /\ Startup!Verdict(s) = "refused"
              => database \notin {Startup!Empty, Startup!Whole(Version[s])}
  <1>1. Version[s] \in Versions /\ Version[s] # None
    BY ConstantsAreSound, NoneIsNothingElse DEF Startup!VersionOfEach
  <1>2. CASE database \in {Startup!Empty, Startup!Foreign, Startup!Unmarked}
    BY <1>1, <1>2, DatabasesDiffer
       DEF Startup!Verdict, Startup!Empty, Startup!Foreign, Startup!Unmarked, Startup!Database
  <1>3. ASSUME NEW v \in Versions, database = Startup!Whole(v)
        PROVE  /\ database.metadata /\ database.version = v
    BY <1>3 DEF Startup!Whole, Startup!Database
  <1>4. CASE database \in {Startup!Whole(v) : v \in Versions}
    BY <1>1, <1>3, <1>4, DatabasesDiffer DEF Startup!Verdict
  <1> QED BY <1>2, <1>4 DEF Databases

-----------------------------------------------------------------------------
(* Facts that every step of a server rests on. *)
LEMMA StartupFacts ==
  ASSUME StartupInv, NEW s \in Servers
  PROVE  /\ Version[s] \in Versions /\ s # None
         /\ Startup!Whole(Version[s]) \in Databases
         /\ Startup!Empty \in Databases
         /\ Past(s) => /\ lock = s
                       /\ \A o \in Servers \ {s} : ~Past(o)
  BY ConstantsAreSound, NoneIsNothingElse
     DEF Startup!VersionOfEach, StartupInv, OneIsPast, Databases

(* A step that leaves the database alone keeps the invariant of everybody  *)
(* who is not part of it.                                                  *)
LEMMA StartupKeeps ==
  ASSUME StartupInv, NEW s \in Servers, NEW place, NEW d \in Startup!Databases \cup {None},
         place \in {"off", "waiting", "looking", "creating", "marking", "committing",
                   "up", "refused"},
         at' = [at EXCEPT ![s] = place],
         draft' = [draft EXCEPT ![s] = d],
         d # None => place \in {"waiting", "looking", "creating", "marking", "committing"},
         database' = database, resets' = resets,
         lock' = IF place \in {"looking", "creating", "marking", "committing"} THEN s
                 ELSE IF lock = s THEN None ELSE lock,
         place \in {"looking", "creating", "marking", "committing"} => lock \in {None, s},
         place = "creating" => database = Startup!Empty,
         place = "marking" => database = Startup!Empty /\ d = Startup!Unmarked,
         place = "committing" => /\ database \in {Startup!Empty, Startup!Whole(Version[s])}
                                 /\ d = Startup!Whole(Version[s]),
         place = "up" => database = Startup!Whole(Version[s])
  PROVE  StartupInv'
  <1> USE DEF StartupInv
  <1>1. \A o \in Servers : /\ at'[o] = IF o = s THEN place ELSE at[o]
                           /\ draft'[o] = IF o = s THEN d ELSE draft[o]
    BY DEF Startup!TypeOK
  <1>2. Startup!TypeOK'
    BY <1>1 DEF Startup!TypeOK, Startup!Databases
  <1>3. OneIsPast'
    BY <1>1, NoneIsNothingElse DEF OneIsPast, Past
  <1>4. DraftsFit'
    BY <1>1, ZenonT(40) DEF DraftsFit, Startup!Empty, Startup!Unmarked, Startup!Whole
  <1>5. Startup!UpOnItsSchema' /\ \A o \in Servers : at'[o] # "conflict"
    BY <1>1 DEF Startup!UpOnItsSchema, Startup!Whole
  <1> QED BY <1>2, <1>3, <1>4, <1>5

(* The committed database is the fresh one or its own, so nobody loses the *)
(* schema that he is up on.                                                *)
LEMMA StartupCommit ==
  ASSUME StartupInv, NEW s \in Servers, Startup!Commit(s)
  PROVE  /\ StartupInv'
         /\ database' = Startup!Whole(Version[s])
         /\ database \in {Startup!Empty, Startup!Whole(Version[s])}
  <1> USE DEF StartupInv
  <1>1. /\ at[s] = "committing" /\ draft[s] = Startup!Whole(Version[s])
        /\ database' = Startup!Whole(Version[s])
        /\ database \in {Startup!Empty, Startup!Whole(Version[s])}
    BY DEF Startup!Commit, DraftsFit
  <1>2. /\ lock = s /\ lock' = None
        /\ \A o \in Servers \ {s} : ~Past(o)
    BY <1>1, StartupFacts DEF Startup!Commit, Past
  <1>3. PICK place \in {"up", "off"} : at' = [at EXCEPT ![s] = place]
    BY DEF Startup!Commit
  <1>4. \A o \in Servers : /\ at'[o] = IF o = s THEN place ELSE at[o]
                           /\ draft'[o] = IF o = s THEN None ELSE draft[o]
    BY <1>3 DEF Startup!Commit, Startup!TypeOK
  <1>5. Startup!TypeOK'
    BY <1>1, <1>2, <1>3, <1>4, StartupFacts, DatabasesDiffer DEF Startup!TypeOK, Startup!Commit
  <1>6. database' \in Databases /\ OneIsPast'
    BY <1>1, <1>2, <1>4, StartupFacts, NoneIsNothingElse DEF OneIsPast, Past
  <1>7. DraftsFit' /\ \A o \in Servers : at'[o] # "conflict"
    BY <1>2, <1>4 DEF DraftsFit, Past
  <1>8. Startup!UpOnItsSchema'
    BY <1>1, <1>2, <1>4, StartupFacts, DatabasesDiffer DEF Startup!UpOnItsSchema
  <1> QED BY <1>1, <1>5, <1>6, <1>7, <1>8 DEF Startup!Commit

(* What a step of the starts may do to the database and to a server. *)
StartsAreSound ==
  /\ \A s \in Servers : at'[s] # at[s] /\ at'[s] \in {"refused", "conflict"}
                         => database \notin {Startup!Empty, Startup!Whole(Version[s])}
  /\ database' # database => \/ resets' # resets
                             \/ /\ database = Startup!Empty
                                /\ \E v \in Versions : database' = Startup!Whole(v)

LEMMA StartupServerStep ==
  ASSUME StartupInv, NEW s \in Servers,
         Startup!Begin(s) \/ Startup!Step(s) \/ Startup!Fail(s) \/ Startup!Stop(s)
  PROVE  StartupInv' /\ StartsAreSound
  <1>0. /\ draft \in [Servers -> Startup!Databases \cup {None}]
        /\ draft[s] \in Startup!Databases \cup {None}
        /\ draft = [draft EXCEPT ![s] = draft[s]]
        /\ at = [o \in Servers |-> at[o]] /\ database \in Databases
        /\ database \in Startup!Databases
        /\ draft[s] # None => Startup!InTransaction(s)
    BY DatabasesDiffer DEF StartupInv, Startup!TypeOK
  <1>1. CASE Startup!Begin(s)
    <2>1. draft[s] = None /\ ~Past(s) /\ lock # s
      BY <1>0, <1>1 DEF Startup!Begin, StartupInv, OneIsPast, Past
    <2>2. StartupInv'
      BY <1>0, <1>1, <2>1, StartupKeeps DEF Startup!Begin
    <2> QED BY <1>0, <1>1, <2>2 DEF Startup!Begin, StartsAreSound
  <1>2. CASE Startup!Lock(s)
    <2>1. StartupInv'
      BY <1>0, <1>2, StartupKeeps DEF Startup!Lock
    <2> QED BY <1>0, <1>2, <2>1 DEF Startup!Lock, StartsAreSound
  <1>3. CASE Startup!Look(s)
    <2>1. Past(s) /\ lock = s
      BY <1>3, StartupFacts DEF Startup!Look, Past
    <2>2. /\ Startup!Verdict(s) \in {"creating", "committing", "refused"}
          /\ Startup!Verdict(s) = "creating" => database = Startup!Empty
          /\ Startup!Verdict(s) = "committing" => database = Startup!Whole(Version[s])
          /\ Startup!Verdict(s) = "refused"
              => database \notin {Startup!Empty, Startup!Whole(Version[s])}
      BY <1>0, VerdictIsRight
    <2>3. CASE Startup!Verdict(s) = "refused"
      <3>1. /\ at' = [at EXCEPT ![s] = "refused"] /\ draft' = [draft EXCEPT ![s] = None]
            /\ lock' = None /\ UNCHANGED <<database, resets>>
        BY <1>3, <2>1, <2>3 DEF Startup!Look
      <3>2. StartupInv'
        BY <2>1, <3>1, StartupKeeps
      <3> QED BY <1>0, <2>2, <2>3, <3>1, <3>2 DEF StartsAreSound
    <2>4. CASE Startup!Verdict(s) # "refused"
      <3> DEFINE place == Startup!Verdict(s)
      <3>1. /\ at' = [at EXCEPT ![s] = place] /\ draft' = [draft EXCEPT ![s] = database]
            /\ lock' = s /\ UNCHANGED <<database, resets>>
        BY <1>3, <2>1, <2>4 DEF Startup!Look
      <3>2. place \in {"creating", "committing"}
        BY <2>2, <2>4
      <3>3. /\ place = "creating" => database = Startup!Empty
            /\ place = "committing" => database = Startup!Whole(Version[s])
        BY <2>2
      <3> HIDE DEF place
      <3>4. StartupInv'
        BY <1>0, <2>1, <3>1, <3>2, <3>3, StartupKeeps
      <3> QED BY <1>0, <3>1, <3>2, <3>4 DEF StartsAreSound
    <2> QED BY <2>3, <2>4
  <1>4. CASE Startup!Create(s)
    <2>1. Past(s) /\ lock = s /\ database = Startup!Empty
      BY <1>4, StartupFacts DEF Startup!Create, Past, StartupInv, DraftsFit
    <2>2. [database EXCEPT !.metadata = TRUE, !.records = TRUE] = Startup!Unmarked
      BY <1>0, <2>1, SchemaIsMade
    <2>3. Startup!Unmarked \in Startup!Databases
      BY DatabasesDiffer DEF Databases
    <2>4. StartupInv'
      BY <1>0, <1>4, <2>1, <2>2, <2>3, StartupKeeps DEF Startup!Create
    <2> QED BY <1>0, <1>4, <2>4 DEF Startup!Create, StartsAreSound
  <1>5. CASE Startup!Mark(s)
    <2>1. /\ Past(s) /\ lock = s /\ database = Startup!Empty
          /\ draft[s] = Startup!Unmarked
      BY <1>5, StartupFacts DEF Startup!Mark, Past, StartupInv, DraftsFit
    <2>2. /\ database.version = None
          /\ [Startup!Unmarked EXCEPT !.version = Version[s]] = Startup!Whole(Version[s])
      BY <2>1, StartupFacts, SchemaIsMade
    <2>3. /\ at' = [at EXCEPT ![s] = "committing"] /\ lock' = s /\ database' = database
          /\ draft' = [draft EXCEPT ![s].version = Version[s]]
      BY <1>5, <2>1, <2>2 DEF Startup!Mark
    <2>4. draft' = [draft EXCEPT ![s] = Startup!Whole(Version[s])]
      BY <1>0, <2>1, <2>2, <2>3
    <2>5. Startup!Whole(Version[s]) \in Startup!Databases
      BY StartupFacts, DatabasesDiffer
    <2>6. StartupInv'
      BY <1>5, <2>1, <2>3, <2>4, <2>5, StartupKeeps DEF Startup!Mark
    <2> QED BY <1>0, <2>3, <2>6 DEF StartsAreSound
  <1>6. CASE Startup!Commit(s)
    <2>1. \A o \in Servers : at'[o] = at[o] \/ at'[o] \in {"up", "off"}
      BY <1>0, <1>6 DEF Startup!Commit
    <2> QED BY <1>6, <2>1, StartupCommit, StartupFacts DEF StartsAreSound
  <1>7. CASE Startup!Fail(s)
    <2>1. StartupInv'
      BY <1>0, <1>7, StartupKeeps DEF Startup!Fail
    <2> QED BY <1>0, <1>7, <2>1 DEF Startup!Fail, StartsAreSound
  <1>8. CASE Startup!Stop(s)
    <2>1. draft[s] = None /\ ~Past(s) /\ lock # s
      BY <1>0, <1>8 DEF Startup!Stop, StartupInv, OneIsPast, Past
    <2>2. StartupInv'
      BY <1>0, <1>8, <2>1, StartupKeeps DEF Startup!Stop
    <2> QED BY <1>0, <1>8, <2>2 DEF Startup!Stop, StartsAreSound
  <1> QED BY <1>1, <1>2, <1>3, <1>4, <1>5, <1>6, <1>7, <1>8 DEF Startup!Step

LEMMA StartupReset ==
  ASSUME StartupInv, Startup!Reset
  PROVE  StartupInv' /\ StartsAreSound
  <1>1. /\ \A s \in Servers : at[s] \in {"off", "refused"}
        /\ database' = Startup!Empty /\ UNCHANGED <<draft, lock, at>>
        /\ resets' = resets + 1 /\ database' \in Databases
    BY DEF Startup!Reset, Databases
  <1>2. Startup!TypeOK'
    BY <1>1, DatabasesDiffer DEF StartupInv, Startup!TypeOK
  <1>3. StartupInv'
    BY <1>1, <1>2 DEF StartupInv, OneIsPast, Past, DraftsFit, Startup!UpOnItsSchema
  <1> QED BY <1>1, <1>3 DEF StartsAreSound, StartupInv

LEMMA StartupStep == StartupInv /\ [Next]_vars => StartupInv' /\ StartsAreSound
  <1> SUFFICES ASSUME StartupInv, [Next]_vars
               PROVE  StartupInv' /\ StartsAreSound
    OBVIOUS
  <1>1. CASE Startup!Next
    BY <1>1, StartupServerStep, StartupReset DEF Startup!Next
  <1>2. CASE UNCHANGED startupVars
    <2>1. UNCHANGED <<database, draft, lock, at, resets>>
      BY <1>2 DEF startupVars
    <2>2. Startup!TypeOK' /\ Startup!UpOnItsSchema'
      BY <2>1 DEF StartupInv, Startup!TypeOK, Startup!UpOnItsSchema
    <2> QED BY <2>1, <2>2 DEF StartupInv, OneIsPast, Past, DraftsFit, StartsAreSound
  <1> QED BY <1>1, <1>2 DEF Next, vars

(* StartsLeaveOneSchema: whatever servers of whatever versions start, fail *)
(* and stop on one database, only a fresh one is written, with its schema  *)
(* whole, nobody is turned away without reason, and who is up finds the    *)
(* schema of its own version.                                              *)
THEOREM StartsAreOrderly == Spec => StartsLeaveOneSchema
  <1>1. Init => StartupInv
    BY StartupInit
  <1>2. StartupInv /\ [Next]_vars => StartupInv'
    BY StartupStep
  <1>3. StartupInv => Startup!TypeOK /\ Startup!UpOnItsSchema
    BY DEF StartupInv
  <1>4. StartupInv /\ [Next]_vars =>
          [\A s \in Servers : at'[s] # at[s] /\ at'[s] \in {"refused", "conflict"}
             => database \notin {Startup!Empty, Startup!Whole(Version[s])}]_(Startup!vars)
    BY StartupStep DEF StartsAreSound
  <1>5. StartupInv /\ [Next]_vars =>
          [database' # database => \/ resets' # resets
                                  \/ /\ database = Startup!Empty
                                     /\ \E v \in Versions : database' = Startup!Whole(v)]_(Startup!vars)
    BY StartupStep DEF StartsAreSound
  <1> QED BY <1>1, <1>2, <1>3, <1>4, <1>5, PTL
          DEF Spec, StartsLeaveOneSchema, Startup!NobodyIsTurnedAway, Startup!OnlyFreshIsWritten

-----------------------------------------------------------------------------
(* The end of the process. *)

(* What has happened to a request, and what the store and the server may   *)
(* still do for it.                                                        *)
RequestsFit == \A r \in HttpRequests :
  /\ operation[r].at = "none" <=> connection[r] = "none"
  /\ operation[r].at \in {"running", "streaming", "calling"} => connection[r] \in {"open", "left"}
  /\ operation[r].at \in {"none", "running"} => operation[r].calls < MaxCalls

ClosesInOrder ==
  /\ http \notin {"starting", "listening"} => started
  /\ http \in {"starting", "refused"} => \A r \in HttpRequests : connection[r] = "none"
  /\ http = "closed" => Shutdown!OpenConnections = {}
  /\ store # "open" => http = "closed"
  /\ exit \in {"closed", "failed"} => /\ store = "closed" \/ http = "refused"
                                     /\ Shutdown!Calling = {}

ShutdownInv == /\ Shutdown!TypeOK
               /\ RequestsFit
               /\ ClosesInOrder
               /\ Shutdown!CutOnlyIfLeft

LEMMA ShutdownInit == Init => ShutdownInv
  <1> SUFFICES ASSUME Init PROVE ShutdownInv
    OBVIOUS
  <1>1. /\ http = "starting" /\ handlers = Signals /\ started = FALSE /\ store = "open"
        /\ exit = None /\ connection = [r \in HttpRequests |-> "none"]
        /\ operation = [r \in HttpRequests |-> Shutdown!NoOperation]
    BY DEF Init, Shutdown!Init
  <1>2. /\ 0 \in 0..MaxCalls /\ 0 < MaxCalls
    BY ConstantsAreSound DEF Shutdown!SomeCalls
  <1>3. Shutdown!TypeOK
    BY <1>1, <1>2 DEF Shutdown!TypeOK, Shutdown!NoOperation
  <1>4. RequestsFit /\ Shutdown!CutOnlyIfLeft
    BY <1>1, <1>2 DEF RequestsFit, Shutdown!CutOnlyIfLeft, Shutdown!NoOperation
  <1>5. ClosesInOrder
    BY <1>1, NoneIsNothingElse DEF ClosesInOrder
  <1> QED BY <1>3, <1>4, <1>5 DEF ShutdownInv

(* A step of a request does not touch the server or the store.             *)
LEMMA RequestSteps ==
  ASSUME ShutdownInv, NEW r \in HttpRequests,
         \/ Shutdown!Arrive(r) \/ Shutdown!Call(r) \/ Shutdown!Return(r)
         \/ Shutdown!Respond(r) \/ Shutdown!ClientLeaves(r)
  PROVE  ShutdownInv'
  <1> USE DEF ShutdownInv, Shutdown!Runs
  <1>1. MaxCalls \in Nat \ {0}
    BY ConstantsAreSound DEF Shutdown!SomeCalls
  <1>2. exit = None /\ UNCHANGED <<http, handlers, started, store, exit>>
    BY DEF Shutdown!Arrive, Shutdown!Call, Shutdown!Return, Shutdown!Respond, Shutdown!ClientLeaves
  <1>3. PICK op, con : /\ operation' = [operation EXCEPT ![r] = op]
                       /\ connection' = [connection EXCEPT ![r] = con]
                       /\ op \in [at : {"none", "running", "streaming", "calling", "done", "cut"},
                                  calls : 0..MaxCalls]
                       /\ con \in {"none", "open", "answered", "left"}
                       /\ op.at = "none" <=> con = "none"
                       /\ op.at \in {"running", "streaming", "calling"} => con \in {"open", "left"}
                       /\ op.at \in {"none", "running"} => op.calls < MaxCalls
                       /\ op.at = "cut" => con = "left"
                       /\ con # "none" => connection[r] # "none" \/ http = "listening"
                       /\ con = "open" => connection[r] = "open" \/ http = "listening"
    <2> DEFINE Found(op, con) ==
          /\ operation' = [operation EXCEPT ![r] = op]
          /\ connection' = [connection EXCEPT ![r] = con]
          /\ op \in [at : {"none", "running", "streaming", "calling", "done", "cut"}, calls : 0..MaxCalls]
          /\ con \in {"none", "open", "answered", "left"}
          /\ op.at = "none" <=> con = "none"
          /\ op.at \in {"running", "streaming", "calling"} => con \in {"open", "left"}
          /\ op.at \in {"none", "running"} => op.calls < MaxCalls
          /\ op.at = "cut" => con = "left"
          /\ con # "none" => connection[r] # "none" \/ http = "listening"
          /\ con = "open" => connection[r] = "open" \/ http = "listening"
    <2> USE DEF Shutdown!TypeOK, RequestsFit, Shutdown!CutOnlyIfLeft
    <2>1. CASE Shutdown!Arrive(r)
      <3>1. PICK place \in {"running", "streaming"} : operation' = [operation EXCEPT ![r].at = place]
        BY <2>1 DEF Shutdown!Arrive
      <3>2. Found([operation[r] EXCEPT !.at = place], "open")
        BY <1>1, <2>1, <3>1 DEF Shutdown!Arrive
      <3> QED BY <3>2
    <2>2. CASE Shutdown!Call(r) /\ store = "open"
      <3>1. Found([at |-> "calling", calls |-> operation[r].calls + 1], connection[r])
        BY <1>1, <2>2 DEF Shutdown!Call
      <3> QED BY <3>1
    <2>3. CASE Shutdown!Call(r) /\ store # "open"
      <3>1. connection[r] = "left"
        BY <2>3 DEF Shutdown!Call, ClosesInOrder, Shutdown!OpenConnections
      <3>2. Found([operation[r] EXCEPT !.at = "cut"], connection[r])
        BY <1>1, <2>3, <3>1 DEF Shutdown!Call
      <3> QED BY <3>2
    <2>4. CASE Shutdown!Return(r)
      <3>1. PICK place \in {"running", "done"} :
              /\ operation' = [operation EXCEPT ![r].at = place]
              /\ place = "running" => operation[r].calls < MaxCalls
        BY <2>4 DEF Shutdown!Return
      <3>2. Found([operation[r] EXCEPT !.at = place], connection[r])
        BY <1>1, <2>4, <3>1 DEF Shutdown!Return
      <3> QED BY <3>2
    <2>5. CASE Shutdown!Respond(r)
      <3>1. Found(operation[r], "answered")
        BY <1>1, <2>5 DEF Shutdown!Respond
      <3> QED BY <3>1
    <2>6. CASE Shutdown!ClientLeaves(r)
      <3>1. Found(operation[r], "left")
        BY <1>1, <2>6 DEF Shutdown!ClientLeaves
      <3> QED BY <3>1
    <2> QED BY <2>1, <2>2, <2>3, <2>4, <2>5, <2>6
  <1>4. \A o \in HttpRequests : /\ operation'[o] = IF o = r THEN op ELSE operation[o]
                            /\ connection'[o] = IF o = r THEN con ELSE connection[o]
    BY <1>3 DEF Shutdown!TypeOK
  <1>5. Shutdown!TypeOK'
    BY <1>2, <1>3 DEF Shutdown!TypeOK
  <1>6. RequestsFit' /\ Shutdown!CutOnlyIfLeft'
    BY <1>3, <1>4 DEF RequestsFit, Shutdown!CutOnlyIfLeft
  <1>7. ClosesInOrder'
    BY <1>2, <1>3, <1>4, NoneIsNothingElse DEF ClosesInOrder, Shutdown!OpenConnections
  <1> QED BY <1>5, <1>6, <1>7

(* Signals, the server that closes, the store that closes. *)
LEMMA ClosingSteps ==
  ASSUME ShutdownInv,
         \/ \E s \in Signals : Shutdown!Signal(s) \/ Shutdown!SignalAgain(s)
         \/ Shutdown!Listen \/ Shutdown!ServerFailed
         \/ Shutdown!ServerClosed \/ Shutdown!StoreClosed
  PROVE  ShutdownInv'
  <1> USE DEF ShutdownInv, Shutdown!Runs
  <1>1. UNCHANGED <<connection, operation>>
    BY DEF Shutdown!Signal, Shutdown!SignalAgain, Shutdown!Listen, Shutdown!ServerFailed,
           Shutdown!ServerClosed, Shutdown!StoreClosed
  <1>2. RequestsFit' /\ Shutdown!CutOnlyIfLeft'
    BY <1>1 DEF RequestsFit, Shutdown!CutOnlyIfLeft
  <1>3. Shutdown!OpenConnections' = Shutdown!OpenConnections /\ Shutdown!Calling' = Shutdown!Calling
    BY <1>1 DEF Shutdown!OpenConnections, Shutdown!Calling
  <1>4. Shutdown!TypeOK' /\ ClosesInOrder'
    <2>1. ASSUME NEW s \in Signals, Shutdown!Signal(s)
          PROVE  Shutdown!TypeOK' /\ ClosesInOrder'
      BY <1>1, <1>3, <2>1 DEF Shutdown!Signal, Shutdown!TypeOK, ClosesInOrder
    <2>2. ASSUME NEW s \in Signals, Shutdown!SignalAgain(s)
          PROVE  Shutdown!TypeOK' /\ ClosesInOrder'
      BY <1>1, <1>3, <2>2 DEF Shutdown!SignalAgain, Shutdown!TypeOK, ClosesInOrder
    <2>3. CASE Shutdown!ServerClosed
      BY <1>1, <1>3, <2>3, NoneIsNothingElse
         DEF Shutdown!ServerClosed, Shutdown!TypeOK, ClosesInOrder
    <2>4. CASE Shutdown!StoreClosed
      BY <1>1, <1>3, <2>4 DEF Shutdown!StoreClosed, Shutdown!TypeOK, ClosesInOrder
    <2>5. CASE Shutdown!Listen
      BY <1>1, <1>3, <2>5, NoneIsNothingElse
         DEF Shutdown!Listen, Shutdown!TypeOK, ClosesInOrder
    <2>6. CASE Shutdown!ServerFailed
      <3>1. Shutdown!Calling = {}
        BY <2>6 DEF Shutdown!ServerFailed, ClosesInOrder, RequestsFit, Shutdown!Calling
      <3> QED BY <1>1, <1>3, <2>6, <3>1 DEF Shutdown!ServerFailed, Shutdown!TypeOK, ClosesInOrder
    <2> QED BY <2>1, <2>2, <2>3, <2>4, <2>5, <2>6
  <1> QED BY <1>2, <1>4

LEMMA ShutdownStep == ShutdownInv /\ [Next]_vars => ShutdownInv'
  <1> SUFFICES ASSUME ShutdownInv, [Next]_vars
               PROVE  ShutdownInv'
    OBVIOUS
  <1>1. CASE Shutdown!Next
    BY <1>1, RequestSteps, ClosingSteps DEF Shutdown!Next
  <1>2. CASE UNCHANGED shutdownVars
    BY <1>2 DEF shutdownVars, ShutdownInv, Shutdown!TypeOK, RequestsFit, ClosesInOrder,
                Shutdown!CutOnlyIfLeft, Shutdown!OpenConnections, Shutdown!Calling
  <1> QED BY <1>1, <1>2 DEF Next, vars

LEMMA ShutdownSuffices ==
  ShutdownInv => Shutdown!TypeOK /\ Shutdown!CutOnlyIfLeft /\ Shutdown!EndsBetweenCalls
  BY DEF ShutdownInv, ClosesInOrder, Shutdown!EndsBetweenCalls, Shutdown!OpenConnections

-----------------------------------------------------------------------------
(* Readiness. *)

(* A request that holds a connection is running; a connection in use is    *)
(* held by one request.  While the database is down every connection is a  *)
(* broken one, so who gets an answer of it has seen it up.                 *)
(* A request, and what is true of it alone.                                *)
Rows == [at : {"none", "call", "probe", "ping", "answered"},
         conn : Conns \cup {None},
         error : {None, "driver", "refused"},
         answer : {None, "ok", "refused", "driver", "unavailable"},
         sawUp : BOOLEAN]

RowFits(row, up) ==
  /\ row.conn # None => row.at \in {"call", "ping"}
  /\ up /\ row.at \notin {"none", "answered"} => row.sawUp
  /\ row.answer = "ok" => row.at = "answered" /\ row.sawUp

HeldOnce ==
  /\ \A r \in Readiness!Requests : request[r].conn # None => link[request[r].conn] = "used"
  /\ \A r, q \in Readiness!Requests : request[r].conn = request[q].conn /\ r # q
                                      => request[r].conn = None
  /\ \A c \in Conns : link[c] = "used" => \E r \in Readiness!Requests : request[r].conn = c

ReadinessInv ==
  /\ Readiness!TypeOK
  /\ HeldOnce
  /\ \A r \in Readiness!Requests : RowFits(request[r], db = "up")
  /\ db = "down" => \A c \in Conns : link[c] # "none" => c \in dead

LEMMA ReadinessInit == Init => ReadinessInv
  <1> SUFFICES ASSUME Init PROVE ReadinessInv
    OBVIOUS
  <1>1. /\ db = "up" /\ link = [c \in Conns |-> "none"] /\ dead = {} /\ idleError = FALSE
        /\ request = [r \in Readiness!Requests |-> Readiness!Nothing]
    BY DEF Init, Readiness!Init
  <1>2. Readiness!TypeOK
    BY <1>1 DEF Readiness!TypeOK, Readiness!Nothing
  <1>3. HeldOnce /\ \A r \in Readiness!Requests : RowFits(request[r], db = "up")
    BY <1>1, NoneIsNothingElse DEF HeldOnce, RowFits, Readiness!Nothing
  <1> QED BY <1>1, <1>2, <1>3 DEF ReadinessInv

(* A request goes on without its connection being touched.                 *)
LEMMA RequestGoesOn ==
  ASSUME ReadinessInv, NEW r \in Readiness!Requests, NEW row \in Rows,
         request' = [request EXCEPT ![r] = row],
         UNCHANGED <<db, link, dead>>, idleError' \in BOOLEAN,
         row.conn = request[r].conn,
         RowFits(row, db = "up")
  PROVE  ReadinessInv'
  <1> USE DEF ReadinessInv
  <1>1. \A q \in Readiness!Requests : request'[q] = IF q = r THEN row ELSE request[q]
    BY DEF Readiness!TypeOK
  <1>2. Readiness!TypeOK'
    BY DEF Readiness!TypeOK, Rows
  <1>3. HeldOnce'
    BY <1>1 DEF HeldOnce
  <1>4. \A q \in Readiness!Requests : RowFits(request'[q], db' = "up")
    BY <1>1
  <1> QED BY <1>2, <1>3, <1>4

(* A request is given a connection that nobody uses.                       *)
LEMMA RequestGets ==
  ASSUME ReadinessInv, NEW r \in Readiness!Requests, NEW c \in Conns,
         request[r].conn = None, request[r].at \in {"call", "ping"},
         link[c] # "used", db = "down" => link[c] # "none",
         request' = [request EXCEPT ![r] = [request[r] EXCEPT !.conn = c]],
         link' = [link EXCEPT ![c] = "used"],
         UNCHANGED <<db, dead, idleError>>
  PROVE  ReadinessInv'
  <1> USE DEF ReadinessInv
  <1> DEFINE row == [request[r] EXCEPT !.conn = c]
  <1>1. /\ request[r] \in Rows /\ row \in Rows /\ row.conn = c
        /\ row.at = request[r].at /\ row.sawUp = request[r].sawUp
        /\ row.answer = request[r].answer
    BY DEF Readiness!TypeOK, Rows
  <1> HIDE DEF row
  <1>2. \A q \in Readiness!Requests : request'[q] = IF q = r THEN row ELSE request[q]
    BY DEF Readiness!TypeOK, row
  <1>3. \A k \in Conns : link'[k] = IF k = c THEN "used" ELSE link[k]
    BY DEF Readiness!TypeOK
  <1>4. Readiness!TypeOK'
    BY <1>1, <1>3 DEF Readiness!TypeOK, Rows, row
  <1>5. HeldOnce'
    BY <1>1, <1>2, <1>3, NoneIsNothingElse DEF HeldOnce, Readiness!TypeOK
  <1>6. \A q \in Readiness!Requests : RowFits(request'[q], db' = "up")
    BY <1>1, <1>2 DEF RowFits
  <1> QED BY <1>3, <1>4, <1>5, <1>6

(* A request gives its connection back.                                    *)
LEMMA RequestReturns ==
  ASSUME ReadinessInv, NEW r \in Readiness!Requests, NEW row \in Rows, NEW c \in Conns,
         request[r].conn = c, row.conn = None,
         RowFits(row, db = "up"),
         request' = [request EXCEPT ![r] = row],
         link' = [link EXCEPT ![c] = IF c \in dead THEN "none" ELSE "idle"],
         dead' = dead \ {c},
         UNCHANGED <<db, idleError>>
  PROVE  ReadinessInv'
  <1> USE DEF ReadinessInv
  <1>1. \A q \in Readiness!Requests : request'[q] = IF q = r THEN row ELSE request[q]
    BY DEF Readiness!TypeOK
  <1>2. \A k \in Conns : link'[k] = IF k # c THEN link[k] ELSE IF c \in dead THEN "none" ELSE "idle"
    BY DEF Readiness!TypeOK
  <1>3. Readiness!TypeOK'
    BY <1>2 DEF Readiness!TypeOK, Rows
  <1>4. HeldOnce'
    BY <1>1, <1>2, NoneIsNothingElse DEF HeldOnce, Readiness!TypeOK
  <1>5. \A q \in Readiness!Requests : RowFits(request'[q], db' = "up")
    BY <1>1
  <1>6. link[c] = "used"
    BY NoneIsNothingElse DEF HeldOnce
  <1> QED BY <1>2, <1>3, <1>4, <1>5, <1>6

(* What a call or the probe makes of its outcome.                          *)
LEMMA OutcomesFit ==
  ASSUME ReadinessInv, NEW r \in Readiness!Requests, request[r].at \in {"call", "ping"}
  PROVE  /\ Readiness!AfterFailure(r) \in Rows
         /\ Readiness!AfterFailure(r).conn = None
         /\ RowFits(Readiness!AfterFailure(r), db = "up")
         /\ db = "up" => \A row \in Readiness!AfterSuccess(r) :
                           row \in Rows /\ row.conn = None /\ RowFits(row, db = "up")
  <1> DEFINE was == request[r]
  <1>1. /\ was \in Rows /\ was.answer # "ok"
        /\ db = "up" => was.sawUp
    BY DEF ReadinessInv, Readiness!TypeOK, Rows, RowFits
  <1> HIDE DEF was
  <1> USE <1>1 DEF Rows, RowFits
  <1>2. ASSUME NEW answer \in {"ok", "refused", "driver", "unavailable"},
               answer = "ok" => db = "up"
        PROVE  LET row == [was EXCEPT !.at = "answered", !.conn = None, !.answer = answer]
               IN  row \in Rows /\ row.conn = None /\ RowFits(row, db = "up")
    BY <1>2, NoneIsNothingElse
  <1>3. ASSUME NEW cause \in {"driver", "refused"}
        PROVE  LET row == [was EXCEPT !.at = "probe", !.conn = None, !.error = cause]
               IN  row \in Rows /\ row.conn = None /\ RowFits(row, db = "up")
    BY <1>3
  <1>4. was.error # None => was.error \in {"driver", "refused"}
    OBVIOUS
  <1>5. /\ Readiness!AfterFailure(r) \in Rows /\ Readiness!AfterFailure(r).conn = None
        /\ RowFits(Readiness!AfterFailure(r), db = "up")
    <2> USE DEF was, Readiness!AfterFailure, Readiness!At, Readiness!Answer
    <2>1. CASE was.at = "call"
      BY <1>3, <2>1
    <2>2. CASE was.at # "call"
      BY <1>2, <2>2
    <2> QED BY <2>1, <2>2
  <1>6. ASSUME db = "up", NEW row \in Readiness!AfterSuccess(r)
        PROVE  row \in Rows /\ row.conn = None /\ RowFits(row, db = "up")
    <2>1. \/ \E answer \in {"ok", "refused", "driver", "unavailable"} :
                row = [was EXCEPT !.at = "answered", !.conn = None, !.answer = answer]
          \/ row = [was EXCEPT !.at = "probe", !.conn = None, !.error = "refused"]
      BY <1>4, <1>6 DEF was, Readiness!AfterSuccess, Readiness!At, Readiness!Answer
    <2>2. CASE row = [was EXCEPT !.at = "probe", !.conn = None, !.error = "refused"]
      BY <1>3, <2>2
    <2>3. ASSUME NEW answer \in {"ok", "refused", "driver", "unavailable"},
                 row = [was EXCEPT !.at = "answered", !.conn = None, !.answer = answer]
          PROVE  row \in Rows /\ row.conn = None /\ RowFits(row, db = "up")
      <3> HIDE DEF Rows, RowFits
      <3> QED BY <1>2, <1>6, <2>3
    <2> QED BY <2>1, <2>2, <2>3
  <1> QED BY <1>5, <1>6

LEMMA ReadinessRequestStep ==
  ASSUME ReadinessInv, NEW r \in Readiness!Requests,
         \/ Readiness!Begin(r) \/ Readiness!Take(r) \/ Readiness!Finish(r)
         \/ Readiness!Check(r) \/ Readiness!Leave(r)
  PROVE  ReadinessInv'
  <1> USE DEF Readiness!At, Readiness!Set
  <1>1. request[r] \in Rows /\ RowFits(request[r], db = "up") /\ idleError \in BOOLEAN
    BY DEF ReadinessInv, Readiness!TypeOK, Rows
  <1>2. CASE Readiness!Begin(r)
    <2> DEFINE row == [Readiness!Nothing EXCEPT
                         !.at = IF r = Health THEN "probe" ELSE "call", !.sawUp = db = "up"]
    <2>1. row \in Rows /\ row.conn = None /\ RowFits(row, db = "up")
      BY NoneIsNothingElse DEF Rows, RowFits, Readiness!Nothing
    <2>2. request[r].conn = None
      BY <1>1, <1>2 DEF RowFits, Readiness!Begin
    <2> HIDE DEF row
    <2>3. request' = [request EXCEPT ![r] = row] /\ UNCHANGED <<db, link, dead, idleError>>
      BY <1>2 DEF Readiness!Begin, row
    <2> QED BY <1>1, <2>1, <2>2, <2>3, RequestGoesOn
  <1>3. CASE Readiness!Take(r)
    <2>1. CASE UNCHANGED link
      <3>1. /\ request' = [request EXCEPT ![r] = Readiness!AfterFailure(r)]
            /\ UNCHANGED <<db, link, dead, idleError>>
            /\ request[r].conn = None /\ request[r].at \in {"call", "ping"}
        BY <1>3, <2>1 DEF Readiness!Take, ReadinessInv, Readiness!TypeOK
      <3> QED BY <1>1, <3>1, OutcomesFit, RequestGoesOn
    <2>2. CASE ~ UNCHANGED link
      <3>1. PICK c \in Conns : /\ \/ link[c] = "idle"
                                  \/ link[c] = "none" /\ db = "up"
                               /\ link' = [link EXCEPT ![c] = "used"]
                               /\ request' = [request EXCEPT ![r] = [request[r] EXCEPT !.conn = c]]
        BY <1>3, <2>2 DEF Readiness!Take
      <3> QED BY <1>3, <3>1, RequestGets DEF Readiness!Take
    <2> QED BY <2>1, <2>2
  <1>4. CASE Readiness!Finish(r)
    <2>1. PICK c \in Conns : /\ request[r].conn = c
                             /\ link' = [link EXCEPT ![c] = IF c \in dead THEN "none" ELSE "idle"]
                             /\ dead' = dead \ {c}
                             /\ \E row \in IF c \in dead THEN {Readiness!AfterFailure(r)}
                                                         ELSE Readiness!AfterSuccess(r) :
                                  request' = [request EXCEPT ![r] = row]
      BY <1>4 DEF Readiness!Finish
    <2>2. PICK row \in IF c \in dead THEN {Readiness!AfterFailure(r)}
                                     ELSE Readiness!AfterSuccess(r) :
                 request' = [request EXCEPT ![r] = row]
      BY <2>1
    <2>3. request[r].at \in {"call", "ping"} /\ UNCHANGED <<db, idleError>>
      BY <1>4 DEF Readiness!Finish
    <2>4. c \notin dead => db = "up"
      BY <2>1, NoneIsNothingElse DEF ReadinessInv, HeldOnce, Readiness!TypeOK
    <2>5. row \in Rows /\ row.conn = None /\ RowFits(row, db = "up")
      BY <2>2, <2>3, <2>4, OutcomesFit
    <2> QED BY <2>1, <2>2, <2>3, <2>5, RequestReturns
  <1>5. CASE Readiness!Check(r)
    <2>1. request[r].at = "probe" /\ request[r].conn = None /\ request[r].answer # "ok"
      BY <1>1, <1>5 DEF Readiness!Check, RowFits
    <2>2. PICK row : /\ request' = [request EXCEPT ![r] = row]
                     /\ row = IF idleError THEN Readiness!Answer(r, "unavailable")
                              ELSE [request[r] EXCEPT !.at = "ping"]
      BY <1>5 DEF Readiness!Check
    <2>3. row \in Rows /\ row.conn = None /\ RowFits(row, db = "up")
      BY <1>1, <2>1, <2>2, NoneIsNothingElse DEF Rows, RowFits, Readiness!Answer
    <2>4. UNCHANGED <<db, link, dead>> /\ idleError' \in BOOLEAN
      BY <1>5 DEF Readiness!Check
    <2> QED BY <2>1, <2>2, <2>3, <2>4, RequestGoesOn
  <1>6. CASE Readiness!Leave(r)
    <2>1. /\ Readiness!Nothing \in Rows /\ Readiness!Nothing.conn = None
          /\ RowFits(Readiness!Nothing, db = "up")
      BY NoneIsNothingElse DEF Rows, RowFits, Readiness!Nothing
    <2>2. request[r].conn = None
      BY <1>1, <1>6 DEF RowFits, Readiness!Leave
    <2> QED BY <1>1, <1>6, <2>1, <2>2, RequestGoesOn DEF Readiness!Leave
  <1> QED BY <1>2, <1>3, <1>4, <1>5, <1>6

(* The database goes and comes back, connections break.                    *)
LEMMA ReadinessDatabaseStep ==
  ASSUME ReadinessInv,
         \/ Readiness!Outage \/ Readiness!Recover
         \/ \E c \in Conns : Readiness!Break(c) \/ Readiness!IdleError(c)
  PROVE  ReadinessInv'
  <1> USE DEF ReadinessInv
  <1>1. CASE Readiness!Outage
    <2>1. Readiness!TypeOK'
      BY <1>1 DEF Readiness!Outage, Readiness!TypeOK
    <2>2. HeldOnce' /\ \A r \in Readiness!Requests : RowFits(request'[r], db' = "up")
      BY <1>1 DEF Readiness!Outage, HeldOnce, RowFits
    <2> QED BY <1>1, <2>1, <2>2 DEF Readiness!Outage
  <1>2. CASE Readiness!Recover
    <2>1. \A r \in Readiness!Requests :
            /\ request'[r] = [request[r] EXCEPT
                               !.sawUp = @ \/ request[r].at \notin {"none", "answered"}]
            /\ request[r] \in Rows
      BY <1>2 DEF Readiness!Recover, Readiness!At, Readiness!TypeOK, Rows
    <2>2. \A r \in Readiness!Requests :
            /\ request'[r] \in Rows
            /\ request'[r].at = request[r].at /\ request'[r].conn = request[r].conn
            /\ request'[r].answer = request[r].answer
            /\ request'[r].sawUp = (request[r].sawUp \/ request[r].at \notin {"none", "answered"})
      BY <2>1, ZenonT(40) DEF Rows
    <2>3. Readiness!TypeOK'
      BY <1>2, <2>2 DEF Readiness!Recover, Readiness!TypeOK, Rows
    <2>4. HeldOnce'
      <3>1. link' = link /\ \A r \in Readiness!Requests : request'[r].conn = request[r].conn
        BY <1>2, <2>2 DEF Readiness!Recover
      <3> QED BY <3>1 DEF HeldOnce
    <2>5. \A r \in Readiness!Requests : RowFits(request'[r], db' = "up")
      BY <2>2 DEF RowFits
    <2> QED BY <1>2, <2>3, <2>4, <2>5 DEF Readiness!Recover
  <1>3. ASSUME NEW c \in Conns, Readiness!Break(c) PROVE ReadinessInv'
    <2>1. Readiness!TypeOK' /\ HeldOnce'
      BY <1>3 DEF Readiness!Break, Readiness!TypeOK, HeldOnce
    <2> QED BY <1>3, <2>1 DEF Readiness!Break
  <1>4. ASSUME NEW c \in Conns, Readiness!IdleError(c) PROVE ReadinessInv'
    <2>1. \A k \in Conns : link'[k] = IF k = c THEN "none" ELSE link[k]
      BY <1>4 DEF Readiness!IdleError, Readiness!TypeOK
    <2>2. Readiness!TypeOK'
      BY <1>4, <2>1 DEF Readiness!IdleError, Readiness!TypeOK
    <2>3. HeldOnce'
      BY <1>4, <2>1, NoneIsNothingElse DEF Readiness!IdleError, Readiness!TypeOK, HeldOnce
    <2> QED BY <1>4, <2>1, <2>2, <2>3 DEF Readiness!IdleError
  <1> QED BY <1>1, <1>2, <1>3, <1>4

LEMMA ReadinessStep == ReadinessInv /\ [Next]_vars => ReadinessInv'
  <1> SUFFICES ASSUME ReadinessInv, [Next]_vars
               PROVE  ReadinessInv'
    OBVIOUS
  <1>1. CASE Readiness!Next
    BY <1>1, ReadinessRequestStep, ReadinessDatabaseStep DEF Readiness!Next
  <1>2. CASE UNCHANGED readinessVars
    <2>1. UNCHANGED <<db, link, dead, idleError, request>>
      BY <1>2 DEF readinessVars
    <2> QED BY <2>1 DEF ReadinessInv, Readiness!TypeOK, HeldOnce, RowFits
  <1> QED BY <1>1, <1>2 DEF Next, vars

LEMMA ReadinessSuffices ==
  ReadinessInv => Readiness!TypeOK /\ Readiness!ConnectionsReturn /\ Readiness!HealthIsLive
  <1> SUFFICES ASSUME ReadinessInv
               PROVE  Readiness!ConnectionsReturn /\ Readiness!HealthIsLive
    BY DEF ReadinessInv
  <1>1. \A c \in Conns : link[c] = "used" <=> \E r \in Readiness!Requests : Readiness!Uses(c) = {r}
    <2> TAKE c \in Conns
    <2>1. ASSUME link[c] = "used"
          PROVE  \E r \in Readiness!Requests : Readiness!Uses(c) = {r}
      <3>1. PICK r \in Readiness!Requests : request[r].conn = c
        BY <2>1 DEF ReadinessInv, HeldOnce
      <3>2. Readiness!Uses(c) = {r}
        BY <3>1, NoneIsNothingElse DEF ReadinessInv, HeldOnce, Readiness!Uses
      <3> QED BY <3>2
    <2>2. ASSUME NEW r \in Readiness!Requests, Readiness!Uses(c) = {r}
          PROVE  link[c] = "used"
      BY <2>2, NoneIsNothingElse DEF ReadinessInv, HeldOnce, Readiness!Uses
    <2> QED BY <2>1, <2>2
  <1>2. Readiness!HealthIsLive
    BY DEF ReadinessInv, RowFits, Readiness!HealthIsLive, Readiness!Requests
  <1> QED BY <1>1, <1>2 DEF Readiness!ConnectionsReturn

(* NothingIsBrokenOff: with any number of requests, connections and        *)
(* signals, every connection goes back however its request ends, health is *)
(* answered 200 only for a database that was up meanwhile, and a shutdown  *)
(* cuts off neither an answer somebody waits for nor a store call.         *)
THEOREM NobodyIsCutOff == Spec => []NothingIsBrokenOff
  <1>1. Init => ReadinessInv /\ ShutdownInv
    BY ReadinessInit, ShutdownInit
  <1>2. (ReadinessInv /\ ShutdownInv) /\ [Next]_vars => (ReadinessInv /\ ShutdownInv)'
    BY ReadinessStep, ShutdownStep
  <1>3. ReadinessInv /\ ShutdownInv => NothingIsBrokenOff
    BY ReadinessSuffices, ShutdownSuffices DEF NothingIsBrokenOff
  <1> QED BY <1>1, <1>2, <1>3, PTL DEF Spec

-----------------------------------------------------------------------------
(* The screen. *)

Shown == {None} \cup [workspace : Workspaces, id : Screen!Ids]

Screens == [workspace : Workspaces \cup {None}, projections : SUBSET Screen!Ids,
            shown : Shown, depth : Nat]

Entries == [workspace : Workspaces \cup {None}, projection : Screen!Ids \cup {None}, depth : Nat]

Mutations == {"write", "create", "delete", "new"}

Ops == [kind : Mutations \cup {"load", "pop", "link"}, target : Workspaces \cup {None},
        projection : Screen!Ids \cup {None}, shown : Shown, depth : Nat,
        gone : SUBSET Screen!Ids, at : {"queued", "list", "send", "get"}]

(* Where nothing is loaded, nothing is shown.                              *)
EntriesFit == /\ entries \in Seq(Entries)
              /\ pos \in DOMAIN entries
              /\ \A i \in DOMAIN entries : entries[i].workspace = None => entries[i].depth = 0

ScreenFits == /\ screen \in Screens
              /\ screen.workspace = None => screen = Screen!Blank

(* An operation that is executed knows its workspace; a mutation was asked *)
(* for on the screen that is still there.                                  *)
OpFits(op, w, shown) ==
  /\ op.at \notin {"queued", "list"} => op.target \in Workspaces
  /\ op.at = "list" => op.kind = "link"
  /\ op.kind \notin {"pop", "link"} => op.target \in Workspaces
  /\ op.at = "send" => op.kind \in Mutations
  /\ op.kind \in Mutations \ {"new"} => op.target = w /\ op.shown = shown

(* Only the browser asks for something while an operation is pending.      *)
QueueFits == /\ queue \in Seq(Ops)
             /\ \A i \in DOMAIN queue : OpFits(queue[i], screen.workspace, screen.shown)
             /\ \A i \in DOMAIN queue : i > 1 => queue[i].kind = "pop" /\ queue[i].at = "queued"

Matches == /\ screen.workspace = Screen!Here.workspace
           /\ \/ screen.shown = None \/ Screen!Here.projection = None
              \/ screen.shown = Screen!Of(Screen!Here.workspace, Screen!Here.projection)
           /\ screen.depth = Screen!Here.depth

(* While nothing has failed or overtaken: a control works on a screen that *)
(* matches, the last navigation of the queue is the one to where the tab   *)
(* is, and it loads what it has read of the location.                      *)
Located == /\ queue[1].at \in {"list", "get"} => queue[1].target = Screen!Here.workspace
           /\ queue[1].at = "get" => queue[1].projection = Screen!Here.projection

InStepFits ==
  /\ queue = <<>> => Matches
  /\ queue # <<>> /\ queue[1].kind = "pop"
       => /\ queue[Len(queue)].depth = Screen!Here.depth \/ Screen!Here.workspace = None
          /\ Len(queue) = 1 => Located
  /\ queue # <<>> /\ queue[1].kind = "link"
       => /\ Len(queue) = 1 /\ screen.depth = 0 /\ Located
          /\ Matches \/ screen = Screen!Blank
  /\ queue # <<>> /\ queue[1].kind \notin {"pop", "link"} => Len(queue) = 1 /\ Matches

ScreenInv == /\ server \in [Workspaces -> SUBSET Screen!Ids]
             /\ saved \in Screen!Ids
             /\ choice \in Workspaces \cup {None}
             /\ error \in BOOLEAN /\ inStep \in BOOLEAN
             /\ EntriesFit
             /\ ScreenFits
             /\ QueueFits
             /\ inStep => InStepFits

(* The latest projection is one of them. *)
LEMMA LeastNumber ==
  ASSUME NEW T, T \subseteq Nat, T # {}
  PROVE  \E m \in T : \A k \in T : m <= k
  <1> DEFINE R == OpToRel(<, Nat)
  <1>1. IsWellFoundedOn(R, Nat)
    BY NatLessThanWellFounded
  <1>2. \A x, y \in Nat : x < y => <<x, y>> \in R
    BY DEF OpToRel
  <1> HIDE DEF R
  <1>3. PICK m \in T : \A y \in T : <<y, m>> \notin R
    BY <1>1, WFMin
  <1>4. ASSUME NEW k \in T PROVE m <= k
    <2>1. m \in Nat /\ k \in Nat /\ ~(k < m)
      BY <1>2, <1>3
    <2> QED BY <2>1
  <1> QED BY <1>4

LEMMA InitialIsSaved ==
  ASSUME NEW ids \in SUBSET Screen!Ids
  PROVE  Screen!InitialOf(ids) \in ids \cup {None}
  <1>1. CASE ids = {}
    BY <1>1 DEF Screen!InitialOf
  <1>2. CASE ids # {}
    <2> DEFINE T == {n \in Nat : \A x \in ids : x <= n}
    <2>0. MaxProjections \in Nat /\ \A x \in ids : x \in Nat /\ 1 <= x /\ x <= MaxProjections
      BY ConstantsAreSound DEF Screen!Ids
    <2>1. MaxProjections \in T
      BY <2>0
    <2>2. PICK m \in T : \A k \in T : m <= k
      BY <2>1, LeastNumber
    <2>3. m \in ids
      <3>1. SUFFICES ASSUME m \notin ids PROVE FALSE
        OBVIOUS
      <3>2. m \in Nat /\ \A x \in ids : x <= m - 1
        BY <2>0, <3>1
      <3>3. m - 1 \in Nat
        BY <1>2, <2>0, <3>2
      <3>4. m - 1 \in T
        BY <3>2, <3>3
      <3> QED BY <2>2, <3>2, <3>4
    <2>4. \A x \in ids : m >= x
      BY <2>0
    <2> QED BY <1>2, <2>3, <2>4 DEF Screen!InitialOf, Screen!Max
  <1> QED BY <1>1, <1>2

LEMMA EntryIsTyped ==
  ASSUME NEW w, NEW p, NEW d
  PROVE  /\ Screen!Entry(w, p, d).workspace = w
         /\ Screen!Entry(w, p, d).projection = p
         /\ Screen!Entry(w, p, d).depth = d
         /\ w \in Workspaces \cup {None} /\ p \in Screen!Ids \cup {None} /\ d \in Nat
              => Screen!Entry(w, p, d) \in Entries
  BY DEF Screen!Entry, Entries

LEMMA OfIsTyped ==
  ASSUME NEW w \in Workspaces, NEW p \in Screen!Ids \cup {None}
  PROVE  /\ Screen!Of(w, p) \in Shown
         /\ p # None => Screen!Of(w, p) # None /\ Screen!Of(w, p).id = p
  BY NoneIsNothingElse DEF Screen!Of, Shown, Screen!Ids

(* What the history is after a change of it. *)
LEMMA Replaced ==
  ASSUME EntriesFit, NEW w \in Workspaces \cup {None}, NEW p \in Screen!Ids \cup {None},
         NEW d \in Nat, w = None => d = 0, Screen!Replace(w, p, d)
  PROVE  EntriesFit' /\ Screen!Here' = Screen!Entry(w, p, d)
  <1> DEFINE e == Screen!Entry(w, p, d)
  <1>1. e \in Entries /\ e.workspace = w /\ e.depth = d
    BY EntryIsTyped
  <1> HIDE DEF e
  <1>2. entries' = [entries EXCEPT ![pos] = e] /\ pos' = pos
    BY DEF Screen!Replace, e
  <1>3. entries' \in Seq(Entries) /\ DOMAIN entries' = DOMAIN entries /\ entries'[pos] = e
    BY <1>1, <1>2 DEF EntriesFit
  <1>4. \A i \in DOMAIN entries' : entries'[i].workspace = None => entries'[i].depth = 0
    <2>1. \A i \in DOMAIN entries' : entries'[i] = IF i = pos THEN e ELSE entries[i]
      BY <1>2, <1>3
    <2>2. \A i \in DOMAIN entries : entries[i].workspace = None => entries[i].depth = 0
      BY DEF EntriesFit
    <2>3. e.workspace = None => e.depth = 0
      BY <1>1
    <2> QED BY <1>3, <2>1, <2>2, <2>3
  <1> QED BY <1>2, <1>3, <1>4 DEF EntriesFit, Screen!Here, e

LEMMA Pushed ==
  ASSUME EntriesFit, NEW w \in Workspaces, NEW p \in Screen!Ids \cup {None},
         NEW d \in Nat, Screen!Push(w, p, d)
  PROVE  EntriesFit' /\ Screen!Here' = Screen!Entry(w, p, d)
  <1> DEFINE e == Screen!Entry(w, p, d)
             kept == SubSeq(entries, 1, pos)
  <1>1. e \in Entries /\ e.workspace # None
    BY EntryIsTyped, NoneIsNothingElse
  <1> HIDE DEF e
  <1>2. pos \in 1..Len(entries) /\ Len(entries) \in Nat /\ entries \in Seq(Entries)
    BY DEF EntriesFit
  <1>3. /\ kept \in Seq(Entries) /\ Len(kept) = pos
        /\ \A i \in 1..pos : kept[i] = entries[i]
    BY <1>2
  <1>4. entries' = Append(kept, e) /\ pos' = pos + 1
    BY DEF Screen!Push, e
  <1> HIDE DEF kept
  <1>5. /\ entries' \in Seq(Entries) /\ Len(entries') = pos + 1 /\ entries'[pos + 1] = e
        /\ \A i \in 1..pos : entries'[i] = kept[i]
    BY <1>1, <1>2, <1>3, <1>4
  <1>6. \A i \in DOMAIN entries' : entries'[i].workspace = None => entries'[i].depth = 0
    BY <1>1, <1>2, <1>3, <1>5 DEF EntriesFit
  <1> QED BY <1>2, <1>4, <1>5, <1>6 DEF EntriesFit, Screen!Here, e

(* Who asks for something on a quiet screen becomes the only operation.    *)
LEMMA Asked ==
  ASSUME ScreenInv, queue = <<>>, NEW op \in Ops,
         queue' = <<op>> \/ queue' = Append(queue, op), op.at = "queued",
         OpFits(op, screen.workspace, screen.shown), op.kind # "pop",
         UNCHANGED <<server, saved, entries, pos, screen, choice, error>>,
         inStep' = IF op.kind = "link" THEN inStep /\ screen.depth = 0 ELSE inStep
  PROVE  ScreenInv'
  <1> USE DEF ScreenInv
  <1>1. /\ queue' \in Seq(Ops) /\ queue' # <<>> /\ Len(queue') = 1
        /\ queue'[1] = op /\ DOMAIN queue' = {1}
    <2>1. Append(queue, op) = <<op>>
      OBVIOUS
    <2>2. queue' = <<op>>
      BY <2>1
    <2> QED BY <2>2
  <1>2. QueueFits'
    BY <1>1 DEF QueueFits
  <1>3. EntriesFit' /\ ScreenFits'
    BY DEF EntriesFit, ScreenFits
  <1>4. inStep' \in BOOLEAN /\ (inStep' => inStep)
        /\ (inStep' /\ op.kind = "link" => inStep /\ screen.depth = 0)
    BY DEF ScreenInv
  <1>5. ASSUME inStep' PROVE InStepFits'
    <2>1. Matches'
      BY <1>4, <1>5 DEF InStepFits, Matches, Screen!Here
    <2>2. Located'
      BY <1>1 DEF Located
    <2> QED BY <1>1, <1>4, <1>5, <2>1, <2>2 DEF InStepFits
  <1> QED BY <1>2, <1>3, <1>4, <1>5

(* The running operation goes on, and nothing else moves.                  *)
LEMMA GoesOn ==
  ASSUME ScreenInv, queue # <<>>, NEW op \in Ops,
         queue' = [queue EXCEPT ![1] = op],
         op.kind = queue[1].kind, op.depth = queue[1].depth,
         OpFits(op, screen.workspace, screen.shown),
         op.kind \in {"pop", "link"} =>
           /\ op.at \in {"list", "get"} => op.target = Screen!Here.workspace
           /\ op.at = "get" => op.projection = Screen!Here.projection,
         server' \in [Workspaces -> SUBSET Screen!Ids], saved' \in Screen!Ids,
         choice' \in Workspaces \cup {None}, error' \in BOOLEAN,
         UNCHANGED <<entries, pos, screen, inStep>>
  PROVE  ScreenInv'
  <1> USE DEF ScreenInv
  <1>1. /\ queue \in Seq(Ops) /\ Len(queue) \in Nat /\ 1 \in DOMAIN queue
        /\ DOMAIN queue = 1..Len(queue)
    BY DEF QueueFits
  <1>2. /\ queue' \in Seq(Ops) /\ queue' # <<>> /\ Len(queue') = Len(queue)
        /\ DOMAIN queue' = DOMAIN queue /\ queue'[1] = op
        /\ \A i \in DOMAIN queue : i # 1 => queue'[i] = queue[i]
    BY <1>1
  <1>3. QueueFits'
    BY <1>1, <1>2 DEF QueueFits
  <1>4. EntriesFit' /\ ScreenFits'
    BY DEF EntriesFit, ScreenFits
  <1>5. queue'[Len(queue')].depth = queue[Len(queue)].depth
    BY <1>1, <1>2
  <1>6. ASSUME inStep' PROVE InStepFits'
    <2>1. InStepFits /\ Screen!Here' = Screen!Here /\ (Matches' <=> Matches)
      BY <1>6 DEF Screen!Here, Matches
    <2>2. op.kind \in {"pop", "link"} => Located'
      BY <1>2, <2>1 DEF Located
    <2> QED BY <1>2, <1>5, <2>1, <2>2 DEF InStepFits
  <1> QED BY <1>3, <1>4, <1>6

(* The running operation leaves the queue; what waits behind it are        *)
(* navigations of the browser.                                             *)
LEMMA Leaves ==
  ASSUME ScreenInv, queue # <<>>, queue' = Tail(queue),
         UNCHANGED <<server, saved>>,
         choice' \in Workspaces \cup {None}, error' \in BOOLEAN, inStep' \in BOOLEAN,
         EntriesFit', ScreenFits',
         inStep' /\ Len(queue) = 1 => Matches',
         inStep' /\ Len(queue) > 1
           => /\ inStep /\ queue[1].kind = "pop"
              /\ Screen!Here' = Screen!Here \/ Screen!Here'.workspace = None
  PROVE  ScreenInv'
  <1> USE DEF ScreenInv
  <1>1. /\ queue \in Seq(Ops) /\ Len(queue) \in Nat \ {0}
        /\ DOMAIN queue = 1..Len(queue)
    BY DEF QueueFits
  <1>2. /\ queue' \in Seq(Ops) /\ Len(queue') = Len(queue) - 1
        /\ DOMAIN queue' = 1..(Len(queue) - 1)
        /\ \A i \in 1..(Len(queue) - 1) : queue'[i] = queue[i + 1]
    BY <1>1
  <1>3. \A i \in DOMAIN queue' : queue'[i].kind = "pop" /\ queue'[i].at = "queued"
    BY <1>1, <1>2 DEF QueueFits
  <1>4. QueueFits'
    BY <1>2, <1>3 DEF QueueFits, OpFits, Mutations
  <1>5. ASSUME inStep' PROVE InStepFits'
    <2>1. CASE Len(queue) = 1
      BY <1>1, <1>2, <1>5, <2>1 DEF InStepFits
    <2>2. CASE Len(queue) > 1
      <3>1. /\ queue' # <<>> /\ queue'[1].kind = "pop" /\ queue'[1].at = "queued"
            /\ queue'[Len(queue')] = queue[Len(queue)]
        <4>1. 1 \in DOMAIN queue' /\ Len(queue) - 1 \in 1..(Len(queue) - 1)
          BY <1>1, <1>2, <2>2
        <4>2. (Len(queue) - 1) + 1 = Len(queue)
          BY <1>1
        <4>3. queue'[1].kind = "pop" /\ queue'[1].at = "queued"
          BY <1>3, <4>1
        <4>4. queue' # <<>>
          <5>1. \A n \in Nat \ {0} : n > 1 => n - 1 # 0
            OBVIOUS
          <5>2. Len(queue') # 0
            BY <1>1, <1>2, <2>2, <5>1
          <5> QED BY <5>2
        <4>5. queue'[Len(queue) - 1] = queue[(Len(queue) - 1) + 1]
          BY <1>2, <4>1
        <4> QED BY <1>2, <4>2, <4>3, <4>4, <4>5
      <3>2. queue[Len(queue)].depth = Screen!Here.depth \/ Screen!Here.workspace = None
        BY <1>5, <2>2 DEF InStepFits
      <3>3. queue'[Len(queue')].depth = Screen!Here'.depth \/ Screen!Here'.workspace = None
        BY <1>5, <2>2, <3>1, <3>2
      <3>4. Located'
        BY <3>1 DEF Located
      <3> QED BY <3>1, <3>3, <3>4 DEF InStepFits
    <2> QED BY <1>1, <2>1, <2>2
  <1> QED BY <1>4, <1>5

(* The user and the other clients of the server. *)
LEMMA ControlSteps ==
  ASSUME ScreenInv,
         \/ \E w \in Workspaces : \/ Screen!Choose(w) \/ Screen!CreateWorkspace(w)
                                  \/ \E p \in 1..MaxProjections : Screen!AgentDeletes(w, p)
         \/ Screen!Load \/ Screen!SetToken
         \/ \E kind \in {"write", "create", "delete"} : Screen!Request(kind)
  PROVE  ScreenInv'
  <1> USE DEF ScreenInv, Screen!CanAct, Screen!Busy
  <1>1. ASSUME NEW kind \in Mutations \cup {"load", "link"}, NEW target \in Workspaces \cup {None},
               kind # "link" => target \in Workspaces,
               kind \in Mutations \ {"new"} => target = screen.workspace
        PROVE  LET op == Screen!Operation(kind, target)
               IN  /\ op \in Ops /\ op.at = "queued" /\ op.kind = kind
                   /\ OpFits(op, screen.workspace, screen.shown)
    BY <1>1 DEF Screen!Operation, Ops, OpFits, Mutations, ScreenFits, Screens
  <1>2. ASSUME NEW w \in Workspaces, Screen!Choose(w) PROVE ScreenInv'
    <2>1. UNCHANGED <<server, saved, entries, pos, screen, error, queue, inStep>> /\ choice' = w
      BY <1>2 DEF Screen!Choose
    <2>2. EntriesFit' /\ ScreenFits' /\ QueueFits' /\ (InStepFits' <=> InStepFits)
      BY <2>1 DEF EntriesFit, ScreenFits, QueueFits, InStepFits, Matches, Located, Screen!Here
    <2> QED BY <2>1, <2>2
  <1>3. ASSUME NEW w \in Workspaces, NEW p \in 1..MaxProjections, Screen!AgentDeletes(w, p)
        PROVE  ScreenInv'
    <2>1. /\ UNCHANGED <<saved, entries, pos, screen, choice, error, queue, inStep>>
          /\ server' \in [Workspaces -> SUBSET Screen!Ids]
      BY <1>3 DEF Screen!AgentDeletes
    <2>2. EntriesFit' /\ ScreenFits' /\ QueueFits' /\ (InStepFits' <=> InStepFits)
      BY <2>1 DEF EntriesFit, ScreenFits, QueueFits, InStepFits, Matches, Located, Screen!Here
    <2> QED BY <2>1, <2>2
  <1>4. ASSUME NEW w \in Workspaces, Screen!CreateWorkspace(w) PROVE ScreenInv'
    <2> DEFINE op == Screen!Operation("new", w)
    <2>1. op \in Ops /\ op.at = "queued" /\ op.kind = "new"
          /\ OpFits(op, screen.workspace, screen.shown)
      BY <1>1 DEF Mutations
    <2>2. /\ queue = <<>> /\ queue' = Append(queue, op)
          /\ UNCHANGED <<server, saved, entries, pos, screen, choice, error, inStep>>
      BY <1>4 DEF Screen!CreateWorkspace, Screen!Enqueue
    <2> HIDE DEF op
    <2> QED BY <2>1, <2>2, Asked
  <1>5. CASE Screen!Load
    <2> DEFINE op == Screen!Operation("load", choice)
    <2>1. op \in Ops /\ op.at = "queued" /\ op.kind = "load"
          /\ OpFits(op, screen.workspace, screen.shown)
      BY <1>1, <1>5 DEF Mutations, Screen!Load
    <2>2. /\ queue = <<>> /\ queue' = Append(queue, op)
          /\ UNCHANGED <<server, saved, entries, pos, screen, choice, error, inStep>>
      BY <1>5 DEF Screen!Load, Screen!Enqueue
    <2> HIDE DEF op
    <2> QED BY <2>1, <2>2, Asked
  <1>6. ASSUME NEW kind \in {"write", "create", "delete"}, Screen!Request(kind) PROVE ScreenInv'
    <2> DEFINE op == Screen!Operation(kind, screen.workspace)
    <2>1. screen.workspace \in Workspaces
      BY <1>6 DEF Screen!Request, ScreenFits, Screens
    <2>2. op \in Ops /\ op.at = "queued" /\ op.kind = kind
          /\ OpFits(op, screen.workspace, screen.shown)
      BY <1>1, <2>1 DEF Mutations
    <2>3. /\ queue = <<>> /\ queue' = Append(queue, op)
          /\ UNCHANGED <<server, saved, entries, pos, screen, choice, error, inStep>>
      BY <1>6 DEF Screen!Request, Screen!Enqueue
    <2> HIDE DEF op
    <2> QED BY <2>2, <2>3, Asked
  <1>7. CASE Screen!SetToken
    <2> DEFINE op == Screen!Operation("link", None)
    <2>1. op \in Ops /\ op.at = "queued" /\ op.kind = "link"
          /\ OpFits(op, screen.workspace, screen.shown)
      BY <1>1 DEF Mutations
    <2>2. /\ queue = <<>> /\ queue' = Append(queue, op)
          /\ UNCHANGED <<server, saved, entries, pos, screen, choice, error>>
          /\ inStep' = (inStep /\ screen.depth = 0)
      BY <1>7 DEF Screen!SetToken, Screen!Enqueue
    <2> HIDE DEF op
    <2> QED BY <2>1, <2>2, Asked
  <1> QED BY <1>2, <1>3, <1>4, <1>5, <1>6, <1>7

(* What is done on the spot. *)
LEMMA OpenStep ==
  ASSUME ScreenInv, NEW p \in Screen!Ids, NEW mode \in {"push", "replace"}, Screen!Open(p, mode)
  PROVE  ScreenInv'
  <1> USE DEF ScreenInv, Screen!CanAct, Screen!Busy
  <1> DEFINE depth == IF mode = "push" THEN screen.depth + 1 ELSE 0
             w == screen.workspace
  <1>1. w \in Workspaces /\ depth \in Nat
    BY DEF Screen!Open, ScreenFits, Screens, Screen!Blank
  <1>2. /\ queue = <<>> /\ UNCHANGED <<server, saved, choice, error, queue, inStep>>
        /\ screen' = [screen EXCEPT !.shown = Screen!Of(w, p), !.depth = depth]
        /\ Screen!Push(w, p, depth) \/ Screen!Replace(w, p, depth)
    BY DEF Screen!Open
  <1> HIDE DEF depth
  <1>3. Screen!Of(w, p) \in Shown
    BY <1>1, OfIsTyped
  <1>4. /\ screen' \in Screens /\ screen'.workspace = w
        /\ screen'.shown = Screen!Of(w, p) /\ screen'.depth = depth
    BY <1>1, <1>2, <1>3 DEF ScreenFits, Screens
  <1>5. EntriesFit' /\ Screen!Here' = Screen!Entry(w, p, depth)
    BY <1>1, <1>2, Pushed, Replaced, NoneIsNothingElse
  <1>6. Matches'
    BY <1>4, <1>5, EntryIsTyped DEF Matches
  <1>7. ScreenFits' /\ QueueFits'
    BY <1>1, <1>2, <1>4, NoneIsNothingElse DEF ScreenFits, QueueFits
  <1> QED BY <1>2, <1>5, <1>6, <1>7 DEF InStepFits

LEMMA BlankIsTyped ==
  /\ Screen!Blank \in Screens
  /\ Screen!Blank.workspace = None /\ Screen!Blank.shown = None /\ Screen!Blank.depth = 0
  BY DEF Screen!Blank, Screens, Shown

LEMMA ClearTokenStep == ASSUME ScreenInv, Screen!ClearToken PROVE ScreenInv'
  <1> USE DEF ScreenInv, Screen!CanAct, Screen!Busy
  <1>1. /\ queue = <<>> /\ UNCHANGED <<server, saved, queue>>
        /\ screen' = Screen!Blank /\ choice' = None /\ error' = FALSE /\ inStep' = TRUE
        /\ Screen!Replace(None, None, 0)
    BY DEF Screen!ClearToken
  <1>2. EntriesFit' /\ Screen!Here' = Screen!Entry(None, None, 0)
    BY <1>1, Replaced
  <1>3. Matches'
    BY <1>1, <1>2, BlankIsTyped, EntryIsTyped DEF Matches
  <1>4. ScreenFits' /\ QueueFits'
    BY <1>1, BlankIsTyped DEF ScreenFits, QueueFits
  <1> QED BY <1>1, <1>2, <1>3, <1>4 DEF InStepFits

(* After a reload there is the operation that loads the location.          *)
LEMMA ReloadStep == ASSUME ScreenInv, Screen!Reload PROVE ScreenInv'
  <1> USE DEF ScreenInv
  <1> DEFINE op == [kind |-> "link", target |-> None, projection |-> None,
                    shown |-> None, depth |-> 0, gone |-> {}, at |-> "queued"]
  <1>1. /\ UNCHANGED <<server, saved, entries, pos>>
        /\ screen' = Screen!Blank /\ choice' = Screen!Here.workspace
        /\ error' = FALSE /\ inStep' = TRUE
        /\ queue' = <<op>>
    BY DEF Screen!Reload
  <1>2. op \in Ops /\ op.kind = "link" /\ op.at = "queued"
    BY DEF Ops, Shown
  <1>3. \A w, shown : OpFits(op, w, shown)
    BY DEF OpFits, Mutations
  <1> HIDE DEF op
  <1>4. /\ queue' \in Seq(Ops) /\ queue' # <<>> /\ Len(queue') = 1
        /\ queue'[1] = op /\ DOMAIN queue' = {1}
    BY <1>1, <1>2
  <1>5. QueueFits'
    BY <1>3, <1>4 DEF QueueFits
  <1>6. EntriesFit' /\ ScreenFits'
    BY <1>1, BlankIsTyped DEF EntriesFit, ScreenFits
  <1>7. InStepFits'
    BY <1>1, <1>2, <1>4, BlankIsTyped DEF InStepFits, Located
  <1>8. choice' \in Workspaces \cup {None}
    <2>1. Screen!Here \in Entries
      BY DEF EntriesFit, Screen!Here
    <2> QED BY <1>1, <2>1 DEF Entries
  <1> QED BY <1>1, <1>5, <1>6, <1>7, <1>8

(* The browser goes to another entry, busy or not.                         *)
LEMMA GoStep == ASSUME ScreenInv, NEW to \in Int, Screen!Go(to) PROVE ScreenInv'
  <1> USE DEF ScreenInv
  <1> DEFINE op == [Screen!Operation("pop", None) EXCEPT !.depth = entries[to].depth]
  <1>1. /\ to \in DOMAIN entries /\ pos' = to /\ queue' = Append(queue, op)
        /\ UNCHANGED <<server, saved, entries, screen, choice, error>>
        /\ inStep' = (inStep /\ \A i \in DOMAIN queue : queue[i].kind = "pop")
    BY DEF Screen!Go, Screen!Enqueue
  <1>2. entries[to] \in Entries /\ entries[to].depth \in Nat
    <2>1. entries[to] \in Entries
      BY <1>1 DEF EntriesFit
    <2> QED BY <2>1 DEF Entries
  <1>3. /\ op \in Ops /\ op.kind = "pop" /\ op.at = "queued" /\ op.depth = entries[to].depth
        /\ OpFits(op, screen.workspace, screen.shown)
    BY <1>2 DEF Screen!Operation, Ops, OpFits, Mutations, ScreenFits, Screens
  <1> HIDE DEF op
  <1>4. queue \in Seq(Ops) /\ Len(queue) \in Nat /\ DOMAIN queue = 1..Len(queue)
    BY DEF QueueFits
  <1>5. /\ queue' \in Seq(Ops) /\ Len(queue') = Len(queue) + 1
        /\ DOMAIN queue' = 1..(Len(queue) + 1)
        /\ queue'[Len(queue) + 1] = op
        /\ \A i \in DOMAIN queue : queue'[i] = queue[i]
    BY <1>1, <1>3, <1>4
  <1>6. QueueFits'
    <2>1. \A i \in DOMAIN queue' : i \in DOMAIN queue \/ i = Len(queue) + 1
      BY <1>4, <1>5
    <2>2. \A i \in DOMAIN queue' : /\ OpFits(queue'[i], screen.workspace, screen.shown)
                                   /\ i > 1 => queue'[i].kind = "pop" /\ queue'[i].at = "queued"
      BY <1>3, <1>5, <2>1 DEF QueueFits
    <2> QED BY <1>1, <1>5, <2>2 DEF QueueFits
  <1>7. EntriesFit' /\ ScreenFits'
    BY <1>1 DEF EntriesFit, ScreenFits
  <1>8. ASSUME inStep' PROVE InStepFits'
    <2>1. inStep /\ \A i \in DOMAIN queue : queue[i].kind = "pop"
      BY <1>1, <1>8
    <2>2. queue' # <<>> /\ queue'[Len(queue')].depth = Screen!Here'.depth
      BY <1>1, <1>3, <1>4, <1>5 DEF Screen!Here
    <2>3. queue'[1].kind = "pop"
      BY <1>3, <1>4, <1>5, <2>1
    <2>4. Len(queue') = 1 => queue'[1].at = "queued"
      BY <1>3, <1>4, <1>5
    <2> QED BY <2>2, <2>3, <2>4 DEF InStepFits, Located
  <1> QED BY <1>1, <1>6, <1>7, <1>8

LEMMA BackStep == ASSUME ScreenInv, Screen!Back PROVE ScreenInv'
  <1>1. CASE screen.depth > 0
    <2>1. Screen!Go(pos - 1) /\ pos - 1 \in Int
      BY <1>1 DEF Screen!Back, ScreenInv, EntriesFit
    <2> QED BY <2>1, GoStep
  <1>2. CASE ~(screen.depth > 0)
    <2> DEFINE p == Screen!InitialOf(screen.projections)
    <2>1. p # None /\ Screen!Open(p, "replace")
      BY <1>2 DEF Screen!Back
    <2>2. p \in Screen!Ids
      BY <2>1, InitialIsSaved DEF ScreenInv, ScreenFits, Screens
    <2> HIDE DEF p
    <2> QED BY <2>1, <2>2, OpenStep
  <1> QED BY <1>1, <1>2

-----------------------------------------------------------------------------
(* The running operation. *)

LEMMA TheRunningOne ==
  ASSUME ScreenInv, queue # <<>>
  PROVE  /\ Screen!Running = queue[1] /\ queue[1] \in Ops
         /\ Len(queue) \in Nat \ {0}
         /\ OpFits(queue[1], screen.workspace, screen.shown)
         /\ Screen!Here \in Entries
  <1>1. queue \in Seq(Ops)
    BY DEF ScreenInv, QueueFits
  <1>2. Len(queue) \in Nat \ {0} /\ 1 \in DOMAIN queue /\ Head(queue) = queue[1]
    BY <1>1
  <1>3. queue[1] \in Ops
    BY <1>1, <1>2
  <1>4. OpFits(queue[1], screen.workspace, screen.shown)
    BY <1>2 DEF ScreenInv, QueueFits
  <1>5. Screen!Here \in Entries
    BY DEF ScreenInv, EntriesFit, Screen!Here
  <1> QED BY <1>2, <1>3, <1>4, <1>5 DEF Screen!Running

LEMMA BeginStep == ASSUME ScreenInv, Screen!Begin PROVE ScreenInv'
  <1> USE DEF Screen!At, Screen!Busy
  <1> DEFINE was == queue[1]
             here == Screen!Here
  <1>1. /\ queue # <<>> /\ was.at = "queued" /\ error' = FALSE
        /\ UNCHANGED <<server, saved, inStep>>
    BY TheRunningOne DEF Screen!Begin
  <1>2. /\ was \in Ops /\ OpFits(was, screen.workspace, screen.shown) /\ here \in Entries
        /\ Screen!Running = was /\ Len(queue) \in Nat \ {0}
    BY <1>1, TheRunningOne
  <1>3. queue \in Seq(Ops) /\ 1 \in DOMAIN queue
    BY <1>1 DEF ScreenInv, QueueFits
  <1>4. /\ server \in [Workspaces -> SUBSET Screen!Ids] /\ saved \in Screen!Ids
        /\ choice \in Workspaces \cup {None} /\ inStep \in BOOLEAN
        /\ EntriesFit /\ ScreenFits
    BY DEF ScreenInv
  <1>5. CASE was.kind \notin {"pop", "link"}
    <2> DEFINE op == [was EXCEPT !.at = IF was.kind = "load" THEN "get" ELSE "send"]
    <2>1. /\ op \in Ops /\ op.kind = was.kind /\ op.depth = was.depth
          /\ OpFits(op, screen.workspace, screen.shown)
      BY <1>2, <1>5 DEF Ops, OpFits, Mutations
    <2>2. /\ queue' = [queue EXCEPT ![1] = op]
          /\ UNCHANGED <<entries, pos, screen, choice>>
      BY <1>2, <1>3, <1>5 DEF Screen!Begin
    <2> HIDE DEF op
    <2> QED BY <1>1, <1>4, <1>5, <2>1, <2>2, GoesOn
  <1>6. CASE was.kind = "pop" /\ here.workspace # None
    <2> DEFINE op == [was EXCEPT !.at = "get", !.target = here.workspace,
                                 !.projection = here.projection]
    <2>1. /\ op \in Ops /\ op.kind = was.kind /\ op.depth = was.depth /\ op.at = "get"
          /\ op.target = here.workspace /\ op.projection = here.projection
          /\ here.workspace \in Workspaces
      BY <1>2, <1>6 DEF Ops, Entries
    <2>2. OpFits(op, screen.workspace, screen.shown)
      BY <1>6, <2>1 DEF OpFits, Mutations
    <2>3. /\ queue' = [queue EXCEPT ![1].at = "get", ![1].target = here.workspace,
                                    ![1].projection = here.projection]
          /\ choice' = here.workspace
          /\ UNCHANGED <<entries, pos, screen>>
      BY <1>2, <1>6 DEF Screen!Begin
    <2>4. queue' = [queue EXCEPT ![1] = op]
      BY <1>3, <2>3
    <2> HIDE DEF op
    <2> QED BY <1>1, <1>4, <1>6, <2>1, <2>2, <2>3, <2>4, GoesOn
  <1>7. CASE was.kind = "link"
    <2> DEFINE op == [was EXCEPT !.at = "list", !.target = here.workspace]
    <2>1. /\ op \in Ops /\ op.kind = was.kind /\ op.depth = was.depth /\ op.at = "list"
          /\ op.target = here.workspace
      BY <1>2 DEF Ops, Entries
    <2>2. OpFits(op, screen.workspace, screen.shown)
      BY <1>7, <2>1 DEF OpFits, Mutations
    <2>3. /\ queue' = [queue EXCEPT ![1].at = "list", ![1].target = here.workspace]
          /\ UNCHANGED <<entries, pos, screen, choice>>
      BY <1>2, <1>7 DEF Screen!Begin
    <2>4. queue' = [queue EXCEPT ![1] = op]
      BY <1>3, <2>3
    <2> HIDE DEF op
    <2> QED BY <1>1, <1>4, <1>7, <2>1, <2>2, <2>3, <2>4, GoesOn
  <1>8. CASE was.kind = "pop" /\ here.workspace = None
    <2>1. /\ queue' = Tail(queue) /\ screen' = Screen!Blank /\ choice' = None
          /\ Screen!Replace(None, None, 0)
      BY <1>2, <1>8 DEF Screen!Begin
    <2>2. EntriesFit' /\ Screen!Here' = Screen!Entry(None, None, 0)
      BY <1>4, <2>1, Replaced
    <2>3. ScreenFits' /\ Matches' /\ Screen!Here'.workspace = None
      BY <2>1, <2>2, BlankIsTyped, EntryIsTyped DEF ScreenFits, Matches
    <2> QED BY <1>1, <1>4, <1>8, <2>1, <2>2, <2>3, Leaves
  <1> QED BY <1>5, <1>6, <1>7, <1>8

LEMMA ListedStep == ASSUME ScreenInv, Screen!Listed PROVE ScreenInv'
  <1> USE DEF Screen!At, Screen!Busy
  <1> DEFINE was == queue[1]
             here == Screen!Here
  <1>1. /\ queue # <<>> /\ was.at = "list"
        /\ UNCHANGED <<server, saved, entries, pos, screen, error, inStep>>
    BY TheRunningOne DEF Screen!Listed
  <1>2. /\ was \in Ops /\ OpFits(was, screen.workspace, screen.shown) /\ here \in Entries
        /\ Screen!Running = was /\ Len(queue) \in Nat \ {0}
    BY <1>1, TheRunningOne
  <1>3. queue \in Seq(Ops) /\ 1 \in DOMAIN queue
    BY <1>1 DEF ScreenInv, QueueFits
  <1>4. /\ server \in [Workspaces -> SUBSET Screen!Ids] /\ saved \in Screen!Ids
        /\ choice \in Workspaces \cup {None} /\ error \in BOOLEAN /\ inStep \in BOOLEAN
        /\ EntriesFit /\ ScreenFits
    BY DEF ScreenInv
  <1>5. was.kind = "link"
    BY <1>1, <1>2 DEF OpFits
  <1>6. CASE was.target = None \/ here.workspace = None
    <2>1. /\ queue' = Tail(queue)
          /\ choice' = IF was.target = None THEN choice ELSE was.target
      BY <1>2, <1>6 DEF Screen!Listed
    <2>2. EntriesFit' /\ ScreenFits'
      BY <1>1, <1>4 DEF EntriesFit, ScreenFits
    <2>3. ASSUME inStep' PROVE Len(queue) = 1 /\ Matches'
      <3>1. Len(queue) = 1 /\ (Matches \/ screen = Screen!Blank) /\ was.target = here.workspace
        BY <1>1, <1>5, <2>3 DEF ScreenInv, InStepFits, Located
      <3>2. here.workspace = None /\ here.depth = 0
        BY <1>4, <1>6, <3>1 DEF EntriesFit, Screen!Here
      <3>3. Matches
        BY <3>1, <3>2, BlankIsTyped DEF Matches
      <3> QED BY <1>1, <3>1, <3>3 DEF Matches, Screen!Here
    <2>4. inStep' => ~(Len(queue) > 1)
      BY <2>3
    <2>5. choice' \in Workspaces \cup {None}
      BY <1>2, <1>4, <2>1 DEF Ops
    <2>6. error' \in BOOLEAN /\ inStep' \in BOOLEAN
      BY <1>1, <1>4
    <2> QED BY <1>1, <2>1, <2>2, <2>3, <2>4, <2>5, <2>6, Leaves
  <1>7. CASE ~(was.target = None \/ here.workspace = None)
    <2> DEFINE op == [was EXCEPT !.at = "get", !.target = here.workspace,
                                 !.projection = here.projection]
    <2>1. /\ op \in Ops /\ op.kind = was.kind /\ op.depth = was.depth /\ op.at = "get"
          /\ op.target = here.workspace /\ op.projection = here.projection
          /\ here.workspace \in Workspaces
      BY <1>2, <1>7 DEF Ops, Entries
    <2>2. OpFits(op, screen.workspace, screen.shown)
      BY <1>5, <2>1 DEF OpFits, Mutations
    <2>3. /\ queue' = [queue EXCEPT ![1].at = "get", ![1].target = here.workspace,
                                    ![1].projection = here.projection]
          /\ choice' = here.workspace
      BY <1>2, <1>7 DEF Screen!Listed
    <2>4. queue' = [queue EXCEPT ![1] = op]
      BY <1>3, <2>3
    <2> HIDE DEF op
    <2> QED BY <1>1, <1>4, <2>1, <2>2, <2>3, <2>4, GoesOn
  <1> QED BY <1>6, <1>7

LEMMA FailStep == ASSUME ScreenInv, Screen!Fail PROVE ScreenInv'
  <1>1. /\ queue # <<>> /\ error' = TRUE /\ queue' = Tail(queue)
        /\ inStep' = (inStep /\ queue[1].kind \notin {"pop", "link"})
        /\ UNCHANGED <<server, saved, entries, pos, screen, choice>>
    BY TheRunningOne DEF Screen!Fail, Screen!Busy, Screen!Done
  <1>2. EntriesFit' /\ ScreenFits' /\ choice' \in Workspaces \cup {None}
    BY <1>1 DEF ScreenInv, EntriesFit, ScreenFits
  <1>3. inStep' => Len(queue) = 1 /\ Matches'
    BY <1>1 DEF ScreenInv, InStepFits, Matches, Screen!Here
  <1>4. error' \in BOOLEAN /\ inStep' \in BOOLEAN
    BY <1>1 DEF ScreenInv
  <1>5. ~(inStep' /\ Len(queue) > 1)
    BY <1>3
  <1> QED BY <1>1, <1>2, <1>3, <1>4, <1>5, Leaves

LEMMA SendStep ==
  ASSUME ScreenInv, Screen!Send
  PROVE  ScreenInv' /\ (Screen!Running.kind = "new" \/ Screen!Running.target = screen.workspace)
  <1> USE DEF Screen!At, Screen!Busy
  <1> DEFINE was == queue[1]
             w == was.target
  <1>1. /\ queue # <<>> /\ was.at = "send" /\ Screen!Running = was
        /\ UNCHANGED <<entries, pos, screen, error, inStep>>
        /\ choice' = IF was.kind = "new" THEN w ELSE choice
    BY TheRunningOne DEF Screen!Send
  <1>2. /\ was \in Ops /\ OpFits(was, screen.workspace, screen.shown)
    BY <1>1, TheRunningOne
  <1>3. queue \in Seq(Ops) /\ 1 \in DOMAIN queue
    BY <1>1 DEF ScreenInv, QueueFits
  <1>4. /\ server \in [Workspaces -> SUBSET Screen!Ids] /\ saved \in Screen!Ids
        /\ choice \in Workspaces \cup {None} /\ error \in BOOLEAN
    BY DEF ScreenInv
  <1>5. /\ was.kind \in Mutations /\ w \in Workspaces
        /\ was.kind = "new" \/ w = screen.workspace
    BY <1>1, <1>2 DEF OpFits, Mutations
  <1>6. ASSUME NEW op \in Ops, op.at = "get", op.kind = was.kind, op.target = was.target,
               op.shown = was.shown, op.depth = was.depth,
               queue' = [queue EXCEPT ![1] = op],
               server' \in [Workspaces -> SUBSET Screen!Ids], saved' \in Screen!Ids
        PROVE  ScreenInv'
    <2>1. OpFits(op, screen.workspace, screen.shown)
      BY <1>2, <1>5, <1>6 DEF OpFits
    <2>2. op.kind \notin {"pop", "link"}
      BY <1>5, <1>6 DEF Mutations
    <2>3. choice' \in Workspaces \cup {None} /\ error' \in BOOLEAN
      BY <1>1, <1>4, <1>5
    <2> QED BY <1>1, <1>6, <2>1, <2>2, <2>3, GoesOn
  <1>7. CASE was.kind = "create"
    <2> DEFINE op == [was EXCEPT !.at = "get", !.projection = saved']
    <2>1. /\ saved < MaxProjections /\ saved' = saved + 1
          /\ server' = [server EXCEPT ![w] = @ \cup {saved'}]
          /\ queue' = [queue EXCEPT ![1].at = "get", ![1].projection = saved']
      BY <1>1, <1>7 DEF Screen!Send
    <2>2. saved' \in Screen!Ids
      BY <1>4, <2>1, ConstantsAreSound DEF Screen!Ids
    <2>3. /\ op \in Ops /\ op.at = "get" /\ op.kind = was.kind /\ op.target = was.target
          /\ op.shown = was.shown /\ op.depth = was.depth
      BY <1>2, <2>2 DEF Ops
    <2>4. queue' = [queue EXCEPT ![1] = op]
      BY <1>3, <2>1
    <2>5. server' \in [Workspaces -> SUBSET Screen!Ids]
      BY <1>4, <1>5, <2>1, <2>2
    <2> HIDE DEF op
    <2>6. ScreenInv'
      BY <1>6, <2>2, <2>3, <2>4, <2>5
    <2> QED BY <1>1, <1>5, <2>6
  <1>8. CASE was.kind = "delete"
    <2>1. PICK gone \in SUBSET server[w] :
            /\ server' = [server EXCEPT ![w] = @ \ gone]
            /\ queue' = [queue EXCEPT ![1].at = "get", ![1].gone = gone]
            /\ UNCHANGED saved
      BY <1>1, <1>8 DEF Screen!Send
    <2> DEFINE op == [was EXCEPT !.at = "get", !.gone = gone]
    <2>2. gone \in SUBSET Screen!Ids
      BY <1>4, <1>5
    <2>3. /\ op \in Ops /\ op.at = "get" /\ op.kind = was.kind /\ op.target = was.target
          /\ op.shown = was.shown /\ op.depth = was.depth
      BY <1>2, <2>2 DEF Ops
    <2>4. queue' = [queue EXCEPT ![1] = op]
      BY <1>3, <2>1
    <2>5. server' \in [Workspaces -> SUBSET Screen!Ids]
      BY <1>4, <1>5, <2>1
    <2> HIDE DEF op
    <2>6. ScreenInv'
      BY <1>4, <1>6, <2>1, <2>3, <2>4, <2>5
    <2> QED BY <1>1, <1>5, <2>6
  <1>9. CASE was.kind \in {"new", "write"}
    <2> DEFINE op == [was EXCEPT !.at = "get"]
    <2>1. /\ server' = [server EXCEPT ![w] = {}] \/ server' = server
          /\ queue' = [queue EXCEPT ![1].at = "get"]
          /\ UNCHANGED saved
      BY <1>1, <1>9 DEF Screen!Send
    <2>2. /\ op \in Ops /\ op.at = "get" /\ op.kind = was.kind /\ op.target = was.target
          /\ op.shown = was.shown /\ op.depth = was.depth
      BY <1>2 DEF Ops
    <2>3. queue' = [queue EXCEPT ![1] = op]
      BY <1>3, <2>1
    <2>4. server' \in [Workspaces -> SUBSET Screen!Ids]
      BY <1>4, <1>5, <2>1
    <2> HIDE DEF op
    <2>5. ScreenInv'
      BY <1>4, <1>6, <2>1, <2>2, <2>3, <2>4
    <2> QED BY <1>1, <1>5, <2>5
  <1> QED BY <1>5, <1>7, <1>8, <1>9 DEF Mutations

(* What the end of an operation shows.                                     *)
LEMMA Showed ==
  ASSUME NEW w \in Workspaces, NEW ids \in SUBSET Screen!Ids, NEW p \in Shown, NEW depth \in Nat,
         Screen!Show(w, ids, p, depth)
  PROVE  ScreenFits' /\ screen'.workspace = w /\ screen'.shown = p /\ screen'.depth = depth
  BY NoneIsNothingElse DEF Screen!Show, ScreenFits, Screens

(* Each kind of operation ends with a screen that matches the location, if *)
(* it matched before, or was a navigation to where the tab is.             *)
FinishesWell(op) ==
  /\ EntriesFit' /\ ScreenFits' /\ error' \in BOOLEAN
  /\ op.kind = "pop" => UNCHANGED <<entries, pos>>
  /\ error' \/ Matches'
     \/ /\ op.kind \in {"write", "delete"}
        /\ ~Matches
     \/ /\ op.kind = "link"
        /\ screen.depth # 0
     \/ /\ op.kind = "pop"
        /\ ~(/\ op.target = Screen!Here.workspace
             /\ op.projection = Screen!Here.projection
             /\ op.depth = Screen!Here.depth)

LEMMA OperationsFinishWell ==
  ASSUME ScreenInv, NEW op \in Ops, NEW ids \in SUBSET Screen!Ids, op.target \in Workspaces,
         OpFits(op, screen.workspace, screen.shown),
         \/ Screen!FinishLoad(op, ids) \/ Screen!FinishNew(op, ids)
         \/ Screen!FinishWrite(op, ids) \/ Screen!FinishCreate(op, ids)
         \/ Screen!FinishDelete(op, ids) \/ Screen!FinishPop(op, ids) \/ Screen!FinishLink(op, ids)
  PROVE  FinishesWell(op)
  <1> DEFINE w == op.target
             initial == Screen!InitialOf(ids)
             wanted == Screen!Wanted(op, ids)
  <1>1. /\ op.kind \in Mutations \cup {"load", "pop", "link"}
        /\ op.projection \in Screen!Ids \cup {None} /\ op.shown \in Shown /\ op.depth \in Nat
    BY DEF Ops
  <1>2. /\ EntriesFit /\ error \in BOOLEAN /\ screen.depth \in Nat /\ screen.shown \in Shown
    BY DEF ScreenInv, ScreenFits, Screens
  <1>3. initial \in Screen!Ids \cup {None}
    BY InitialIsSaved
  <1>4. wanted \in Screen!Ids \cup {None}
    BY <1>1, <1>3 DEF Screen!Wanted
  <1>5. \A p \in Screen!Ids \cup {None} : Screen!Of(w, p) \in Shown
    BY OfIsTyped
  <1>6. w # None
    BY NoneIsNothingElse
  <1> HIDE DEF initial, wanted
  <1>7. ASSUME NEW p \in Screen!Ids \cup {None}, NEW depth \in Nat,
               Screen!Replace(w, p, depth) \/ Screen!Push(w, p, depth),
               Screen!Show(w, ids, Screen!Of(w, p), depth) \/ Screen!Show(w, ids, None, depth)
        PROVE  EntriesFit' /\ ScreenFits' /\ Matches'
    <2>1. EntriesFit' /\ Screen!Here' = Screen!Entry(w, p, depth)
      BY <1>2, <1>6, <1>7, Replaced, Pushed
    <2>2. /\ ScreenFits' /\ screen'.workspace = w /\ screen'.depth = depth
          /\ screen'.shown \in {None, Screen!Of(w, p)}
      BY <1>5, <1>7, Showed DEF Shown
    <2> QED BY <2>1, <2>2, EntryIsTyped DEF Matches
  <1>8. ASSUME op.kind \in {"write", "delete"}, UNCHANGED <<entries, pos>>,
               Screen!Show(w, ids, Screen!Kept(op, ids), screen.depth)
        PROVE  EntriesFit' /\ ScreenFits' /\ (Matches => Matches')
    <2>1. EntriesFit' /\ Screen!Here' = Screen!Here
      BY <1>2, <1>8 DEF EntriesFit, Screen!Here
    <2>2. w = screen.workspace /\ op.shown = screen.shown
      BY <1>8 DEF OpFits, Mutations
    <2>3. \/ Screen!Kept(op, ids) = None
          \/ /\ op.shown # None /\ op.shown.id \in ids
             /\ Screen!Kept(op, ids) = Screen!Of(w, op.shown.id)
      BY DEF Screen!Kept
    <2>4. Screen!Kept(op, ids) \in Shown
      BY <1>5, <2>3 DEF Shown
    <2>5. /\ ScreenFits' /\ screen'.workspace = w /\ screen'.depth = screen.depth
          /\ screen'.shown = Screen!Kept(op, ids)
      BY <1>2, <1>8, <2>4, Showed
    <2>6. ASSUME Matches PROVE Matches'
      <3>1. CASE Screen!Kept(op, ids) = None \/ Screen!Here.projection = None
        BY <2>1, <2>2, <2>5, <2>6, <3>1 DEF Matches
      <3>2. CASE Screen!Kept(op, ids) # None /\ Screen!Here.projection # None
        <4>1. op.shown = Screen!Of(w, Screen!Here.projection)
          BY <2>2, <2>3, <2>6, <3>2 DEF Matches
        <4>2. Screen!Here.projection \in Screen!Ids \cup {None}
          <5>1. Screen!Here \in Entries
            BY <1>2 DEF EntriesFit, Screen!Here
          <5> QED BY <5>1 DEF Entries
        <4>3. op.shown.id = Screen!Here.projection
          BY <3>2, <4>1, <4>2, OfIsTyped
        <4> QED BY <2>1, <2>2, <2>3, <2>5, <2>6, <3>2, <4>3 DEF Matches
      <3> QED BY <3>1, <3>2
    <2> QED BY <2>1, <2>5, <2>6
  <1>9. ASSUME UNCHANGED <<entries, pos>>, NEW shown \in Shown,
               Screen!Show(w, ids, shown, screen.depth)
        PROVE  EntriesFit' /\ ScreenFits'
    BY <1>2, <1>9, Showed DEF EntriesFit
  <1>10. CASE Screen!FinishLoad(op, ids)
    BY <1>2, <1>3, <1>7, <1>10 DEF Screen!FinishLoad, FinishesWell, initial
  <1>11. CASE Screen!FinishNew(op, ids)
    BY <1>2, <1>7, <1>11 DEF Screen!FinishNew, FinishesWell
  <1>12. CASE Screen!FinishWrite(op, ids)
    BY <1>2, <1>8, <1>12 DEF Screen!FinishWrite, FinishesWell
  <1>13. CASE Screen!FinishCreate(op, ids)
    BY <1>1, <1>2, <1>7, <1>13 DEF Screen!FinishCreate, FinishesWell
  <1>14. CASE Screen!FinishDelete(op, ids)
    <2>1. op.kind = "delete" /\ error' = error
      BY <1>14 DEF Screen!FinishDelete
    <2>2. \/ /\ Screen!Show(w, ids, Screen!Of(w, initial), 0)
             /\ Screen!Replace(w, initial, 0)
          \/ /\ Screen!Show(w, ids, Screen!Kept(op, ids), screen.depth)
             /\ UNCHANGED <<entries, pos>>
      BY <1>14 DEF Screen!FinishDelete, initial
    <2> QED BY <1>2, <1>3, <1>7, <1>8, <2>1, <2>2 DEF FinishesWell
  <1>15. CASE Screen!FinishPop(op, ids)
    <2>1. op.kind = "pop" /\ UNCHANGED <<entries, pos>>
      BY <1>15 DEF Screen!FinishPop
    <2>2. CASE op.projection # None /\ op.projection \notin ids
      BY <1>2, <1>9, <1>15, <2>1, <2>2 DEF Screen!FinishPop, FinishesWell
    <2>3. CASE ~(op.projection # None /\ op.projection \notin ids)
      <3>1. Screen!Show(w, ids, Screen!Of(w, wanted), op.depth) /\ error' = error
        BY <1>15, <2>3 DEF Screen!FinishPop, wanted
      <3>2. /\ ScreenFits' /\ screen'.workspace = w /\ screen'.depth = op.depth
            /\ screen'.shown = Screen!Of(w, wanted)
        BY <1>1, <1>4, <1>5, <3>1, Showed
      <3>3. op.projection # None => wanted = op.projection
        BY DEF wanted, Screen!Wanted
      <3>4. EntriesFit' /\ Screen!Here' = Screen!Here
        BY <1>2, <2>1 DEF EntriesFit, Screen!Here
      <3>5. op.target = Screen!Here.workspace /\ op.projection = Screen!Here.projection
            /\ op.depth = Screen!Here.depth => Matches'
        BY <3>2, <3>3, <3>4 DEF Matches
      <3> QED BY <1>2, <2>1, <3>1, <3>2, <3>4, <3>5 DEF FinishesWell
    <2> QED BY <2>2, <2>3
  <1>16. CASE Screen!FinishLink(op, ids)
    <2>1. op.kind = "link"
      BY <1>16 DEF Screen!FinishLink
    <2>2. CASE op.projection # None /\ op.projection \notin ids
      <3> DEFINE shown == IF op.shown = None THEN screen.shown ELSE Screen!Kept(op, ids)
      <3>1. shown \in Shown
        <4>1. op.shown # None => op.shown.id \in Screen!Ids
          BY <1>1 DEF Shown
        <4>2. Screen!Kept(op, ids) \in Shown
          BY <1>5, <4>1 DEF Screen!Kept, Shown
        <4> QED BY <1>2, <4>2
      <3>2. /\ Screen!Show(w, ids, shown, screen.depth) /\ error' = TRUE
            /\ UNCHANGED <<entries, pos>>
        BY <1>16, <2>2 DEF Screen!FinishLink
      <3> HIDE DEF shown
      <3>3. EntriesFit' /\ ScreenFits'
        BY <1>9, <3>1, <3>2
      <3> QED BY <2>1, <3>2, <3>3 DEF FinishesWell
    <2>3. CASE ~(op.projection # None /\ op.projection \notin ids)
      <3>1. /\ Screen!Show(w, ids, Screen!Of(w, wanted), screen.depth)
            /\ Screen!Replace(w, wanted, 0) /\ error' = error
        BY <1>16, <2>3 DEF Screen!FinishLink, wanted
      <3>2. ScreenFits'
        BY <1>2, <1>4, <1>5, <3>1, Showed
      <3>3. EntriesFit'
        BY <1>2, <1>4, <1>6, <3>1, Replaced
      <3>4. screen.depth = 0 => Matches'
        BY <1>4, <1>7, <3>1
      <3> QED BY <1>2, <2>1, <3>1, <3>2, <3>3, <3>4 DEF FinishesWell
    <2> QED BY <2>2, <2>3
  <1> QED BY <1>10, <1>11, <1>12, <1>13, <1>14, <1>15, <1>16

(* The answer arrives. *)
LEMMA FinishStep == ASSUME ScreenInv, Screen!Finish PROVE ScreenInv'
  <1> USE DEF Screen!At, Screen!Busy
  <1> DEFINE op == queue[1]
             ids == server[op.target]
  <1>1. /\ queue # <<>> /\ op.at = "get" /\ Screen!Running = op
        /\ choice' = op.target /\ queue' = Tail(queue)
        /\ UNCHANGED <<server, saved>>
        /\ inStep' = IF error' THEN FALSE
                     ELSE inStep \/ (Len(queue) = 1 /\ op.kind \in {"load", "new"})
    BY TheRunningOne DEF Screen!Finish, Screen!Done
  <1>2. /\ op \in Ops /\ OpFits(op, screen.workspace, screen.shown)
        /\ Len(queue) \in Nat \ {0}
    BY <1>1, TheRunningOne
  <1>3. op.target \in Workspaces
    BY <1>1, <1>2 DEF OpFits
  <1>4. ids \in SUBSET Screen!Ids
    BY <1>3 DEF ScreenInv
  <1>5. \/ Screen!FinishLoad(op, ids) \/ Screen!FinishNew(op, ids)
        \/ Screen!FinishWrite(op, ids) \/ Screen!FinishCreate(op, ids)
        \/ Screen!FinishDelete(op, ids) \/ Screen!FinishPop(op, ids) \/ Screen!FinishLink(op, ids)
    BY <1>1 DEF Screen!Finish
  <1>6. FinishesWell(op)
    BY <1>2, <1>3, <1>4, <1>5, OperationsFinishWell
  <1>7. EntriesFit' /\ ScreenFits' /\ error' \in BOOLEAN /\ choice' \in Workspaces \cup {None}
    BY <1>1, <1>3, <1>6 DEF FinishesWell
  <1>8. inStep' \in BOOLEAN /\ (inStep' => ~error' /\ (inStep \/ op.kind \in {"load", "new"}))
    BY <1>1, <1>7
  <1>9. ASSUME inStep', Len(queue) = 1 PROVE Matches'
    <2>1. SUFFICES ASSUME ~Matches' PROVE FALSE
      OBVIOUS
    <2>2. op.kind \in {"write", "delete", "link", "pop"} /\ inStep
      BY <1>6, <1>8, <1>9, <2>1 DEF FinishesWell
    <2>3. InStepFits
      BY <2>2 DEF ScreenInv
    <2>4. CASE op.kind \in {"write", "delete"}
      BY <1>1, <1>6, <1>8, <1>9, <2>1, <2>3, <2>4 DEF FinishesWell, InStepFits
    <2>5. CASE op.kind = "link"
      BY <1>1, <1>6, <1>8, <1>9, <2>1, <2>3, <2>5 DEF FinishesWell, InStepFits
    <2>6. CASE op.kind = "pop"
      <3>1. /\ op.target = Screen!Here.workspace /\ op.projection = Screen!Here.projection
            /\ op.depth = Screen!Here.depth
        BY <1>1, <1>3, <1>9, <2>3, <2>6, NoneIsNothingElse DEF InStepFits, Located
      <3> QED BY <1>6, <1>8, <1>9, <2>1, <2>6, <3>1 DEF FinishesWell
    <2> QED BY <2>2, <2>4, <2>5, <2>6
  <1>10. ASSUME inStep', Len(queue) > 1
         PROVE  inStep /\ op.kind = "pop" /\ Screen!Here' = Screen!Here
    <2>1. ~(Len(queue) = 1)
      <3>1. \A n \in Nat : n > 1 => n # 1
        OBVIOUS
      <3> QED BY <1>2, <1>10, <3>1
    <2>2. inStep
      <3>1. CASE error'
        BY <1>8, <1>10, <3>1
      <3>2. CASE ~error'
        <4>1. inStep' = (inStep \/ (Len(queue) = 1 /\ op.kind \in {"load", "new"}))
          BY <1>1, <3>2
        <4> QED BY <1>10, <2>1, <4>1
      <3> QED BY <3>1, <3>2
    <2>3. op.kind = "pop"
      BY <1>1, <1>2, <2>1, <2>2 DEF ScreenInv, InStepFits
    <2> QED BY <1>6, <2>2, <2>3 DEF FinishesWell, Screen!Here
  <1> QED BY <1>1, <1>7, <1>8, <1>9, <1>10, Leaves

LEMMA ScreenInit == Init => ScreenInv
  <1> SUFFICES ASSUME Init PROVE ScreenInv
    OBVIOUS
  <1> DEFINE e == Screen!Entry(None, None, 0)
  <1>1. /\ server \in {[w \in Workspaces |-> {1}]} /\ saved = 1 /\ entries = <<e>> /\ pos = 1
        /\ screen = Screen!Blank /\ choice = None /\ error = FALSE /\ queue = <<>>
        /\ inStep = TRUE
    BY DEF Init, Screen!Init
  <1>2. 1 \in Screen!Ids
    BY ConstantsAreSound DEF Screen!Ids
  <1>3. /\ e \in Entries /\ e.workspace = None /\ e.depth = 0 /\ e.projection = None
    BY EntryIsTyped
  <1> HIDE DEF e
  <1>4. EntriesFit /\ Screen!Here = e
    BY <1>1, <1>3 DEF EntriesFit, Screen!Here
  <1>5. ScreenFits /\ Matches
    BY <1>1, <1>3, <1>4, BlankIsTyped DEF ScreenFits, Matches
  <1>6. QueueFits
    BY <1>1 DEF QueueFits
  <1> QED BY <1>1, <1>2, <1>4, <1>5, <1>6 DEF ScreenInv, InStepFits

LEMMA ScreenNext == ASSUME ScreenInv, Screen!Next PROVE ScreenInv'
  <1>1. ASSUME NEW p \in 1..MaxProjections, Screen!Open(p, "push") PROVE ScreenInv'
    BY <1>1, OpenStep DEF Screen!Ids
  <1>2. ASSUME NEW to \in DOMAIN entries, Screen!Go(to) PROVE ScreenInv'
    <2>1. to \in Int
      BY DEF ScreenInv, EntriesFit
    <2> QED BY <1>2, <2>1, GoStep
  <1> QED BY <1>1, <1>2, ControlSteps, ClearTokenStep, ReloadStep, BackStep, BeginStep, ListedStep,
             SendStep, FinishStep, FailStep DEF Screen!Next

LEMMA ScreenStep ==
  ScreenInv /\ [Next]_vars =>
    ScreenInv' /\ [Screen!Send => Screen!Running.kind = "new"
                                  \/ Screen!Running.target = screen.workspace]_(Screen!vars)
  <1> SUFFICES ASSUME ScreenInv, [Next]_vars
               PROVE  ScreenInv' /\ (Screen!Send => \/ Screen!Running.kind = "new"
                                                   \/ Screen!Running.target = screen.workspace)
    OBVIOUS
  <1>1. CASE UNCHANGED screenVars
    <2>1. UNCHANGED <<server, saved, entries, pos, screen, choice, error, queue, inStep>>
      BY <1>1 DEF screenVars
    <2>2. EntriesFit' /\ ScreenFits' /\ QueueFits'
      BY <2>1 DEF ScreenInv, EntriesFit, ScreenFits, QueueFits
    <2>3. inStep' => InStepFits'
      BY <2>1 DEF ScreenInv, InStepFits, Matches, Located, Screen!Here
    <2>4. ScreenInv'
      BY <2>1, <2>2, <2>3 DEF ScreenInv
    <2> QED BY <2>4, SendStep
  <1> QED BY <1>1, ScreenNext, SendStep DEF Next, vars

LEMMA ScreenSuffices == ScreenInv => Screen!TypeOK /\ Screen!QuietScreenIsTheLocation
  <1> SUFFICES ASSUME ScreenInv
               PROVE  Screen!TypeOK /\ Screen!QuietScreenIsTheLocation
    OBVIOUS
  <1>1. Screen!QuietScreenIsTheLocation
    BY DEF ScreenInv, InStepFits, Matches, Screen!QuietScreenIsTheLocation, Screen!Busy
  <1>2. \A i \in DOMAIN queue : queue[i].depth \in Nat
    <2>1. \A i \in DOMAIN queue : queue[i] \in Ops
      BY DEF ScreenInv, QueueFits
    <2> QED BY <2>1 DEF Ops
  <1>3. /\ screen.workspace \in Workspaces \cup {None} /\ screen.projections \subseteq Screen!Ids
        /\ screen.depth \in Nat
    BY DEF ScreenInv, ScreenFits, Screens
  <1>4. Screen!TypeOK
    BY <1>2, <1>3 DEF ScreenInv, EntriesFit, Screen!TypeOK
  <1> QED BY <1>1, <1>4

(* ScreenIsTheLocation: with any number of workspaces, projections, open   *)
(* operations and history entries, a quiet screen on which no navigation   *)
(* failed or overtook an operation shows what the location says, and a     *)
(* mutation goes to the workspace that is seen.                            *)
THEOREM ScreenFollowsTheLocation == Spec => ScreenIsTheLocation
  <1>1. Init => ScreenInv
    BY ScreenInit
  <1>2. ScreenInv /\ [Next]_vars => ScreenInv'
    BY ScreenStep
  <1>3. ScreenInv /\ [Next]_vars =>
          [Screen!Send => Screen!Running.kind = "new"
                          \/ Screen!Running.target = screen.workspace]_(Screen!vars)
    BY ScreenStep
  <1>4. ScreenInv => Screen!TypeOK /\ Screen!QuietScreenIsTheLocation
    BY ScreenSuffices
  <1> QED BY <1>1, <1>2, <1>3, <1>4, PTL
          DEF Spec, ScreenIsTheLocation, Screen!MutationsHitTheScreen
=============================================================================
