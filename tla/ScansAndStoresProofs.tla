------------------------ MODULE ScansAndStoresProofs ------------------------
(***************************************************************************)
(* Proofs about the judging of scans and about what the stores keep, for   *)
(* all files, profiles, overlays, corrections and maps, all records, and   *)
(* any number of workspaces, concepts and indexes.  Each part has an       *)
(* inductive invariant of its own, and a step of another part leaves it    *)
(* alone.                                                                  *)
(***************************************************************************)
EXTENDS ScansAndStores, Sequences, FiniteSets, TLAPS, WellFoundedInduction,
        FiniteSetTheorems, SequenceTheorems

-----------------------------------------------------------------------------
(* Calibration. *)

RunFields == {"status", "profile", "coverage", "decisions", "findings", "declares",
              "map", "override"}

(* A decision to continue stands until another decision is recorded, and   *)
(* coverage is corrected only on a decision to correct it; so whoever      *)
(* continues does so on the coverage of that decision.                     *)
CalibrationInv ==
  run # None =>
    /\ DOMAIN run = RunFields
    /\ run.decisions \in Seq(Calibration!Decisions)
    /\ run.status = "in_progress" /\ Calibration!Decided(run, "continue") =>
         continued = run.coverage
    /\ Calibration!Frozen =>
         /\ continued = run.coverage
         /\ Calibration!CompletionAssessment(run, run.map) = "findings-ready"

(* The run that starts has neither decisions nor findings. *)
LEMMA NewRunStarts ==
  ASSUME NEW p
  PROVE  LET r == Calibration!NewRun(p)
         IN /\ DOMAIN r = RunFields
            /\ r.status = "in_progress" /\ r.decisions = <<>>
            /\ ~Calibration!Decided(r, "continue")
BY DEF Calibration!NewRun, RunFields, Calibration!Decided

LEMMA CalibrationStep ==
  ASSUME CalibrationInv, Calibration!Next PROVE CalibrationInv'
<1> USE DEF CalibrationInv
<1>1. CASE Calibration!StartScan
  <2>1. PICK p : run' = Calibration!NewRun(p)
    BY <1>1 DEF Calibration!StartScan
  <2>2. /\ DOMAIN run' = RunFields
        /\ run'.status = "in_progress" /\ run'.decisions = <<>>
        /\ ~Calibration!Decided(run, "continue")'
    BY <2>1, NewRunStarts DEF Calibration!Decided
  <2> QED BY <2>2 DEF Calibration!Frozen, Calibration!Decisions
<1>2. CASE Calibration!DeleteScan
  BY <1>2 DEF Calibration!DeleteScan
<1>3. ASSUME NEW d \in Calibration!Decisions, Calibration!RecordDecision(d)
      PROVE  CalibrationInv'
  <2>1. /\ DOMAIN run' = RunFields
        /\ run'.status = "in_progress" /\ run'.coverage = run.coverage
        /\ run'.decisions = Append(run.decisions, d)
    BY <1>3 DEF Calibration!RecordDecision, Calibration!InProgress, RunFields
  <2>2. /\ run'.decisions \in Seq(Calibration!Decisions)
        /\ Calibration!Decided(run, "continue")' => d = "continue"
    BY <1>3, <2>1 DEF Calibration!Decided, Calibration!RecordDecision, Calibration!InProgress
  <2>3. d = "continue" => continued' = run.coverage
    BY <1>3 DEF Calibration!RecordDecision
  <2> QED BY <2>1, <2>2, <2>3 DEF Calibration!Frozen
<1>4. ASSUME NEW c \in Corrections, Calibration!RecordCoverage(c)
      PROVE  CalibrationInv'
  <2>1. /\ DOMAIN run' = RunFields
        /\ run'.status = "in_progress" /\ run'.decisions = run.decisions
        /\ Calibration!Decided(run, "correct-coverage")
        /\ run # None
    BY <1>4 DEF Calibration!RecordCoverage, Calibration!InProgress, RunFields
  <2> QED BY <2>1 DEF Calibration!Frozen, Calibration!Decided
<1>5. CASE Calibration!CreateFinding
  <2>1. /\ DOMAIN run' = RunFields
        /\ run'.status = "in_progress" /\ run'.decisions = run.decisions
        /\ run'.coverage = run.coverage /\ continued' = continued
        /\ run # None /\ run.status = "in_progress"
    BY <1>5 DEF Calibration!CreateFinding, Calibration!InProgress, RunFields
  <2> QED BY <2>1 DEF Calibration!Frozen, Calibration!Decided
<1>6. ASSUME NEW declares \in BOOLEAN, NEW override \in BOOLEAN, NEW map \in Maps \cup {None},
             Calibration!CompleteScan(declares, map, override)
      PROVE  CalibrationInv'
  <2>1. /\ DOMAIN run' = RunFields
        /\ run'.status = "completed" /\ run'.decisions = run.decisions
        /\ run'.coverage = run.coverage /\ continued' = continued
        /\ run'.profile = run.profile /\ run'.findings = run.findings
        /\ run'.declares = declares /\ run'.map = map /\ run'.override = override
        /\ run # None /\ run.status = "in_progress"
        /\ Calibration!MayComplete(run, declares, map, override)
    BY <1>6 DEF Calibration!CompleteScan, Calibration!InProgress, RunFields
  <2>2. Calibration!Frozen' =>
          /\ Calibration!Decided(run, "continue")
          /\ Calibration!CompletionAssessment(run, map) = "findings-ready"
    BY <2>1 DEF Calibration!Frozen, Calibration!MayComplete
  <2>3. Calibration!CompletionAssessment(run, run.map)' = Calibration!CompletionAssessment(run, map)
    BY <2>1 DEF Calibration!CompletionAssessment, Calibration!ShapeAssessment,
                Calibration!StartAssessment, Calibration!MapAssessment, Calibration!Warned
  <2> QED BY <2>1, <2>2, <2>3
<1>7. CASE UNCHANGED <<run, continued>>
  <2>1. Calibration!CompletionAssessment(run, run.map)' = Calibration!CompletionAssessment(run, run.map)
    BY <1>7
  <2> QED BY <1>7, <2>1 DEF Calibration!Frozen, Calibration!Decided
<1>8. ASSUME NEW map \in Maps \cup {None},
             Calibration!BuildBoundaryMap(map) \/ Calibration!ValidateFinding(map)
      PROVE  UNCHANGED <<run, continued>>
  BY <1>8 DEF Calibration!BuildBoundaryMap, Calibration!ValidateFinding
<1>9. (\E o \in Overlays : Calibration!EditOverlay(o)) => UNCHANGED <<run, continued>>
  BY DEF Calibration!EditOverlay
<1>10. Calibration!EvidenceCandidates \/ Calibration!IndexAgain => UNCHANGED <<run, continued>>
  BY DEF Calibration!EvidenceCandidates, Calibration!IndexAgain
<1> QED
  BY <1>1, <1>2, <1>3, <1>4, <1>5, <1>6, <1>7, <1>8, <1>9, <1>10 DEF Calibration!Next

(* Completion leaves no doubt about the shape; finding validation, which   *)
(* looks at less, leaves none either.                                      *)
LEMMA CalibrationSuffices ==
  ASSUME CalibrationInv
  PROVE  /\ Calibration!FrozenAsContinued
         /\ Calibration!FrozenShapeIsSound
         /\ Calibration!ValidationIsNoStricter
<1> SUFFICES ASSUME Calibration!Frozen
             PROVE  /\ continued = run.coverage
                    /\ ~Calibration!Warned(run.profile, run.coverage)
                    /\ run.coverage.included \cap run.coverage.discovered \cap CodeFiles # {} =>
                         run.map # None /\ run.map.entrypoints
                    /\ Calibration!FindingAssessment(run, run.map)
                         \in {"likely-real-finding", "missing-evidence"}
  BY DEF Calibration!FrozenAsContinued, Calibration!FrozenShapeIsSound,
         Calibration!ValidationIsNoStricter
<1>1. /\ continued = run.coverage
      /\ Calibration!CompletionAssessment(run, run.map) = "findings-ready"
  BY DEF CalibrationInv, Calibration!Frozen
<1>2. Calibration!ShapeAssessment(run.profile, run.coverage, run.map,
                                  Calibration!Warned(run.profile, run.coverage)) = "findings-ready"
  BY <1>1 DEF Calibration!CompletionAssessment
<1>3. /\ ~Calibration!Warned(run.profile, run.coverage)
      /\ IF run.map = None
         THEN ~(run.profile.code
                \/ CodeFiles \cap run.coverage.discovered \cap run.coverage.included # {})
         ELSE run.map.entrypoints
  BY <1>2 DEF Calibration!ShapeAssessment, Calibration!StartAssessment, Calibration!MapAssessment
<1>4. Calibration!ShapeAssessment(run.profile, run.coverage, run.map, FALSE) = "findings-ready"
  BY <1>3 DEF Calibration!ShapeAssessment, Calibration!StartAssessment, Calibration!MapAssessment
<1>5. Calibration!FindingAssessment(run, run.map) \in {"likely-real-finding", "missing-evidence"}
  BY <1>4 DEF Calibration!FindingAssessment
<1> QED BY <1>1, <1>3, <1>5

-----------------------------------------------------------------------------
(* Adapters. *)

Spaces == [Workspaces -> Adapters!States \cup {None}]
Vectors == [Workspaces -> [Concepts -> Dimensions \cup {None}]]
Chunks == [Workspaces -> [Indexes -> {None} \cup SUBSET Adapters!Queries]]
Fields == {"spaces", "vectors", "contents"}

(* What one adapter may hold when it is asked supported calls only: nothing *)
(* of a workspace that is not there, and vectors of one length in each.    *)
SoundStore(store) ==
  /\ DOMAIN store = Fields
  /\ store.spaces \in Spaces
  /\ store.vectors \in Vectors
  /\ store.contents \in Chunks
  /\ \A w \in Workspaces : store.spaces[w] = None =>
       /\ store.vectors[w] = Adapters!NoVectors
       /\ store.contents[w] = Adapters!NoIndexes
  /\ \A w \in Workspaces : \A c, o \in Concepts :
       \/ None \in {store.vectors[w][c], store.vectors[w][o]}
       \/ store.vectors[w][c] = store.vectors[w][o]

Same(one, other) ==
  /\ one.spaces = other.spaces
  /\ one.vectors = other.vectors
  /\ one.contents = other.contents

(* The adapters hold the same. *)
AdapterInv ==
  /\ SoundStore(memory)
  /\ DOMAIN postgres = Fields
  /\ Same(memory, postgres)
  /\ outcome.memory = outcome.postgres

LEMMA AdapterInit == Adapters!Init => AdapterInv
<1> SUFFICES ASSUME Adapters!Init PROVE AdapterInv
  OBVIOUS
<1>1. /\ Adapters!Empty.spaces = [w \in Workspaces |-> None]
      /\ Adapters!Empty.vectors = [w \in Workspaces |-> Adapters!NoVectors]
      /\ Adapters!Empty.contents = [w \in Workspaces |-> Adapters!NoIndexes]
      /\ DOMAIN Adapters!Empty = Fields
  BY DEF Adapters!Empty, Adapters!NoVectors, Adapters!NoIndexes, Fields
<1>2. /\ Adapters!Empty.spaces \in Spaces
      /\ Adapters!Empty.vectors \in Vectors
      /\ Adapters!Empty.contents \in Chunks
  BY <1>1 DEF Spaces, Vectors, Chunks, Adapters!NoVectors, Adapters!NoIndexes
<1>3. SoundStore(Adapters!Empty)
  BY <1>1, <1>2 DEF SoundStore, Adapters!NoVectors
<1> QED BY <1>1, <1>3 DEF Adapters!Init, AdapterInv, Same

(* A store in which one workspace changed. *)
Updated(next, store, w, space, vectors, chunks) ==
  /\ DOMAIN next = Fields
  /\ next.spaces = [store.spaces EXCEPT ![w] = space]
  /\ next.vectors = [store.vectors EXCEPT ![w] = vectors]
  /\ next.contents = [store.contents EXCEPT ![w] = chunks]

LEMMA SameIsSound ==
  ASSUME AdapterInv
  PROVE  SoundStore(memory) /\ SoundStore(postgres)
BY DEF AdapterInv, SoundStore, Same

LEMMA UnchangedFields ==
  ASSUME NEW store, SoundStore(store), NEW w \in Workspaces
  PROVE  /\ [store.spaces EXCEPT ![w] = store.spaces[w]] = store.spaces
         /\ [store.vectors EXCEPT ![w] = store.vectors[w]] = store.vectors
         /\ [store.contents EXCEPT ![w] = store.contents[w]] = store.contents
BY DEF SoundStore, Spaces, Vectors, Chunks

LEMMA AgreedUpdate ==
  ASSUME AdapterInv, NEW w \in Workspaces,
         NEW space \in Adapters!States \cup {None},
         NEW vectors \in [Concepts -> Dimensions \cup {None}],
         NEW chunks \in [Indexes -> {None} \cup SUBSET Adapters!Queries],
         space = None => vectors = Adapters!NoVectors /\ chunks = Adapters!NoIndexes,
         \A c, o \in Concepts : None \in {vectors[c], vectors[o]} \/ vectors[c] = vectors[o],
         Updated(memory', memory, w, space, vectors, chunks),
         Updated(postgres', postgres, w, space, vectors, chunks),
         outcome'.memory = outcome'.postgres
  PROVE  AdapterInv'
<1>1. /\ memory.spaces \in Spaces /\ memory.vectors \in Vectors /\ memory.contents \in Chunks
      /\ Same(memory, postgres)
  BY DEF AdapterInv, SoundStore
<1>2. /\ memory'.spaces \in Spaces /\ memory'.spaces[w] = space
      /\ \A x \in Workspaces : x # w => memory'.spaces[x] = memory.spaces[x]
  BY <1>1 DEF Spaces, Updated
<1>3. /\ memory'.vectors \in Vectors /\ memory'.vectors[w] = vectors
      /\ \A x \in Workspaces : x # w => memory'.vectors[x] = memory.vectors[x]
  BY <1>1 DEF Vectors, Updated
<1>4. /\ memory'.contents \in Chunks /\ memory'.contents[w] = chunks
      /\ \A x \in Workspaces : x # w => memory'.contents[x] = memory.contents[x]
  BY <1>1 DEF Chunks, Updated
<1>5. \A x \in Workspaces : memory'.spaces[x] = None =>
        /\ memory'.vectors[x] = Adapters!NoVectors
        /\ memory'.contents[x] = Adapters!NoIndexes
  BY <1>2, <1>3, <1>4 DEF AdapterInv, SoundStore
<1>6. \A x \in Workspaces : \A c, o \in Concepts :
        \/ None \in {memory'.vectors[x][c], memory'.vectors[x][o]}
        \/ memory'.vectors[x][c] = memory'.vectors[x][o]
  BY <1>3 DEF AdapterInv, SoundStore
<1>7. DOMAIN memory' = Fields /\ DOMAIN postgres' = Fields /\ Same(memory', postgres')
  BY <1>1 DEF Updated, Same
<1>8. SoundStore(memory')
  BY <1>2, <1>3, <1>4, <1>5, <1>6, <1>7 DEF SoundStore
<1> QED BY <1>7, <1>8 DEF AdapterInv

LEMMA RefusedByBoth ==
  ASSUME AdapterInv, memory' = memory, postgres' = postgres,
         outcome'.memory = outcome'.postgres
  PROVE  AdapterInv'
BY DEF AdapterInv

LEMMA NothingIsTyped ==
  /\ Adapters!NoVectors \in [Concepts -> Dimensions \cup {None}]
  /\ Adapters!NoIndexes \in [Indexes -> {None} \cup SUBSET Adapters!Queries]
  /\ \A c, o \in Concepts : None \in {Adapters!NoVectors[c], Adapters!NoVectors[o]}
BY DEF Adapters!NoVectors, Adapters!NoIndexes

(* The forms of the writes. *)
LEMMA Forms ==
  ASSUME NEW store, SoundStore(store), NEW w \in Workspaces,
         NEW space, NEW vectors, NEW chunks
  PROVE  /\ Updated([store EXCEPT !.spaces[w] = space, !.vectors[w] = vectors],
                    store, w, space, vectors, store.contents[w])
         /\ Updated([store EXCEPT !.spaces[w] = space, !.contents[w] = chunks],
                    store, w, space, store.vectors[w], chunks)
         /\ Updated([store EXCEPT !.spaces[w] = space, !.vectors[w] = vectors,
                                  !.contents[w] = chunks],
                    store, w, space, vectors, chunks)
<1>1. DOMAIN store = Fields
  BY DEF SoundStore
<1>2. ASSUME NEW next,
             next = [store EXCEPT !.spaces[w] = space, !.vectors[w] = vectors]
      PROVE  Updated(next, store, w, space, vectors, store.contents[w])
  <2>1. /\ DOMAIN next = Fields /\ next.contents = store.contents
        /\ next.spaces = [store.spaces EXCEPT ![w] = space]
        /\ next.vectors = [store.vectors EXCEPT ![w] = vectors]
    BY <1>1, <1>2 DEF Fields
  <2> QED BY <2>1, UnchangedFields DEF Updated
<1>3. ASSUME NEW next,
             next = [store EXCEPT !.spaces[w] = space, !.contents[w] = chunks]
      PROVE  Updated(next, store, w, space, store.vectors[w], chunks)
  <2>1. /\ DOMAIN next = Fields /\ next.vectors = store.vectors
        /\ next.spaces = [store.spaces EXCEPT ![w] = space]
        /\ next.contents = [store.contents EXCEPT ![w] = chunks]
    BY <1>1, <1>3 DEF Fields
  <2> QED BY <2>1, UnchangedFields DEF Updated
<1>4. ASSUME NEW next,
             next = [store EXCEPT !.spaces[w] = space, !.vectors[w] = vectors,
                                  !.contents[w] = chunks]
      PROVE  Updated(next, store, w, space, vectors, chunks)
  <2>1. /\ DOMAIN next = Fields
        /\ next.spaces = [store.spaces EXCEPT ![w] = space]
        /\ next.vectors = [store.vectors EXCEPT ![w] = vectors]
        /\ next.contents = [store.contents EXCEPT ![w] = chunks]
    BY <1>1, <1>4 DEF Fields
  <2> QED BY <2>1 DEF Updated
<1> QED BY <1>2, <1>3, <1>4

LEMMA CellForms ==
  ASSUME NEW store, SoundStore(store), NEW w \in Workspaces, NEW x, NEW v
  PROVE  /\ Updated([store EXCEPT !.vectors[w][x] = v],
                    store, w, store.spaces[w], [store.vectors[w] EXCEPT ![x] = v],
                    store.contents[w])
         /\ Updated([store EXCEPT !.contents[w][x] = v],
                    store, w, store.spaces[w], store.vectors[w],
                    [store.contents[w] EXCEPT ![x] = v])
<1>1. DOMAIN store = Fields
  BY DEF SoundStore
<1>2. ASSUME NEW next, next = [store EXCEPT !.vectors[w][x] = v]
      PROVE  Updated(next, store, w, store.spaces[w], [store.vectors[w] EXCEPT ![x] = v],
                     store.contents[w])
  <2>1. /\ DOMAIN next = Fields /\ next.contents = store.contents
        /\ next.spaces = store.spaces
        /\ next.vectors = [store.vectors EXCEPT ![w] = [store.vectors[w] EXCEPT ![x] = v]]
    BY <1>1, <1>2 DEF Fields
  <2> QED BY <2>1, UnchangedFields DEF Updated
<1>3. ASSUME NEW next, next = [store EXCEPT !.contents[w][x] = v]
      PROVE  Updated(next, store, w, store.spaces[w], store.vectors[w],
                     [store.contents[w] EXCEPT ![x] = v])
  <2>1. /\ DOMAIN next = Fields /\ next.vectors = store.vectors
        /\ next.spaces = store.spaces
        /\ next.contents = [store.contents EXCEPT ![w] = [store.contents[w] EXCEPT ![x] = v]]
    BY <1>1, <1>3 DEF Fields
  <2> QED BY <2>1, UnchangedFields DEF Updated
<1> QED BY <1>2, <1>3

(* What a workspace of a sound store holds. *)
LEMMA Held ==
  ASSUME AdapterInv, NEW w \in Workspaces
  PROVE  /\ memory.spaces[w] \in Adapters!States \cup {None}
         /\ memory.vectors[w] \in [Concepts -> Dimensions \cup {None}]
         /\ memory.contents[w] \in [Indexes -> {None} \cup SUBSET Adapters!Queries]
         /\ postgres.spaces[w] = memory.spaces[w]
         /\ postgres.vectors[w] = memory.vectors[w]
         /\ postgres.contents[w] = memory.contents[w]
         /\ memory.spaces[w] = None => /\ memory.vectors[w] = Adapters!NoVectors
                                       /\ memory.contents[w] = Adapters!NoIndexes
         /\ \A c, o \in Concepts : \/ None \in {memory.vectors[w][c], memory.vectors[w][o]}
                                   \/ memory.vectors[w][c] = memory.vectors[w][o]
BY DEF AdapterInv, SoundStore, Same, Spaces, Vectors, Chunks

LEMMA KeptVectors ==
  ASSUME AdapterInv, NEW w \in Workspaces, NEW space
  PROVE  LET kept == Adapters!Kept(memory.vectors[w], space)
         IN /\ kept \in [Concepts -> Dimensions \cup {None}]
            /\ \A c, o \in Concepts : None \in {kept[c], kept[o]} \/ kept[c] = kept[o]
BY Held DEF Adapters!Kept

LEMMA SlugsAgree ==
  ASSUME AdapterInv, NEW w \in Workspaces, NEW i
  PROVE  /\ Adapters!Exists(postgres, w) <=> Adapters!Exists(memory, w)
         /\ Adapters!HasIndex(postgres, w, i) <=> Adapters!HasIndex(memory, w, i)
BY Held DEF Adapters!Exists, Adapters!HasIndex

LEMMA SaveAgrees ==
  ASSUME Supported, AdapterInv, NEW w \in Workspaces, Adapters!Save(w)
  PROVE  AdapterInv'
<1>1. PICK space \in Adapters!States :
        /\ Adapters!Named(space) => Adapters!HasIndex(memory, w, space.run)
        /\ Adapters!SlugIsFree(w, space)
        /\ memory' = Adapters!MemorySave(w, space).store
        /\ postgres' = Adapters!PostgresSave(w, space).store
        /\ outcome' = [memory |-> Adapters!MemorySave(w, space).accepted,
                       postgres |-> Adapters!PostgresSave(w, space).accepted]
  BY DEF Adapters!Save, Adapters!Write
<1> DEFINE kept == Adapters!Kept(memory.vectors[w], space)
<1>2. Adapters!RunIsOwned(w, space)
  BY <1>1, SlugsAgree DEF Adapters!RunIsOwned
<1>3. Adapters!Kept(postgres.vectors[w], space) = kept
  BY Held
<1>4. /\ memory' = [memory EXCEPT !.spaces[w] = space, !.vectors[w] = kept]
      /\ postgres' = [postgres EXCEPT !.spaces[w] = space, !.vectors[w] = kept]
      /\ outcome'.memory = outcome'.postgres
  BY <1>1, <1>2, <1>3
     DEF Adapters!MemorySave, Adapters!PostgresSave, Adapters!Only, Adapters!Accept
<1>5. /\ kept \in [Concepts -> Dimensions \cup {None}]
      /\ \A c, o \in Concepts : None \in {kept[c], kept[o]} \/ kept[c] = kept[o]
  BY KeptVectors
<1> HIDE DEF kept
<1>6. /\ Updated(memory', memory, w, space, kept, memory.contents[w])
      /\ Updated(postgres', postgres, w, space, kept, memory.contents[w])
  BY <1>4, Forms, SameIsSound, Held
<1>7. space # None
  BY NoneIsNothingElse
<1> QED BY <1>4, <1>5, <1>6, <1>7, Held, AgreedUpdate

LEMMA ReplaceAgrees ==
  ASSUME Supported, AdapterInv, NEW w \in Workspaces, Adapters!Replace(w)
  PROVE  AdapterInv'
<1>1. PICK space \in Adapters!States :
        /\ memory.vectors[w] = Adapters!NoVectors /\ ~Adapters!Named(space)
        /\ Adapters!SlugIsFree(w, space)
        /\ memory' = Adapters!MemoryReplace(w, space).store
        /\ postgres' = Adapters!PostgresReplace(w, space).store
        /\ outcome' = [memory |-> Adapters!MemoryReplace(w, space).accepted,
                       postgres |-> Adapters!PostgresReplace(w, space).accepted]
  BY DEF Adapters!Replace, Adapters!Write
<1>2. Adapters!Kept(memory.vectors[w], space) = Adapters!NoVectors
  BY <1>1 DEF Adapters!Kept, Adapters!NoVectors
<1>3. CASE ~Adapters!Exists(memory, w)
  <2>1. memory' = memory /\ postgres' = postgres /\ outcome'.memory = outcome'.postgres
    BY <1>1, <1>3, SlugsAgree
       DEF Adapters!MemoryReplace, Adapters!PostgresReplace, Adapters!Only, Adapters!Refuse
  <2> QED BY <2>1, RefusedByBoth
<1>4. CASE Adapters!Exists(memory, w)
  <2>1. /\ memory' = [memory EXCEPT !.spaces[w] = space, !.vectors[w] = Adapters!NoVectors,
                                    !.contents[w] = Adapters!NoIndexes]
        /\ postgres' = [postgres EXCEPT !.spaces[w] = space, !.vectors[w] = Adapters!NoVectors,
                                        !.contents[w] = Adapters!NoIndexes]
        /\ outcome'.memory = outcome'.postgres
    BY <1>1, <1>2, <1>4, SlugsAgree
       DEF Adapters!MemoryReplace, Adapters!PostgresReplace, Adapters!Only, Adapters!Accept
  <2>2. /\ Updated(memory', memory, w, space, Adapters!NoVectors, Adapters!NoIndexes)
        /\ Updated(postgres', postgres, w, space, Adapters!NoVectors, Adapters!NoIndexes)
    BY <2>1, Forms, SameIsSound
  <2> QED BY <2>1, <2>2, NothingIsTyped, AgreedUpdate
<1> QED BY <1>3, <1>4

LEMMA DeleteAgrees ==
  ASSUME Supported, AdapterInv, NEW w \in Workspaces, Adapters!Delete(w)
  PROVE  AdapterInv'
<1>1. /\ memory.vectors[w] = Adapters!NoVectors
      /\ memory' = Adapters!MemoryDelete(w).store
      /\ postgres' = Adapters!PostgresDelete(w).store
      /\ outcome' = [memory |-> Adapters!MemoryDelete(w).accepted,
                     postgres |-> Adapters!PostgresDelete(w).accepted]
  BY DEF Adapters!Delete, Adapters!Write
<1>2. CASE ~Adapters!Exists(memory, w)
  <2>1. memory' = memory /\ postgres' = postgres /\ outcome'.memory = outcome'.postgres
    BY <1>1, <1>2, SlugsAgree
       DEF Adapters!MemoryDelete, Adapters!PostgresDelete, Adapters!Only, Adapters!Refuse
  <2> QED BY <2>1, RefusedByBoth
<1>3. CASE Adapters!Exists(memory, w)
  <2>1. /\ memory' = [memory EXCEPT !.spaces[w] = None, !.contents[w] = Adapters!NoIndexes]
        /\ postgres' = [postgres EXCEPT !.spaces[w] = None, !.vectors[w] = Adapters!NoVectors,
                                        !.contents[w] = Adapters!NoIndexes]
        /\ outcome'.memory = outcome'.postgres
    BY <1>1, <1>3, SlugsAgree
       DEF Adapters!MemoryDelete, Adapters!PostgresDelete, Adapters!Only, Adapters!Accept
  <2>2. Updated([memory EXCEPT !.spaces[w] = None, !.contents[w] = Adapters!NoIndexes],
                memory, w, None, memory.vectors[w], Adapters!NoIndexes)
    BY Forms, SameIsSound
  <2>3. Updated([postgres EXCEPT !.spaces[w] = None, !.vectors[w] = Adapters!NoVectors,
                                 !.contents[w] = Adapters!NoIndexes],
                postgres, w, None, Adapters!NoVectors, Adapters!NoIndexes)
    BY Forms, SameIsSound
  <2>4. /\ Updated(memory', memory, w, None, Adapters!NoVectors, Adapters!NoIndexes)
        /\ Updated(postgres', postgres, w, None, Adapters!NoVectors, Adapters!NoIndexes)
    BY <1>1, <2>1, <2>2, <2>3
  <2> QED BY <2>1, <2>4, NothingIsTyped, AgreedUpdate
<1> QED BY <1>2, <1>3

LEMMA UpsertVectorAgrees ==
  ASSUME Supported, AdapterInv, NEW w \in Workspaces, Adapters!UpsertVector(w)
  PROVE  AdapterInv'
<1>1. PICK c \in Concepts, d \in Dimensions :
        /\ Adapters!Exists(memory, w) /\ Adapters!OneLength(w, c, d)
        /\ memory' = Adapters!MemoryVector(w, c, d).store
        /\ postgres' = Adapters!PostgresVector(w, c, d).store
        /\ outcome' = [memory |-> Adapters!MemoryVector(w, c, d).accepted,
                       postgres |-> Adapters!PostgresVector(w, c, d).accepted]
  BY DEF Adapters!UpsertVector, Adapters!Write
<1> DEFINE vectors == [memory.vectors[w] EXCEPT ![c] = d]
<1>2. /\ memory' = [memory EXCEPT !.vectors[w][c] = d]
      /\ postgres' = [postgres EXCEPT !.vectors[w][c] = d]
      /\ outcome'.memory = outcome'.postgres
  BY <1>1, SlugsAgree
     DEF Adapters!MemoryVector, Adapters!PostgresVector, Adapters!Only, Adapters!Accept
<1>3. /\ vectors \in [Concepts -> Dimensions \cup {None}]
      /\ \A x \in Concepts : vectors[x] = IF x = c THEN d ELSE memory.vectors[w][x]
  BY Held
<1> HIDE DEF vectors
<1>4. \A x, o \in Concepts : None \in {vectors[x], vectors[o]} \/ vectors[x] = vectors[o]
  BY <1>1, <1>3, Held DEF Adapters!OneLength
<1>5. /\ Updated(memory', memory, w, memory.spaces[w], vectors, memory.contents[w])
      /\ Updated(postgres', postgres, w, memory.spaces[w], vectors, memory.contents[w])
  BY <1>2, CellForms, SameIsSound, Held DEF vectors
<1>6. memory.spaces[w] # None
  BY <1>1 DEF Adapters!Exists
<1> QED BY <1>2, <1>3, <1>4, <1>5, <1>6, Held, AgreedUpdate

(* Chunks of an index are written in a workspace that is there. *)
LEMMA ChunksAgree ==
  ASSUME AdapterInv, NEW w \in Workspaces, NEW i \in Indexes,
         NEW chunks \in SUBSET Adapters!Queries, Adapters!Exists(memory, w),
         memory' = [memory EXCEPT !.contents[w][i] = chunks],
         postgres' = [postgres EXCEPT !.contents[w][i] = chunks],
         outcome'.memory = outcome'.postgres
  PROVE  AdapterInv'
<1> DEFINE contents == [memory.contents[w] EXCEPT ![i] = chunks]
<1>1. contents \in [Indexes -> {None} \cup SUBSET Adapters!Queries]
  BY Held
<1> HIDE DEF contents
<1>2. /\ Updated(memory', memory, w, memory.spaces[w], memory.vectors[w], contents)
      /\ Updated(postgres', postgres, w, memory.spaces[w], memory.vectors[w], contents)
  BY CellForms, SameIsSound, Held DEF contents
<1>3. memory.spaces[w] # None
  BY DEF Adapters!Exists
<1> QED BY <1>1, <1>2, <1>3, Held, AgreedUpdate

LEMMA UpsertIndexAgrees ==
  ASSUME AdapterInv, NEW w \in Workspaces, Adapters!UpsertIndex(w)
  PROVE  AdapterInv'
<1>1. PICK i \in Indexes :
        /\ memory' = Adapters!MemoryIndex(w, i).store
        /\ postgres' = Adapters!PostgresIndex(w, i).store
        /\ outcome' = [memory |-> Adapters!MemoryIndex(w, i).accepted,
                       postgres |-> Adapters!PostgresIndex(w, i).accepted]
  BY DEF Adapters!UpsertIndex, Adapters!Write
<1>2. CASE ~Adapters!Exists(memory, w)
  <2>1. memory' = memory /\ postgres' = postgres /\ outcome'.memory = outcome'.postgres
    BY <1>1, <1>2, SlugsAgree
       DEF Adapters!MemoryIndex, Adapters!PostgresIndex, Adapters!Only, Adapters!Refuse
  <2> QED BY <2>1, RefusedByBoth
<1>3. CASE Adapters!Exists(memory, w)
  <2> DEFINE was == memory.contents[w][i]
             chunks == IF was = None THEN {} ELSE was
  <2>1. postgres.contents[w][i] = was /\ was \in {None} \cup SUBSET Adapters!Queries
    BY Held
  <2>2. /\ memory' = [memory EXCEPT !.contents[w][i] = chunks]
        /\ postgres' = [postgres EXCEPT !.contents[w][i] = chunks]
        /\ outcome'.memory = outcome'.postgres
    BY <1>1, <1>3, <2>1, SlugsAgree
       DEF Adapters!MemoryIndex, Adapters!PostgresIndex, Adapters!Only, Adapters!Accept
  <2>3. chunks \in SUBSET Adapters!Queries
    BY <2>1
  <2> HIDE DEF chunks
  <2> QED BY <1>3, <2>2, <2>3, ChunksAgree
<1> QED BY <1>2, <1>3

LEMMA ReplaceContentsAgrees ==
  ASSUME Supported, AdapterInv, NEW w \in Workspaces, Adapters!ReplaceContents(w)
  PROVE  AdapterInv'
<1>1. PICK i \in Indexes, content \in Contents :
        /\ ~content.loose
        /\ memory' = Adapters!MemoryContents(w, i, content).store
        /\ postgres' = Adapters!PostgresContents(w, i, content).store
        /\ outcome' = [memory |-> Adapters!MemoryContents(w, i, content).accepted,
                       postgres |-> Adapters!PostgresContents(w, i, content).accepted]
  BY DEF Adapters!ReplaceContents, Adapters!Write
<1>2. Adapters!HasIndex(memory, w, i) => Adapters!Exists(memory, w)
  BY Held DEF Adapters!HasIndex, Adapters!Exists, Adapters!NoIndexes
<1>3. content.chunks \in SUBSET Adapters!Queries
  BY ConstantsAreSound DEF Adapters!ContentsAreTyped
<1>4. CASE ~(Adapters!HasIndex(memory, w, i) /\ content.owned)
  <2>1. memory' = memory /\ postgres' = postgres /\ outcome'.memory = outcome'.postgres
    BY <1>1, <1>4, SlugsAgree
       DEF Adapters!MemoryContents, Adapters!PostgresContents, Adapters!Only, Adapters!Refuse
  <2> QED BY <2>1, RefusedByBoth
<1>5. CASE Adapters!HasIndex(memory, w, i) /\ content.owned
  <2>1. /\ memory' = [memory EXCEPT !.contents[w][i] = content.chunks]
        /\ postgres' = [postgres EXCEPT !.contents[w][i] = content.chunks]
        /\ outcome'.memory = outcome'.postgres
    BY <1>1, <1>2, <1>5, SlugsAgree
       DEF Adapters!MemoryContents, Adapters!PostgresContents, Adapters!Only, Adapters!Accept
  <2> QED BY <1>2, <1>3, <1>5, <2>1, ChunksAgree
<1> QED BY <1>4, <1>5

LEMMA AdapterStep ==
  ASSUME Supported, AdapterInv, Adapters!Next
  PROVE  AdapterInv'
BY SaveAgrees, ReplaceAgrees, DeleteAgrees, UpsertVectorAgrees, UpsertIndexAgrees,
   ReplaceContentsAgrees DEF Adapters!Next

LEMMA AdapterSuffices ==
  ASSUME AdapterInv
  PROVE  /\ Adapters!TypeOK
         /\ Adapters!SameOutcome
         /\ Adapters!SameAnswers
         /\ Adapters!NothingOutlivesItsWorkspace
<1>1. SoundStore(memory) /\ SoundStore(postgres)
  BY SameIsSound
<1>2. Adapters!TypeOK
  BY <1>1 DEF Adapters!TypeOK, SoundStore, Spaces, Vectors, Chunks, Adapters!HasIndex
<1>3. Adapters!SameOutcome
  BY DEF AdapterInv, Adapters!SameOutcome
<1>4. Adapters!NothingOutlivesItsWorkspace
  BY <1>1 DEF Adapters!NothingOutlivesItsWorkspace, SoundStore, Adapters!Exists
<1>5. ASSUME NEW w \in Workspaces, NEW c \in Concepts
      PROVE  Adapters!MemorySimilar(w, c) = Adapters!PostgresSimilar(w, c)
  <2>1. CASE memory.vectors[w][c] = None
    BY <2>1, Held DEF Adapters!MemorySimilar, Adapters!PostgresSimilar
  <2>2. CASE memory.vectors[w][c] # None
    <3>1. \A o \in Concepts : memory.vectors[w][o] # None
                              <=> memory.vectors[w][o] = memory.vectors[w][c]
      BY <2>2, Held
    <3>2. {o \in Concepts \ {c} : memory.vectors[w][o] # None}
            = {o \in Concepts \ {c} : postgres.vectors[w][o] = postgres.vectors[w][c]}
      BY <3>1, Held
    <3>3. ~ \E o \in {o \in Concepts \ {c} : memory.vectors[w][o] # None} :
              memory.vectors[w][o] # memory.vectors[w][c]
      BY <3>1
    <3>4. postgres.vectors[w][c] # None
      BY <2>2, Held
    <3> QED BY <2>2, <3>2, <3>3, <3>4 DEF Adapters!MemorySimilar, Adapters!PostgresSimilar
  <2> QED BY <2>1, <2>2
<1>6. ASSUME NEW w \in Workspaces, NEW i \in Indexes, Adapters!HasIndex(memory, w, i)
      PROVE  /\ Adapters!MemoryChunks(w, i) = Adapters!PostgresChunks(w, i)
             /\ \A word \in Words :
                  Adapters!MemorySearch(w, i, {word}) = Adapters!PostgresSearch(w, i, {word})
  <2>1. Adapters!HasIndex(postgres, w, i) /\ postgres.contents[w][i] = memory.contents[w][i]
    BY <1>6, SlugsAgree, Held
  <2>2. ASSUME NEW word \in Words
        PROVE  {c \in memory.contents[w][i] : {word} \cap c # {}}
                 = {c \in postgres.contents[w][i] : {word} \subseteq c}
    BY <2>1
  <2> QED
    BY <1>6, <2>1, <2>2 DEF Adapters!MemoryChunks, Adapters!PostgresChunks,
                            Adapters!MemorySearch, Adapters!PostgresSearch
<1>7. ASSUME NEW w \in Workspaces
      PROVE  /\ memory.spaces[w] = postgres.spaces[w]
             /\ \A i \in Indexes :
                  Adapters!HasIndex(memory, w, i) = Adapters!HasIndex(postgres, w, i)
  BY Held DEF Adapters!HasIndex
<1>8. Adapters!SameAnswers
  BY <1>5, <1>6, <1>7 DEF Adapters!SameAnswers
<1> QED BY <1>2, <1>3, <1>4, <1>8

-----------------------------------------------------------------------------
(* Comparisons. *)

LEMMA Ranks ==
  /\ Compare!SeverityRank("low") = 1 /\ Compare!SeverityRank("normal") = 2
  /\ Compare!SeverityRank("high") = 3 /\ Compare!SeverityRank("critical") = 4
<1>1. /\ DOMAIN Compare!Severities = 1..4
      /\ Compare!Severities[1] = "low" /\ Compare!Severities[2] = "normal"
      /\ Compare!Severities[3] = "high" /\ Compare!Severities[4] = "critical"
  BY DEF Compare!Severities
<1> HIDE DEF Compare!Severities
<1>2. \A k \in 1..4 : k = 1 \/ k = 2 \/ k = 3 \/ k = 4
  OBVIOUS
<1>3. \A k \in 1..4 : /\ Compare!Severities[k] = "low" <=> k = 1
                      /\ Compare!Severities[k] = "normal" <=> k = 2
                      /\ Compare!Severities[k] = "high" <=> k = 3
                      /\ Compare!Severities[k] = "critical" <=> k = 4
  BY <1>1, <1>2
<1> QED BY <1>1, <1>3 DEF Compare!SeverityRank

Grades == {"low", "normal", "high", "critical"}

(* The rank tells severities apart, and those that block are the upper two.*)
LEMMA RanksOrder ==
  /\ \A s \in Grades : Compare!SeverityRank(s) \in Nat
  /\ \A s, u \in Grades : Compare!SeverityRank(s) = Compare!SeverityRank(u) => s = u
  /\ \A s \in Grades : s \in Compare!Blocking <=> Compare!SeverityRank(s) >= 3
BY Ranks DEF Grades, Compare!Blocking

Unique(r) ==
  \A j, k \in DOMAIN r.evidence :
    r.evidence[j].fingerprint = r.evidence[k].fingerprint => j = k

LEMMA NoDuplicates ==
  ASSUME NEW r, Compare!IsRun(r), ~Compare!HasDuplicates(r)
  PROVE  Unique(r)
<1>1. DOMAIN r.evidence = 1..Len(r.evidence) /\ Len(r.evidence) \in Nat
  BY DEF Compare!IsRun
<1> QED BY <1>1 DEF Compare!HasDuplicates, Unique

LEMMA FoundAt ==
  ASSUME NEW r, NEW f
  PROVE  /\ f \notin Compare!Fingerprints(r) => Compare!FindingOf(r, f) = None
         /\ f \in Compare!Fingerprints(r) =>
              \E k \in DOMAIN r.evidence : /\ Compare!FindingOf(r, f) = r.evidence[k]
                                           /\ r.evidence[k].fingerprint = f
BY DEF Compare!FindingOf, Compare!Fingerprints

LEMMA Found ==
  ASSUME NEW r, Compare!IsRun(r), NEW f
  PROVE  /\ f \notin Compare!Fingerprints(r) => Compare!FindingOf(r, f) = None
         /\ f \in Compare!Fingerprints(r) =>
              \E k \in DOMAIN r.evidence : /\ Compare!FindingOf(r, f) = r.evidence[k]
                                           /\ r.evidence[k].fingerprint = f
                                           /\ Compare!IsFinding(Compare!FindingOf(r, f))
                                           /\ Compare!FindingOf(r, f) # None
BY DEF Compare!FindingOf, Compare!Fingerprints, Compare!IsRun, Compare!IsFinding

LEMMA FoundIsUnique ==
  ASSUME NEW r, Compare!IsRun(r), Unique(r), NEW k \in DOMAIN r.evidence
  PROVE  /\ r.evidence[k].fingerprint \in Compare!Fingerprints(r)
         /\ Compare!FindingOf(r, r.evidence[k].fingerprint) = r.evidence[k]
<1>1. r.evidence[k].fingerprint \in Compare!Fingerprints(r)
  BY DEF Compare!Fingerprints
<1> QED BY <1>1, Found DEF Unique

LEMMA ItemIs ==
  ASSUME NEW a, NEW b, NEW f
  PROVE  LET i == Compare!Item(a, b, f)
             previous == Compare!FindingOf(a, f)
             current  == Compare!FindingOf(b, f)
         IN /\ i.fingerprint = f /\ i.before = previous /\ i.after = current
            /\ current = None /\ previous.sources \cap b.coverage.failed # {}
                 => i.status = "unverifiable"
            /\ current = None /\ ~(previous.sources \cap b.coverage.failed # {})
                 => i.status = "resolved"
            /\ current # None /\ previous = None => i.status = "new"
            /\ current # None /\ previous # None
                 => i.status = Compare!BothStatus(previous, current)
BY DEF Compare!Item

(* The item of a fingerprint is the only one of the comparison. *)
LEMMA StatusIs ==
  ASSUME NEW a, NEW b, NEW f \in Compare!Fingerprints(a) \cup Compare!Fingerprints(b)
  PROVE  Compare!StatusOf(Compare!Comparison(a, b), f) = Compare!Item(a, b, f).status
<1> DEFINE items == Compare!Comparison(a, b).items
<1>1. items = {Compare!Item(a, b, g) :
                 g \in Compare!Fingerprints(a) \cup Compare!Fingerprints(b)}
  BY DEF Compare!Comparison
<1> HIDE DEF items
<1>2. \A i \in items : i.fingerprint = f => i = Compare!Item(a, b, f)
  BY <1>1, ItemIs
<1>3. Compare!Item(a, b, f) \in items /\ Compare!Item(a, b, f).fingerprint = f
  BY <1>1, ItemIs
<1>4. (CHOOSE i \in items : i.fingerprint = f) = Compare!Item(a, b, f)
  BY <1>2, <1>3
<1> QED BY <1>4 DEF Compare!StatusOf, items

(* The status of a finding of both runs. *)
BothFacts(p, c, s) ==
  LET higher == Compare!SeverityRank(c.severity) > Compare!SeverityRank(p.severity)
      closed == c.status \in Compare!Closed \cup {"unverifiable"}
  IN /\ s \in {"unverifiable", "resolved", "regressed", "changed", "still_open"}
     /\ s = "unverifiable" <=> c.status = "unverifiable"
     /\ s = "resolved" <=> c.status \in Compare!Closed
     /\ s = "regressed" <=> ~closed /\ higher
     /\ s = "still_open" <=> ~closed /\ ~higher /\ Compare!Content(p) = Compare!Content(c)

LEMMA BothIs ==
  ASSUME NEW p, NEW c
  PROVE  BothFacts(p, c, Compare!BothStatus(p, c))
BY DEF Compare!BothStatus, Compare!Closed, BothFacts

LEMMA VerdictIs ==
  ASSUME NEW a, NEW b
  PROVE  Compare!Comparison(a, b).verdict = "fail"
           <=> \/ a.version # b.version
               \/ \E f \in Compare!Fingerprints(a) \cup Compare!Fingerprints(b) :
                    Compare!Blocks(Compare!Item(a, b, f))
BY DEF Compare!Comparison

LEMMA SelfComparisonHolds ==
  ASSUME Compare!IsRun(Compare!After)
  PROVE  Compare!SelfComparison
<1> DEFINE r == Compare!After
           c == Compare!Comparison(r, r)
           prints == Compare!Fingerprints(r)
<1> SUFFICES ASSUME ~Compare!HasDuplicates(r)
             PROVE  /\ \A i \in c.items : i.status \notin {"new", "regressed", "changed"}
                    /\ c.added \cup c.removed = {}
                    /\ c.verdict = "pass" <=>
                         \A k \in DOMAIN r.evidence :
                           /\ r.evidence[k].status # "unverifiable"
                           /\ ~(/\ Compare!Open(r.evidence[k])
                                /\ r.evidence[k].severity \in Compare!Blocking)
  BY DEF Compare!SelfComparison
<1>1. Unique(r)
  BY NoDuplicates
<1> HIDE DEF r
<1>2. Compare!IsRun(r)
  BY DEF r
<1>3. ASSUME NEW k \in DOMAIN r.evidence
      PROVE  LET i == Compare!Item(r, r, r.evidence[k].fingerprint)
             IN /\ r.evidence[k].fingerprint \in prints
                /\ i.after = r.evidence[k]
                /\ i.status = Compare!BothStatus(r.evidence[k], r.evidence[k])
                /\ Compare!SeverityRank(r.evidence[k].severity) \in Nat
  <2> DEFINE e == r.evidence[k]
  <2>1. /\ e.fingerprint \in prints
        /\ Compare!FindingOf(r, e.fingerprint) = e
    BY <1>1, <1>2, FoundIsUnique
  <2>2. e # None /\ e.severity \in Grades
    BY <1>2 DEF Compare!IsRun, Compare!IsFinding, Grades
  <2> HIDE DEF e
  <2>3. /\ Compare!Item(r, r, e.fingerprint).after = e
        /\ Compare!Item(r, r, e.fingerprint).status = Compare!BothStatus(e, e)
    BY <2>1, <2>2, ItemIs
  <2> QED BY <2>1, <2>2, <2>3, RanksOrder DEF e
<1>4. \A k \in DOMAIN r.evidence :
        LET i == Compare!Item(r, r, r.evidence[k].fingerprint)
            e == r.evidence[k]
        IN /\ i.status \notin {"new", "regressed", "changed"}
           /\ Compare!Blocks(i) <=> \/ e.status = "unverifiable"
                                    \/ Compare!Open(e) /\ e.severity \in Compare!Blocking
  <2> SUFFICES ASSUME NEW k \in DOMAIN r.evidence
               PROVE  LET i == Compare!Item(r, r, r.evidence[k].fingerprint)
                          e == r.evidence[k]
                      IN /\ i.status \notin {"new", "regressed", "changed"}
                         /\ Compare!Blocks(i) <=>
                              \/ e.status = "unverifiable"
                              \/ Compare!Open(e) /\ e.severity \in Compare!Blocking
    OBVIOUS
  <2> DEFINE e == r.evidence[k]
             s == Compare!BothStatus(e, e)
  <2>1. /\ s \in {"unverifiable", "resolved", "still_open"}
        /\ s = "unverifiable" <=> e.status = "unverifiable"
        /\ s = "still_open" <=> Compare!Open(e)
    BY <1>3, BothIs DEF Compare!Open, Compare!Closed, BothFacts
  <2> QED BY <1>3, <2>1 DEF Compare!Blocks
<1>5. \A f \in prints : \E k \in DOMAIN r.evidence : f = r.evidence[k].fingerprint
  BY DEF Compare!Fingerprints
<1>6. \A i \in c.items : i.status \notin {"new", "regressed", "changed"}
  BY <1>4, <1>5 DEF Compare!Comparison
<1>7. c.added \cup c.removed = {}
  BY DEF Compare!Comparison
<1>8. c.verdict \in {"pass", "fail"}
  BY DEF Compare!Comparison
<1>9. c.verdict = "fail" <=> \E k \in DOMAIN r.evidence :
                               Compare!Blocks(Compare!Item(r, r, r.evidence[k].fingerprint))
  BY <1>3, <1>5, VerdictIs
<1> QED BY <1>4, <1>6, <1>7, <1>8, <1>9

LEMMA DirectionsAgreeHolds ==
  ASSUME Compare!IsRun(Compare!Before), Compare!IsRun(Compare!After)
  PROVE  Compare!DirectionsAgree
<1> DEFINE a == Compare!Before
           b == Compare!After
<1>1. Compare!Comparison(a, b).added = Compare!Comparison(b, a).removed
  BY DEF Compare!Comparison
<1>2. Compare!IsRun(a) /\ Compare!IsRun(b)
  OBVIOUS
<1> HIDE DEF a, b
<1>3. ASSUME NEW f \in Compare!Fingerprints(a) \cup Compare!Fingerprints(b)
      PROVE  LET there == Compare!StatusOf(Compare!Comparison(a, b), f)
                 back  == Compare!StatusOf(Compare!Comparison(b, a), f)
             IN /\ there = "new" => /\ Compare!FindingOf(a, f) = None
                                    /\ back \in {"resolved", "unverifiable"}
                /\ there = "regressed" => back # "regressed"
                /\ f \in Compare!Fingerprints(a) \cap Compare!Fingerprints(b)
                   /\ Compare!Open(Compare!FindingOf(a, f)) /\ there = "still_open"
                     => back = "still_open"
  <2> DEFINE p == Compare!FindingOf(a, f)
             c == Compare!FindingOf(b, f)
             i == Compare!Item(a, b, f)
             j == Compare!Item(b, a, f)
             there == Compare!StatusOf(Compare!Comparison(a, b), f)
             back  == Compare!StatusOf(Compare!Comparison(b, a), f)
  <2>1. there = i.status /\ back = j.status
    BY <1>3, StatusIs
  <2>2. /\ f \in Compare!Fingerprints(a) <=> p # None
        /\ f \in Compare!Fingerprints(b) <=> c # None
        /\ p # None => p.severity \in Grades
        /\ c # None => c.severity \in Grades
    BY <1>2, Found DEF Compare!IsFinding, Grades
  <2>3. /\ c = None => i.status \in {"unverifiable", "resolved"}
        /\ c # None /\ p = None => i.status = "new"
        /\ c # None /\ p # None => i.status = Compare!BothStatus(p, c)
    BY ItemIs
  <2>4. /\ p = None => j.status \in {"unverifiable", "resolved"}
        /\ p # None /\ c = None => j.status = "new"
        /\ p # None /\ c # None => j.status = Compare!BothStatus(c, p)
    BY ItemIs
  <2> SUFFICES /\ there = "new" => p = None /\ back \in {"resolved", "unverifiable"}
               /\ there = "regressed" => back # "regressed"
               /\ Compare!Open(p) /\ there = "still_open" => back = "still_open"
    OBVIOUS
  <2> HIDE DEF p, c, i, j, there, back
  <2>5. CASE p = None
    <3>1. c # None
      BY <1>3, <2>2, <2>5
    <3>2. there = "new" /\ back \in {"resolved", "unverifiable"}
      BY <2>1, <2>3, <2>4, <2>5, <3>1
    <3> QED BY <2>5, <3>2
  <2>7. CASE c = None
    <3>1. there \in {"resolved", "unverifiable"}
      BY <2>1, <2>3, <2>7
    <3> QED BY <3>1
  <2>6. CASE p # None /\ c # None
    <3>1. /\ Compare!SeverityRank(p.severity) \in Nat /\ Compare!SeverityRank(c.severity) \in Nat
      BY <2>2, <2>6, RanksOrder
    <3>2. i.status = Compare!BothStatus(p, c) /\ j.status = Compare!BothStatus(c, p)
      BY <2>3, <2>4, <2>6
    <3>3. BothFacts(p, c, there) /\ BothFacts(c, p, back)
      BY <2>1, <3>2, BothIs
    <3>4. there = "regressed" => back # "regressed"
      BY <3>1, <3>3 DEF BothFacts
    <3>5. Compare!Content(p) = Compare!Content(c) => p.severity = c.severity
      BY DEF Compare!Content
    <3>6. Compare!Open(p) /\ there = "still_open" => back = "still_open"
      BY <3>1, <3>3, <3>5 DEF Compare!Open, BothFacts
    <3>7. there # "new"
      BY <3>3 DEF BothFacts
    <3> QED BY <3>4, <3>6, <3>7
  <2> QED BY <2>5, <2>6, <2>7
<1> QED BY <1>1, <1>3 DEF Compare!DirectionsAgree, a, b

(* A finding that is graver, and the same otherwise, blocks no less. *)
LEMMA GraverBlocks ==
  ASSUME NEW a, NEW b, NEW w, NEW f,
         Compare!IsRun(a),
         Compare!Blocks(Compare!Item(a, b, f)),
         LET c == Compare!FindingOf(b, f)
             d == Compare!FindingOf(w, f)
         IN \/ c = None /\ d = None /\ b.coverage.failed \subseteq w.coverage.failed
            \/ /\ c # None /\ d # None
               /\ c.severity \in Grades /\ d.severity \in Grades
               /\ d.status = c.status /\ d.content = c.content /\ d.sources = c.sources
               /\ Compare!SeverityRank(d.severity) >= Compare!SeverityRank(c.severity)
  PROVE  Compare!Blocks(Compare!Item(a, w, f))
<1> DEFINE p == Compare!FindingOf(a, f)
           c == Compare!FindingOf(b, f)
           d == Compare!FindingOf(w, f)
           i == Compare!Item(a, b, f)
           j == Compare!Item(a, w, f)
<1>1. /\ i.after = c /\ j.after = d
      /\ c = None /\ p.sources \cap b.coverage.failed # {} => i.status = "unverifiable"
      /\ c = None /\ ~(p.sources \cap b.coverage.failed # {}) => i.status = "resolved"
      /\ c # None /\ p = None => i.status = "new"
      /\ c # None /\ p # None => i.status = Compare!BothStatus(p, c)
  BY ItemIs
<1>2. /\ d = None /\ p.sources \cap w.coverage.failed # {} => j.status = "unverifiable"
      /\ d # None /\ p = None => j.status = "new"
      /\ d # None /\ p # None => j.status = Compare!BothStatus(p, d)
  BY ItemIs
<1>3. p # None => p.severity \in Grades
  BY Found DEF Compare!IsFinding, Grades
<1>4. \/ c = None /\ d = None /\ b.coverage.failed \subseteq w.coverage.failed
      \/ /\ c # None /\ d # None
         /\ c.severity \in Grades /\ d.severity \in Grades
         /\ d.status = c.status /\ d.content = c.content /\ d.sources = c.sources
         /\ Compare!SeverityRank(d.severity) >= Compare!SeverityRank(c.severity)
  OBVIOUS
<1>5. Compare!Blocks(i)
  OBVIOUS
<1> HIDE DEF p, c, d, i, j
<1>6. CASE c = None
  <2>1. i.status = "unverifiable" /\ p.sources \cap b.coverage.failed # {}
    BY <1>1, <1>5, <1>6 DEF Compare!Blocks
  <2>2. d = None /\ p.sources \cap w.coverage.failed # {}
    BY <1>4, <1>6, <2>1
  <2> QED BY <1>2, <2>2 DEF Compare!Blocks, j
<1>7. CASE c # None
  <2>1. /\ d # None /\ c.severity \in Grades /\ d.severity \in Grades
        /\ d.status = c.status /\ d.content = c.content /\ d.sources = c.sources
        /\ Compare!SeverityRank(d.severity) >= Compare!SeverityRank(c.severity)
        /\ Compare!SeverityRank(d.severity) \in Nat /\ Compare!SeverityRank(c.severity) \in Nat
    BY <1>4, <1>7, RanksOrder
  <2>2. c.severity \in Compare!Blocking => d.severity \in Compare!Blocking
    BY <2>1, RanksOrder
  <2>3. CASE p = None
    BY <1>1, <1>2, <1>5, <1>7, <2>1, <2>2, <2>3 DEF Compare!Blocks, j
  <2>4. CASE p # None
    <3>1. i.status = Compare!BothStatus(p, c) /\ j.status = Compare!BothStatus(p, d)
      BY <1>1, <1>2, <1>7, <2>1, <2>4
    <3>0. BothFacts(p, c, i.status) /\ BothFacts(p, d, j.status)
      BY <3>1, BothIs
    <3>2. CASE i.status = "unverifiable"
      <4>1. j.status = "unverifiable"
        BY <2>1, <3>2, <3>0 DEF BothFacts
      <4> QED BY <4>1 DEF Compare!Blocks, j
    <3>3. CASE i.status \in {"still_open", "regressed"} /\ c.severity \in Compare!Blocking
      <4>1. Compare!SeverityRank(p.severity) \in Nat
        BY <1>3, <2>4, RanksOrder
      <4>2. c.severity = d.severity => Compare!Content(c) = Compare!Content(d)
        BY <2>1 DEF Compare!Content
      <4>3. Compare!Content(p) = Compare!Content(c) => p.severity = c.severity
        BY DEF Compare!Content
      <4>4. Compare!SeverityRank(c.severity) = Compare!SeverityRank(d.severity)
              => c.severity = d.severity
        BY <2>1, RanksOrder
      <4>5. c.status \notin Compare!Closed \cup {"unverifiable"}
        BY <3>3, <3>0 DEF BothFacts
      <4>6. \/ Compare!SeverityRank(d.severity) > Compare!SeverityRank(p.severity)
            \/ /\ Compare!Content(p) = Compare!Content(d)
               /\ ~(Compare!SeverityRank(d.severity) > Compare!SeverityRank(p.severity))
        <5>1. CASE i.status = "regressed"
          <6>1. Compare!SeverityRank(c.severity) > Compare!SeverityRank(p.severity)
            BY <3>0, <5>1 DEF BothFacts
          <6> QED BY <2>1, <4>1, <6>1
        <5>2. CASE i.status = "still_open"
          <6>1. Compare!Content(p) = Compare!Content(c)
            BY <3>0, <5>2 DEF BothFacts
          <6> QED BY <2>1, <4>1, <4>2, <4>3, <4>4, <6>1
        <5> QED BY <3>3, <5>1, <5>2
      <4>7. j.status \in {"regressed", "still_open"}
        BY <2>1, <4>5, <3>0, <4>6 DEF BothFacts
      <4> QED BY <1>1, <2>2, <3>3, <4>7 DEF Compare!Blocks, j
    <3> QED BY <1>1, <1>5, <3>2, <3>3, <3>0 DEF Compare!Blocks, BothFacts
  <2> QED BY <2>3, <2>4
<1> QED BY <1>6, <1>7 DEF j

(* A run in which a finding is graver. *)
LEMMA GraverFinding ==
  ASSUME NEW a, NEW b, NEW w, NEW k \in DOMAIN b.evidence, NEW s \in Grades,
         Compare!IsRun(a), Compare!IsRun(b), Unique(b),
         w = [b EXCEPT !.evidence[k].severity = s], Compare!NoLessSevere(b, w),
         NEW f \in Compare!Fingerprints(a) \cup Compare!Fingerprints(b),
         Compare!Blocks(Compare!Item(a, b, f))
  PROVE  /\ w.version = b.version
         /\ f \in Compare!Fingerprints(a) \cup Compare!Fingerprints(w)
         /\ Compare!Blocks(Compare!Item(a, w, f))
<1> DEFINE graver == [b.evidence[k] EXCEPT !.severity = s]
<1>1. DOMAIN b = {"profile", "version", "evidence", "coverage"}
  BY DEF Compare!IsRun
<1>2. /\ w.version = b.version /\ w.coverage = b.coverage
      /\ w.evidence = [b.evidence EXCEPT ![k] = graver]
  BY <1>1
<1>3. /\ DOMAIN w.evidence = DOMAIN b.evidence
      /\ w.evidence[k] = graver
      /\ \A m \in DOMAIN b.evidence : m # k => w.evidence[m] = b.evidence[m]
  BY <1>2
<1>4. ASSUME NEW m \in DOMAIN b.evidence
      PROVE  Compare!IsFinding(b.evidence[m]) /\ b.evidence[m].severity \in Grades
  BY DEF Compare!IsRun, Compare!IsFinding, Grades
<1>5. /\ graver.fingerprint = b.evidence[k].fingerprint
      /\ graver.status = b.evidence[k].status /\ graver.content = b.evidence[k].content
      /\ graver.sources = b.evidence[k].sources /\ graver.severity = s /\ graver # None
  BY <1>4 DEF Compare!IsFinding, Grades
<1> HIDE DEF graver
<1>6. ASSUME NEW m \in DOMAIN b.evidence
      PROVE  /\ w.evidence[m].fingerprint = b.evidence[m].fingerprint
             /\ w.evidence[m].status = b.evidence[m].status
             /\ w.evidence[m].content = b.evidence[m].content
             /\ w.evidence[m].sources = b.evidence[m].sources
             /\ w.evidence[m].severity \in Grades
             /\ w.evidence[m] # None /\ b.evidence[m] # None
             /\ Compare!SeverityRank(w.evidence[m].severity)
                  >= Compare!SeverityRank(b.evidence[m].severity)
  <2>1. Compare!SeverityRank(w.evidence[m].severity)
          >= Compare!SeverityRank(b.evidence[m].severity)
    BY DEF Compare!NoLessSevere
  <2>2. b.evidence[m] # None
    BY <1>4 DEF Compare!IsFinding
  <2> QED BY <1>3, <1>4, <1>5, <2>1, <2>2
<1>7. Compare!Fingerprints(w) = Compare!Fingerprints(b)
  BY <1>3, <1>6 DEF Compare!Fingerprints
<1>8. CASE f \notin Compare!Fingerprints(b)
  <2>1. /\ Compare!FindingOf(b, f) = None /\ Compare!FindingOf(w, f) = None
        /\ b.coverage.failed \subseteq w.coverage.failed
    BY <1>2, <1>7, <1>8, FoundAt
  <2>2. Compare!Blocks(Compare!Item(a, w, f))
    BY <2>1, GraverBlocks
  <2> QED BY <1>2, <1>7, <2>2
<1>9. CASE f \in Compare!Fingerprints(b)
  <2>1. PICK m \in DOMAIN b.evidence : /\ Compare!FindingOf(b, f) = b.evidence[m]
                                       /\ b.evidence[m].fingerprint = f
    BY <1>9, FoundAt
  <2>2. PICK n \in DOMAIN w.evidence : /\ Compare!FindingOf(w, f) = w.evidence[n]
                                       /\ w.evidence[n].fingerprint = f
    BY <1>7, <1>9, FoundAt, ZenonT(40)
  <2>3. n = m
    BY <1>3, <1>6, <2>1, <2>2 DEF Unique
  <2> DEFINE c == Compare!FindingOf(b, f)
             d == Compare!FindingOf(w, f)
  <2>4. /\ c # None /\ d # None /\ c.severity \in Grades /\ d.severity \in Grades
        /\ d.status = c.status /\ d.content = c.content /\ d.sources = c.sources
        /\ Compare!SeverityRank(d.severity) >= Compare!SeverityRank(c.severity)
    BY <1>4, <1>6, <2>1, <2>2, <2>3, ZenonT(40)
  <2>5. Compare!Blocks(Compare!Item(a, w, f))
    BY <2>4, GraverBlocks
  <2> QED BY <1>2, <1>7, <2>5
<1> QED BY <1>8, <1>9

(* A run that could not read a further source. *)
LEMMA MissedSource ==
  ASSUME NEW a, NEW b, NEW w, NEW t,
         Compare!IsRun(a), Compare!IsRun(b),
         w = [b EXCEPT !.coverage.failed = b.coverage.failed \cup {t}],
         NEW f \in Compare!Fingerprints(a) \cup Compare!Fingerprints(b),
         Compare!Blocks(Compare!Item(a, b, f))
  PROVE  /\ w.version = b.version
         /\ f \in Compare!Fingerprints(a) \cup Compare!Fingerprints(w)
         /\ Compare!Blocks(Compare!Item(a, w, f))
<1>1. /\ w.version = b.version /\ w.evidence = b.evidence
      /\ w.coverage.failed = b.coverage.failed \cup {t}
  BY DEF Compare!IsRun
<1>2. Compare!Fingerprints(w) = Compare!Fingerprints(b)
  BY <1>1 DEF Compare!Fingerprints
<1>3. Compare!FindingOf(w, f) = Compare!FindingOf(b, f)
  BY <1>1, <1>2 DEF Compare!FindingOf
<1> DEFINE c == Compare!FindingOf(b, f)
<1>4. c # None => c.severity \in Grades
  BY Found DEF Compare!IsFinding, Grades
<1>5. c # None => Compare!SeverityRank(c.severity) >= Compare!SeverityRank(c.severity)
  BY <1>4, RanksOrder
<1>6. Compare!Blocks(Compare!Item(a, w, f))
  BY <1>1, <1>3, <1>4, <1>5, GraverBlocks
<1> QED BY <1>1, <1>2, <1>6

(* A run that has a finding of the earlier one besides, open and blocking. *)
LEMMA KeptFinding ==
  ASSUME NEW a, NEW b, NEW w, NEW m \in DOMAIN a.evidence, NEW g, g = a.evidence[m],
         Compare!IsRun(a), Compare!IsRun(b), Unique(a), Unique(b),
         g.fingerprint \notin Compare!Fingerprints(b),
         g.status = "open", g.severity \in Compare!Blocking,
         w.version = b.version, w.coverage = b.coverage,
         w.evidence = Append(b.evidence, g),
         NEW f \in Compare!Fingerprints(a) \cup Compare!Fingerprints(b),
         Compare!Blocks(Compare!Item(a, b, f))
  PROVE  /\ f \in Compare!Fingerprints(a) \cup Compare!Fingerprints(w)
         /\ Compare!Blocks(Compare!Item(a, w, f))
<1> DEFINE n == Len(b.evidence)
<1>2. /\ n \in Nat /\ DOMAIN b.evidence = 1..n
      /\ DOMAIN w.evidence = 1..(n + 1) /\ w.evidence[n + 1] = g
      /\ \A k \in 1..n : w.evidence[k] = b.evidence[k]
  BY DEF Compare!IsRun
<1> HIDE DEF n
<1>3. Compare!Fingerprints(w) = Compare!Fingerprints(b) \cup {g.fingerprint}
  <2>1. 1..(n + 1) = 1..n \cup {n + 1}
    BY <1>2
  <2>2. Compare!Fingerprints(w) = {w.evidence[k].fingerprint : k \in 1..n \cup {n + 1}}
    BY <1>2, <2>1 DEF Compare!Fingerprints
  <2>3. Compare!Fingerprints(b) = {w.evidence[k].fingerprint : k \in 1..n}
    BY <1>2 DEF Compare!Fingerprints
  <2>4. \A x : x \in Compare!Fingerprints(w)
               <=> x \in Compare!Fingerprints(b) \/ x = w.evidence[n + 1].fingerprint
    BY <2>2, <2>3
  <2> QED BY <1>2, <2>4
<1>4. CASE f = g.fingerprint
  <2>0. f \in Compare!Fingerprints(w)
    BY <1>3, <1>4
  <2>1. Compare!FindingOf(a, f) = g
    BY <1>4, FoundIsUnique
  <2>2. PICK k \in DOMAIN w.evidence : /\ Compare!FindingOf(w, f) = w.evidence[k]
                                       /\ w.evidence[k].fingerprint = f
    BY <2>0, FoundAt, SMTT(30)
  <2>3. k \notin 1..n
    BY <1>2, <1>4, <2>2 DEF Compare!Fingerprints
  <2>4. Compare!FindingOf(w, f) = g
    BY <1>2, <2>2, <2>3
  <2>5. g # None /\ g.severity \in Grades
    BY DEF Compare!IsRun, Compare!IsFinding, Grades
  <2>6. /\ Compare!Item(a, w, f).after = g
        /\ Compare!Item(a, w, f).status = Compare!BothStatus(g, g)
    BY <2>1, <2>4, <2>5, ItemIs
  <2>7. Compare!SeverityRank(g.severity) \in Nat
    BY <2>5, RanksOrder
  <2>8. Compare!BothStatus(g, g) = "still_open"
    BY <2>7 DEF Compare!BothStatus, Compare!Closed
  <2> QED BY <1>3, <1>4, <2>6, <2>8 DEF Compare!Blocks
<1>5. CASE f # g.fingerprint
  <2>1. Compare!FindingOf(w, f) = Compare!FindingOf(b, f)
    <3>1. CASE f \notin Compare!Fingerprints(b)
      BY <1>3, <1>5, <3>1, FoundAt
    <3>2. CASE f \in Compare!Fingerprints(b)
      <4>0. f \in Compare!Fingerprints(w)
        BY <1>3, <3>2
      <4>1. PICK j \in DOMAIN b.evidence : /\ Compare!FindingOf(b, f) = b.evidence[j]
                                           /\ b.evidence[j].fingerprint = f
        BY <3>2, FoundAt
      <4>2. PICK k \in DOMAIN w.evidence : /\ Compare!FindingOf(w, f) = w.evidence[k]
                                           /\ w.evidence[k].fingerprint = f
        BY <4>0, FoundAt, SMTT(30)
      <4>3. k \in 1..n
        BY <1>2, <1>5, <4>2
      <4>4. k = j
        BY <1>2, <4>1, <4>2, <4>3 DEF Unique
      <4> QED BY <1>2, <4>1, <4>2, <4>3, <4>4
    <3> QED BY <3>1, <3>2
  <2> DEFINE c == Compare!FindingOf(b, f)
  <2>2. c # None => c.severity \in Grades
    BY Found DEF Compare!IsFinding, Grades
  <2>3. c # None => Compare!SeverityRank(c.severity) >= Compare!SeverityRank(c.severity)
    BY <2>2, RanksOrder
  <2>4. Compare!Blocks(Compare!Item(a, w, f))
    BY <2>1, <2>2, <2>3, GraverBlocks
  <2> QED BY <1>3, <2>4
<1> QED BY <1>4, <1>5

LEMMA WorseIsNeverBetterHolds ==
  ASSUME Compare!IsRun(Compare!Before), Compare!IsRun(Compare!After)
  PROVE  Compare!WorseIsNeverBetter
<1> DEFINE a == Compare!Before
           b == Compare!After
<1> SUFFICES ASSUME Compare!Comparable(a, b), Compare!Comparison(a, b).verdict = "fail",
                    NEW w \in Compare!Worse(b), Compare!NoLessSevere(b, w)
             PROVE  Compare!Comparison(a, w).verdict = "fail"
  BY DEF Compare!WorseIsNeverBetter
<1>1. Unique(a) /\ Unique(b)
  BY NoDuplicates DEF Compare!Comparable
<1>2. \/ \E k \in DOMAIN b.evidence, s \in Grades :
           w = [b EXCEPT !.evidence[k].severity = s]
      \/ \E t : w = [b EXCEPT !.coverage.failed = b.coverage.failed \cup {t}]
      \/ \E m \in DOMAIN a.evidence :
           /\ a.evidence[m].fingerprint \notin Compare!Fingerprints(b)
           /\ a.evidence[m].status = "open" /\ a.evidence[m].severity \in Compare!Blocking
           /\ w = [b EXCEPT !.evidence = Append(@, a.evidence[m])]
  BY SMTT(30) DEF Compare!Worse, Grades
<1>3. Compare!IsRun(a) /\ Compare!IsRun(b)
  OBVIOUS
<1>4. \/ a.version # b.version
      \/ \E f \in Compare!Fingerprints(a) \cup Compare!Fingerprints(b) :
           Compare!Blocks(Compare!Item(a, b, f))
  BY VerdictIs
<1> HIDE DEF a, b
<1>5. w.version = b.version
  BY <1>2, <1>3 DEF Compare!IsRun
<1>6. CASE a.version # b.version
  BY <1>5, <1>6, VerdictIs
<1>7. ASSUME NEW f \in Compare!Fingerprints(a) \cup Compare!Fingerprints(b),
             Compare!Blocks(Compare!Item(a, b, f))
      PROVE  /\ f \in Compare!Fingerprints(a) \cup Compare!Fingerprints(w)
             /\ Compare!Blocks(Compare!Item(a, w, f))
  <2>1. CASE \E k \in DOMAIN b.evidence, s \in Grades :
               w = [b EXCEPT !.evidence[k].severity = s]
    BY <1>1, <1>3, <1>7, <2>1, GraverFinding
  <2>2. CASE \E t : w = [b EXCEPT !.coverage.failed = b.coverage.failed \cup {t}]
    BY <1>3, <1>7, <2>2, MissedSource
  <2>3. CASE \E m \in DOMAIN a.evidence :
               /\ a.evidence[m].fingerprint \notin Compare!Fingerprints(b)
               /\ a.evidence[m].status = "open" /\ a.evidence[m].severity \in Compare!Blocking
               /\ w = [b EXCEPT !.evidence = Append(@, a.evidence[m])]
    <3>1. PICK m \in DOMAIN a.evidence :
               /\ a.evidence[m].fingerprint \notin Compare!Fingerprints(b)
               /\ a.evidence[m].status = "open" /\ a.evidence[m].severity \in Compare!Blocking
               /\ w = [b EXCEPT !.evidence = Append(@, a.evidence[m])]
      BY <2>3
    <3>2. /\ w.version = b.version /\ w.coverage = b.coverage
          /\ w.evidence = Append(b.evidence, a.evidence[m])
      BY <1>3, <3>1 DEF Compare!IsRun
    <3> QED BY <1>1, <1>3, <1>7, <3>1, <3>2, KeptFinding, ZenonT(60)
  <2> QED BY <1>2, <2>1, <2>2, <2>3
<1> QED BY <1>4, <1>6, <1>7, VerdictIs

-----------------------------------------------------------------------------
(* The records: the schema asks no more of a row than the validators do,   *)
(* and the row of a valid record holds all of it.                          *)

RecordsInv ==
  /\ kind \in Records!RecordKinds
  /\ record \in Records!RecordsOf(kind)
  /\ state \in {"given", "invalid", "stored", "loaded"}
  /\ state \in {"given", "invalid"} => row = None
  /\ state \in {"stored", "loaded"} => /\ row = Records!RowOf(kind, record)
                                      /\ Records!Valid(kind, record)

LEMMA FactsFit ==
  ASSUME NEW k \in Records!FactKinds, NEW r, Records!Valid(k, r)
  PROVE  /\ Records!Fits(k, Records!RowOf(k, r))
         /\ Records!RecordOf(k, Records!RowOf(k, r)) = r
<1>1. k \in {"file", "chunk", "symbol", "reference", "dependency"}
  BY DEF Records!FactKinds, Records!Validator
<1>2. Records!Table[k] = Records!Validator[k]
  BY <1>1 DEF Records!Table, Records!Validator, Records!ValidFile, Records!FileTable,
     Records!ValidChunk, Records!ChunkTable, Records!ValidSymbol, Records!SymbolTable,
     Records!ValidReference, Records!ReferenceTable, Records!ValidDependency,
     Records!DependencyTable
<1>3. /\ Records!RowOf(k, r) = r /\ Records!RecordOf(k, r) = r
      /\ Records!Obeys(r, Records!Validator[k], Records!Blank.validator)
      /\ Records!Fits(k, r) = Records!Obeys(r, Records!Table[k], Records!Blank.table)
  BY <1>1 DEF Records!RowOf, Records!RecordOf, Records!Valid, Records!Fits
<1>4. Records!Blank.table \subseteq Records!Blank.validator
  BY DEF Records!Blank
<1>5. Records!Obeys(r, Records!Validator[k], Records!Blank.table)
  BY <1>3, <1>4 DEF Records!Obeys
<1> QED BY <1>2, <1>3, <1>5

LEMMA IndexFits ==
  ASSUME NEW r \in Records!IndexRecords, Records!ValidIndex(r)
  PROVE  Records!IndexTable(Records!IndexRow(r))
<1> DEFINE w == Records!IndexRow(r)
<1>1. /\ w.stage = r.stage /\ w.completed_at = r.completedAt
      /\ w.resolved_commit = r.resolvedCommit
      /\ w.failure_code = Records!Column(r.failure, "code")
      /\ w.failure_message = Records!Column(r.failure, "message")
      /\ w.stats_file_count = Records!Column(r.stats, "fileCount")
      /\ w.stats_chunk_count = Records!Column(r.stats, "chunkCount")
      /\ w.stats_indexed_bytes = Records!Column(r.stats, "indexedBytes")
  BY DEF Records!IndexRow
<1>2. /\ r.failure # None => r.failure \in [code : Records!Texts, message : Records!Texts]
      /\ r.stats # None => r.stats \in [fileCount : Counts, chunkCount : Counts, indexedBytes : Counts]
  BY DEF Records!IndexRecords
<1>3. /\ w.failure_code = None <=> r.failure = None
      /\ w.failure_message = None <=> r.failure = None
  BY <1>1, <1>2, NoneIsNothingElse DEF Records!NoneIsNoValue, Records!Column
<1>4. /\ w.stats_file_count = None <=> r.stats = None
      /\ w.stats_chunk_count = None <=> r.stats = None
      /\ w.stats_indexed_bytes = None <=> r.stats = None
  BY <1>1, <1>2, NoneIsNothingElse DEF Records!NoneIsNoValue, Records!Column
<1>5. w.resolved_commit \notin Records!Blank.table
  BY <1>1 DEF Records!ValidIndex, Records!Blank
<1>6. r.stats # None => /\ w.stats_file_count >= 0 /\ w.stats_chunk_count >= 0
                        /\ w.stats_indexed_bytes >= 0
  BY <1>1, <1>2 DEF Records!ValidIndex, Records!Column
<1>7. /\ w.stats_file_count = w["stats_file_count"]
      /\ w.stats_chunk_count = w["stats_chunk_count"]
      /\ w.stats_indexed_bytes = w["stats_indexed_bytes"]
  OBVIOUS
<1>8. \A f \in {"stats_file_count", "stats_chunk_count", "stats_indexed_bytes"} :
        w[f] # None => w[f] >= 0
  BY <1>4, <1>6, <1>7
<1>9. \/ w.stage \in Records!Active /\ w.completed_at = None /\ w.failure_code = None
      \/ w.stage = "completed" /\ w.completed_at # None /\ w.failure_code = None
      \/ w.stage = "cancelled" /\ w.completed_at # None /\ w.failure_code = None
      \/ w.stage = "failed" /\ w.completed_at # None /\ w.failure_code # None
  BY <1>1, <1>3 DEF Records!ValidIndex, Records!Stages, Records!Active
<1> HIDE DEF w
<1>10. Records!IndexTable(w)
  BY <1>3, <1>4, <1>5, <1>8, <1>9 DEF Records!IndexTable
<1> QED BY <1>10 DEF w

LEMMA IndexReadsBack ==
  ASSUME NEW r \in Records!IndexRecords
  PROVE  Records!IndexOfRow(Records!IndexRow(r)) = r
<1> DEFINE w == Records!IndexRow(r)
<1>1. /\ w.stage = r.stage /\ w.completed_at = r.completedAt
      /\ w.resolved_commit = r.resolvedCommit
      /\ w.failure_code = Records!Column(r.failure, "code")
      /\ w.failure_message = Records!Column(r.failure, "message")
      /\ w.stats_file_count = Records!Column(r.stats, "fileCount")
      /\ w.stats_chunk_count = Records!Column(r.stats, "chunkCount")
      /\ w.stats_indexed_bytes = Records!Column(r.stats, "indexedBytes")
  BY DEF Records!IndexRow
<1>2. /\ r.failure # None => r.failure \in [code : Records!Texts, message : Records!Texts]
      /\ r.stats # None => r.stats \in [fileCount : Counts, chunkCount : Counts, indexedBytes : Counts]
  BY DEF Records!IndexRecords
<1> HIDE DEF w
<1>3. r.failure = IF None \in {w.failure_code, w.failure_message} THEN None
                  ELSE [code |-> w.failure_code, message |-> w.failure_message]
  BY <1>1, <1>2, NoneIsNothingElse DEF Records!NoneIsNoValue, Records!Column
<1>4. r.stats = IF None \in {w.stats_file_count, w.stats_chunk_count, w.stats_indexed_bytes}
                THEN None
                ELSE [fileCount |-> w.stats_file_count, chunkCount |-> w.stats_chunk_count,
                      indexedBytes |-> w.stats_indexed_bytes]
  BY <1>1, <1>2, NoneIsNothingElse DEF Records!NoneIsNoValue, Records!Column
<1>5. r = [stage |-> r.stage, completedAt |-> r.completedAt,
           resolvedCommit |-> r.resolvedCommit, failure |-> r.failure, stats |-> r.stats]
  BY DEF Records!IndexRecords
<1>6. Records!IndexOfRow(w) =
        [stage |-> r.stage, completedAt |-> r.completedAt,
         resolvedCommit |-> r.resolvedCommit, failure |-> r.failure, stats |-> r.stats]
  BY <1>1, <1>3, <1>4 DEF Records!IndexOfRow
<1> QED BY <1>5, <1>6 DEF w

LEMMA RunFits ==
  ASSUME NEW r \in Records!RunRecords, Records!ValidRun(r)
  PROVE  Records!RunTable(Records!RunRow(r))
<1>1. r.status \in {"in_progress", "completed"}
  BY DEF Records!RunRecords
<1>2. CASE r.status = "completed"
  <2>1. None \notin {r.completedAt, r.graphDigest, r.findingEvidence, r.coverage}
    BY <1>2 DEF Records!RunRecords
  <2>2. r.calibrationOverrideReason \notin Records!Blank.table
    BY <1>2 DEF Records!ValidRun, Records!Blank
  <2> QED BY <1>2, <2>1, <2>2 DEF Records!RunTable, Records!RunRow
<1>3. CASE r.status = "in_progress"
  <2>1. None \notin Records!Blank.table
    BY NoneIsNothingElse DEF Records!NoneIsNoValue, Records!Texts, Records!Blank
  <2> QED BY <1>3, <2>1 DEF Records!RunTable, Records!RunRow
<1> QED BY <1>1, <1>2, <1>3

LEMMA RunReadsBack ==
  ASSUME NEW r \in Records!RunRecords
  PROVE  Records!RunOfRow(Records!RunRow(r)) = r
<1> DEFINE w == Records!RunRow(r)
           fields == {"status", "worktreeDigest", "coverage", "declaresMap", "completedAt",
                      "graphDigest", "findingEvidence", "boundaryMap",
                      "calibrationOverrideReason"}
<1>1. /\ r.status \in {"in_progress", "completed"}
      /\ DOMAIN r = fields
      /\ r = [f \in fields |-> r[f]]
  BY DEF Records!RunRecords
<1>2. /\ w.status = r.status /\ w.repository_worktree_digest = r.worktreeDigest
      /\ w.coverage = r.coverage /\ w.declared_map = r.declaresMap
      /\ r.status = "completed" =>
           /\ w.completed_at = r.completedAt /\ w.graph_digest = r.graphDigest
           /\ w.finding_evidence = r.findingEvidence /\ w.boundary_map = r.boundaryMap
           /\ w.calibration_override_reason = r.calibrationOverrideReason
  BY DEF Records!RunRow
<1>3. r.status # "completed" =>
        /\ r.completedAt = None /\ r.graphDigest = None /\ r.findingEvidence = None
        /\ r.boundaryMap = None /\ r.calibrationOverrideReason = None
  BY DEF Records!RunRecords
<1> HIDE DEF w
<1>4. Records!RunOfRow(w) = [f \in fields |-> Records!RunOfRow(w)[f]]
  BY DEF Records!RunOfRow
<1>5. ASSUME NEW f \in fields
      PROVE  Records!RunOfRow(w)[f] = r[f]
  BY <1>2, <1>3 DEF Records!RunOfRow
<1> QED BY <1>1, <1>4, <1>5 DEF w

LEMMA RecordsStep ==
  ASSUME RecordsInv, Records!Next
  PROVE  /\ RecordsInv'
         /\ state = "stored" => record' = record /\ Records!Valid(kind, record')
<1>1. /\ Records!Valid(kind, record) =>
           Records!Fits(kind, Records!RowOf(kind, record))
      /\ Records!Valid(kind, record) =>
           Records!RecordOf(kind, Records!RowOf(kind, record)) = record
  <2>1. CASE kind = "index"
    BY <2>1, IndexFits, IndexReadsBack
       DEF RecordsInv, Records!RecordsOf, Records!Valid, Records!Fits, Records!RowOf,
           Records!RecordOf
  <2>2. CASE kind = "run"
    BY <2>2, RunFits, RunReadsBack
       DEF RecordsInv, Records!RecordsOf, Records!Valid, Records!Fits, Records!RowOf,
           Records!RecordOf
  <2>3. CASE kind \in Records!FactKinds
    BY <2>3, FactsFit
  <2> QED BY <2>1, <2>2, <2>3 DEF RecordsInv, Records!RecordKinds
<1>2. CASE Records!Save
  BY <1>1, <1>2 DEF RecordsInv, Records!Save
<1>3. CASE Records!Load
  BY <1>1, <1>3 DEF RecordsInv, Records!Load
<1>4. CASE Records!Done
  BY <1>4 DEF RecordsInv, Records!Done, Records!vars
<1> QED BY <1>2, <1>3, <1>4 DEF Records!Next

LEMMA RecordsSuffice ==
  ASSUME RecordsInv
  PROVE  Records!TypeOK /\ Records!ValidRecordsFit
<1>1. state \in {"stored", "loaded"} => row # None
  BY NoneIsNothingElse DEF RecordsInv, Records!NoneIsNoValue
<1> QED BY <1>1 DEF RecordsInv, Records!TypeOK, Records!ValidRecordsFit

-----------------------------------------------------------------------------
(* Similar concepts.  Of a finite ordered set, those with fewer than k     *)
(* before them are k, unless it has no more.                               *)

Ordered(S, R) ==
  /\ \A m \in S : <<m, m>> \notin R
  /\ \A l, m, n \in S : <<l, m>> \in R /\ <<m, n>> \in R => <<l, n>> \in R
  /\ \A m, n \in S : m # n => <<m, n>> \in R \/ <<n, m>> \in R

Ahead(S, R, n) == {m \in S : <<m, n>> \in R}
Top(S, R, k) == {n \in S : Cardinality(Ahead(S, R, n)) < k}

LEMMA LeastNumber ==
  ASSUME NEW T, T \subseteq Nat, T # {}
  PROVE  \E m \in T : \A k \in T : m <= k
<1> DEFINE R == OpToRel(<, Nat)
<1>1. IsWellFoundedOn(R, Nat)
  BY NatLessThanWellFounded
<1>2. \A x, y \in Nat : x < y => <<x, y>> \in R
  BY DEF OpToRel
<1> HIDE DEF R
<1>3. PICK m \in T : \A y \in T : <<y, m>> \notin R
  BY <1>1, WFMin
<1>4. ASSUME NEW k \in T PROVE m <= k
  <2>1. m \in Nat /\ k \in Nat /\ ~(k < m)
    BY <1>2, <1>3
  <2> QED BY <2>1
<1> QED BY <1>4

LEMMA AheadGrows ==
  ASSUME NEW S, IsFiniteSet(S), NEW R, Ordered(S, R)
  PROVE  /\ \A n \in S : /\ IsFiniteSet(Ahead(S, R, n))
                         /\ Cardinality(Ahead(S, R, n)) \in Nat
         /\ \A m, n \in S :
              <<m, n>> \in R
                <=> Cardinality(Ahead(S, R, m)) < Cardinality(Ahead(S, R, n))
<1>1. ASSUME NEW n \in S
      PROVE  /\ IsFiniteSet(Ahead(S, R, n))
             /\ Cardinality(Ahead(S, R, n)) \in Nat
  BY FS_Subset, FS_CardinalityType DEF Ahead
<1>2. ASSUME NEW m \in S, NEW n \in S, <<m, n>> \in R
      PROVE  Cardinality(Ahead(S, R, m)) < Cardinality(Ahead(S, R, n))
  <2>1. Ahead(S, R, m) \subseteq Ahead(S, R, n)
    BY <1>2 DEF Ahead, Ordered
  <2>2. m \in Ahead(S, R, n) /\ m \notin Ahead(S, R, m)
    BY <1>2 DEF Ahead, Ordered
  <2>3. /\ Cardinality(Ahead(S, R, m)) <= Cardinality(Ahead(S, R, n))
        /\ Cardinality(Ahead(S, R, m)) # Cardinality(Ahead(S, R, n))
    BY <1>1, <2>1, <2>2, FS_Subset
  <2> QED BY <1>1, <2>3
<1>3. ASSUME NEW m \in S, NEW n \in S,
             Cardinality(Ahead(S, R, m)) < Cardinality(Ahead(S, R, n))
      PROVE  <<m, n>> \in R
  <2>1. m # n
    BY <1>1, <1>3
  <2>2. <<n, m>> \notin R
    BY <1>1, <1>2, <1>3
  <2> QED BY <2>1, <2>2 DEF Ordered
<1> QED BY <1>1, <1>2, <1>3

LEMMA TopIsFull ==
  ASSUME NEW S, IsFiniteSet(S), NEW R, Ordered(S, R), NEW k \in Nat
  PROVE  /\ IsFiniteSet(Top(S, R, k)) /\ Cardinality(Top(S, R, k)) \in 0..k
         /\ \A n \in S \ Top(S, R, k) :
              /\ Cardinality(Top(S, R, k)) = k
              /\ \A m \in Top(S, R, k) : <<m, n>> \in R
<1> DEFINE top == Top(S, R, k)
           rank(n) == Cardinality(Ahead(S, R, n))
<1>1. /\ top \subseteq S
      /\ \A n \in S : rank(n) \in Nat /\ (n \in top <=> rank(n) < k)
      /\ \A m, n \in S : <<m, n>> \in R <=> rank(m) < rank(n)
      /\ \A n \in S : IsFiniteSet(Ahead(S, R, n))
  BY AheadGrows DEF Top
<1>2. IsFiniteSet(top) /\ Cardinality(top) \in Nat
  BY <1>1, FS_Subset, FS_CardinalityType
<1>3. Cardinality(top) <= k
  <2>1. CASE top = {}
    BY <2>1, FS_EmptySet
  <2>2. CASE top # {}
    <3>1. PICK d \in {k - rank(n) : n \in top} : \A e \in {k - rank(n) : n \in top} : d <= e
      <4>1. {k - rank(n) : n \in top} \subseteq Nat
        BY <1>1
      <4>2. {k - rank(n) : n \in top} # {}
        BY <2>2
      <4> HIDE DEF top, rank
      <4> QED BY <4>1, <4>2, LeastNumber
    <3>2. PICK x \in top : \A n \in top : rank(n) <= rank(x)
      <4>1. PICK x \in top : d = k - rank(x)
        BY <3>1
      <4>2. \A n \in top : k - rank(x) <= k - rank(n)
        BY <3>1, <4>1
      <4> QED BY <1>1, <4>1, <4>2
    <3>3. Ahead(S, R, x) = top \ {x}
      <4>1. ASSUME NEW y \in Ahead(S, R, x) PROVE y \in top \ {x}
        <5>1. y \in S /\ rank(y) < rank(x)
          BY <1>1 DEF Ahead
        <5> QED BY <1>1, <5>1
      <4>2. ASSUME NEW y \in top \ {x} PROVE y \in Ahead(S, R, x)
        <5>1. ~ (rank(x) < rank(y))
          BY <1>1, <3>2
        <5>2. <<y, x>> \in R
          BY <1>1, <5>1 DEF Ordered
        <5> QED BY <1>1, <5>2 DEF Ahead
      <4> QED BY <4>1, <4>2
    <3>4. rank(x) = Cardinality(top) - 1
      BY <1>2, <3>3, FS_RemoveElement
    <3> QED BY <1>1, <1>2, <3>4
  <2> QED BY <2>1, <2>2
<1>4. ASSUME NEW n \in S \ top, NEW m \in top
      PROVE  <<m, n>> \in R
  BY <1>1
<1>5. ASSUME NEW n \in S \ top
      PROVE  Cardinality(top) >= k
  <2>1. PICK d \in {rank(y) : y \in S \ top} : \A e \in {rank(y) : y \in S \ top} : d <= e
    <3>1. {rank(y) : y \in S \ top} \subseteq Nat
      BY <1>1
    <3>2. {rank(y) : y \in S \ top} # {}
      BY <1>5
    <3> HIDE DEF top, rank
    <3> QED BY <3>1, <3>2, LeastNumber
  <2>2. PICK x \in S \ top : \A y \in S \ top : rank(x) <= rank(y)
    BY <2>1
  <2>3. Ahead(S, R, x) = top
    <3>1. ASSUME NEW y \in Ahead(S, R, x) PROVE y \in top
      <4>1. y \in S /\ rank(y) < rank(x)
        BY <1>1 DEF Ahead
      <4> QED BY <1>1, <2>2, <4>1
    <3>2. ASSUME NEW y \in top PROVE y \in Ahead(S, R, x)
      BY <1>1, <1>4 DEF Ahead
    <3> QED BY <3>1, <3>2
  <2> QED BY <1>1, <2>2, <2>3
<1> QED BY <1>2, <1>3, <1>4, <1>5

(* The library as the instance sees it. *)
LEMMA SameCardinality == \A S : Similar!Cardinality(S) = Cardinality(S)
BY DEF Similar!Cardinality, Cardinality

LEMMA SameFiniteness == \A S : Similar!IsFiniteSet(S) <=> IsFiniteSet(S)
BY DEF Similar!IsFiniteSet, IsFiniteSet

Rows == [Nodes -> Similar!Row \cup {None}]

(* The first k of some rows: not more than k, and no worse than the rest.  *)
LEMMA FirstAreBest ==
  ASSUME NEW rows \in Rows, NEW source \in Nodes, rows[source] # None,
         NEW S, S \subseteq Similar!Stored(rows, source), NEW k \in Nat
  PROVE  LET first == Similar!First(rows, source, S, k)
         IN /\ first \subseteq S /\ IsFiniteSet(first) /\ Cardinality(first) \in 0..k
            /\ \A n \in S \ first :
                 /\ Cardinality(first) = k
                 /\ \A m \in first : Similar!RowScore(rows, source, m)
                                       >= Similar!RowScore(rows, source, n)
<1> DEFINE score(n) == Similar!RowScore(rows, source, n)
           R == {p \in S \X S : Similar!RanksBefore(rows, source, p[1], p[2])}
<1>1. S \subseteq Nodes /\ IsFiniteSet(S)
  <2>1. IsFiniteSet(Nodes)
    BY ConstantsAreSound, SameFiniteness DEF Similar!NodesAreNumbered
  <2>2. S \subseteq Nodes
    BY DEF Similar!Stored
  <2> QED BY <2>1, <2>2, FS_Subset
<1>2. /\ \A n \in S : score(n) \in Int /\ n \in Int
      /\ \A n \in S : score(n) = Similar!RowScore(rows, source, n)
  <2>1. \A n \in S : rows[n] \in Similar!Row /\ rows[source] \in Similar!Row
    BY DEF Rows, Similar!Stored
  <2>2. \A n \in S : <<rows[source].vector, rows[n].vector>> \in ConceptTexts \X ConceptTexts
    BY <2>1 DEF Similar!Row
  <2> QED
    BY <1>1, <2>2, ConstantsAreSound
       DEF Similar!RowScore, Similar!ScoresAreNumbers, Similar!NodesAreNumbered
<1>3. \A m, n \in S : <<m, n>> \in R
                      <=> score(m) > score(n) \/ (score(m) = score(n) /\ m < n)
  <2>1. \A m, n \in S : <<m, n>> \in R <=> Similar!RanksBefore(rows, source, m, n)
    OBVIOUS
  <2>2. ASSUME NEW m \in S, NEW n \in S
        PROVE  Similar!RanksBefore(rows, source, m, n)
                 <=> score(m) > score(n) \/ (score(m) = score(n) /\ m < n)
    BY DEF Similar!RanksBefore
  <2> HIDE DEF R, score
  <2> QED BY <2>1, <2>2
<1> HIDE DEF score
<1>4. Ordered(S, R)
  <2> HIDE DEF R
  <2>1. \A m \in S : <<m, m>> \notin R
    BY <1>2, <1>3
  <2>2. ASSUME NEW l \in S, NEW m \in S, NEW n \in S, <<l, m>> \in R, <<m, n>> \in R
        PROVE  <<l, n>> \in R
    <3>1. /\ score(l) > score(m) \/ (score(l) = score(m) /\ l < m)
          /\ score(m) > score(n) \/ (score(m) = score(n) /\ m < n)
      BY <1>3, <2>2
    <3>2. score(l) > score(n) \/ (score(l) = score(n) /\ l < n)
      BY <1>2, <3>1
    <3> QED BY <1>3, <3>2
  <2>3. \A m, n \in S : m # n => <<m, n>> \in R \/ <<n, m>> \in R
    BY <1>2, <1>3
  <2> QED BY <2>1, <2>2, <2>3 DEF Ordered
<1>5. Similar!First(rows, source, S, k) = Top(S, R, k)
  <2>1. \A n \in S : {m \in S : Similar!RanksBefore(rows, source, m, n)} = Ahead(S, R, n)
    BY DEF Ahead
  <2> QED BY <2>1, SameCardinality DEF Similar!First, Top
<1>6. \A m, n \in S : <<m, n>> \in R => score(m) >= score(n)
  BY <1>2, <1>3
<1> HIDE DEF R
<1>7. Top(S, R, k) \subseteq S
  BY DEF Top
<1>8. /\ IsFiniteSet(Top(S, R, k)) /\ Cardinality(Top(S, R, k)) \in 0..k
      /\ \A n \in S \ Top(S, R, k) :
           /\ Cardinality(Top(S, R, k)) = k
           /\ \A m \in Top(S, R, k) : <<m, n>> \in R
  BY <1>1, <1>4, TopIsFull
<1>9. \A n \in S \ Top(S, R, k), m \in Top(S, R, k) : score(m) >= score(n)
  BY <1>6, <1>7, <1>8
<1> QED BY <1>2, <1>5, <1>7, <1>8, <1>9

SomeTexts == ConceptTexts \cup {None}

(* What an answer holds and what it leaves out. *)
LEMMA AnswersAreBest ==
  ASSUME NEW rows \in Rows, NEW texts, NEW source \in Nodes
  PROVE  LET matches == Similar!Matches(rows, texts, source)
         IN /\ matches \subseteq Nodes
            /\ \A n \in matches : /\ n # source /\ rows[n] # None
                                  /\ Similar!Usable(rows, texts, source, n)
            /\ rows[source] # None =>
                 \A n \in Nodes \ ({source} \cup matches) :
                   rows[n] # None /\ Similar!Usable(rows, texts, source, n) =>
                     /\ \A m \in matches : Similar!RowScore(rows, source, m)
                                             >= Similar!RowScore(rows, source, n)
                     /\ Cardinality(matches) < Limit =>
                          \E stale \in SUBSET (Nodes \ {source, n}) :
                            /\ Cardinality(stale) = Window - Cardinality(matches)
                            /\ \A m \in stale :
                                 /\ rows[m] # None
                                 /\ ~Similar!Usable(rows, texts, source, m)
                                 /\ Similar!RowScore(rows, source, m)
                                      >= Similar!RowScore(rows, source, n)
<1> DEFINE matches == Similar!Matches(rows, texts, source)
           stored == Similar!Stored(rows, source)
           window == Similar!First(rows, source, stored, Window)
           usable == Similar!UsableRows(rows, texts, source)
           score(n) == Similar!RowScore(rows, source, n)
           Uses(n) == Similar!Usable(rows, texts, source, n)
<1>1. stored \subseteq Nodes /\ \A n \in Nodes : n \in stored <=> n # source /\ rows[n] # None
  BY DEF Similar!Stored
<1>2. usable = {n \in window : Uses(n)}
  BY DEF Similar!UsableRows
<1>3. Limit \in Nat /\ Window \in Nat
  BY ConstantsAreSound DEF Similar!WindowIsWider
<1>4. CASE rows[source] = None
  BY <1>4 DEF Similar!Matches
<1>5. CASE rows[source] # None
  <2>1. matches = Similar!First(rows, source, usable, Limit)
    BY <1>5 DEF Similar!Matches
  <2>2. /\ window \subseteq stored /\ IsFiniteSet(window) /\ Cardinality(window) \in 0..Window
        /\ \A n \in stored \ window : /\ Cardinality(window) = Window
                                      /\ \A m \in window : score(m) >= score(n)
    <3> HIDE DEF score
    <3>1. \A m \in Nodes : score(m) = Similar!RowScore(rows, source, m)
      BY DEF score
    <3> QED BY <1>1, <1>3, <1>5, <3>1, FirstAreBest DEF score
  <2>3. usable \subseteq stored
    BY <1>2, <2>2
  <2>4. /\ matches \subseteq usable /\ Cardinality(matches) \in 0..Limit
        /\ \A n \in usable \ matches : /\ Cardinality(matches) = Limit
                                       /\ \A m \in matches : score(m) >= score(n)
    <3> HIDE DEF usable, stored, matches
    <3> QED BY <1>3, <1>5, <2>1, <2>3, FirstAreBest DEF stored
  <2> HIDE DEF matches, usable, window, stored
  <2>5. matches \subseteq Nodes
    BY <1>1, <2>3, <2>4
  <2>6. \A n \in matches : n # source /\ rows[n] # None /\ Uses(n)
    BY <1>1, <1>2, <2>2, <2>4
  <2>7. ASSUME NEW n \in Nodes \ ({source} \cup matches), rows[n] # None, Uses(n)
        PROVE  /\ \A m \in matches : score(m) >= score(n)
               /\ Cardinality(matches) < Limit =>
                    \E stale \in SUBSET (Nodes \ {source, n}) :
                      /\ Cardinality(stale) = Window - Cardinality(matches)
                      /\ \A m \in stale : rows[m] # None /\ ~Uses(m) /\ score(m) >= score(n)
    <3>1. n \in stored
      BY <1>1, <2>7
    <3>2. CASE n \in window
      <4>1. n \in usable \ matches
        BY <1>2, <2>7, <3>2
      <4> HIDE DEF score, Uses
      <4> QED BY <1>3, <2>4, <4>1
    <3>3. CASE n \notin window
      <4>1. Cardinality(window) = Window /\ \A m \in window : score(m) >= score(n)
        BY <2>2, <3>1, <3>3
      <4>2. \A m \in matches : score(m) >= score(n)
        BY <1>2, <2>4, <4>1
      <4>3. ASSUME Cardinality(matches) < Limit
            PROVE  \E stale \in SUBSET (Nodes \ {source, n}) :
                      /\ Cardinality(stale) = Window - Cardinality(matches)
                      /\ \A m \in stale : rows[m] # None /\ ~Uses(m) /\ score(m) >= score(n)
        <5>1. usable = matches
          BY <1>3, <2>4, <4>3
        <5>2. /\ window \ usable \subseteq Nodes \ {source, n}
              /\ \A m \in window \ usable : rows[m] # None /\ ~Uses(m) /\ score(m) >= score(n)
          BY <1>1, <1>2, <2>2, <3>3, <4>1
        <5>3. Cardinality(window \ usable) = Window - Cardinality(usable)
          <6>1. window \cap usable = usable
            BY <1>2
          <6> QED BY <2>2, <4>1, <6>1, FS_Difference
        <5> HIDE DEF score, Uses
        <5> QED BY <5>1, <5>2, <5>3
      <4> QED BY <4>2, <4>3
    <3> QED BY <3>2, <3>3
  <2> QED BY <2>5, <2>6, <2>7 DEF matches
<1> QED BY <1>4, <1>5

(* What a caller is doing. *)
Computed == [at : {"computed"}, node : Nodes, vector : ConceptTexts]
Writing == [at : {"writing"}, node : Nodes, vector : ConceptTexts, digest : ConceptTexts]
Asking == [at : {"loaded", "checked"}, source : Nodes, texts : [Nodes -> SomeTexts],
           meanwhile : SUBSET SomeTexts]
Answered == [at : {"answered"}, source : Nodes, texts : [Nodes -> SomeTexts],
             meanwhile : SUBSET SomeTexts, rows : Rows, matches : SUBSET Nodes]

(* A writer has the digest of the text that is there; whoever asks keeps   *)
(* every text its source has had meanwhile, and the row of its source, once *)
(* found current, is of one of them.                                       *)
CallFits(c) ==
  LET d == caller[c]
  IN /\ d \in {Similar!Idle} \cup Computed \cup Writing \cup Asking \cup Answered
     /\ lock = c <=> d.at = "writing"
     /\ d.at = "writing" => d.digest = text[d.node] /\ text[d.node] # None
     /\ d.at \in {"loaded", "checked"} => /\ text[d.source] \in d.meanwhile
                                          /\ d.texts[d.source] \in d.meanwhile
     /\ d.at = "checked" /\ embedding[d.source] # None
          => embedding[d.source].digest \in d.meanwhile
     /\ d.at = "answered" =>
          /\ d.matches = Similar!Matches(d.rows, d.texts, d.source)
          /\ d.rows[d.source] # None => d.rows[d.source].digest \in d.meanwhile

SimilarInv ==
  /\ text \in [Nodes -> SomeTexts]
  /\ embedding \in Rows
  /\ lock \in Callers \cup {None}
  /\ bounds \in [nodes : SUBSET Nodes, calls : Nat, edits : Nat, upserts : Nat]
  /\ Similar!RowsAreOfConcepts
  /\ DOMAIN caller = Callers
  /\ \A c \in Callers : CallFits(c)

LEMMA SimilarInit == Similar!Init => SimilarInv
<1> SUFFICES ASSUME Similar!Init PROVE SimilarInv
  OBVIOUS
<1>1. /\ text \in [Nodes -> SomeTexts] /\ embedding = [n \in Nodes |-> None] /\ lock = None
      /\ caller = [c \in Callers |-> Similar!Idle] /\ bounds \in Behaviours
  BY DEF Similar!Init, SomeTexts
<1>2. embedding \in Rows /\ Similar!RowsAreOfConcepts
  BY <1>1 DEF Rows, Similar!RowsAreOfConcepts
<1>3. bounds \in [nodes : SUBSET Nodes, calls : Nat, edits : Nat, upserts : Nat]
  BY <1>1, ConstantsAreSound DEF Similar!BehavioursAreBounded
<1>4. None \notin Callers
  BY NoneIsNothingElse
<1>5. \A c \in Callers : CallFits(c)
  BY <1>1, <1>4 DEF CallFits, Similar!Idle
<1> QED BY <1>1, <1>2, <1>3, <1>5 DEF SimilarInv


(* A step of one caller that changes neither texts nor rows. *)
LEMMA OneCall ==
  ASSUME SimilarInv, NEW c \in Callers, NEW doing,
         caller' = [caller EXCEPT ![c] = doing],
         UNCHANGED <<text, embedding>>,
         bounds' \in [nodes : SUBSET Nodes, calls : Nat, edits : Nat, upserts : Nat],
         lock' \in Callers \cup {None}, \A d \in Callers \ {c} : lock' = d <=> lock = d,
         CallFits(c)'
  PROVE  SimilarInv'
<1>1. ASSUME NEW d \in Callers PROVE CallFits(d)'
  <2>1. CASE d = c
    BY <2>1
  <2>2. CASE d # c
    <3>1. caller'[d] = caller[d] /\ (lock' = d <=> lock = d)
      BY <2>2 DEF SimilarInv
    <3>2. CallFits(d)
      BY DEF SimilarInv
    <3> QED BY <3>1, <3>2 DEF CallFits
  <2> QED BY <2>1, <2>2
<1>2. DOMAIN caller' = Callers
  BY DEF SimilarInv
<1> QED BY <1>1, <1>2 DEF SimilarInv, Similar!RowsAreOfConcepts

(* What a caller is doing after its step. *)
LEMMA Doing ==
  ASSUME SimilarInv, NEW c \in Callers, NEW doing, Similar!Set(c, doing)
  PROVE  caller' = [caller EXCEPT ![c] = doing] /\ caller'[c] = doing
BY DEF SimilarInv, Similar!Set

LEMMA EditKeeps ==
  ASSUME SimilarInv, NEW n \in Nodes, NEW t \in ConceptTexts \cup {None},
         Similar!EditConcept(n, t)
  PROVE  SimilarInv'
<1>1. /\ lock = None /\ lock' = None
      /\ text' = [text EXCEPT ![n] = t]
      /\ embedding' = Similar!Prune(embedding, text')
      /\ bounds' = [bounds EXCEPT !.edits = bounds.edits - 1] /\ bounds.edits > 0
      /\ DOMAIN caller' = Callers
      /\ \A c \in Callers :
           caller'[c] = IF caller[c].at \in {"loaded", "checked"} /\ caller[c].source = n
                        THEN [caller[c] EXCEPT !.meanwhile = @ \cup {t}] ELSE caller[c]
  BY DEF Similar!EditConcept
<1>2. text' \in [Nodes -> SomeTexts]
  BY <1>1 DEF SimilarInv, SomeTexts
<1>3. /\ embedding' \in Rows
      /\ \A m \in Nodes : embedding'[m] # None => embedding'[m] = embedding[m] /\ text'[m] # None
  BY <1>1 DEF SimilarInv, Rows, Similar!Prune
<1>4. Similar!RowsAreOfConcepts'
  BY <1>3 DEF Similar!RowsAreOfConcepts
<1>5. bounds' \in [nodes : SUBSET Nodes, calls : Nat, edits : Nat, upserts : Nat]
  BY <1>1 DEF SimilarInv
<1>6. ASSUME NEW c \in Callers PROVE CallFits(c)'
  <2>1. CallFits(c) /\ c # None
    BY NoneIsNothingElse DEF SimilarInv
  <2>2. caller[c].at # "writing"
    BY <1>1, <2>1 DEF CallFits
  <2>3. CASE caller[c].at \in {"loaded", "checked"}
    <3>1. caller[c] \in Asking
      BY <2>1, <2>3 DEF CallFits, Similar!Idle, Computed, Writing, Answered
    <3>2. /\ caller'[c] \in Asking
          /\ caller'[c].at = caller[c].at /\ caller'[c].source = caller[c].source
          /\ caller'[c].texts = caller[c].texts
          /\ caller[c].meanwhile \subseteq caller'[c].meanwhile
          /\ caller[c].source = n => t \in caller'[c].meanwhile
      BY <1>1, <2>3, <3>1 DEF Asking, SomeTexts
    <3>3. text'[caller[c].source] \in caller'[c].meanwhile
      BY <1>1, <2>1, <2>3, <3>1, <3>2 DEF CallFits, Asking, SimilarInv
    <3>4. embedding'[caller[c].source] # None
            => embedding'[caller[c].source] = embedding[caller[c].source]
      BY <1>3, <3>1 DEF Asking
    <3> QED BY <1>1, <2>1, <2>2, <2>3, <3>1, <3>2, <3>3, <3>4 DEF CallFits
  <2>4. CASE caller[c].at \notin {"loaded", "checked"}
    BY <1>1, <2>1, <2>2, <2>4 DEF CallFits
  <2> QED BY <2>3, <2>4
<1> QED BY <1>1, <1>2, <1>3, <1>4, <1>5, <1>6 DEF SimilarInv

LEMMA CallsKeep ==
  ASSUME SimilarInv, NEW c \in Callers,
         \/ \E n \in Nodes : Similar!Compute(c, n) \/ Similar!LoadForQuery(c, n)
         \/ Similar!LoadForUpsert(c) \/ Similar!CheckSource(c) \/ Similar!Rank(c)
         \/ Similar!Forget(c)
  PROVE  SimilarInv'
<1>1. /\ CallFits(c) /\ c # None
      /\ bounds \in [nodes : SUBSET Nodes, calls : Nat, edits : Nat, upserts : Nat]
  BY NoneIsNothingElse DEF SimilarInv
<1>2. ASSUME NEW n \in Nodes, Similar!Compute(c, n) PROVE SimilarInv'
  <2>1. /\ caller[c] = Similar!Idle /\ UNCHANGED <<text, embedding, lock>> /\ text[n] # None
        /\ bounds' = [bounds EXCEPT !.upserts = bounds.upserts - 1] /\ bounds.upserts > 0
        /\ Similar!Set(c, [at |-> "computed", node |-> n, vector |-> text[n]])
    BY <1>2 DEF Similar!Compute, Similar!MayCall
  <2>2. /\ bounds' \in [nodes : SUBSET Nodes, calls : Nat, edits : Nat, upserts : Nat]
        /\ text[n] \in ConceptTexts
    BY <2>1, <1>1 DEF SimilarInv, SomeTexts
  <2>3. caller'[c] = [at |-> "computed", node |-> n, vector |-> text[n]]
    BY <2>1, Doing
  <2>4. lock # c
    BY <1>1, <2>1 DEF CallFits, Similar!Idle
  <2>5. CallFits(c)'
    BY <2>1, <2>2, <2>3, <2>4 DEF CallFits, Computed
  <2> QED BY <2>1, <2>2, <2>5, Doing, OneCall DEF SimilarInv
<1>3. ASSUME NEW n \in Nodes, Similar!LoadForQuery(c, n) PROVE SimilarInv'
  <2> DEFINE doing == [at |-> "loaded", source |-> n, texts |-> text, meanwhile |-> {text[n]}]
  <2>1. /\ caller[c] = Similar!Idle /\ UNCHANGED <<text, embedding, lock, bounds>>
        /\ Similar!Set(c, doing)
    BY <1>3 DEF Similar!LoadForQuery, Similar!MayCall
  <2>2. doing \in Asking
    BY DEF SimilarInv, Asking
  <2>3. caller'[c] = doing
    BY <2>1, Doing
  <2>4. lock # c
    BY <1>1, <2>1 DEF CallFits, Similar!Idle
  <2>5. CallFits(c)'
    BY <2>1, <2>2, <2>3, <2>4 DEF CallFits
  <2> QED BY <1>1, <2>1, <2>5, Doing, OneCall DEF SimilarInv
<1>4. CASE Similar!LoadForUpsert(c)
  <2>1. caller[c] \in Computed
    BY <1>1, <1>4 DEF Similar!LoadForUpsert, CallFits, Similar!Idle, Writing, Asking, Answered
  <2>2. CASE text[caller[c].node] = None
    <3>1. /\ Similar!Set(c, Similar!Idle) /\ lock = None
          /\ UNCHANGED <<text, embedding, lock, bounds>>
      BY <1>4, <2>2 DEF Similar!LoadForUpsert
    <3>2. CallFits(c)'
      BY <1>1, <3>1, Doing DEF CallFits, Similar!Idle
    <3> QED BY <1>1, <3>1, <3>2, Doing, OneCall DEF SimilarInv
  <2>3. CASE text[caller[c].node] # None
    <3> DEFINE doing == [at |-> "writing", node |-> caller[c].node,
                         vector |-> caller[c].vector, digest |-> text[caller[c].node]]
    <3>1. /\ Similar!Set(c, doing) /\ lock = None /\ lock' = c
          /\ UNCHANGED <<text, embedding, bounds>>
      BY <1>4, <2>3 DEF Similar!LoadForUpsert
    <3>2. doing \in Writing
      BY <2>1, <2>3 DEF SimilarInv, SomeTexts, Computed, Writing
    <3>3. caller'[c] = doing
      BY <3>1, Doing
    <3>4. CallFits(c)'
      BY <1>1, <2>3, <3>1, <3>2, <3>3 DEF CallFits
    <3>5. \A d \in Callers \ {c} : lock' = d <=> lock = d
      BY <3>1, NoneIsNothingElse
    <3> QED BY <1>1, <3>1, <3>4, <3>5, Doing, OneCall DEF SimilarInv
  <2> QED BY <2>2, <2>3
<1>5. CASE Similar!CheckSource(c)
  <2> DEFINE n == caller[c].source
  <2>1. /\ caller[c].at = "loaded" /\ UNCHANGED <<text, embedding, lock, bounds>>
        /\ caller[c] \in Asking /\ lock # c
    BY <1>1, <1>5 DEF Similar!CheckSource, CallFits, Similar!Idle, Computed, Writing, Answered
  <2>2. CASE embedding[n] # None /\ embedding[n].digest = caller[c].texts[n]
    <3> DEFINE doing == [caller[c] EXCEPT !.at = "checked"]
    <3>1. Similar!Set(c, doing)
      BY <1>5, <2>2 DEF Similar!CheckSource
    <3>2. /\ doing \in Asking /\ doing.at = "checked" /\ doing.source = n
          /\ doing.texts = caller[c].texts /\ doing.meanwhile = caller[c].meanwhile
      BY <2>1 DEF Asking
    <3>3. caller'[c] = doing
      BY <3>1, Doing
    <3>4. CallFits(c)'
      BY <1>1, <2>1, <2>2, <3>2, <3>3 DEF CallFits
    <3> QED BY <1>1, <2>1, <3>1, <3>4, Doing, OneCall DEF SimilarInv
  <2>3. CASE ~(embedding[n] # None /\ embedding[n].digest = caller[c].texts[n])
    <3>1. Similar!Set(c, Similar!Idle)
      BY <1>5, <2>3 DEF Similar!CheckSource
    <3>2. CallFits(c)'
      BY <2>1, <3>1, Doing DEF CallFits, Similar!Idle
    <3> QED BY <1>1, <2>1, <3>1, <3>2, Doing, OneCall DEF SimilarInv
  <2> QED BY <2>2, <2>3
<1>6. CASE Similar!Rank(c)
  <2> DEFINE matches == Similar!Matches(embedding, caller[c].texts, caller[c].source)
             doing == [at |-> "answered", source |-> caller[c].source,
                       texts |-> caller[c].texts, meanwhile |-> caller[c].meanwhile,
                       rows |-> embedding, matches |-> matches]
  <2>1. /\ caller[c].at = "checked" /\ UNCHANGED <<text, embedding, lock, bounds>>
        /\ caller[c] \in Asking /\ lock # c
        /\ Similar!Set(c, doing)
    BY <1>1, <1>6 DEF Similar!Rank, CallFits, Similar!Idle, Computed, Writing, Answered
  <2>2. matches \subseteq Nodes
    BY <2>1, AnswersAreBest DEF SimilarInv, Asking
  <2> HIDE DEF matches
  <2>3. doing \in Answered
    BY <2>1, <2>2 DEF SimilarInv, Asking, Answered
  <2>4. caller'[c] = doing
    BY <2>1, Doing
  <2>5. CallFits(c)'
    BY <1>1, <2>1, <2>3, <2>4 DEF CallFits, matches
  <2> QED BY <1>1, <2>1, <2>5, Doing, OneCall DEF SimilarInv
<1>7. CASE Similar!Forget(c)
  <2>1. /\ caller[c].at = "answered" /\ UNCHANGED <<text, embedding, lock, bounds>>
        /\ Similar!Set(c, Similar!Idle)
    BY <1>7 DEF Similar!Forget
  <2>2. CallFits(c)'
    BY <1>1, <2>1, Doing DEF CallFits, Similar!Idle
  <2> QED BY <1>1, <2>1, <2>2, Doing, OneCall DEF SimilarInv
<1> QED BY <1>2, <1>3, <1>4, <1>5, <1>6, <1>7

LEMMA UpsertKeeps ==
  ASSUME SimilarInv, NEW c \in Callers, NEW stored \in BOOLEAN, Similar!Upsert(c, stored)
  PROVE  SimilarInv'
<1> DEFINE n == caller[c].node
           written == [vector |-> caller[c].vector, digest |-> caller[c].digest]
<1>1. /\ CallFits(c) /\ c # None
      /\ caller[c] \in Writing /\ lock = c /\ lock' = None
      /\ caller[c].digest = text[n] /\ text[n] # None
      /\ Similar!Set(c, Similar!Idle) /\ UNCHANGED <<text, bounds>>
  BY NoneIsNothingElse
     DEF SimilarInv, CallFits, Similar!Upsert, Similar!Idle, Computed, Asking, Answered
<1>2. /\ n \in Nodes /\ written \in Similar!Row
      /\ embedding' = IF stored THEN [embedding EXCEPT ![n] = written] ELSE embedding
  BY <1>1 DEF Similar!Upsert, Writing, Similar!Row
<1>3. /\ embedding' \in Rows
      /\ \A m \in Nodes : \/ embedding'[m] = embedding[m]
                          \/ m = n /\ embedding'[m].digest = text[m]
  BY <1>1, <1>2 DEF SimilarInv, Rows
<1>4. Similar!RowsAreOfConcepts'
  BY <1>1, <1>2 DEF SimilarInv, Rows, Similar!RowsAreOfConcepts
<1>5. ASSUME NEW d \in Callers PROVE CallFits(d)'
  <2>1. CASE d = c
    BY <1>1, <2>1, Doing DEF CallFits, Similar!Idle
  <2>2. CASE d # c
    <3>1. caller'[d] = caller[d] /\ CallFits(d) /\ lock # d /\ lock' # d
      BY <1>1, <2>2, NoneIsNothingElse DEF SimilarInv, Similar!Set
    <3>2. CASE caller[d].at = "checked"
      <4>1. caller[d] \in Asking
        BY <3>1, <3>2 DEF CallFits, Similar!Idle, Computed, Writing, Answered
      <4>2. caller[d].source \in Nodes /\ text[caller[d].source] \in caller[d].meanwhile
        BY <3>1, <3>2, <4>1 DEF CallFits, Asking
      <4> QED BY <1>1, <1>3, <3>1, <3>2, <4>2 DEF CallFits
    <3>3. CASE caller[d].at # "checked"
      BY <1>1, <3>1, <3>3 DEF CallFits
    <3> QED BY <3>2, <3>3
  <2> QED BY <2>1, <2>2
<1>6. DOMAIN caller' = Callers
  BY <1>1 DEF SimilarInv, Similar!Set
<1> QED BY <1>1, <1>3, <1>4, <1>5, <1>6 DEF SimilarInv

LEMMA SimilarStep ==
  ASSUME SimilarInv, Similar!Next PROVE SimilarInv'
BY EditKeeps, CallsKeep, UpsertKeeps DEF Similar!Next

LEMMA SimilarSuffices ==
  ASSUME SimilarInv
  PROVE  /\ Similar!TypeOK
         /\ Similar!RowsAreOfConcepts
         /\ Similar!MatchesAreCurrent
         /\ Similar!SourceWasCurrent
         /\ Similar!BestComeFirst
<1>1. Similar!TypeOK
  BY DEF SimilarInv, Similar!TypeOK, SomeTexts, Rows, CallFits
<1>2. ASSUME NEW a \in Similar!Answers
      PROVE  /\ a \in Answered
             /\ a.matches = Similar!Matches(a.rows, a.texts, a.source)
             /\ a.rows[a.source] # None => a.rows[a.source].digest \in a.meanwhile
  <2>1. PICK c \in Callers : a = caller[c] /\ caller[c].at = "answered"
    BY DEF Similar!Answers
  <2>2. CallFits(c)
    BY DEF SimilarInv
  <2> QED BY <2>1, <2>2 DEF CallFits, Similar!Idle, Computed, Writing, Asking
<1>3. Similar!SourceWasCurrent
  BY <1>2 DEF Similar!SourceWasCurrent
<1>4. Similar!MatchesAreCurrent
  <2>1. ASSUME NEW a \in Similar!Answers, NEW n \in a.matches
        PROVE  n # a.source /\ Similar!Usable(a.rows, a.texts, a.source, n)
    BY <1>2, <2>1, AnswersAreBest DEF Answered
  <2> QED BY <2>1 DEF Similar!MatchesAreCurrent, Similar!Usable
<1>5. Similar!BestComeFirst
  <2>1. ASSUME NEW a \in Similar!Answers
        PROVE  /\ a.rows \in Rows /\ a.source \in Nodes
               /\ a.matches = Similar!Matches(a.rows, a.texts, a.source)
    BY <1>2, <2>1 DEF Answered
  <2> QED BY <2>1, AnswersAreBest, SameCardinality DEF Similar!BestComeFirst
<1> QED BY <1>1, <1>3, <1>4, <1>5 DEF SimilarInv

-----------------------------------------------------------------------------
(* Overlays.  What the scaffold writes the reader reads back, and what the *)
(* root rules and the profile make of it is what they made of the file.    *)

-----------------------------------------------------------------------------
(* Overlays.  Numbers of a sequence: a first and a last. *)
LEMMA FirstAndLast ==
  ASSUME NEW n \in Nat, NEW T, T \subseteq 1 .. n, T # {}
  PROVE  /\ \E i \in T : \A j \in T : i <= j
         /\ \E i \in T : \A j \in T : j <= i
<1>1. \E i \in T : \A j \in T : i <= j
  <2>1. T \subseteq Nat
    OBVIOUS
  <2> QED BY <2>1, LeastNumber
<1> DEFINE U == {m \in 0 .. n : n - m \in T}
<1>2. U \subseteq Nat
  OBVIOUS
<1>5. U # {}
  <2>1. PICK i \in T : TRUE
    OBVIOUS
  <2>2. n - i \in 0 .. n /\ n - (n - i) = i
    BY <2>1
  <2>3. n - i \in U
    BY <2>1, <2>2
  <2> QED BY <2>3
<1>3. PICK m \in U : \A k \in U : m <= k
  BY <1>2, <1>5, LeastNumber
<1>4. ASSUME NEW j \in T PROVE j <= n - m
  <2>1. n - j \in 0 .. n /\ n - (n - j) = j
    OBVIOUS
  <2>2. m <= n - j
    BY <1>3, <2>1
  <2> QED BY <2>2
<1> QED BY <1>1, <1>3, <1>4

(* What passes from a number to the next passes from the first to all.     *)
LEMMA Upward ==
  ASSUME NEW m \in Nat, NEW N \in Nat, NEW T, m \in T,
         \A n \in m + 1 .. N : n - 1 \in T => n \in T
  PROVE  m .. N \subseteq T
<1> DEFINE missing == (m .. N) \ T
<1> SUFFICES ASSUME missing # {} PROVE FALSE
  OBVIOUS
<1>1. missing \subseteq Nat
  OBVIOUS
<1>2. PICK n \in missing : \A k \in missing : n <= k
  BY <1>1, LeastNumber
<1>3. n \in m .. N /\ n \notin T /\ n # m
  OBVIOUS
<1>4. n \in m + 1 .. N /\ n - 1 \in m .. N /\ ~(n <= n - 1)
  BY <1>3
<1>5. n - 1 \in T
  BY <1>2, <1>4
<1> QED BY <1>3, <1>4, <1>5

(* The characters the reader tells apart.                                  *)
LEMMA CharactersDiffer ==
  /\ Overlay!Blank # Overlay!DoubleQuote /\ Overlay!Blank # Overlay!Hash
  /\ Overlay!DoubleQuote # Overlay!Hash /\ Overlay!DoubleQuote # Overlay!SingleQuote
  /\ Overlay!Colon # Overlay!Blank /\ Overlay!Slash # Overlay!Blank
BY Zenon DEF Overlay!Blank, Overlay!DoubleQuote, Overlay!Hash, Overlay!SingleQuote, Overlay!Colon,
    Overlay!Slash

(* Trimming a words: no blanks at the ends, nothing else lost.              *)
LEMMA TrimIs ==
  ASSUME NEW C, NEW s \in Seq(C)
  PROVE  LET t == Overlay!Trim(s)
         IN /\ t \in Seq(C)
            /\ t # <<>> => t[1] # Overlay!Blank /\ t[Len(t)] # Overlay!Blank
            /\ t = <<>> <=> \A i \in DOMAIN s : s[i] = Overlay!Blank
            /\ s # <<>> /\ s[1] # Overlay!Blank /\ s[Len(s)] # Overlay!Blank => t = s
<1> DEFINE ink == {i \in DOMAIN s : s[i] # Overlay!Blank}
           low == CHOOSE i \in ink : \A j \in ink : i <= j
           high == CHOOSE i \in ink : \A j \in ink : j <= i
<1>1. CASE ink = {}
  BY <1>1 DEF Overlay!Trim
<1>2. CASE ink # {}
  <2>1. Overlay!Trim(s) = SubSeq(s, low, high)
    BY <1>2 DEF Overlay!Trim
  <2>2. Len(s) \in Nat /\ DOMAIN s = 1 .. Len(s) /\ ink \subseteq 1 .. Len(s)
    OBVIOUS
  <2>3. /\ \E i \in ink : \A j \in ink : i <= j
        /\ \E i \in ink : \A j \in ink : j <= i
    BY <1>2, <2>2, FirstAndLast
  <2>4. /\ low \in ink /\ \A j \in ink : low <= j
        /\ high \in ink /\ \A j \in ink : j <= high
    BY <2>3
  <2>5. low \in 1 .. Len(s) /\ high \in 1 .. Len(s) /\ low <= high /\ s[low] # Overlay!Blank
          /\ s[high] # Overlay!Blank
    BY <2>2, <2>4
  <2>6. 1 \in ink /\ Len(s) \in ink => low = 1 /\ high = Len(s)
    BY <2>2, <2>4
  <2> DEFINE t == SubSeq(s, low, high)
  <2> HIDE DEF low, high
  <2>7. t \in Seq(C) /\ Len(t) = high - low + 1 /\ \A i \in 1 .. high - low + 1 :
          t[i] = s[low + i - 1]
    <3>1. \A i \in low .. high : s[i] \in C
      BY <2>2, <2>5
    <3> QED BY <2>5, <3>1, SubSeqProperties
  <2>8. s # <<>> /\ s[1] # Overlay!Blank /\ s[Len(s)] # Overlay!Blank => t = s
    BY <2>2, <2>6, SubSeqFull
  <2>9. Len(t) \in Nat /\ Len(t) >= 1 /\ t[1] = s[low] /\ t[Len(t)] = s[high]
    BY <2>5, <2>7
  <2> HIDE DEF t
  <2>10. t # <<>>
    BY <2>9
  <2>11. \E i \in DOMAIN s : s[i] # Overlay!Blank
    BY <2>4
  <2>12. Overlay!Trim(s) = t /\ t \in Seq(C) /\ t[1] # Overlay!Blank /\ t[Len(t)] # Overlay!Blank
    BY <2>1, <2>5, <2>7, <2>9 DEF t
  <2> HIDE DEF ink
  <2> QED BY <2>8, <2>10, <2>11, <2>12
<1> QED BY <1>1, <1>2

(* A words without its comment, and a scalar, are texts.                    *)
LEMMA StripIs ==
  ASSUME NEW C, NEW s \in Seq(C)
  PROVE  Overlay!StripComment(s) \in Seq(C)
<1> DEFINE marks == {i \in DOMAIN s : s[i] = Overlay!Hash /\ Overlay!OpenQuote(s)[i - 1] = None}
           first == CHOOSE i \in marks : \A j \in marks : i <= j
<1>1. CASE marks = {}
  BY <1>1 DEF Overlay!StripComment
<1>2. CASE marks # {}
  <2>1. Overlay!StripComment(s) = SubSeq(s, 1, first - 1)
    BY <1>2 DEF Overlay!StripComment
  <2>2. marks \subseteq 1 .. Len(s) /\ Len(s) \in Nat
    OBVIOUS
  <2>3. first \in marks
    BY <1>2, <2>2, FirstAndLast
  <2>4. first \in 1 .. Len(s)
    BY <2>2, <2>3
  <2> HIDE DEF first
  <2> QED BY <2>1, <2>4
<1> QED BY <1>1, <1>2

LEMMA ScalarIs ==
  ASSUME NEW C, NEW s \in Seq(C)
  PROVE  Overlay!Scalar(s) \in Seq(C)
<1>1. Overlay!Trim(s) \in Seq(C)
  BY TrimIs
<1> QED BY <1>1 DEF Overlay!Scalar

(* A value without a double quote or a backslash is put between quotes.    *)
Sandwich(s) == <<Overlay!DoubleQuote>> \o s \o <<Overlay!DoubleQuote>>

(* A words between double quotes.                                           *)
LEMMA SandwichIs ==
  ASSUME NEW C, NEW s \in Seq(C)
  PROVE  LET q == Sandwich(s) IN
         /\ q \in Seq(C \cup {Overlay!DoubleQuote}) /\ Len(q) = Len(s) + 2
         /\ q[1] = Overlay!DoubleQuote /\ q[Len(q)] = Overlay!DoubleQuote
         /\ \A i \in 1 .. Len(s) : q[i + 1] = s[i]
<1> DEFINE D == C \cup {Overlay!DoubleQuote}
           one == <<Overlay!DoubleQuote>>
<1>1. one \in Seq(D) /\ Len(one) = 1 /\ one[1] = Overlay!DoubleQuote
  OBVIOUS
<1>2. s \in Seq(D) /\ Len(s) \in Nat
  BY SeqMonotonic, LenProperties
<1> HIDE DEF one, D
<1>3. /\ one \o s \in Seq(D) /\ Len(one \o s) = 1 + Len(s)
      /\ \A i \in 1 .. 1 + Len(s) : (one \o s)[i] = IF i <= 1 THEN one[i] ELSE s[i - 1]
  <2>1. /\ one \o s \in Seq(D) /\ Len(one \o s) = Len(one) + Len(s)
        /\ \A i \in 1 .. Len(one) + Len(s) : (one \o s)[i] = IF i <= Len(one) THEN one[i]
             ELSE s[i - Len(one)]
    BY <1>1, <1>2, ConcatProperties
  <2> QED BY <1>1, <2>1
<1> DEFINE q == (one \o s) \o one
<1>4. /\ q \in Seq(D) /\ Len(q) = Len(s) + 2
      /\ \A i \in 1 .. Len(s) + 2 : q[i] = IF i <= 1 + Len(s) THEN (one \o s)[i]
           ELSE one[i - (1 + Len(s))]
  <2>1. /\ q \in Seq(D) /\ Len(q) = Len(one \o s) + Len(one)
        /\ \A i \in 1 .. Len(one \o s) + Len(one) :
             q[i] = IF i <= Len(one \o s) THEN (one \o s)[i] ELSE one[i - Len(one \o s)]
    BY <1>1, <1>3, ConcatProperties
  <2> HIDE DEF q
  <2> QED BY <1>1, <1>2, <1>3, <2>1
<1>5. q = Sandwich(s)
  BY DEF Sandwich, one
<1> HIDE DEF q
<1>6. q[1] = Overlay!DoubleQuote
  BY <1>1, <1>2, <1>3, <1>4
<1>7. q[Len(s) + 2] = Overlay!DoubleQuote
  BY <1>1, <1>2, <1>3, <1>4
<1>8. ASSUME NEW i \in 1 .. Len(s) PROVE q[i + 1] = s[i]
  BY <1>1, <1>2, <1>3, <1>4
<1> QED BY <1>4, <1>5, <1>6, <1>7, <1>8 DEF D

(* Without anything to escape, quoting puts double quotes around a words.   *)
LEMMA QuotedIs ==
  ASSUME NEW C, NEW s \in Seq(C),
         \A i \in DOMAIN s : s[i] \notin {Overlay!DoubleQuote, Overlay!Backslash}
  PROVE  Overlay!Quoted(s) = Sandwich(s)
<1> DEFINE More(f, n) ==
             IF n = 0 THEN <<>>
             ELSE f[n - 1] \o (IF s[n] \in {Overlay!DoubleQuote, Overlay!Backslash}
                                THEN <<Overlay!Backslash, s[n]>> ELSE <<s[n]>>)
           Is(f) == f = [n \in 0 .. Len(s) |-> More(f, n)]
           chosen == CHOOSE f : Is(f)
           prefixes == [n \in 0 .. Len(s) |-> SubSeq(s, 1, n)]
<1>1. Len(s) \in Nat /\ DOMAIN s = 1 .. Len(s)
  BY LenProperties
<1>2. ASSUME NEW n \in 1 .. Len(s) PROVE SubSeq(s, 1, n) = SubSeq(s, 1, n - 1) \o <<s[n]>>
  BY <1>1, SubSeqRecursiveSecond
<1>3. SubSeq(s, 1, 0) = <<>>
  BY SubSeqEmpty
<1>4. Is(prefixes)
  <2>1. ASSUME NEW n \in 0 .. Len(s) PROVE More(prefixes, n) = SubSeq(s, 1, n)
    <3>1. CASE n = 0
      BY <1>3, <3>1
    <3>2. CASE n # 0
      <4>1. n \in 1 .. Len(s) /\ n - 1 \in 0 .. Len(s)
        BY <1>1, <3>2
      <4>2. prefixes[n - 1] = SubSeq(s, 1, n - 1)
        BY <4>1
      <4>3. s[n] \notin {Overlay!DoubleQuote, Overlay!Backslash}
        BY <1>1, <4>1
      <4> HIDE DEF prefixes
      <4> QED BY <1>2, <3>2, <4>1, <4>2, <4>3
    <3> QED BY <3>1, <3>2
  <2> DEFINE made == [n \in 0 .. Len(s) |-> More(prefixes, n)]
  <2>2. prefixes = made
    <3> HIDE DEF More
    <3> QED BY <2>1
  <2> QED BY <2>2
<1>5. Is(chosen)
  BY <1>4
<1>6. Overlay!Quoted(s) = Sandwich(chosen[Len(s)])
  BY DEF Overlay!Quoted, Sandwich
<1> HIDE DEF chosen
<1>7. /\ chosen[0] = <<>>
      /\ \A n \in 1 .. Len(s) : chosen[n] = chosen[n - 1] \o <<s[n]>>
  <2>1. \A n \in 0 .. Len(s) : chosen[n] = More(chosen, n)
    <3> HIDE DEF More
    <3> QED BY <1>5
  <2>2. chosen[0] = <<>>
    <3>1. 0 \in 0 .. Len(s)
      BY <1>1
    <3>2. chosen[0] = More(chosen, 0)
      BY <2>1, <3>1
    <3> QED BY <3>2
  <2>3. ASSUME NEW n \in 1 .. Len(s) PROVE chosen[n] = chosen[n - 1] \o <<s[n]>>
    <3>1. n \in 0 .. Len(s) /\ n # 0 /\ s[n] \notin {Overlay!DoubleQuote, Overlay!Backslash}
      BY <1>1
    <3> QED BY <2>1, <3>1
  <2> QED BY <2>2, <2>3
<1> DEFINE T == {n \in 0 .. Len(s) : chosen[n] = SubSeq(s, 1, n)}
<1>8. 0 .. Len(s) \subseteq T
  <2>1. 0 \in T
    <3>1. 0 \in 0 .. Len(s) /\ chosen[0] = SubSeq(s, 1, 0)
      BY <1>1, <1>3, <1>7
    <3> QED BY <3>1
  <2>2. ASSUME NEW n \in 0 + 1 .. Len(s), n - 1 \in T PROVE n \in T
    <3>1. n \in 1 .. Len(s) /\ n \in 0 .. Len(s) /\ chosen[n - 1] = SubSeq(s, 1, n - 1)
      BY <1>1, <2>2
    <3> QED BY <1>2, <1>7, <3>1
  <2> HIDE DEF T
  <2> QED BY <1>1, <2>1, <2>2, Upward
<1>9. chosen[Len(s)] = s
  BY <1>1, <1>8, SubSeqFull
<1> QED BY <1>6, <1>9

(* Between double quotes nothing is a comment.                             *)
LEMMA SandwichIsNoComment ==
  ASSUME NEW C, NEW s \in Seq(C), None \notin Overlay!Quotes,
         \A i \in DOMAIN s : s[i] # Overlay!DoubleQuote
  PROVE  Overlay!StripComment(Sandwich(s)) = Sandwich(s)
<1> DEFINE q == Sandwich(s)
           L == Len(s) + 2
           Turn(f, n) == IF n = 0 THEN None
                         ELSE IF q[n] \in Overlay!Quotes /\ f[n - 1] \in {None, q[n]}
                         THEN IF f[n - 1] = None THEN q[n] ELSE None
                         ELSE f[n - 1]
           Is(f) == f = [n \in 0 .. Len(q) |-> Turn(f, n)]
           chosen == CHOOSE f : Is(f)
           inside == [n \in 0 .. L |-> IF n = 0 \/ n = L THEN None ELSE Overlay!DoubleQuote]
<1>1. Len(s) \in Nat /\ DOMAIN s = 1 .. Len(s)
  BY LenProperties
<1>2. /\ q \in Seq(C \cup {Overlay!DoubleQuote}) /\ Len(q) = L
      /\ q[1] = Overlay!DoubleQuote /\ q[L] = Overlay!DoubleQuote
      /\ \A i \in 1 .. Len(s) : q[i + 1] = s[i]
  BY SandwichIs
<1>3. ASSUME NEW n \in 2 .. Len(s) + 1 PROVE q[n] # Overlay!DoubleQuote
  <2>1. n - 1 \in 1 .. Len(s) /\ (n - 1) + 1 = n
    BY <1>1
  <2>2. q[n] = s[n - 1]
    BY <1>2, <2>1
  <2> QED BY <1>1, <2>1, <2>2
<1>4. Overlay!DoubleQuote \in Overlay!Quotes
  BY DEF Overlay!Quotes
<1>5. Overlay!OpenQuote(q) = chosen
  BY DEF Overlay!OpenQuote
<1> HIDE DEF q
<1>6. ASSUME NEW f, NEW n \in 1 .. L, f[n - 1] = inside[n - 1]
      PROVE  Turn(f, n) = inside[n]
  <2>1. n \in 0 .. L /\ n - 1 \in 0 .. L /\ n # 0 /\ n - 1 # L
    BY <1>1
  <2>2. CASE n = 1
    <3>1. f[n - 1] = None /\ inside[n] = Overlay!DoubleQuote
      BY <1>1, <1>6, <2>1, <2>2
    <3> QED BY <1>2, <1>4, <2>1, <2>2, <3>1
  <2>3. CASE n # 1
    <3>1. f[n - 1] = Overlay!DoubleQuote
      BY <1>1, <1>6, <2>1, <2>3
    <3>2. CASE n = L
      <4>1. q[n] = Overlay!DoubleQuote /\ inside[n] = None
        BY <1>2, <2>1, <3>2
      <4>2. f[n - 1] # None
        BY <1>4, <3>1
      <4> QED BY <1>4, <2>1, <3>1, <4>1, <4>2
    <3>3. CASE n # L
      <4>1. q[n] # Overlay!DoubleQuote /\ inside[n] = Overlay!DoubleQuote
        <5>1. n \in 2 .. Len(s) + 1
          BY <1>1, <2>3, <3>3
        <5> QED BY <1>3, <2>1, <3>3, <5>1
      <4>2. f[n - 1] # None
        BY <1>4, <3>1
      <4> QED BY <2>1, <3>1, <4>1, <4>2
    <3> QED BY <3>2, <3>3
  <2> QED BY <2>2, <2>3
<1>7. L \in Nat /\ L >= 2 /\ 0 \in 0 .. L
  BY <1>1
<1>8. inside[0] = None
  BY <1>7
<1>9. Is(inside)
  <2>1. ASSUME NEW n \in 0 .. L PROVE Turn(inside, n) = inside[n]
    <3>1. CASE n = 0
      BY <1>8, <3>1
    <3>2. CASE n # 0
      <4>1. n \in 1 .. L
        BY <1>7, <3>2
      <4> HIDE DEF inside, Turn
      <4> QED BY <1>6, <4>1
    <3> QED BY <3>1, <3>2
  <2> DEFINE made == [n \in 0 .. L |-> Turn(inside, n)]
  <2>2. inside = made
    <3> HIDE DEF Turn
    <3> QED BY <2>1
  <2> QED BY <1>2, <2>2
<1>10. Is(chosen)
  BY <1>9
<1> HIDE DEF chosen
<1>11. \A n \in 0 .. L : chosen[n] = Turn(chosen, n)
  <2> HIDE DEF Turn, L
  <2> QED BY <1>2, <1>10
<1> DEFINE T == {n \in 0 .. L : chosen[n] = inside[n]}
<1>12. 0 .. L \subseteq T
  <2>1. 0 \in T
    <3>1. chosen[0] = Turn(chosen, 0)
      BY <1>7, <1>11
    <3> QED BY <1>7, <1>8, <3>1
  <2>2. ASSUME NEW n \in 0 + 1 .. L, n - 1 \in T PROVE n \in T
    <3>1. n \in 1 .. L /\ n \in 0 .. L /\ chosen[n - 1] = inside[n - 1]
      BY <1>7, <2>2
    <3> HIDE DEF inside, Turn, L
    <3> QED BY <1>6, <1>11, <3>1
  <2> HIDE DEF T, L
  <2> QED BY <1>7, <2>1, <2>2, Upward
<1>13. ASSUME NEW i \in DOMAIN q, q[i] = Overlay!Hash
       PROVE  Overlay!OpenQuote(q)[i - 1] # None
  <2>1. i \in 1 .. L
    <3>1. DOMAIN q = 1 .. Len(q)
      BY <1>2, LenProperties
    <3> QED BY <1>2, <3>1
  <2>2. i # 1
    BY <1>2, <1>13, CharactersDiffer
  <2>3. i - 1 \in 0 .. L /\ i - 1 # 0 /\ i - 1 # L
    BY <1>7, <2>1, <2>2
  <2>4. chosen[i - 1] = inside[i - 1]
    BY <1>12, <2>3
  <2>5. inside[i - 1] = Overlay!DoubleQuote
    BY <2>3
  <2> QED BY <1>4, <1>5, <2>4, <2>5
<1>14. {i \in DOMAIN q : q[i] = Overlay!Hash /\ Overlay!OpenQuote(q)[i - 1] = None} = {}
  BY <1>13
<1> QED BY <1>14 DEF Overlay!StripComment, q

(* What is written is read.                                                *)
LEMMA ReadsBack ==
  ASSUME NEW C, NEW s \in Seq(C), None \notin Overlay!Quotes,
         \A i \in DOMAIN s : s[i] \notin {Overlay!DoubleQuote, Overlay!Backslash}
  PROVE  LET t == Overlay!Trim(Overlay!StripComment(Overlay!Quoted(s)))
         IN t # <<>> /\ Overlay!Scalar(t) = s
<1> DEFINE q == Sandwich(s)
           D == C \cup {Overlay!DoubleQuote}
<1>1. /\ q \in Seq(D) /\ Len(q) = Len(s) + 2
      /\ q[1] = Overlay!DoubleQuote /\ q[Len(q)] = Overlay!DoubleQuote
      /\ \A i \in 1 .. Len(s) : q[i + 1] = s[i]
  BY SandwichIs
<1>2. Overlay!StripComment(Overlay!Quoted(s)) = q
  BY QuotedIs, SandwichIsNoComment
<1> HIDE DEF q
<1>3. Len(s) \in Nat /\ s \in Seq(D)
  BY SeqMonotonic, LenProperties
<1> HIDE DEF D
<1>4. q # <<>>
  BY <1>1, <1>3
<1>5. Overlay!Trim(q) = q
  <2>1. q[1] # Overlay!Blank /\ q[Len(q)] # Overlay!Blank
    BY <1>1, CharactersDiffer
  <2> QED BY <1>1, <1>4, <2>1, TrimIs
<1>6. SubSeq(q, 2, Len(q) - 1) = s
  <2> DEFINE t == SubSeq(q, 2, Len(q) - 1)
  <2>1. \A i \in 2 .. Len(q) - 1 : q[i] \in D
    <3>1. \A i \in 1 .. Len(q) : q[i] \in D
      BY <1>1, ElementOfSeq
    <3> QED BY <1>1, <1>3, <3>1
  <2>2. /\ t \in Seq(D)
        /\ Len(t) = IF 2 <= Len(q) - 1 THEN (Len(q) - 1) - 2 + 1 ELSE 0
        /\ \A i \in 1 .. (Len(q) - 1) - 2 + 1 : t[i] = q[2 + i - 1]
    BY <1>1, <1>3, <2>1, SubSeqProperties
  <2> HIDE DEF t
  <2>3. Len(t) = Len(s)
    BY <1>1, <1>3, <2>2
  <2>4. ASSUME NEW i \in 1 .. Len(t) PROVE t[i] = s[i]
    <3>1. i \in 1 .. (Len(q) - 1) - 2 + 1 /\ i \in 1 .. Len(s) /\ 2 + i - 1 = i + 1
      BY <1>1, <1>3, <2>3
    <3> QED BY <1>1, <2>2, <3>1
  <2>5. t = s
    BY <1>3, <2>2, <2>3, <2>4, SeqEqual
  <2> QED BY <2>5 DEF t
<1>7. Overlay!Scalar(q) = s
  <2>1. Len(q) >= 2 /\ q[1] \in Overlay!Quotes /\ q[Len(q)] = q[1]
    BY <1>1, <1>3 DEF Overlay!Quotes
  <2> QED BY <1>5, <1>6, <2>1 DEF Overlay!Scalar
<1> QED BY <1>2, <1>4, <1>5, <1>7

(* Reading line by line, and section by section: the steps are defined.    *)
StepsOf(f, reader, section) ==
  /\ f[0] = reader
  /\ \A n \in 1 .. Len(section) : f[n] = Overlay!ReadLine(f[n - 1], section[n])
  /\ Overlay!ReadSection(reader, section) = f[Len(section)]

LEMMA SectionSteps ==
  ASSUME NEW reader, NEW section, Len(section) \in Nat
  PROVE  \E f : StepsOf(f, reader, section)
<1> DEFINE Made(f, n) == IF n = 0 THEN reader ELSE Overlay!ReadLine(f[n - 1], section[n])
           Is(f, m) == f = [n \in 0 .. m |-> Made(f, n)]
           without == {m \in 0 .. Len(section) : \A f : ~Is(f, m)}
           chosen == CHOOSE f : Is(f, Len(section))
<1> HIDE DEF Made, Is, chosen
<1>1. without = {}
  <2> SUFFICES ASSUME without # {} PROVE FALSE
    OBVIOUS
  <2>1. without \subseteq Nat
    OBVIOUS
  <2>2. PICK m \in without : \A k \in without : m <= k
    BY <2>1, LeastNumber
  <2>3. m \in 0 .. Len(section) /\ \A f : ~Is(f, m)
    OBVIOUS
  <2>4. CASE m = 0
    <3> DEFINE f == [n \in 0 .. 0 |-> reader]
    <3>1. ASSUME NEW n \in 0 .. 0 PROVE Made(f, n) = reader
      BY DEF Made
    <3>2. f = [n \in 0 .. 0 |-> Made(f, n)]
      BY <3>1
    <3> HIDE DEF f
    <3>3. Is(f, m)
      BY <2>4, <3>2 DEF Is
    <3> QED BY <2>3, <3>3
  <2>5. CASE m # 0
    <3>1. m - 1 \in 0 .. Len(section) /\ ~(m <= m - 1)
      BY <2>3, <2>5
    <3>2. m - 1 \notin without
      BY <2>2, <3>1
    <3>3. PICK g : Is(g, m - 1)
      BY <3>1, <3>2
    <3> DEFINE f == [n \in 0 .. m |-> Made(g, n)]
    <3>4. ASSUME NEW n \in 0 .. m - 1 PROVE f[n] = g[n]
      <4>1. n \in 0 .. m /\ f[n] = Made(g, n)
        BY <2>3
      <4> HIDE DEF f
      <4>2. g[n] = Made(g, n)
        BY <3>3 DEF Is
      <4> QED BY <4>1, <4>2
    <3>5. ASSUME NEW n \in 0 .. m PROVE Made(f, n) = Made(g, n)
      <4>1. CASE n = 0
        BY <4>1 DEF Made
      <4>2. CASE n # 0
        <5>1. n - 1 \in 0 .. m - 1
          BY <2>3, <4>2
        <5>2. f[n - 1] = g[n - 1]
          BY <3>4, <5>1
        <5> HIDE DEF f
        <5> QED BY <4>2, <5>2 DEF Made
      <4> QED BY <4>1, <4>2
    <3>6. f = [n \in 0 .. m |-> Made(f, n)]
      <4> DEFINE made == [n \in 0 .. m |-> Made(f, n)]
      <4>1. f = made
        BY <3>5
      <4> QED BY <4>1
    <3> HIDE DEF f
    <3> QED BY <2>3, <3>6 DEF Is
  <2> QED BY <2>4, <2>5
<1>2. \E f : Is(f, Len(section))
  BY <1>1
<1>3. Is(chosen, Len(section))
  BY <1>2 DEF chosen
<1>4. Overlay!ReadSection(reader, section) = chosen[Len(section)]
  BY DEF Overlay!ReadSection, chosen, Is, Made
<1>5. \A n \in 0 .. Len(section) : chosen[n] = Made(chosen, n)
  BY <1>3 DEF Is
<1>6. chosen[0] = reader
  <2>1. 0 \in 0 .. Len(section)
    OBVIOUS
  <2> QED BY <1>5, <2>1 DEF Made
<1> DEFINE f == chosen
<1>7. ASSUME NEW n \in 1 .. Len(section) PROVE f[n] = Overlay!ReadLine(f[n - 1], section[n])
  <2>1. n \in 0 .. Len(section) /\ n # 0
    OBVIOUS
  <2> QED BY <1>5, <2>1 DEF Made
<1> HIDE DEF f
<1>8. StepsOf(f, reader, section)
  BY <1>4, <1>6, <1>7 DEF StepsOf, f
<1> QED BY <1>8

(* Likewise the sections of a file.                                        *)
LEMMA FileSteps ==
  ASSUME NEW sections, Len(sections) \in Nat
  PROVE  \E f : /\ f[0] = Overlay!Reading(<<>>, None, FALSE)
                /\ \A n \in 1 .. Len(sections) : f[n] = Overlay!ReadSection(f[n - 1], sections[n])
                /\ Overlay!Read(sections) = f[Len(sections)]
<1> DEFINE Made(f, n) == IF n = 0 THEN Overlay!Reading(<<>>, None, FALSE)
             ELSE Overlay!ReadSection(f[n - 1], sections[n])
           Is(f, m) == f = [n \in 0 .. m |-> Made(f, n)]
           without == {m \in 0 .. Len(sections) : \A f : ~Is(f, m)}
           chosen == CHOOSE f : Is(f, Len(sections))
<1> HIDE DEF Made, Is, chosen
<1>1. without = {}
  <2> SUFFICES ASSUME without # {} PROVE FALSE
    OBVIOUS
  <2>1. without \subseteq Nat
    OBVIOUS
  <2>2. PICK m \in without : \A k \in without : m <= k
    BY <2>1, LeastNumber
  <2>3. m \in 0 .. Len(sections) /\ \A f : ~Is(f, m)
    OBVIOUS
  <2>4. CASE m = 0
    <3> DEFINE f == [n \in 0 .. 0 |-> Overlay!Reading(<<>>, None, FALSE)]
    <3>1. ASSUME NEW n \in 0 .. 0 PROVE Made(f, n) = Overlay!Reading(<<>>, None, FALSE)
      BY DEF Made
    <3>2. f = [n \in 0 .. 0 |-> Made(f, n)]
      BY <3>1
    <3> HIDE DEF f
    <3>3. Is(f, m)
      BY <2>4, <3>2 DEF Is
    <3> QED BY <2>3, <3>3
  <2>5. CASE m # 0
    <3>1. m - 1 \in 0 .. Len(sections) /\ ~(m <= m - 1)
      BY <2>3, <2>5
    <3>2. m - 1 \notin without
      BY <2>2, <3>1
    <3>3. PICK g : Is(g, m - 1)
      BY <3>1, <3>2
    <3> DEFINE f == [n \in 0 .. m |-> Made(g, n)]
    <3>4. ASSUME NEW n \in 0 .. m - 1 PROVE f[n] = g[n]
      <4>1. n \in 0 .. m /\ f[n] = Made(g, n)
        BY <2>3
      <4> HIDE DEF f
      <4>2. g[n] = Made(g, n)
        BY <3>3 DEF Is
      <4> QED BY <4>1, <4>2
    <3>5. ASSUME NEW n \in 0 .. m PROVE Made(f, n) = Made(g, n)
      <4>1. CASE n = 0
        BY <4>1 DEF Made
      <4>2. CASE n # 0
        <5>1. n - 1 \in 0 .. m - 1
          BY <2>3, <4>2
        <5>2. f[n - 1] = g[n - 1]
          BY <3>4, <5>1
        <5> HIDE DEF f
        <5> QED BY <4>2, <5>2 DEF Made
      <4> QED BY <4>1, <4>2
    <3>6. f = [n \in 0 .. m |-> Made(f, n)]
      <4> DEFINE made == [n \in 0 .. m |-> Made(f, n)]
      <4>1. f = made
        BY <3>5
      <4> QED BY <4>1
    <3> HIDE DEF f
    <3> QED BY <2>3, <3>6 DEF Is
  <2> QED BY <2>4, <2>5
<1>2. \E f : Is(f, Len(sections))
  BY <1>1
<1>3. Is(chosen, Len(sections))
  BY <1>2 DEF chosen
<1>4. Overlay!Read(sections) = chosen[Len(sections)]
  BY DEF Overlay!Read, chosen, Is, Made
<1>5. \A n \in 0 .. Len(sections) : chosen[n] = Made(chosen, n)
  BY <1>3 DEF Is
<1>6. chosen[0] = Overlay!Reading(<<>>, None, FALSE)
  <2>1. 0 \in 0 .. Len(sections)
    OBVIOUS
  <2> QED BY <1>5, <2>1 DEF Made
<1> DEFINE f == chosen
<1>7. ASSUME NEW n \in 1 .. Len(sections) PROVE f[n] = Overlay!ReadSection(f[n - 1], sections[n])
  <2>1. n \in 0 .. Len(sections) /\ n # 0
    OBVIOUS
  <2> QED BY <1>5, <2>1 DEF Made
<1> HIDE DEF f
<1> QED BY <1>4, <1>6, <1>7 DEF f

(* Likewise the values that are kept once.                                 *)
LEMMA UniqueSteps ==
  ASSUME NEW s, Len(s) \in Nat
  PROVE  \E f : /\ f[0] = <<>>
                /\ \A n \in 1 .. Len(s) : f[n] = IF s[n] \in Overlay!ToSet(f[n - 1]) THEN f[n - 1]
                     ELSE Append(f[n - 1], s[n])
                /\ Overlay!Unique(s) = f[Len(s)]
<1> DEFINE Made(f, n) == IF n = 0 THEN <<>> ELSE IF s[n] \in Overlay!ToSet(f[n - 1]) THEN f[n - 1]
             ELSE Append(f[n - 1], s[n])
           Is(f, m) == f = [n \in 0 .. m |-> Made(f, n)]
           without == {m \in 0 .. Len(s) : \A f : ~Is(f, m)}
           chosen == CHOOSE f : Is(f, Len(s))
<1> HIDE DEF Made, Is, chosen
<1>1. without = {}
  <2> SUFFICES ASSUME without # {} PROVE FALSE
    OBVIOUS
  <2>1. without \subseteq Nat
    OBVIOUS
  <2>2. PICK m \in without : \A k \in without : m <= k
    BY <2>1, LeastNumber
  <2>3. m \in 0 .. Len(s) /\ \A f : ~Is(f, m)
    OBVIOUS
  <2>4. CASE m = 0
    <3> DEFINE f == [n \in 0 .. 0 |-> <<>>]
    <3>1. ASSUME NEW n \in 0 .. 0 PROVE Made(f, n) = <<>>
      BY DEF Made
    <3>2. f = [n \in 0 .. 0 |-> Made(f, n)]
      BY <3>1
    <3> HIDE DEF f
    <3>3. Is(f, m)
      BY <2>4, <3>2 DEF Is
    <3> QED BY <2>3, <3>3
  <2>5. CASE m # 0
    <3>1. m - 1 \in 0 .. Len(s) /\ ~(m <= m - 1)
      BY <2>3, <2>5
    <3>2. m - 1 \notin without
      BY <2>2, <3>1
    <3>3. PICK g : Is(g, m - 1)
      BY <3>1, <3>2
    <3> DEFINE f == [n \in 0 .. m |-> Made(g, n)]
    <3>4. ASSUME NEW n \in 0 .. m - 1 PROVE f[n] = g[n]
      <4>1. n \in 0 .. m /\ f[n] = Made(g, n)
        BY <2>3
      <4> HIDE DEF f
      <4>2. g[n] = Made(g, n)
        BY <3>3 DEF Is
      <4> QED BY <4>1, <4>2
    <3>5. ASSUME NEW n \in 0 .. m PROVE Made(f, n) = Made(g, n)
      <4>1. CASE n = 0
        BY <4>1 DEF Made
      <4>2. CASE n # 0
        <5>1. n - 1 \in 0 .. m - 1
          BY <2>3, <4>2
        <5>2. f[n - 1] = g[n - 1]
          BY <3>4, <5>1
        <5> HIDE DEF f
        <5> QED BY <4>2, <5>2 DEF Made
      <4> QED BY <4>1, <4>2
    <3>6. f = [n \in 0 .. m |-> Made(f, n)]
      <4> DEFINE made == [n \in 0 .. m |-> Made(f, n)]
      <4>1. f = made
        BY <3>5
      <4> QED BY <4>1
    <3> HIDE DEF f
    <3> QED BY <2>3, <3>6 DEF Is
  <2> QED BY <2>4, <2>5
<1>2. \E f : Is(f, Len(s))
  BY <1>1
<1>3. Is(chosen, Len(s))
  BY <1>2 DEF chosen
<1>4. Overlay!Unique(s) = chosen[Len(s)]
  BY DEF Overlay!Unique, chosen, Is, Made
<1>5. \A n \in 0 .. Len(s) : chosen[n] = Made(chosen, n)
  BY <1>3 DEF Is
<1>6. chosen[0] = <<>>
  <2>1. 0 \in 0 .. Len(s)
    OBVIOUS
  <2> QED BY <1>5, <2>1 DEF Made
<1> DEFINE f == chosen
<1>7. ASSUME NEW n \in 1 .. Len(s) PROVE f[n] = IF s[n] \in Overlay!ToSet(f[n - 1]) THEN f[n - 1]
               ELSE Append(f[n - 1], s[n])
  <2>1. n \in 0 .. Len(s) /\ n # 0
    OBVIOUS
  <2> QED BY <1>5, <2>1 DEF Made
<1> HIDE DEF f
<1> QED BY <1>4, <1>6, <1>7 DEF f

(* Likewise the file with the scaffold in it.                              *)
LEMMA PastedSteps ==
  ASSUME NEW sections, NEW scaffold, Len(sections) \in Nat
  PROVE  \E f : /\ f[0] = scaffold
                /\ \A n \in 1 .. Len(sections) : f[n] = IF \E i \in DOMAIN scaffold :
                     scaffold[i][1].key = sections[n][1].key
                 THEN f[n - 1] ELSE Append(f[n - 1], sections[n])
                /\ Overlay!Pasted(sections, scaffold) = f[Len(sections)]
<1> DEFINE Made(f, n) == IF n = 0 THEN scaffold
             ELSE IF \E i \in DOMAIN scaffold : scaffold[i][1].key = sections[n][1].key
                 THEN f[n - 1] ELSE Append(f[n - 1], sections[n])
           Is(f, m) == f = [n \in 0 .. m |-> Made(f, n)]
           without == {m \in 0 .. Len(sections) : \A f : ~Is(f, m)}
           chosen == CHOOSE f : Is(f, Len(sections))
<1> HIDE DEF Made, Is, chosen
<1>1. without = {}
  <2> SUFFICES ASSUME without # {} PROVE FALSE
    OBVIOUS
  <2>1. without \subseteq Nat
    OBVIOUS
  <2>2. PICK m \in without : \A k \in without : m <= k
    BY <2>1, LeastNumber
  <2>3. m \in 0 .. Len(sections) /\ \A f : ~Is(f, m)
    OBVIOUS
  <2>4. CASE m = 0
    <3> DEFINE f == [n \in 0 .. 0 |-> scaffold]
    <3>1. ASSUME NEW n \in 0 .. 0 PROVE Made(f, n) = scaffold
      BY DEF Made
    <3>2. f = [n \in 0 .. 0 |-> Made(f, n)]
      BY <3>1
    <3> HIDE DEF f
    <3>3. Is(f, m)
      BY <2>4, <3>2 DEF Is
    <3> QED BY <2>3, <3>3
  <2>5. CASE m # 0
    <3>1. m - 1 \in 0 .. Len(sections) /\ ~(m <= m - 1)
      BY <2>3, <2>5
    <3>2. m - 1 \notin without
      BY <2>2, <3>1
    <3>3. PICK g : Is(g, m - 1)
      BY <3>1, <3>2
    <3> DEFINE f == [n \in 0 .. m |-> Made(g, n)]
    <3>4. ASSUME NEW n \in 0 .. m - 1 PROVE f[n] = g[n]
      <4>1. n \in 0 .. m /\ f[n] = Made(g, n)
        BY <2>3
      <4> HIDE DEF f
      <4>2. g[n] = Made(g, n)
        BY <3>3 DEF Is
      <4> QED BY <4>1, <4>2
    <3>5. ASSUME NEW n \in 0 .. m PROVE Made(f, n) = Made(g, n)
      <4>1. CASE n = 0
        BY <4>1 DEF Made
      <4>2. CASE n # 0
        <5>1. n - 1 \in 0 .. m - 1
          BY <2>3, <4>2
        <5>2. f[n - 1] = g[n - 1]
          BY <3>4, <5>1
        <5> HIDE DEF f
        <5> QED BY <4>2, <5>2 DEF Made
      <4> QED BY <4>1, <4>2
    <3>6. f = [n \in 0 .. m |-> Made(f, n)]
      <4> DEFINE made == [n \in 0 .. m |-> Made(f, n)]
      <4>1. f = made
        BY <3>5
      <4> QED BY <4>1
    <3> HIDE DEF f
    <3> QED BY <2>3, <3>6 DEF Is
  <2> QED BY <2>4, <2>5
<1>2. \E f : Is(f, Len(sections))
  BY <1>1
<1>3. Is(chosen, Len(sections))
  BY <1>2 DEF chosen
<1>4. Overlay!Pasted(sections, scaffold) = chosen[Len(sections)]
  BY DEF Overlay!Pasted, chosen, Is, Made
<1>5. \A n \in 0 .. Len(sections) : chosen[n] = Made(chosen, n)
  BY <1>3 DEF Is
<1>6. chosen[0] = scaffold
  <2>1. 0 \in 0 .. Len(sections)
    OBVIOUS
  <2> QED BY <1>5, <2>1 DEF Made
<1> DEFINE f == chosen
<1>7. ASSUME NEW n \in 1 .. Len(sections)
      PROVE f[n] = IF \E i \in DOMAIN scaffold : scaffold[i][1].key = sections[n][1].key
                 THEN f[n - 1] ELSE Append(f[n - 1], sections[n])
  <2>1. n \in 0 .. Len(sections) /\ n # 0
    OBVIOUS
  <2> QED BY <1>5, <2>1 DEF Made
<1> HIDE DEF f
<1> QED BY <1>4, <1>6, <1>7 DEF f

(* A section as it reads by itself.                                        *)
Start == Overlay!Reading(<<>>, None, FALSE)
(* What a section means when it stands alone.                              *)
Own(section) == Overlay!ReadSection(Start, section)
Key(section) == section[1].key

(* What a section comes to while it is read, in a file (a, after overlay   *)
(* o) and by itself (b).                                                   *)
Likewise(a, b, o, key) ==
  /\ a.failed <=> b.failed
  /\ ~b.failed =>
       /\ a.active = b.active /\ b.active \in {None, key}
       /\ a.overlay = Overlay!Written(o, key, b.overlay[key])
       /\ DOMAIN b.overlay = {key}
       /\ IF key \in Overlay!ScalarFields THEN b.active = None
          ELSE key \in Overlay!ListFields /\ b.overlay[key] \in Seq(Overlay!Text)

(* A field written into an overlay.                                        *)
LEMMA WrittenIs ==
  ASSUME NEW o, NEW key, NEW v
  PROVE  /\ Overlay!Written(o, key, v)[key] = v
         /\ DOMAIN Overlay!Written(o, key, v) = DOMAIN o \cup {key}
         /\ DOMAIN o \subseteq {key} => DOMAIN Overlay!Written(o, key, v) = {key}
BY DEF Overlay!Written

LEMMA WrittenTwice ==
  ASSUME NEW o, NEW key, NEW v, NEW w
  PROVE  Overlay!Written(Overlay!Written(o, key, v), key, w) = Overlay!Written(o, key, w)
BY DEF Overlay!Written

(* The lines of a section.                                                 *)
LEMMA LineTexts ==
  ASSUME NEW section, Overlay!IsSection(section), NEW n \in 1 .. Len(section)
  PROVE  /\ Overlay!Trim(Overlay!StripComment(section[n].text)) \in Overlay!Text
         /\ section[n].key # None <=> n = 1
<1>1. section[n].text \in Overlay!Text /\ (section[n].key # None <=> n = 1)
  BY LenProperties DEF Overlay!IsSection, Overlay!IsList
<1> QED BY <1>1, StripIs, TrimIs DEF Overlay!Text

LEMMA SectionLength ==
  ASSUME NEW section, Overlay!IsSection(section)
  PROVE  Len(section) \in Nat /\ Len(section) >= 1
BY LenProperties, EmptySeq DEF Overlay!IsSection, Overlay!IsList

(* The line with the key.                                                  *)
LEMMA KeyLikewise ==
  ASSUME NEW reader, ~reader.failed, NEW line, line.key # None,
           line.key \notin DOMAIN reader.overlay
  PROVE  Likewise(Overlay!ReadLine(reader, line), Overlay!ReadLine(Start, line), reader.overlay,
           line.key)
<1> DEFINE words == Overlay!Trim(Overlay!StripComment(line.text))
           key == line.key
<1>1. Overlay!ReadLine(reader, line) = Overlay!ReadKey(reader, key, words)
  BY DEF Overlay!ReadLine
<1>2. Start.overlay = <<>> /\ Start.active = None /\ Start.failed = FALSE
  BY DEF Start, Overlay!Reading
<1>3. Overlay!ReadLine(Start, line) = Overlay!ReadKey(Start, key, words)
  BY <1>2 DEF Overlay!ReadLine
<1>4. key \notin DOMAIN Start.overlay
  BY <1>2
<1> HIDE DEF words, key
<1>5. key \notin DOMAIN reader.overlay
  BY DEF key
<1>6. CASE key \in Overlay!ScalarFields /\ words # <<>>
  <2> DEFINE v == Overlay!Scalar(words)
  <2>1. /\ Overlay!ReadKey(reader, key, words)
             = Overlay!Reading(Overlay!Written(reader.overlay, key, v), None, FALSE)
        /\ Overlay!ReadKey(Start, key, words)
             = Overlay!Reading(Overlay!Written(<<>>, key, v), None, FALSE)
    BY <1>2, <1>4, <1>5, <1>6 DEF Overlay!ReadKey
  <2>2. DOMAIN Overlay!Written(<<>>, key, v) = {key} /\ Overlay!Written(<<>>, key, v)[key] = v
    <3>1. DOMAIN <<>> = {}
      OBVIOUS
    <3> QED BY <3>1 DEF Overlay!Written
  <2> HIDE DEF v
  <2> QED BY <1>1, <1>3, <1>6, <2>1, <2>2 DEF Likewise, key, Overlay!Reading
<1>7. CASE ~(key \in Overlay!ScalarFields /\ words # <<>>) /\ key \in Overlay!ListFields
             /\ words = <<>>
  <2>1. /\ Overlay!ReadKey(reader, key, words)
             = Overlay!Reading(Overlay!Written(reader.overlay, key, <<>>), key, FALSE)
        /\ Overlay!ReadKey(Start, key, words)
             = Overlay!Reading(Overlay!Written(<<>>, key, <<>>), key, FALSE)
    BY <1>2, <1>4, <1>5, <1>7 DEF Overlay!ReadKey
  <2>2. DOMAIN Overlay!Written(<<>>, key, <<>>) = {key}
          /\ Overlay!Written(<<>>, key, <<>>)[key] = <<>>
    <3>1. DOMAIN <<>> = {}
      OBVIOUS
    <3> QED BY <3>1 DEF Overlay!Written
  <2>3. key \notin Overlay!ScalarFields
    BY <1>7 DEF Overlay!ScalarFields, Overlay!ListFields, Overlay!ReplacedFields,
        Overlay!RecipeFields,
       Overlay!BoundaryFields, Overlay!ExcludeFields, Overlay!ToSet, Overlay!AuthorityFields,
         Overlay!OwnerFields,
       Overlay!StaleFields, Overlay!ResponsibilityFields, Overlay!StructureFields
  <2>4. <<>> \in Seq(Overlay!Text)
    BY EmptySeq
  <2> DEFINE a == Overlay!Reading(Overlay!Written(reader.overlay, key, <<>>), key, FALSE)
             b == Overlay!Reading(Overlay!Written(<<>>, key, <<>>), key, FALSE)
  <2>5. /\ a.active = key /\ ~a.failed /\ b.active = key /\ ~b.failed
        /\ a.overlay = Overlay!Written(reader.overlay, key, <<>>)
        /\ b.overlay = Overlay!Written(<<>>, key, <<>>)
    BY DEF Overlay!Reading
  <2> HIDE DEF a, b
  <2>6. DOMAIN b.overlay = {key} /\ b.overlay[key] = <<>>
    BY <2>2, <2>5
  <2>7. Likewise(a, b, reader.overlay, key)
    BY <1>7, <2>3, <2>4, <2>5, <2>6 DEF Likewise
  <2> QED BY <1>1, <1>3, <2>1, <2>7 DEF a, b, key
<1>8. CASE ~(key \in Overlay!ScalarFields /\ words # <<>>)
             /\ ~(key \in Overlay!ListFields /\ words = <<>>)
  <2>1. /\ Overlay!ReadKey(reader, key, words) = Overlay!Refuse(reader)
        /\ Overlay!ReadKey(Start, key, words) = Overlay!Refuse(Start)
    BY <1>4, <1>5, <1>8 DEF Overlay!ReadKey
  <2> QED BY <1>1, <1>3, <2>1 DEF Likewise, Overlay!Refuse, Overlay!Reading
<1> QED BY <1>6, <1>7, <1>8

(* A line below it.                                                        *)
LEMMA ItemLikewise ==
  ASSUME NEW a, NEW b, NEW o, NEW key, Likewise(a, b, o, key), key # None, NEW line,
           line.key = None,
         Overlay!Trim(Overlay!StripComment(line.text)) \in Overlay!Text
  PROVE  Likewise(Overlay!ReadLine(a, line), Overlay!ReadLine(b, line), o, key)
<1> DEFINE words == Overlay!Trim(Overlay!StripComment(line.text))
<1>1. CASE b.failed
  BY <1>1 DEF Likewise, Overlay!ReadLine
<1>2. CASE ~b.failed
  <2>1. /\ ~a.failed /\ a.active = b.active /\ b.active \in {None, key}
        /\ a.overlay = Overlay!Written(o, key, b.overlay[key])
        /\ DOMAIN b.overlay = {key}
        /\ IF key \in Overlay!ScalarFields THEN b.active = None
           ELSE key \in Overlay!ListFields /\ b.overlay[key] \in Seq(Overlay!Text)
    BY <1>2 DEF Likewise
  <2>2. CASE line.item /\ b.active # None /\ words # <<>>
    <3> DEFINE v == Append(b.overlay[key], Overlay!Scalar(words))
    <3>1. b.active = key /\ a.overlay[key] = b.overlay[key] /\ key \notin Overlay!ScalarFields
      BY <2>1, <2>2 DEF Overlay!Written
    <3>2. /\ Overlay!ReadLine(a, line)
               = Overlay!Reading(Overlay!Written(a.overlay, key, v), key, FALSE)
          /\ Overlay!ReadLine(b, line)
               = Overlay!Reading(Overlay!Written(b.overlay, key, v), key, FALSE)
      BY <1>2, <2>1, <2>2, <3>1 DEF Overlay!ReadLine, Overlay!ReadItem
    <3>3. v \in Seq(Overlay!Text)
      BY <2>1, <3>1, ScalarIs, AppendProperties DEF Overlay!Text
    <3> HIDE DEF v
    <3>4. /\ Overlay!Written(a.overlay, key, v) = Overlay!Written(o, key, v)
          /\ DOMAIN Overlay!Written(b.overlay, key, v) = {key}
               /\ Overlay!Written(b.overlay, key, v)[key] = v
      BY <2>1 DEF Overlay!Written
    <3> QED BY <2>1, <3>1, <3>2, <3>3, <3>4 DEF Likewise, Overlay!Reading
  <2>3. CASE line.item /\ ~(b.active # None /\ words # <<>>)
    <3>1. /\ Overlay!ReadLine(a, line) = Overlay!Refuse(a)
          /\ Overlay!ReadLine(b, line) = Overlay!Refuse(b)
      BY <1>2, <2>1, <2>3 DEF Overlay!ReadLine, Overlay!ReadItem
    <3> QED BY <3>1 DEF Likewise, Overlay!Refuse, Overlay!Reading
  <2>4. CASE ~line.item /\ words = <<>>
    <3>1. Overlay!ReadLine(a, line) = a /\ Overlay!ReadLine(b, line) = b
      BY <1>2, <2>1, <2>4 DEF Overlay!ReadLine
    <3> QED BY <3>1
  <2>5. CASE ~line.item /\ words # <<>>
    <3>1. /\ Overlay!ReadLine(a, line) = Overlay!Refuse(a)
          /\ Overlay!ReadLine(b, line) = Overlay!Refuse(b)
      BY <1>2, <2>1, <2>5 DEF Overlay!ReadLine
    <3> QED BY <3>1 DEF Likewise, Overlay!Refuse, Overlay!Reading
  <2> QED BY <2>2, <2>3, <2>4, <2>5
<1> QED BY <1>1, <1>2

(* A section reads in a file as it reads by itself.                        *)
LEMMA SectionLikewise ==
  ASSUME NEW reader, ~reader.failed, NEW section, Overlay!IsSection(section),
         Key(section) \notin DOMAIN reader.overlay
  PROVE  Likewise(Overlay!ReadSection(reader, section), Own(section), reader.overlay,
           Key(section))
<1>1. Len(section) \in Nat /\ Len(section) >= 1
  BY SectionLength
<1>2. PICK a : StepsOf(a, reader, section)
  BY <1>1, SectionSteps
<1>3. /\ a[0] = reader
      /\ \A n \in 1 .. Len(section) : a[n] = Overlay!ReadLine(a[n - 1], section[n])
      /\ Overlay!ReadSection(reader, section) = a[Len(section)]
  BY <1>2 DEF StepsOf
<1>4. PICK b : StepsOf(b, Start, section)
  BY <1>1, SectionSteps
<1>5. /\ b[0] = Start
      /\ \A n \in 1 .. Len(section) : b[n] = Overlay!ReadLine(b[n - 1], section[n])
      /\ Own(section) = b[Len(section)]
  BY <1>4 DEF StepsOf, Own
<1> DEFINE T == {n \in 1 .. Len(section) : Likewise(a[n], b[n], reader.overlay, Key(section))}
<1>6. 1 \in T
  <2>1. 1 \in 1 .. Len(section)
    BY <1>1
  <2>2. a[1] = Overlay!ReadLine(reader, section[1]) /\ b[1] = Overlay!ReadLine(Start, section[1])
    BY <1>3, <1>5, <2>1
  <2>3. section[1].key # None
    BY <2>1, LineTexts
  <2> QED BY <2>1, <2>2, <2>3, KeyLikewise DEF Key
<1>7. ASSUME NEW n \in 1 + 1 .. Len(section), n - 1 \in T PROVE n \in T
  <2>1. n \in 1 .. Len(section) /\ n # 1 /\ 1 \in 1 .. Len(section)
    BY <1>1
  <2>2. Likewise(a[n - 1], b[n - 1], reader.overlay, Key(section))
    BY <1>7
  <2>3. Key(section) # None /\ section[n].key = None
        /\ Overlay!Trim(Overlay!StripComment(section[n].text)) \in Overlay!Text
    BY <2>1, LineTexts DEF Key
  <2>4. a[n] = Overlay!ReadLine(a[n - 1], section[n])
          /\ b[n] = Overlay!ReadLine(b[n - 1], section[n])
    BY <1>3, <1>5, <2>1
  <2> QED BY <2>1, <2>2, <2>3, <2>4, ItemLikewise
<1>8. 1 .. Len(section) \subseteq T
  <2> HIDE DEF T
  <2> QED BY <1>1, <1>6, <1>7, Upward
<1>9. Len(section) \in T
  BY <1>1, <1>8
<1> QED BY <1>3, <1>5, <1>9

(* What was refused stays refused, and so does a key that is there.        *)
LEMMA SectionRefused ==
  ASSUME NEW reader, NEW section, Overlay!IsSection(section),
         reader.failed \/ Key(section) \in DOMAIN reader.overlay
  PROVE  Overlay!ReadSection(reader, section).failed
<1>1. Len(section) \in Nat /\ Len(section) >= 1
  BY SectionLength
<1>2. PICK a : StepsOf(a, reader, section)
  BY <1>1, SectionSteps
<1>3. /\ a[0] = reader
      /\ \A n \in 1 .. Len(section) : a[n] = Overlay!ReadLine(a[n - 1], section[n])
      /\ Overlay!ReadSection(reader, section) = a[Len(section)]
  BY <1>2 DEF StepsOf
<1> DEFINE T == {n \in 1 .. Len(section) : a[n].failed}
<1>4. 1 \in T
  <2>1. 1 \in 1 .. Len(section) /\ a[1] = Overlay!ReadLine(reader, section[1])
          /\ section[1].key # None
    BY <1>1, <1>3, LineTexts
  <2>2. CASE reader.failed
    BY <2>1, <2>2 DEF Overlay!ReadLine
  <2>3. CASE ~reader.failed
    <3>1. a[1] = Overlay!Refuse(reader)
      BY <2>1, <2>3 DEF Overlay!ReadLine, Overlay!ReadKey, Key
    <3> QED BY <2>1, <3>1 DEF Overlay!Refuse, Overlay!Reading
  <2> QED BY <2>2, <2>3
<1>5. ASSUME NEW n \in 1 + 1 .. Len(section), n - 1 \in T PROVE n \in T
  <2>1. n \in 1 .. Len(section) /\ a[n - 1].failed
    BY <1>1, <1>5
  <2>2. a[n] = a[n - 1]
    BY <1>3, <2>1 DEF Overlay!ReadLine
  <2> QED BY <2>1, <2>2
<1>6. 1 .. Len(section) \subseteq T
  <2> HIDE DEF T
  <2> QED BY <1>1, <1>4, <1>5, Upward
<1>7. Len(section) \in T
  BY <1>1, <1>6
<1> QED BY <1>3, <1>7

(* A file.                                                                 *)
IsFile(sections) == Overlay!IsList(sections) /\ \A i \in DOMAIN sections :
  Overlay!IsSection(sections[i])
(* Each key once; each section readable.                                   *)
OneEach(sections, n) == \A i, j \in 1 .. n : Key(sections[i]) = Key(sections[j]) => i = j
EachReads(sections, n) == \A i \in 1 .. n : ~Own(sections[i]).failed
Keys(sections, n) == {Key(sections[i]) : i \in 1 .. n}

(* A section that can be read sets its own field and no other.             *)
LEMMA OwnIs ==
  ASSUME NEW section, Overlay!IsSection(section), ~Own(section).failed
  PROVE  /\ DOMAIN Own(section).overlay = {Key(section)}
         /\ \/ Key(section) \in Overlay!ScalarFields
            \/ /\ Key(section) \in Overlay!ListFields
               /\ Own(section).overlay[Key(section)] \in Seq(Overlay!Text)
<1>1. ~Start.failed /\ Key(section) \notin DOMAIN Start.overlay
  BY DEF Start, Overlay!Reading
<1>2. Likewise(Own(section), Own(section), Start.overlay, Key(section))
  BY <1>1, SectionLikewise DEF Own
<1> QED BY <1>2 DEF Likewise

(* What the sections up to one have come to.                               *)
ReadTo(sections, reader, n) ==
  /\ ~reader.failed <=> OneEach(sections, n) /\ EachReads(sections, n)
  /\ ~reader.failed =>
       reader.overlay = [k \in Keys(sections, n) |->
                          LET i == CHOOSE i \in 1 .. n : Key(sections[i]) = k
                                IN Own(sections[i]).overlay[k]]

(* One section more.                                                       *)
LEMMA NextSection ==
  ASSUME NEW sections, NEW n \in Nat, n # 0, Overlay!IsSection(sections[n]), NEW reader,
         ReadTo(sections, reader, n - 1)
  PROVE  ReadTo(sections, Overlay!ReadSection(reader, sections[n]), n)
<1> DEFINE section == sections[n]
           after == Overlay!ReadSection(reader, section)
           key == Key(section)
<1>1. /\ n \in 1 .. n /\ n \notin 1 .. n - 1
      /\ \A i \in 1 .. n : i = n \/ i \in 1 .. n - 1
      /\ \A i \in 1 .. n - 1 : i \in 1 .. n
  OBVIOUS
<1>2. Keys(sections, n) = Keys(sections, n - 1) \cup {key}
  BY <1>1 DEF Keys
<1>3. CASE reader.failed
  <2>1. after.failed
    BY <1>3, SectionRefused
  <2>2. ~(OneEach(sections, n) /\ EachReads(sections, n))
    BY <1>1, <1>3 DEF ReadTo, OneEach, EachReads
  <2> QED BY <2>1, <2>2 DEF ReadTo
<1>4. CASE ~reader.failed /\ key \in DOMAIN reader.overlay
  <2>1. after.failed
    BY <1>4, SectionRefused
  <2>2. key \in Keys(sections, n - 1)
    BY <1>4 DEF ReadTo
  <2>3. PICK i \in 1 .. n - 1 : Key(sections[i]) = key
    BY <2>2 DEF Keys
  <2>4. ~OneEach(sections, n)
    BY <1>1, <2>3 DEF OneEach
  <2> QED BY <2>1, <2>4 DEF ReadTo
<1>5. CASE ~reader.failed /\ key \notin DOMAIN reader.overlay
  <2>1. Likewise(after, Own(section), reader.overlay, key)
    BY <1>5, SectionLikewise
  <2>2. OneEach(sections, n - 1) /\ EachReads(sections, n - 1)
    BY <1>5 DEF ReadTo
  <2>3. key \notin Keys(sections, n - 1)
    BY <1>5 DEF ReadTo
  <2>4. OneEach(sections, n)
    <3>1. \A i \in 1 .. n - 1 : Key(sections[i]) # key
      BY <2>3 DEF Keys
    <3> QED BY <1>1, <2>2, <3>1 DEF OneEach
  <2>5. EachReads(sections, n) <=> ~Own(section).failed
    BY <1>1, <2>2 DEF EachReads
  <2>6. after.failed <=> Own(section).failed
    BY <2>1 DEF Likewise
  <2>7. ASSUME ~after.failed
        PROVE  after.overlay = [k \in Keys(sections, n) |->
                 LET i == CHOOSE i \in 1 .. n : Key(sections[i]) = k
                       IN Own(sections[i]).overlay[k]]
    <3> DEFINE Of(k, m) == CHOOSE i \in 1 .. m : Key(sections[i]) = k
    <3>1. after.overlay = Overlay!Written(reader.overlay, key, Own(section).overlay[key])
      BY <2>1, <2>6, <2>7 DEF Likewise
    <3>2. reader.overlay
            = [k \in Keys(sections, n - 1) |-> Own(sections[Of(k, n - 1)]).overlay[k]]
      BY <1>5 DEF ReadTo
    <3>3. Of(key, n) = n
      BY <1>1, <2>4 DEF OneEach
    <3>4. ASSUME NEW k \in Keys(sections, n - 1) PROVE Of(k, n) = Of(k, n - 1) /\ k # key
      <4>1. PICK j \in 1 .. n - 1 : Key(sections[j]) = k
        BY <3>4 DEF Keys
      <4>2. Of(k, n - 1) = j
        BY <2>2, <4>1 DEF OneEach
      <4>3. Of(k, n) = j
        BY <1>1, <2>4, <4>1 DEF OneEach
      <4> QED BY <2>3, <4>2, <4>3
    <3> HIDE DEF Of
    <3>5. after.overlay = [k \in Keys(sections, n) |-> Own(sections[Of(k, n)]).overlay[k]]
      <4>1. DOMAIN reader.overlay = Keys(sections, n - 1)
        BY <3>2
      <4>2. after.overlay
              = [k \in Keys(sections, n) |-> IF k = key THEN Own(section).overlay[key]
                ELSE reader.overlay[k]]
        BY <1>2, <3>1, <4>1 DEF Overlay!Written
      <4>3. ASSUME NEW k \in Keys(sections, n)
            PROVE  (IF k = key THEN Own(section).overlay[key] ELSE reader.overlay[k])
                     = Own(sections[Of(k, n)]).overlay[k]
        BY <1>2, <3>2, <3>3, <3>4, <4>3
      <4> HIDE DEF section, key
      <4> QED BY <4>2, <4>3
    <3> QED BY <3>5 DEF Of
  <2> QED BY <2>4, <2>5, <2>6, <2>7 DEF ReadTo
<1> QED BY <1>3, <1>4, <1>5

(* The whole file.                                                         *)
LEMMA FileIs ==
  ASSUME NEW sections, IsFile(sections)
  PROVE  ReadTo(sections, Overlay!Read(sections), Len(sections)) /\ Len(sections) \in Nat
<1> DEFINE N == Len(sections)
<1>1. N \in Nat /\ DOMAIN sections = 1 .. N
  BY LenProperties DEF IsFile, Overlay!IsList
<1>2. PICK f : /\ f[0] = Overlay!Reading(<<>>, None, FALSE)
               /\ \A n \in 1 .. N : f[n] = Overlay!ReadSection(f[n - 1], sections[n])
               /\ Overlay!Read(sections) = f[N]
  BY <1>1, FileSteps
<1> DEFINE T == {n \in 0 .. N : ReadTo(sections, f[n], n)}
<1> HIDE DEF N
<1>3. 0 \in T
  <2>1. f[0].overlay = <<>> /\ ~f[0].failed
    BY <1>2 DEF Overlay!Reading
  <2>2. 1 .. 0 = {}
    OBVIOUS
  <2>3. Keys(sections, 0) = {} /\ OneEach(sections, 0) /\ EachReads(sections, 0)
    BY <2>2 DEF Keys, OneEach, EachReads
  <2>4. <<>> = [k \in Keys(sections, 0) |->
                  LET i == CHOOSE i \in 1 .. 0 : Key(sections[i]) = k
                        IN Own(sections[i]).overlay[k]]
    BY <2>3
  <2>5. ReadTo(sections, f[0], 0)
    BY <2>1, <2>3, <2>4 DEF ReadTo
  <2> QED BY <1>1, <2>5
<1>4. ASSUME NEW n \in 0 + 1 .. N, n - 1 \in T PROVE n \in T
  <2>1. n \in 1 .. N /\ n \in Nat /\ n # 0 /\ n \in 0 .. N
    BY <1>1
  <2>2. Overlay!IsSection(sections[n])
    BY <1>1, <2>1 DEF IsFile
  <2>3. ReadTo(sections, f[n - 1], n - 1)
    BY <1>4
  <2>4. ReadTo(sections, f[n], n)
    BY <1>2, <2>1, <2>2, <2>3, NextSection
  <2> QED BY <2>1, <2>4
<1>5. 0 .. N \subseteq T
  <2> HIDE DEF T
  <2> QED BY <1>1, <1>3, <1>4, Upward
<1>6. N \in T
  BY <1>1, <1>5
<1> QED BY <1>1, <1>2, <1>6 DEF N

(* A file can be read when no key comes twice and each section alone can.  *)
Reads(sections) == OneEach(sections, Len(sections)) /\ EachReads(sections, Len(sections))

(* Then it says of each field what the section of that field says alone.   *)
LEMMA FileReads ==
  ASSUME NEW sections, IsFile(sections)
  PROVE  /\ ~Overlay!Read(sections).failed <=> Reads(sections)
         /\ Reads(sections) =>
              /\ DOMAIN Overlay!Read(sections).overlay
                   = {Key(sections[i]) : i \in DOMAIN sections}
              /\ \A i \in DOMAIN sections :
                   LET k == Key(sections[i])
                   IN Overlay!Read(sections).overlay[k] = Own(sections[i]).overlay[k]
              /\ Overlay!Read(sections).overlay
                   = [k \in {Key(sections[i]) : i \in DOMAIN sections} |->
                     Overlay!Read(sections).overlay[k]]
<1> DEFINE N == Len(sections)
           o == Overlay!Read(sections).overlay
           Of(k) == CHOOSE i \in 1 .. N : Key(sections[i]) = k
<1>1. N \in Nat /\ DOMAIN sections = 1 .. N
  BY LenProperties DEF IsFile, Overlay!IsList
<1>2. ReadTo(sections, Overlay!Read(sections), N)
  BY FileIs
<1>3. ~Overlay!Read(sections).failed <=> Reads(sections)
  BY <1>2 DEF ReadTo, Reads
<1>4. ASSUME Reads(sections)
      PROVE  /\ DOMAIN o = {Key(sections[i]) : i \in DOMAIN sections}
             /\ \A i \in DOMAIN sections :
                  o[Key(sections[i])] = Own(sections[i]).overlay[Key(sections[i])]
             /\ o = [k \in {Key(sections[i]) : i \in DOMAIN sections} |-> o[k]]
  <2>1. o = [k \in Keys(sections, N) |-> Own(sections[Of(k)]).overlay[k]]
    BY <1>2, <1>3, <1>4 DEF ReadTo
  <2>2. Keys(sections, N) = {Key(sections[i]) : i \in DOMAIN sections}
    BY <1>1 DEF Keys
  <2>3. ASSUME NEW i \in DOMAIN sections
        PROVE Of(Key(sections[i])) = i /\ Key(sections[i]) \in Keys(sections, N)
    BY <1>1, <1>4 DEF Reads, OneEach, Keys
  <2> HIDE DEF o, Of
  <2>4. DOMAIN o = Keys(sections, N)
    BY <2>1
  <2>5. ASSUME NEW i \in DOMAIN sections
        PROVE o[Key(sections[i])] = Own(sections[i]).overlay[Key(sections[i])]
    <3>1. Key(sections[i]) \in Keys(sections, N) /\ Of(Key(sections[i])) = i
      BY <2>3
    <3> QED BY <2>1, <3>1
  <2>6. o = [k \in Keys(sections, N) |-> o[k]]
    BY <2>1
  <2> QED BY <2>2, <2>4, <2>5, <2>6
<1> HIDE DEF o
<1> QED BY <1>3, <1>4 DEF o

LEMMA ReadsEach ==
  ASSUME NEW sections, IsFile(sections), Reads(sections), NEW i \in DOMAIN sections
  PROVE  /\ Key(sections[i]) \in DOMAIN Overlay!Read(sections).overlay
         /\ Overlay!Read(sections).overlay[Key(sections[i])]
              = Own(sections[i]).overlay[Key(sections[i])]
<1> DEFINE o == Overlay!Read(sections).overlay
<1>1. /\ DOMAIN o = {Key(sections[j]) : j \in DOMAIN sections}
      /\ \A j \in DOMAIN sections :
           o[Key(sections[j])] = Own(sections[j]).overlay[Key(sections[j])]
  BY FileReads
<1> HIDE DEF o
<1>2. Key(sections[i]) \in DOMAIN o
        /\ o[Key(sections[i])] = Own(sections[i]).overlay[Key(sections[i])]
  BY <1>1
<1> QED BY <1>2 DEF o

(* Sections in another order.                                              *)
LEMMA AnyOrder ==
  ASSUME NEW s, NEW t, IsFile(s), IsFile(t),
         NEW place, \A i \in DOMAIN s : place[i] \in DOMAIN t /\ t[place[i]] = s[i],
         \A i, j \in DOMAIN s : place[i] = place[j] => i = j,
         \A j \in DOMAIN t : \E i \in DOMAIN s : place[i] = j
  PROVE  /\ Overlay!Read(s).failed <=> Overlay!Read(t).failed
         /\ ~Overlay!Read(s).failed => Overlay!Read(s).overlay = Overlay!Read(t).overlay
<1>1. DOMAIN s = 1 .. Len(s) /\ DOMAIN t = 1 .. Len(t)
  BY LenProperties DEF IsFile, Overlay!IsList
<1>2. OneEach(s, Len(s)) <=> OneEach(t, Len(t))
  <2>1. ASSUME OneEach(t, Len(t)), NEW i \in 1 .. Len(s), NEW j \in 1 .. Len(s),
                 Key(s[i]) = Key(s[j])
        PROVE  i = j
    <3>1. Key(t[place[i]]) = Key(t[place[j]])
      BY <1>1, <2>1
    <3>2. place[i] = place[j]
      BY <1>1, <2>1, <3>1 DEF OneEach
    <3> QED BY <1>1, <3>2
  <2>2. ASSUME OneEach(s, Len(s)), NEW i \in 1 .. Len(t), NEW j \in 1 .. Len(t),
                 Key(t[i]) = Key(t[j])
        PROVE  i = j
    <3>1. PICK k \in DOMAIN s : place[k] = i
      BY <1>1
    <3>2. PICK l \in DOMAIN s : place[l] = j
      BY <1>1
    <3>3. Key(s[k]) = Key(s[l])
      BY <1>1, <2>2, <3>1, <3>2
    <3>4. k = l
      BY <1>1, <2>2, <3>3 DEF OneEach
    <3> QED BY <3>1, <3>2, <3>4
  <2> QED BY <2>1, <2>2 DEF OneEach
<1>3. EachReads(s, Len(s)) <=> EachReads(t, Len(t))
  BY <1>1 DEF EachReads
<1>4. Reads(s) <=> Reads(t)
  BY <1>2, <1>3 DEF Reads
<1>5. ASSUME Reads(s) PROVE Overlay!Read(s).overlay = Overlay!Read(t).overlay
  <2> DEFINE o == Overlay!Read(s).overlay
             p == Overlay!Read(t).overlay
             K == {Key(s[i]) : i \in DOMAIN s}
  <2>1. {Key(t[i]) : i \in DOMAIN t} = K
    OBVIOUS
  <2>2. o = [k \in K |-> o[k]] /\ p = [k \in K |-> p[k]]
    <3>1. o = [k \in K |-> o[k]]
      BY <1>5, FileReads
    <3>2. p = [k \in {Key(t[i]) : i \in DOMAIN t} |-> p[k]]
      BY <1>4, <1>5, FileReads
    <3> QED BY <2>1, <3>1, <3>2
  <2>3. ASSUME NEW i \in DOMAIN s PROVE o[Key(s[i])] = p[Key(s[i])]
    <3>1. place[i] \in DOMAIN t /\ t[place[i]] = s[i]
      OBVIOUS
    <3>2. o[Key(s[i])] = Own(s[i]).overlay[Key(s[i])]
      BY <1>5, ReadsEach
    <3>3. p[Key(t[place[i]])] = Own(t[place[i]]).overlay[Key(t[place[i]])]
      BY <1>4, <1>5, <3>1, ReadsEach
    <3> QED BY <3>1, <3>2, <3>3
  <2>4. \A k \in K : o[k] = p[k]
    BY <2>3
  <2> HIDE DEF o, p, K
  <2>5. o = p
    BY <2>2, <2>4
  <2> QED BY <2>5 DEF o, p
<1> QED BY <1>4, <1>5, FileReads

(* Turning a file round changes nothing.                                   *)
LEMMA ReversedFile ==
  ASSUME NEW s, IsFile(s)
  PROVE  /\ IsFile(Overlay!Reverse(s))
         /\ s = <<>> <=> Overlay!Reverse(s) = <<>>
         /\ Overlay!Read(s).failed <=> Overlay!Read(Overlay!Reverse(s)).failed
         /\ ~Overlay!Read(s).failed
              => Overlay!Read(s).overlay = Overlay!Read(Overlay!Reverse(s)).overlay
<1> DEFINE t == Overlay!Reverse(s)
           N == Len(s)
           place == [i \in 1 .. N |-> N - i + 1]
<1>1. N \in Nat /\ DOMAIN s = 1 .. N
  BY LenProperties DEF IsFile, Overlay!IsList
<1>2. DOMAIN t = 1 .. N /\ \A i \in 1 .. N : t[i] = s[N - i + 1] /\ N - i + 1 \in 1 .. N
  BY <1>1 DEF Overlay!Reverse
<1>3. t \in Seq(Overlay!ToSet(t))
  <2>1. t \in [1 .. N -> Overlay!ToSet(t)]
    BY <1>1, <1>2 DEF Overlay!Reverse, Overlay!ToSet
  <2> HIDE DEF t, N
  <2> QED BY <1>1, <2>1, SeqDef
<1> HIDE DEF N, t
<1>4. IsFile(t)
  BY <1>1, <1>2, <1>3 DEF IsFile, Overlay!IsList
<1>5. Len(t) = N
  BY <1>1, <1>2, <1>3, LenProperties
<1>6. s = <<>> <=> t = <<>>
  BY <1>1, <1>3, <1>5, EmptySeq, LenProperties DEF N, IsFile, Overlay!IsList
<1>7. ASSUME NEW i \in DOMAIN s PROVE place[i] \in DOMAIN t /\ t[place[i]] = s[i]
  <2>1. N - i + 1 \in 1 .. N /\ N - (N - i + 1) + 1 = i
    BY <1>1
  <2> QED BY <1>1, <1>2, <2>1
<1>8. ASSUME NEW i \in DOMAIN s, NEW j \in DOMAIN s, place[i] = place[j] PROVE i = j
  BY <1>1, <1>8
<1>9. ASSUME NEW j \in DOMAIN t PROVE \E i \in DOMAIN s : place[i] = j
  <2>1. N - j + 1 \in 1 .. N /\ N - (N - j + 1) + 1 = j
    BY <1>1, <1>2
  <2> QED BY <1>1, <2>1
<1> HIDE DEF place
<1>10. /\ Overlay!Read(s).failed <=> Overlay!Read(t).failed
       /\ ~Overlay!Read(s).failed => Overlay!Read(s).overlay = Overlay!Read(t).overlay
  BY <1>4, <1>7, <1>8, <1>9, AnyOrder
<1> QED BY <1>4, <1>6, <1>10 DEF t

(* Nor does it change what is suggested.                                   *)
LEMMA StandAlone ==
  ASSUME NEW in, DOMAIN in = {"profile", "sections", "symptom"}, IsFile(in.sections)
  PROVE  Overlay!Suggest([in EXCEPT !.sections = Overlay!Reverse(@)]) = Overlay!Suggest(in)
<1> DEFINE s == in.sections
           t == Overlay!Reverse(s)
           other == [in EXCEPT !.sections = t]
<1>1. other.profile = in.profile /\ other.sections = t /\ other.symptom = in.symptom
  OBVIOUS
<1> HIDE DEF other, t
<1>2. /\ s = <<>> <=> t = <<>>
      /\ Overlay!Read(s).failed <=> Overlay!Read(t).failed
      /\ ~Overlay!Read(s).failed => Overlay!Read(s).overlay = Overlay!Read(t).overlay
  BY ReversedFile DEF t
<1>3. Overlay!Accepted(in.profile, s) <=> Overlay!Accepted(in.profile, t)
  BY <1>2 DEF Overlay!Accepted, Overlay!Readable
<1>4. ASSUME Overlay!Accepted(in.profile, s)
      PROVE  Overlay!Effective(in.profile, s) = Overlay!Effective(in.profile, t)
             /\ Overlay!BuildConfig(s) = Overlay!BuildConfig(t)
  <2>1. CASE s = <<>>
    BY <1>2, <2>1
  <2>2. CASE s # <<>>
    <3>1. ~Overlay!Read(s).failed
      BY <1>4, <2>2 DEF Overlay!Accepted, Overlay!Readable
    <3> QED BY <1>2, <2>2, <3>1 DEF Overlay!Effective, Overlay!BuildConfig
  <2> QED BY <2>1, <2>2
<1>5. Overlay!Suggest(other) = Overlay!Suggest(in)
  BY <1>1, <1>3, <1>4 DEF Overlay!Suggest
<1> QED BY <1>5 DEF other, t

(* An overlay leaves the symptoms, and no field is taken away.             *)
LEMMA SameSymptoms ==
  ASSUME NEW profile, DOMAIN profile = {"id", "fields"}, NEW sections
  PROVE  LET effective == Overlay!Effective(profile, sections)
         IN /\ effective.id = profile.id
            /\ Overlay!Symptoms(effective) = Overlay!Symptoms(profile)
            /\ DOMAIN effective = {"id", "fields"}
            /\ DOMAIN profile.fields \subseteq DOMAIN effective.fields
<1> DEFINE effective == Overlay!Effective(profile, sections)
<1>1. CASE sections = <<>>
  BY <1>1 DEF Overlay!Effective
<1>2. CASE sections # <<>>
  <2> DEFINE merged == Overlay!Merged(profile.fields, Overlay!Read(sections).overlay)
  <2>1. effective = [profile EXCEPT !.fields = merged]
    BY <1>2 DEF Overlay!Effective
  <2>2. DOMAIN profile.fields \subseteq DOMAIN merged
    BY DEF Overlay!Merged, Overlay!Kept
  <2> HIDE DEF merged, effective
  <2>3. effective.id = profile.id /\ effective.fields = merged
          /\ DOMAIN effective = {"id", "fields"}
    BY <2>1
  <2>4. Overlay!Symptoms(effective) = Overlay!Symptoms(profile)
    BY <2>3 DEF Overlay!Symptoms
  <2> QED BY <2>2, <2>3, <2>4 DEF effective
<1> QED BY <1>1, <1>2

(* So whoever asks for a symptom that is offered is answered.              *)
LEMMA SomethingAnswered ==
  ASSUME NEW in, DOMAIN in = {"profile", "sections", "symptom"}, Overlay!IsProfile(in.profile),
         in.symptom \in DOMAIN Overlay!Symptoms(in.profile)
  PROVE  Overlay!Suggest(in).status # "undefined"
<1> DEFINE effective == Overlay!Effective(in.profile, in.sections)
<1>1. /\ Overlay!Symptoms(effective) = Overlay!Symptoms(in.profile)
      /\ DOMAIN in.profile.fields \subseteq DOMAIN effective.fields
  BY SameSymptoms DEF Overlay!IsProfile
<1>2. Overlay!Answerable(in.profile, in.symptom)
  BY DEF Overlay!IsProfile
<1> HIDE DEF effective
<1>3. Overlay!Answerable(effective, in.symptom)
  BY <1>1, <1>2 DEF Overlay!Answerable
<1> QED BY <1>3 DEF Overlay!Suggest, effective

(* One word reads as itself.                                               *)
LEMMA WordReads ==
  ASSUME NEW c, c # Overlay!Blank, c # Overlay!Hash
  PROVE  /\ Overlay!Trim(Overlay!StripComment(<<c>>)) = <<c>>
         /\ Overlay!Scalar(<<c>>) = <<c>>
<1>1. <<c>> \in Seq({c}) /\ Len(<<c>>) = 1 /\ <<c>>[1] = c /\ DOMAIN <<c>> = {1} /\ <<c>> # <<>>
  OBVIOUS
<1>2. Overlay!StripComment(<<c>>) = <<c>>
  <2>1. {i \in DOMAIN <<c>> : <<c>>[i] = Overlay!Hash /\ Overlay!OpenQuote(<<c>>)[i - 1] = None}
          = {}
    BY <1>1
  <2> QED BY <2>1 DEF Overlay!StripComment
<1>3. Overlay!Trim(<<c>>) = <<c>>
  BY <1>1, TrimIs
<1> QED BY <1>1, <1>2, <1>3 DEF Overlay!Scalar

(* Nothing after the colon is nothing.                                     *)
LEMMA NothingReads == Overlay!Trim(Overlay!StripComment(<<>>)) = <<>>
<1>1. DOMAIN <<>> = {}
  OBVIOUS
<1>2. Overlay!StripComment(<<>>) = <<>>
  BY <1>1 DEF Overlay!StripComment
<1>3. Overlay!Trim(<<>>) = <<>>
  BY <1>1 DEF Overlay!Trim
<1> QED BY <1>2, <1>3

(* The kinds of fields.                                                    *)
LEMMA FieldsApart ==
  /\ Overlay!ScalarFields \cap Overlay!ListFields = {}
  /\ "formatVersion" # "profileId"
  /\ Overlay!BoundaryFields \cap (Overlay!RecipeFields \cup Overlay!ReplacedFields \cup Overlay!ScopeFields) = {}
  /\ Overlay!ScopeFields \cap (Overlay!RecipeFields \cup Overlay!ReplacedFields) = {}
  /\ Overlay!BoundaryFields \cup Overlay!RecipeFields \cup Overlay!ReplacedFields \cup Overlay!ScopeFields
       \subseteq Overlay!ListFields
  /\ {"archivePatterns", "legacyPatterns", "generatedPatterns"} \subseteq Overlay!ListFields
BY DEF Overlay!ScalarFields, Overlay!ListFields, Overlay!ReplacedFields, Overlay!RecipeFields,
    Overlay!ScopeFields,
       Overlay!BoundaryFields, Overlay!ExcludeFields, Overlay!ToSet, Overlay!AuthorityFields,
         Overlay!OwnerFields,
       Overlay!StaleFields, Overlay!ResponsibilityFields, Overlay!StructureFields

(* The fields of a symptom: each once, and none that holds criteria.       *)
LEMMA SymptomFields ==
  ASSUME NEW profile, NEW symptom \in DOMAIN Overlay!Symptoms(profile)
  PROVE  LET fields == Overlay!Symptoms(profile)[symptom]
         IN /\ fields \in Seq(Overlay!ListFields)
            /\ Overlay!IsInjective(fields)
            /\ Overlay!ToSet(fields) \cap {"criteria", "requiredOutputs", "archivePatterns",
                 "legacyPatterns",
                                           "generatedPatterns"} = {}
<1> DEFINE Good(fields) ==
             /\ fields \in Seq(Overlay!ListFields)
             /\ Overlay!IsInjective(fields)
             /\ Overlay!ToSet(fields) \cap {"criteria", "requiredOutputs", "archivePatterns",
                  "legacyPatterns",
                                            "generatedPatterns"} = {}
<1> USE DEF Overlay!ListFields, Overlay!ReplacedFields, Overlay!RecipeFields,
      Overlay!BoundaryFields,
       Overlay!ExcludeFields, Overlay!ToSet, Overlay!IsInjective, Overlay!AuthorityFields,
         Overlay!OwnerFields,
       Overlay!StaleFields, Overlay!ResponsibilityFields, Overlay!StructureFields
<1>1. Good(<<"include", "exclude", "boundaryMapRoots", "boundaryMapTestDirectoryNames">>)
  OBVIOUS
<1>2. Good(Overlay!StructureFields)
  OBVIOUS
<1>3. Good(Overlay!ResponsibilityFields)
  OBVIOUS
<1>4. Good(Overlay!AuthorityFields)
  OBVIOUS
<1>5. Good(Overlay!OwnerFields)
  OBVIOUS
<1>6. Good(Overlay!StaleFields)
  OBVIOUS
<1>7. Good(<<"ssotOrder">>)
  OBVIOUS
<1> HIDE DEF Good
<1>8. Good(Overlay!Symptoms(profile)[symptom])
  BY <1>1, <1>2, <1>3, <1>4, <1>5, <1>6, <1>7 DEF Overlay!Symptoms
<1> QED BY <1>8 DEF Good

(* What is assumed of the constants.                                       *)
LEMMA LettersGiven ==
  /\ LowerCase \in [Overlay!Characters -> Overlay!Characters]
  /\ \A c \in Overlay!Characters :
       LowerCase[LowerCase[c]] = LowerCase[c]
         /\ (LowerCase[c] = Overlay!Blank <=> c = Overlay!Blank)
  /\ \A f \in Overlay!BoundaryFields : Defaults[f] \in Seq(Overlay!Text)
       /\ Overlay!IsStringArray(Defaults[f])
  /\ \A i \in DOMAIN Defaults["boundaryMapRoots"] :
       Overlay!IsRootRule(Defaults["boundaryMapRoots"][i])
  /\ Overlay!Blank \notin Kinds /\ Overlay!Hash \notin Kinds /\ Overlay!Colon \notin Kinds
  /\ "1" \in Overlay!Characters /\ Overlay!Colon \in Overlay!Characters
       /\ Overlay!Slash \in Overlay!Characters
  /\ Overlay!DoubleQuote \in Overlay!Characters /\ Kinds \subseteq Overlay!Characters
  /\ None \notin Overlay!ListFields /\ None \notin Overlay!ScalarFields
       /\ None \notin Overlay!Quotes
BY ConstantsAreSound DEF Overlay!DefaultsAreNormal

(* A value without anything to escape.                                     *)
Plain(value) == \A i \in DOMAIN value : value[i] \notin {Overlay!DoubleQuote, Overlay!Backslash}

(* Its quoted form is a words.                                              *)
LEMMA QuotedIsText ==
  ASSUME NEW value \in Overlay!Text, Plain(value)
  PROVE  Overlay!Quoted(value) \in Overlay!Text
<1> DEFINE C == Overlay!Characters
<1>1. value \in Seq(C)
  BY DEF Overlay!Text
<1>2. Overlay!Quoted(value) = Sandwich(value)
  BY <1>1, QuotedIs DEF Plain
<1>3. Sandwich(value) \in Seq(C \cup {Overlay!DoubleQuote})
  BY <1>1, SandwichIs
<1>4. C \cup {Overlay!DoubleQuote} = C
  BY LettersGiven
<1> QED BY <1>2, <1>3, <1>4 DEF Overlay!Text

(* A section as the scaffold writes it.                                    *)
LEMMA WrittenSection ==
  ASSUME NEW key, key # None, NEW scalar \in Overlay!Text,
         NEW values \in Seq(Overlay!Text), \A i \in DOMAIN values : Plain(values[i])
  PROVE  LET section == Overlay!WriteSection(key, scalar, values)
         IN /\ Overlay!IsSection(section) /\ Key(section) = key
            /\ Len(section) = Len(values) + 1
            /\ section[1] = Overlay!Line(key, FALSE, scalar)
            /\ \A i \in 1 .. Len(values) :
                 section[i + 1] = Overlay!Line(None, TRUE, Overlay!Quoted(values[i]))
<1> DEFINE N == Len(values)
           head == Overlay!Line(key, FALSE, scalar)
           item(v) == Overlay!Line(None, TRUE, Overlay!Quoted(v))
           line(i) == IF i = 1 THEN head ELSE item(values[i - 1])
           section == Overlay!WriteSection(key, scalar, values)
<1>1. N \in Nat /\ DOMAIN values = 1 .. N
  BY LenProperties
<1>2. section = [i \in 1 .. N + 1 |-> line(i)]
  BY DEF Overlay!WriteSection
<1> HIDE DEF N, section, line, head, item
<1>3. DOMAIN section = 1 .. N + 1 /\ \A i \in 1 .. N + 1 : section[i] = line(i)
  BY <1>2
<1>4. section \in Seq(Overlay!ToSet(section)) /\ Len(section) = N + 1
  <2>1. section \in [1 .. N + 1 -> Overlay!ToSet(section)]
    BY <1>2, <1>3 DEF Overlay!ToSet
  <2>2. N + 1 \in Nat
    BY <1>1
  <2>3. section \in Seq(Overlay!ToSet(section))
    BY <2>1, <2>2, SeqDef
  <2>4. Len(section) \in Nat /\ DOMAIN section = 1 .. Len(section)
    BY <2>3, LenProperties
  <2> QED BY <1>3, <2>2, <2>3, <2>4
<1>5. 1 \in 1 .. N + 1 /\ section[1] = head
  BY <1>1, <1>3 DEF line
<1>6. ASSUME NEW i \in 1 .. N PROVE section[i + 1] = item(values[i])
  <2>1. i + 1 \in 1 .. N + 1 /\ i + 1 # 1 /\ i + 1 - 1 = i
    BY <1>1
  <2> QED BY <1>3, <2>1 DEF line
<1>7. ASSUME NEW i \in 1 .. N + 1
      PROVE  section[i].text \in Overlay!Text /\ (section[i].key # None <=> i = 1)
  <2>1. CASE i = 1
    BY <1>5, <2>1 DEF head, Overlay!Line
  <2>2. CASE i # 1
    <3>1. i - 1 \in 1 .. N /\ i - 1 + 1 = i
      BY <1>1, <2>2
    <3>2. section[i] = item(values[i - 1])
      BY <1>6, <3>1
    <3>3. values[i - 1] \in Overlay!Text /\ Plain(values[i - 1])
      BY <1>1, <3>1, ElementOfSeq
    <3>4. Overlay!Quoted(values[i - 1]) \in Overlay!Text
      BY <3>3, QuotedIsText
    <3> QED BY <2>2, <3>2, <3>4 DEF item, Overlay!Line
  <2> QED BY <2>1, <2>2
<1>8. section # <<>>
  BY <1>1, <1>3
<1>9. Overlay!IsSection(section)
  BY <1>3, <1>4, <1>7, <1>8 DEF Overlay!IsSection, Overlay!IsList
<1>10. Key(section) = key
  BY <1>5 DEF Key, head, Overlay!Line
<1> QED BY <1>4, <1>5, <1>6, <1>9, <1>10 DEF section, N, head, item

(* A section with one word is read as it was written.                      *)
LEMMA ScalarWritten ==
  ASSUME NEW key \in Overlay!ScalarFields, NEW c \in Overlay!Characters, c # Overlay!Blank,
           c # Overlay!Hash
  PROVE  LET section == Overlay!WriteSection(key, <<c>>, <<>>)
         IN /\ Overlay!IsSection(section) /\ Key(section) = key
            /\ ~Own(section).failed /\ Own(section).overlay[key] = <<c>>
<1> DEFINE section == Overlay!WriteSection(key, <<c>>, <<>>)
           line == Overlay!Line(key, FALSE, <<c>>)
<1>1. /\ Overlay!IsSection(section) /\ Key(section) = key
      /\ Len(section) = 1 /\ section[1] = line
  <2>1. <<>> \in Seq(Overlay!Text) /\ Len(<<>>) = 0 /\ DOMAIN <<>> = {}
    BY EmptySeq
  <2>2. <<c>> \in Overlay!Text /\ key # None
    BY LettersGiven DEF Overlay!Text
  <2>3. /\ Overlay!IsSection(section) /\ Key(section) = key /\ Len(section) = Len(<<>>) + 1
        /\ section[1] = line
    BY <2>1, <2>2, WrittenSection
  <2> HIDE DEF section, line
  <2> QED BY <2>1, <2>3
<1> HIDE DEF section
<1>2. PICK f : StepsOf(f, Start, section)
  BY <1>1, SectionSteps
<1>3. /\ f[0] = Start
      /\ \A n \in 1 .. Len(section) : f[n] = Overlay!ReadLine(f[n - 1], section[n])
      /\ Own(section) = f[Len(section)]
  BY <1>2 DEF StepsOf, Own
<1>4. Own(section) = Overlay!ReadLine(Start, line)
  <2>1. 1 \in 1 .. Len(section) /\ 1 - 1 = 0
    BY <1>1
  <2> QED BY <1>1, <1>3, <2>1
<1>5. Overlay!Trim(Overlay!StripComment(<<c>>)) = <<c>> /\ Overlay!Scalar(<<c>>) = <<c>>
        /\ <<c>> # <<>>
  BY WordReads
<1>6. line.key = key /\ line.item = FALSE /\ line.text = <<c>> /\ key # None
  BY LettersGiven DEF Overlay!Line
<1>7. Start.overlay = <<>> /\ Start.failed = FALSE
  BY DEF Start, Overlay!Reading
<1> HIDE DEF line
<1>8. Own(section) = Overlay!ReadKey(Start, key, <<c>>)
  BY <1>4, <1>5, <1>6, <1>7 DEF Overlay!ReadLine
<1>9. Own(section) = Overlay!Reading(Overlay!Written(<<>>, key, <<c>>), None, FALSE)
  <2>1. key \notin DOMAIN Start.overlay
    BY <1>7
  <2> QED BY <1>5, <1>7, <1>8, <2>1 DEF Overlay!ReadKey
<1>10. Own(section).failed = FALSE /\ Own(section).overlay = Overlay!Written(<<>>, key, <<c>>)
  BY <1>9 DEF Overlay!Reading
<1>11. Own(section).overlay[key] = <<c>>
  BY <1>10 DEF Overlay!Written
<1> QED BY <1>1, <1>10, <1>11 DEF section

(* A section with plain values is read as it was written.                  *)
LEMMA ListWritten ==
  ASSUME NEW key \in Overlay!ListFields, NEW values \in Seq(Overlay!Text),
         \A i \in DOMAIN values : Plain(values[i])
  PROVE  LET section == Overlay!WriteSection(key, <<>>, values)
         IN /\ Overlay!IsSection(section) /\ Key(section) = key
            /\ ~Own(section).failed /\ Own(section).overlay[key] = values
<1> DEFINE section == Overlay!WriteSection(key, <<>>, values)
           N == Len(values)
<1>1. /\ Overlay!IsSection(section) /\ Key(section) = key
      /\ Len(section) = N + 1 /\ section[1] = Overlay!Line(key, FALSE, <<>>)
      /\ \A i \in 1 .. N : section[i + 1] = Overlay!Line(None, TRUE, Overlay!Quoted(values[i]))
  <2>1. <<>> \in Overlay!Text /\ key # None
    BY EmptySeq, LettersGiven DEF Overlay!Text
  <2> QED BY <2>1, WrittenSection
<1>2. N \in Nat /\ DOMAIN values = 1 .. N
  BY LenProperties
<1> HIDE DEF section, N
<1>3. PICK f : StepsOf(f, Start, section)
  <2>1. Len(section) \in Nat
    BY <1>1, <1>2
  <2> QED BY <2>1, SectionSteps
<1>4. /\ f[0] = Start
      /\ \A n \in 1 .. Len(section) : f[n] = Overlay!ReadLine(f[n - 1], section[n])
      /\ Own(section) = f[Len(section)]
  BY <1>3 DEF StepsOf, Own
<1> DEFINE Done(n) == f[n].failed = FALSE /\ f[n].active = key
                      /\ key \in DOMAIN f[n].overlay
                           /\ f[n].overlay[key] = SubSeq(values, 1, n - 1)
           T == {n \in 1 .. N + 1 : Done(n)}
<1>5. 1 \in T
  <2> DEFINE line == Overlay!Line(key, FALSE, <<>>)
  <2>1. f[1] = Overlay!ReadLine(Start, line)
    <3>1. 1 \in 1 .. Len(section) /\ 1 - 1 = 0
      BY <1>1, <1>2
    <3> QED BY <1>1, <1>4, <3>1
  <2>2. line.key = key /\ line.item = FALSE /\ line.text = <<>> /\ key # None
    BY LettersGiven DEF Overlay!Line
  <2>3. Start.overlay = <<>> /\ Start.failed = FALSE
    BY DEF Start, Overlay!Reading
  <2> HIDE DEF line
  <2>4. f[1] = Overlay!ReadKey(Start, key, <<>>)
    BY <2>1, <2>2, <2>3, NothingReads DEF Overlay!ReadLine
  <2>5. f[1] = Overlay!Reading(Overlay!Written(<<>>, key, <<>>), key, FALSE)
    <3>1. key \notin DOMAIN Start.overlay
      BY <2>3
    <3> QED BY <2>3, <2>4, <3>1 DEF Overlay!ReadKey
  <2>6. f[1].failed = FALSE /\ f[1].active = key
          /\ f[1].overlay = Overlay!Written(<<>>, key, <<>>)
    BY <2>5 DEF Overlay!Reading
  <2>7. key \in DOMAIN f[1].overlay /\ f[1].overlay[key] = <<>>
    BY <2>6 DEF Overlay!Written
  <2>8. SubSeq(values, 1, 1 - 1) = <<>>
    BY SubSeqEmpty
  <2>9. 1 \in 1 .. N + 1
    BY <1>2
  <2> QED BY <2>6, <2>7, <2>8, <2>9
<1>6. ASSUME NEW n \in 1 + 1 .. N + 1, n - 1 \in T PROVE n \in T
  <2>1. n \in 1 .. N + 1 /\ n - 1 \in 1 .. N /\ n - 1 + 1 = n /\ n - 1 - 1 = n - 2
    BY <1>2
  <2> DEFINE v == values[n - 1]
             line == Overlay!Line(None, TRUE, Overlay!Quoted(v))
             earlier == f[n - 1]
             words == Overlay!Trim(Overlay!StripComment(Overlay!Quoted(v)))
  <2>2. Done(n - 1)
    BY <1>6
  <2>3. earlier.failed = FALSE /\ earlier.active = key /\ key \in DOMAIN earlier.overlay
        /\ earlier.overlay[key] = SubSeq(values, 1, n - 2)
    BY <2>1, <2>2
  <2>4. f[n] = Overlay!ReadLine(earlier, line)
    <3>1. n \in 1 .. Len(section) /\ section[n] = line
      BY <1>1, <2>1
    <3> QED BY <1>4, <3>1
  <2>5. v \in Seq(Overlay!Characters) /\ Plain(v)
    BY <1>2, <2>1, ElementOfSeq DEF N, Overlay!Text
  <2>6. words # <<>> /\ Overlay!Scalar(words) = v
    BY <2>5, LettersGiven, ReadsBack DEF Plain
  <2>7. line.key = None /\ line.item = TRUE /\ line.text = Overlay!Quoted(v)
    BY DEF Overlay!Line
  <2> HIDE DEF line, earlier
  <2>8. key # None
    BY LettersGiven
  <2>9. f[n] = Overlay!ReadItem(earlier, words)
    BY <2>3, <2>4, <2>7 DEF Overlay!ReadLine
  <2> HIDE DEF words, v
  <2>10. f[n] = Overlay!Reading(Overlay!Written(earlier.overlay, key,
           Append(earlier.overlay[key], v)), key, FALSE)
    BY <2>3, <2>6, <2>8, <2>9 DEF Overlay!ReadItem
  <2>11. f[n].failed = FALSE /\ f[n].active = key
         /\ f[n].overlay = Overlay!Written(earlier.overlay, key, Append(earlier.overlay[key], v))
    BY <2>10 DEF Overlay!Reading
  <2>12. key \in DOMAIN f[n].overlay /\ f[n].overlay[key] = Append(SubSeq(values, 1, n - 2), v)
    BY <2>3, <2>11 DEF Overlay!Written
  <2>13. Append(SubSeq(values, 1, n - 2), v) = SubSeq(values, 1, n - 1)
    BY <1>2, <2>1, SubSeqRecursiveSecond DEF v
  <2> QED BY <2>1, <2>11, <2>12, <2>13
<1>7. 1 .. N + 1 \subseteq T
  <2> HIDE DEF T
  <2>1. N + 1 \in Nat /\ 1 \in Nat
    BY <1>2
  <2> QED BY <2>1, <1>5, <1>6, Upward
<1> HIDE DEF Done
<1>8. Done(N + 1)
  BY <1>2, <1>7
<1>9. SubSeq(values, 1, N) = values
  BY SubSeqFull DEF N
<1>10. (N + 1) - 1 = N
  BY <1>2
<1>11. /\ Overlay!IsSection(section) /\ Key(section) = key
       /\ Len(section) = N + 1
  BY <1>1
<1>12. ~Own(section).failed /\ Own(section).overlay[key] = values
  <2>1. Own(section) = f[N + 1]
    BY <1>4, <1>11
  <2>2. f[N + 1].failed = FALSE
    BY <1>8 DEF Done
  <2>3. f[N + 1].overlay[key] = SubSeq(values, 1, N)
    BY <1>8, <1>10 DEF Done
  <2> QED BY <2>1, <2>2, <2>3, <1>9
<1> QED BY <1>11, <1>12 DEF section

(* The version is a word.                                                  *)
LEMMA OneIsInk == "1" # Overlay!Blank /\ "1" # Overlay!Hash
BY Zenon DEF Overlay!Blank, Overlay!Hash

(* The sections of a scaffold.                                             *)
SectionsOf(scaffold, fields, profile, config) ==
  /\ Len(fields) \in Nat /\ DOMAIN fields = 1 .. Len(fields)
  /\ \A i, j \in 1 .. Len(fields) : fields[i] = fields[j] => i = j
  /\ \A i \in 1 .. Len(fields) : fields[i] \in Overlay!ListFields
  /\ Overlay!IsList(scaffold) /\ DOMAIN scaffold = 1 .. Len(fields) + 2
  /\ Len(scaffold) = Len(fields) + 2
  /\ scaffold[1] = Overlay!WriteSection("formatVersion", <<"1">>, <<>>)
  /\ scaffold[2] = Overlay!WriteSection("profileId", <<profile.id>>, <<>>)
  /\ \A i \in 1 .. Len(fields) :
       scaffold[i + 2]
         = Overlay!WriteSection(fields[i], <<>>, Overlay!Values(profile, config, fields[i]))

(* The scaffold has a section for the version, the profile and each field. *)
LEMMA ScaffoldSections ==
  ASSUME NEW profile, NEW config, NEW symptom \in DOMAIN Overlay!Symptoms(profile)
  PROVE  SectionsOf(Overlay!Scaffold(profile, config, symptom),
           Overlay!Symptoms(profile)[symptom], profile, config)
<1> DEFINE fields == Overlay!Symptoms(profile)[symptom]
           N == Len(fields)
           version == Overlay!WriteSection("formatVersion", <<"1">>, <<>>)
           id == Overlay!WriteSection("profileId", <<profile.id>>, <<>>)
           list(f) == Overlay!WriteSection(f, <<>>, Overlay!Values(profile, config, f))
           first == <<version, id>>
           rest == [i \in DOMAIN fields |-> list(fields[i])]
           S == {version, id} \cup {list(fields[i]) : i \in DOMAIN fields}
           scaffold == Overlay!Scaffold(profile, config, symptom)
<1>1. scaffold = first \o rest
  BY DEF Overlay!Scaffold
<1>2. fields \in Seq(Overlay!ListFields) /\ Overlay!IsInjective(fields)
  BY SymptomFields
<1> HIDE DEF fields, scaffold, version, id, list
<1>3. /\ N \in Nat /\ DOMAIN fields = 1 .. N
      /\ \A i \in 1 .. N : fields[i] \in Overlay!ListFields
  BY <1>2, LenProperties
<1>4. \A i, j \in 1 .. N : fields[i] = fields[j] => i = j
  BY <1>2, <1>3 DEF Overlay!IsInjective
<1> HIDE DEF N
<1>5. rest \in Seq(S) /\ Len(rest) = N /\ \A i \in 1 .. N : rest[i] = list(fields[i])
  <2>1. rest \in [1 .. N -> S] /\ DOMAIN rest = 1 .. N /\ \A i \in 1 .. N :
          rest[i] = list(fields[i])
    BY <1>3
  <2> HIDE DEF rest, S
  <2>2. rest \in Seq(S)
    BY <1>3, <2>1, SeqDef
  <2>3. Len(rest) \in Nat /\ DOMAIN rest = 1 .. Len(rest)
    BY <2>2, LenProperties
  <2> QED BY <1>3, <2>1, <2>2, <2>3
<1>6. first \in Seq(S) /\ Len(first) = 2 /\ first[1] = version /\ first[2] = id
  OBVIOUS
<1> HIDE DEF first, rest, S
<1>7. /\ first \o rest \in Seq(S) /\ Len(first \o rest) = 2 + N
      /\ \A i \in 1 .. 2 + N : (first \o rest)[i] = IF i <= 2 THEN first[i] ELSE rest[i - 2]
  <2>1. /\ first \o rest \in Seq(S) /\ Len(first \o rest) = Len(first) + Len(rest)
        /\ \A i \in 1 .. Len(first) + Len(rest) :
             (first \o rest)[i] = IF i <= Len(first) THEN first[i] ELSE rest[i - Len(first)]
    BY <1>5, <1>6, ConcatProperties
  <2> QED BY <1>5, <1>6, <2>1
<1>8. scaffold \in Seq(S) /\ Len(scaffold) = N + 2 /\ DOMAIN scaffold = 1 .. N + 2
  <2>1. scaffold \in Seq(S) /\ Len(scaffold) = N + 2
    BY <1>1, <1>3, <1>7
  <2> QED BY <2>1, LenProperties
<1>9. Overlay!IsList(scaffold)
  <2>1. \A i \in 1 .. N + 2 : scaffold[i] \in Overlay!ToSet(scaffold)
    BY <1>8 DEF Overlay!ToSet
  <2>2. scaffold \in [1 .. N + 2 -> S]
    BY <1>8, LenProperties
  <2>3. scaffold \in [1 .. N + 2 -> Overlay!ToSet(scaffold)]
    BY <2>1, <2>2
  <2>4. N + 2 \in Nat
    BY <1>3
  <2> QED BY <2>3, <2>4, SeqDef DEF Overlay!IsList
<1>10. scaffold[1] = version /\ scaffold[2] = id
  <2>1. 1 \in 1 .. 2 + N /\ 2 \in 1 .. 2 + N
    BY <1>3
  <2> QED BY <1>1, <1>6, <1>7, <2>1
<1>11. ASSUME NEW i \in 1 .. N PROVE scaffold[i + 2] = list(fields[i])
  <2>1. i + 2 \in 1 .. 2 + N /\ ~(i + 2 <= 2) /\ (i + 2) - 2 = i
    BY <1>3
  <2>2. scaffold[i + 2] = rest[i]
    BY <1>1, <1>7, <2>1
  <2> QED BY <1>5, <2>2
<1>12. \A i \in 1 .. N : scaffold[i + 2] = list(fields[i])
  BY <1>11
<1>13. SectionsOf(scaffold, fields, profile, config)
  BY <1>3, <1>4, <1>8, <1>9, <1>10, <1>12 DEF SectionsOf, N, version, id, list
<1> QED BY <1>13 DEF fields, scaffold

(* The scaffold reads as what it was made of.                              *)
LEMMA ScaffoldReads ==
  ASSUME NEW profile, NEW config, NEW symptom \in DOMAIN Overlay!Symptoms(profile),
         profile.id \in Overlay!Characters \ {Overlay!Blank, Overlay!Hash},
         \A f \in Overlay!ToSet(Overlay!Symptoms(profile)[symptom]) :
           /\ Overlay!Values(profile, config, f) \in Seq(Overlay!Text)
           /\ \A i \in DOMAIN Overlay!Values(profile, config, f) :
                Plain(Overlay!Values(profile, config, f)[i])
  PROVE  LET fields == Overlay!Symptoms(profile)[symptom]
             scaffold == Overlay!Scaffold(profile, config, symptom)
             o == Overlay!Read(scaffold).overlay
         IN /\ IsFile(scaffold) /\ Reads(scaffold) /\ scaffold # <<>>
            /\ DOMAIN o = {"formatVersion", "profileId"} \cup Overlay!ToSet(fields)
            /\ o["formatVersion"] = <<"1">> /\ o["profileId"] = <<profile.id>>
            /\ \A f \in Overlay!ToSet(fields) : o[f] = Overlay!Values(profile, config, f)
<1> DEFINE fields == Overlay!Symptoms(profile)[symptom]
           N == Len(fields)
           scaffold == Overlay!Scaffold(profile, config, symptom)
           o == Overlay!Read(scaffold).overlay
           value(f) == Overlay!Values(profile, config, f)
           Good(section, key, v) == /\ Overlay!IsSection(section) /\ Key(section) = key
                                    /\ ~Own(section).failed /\ Own(section).overlay[key] = v
<1>0. SectionsOf(scaffold, fields, profile, config)
  BY ScaffoldSections
<1>1. /\ N \in Nat /\ DOMAIN fields = 1 .. N
      /\ \A i, j \in 1 .. N : fields[i] = fields[j] => i = j
      /\ \A i \in 1 .. N : fields[i] \in Overlay!ListFields
      /\ Overlay!IsList(scaffold) /\ DOMAIN scaffold = 1 .. N + 2 /\ Len(scaffold) = N + 2
  BY <1>0 DEF SectionsOf
<1>2. Good(scaffold[1], "formatVersion", <<"1">>)
  <2>1. scaffold[1] = Overlay!WriteSection("formatVersion", <<"1">>, <<>>)
    BY <1>0 DEF SectionsOf
  <2>2. "formatVersion" \in Overlay!ScalarFields /\ "1" \in Overlay!Characters
    BY LettersGiven DEF Overlay!ScalarFields
  <2>3. Good(Overlay!WriteSection("formatVersion", <<"1">>, <<>>), "formatVersion", <<"1">>)
    BY <2>2, OneIsInk, ScalarWritten
  <2> HIDE DEF Good
  <2> QED BY <2>1, <2>3
<1>3. Good(scaffold[2], "profileId", <<profile.id>>)
  <2>1. scaffold[2] = Overlay!WriteSection("profileId", <<profile.id>>, <<>>)
    BY <1>0 DEF SectionsOf
  <2>2. "profileId" \in Overlay!ScalarFields
    BY DEF Overlay!ScalarFields
  <2>3. Good(Overlay!WriteSection("profileId", <<profile.id>>, <<>>), "profileId", <<profile.id>>)
    BY <2>2, ScalarWritten
  <2> HIDE DEF Good
  <2> QED BY <2>1, <2>3
<1>4. ASSUME NEW i \in 1 .. N PROVE Good(scaffold[i + 2], fields[i], value(fields[i]))
  <2>1. scaffold[i + 2] = Overlay!WriteSection(fields[i], <<>>, value(fields[i]))
    BY <1>0 DEF SectionsOf
  <2>2. fields[i] \in Overlay!ListFields /\ fields[i] \in Overlay!ToSet(fields)
    BY <1>1 DEF Overlay!ToSet
  <2> HIDE DEF fields
  <2>3. value(fields[i]) \in Seq(Overlay!Text) /\ \A j \in DOMAIN value(fields[i]) :
          Plain(value(fields[i])[j])
    BY <2>2 DEF fields
  <2> HIDE DEF value
  <2>4. Good(Overlay!WriteSection(fields[i], <<>>, value(fields[i])), fields[i], value(fields[i]))
    BY <2>2, <2>3, ListWritten
  <2> HIDE DEF Good
  <2> QED BY <2>1, <2>4 DEF value
<1> HIDE DEF fields, N, scaffold, value
<1>5. ASSUME NEW i \in 1 .. N + 2 PROVE i = 1 \/ i = 2 \/ (i - 2 \in 1 .. N /\ (i - 2) + 2 = i)
  BY <1>1
<1>6. ASSUME NEW i \in 1 .. N + 2 PROVE Overlay!IsSection(scaffold[i]) /\ ~Own(scaffold[i]).failed
  BY <1>2, <1>3, <1>4, <1>5
<1>7. IsFile(scaffold)
  BY <1>1, <1>6 DEF IsFile
<1>8. EachReads(scaffold, Len(scaffold))
  BY <1>1, <1>6 DEF EachReads
<1>9. /\ Key(scaffold[1]) = "formatVersion" /\ Key(scaffold[2]) = "profileId"
      /\ \A i \in 1 .. N : Key(scaffold[i + 2]) = fields[i]
      /\ \A i \in 1 .. N : fields[i] # "formatVersion" /\ fields[i] # "profileId"
  <2>1. \A i \in 1 .. N : fields[i] # "formatVersion" /\ fields[i] # "profileId"
    <3>1. "formatVersion" \in Overlay!ScalarFields /\ "profileId" \in Overlay!ScalarFields
      BY DEF Overlay!ScalarFields
    <3> QED BY <1>1, <3>1, FieldsApart
  <2> QED BY <1>2, <1>3, <1>4, <2>1
<1>10. OneEach(scaffold, Len(scaffold))
  <2>1. ASSUME NEW i \in 1 .. N + 2, NEW j \in 1 .. N + 2, Key(scaffold[i]) = Key(scaffold[j])
        PROVE i = j
    <3>1. CASE i - 2 \in 1 .. N /\ (i - 2) + 2 = i /\ j - 2 \in 1 .. N /\ (j - 2) + 2 = j
      <4>1. fields[i - 2] = fields[j - 2]
        BY <1>9, <2>1, <3>1
      <4>2. i - 2 = j - 2
        BY <1>1, <3>1, <4>1
      <4> QED BY <3>1, <4>2
    <3>2. CASE i - 2 \in 1 .. N /\ (i - 2) + 2 = i /\ (j = 1 \/ j = 2)
      <4>1. Key(scaffold[i]) = fields[i - 2]
        BY <1>9, <3>2
      <4> QED BY <1>9, <2>1, <3>2, <4>1
    <3>3. CASE j - 2 \in 1 .. N /\ (j - 2) + 2 = j /\ (i = 1 \/ i = 2)
      <4>1. Key(scaffold[j]) = fields[j - 2]
        BY <1>9, <3>3
      <4> QED BY <1>9, <2>1, <3>3, <4>1
    <3>4. CASE (i = 1 \/ i = 2) /\ (j = 1 \/ j = 2)
      BY <1>9, <2>1, <3>4, FieldsApart
    <3> QED BY <1>5, <3>1, <3>2, <3>3, <3>4
  <2> QED BY <1>1, <2>1 DEF OneEach
<1>11. Reads(scaffold)
  BY <1>8, <1>10 DEF Reads
<1>12. DOMAIN o = {Key(scaffold[i]) : i \in DOMAIN scaffold}
  BY <1>7, <1>11, FileReads
<1>13. ASSUME NEW i \in DOMAIN scaffold
       PROVE o[Key(scaffold[i])] = Own(scaffold[i]).overlay[Key(scaffold[i])]
  BY <1>7, <1>11, ReadsEach
<1> HIDE DEF o
<1>14. DOMAIN o = {"formatVersion", "profileId"} \cup Overlay!ToSet(fields)
  <2>1. ASSUME NEW k \in DOMAIN o
        PROVE k \in {"formatVersion", "profileId"} \cup Overlay!ToSet(fields)
    <3>1. PICK i \in 1 .. N + 2 : Key(scaffold[i]) = k
      BY <1>1, <1>12
    <3>2. CASE i - 2 \in 1 .. N /\ (i - 2) + 2 = i
      <4>1. k = fields[i - 2]
        BY <1>9, <3>1, <3>2
      <4> QED BY <1>1, <3>2, <4>1 DEF Overlay!ToSet
    <3> QED BY <1>5, <1>9, <3>1, <3>2
  <2>2. "formatVersion" \in DOMAIN o /\ "profileId" \in DOMAIN o
    <3>1. 1 \in DOMAIN scaffold /\ 2 \in DOMAIN scaffold
      BY <1>1
    <3> QED BY <1>9, <1>12, <3>1
  <2>3. ASSUME NEW f \in Overlay!ToSet(fields) PROVE f \in DOMAIN o
    <3>1. PICK i \in 1 .. N : fields[i] = f
      BY <1>1 DEF Overlay!ToSet
    <3>2. i + 2 \in DOMAIN scaffold
      BY <1>1
    <3> QED BY <1>9, <1>12, <3>1, <3>2
  <2> QED BY <2>1, <2>2, <2>3
<1>15. o["formatVersion"] = <<"1">> /\ o["profileId"] = <<profile.id>>
  <2>1. 1 \in DOMAIN scaffold /\ 2 \in DOMAIN scaffold
    BY <1>1
  <2> QED BY <1>2, <1>3, <1>13, <2>1
<1>16. ASSUME NEW f \in Overlay!ToSet(fields) PROVE o[f] = value(f)
  <2>1. PICK i \in 1 .. N : fields[i] = f
    BY <1>1 DEF Overlay!ToSet
  <2>2. i + 2 \in DOMAIN scaffold
    BY <1>1
  <2>3. Good(scaffold[i + 2], f, value(f))
    BY <1>4, <2>1
  <2> QED BY <1>13, <2>2, <2>3
<1>17. scaffold # <<>>
  BY <1>1
<1> QED BY <1>7, <1>11, <1>14, <1>15, <1>16, <1>17 DEF fields, scaffold, o, value

(* An element more at the end.                                             *)
LEMMA Appended ==
  ASSUME NEW S, NEW f \in Seq(S), NEW e \in S
  PROVE  LET g == Append(f, e)
         IN /\ g \in Seq(S) /\ DOMAIN f = 1 .. Len(f) /\ DOMAIN g = 1 .. Len(f) + 1
                 /\ Len(f) \in Nat
            /\ g[Len(f) + 1] = e /\ \A i \in 1 .. Len(f) : g[i] = f[i]
            /\ Overlay!ToSet(g) = Overlay!ToSet(f) \cup {e}
<1> DEFINE g == Append(f, e)
           N == Len(f)
<1>1. N \in Nat /\ DOMAIN f = 1 .. N
  BY LenProperties
<1>2. g \in Seq(S) /\ Len(g) = N + 1 /\ g[N + 1] = e /\ \A i \in 1 .. N : g[i] = f[i]
  BY AppendProperties
<1> HIDE DEF g, N
<1>3. DOMAIN g = 1 .. N + 1
  BY <1>2, LenProperties
<1>4. Overlay!ToSet(g) = Overlay!ToSet(f) \cup {e}
  <2>1. 1 .. N + 1 = (1 .. N) \cup {N + 1}
    BY <1>1
  <2> QED BY <1>1, <1>2, <1>3, <2>1 DEF Overlay!ToSet
<1> QED BY <1>1, <1>2, <1>3, <1>4 DEF g, N

(* The file once the sections up to one are in.                            *)
Has(t, key) == \E i \in DOMAIN t : Key(t[i]) = key
(* The scaffold with the first n sections it does not replace.             *)
PastedTo(f, s, t, n) ==
  /\ f \in Seq(Overlay!ToSet(s) \cup Overlay!ToSet(t))
  /\ \A x \in Overlay!ToSet(f) : x \in Overlay!ToSet(t) \/ \E i \in 1 .. n : x = s[i]
       /\ ~Has(t, Key(s[i]))
  /\ Overlay!ToSet(t) \subseteq Overlay!ToSet(f)
  /\ \A i \in 1 .. n : ~Has(t, Key(s[i])) => s[i] \in Overlay!ToSet(f)
  /\ \A i, j \in DOMAIN f : Key(f[i]) = Key(f[j]) => i = j

(* One section more.                                                       *)
LEMMA PastedSection ==
  ASSUME NEW s, NEW t, NEW f, NEW n \in Nat, n # 0, n \in DOMAIN s, 1 .. n \subseteq DOMAIN s,
         \A i, j \in 1 .. n : Key(s[i]) = Key(s[j]) => i = j,
         PastedTo(f, s, t, n - 1)
  PROVE  PastedTo(IF Has(t, Key(s[n])) THEN f ELSE Append(f, s[n]), s, t, n)
<1>1. /\ n \in 1 .. n /\ n \notin 1 .. n - 1
      /\ \A i \in 1 .. n : i = n \/ i \in 1 .. n - 1
      /\ \A i \in 1 .. n - 1 : i \in 1 .. n
  OBVIOUS
<1>2. CASE Has(t, Key(s[n]))
  BY <1>1, <1>2 DEF PastedTo
<1>3. CASE ~Has(t, Key(s[n]))
  <2> DEFINE S == Overlay!ToSet(s) \cup Overlay!ToSet(t)
             g == Append(f, s[n])
             N == Len(f)
  <2>1. f \in Seq(S) /\ s[n] \in S
    BY DEF PastedTo, Overlay!ToSet
  <2> HIDE DEF S
  <2>2. /\ g \in Seq(S) /\ DOMAIN f = 1 .. N /\ DOMAIN g = 1 .. N + 1 /\ N \in Nat
        /\ g[N + 1] = s[n] /\ \A i \in 1 .. N : g[i] = f[i]
        /\ Overlay!ToSet(g) = Overlay!ToSet(f) \cup {s[n]}
    BY <2>1, Appended
  <2> HIDE DEF g, N
  <2>3. \A x \in Overlay!ToSet(g) : x \in Overlay!ToSet(t) \/ \E i \in 1 .. n : x = s[i]
          /\ ~Has(t, Key(s[i]))
    BY <1>1, <1>3, <2>2 DEF PastedTo
  <2>4. Overlay!ToSet(t) \subseteq Overlay!ToSet(g)
    BY <2>2 DEF PastedTo
  <2>5. \A i \in 1 .. n : ~Has(t, Key(s[i])) => s[i] \in Overlay!ToSet(g)
    BY <1>1, <2>2 DEF PastedTo
  <2>6. ASSUME NEW x \in Overlay!ToSet(f) PROVE Key(x) # Key(s[n])
    <3>1. CASE x \in Overlay!ToSet(t)
      BY <1>3, <3>1 DEF Has, Overlay!ToSet
    <3>2. CASE \E i \in 1 .. n - 1 : x = s[i] /\ ~Has(t, Key(s[i]))
      BY <1>1, <3>2
    <3> QED BY <3>1, <3>2 DEF PastedTo
  <2>7. ASSUME NEW i \in DOMAIN g, NEW j \in DOMAIN g, Key(g[i]) = Key(g[j]) PROVE i = j
    <3>1. \A k \in 1 .. N : f[k] \in Overlay!ToSet(f)
      BY <2>2 DEF Overlay!ToSet
    <3>2. /\ i = N + 1 \/ i \in 1 .. N
          /\ j = N + 1 \/ j \in 1 .. N
      BY <2>2
    <3>3. CASE i \in 1 .. N /\ j \in 1 .. N
      BY <2>2, <2>7, <3>3 DEF PastedTo
    <3>4. CASE i \in 1 .. N /\ j = N + 1
      BY <2>2, <2>6, <2>7, <3>1, <3>4
    <3>5. CASE i = N + 1 /\ j \in 1 .. N
      BY <2>2, <2>6, <2>7, <3>1, <3>5
    <3> QED BY <3>2, <3>3, <3>4, <3>5
  <2>8. PastedTo(g, s, t, n)
    BY <2>2, <2>3, <2>4, <2>5, <2>7 DEF PastedTo, S
  <2> QED BY <1>3, <2>8 DEF g
<1> QED BY <1>2, <1>3

(* The whole file.                                                         *)
LEMMA PastedIs ==
  ASSUME NEW s, NEW t, IsFile(s), IsFile(t), Reads(s), Reads(t)
  PROVE  PastedTo(Overlay!Pasted(s, t), s, t, Len(s))
<1> DEFINE N == Len(s)
<1>1. N \in Nat /\ DOMAIN s = 1 .. N /\ Len(t) \in Nat /\ DOMAIN t = 1 .. Len(t)
  BY LenProperties DEF IsFile, Overlay!IsList
<1>2. PICK f : /\ f[0] = t
               /\ \A n \in 1 .. N : f[n] = IF \E i \in DOMAIN t : t[i][1].key = s[n][1].key
                                          THEN f[n - 1] ELSE Append(f[n - 1], s[n])
               /\ Overlay!Pasted(s, t) = f[N]
  BY <1>1, PastedSteps
<1>3. \A n \in 1 .. N : f[n] = IF Has(t, Key(s[n])) THEN f[n - 1] ELSE Append(f[n - 1], s[n])
  BY <1>2 DEF Has, Key
<1>4. \A i, j \in 1 .. N : Key(s[i]) = Key(s[j]) => i = j
  BY DEF Reads, OneEach
<1>5. \A i, j \in DOMAIN t : Key(t[i]) = Key(t[j]) => i = j
  BY <1>1 DEF Reads, OneEach
<1> DEFINE T == {n \in 0 .. N : PastedTo(f[n], s, t, n)}
<1> HIDE DEF N
<1>6. 0 \in T
  <2>1. t \in Seq(Overlay!ToSet(t))
    BY DEF IsFile, Overlay!IsList
  <2>2. t \in Seq(Overlay!ToSet(s) \cup Overlay!ToSet(t))
    BY <2>1, SeqMonotonic
  <2>3. 1 .. 0 = {}
    OBVIOUS
  <2>4. PastedTo(t, s, t, 0)
    BY <1>5, <2>2, <2>3 DEF PastedTo
  <2> QED BY <1>1, <1>2, <2>4
<1>7. ASSUME NEW n \in 0 + 1 .. N, n - 1 \in T PROVE n \in T
  <2>1. n \in Nat /\ n # 0 /\ n \in 1 .. N /\ n \in 0 .. N /\ n \in DOMAIN s
          /\ 1 .. n \subseteq DOMAIN s
    BY <1>1
  <2>2. \A i, j \in 1 .. n : Key(s[i]) = Key(s[j]) => i = j
    BY <1>1, <1>4, <2>1
  <2>3. PastedTo(f[n - 1], s, t, n - 1)
    BY <1>7
  <2>4. PastedTo(IF Has(t, Key(s[n])) THEN f[n - 1] ELSE Append(f[n - 1], s[n]), s, t, n)
    BY <2>1, <2>2, <2>3, PastedSection
  <2>5. PastedTo(f[n], s, t, n)
    BY <1>3, <2>1, <2>4
  <2> QED BY <2>1, <2>5
<1>8. 0 .. N \subseteq T
  <2> HIDE DEF T
  <2> QED BY <1>1, <1>6, <1>7, Upward
<1>9. N \in T
  BY <1>1, <1>8
<1> QED BY <1>2, <1>9 DEF N

(* The pasted file can be read, and the scaffold has the last word.        *)
LEMMA PastedReads ==
  ASSUME NEW s, NEW t, IsFile(s), IsFile(t), Reads(s), Reads(t), t # <<>>
  PROVE  LET p == Overlay!Pasted(s, t)
             a == Overlay!Read(s).overlay
             b == Overlay!Read(t).overlay
             o == Overlay!Read(p).overlay
         IN /\ IsFile(p) /\ Reads(p) /\ p # <<>>
            /\ DOMAIN o = DOMAIN a \cup DOMAIN b
            /\ \A k \in DOMAIN b : o[k] = b[k]
            /\ \A k \in DOMAIN a \ DOMAIN b : o[k] = a[k]
<1> DEFINE p == Overlay!Pasted(s, t)
           a == Overlay!Read(s).overlay
           b == Overlay!Read(t).overlay
           o == Overlay!Read(p).overlay
<1>1. PastedTo(p, s, t, Len(s))
  BY PastedIs
<1>2. /\ DOMAIN s = 1 .. Len(s) /\ DOMAIN t = 1 .. Len(t)
      /\ \A x \in Overlay!ToSet(s) \cup Overlay!ToSet(t) : Overlay!IsSection(x) /\ ~Own(x).failed
  BY LenProperties DEF IsFile, Overlay!IsList, Reads, EachReads, Overlay!ToSet
<1> HIDE DEF p
<1>3. p \in Seq(Overlay!ToSet(s) \cup Overlay!ToSet(t)) /\ Len(p) \in Nat
        /\ DOMAIN p = 1 .. Len(p)
  <2>1. p \in Seq(Overlay!ToSet(s) \cup Overlay!ToSet(t))
    BY <1>1 DEF PastedTo
  <2> QED BY <2>1, LenProperties
<1>4. \A x \in Overlay!ToSet(p) : Overlay!IsSection(x) /\ ~Own(x).failed
  BY <1>2, <1>3, ElementOfSeq DEF Overlay!ToSet
<1>5. p \in Seq(Overlay!ToSet(p))
  <2>1. p \in [1 .. Len(p) -> Overlay!ToSet(p)]
    <3>1. p \in [1 .. Len(p) -> Overlay!ToSet(s) \cup Overlay!ToSet(t)]
      BY <1>3, LenProperties
    <3>2. \A i \in 1 .. Len(p) : p[i] \in Overlay!ToSet(p)
      BY <1>3 DEF Overlay!ToSet
    <3> QED BY <3>1, <3>2
  <2> QED BY <1>3, <2>1, SeqDef
<1>6. IsFile(p)
  BY <1>4, <1>5 DEF IsFile, Overlay!IsList, Overlay!ToSet
<1>7. Reads(p)
  <2>1. \A i, j \in DOMAIN p : Key(p[i]) = Key(p[j]) => i = j
    BY <1>1 DEF PastedTo
  <2>2. OneEach(p, Len(p))
    BY <1>3, <2>1 DEF OneEach
  <2>3. ASSUME NEW i \in 1 .. Len(p) PROVE ~Own(p[i]).failed
    <3>1. p[i] \in Overlay!ToSet(p)
      BY <1>3 DEF Overlay!ToSet
    <3> QED BY <1>4, <3>1
  <2> QED BY <2>2, <2>3 DEF Reads, EachReads
<1>8. p # <<>>
  <2>1. 1 \in DOMAIN t
    <3>1. Len(t) \in Nat /\ Len(t) # 0
      BY EmptySeq, LenProperties DEF IsFile, Overlay!IsList
    <3> QED BY <1>2, <3>1
  <2>2. t[1] \in Overlay!ToSet(p)
    BY <1>1, <2>1 DEF PastedTo, Overlay!ToSet
  <2> QED BY <2>2 DEF Overlay!ToSet
(* What each section puts into the overlay.                                *)
<1>9. /\ DOMAIN o = {Key(p[i]) : i \in DOMAIN p}
      /\ DOMAIN a = {Key(s[i]) : i \in DOMAIN s}
      /\ DOMAIN b = {Key(t[i]) : i \in DOMAIN t}
  BY <1>6, <1>7, FileReads
<1>10. ASSUME NEW i \in DOMAIN p PROVE o[Key(p[i])] = Own(p[i]).overlay[Key(p[i])]
  BY <1>6, <1>7, ReadsEach
<1>11. ASSUME NEW i \in DOMAIN s PROVE a[Key(s[i])] = Own(s[i]).overlay[Key(s[i])]
  BY ReadsEach
<1>12. ASSUME NEW i \in DOMAIN t PROVE b[Key(t[i])] = Own(t[i]).overlay[Key(t[i])]
  BY ReadsEach
<1> HIDE DEF a, b, o
<1>13. ASSUME NEW k \in DOMAIN b PROVE k \in DOMAIN o /\ o[k] = b[k]
  <2>1. PICK i \in DOMAIN t : Key(t[i]) = k
    BY <1>9
  <2>2. t[i] \in Overlay!ToSet(p)
    BY <1>1 DEF PastedTo, Overlay!ToSet
  <2>3. PICK j \in DOMAIN p : p[j] = t[i]
    BY <2>2 DEF Overlay!ToSet
  <2> QED BY <1>9, <1>10, <1>12, <2>1, <2>3
<1>14. ASSUME NEW k \in DOMAIN a \ DOMAIN b PROVE k \in DOMAIN o /\ o[k] = a[k]
  <2>1. PICK i \in DOMAIN s : Key(s[i]) = k
    BY <1>9
  <2>2. ~Has(t, Key(s[i]))
    BY <1>9, <2>1 DEF Has
  <2>3. s[i] \in Overlay!ToSet(p)
    BY <1>1, <1>2, <2>2 DEF PastedTo
  <2>4. PICK j \in DOMAIN p : p[j] = s[i]
    BY <2>3 DEF Overlay!ToSet
  <2> QED BY <1>9, <1>10, <1>11, <2>1, <2>4
<1>15. ASSUME NEW k \in DOMAIN o PROVE k \in DOMAIN a \cup DOMAIN b
  <2>1. PICK j \in DOMAIN p : Key(p[j]) = k
    BY <1>9
  <2>2. p[j] \in Overlay!ToSet(p)
    BY DEF Overlay!ToSet
  <2>3. p[j] \in Overlay!ToSet(t) \/ \E i \in DOMAIN s : p[j] = s[i]
    BY <1>1, <1>2, <2>2 DEF PastedTo
  <2> QED BY <1>9, <2>1, <2>3 DEF Overlay!ToSet
<1>16. DOMAIN o = DOMAIN a \cup DOMAIN b
  BY <1>13, <1>14, <1>15
<1> QED BY <1>6, <1>7, <1>8, <1>13, <1>14, <1>16 DEF p, a, b, o

(* A sequence that begins with another.                                    *)
HasPrefix(s, t) == Len(t) <= Len(s) /\ \A i \in 1 .. Len(t) : s[i] = t[i]

(* Two sequences, one after the other.                                     *)
LEMMA Joined ==
  ASSUME NEW C, NEW a \in Seq(C), NEW b \in Seq(C)
  PROVE  LET w == a \o b
         IN /\ w \in Seq(C) /\ Len(w) = Len(a) + Len(b) /\ HasPrefix(w, a)
            /\ \A i \in 1 .. Len(b) : w[Len(a) + i] = b[i]
            /\ Overlay!ToSet(w) = Overlay!ToSet(a) \cup Overlay!ToSet(b)
<1> DEFINE w == a \o b
           M == Len(a)
           N == Len(b)
<1>1. M \in Nat /\ N \in Nat /\ DOMAIN a = 1 .. M /\ DOMAIN b = 1 .. N
  BY LenProperties
<1>2. /\ w \in Seq(C) /\ Len(w) = M + N
      /\ \A i \in 1 .. M + N : w[i] = IF i <= M THEN a[i] ELSE b[i - M]
  BY ConcatProperties
<1>3. DOMAIN w = 1 .. M + N
  BY <1>2, LenProperties
<1> HIDE DEF w, M, N
<1>4. \A i \in 1 .. M : i \in 1 .. M + N /\ w[i] = a[i]
  BY <1>1, <1>2
<1>5. ASSUME NEW i \in 1 .. N PROVE M + i \in 1 .. M + N /\ w[M + i] = b[i]
  <2>1. M + i \in 1 .. M + N /\ ~(M + i <= M) /\ (M + i) - M = i
    BY <1>1
  <2> QED BY <1>2, <2>1
<1>6. HasPrefix(w, a)
  BY <1>1, <1>2, <1>4 DEF HasPrefix, M
<1>7. Overlay!ToSet(w) = Overlay!ToSet(a) \cup Overlay!ToSet(b)
  <2>1. ASSUME NEW i \in 1 .. M + N PROVE w[i] \in Overlay!ToSet(a) \cup Overlay!ToSet(b)
    <3>1. CASE i <= M
      <4>1. i \in 1 .. M
        BY <1>1, <3>1
      <4> QED BY <1>1, <1>2, <3>1, <4>1 DEF Overlay!ToSet
    <3>2. CASE ~(i <= M)
      <4>1. i - M \in 1 .. N
        BY <1>1, <3>2
      <4> QED BY <1>1, <1>2, <3>2, <4>1 DEF Overlay!ToSet
    <3> QED BY <3>1, <3>2
  <2>2. \A i \in 1 .. M : a[i] \in Overlay!ToSet(w)
    BY <1>3, <1>4 DEF Overlay!ToSet
  <2>3. \A i \in 1 .. N : b[i] \in Overlay!ToSet(w)
    BY <1>3, <1>5 DEF Overlay!ToSet
  <2> QED BY <1>1, <1>3, <2>1, <2>2, <2>3 DEF Overlay!ToSet
<1> QED BY <1>2, <1>5, <1>6, <1>7 DEF w, M, N

(* What begins a beginning begins the whole.                               *)
LEMMA PrefixOfPrefix ==
  ASSUME NEW C, NEW a \in Seq(C), NEW b \in Seq(C), NEW c \in Seq(C), HasPrefix(b, a),
           HasPrefix(c, b)
  PROVE  HasPrefix(c, a)
BY LenProperties DEF HasPrefix

(* The elements a sequence begins with.                                    *)
LEMMA FirstElements ==
  ASSUME NEW C, NEW u \in Seq(C), NEW m \in 0 .. Len(u)
  PROVE  /\ SubSeq(u, 1, m) \in Seq(C) /\ Len(SubSeq(u, 1, m)) = m
         /\ \A i \in 1 .. m : SubSeq(u, 1, m)[i] = u[i]
         /\ Overlay!ToSet(SubSeq(u, 1, m)) = {u[i] : i \in 1 .. m}
<1> DEFINE b == SubSeq(u, 1, m)
<1>1. Len(u) \in Nat /\ DOMAIN u = 1 .. Len(u)
  BY LenProperties
<1>2. \A i \in 1 .. m : u[i] \in C
  BY <1>1, ElementOfSeq
<1>3. b \in Seq(C) /\ Len(b) = IF 1 <= m THEN m - 1 + 1 ELSE 0
  BY <1>1, <1>2, SubSeqProperties
<1>4. \A i \in 1 .. m - 1 + 1 : b[i] = u[1 + i - 1]
  BY <1>1, <1>2, SubSeqProperties
<1> HIDE DEF b
<1>5. Len(b) = m
  BY <1>1, <1>3
<1>6. ASSUME NEW i \in 1 .. m PROVE b[i] = u[i]
  <2>1. i \in 1 .. m - 1 + 1 /\ 1 + i - 1 = i
    BY <1>1
  <2> QED BY <1>4, <2>1
<1>7. DOMAIN b = 1 .. m
  BY <1>3, <1>5, LenProperties
<1>8. Overlay!ToSet(b) = {u[i] : i \in 1 .. m}
  BY <1>6, <1>7 DEF Overlay!ToSet
<1> QED BY <1>3, <1>5, <1>6, <1>8 DEF b

(* One step of uniqueStable.                                               *)
More(seen, e) == IF e \in Overlay!ToSet(seen) THEN seen ELSE Append(seen, e)

(* Going through a beginning of an injective sequence again adds nothing.  *)
LEMMA OneMore ==
  ASSUME NEW C, NEW u \in Seq(C), \A i, j \in 1 .. Len(u) : u[i] = u[j] => i = j,
         NEW m \in 0 .. Len(u), NEW j \in 1 .. Len(u), j <= m + 1
  PROVE  More(SubSeq(u, 1, m), u[j]) = SubSeq(u, 1, IF j <= m THEN m ELSE m + 1)
<1>1. Len(u) \in Nat
  BY LenProperties
<1>2. Overlay!ToSet(SubSeq(u, 1, m)) = {u[i] : i \in 1 .. m}
  BY FirstElements
<1>3. CASE j <= m
  <2>1. j \in 1 .. m
    BY <1>1, <1>3
  <2>2. u[j] \in Overlay!ToSet(SubSeq(u, 1, m))
    BY <1>2, <2>1
  <2> QED BY <1>3, <2>2 DEF More
<1>4. CASE ~(j <= m)
  <2>1. j = m + 1 /\ m + 1 \in 1 .. Len(u) /\ 1 \in 1 .. Len(u) /\ (m + 1) - 1 = m
    BY <1>1, <1>4
  <2>2. u[j] \notin Overlay!ToSet(SubSeq(u, 1, m))
    <3>1. \A i \in 1 .. m : i \in 1 .. Len(u) /\ i # j
      BY <1>1, <2>1
    <3> QED BY <1>2, <3>1
  <2>3. SubSeq(u, 1, m + 1) = SubSeq(u, 1, (m + 1) - 1) \o <<u[m + 1]>>
    <3>1. m + 1 \in 1 .. Len(u)
      BY <2>1
    <3> QED BY <2>1, SubSeqRecursiveSecond
  <2>4. SubSeq(u, 1, m) \in Seq(C) /\ u[j] \in C
    BY FirstElements, ElementOfSeq
  <2>5. Append(SubSeq(u, 1, m), u[j]) = SubSeq(u, 1, m) \o <<u[j]>>
    BY <2>4, AppendIsConcat
  <2> QED BY <1>4, <2>1, <2>2, <2>3, <2>5 DEF More
<1> QED BY <1>3, <1>4

(* uniqueStable keeps every element, once.                                 *)
LEMMA UniqueIs ==
  ASSUME NEW C, NEW s \in Seq(C)
  PROVE  LET u == Overlay!Unique(s)
         IN /\ u \in Seq(C) /\ Overlay!IsInjective(u)
            /\ Overlay!ToSet(u) = Overlay!ToSet(s)
<1> DEFINE N == Len(s)
<1>1. N \in Nat /\ DOMAIN s = 1 .. N
  BY LenProperties
<1>2. PICK f : /\ f[0] = <<>>
               /\ \A n \in 1 .. N : f[n] = IF s[n] \in Overlay!ToSet(f[n - 1]) THEN f[n - 1]
                    ELSE Append(f[n - 1], s[n])
               /\ Overlay!Unique(s) = f[N]
  BY <1>1, UniqueSteps
<1> DEFINE Done(g, n) == /\ g \in Seq(C) /\ Overlay!IsInjective(g)
                         /\ Overlay!ToSet(g) = {s[i] : i \in 1 .. n}
           T == {n \in 0 .. N : Done(f[n], n)}
<1> HIDE DEF N
<1>3. 0 \in T
  <2>1. 1 .. 0 = {} /\ <<>> \in Seq(C) /\ DOMAIN <<>> = {}
    BY EmptySeq
  <2>2. Done(<<>>, 0)
    BY <2>1 DEF Overlay!IsInjective, Overlay!ToSet
  <2> HIDE DEF Done
  <2> QED BY <1>1, <1>2, <2>2
<1>4. ASSUME NEW n \in 0 + 1 .. N, n - 1 \in T PROVE n \in T
  <2> DEFINE g == f[n - 1]
  <2>1. n \in 1 .. N /\ n \in 0 .. N /\ n \in Nat /\ 1 .. n = (1 .. n - 1) \cup {n} /\ s[n] \in C
    <3>1. n \in 1 .. N /\ n \in 0 .. N /\ n \in Nat /\ 1 .. n = (1 .. n - 1) \cup {n}
      BY <1>1
    <3> QED BY <3>1, ElementOfSeq DEF N
  <2>2. Done(g, n - 1)
    BY <1>4
  <2>3. f[n] = IF s[n] \in Overlay!ToSet(g) THEN g ELSE Append(g, s[n])
    BY <1>2, <2>1
  <2> HIDE DEF g
  <2>4. CASE s[n] \in Overlay!ToSet(g)
    <3>1. Done(g, n)
      BY <2>1, <2>2, <2>4
    <3> QED BY <2>1, <2>3, <2>4, <3>1
  <2>5. CASE s[n] \notin Overlay!ToSet(g)
    <3> DEFINE h == Append(g, s[n])
               M == Len(g)
    <3>1. /\ h \in Seq(C) /\ DOMAIN g = 1 .. M /\ DOMAIN h = 1 .. M + 1 /\ M \in Nat
          /\ h[M + 1] = s[n] /\ \A i \in 1 .. M : h[i] = g[i]
          /\ Overlay!ToSet(h) = Overlay!ToSet(g) \cup {s[n]}
      BY <2>1, <2>2, Appended
    <3> HIDE DEF h, M
    <3>2. Overlay!IsInjective(h)
      <4>1. \A i \in 1 .. M : h[i] # s[n]
        BY <2>5, <3>1 DEF Overlay!ToSet
      <4>2. \A i, j \in 1 .. M : h[i] = h[j] => i = j
        BY <2>2, <3>1 DEF Overlay!IsInjective
      <4>3. \A i \in 1 .. M + 1 : i = M + 1 \/ i \in 1 .. M
        BY <3>1
      <4> QED BY <3>1, <4>1, <4>2, <4>3 DEF Overlay!IsInjective
    <3>3. Overlay!ToSet(h) = {s[i] : i \in 1 .. n}
      BY <2>1, <2>2, <3>1
    <3>4. Done(h, n)
      BY <3>1, <3>2, <3>3
    <3> HIDE DEF Done
    <3>5. f[n] = h
      BY <2>3, <2>5 DEF h
    <3> QED BY <2>1, <3>4, <3>5
  <2> QED BY <2>4, <2>5
<1>5. 0 .. N \subseteq T
  <2> HIDE DEF T
  <2> QED BY <1>1, <1>3, <1>4, Upward
<1>6. N \in T
  <2> HIDE DEF T
  <2> QED BY <1>1, <1>5
<1>7. /\ f[N] \in Seq(C) /\ Overlay!IsInjective(f[N])
      /\ Overlay!ToSet(f[N]) = {s[i] : i \in 1 .. N}
  BY <1>6
<1>8. Overlay!ToSet(s) = {s[i] : i \in 1 .. N}
  BY <1>1 DEF Overlay!ToSet
<1> HIDE DEF Done, T
<1>9. Overlay!Unique(s) = f[N]
  BY <1>2
<1> QED BY <1>7, <1>8, <1>9

(* What is unique at the beginning stays at the beginning.                 *)
LEMMA UniqueBegins ==
  ASSUME NEW C, NEW s \in Seq(C), NEW start \in Seq(C), HasPrefix(s, start),
         \A i, j \in 1 .. Len(start) : start[i] = start[j] => i = j
  PROVE  HasPrefix(Overlay!Unique(s), start)
<1> DEFINE N == Len(s)
           B == Len(start)
<1>1. N \in Nat /\ DOMAIN s = 1 .. N /\ B \in Nat /\ B <= N
  BY LenProperties DEF HasPrefix
<1>2. PICK f : /\ f[0] = <<>>
               /\ \A n \in 1 .. N : f[n] = IF s[n] \in Overlay!ToSet(f[n - 1]) THEN f[n - 1]
                    ELSE Append(f[n - 1], s[n])
               /\ Overlay!Unique(s) = f[N]
  BY <1>1, UniqueSteps
<1>3. \A n \in 1 .. N : f[n] = More(f[n - 1], s[n])
  BY <1>2 DEF More
<1>4. \A n \in 1 .. B : s[n] = start[n]
  BY DEF HasPrefix
<1> DEFINE T == {n \in 0 .. B : f[n] = SubSeq(start, 1, n)}
           Past == {n \in B .. N : f[n] \in Seq(C) /\ HasPrefix(f[n], start)}
<1> HIDE DEF N
<1>5. 0 \in T
  <2>1. SubSeq(start, 1, 0) = <<>>
    BY SubSeqEmpty
  <2>2. 0 \in 0 .. B
    BY <1>1
  <2> QED BY <1>2, <2>1, <2>2
<1>6. ASSUME NEW n \in 0 + 1 .. B, n - 1 \in T PROVE n \in T
  <2>1. n \in 1 .. N /\ n \in 1 .. B /\ n - 1 \in 0 .. B /\ n <= (n - 1) + 1 /\ ~(n <= n - 1)
          /\ (n - 1) + 1 = n
    BY <1>1
  <2>2. f[n] = More(SubSeq(start, 1, n - 1), start[n])
    BY <1>3, <1>4, <1>6, <2>1
  <2>3. f[n] = SubSeq(start, 1, IF n <= n - 1 THEN n - 1 ELSE (n - 1) + 1)
    BY <2>1, <2>2, OneMore
  <2> QED BY <2>1, <2>3
<1>7. 0 .. B \subseteq T
  <2> HIDE DEF T, B
  <2> QED BY <1>1, <1>5, <1>6, Upward
<1>8. B \in Past
  <2>1. B \in T
    BY <1>1, <1>7
  <2>2. f[B] = start
    BY <2>1, SubSeqFull
  <2> QED BY <1>1, <2>2 DEF HasPrefix
<1>9. ASSUME NEW n \in B + 1 .. N, n - 1 \in Past PROVE n \in Past
  <2>1. n \in 1 .. N /\ n \in B .. N /\ s[n] \in C
    <3>1. n \in 1 .. N /\ n \in B .. N
      BY <1>1
    <3> QED BY <3>1, ElementOfSeq DEF N
  <2> DEFINE g == f[n - 1]
  <2>2. g \in Seq(C) /\ HasPrefix(g, start) /\ f[n] = More(g, s[n])
    BY <1>3, <1>9, <2>1
  <2> HIDE DEF g
  <2>3. Append(g, s[n]) \in Seq(C) /\ HasPrefix(Append(g, s[n]), start)
    <3>1. /\ Append(g, s[n]) \in Seq(C) /\ Len(Append(g, s[n])) = Len(g) + 1
          /\ \A i \in 1 .. Len(g) : Append(g, s[n])[i] = g[i]
      BY <2>1, <2>2, AppendProperties
    <3>2. Len(g) \in Nat
      BY <2>2, LenProperties
    <3> QED BY <1>1, <2>2, <3>1, <3>2 DEF HasPrefix
  <2> QED BY <2>1, <2>2, <2>3 DEF More
<1>10. B .. N \subseteq Past
  <2> HIDE DEF Past, B
  <2> QED BY <1>1, <1>8, <1>9, Upward
<1>11. N \in Past
  BY <1>1, <1>10
<1> QED BY <1>2, <1>11

(* A unique sequence stays what it is when it is appended to what it       *)
(* begins with.                                                            *)
LEMMA UniqueAgain ==
  ASSUME NEW C, NEW s \in Seq(C), NEW start \in Seq(C), NEW u \in Seq(C),
         \A i, j \in 1 .. Len(u) : u[i] = u[j] => i = j,
         HasPrefix(u, start), HasPrefix(s, start \o u),
           Overlay!ToSet(s) \subseteq Overlay!ToSet(u)
  PROVE  Overlay!Unique(s) = u
<1> DEFINE N == Len(s)
           B == Len(start)
           U == Len(u)
           w == start \o u
           H(n) == IF n <= B THEN n ELSE IF n <= B + B THEN B ELSE IF n <= B + U THEN n - B ELSE U
<1>1. N \in Nat /\ DOMAIN s = 1 .. N /\ B \in Nat /\ U \in Nat /\ DOMAIN u = 1 .. U /\ B <= U
  BY LenProperties DEF HasPrefix
<1>2. PICK f : /\ f[0] = <<>>
               /\ \A n \in 1 .. N : f[n] = IF s[n] \in Overlay!ToSet(f[n - 1]) THEN f[n - 1]
                    ELSE Append(f[n - 1], s[n])
               /\ Overlay!Unique(s) = f[N]
  BY <1>1, UniqueSteps
<1>3. \A n \in 1 .. N : f[n] = More(f[n - 1], s[n])
  BY <1>2 DEF More
<1>4. Len(w) = B + U /\ HasPrefix(w, start) /\ \A i \in 1 .. U : w[B + i] = u[i]
  BY Joined
<1> HIDE DEF w
<1>5. B + U <= N /\ \A i \in 1 .. B + U : s[i] = w[i]
  BY <1>4 DEF HasPrefix, w
<1>6. \A i \in 1 .. B : w[i] = start[i] /\ u[i] = start[i]
  BY <1>4 DEF HasPrefix
<1> HIDE DEF N, B, U
<1>7. ASSUME NEW n \in 1 .. N
      PROVE  \E j \in 1 .. U : /\ s[n] = u[j] /\ j <= H(n - 1) + 1
                               /\ H(n) = IF j <= H(n - 1) THEN H(n - 1) ELSE H(n - 1) + 1
  <2>1. CASE n <= B
    <3>1. n \in 1 .. B /\ n \in 1 .. U /\ n \in 1 .. B + U /\ H(n - 1) = n - 1 /\ H(n) = n
      BY <1>1, <2>1
    <3>2. s[n] = u[n]
      BY <1>5, <1>6, <3>1
    <3>3. n <= (n - 1) + 1 /\ ~(n <= n - 1) /\ n = (n - 1) + 1
      BY <1>1
    <3> HIDE DEF H
    <3> QED BY <3>1, <3>2, <3>3
  <2>2. CASE n > B /\ n <= B + B
    <3>1. n - B \in 1 .. U /\ n \in 1 .. B + U /\ B + (n - B) = n /\ H(n - 1) = B /\ H(n) = B
            /\ n - B <= B
      BY <1>1, <2>2
    <3>2. s[n] = u[n - B]
      BY <1>4, <1>5, <3>1
    <3>3. n - B <= B + 1
      BY <1>1, <3>1
    <3> HIDE DEF H
    <3> QED BY <3>1, <3>2, <3>3
  <2>3. CASE n > B + B /\ n <= B + U
    <3>1. /\ n - B \in 1 .. U /\ n \in 1 .. B + U /\ B + (n - B) = n
          /\ H(n - 1) = (n - B) - 1 /\ H(n) = n - B
      BY <1>1, <2>3
    <3>2. s[n] = u[n - B]
      BY <1>4, <1>5, <3>1
    <3>3. n - B <= ((n - B) - 1) + 1 /\ ~(n - B <= (n - B) - 1) /\ n - B = ((n - B) - 1) + 1
      BY <1>1
    <3> HIDE DEF H
    <3> QED BY <3>1, <3>2, <3>3
  <2>4. CASE n > B + U
    <3>1. H(n - 1) = U /\ H(n) = U
      BY <1>1, <2>4
    <3>2. s[n] \in Overlay!ToSet(u)
      BY <1>1 DEF Overlay!ToSet
    <3>3. PICK j \in 1 .. U : s[n] = u[j]
      BY <1>1, <3>2 DEF Overlay!ToSet
    <3>4. j <= U /\ j <= U + 1
      BY <1>1
    <3> HIDE DEF H
    <3> QED BY <3>1, <3>3, <3>4
  <2> QED BY <1>1, <2>1, <2>2, <2>3, <2>4
<1>8. \A n \in 0 .. N : H(n) \in 0 .. U
  BY <1>1
<1> DEFINE T == {n \in 0 .. N : f[n] = SubSeq(u, 1, H(n))}
<1>9. 0 \in T
  <2>1. SubSeq(u, 1, 0) = <<>>
    BY SubSeqEmpty
  <2>2. H(0) = 0
    BY <1>1
  <2> HIDE DEF H
  <2>3. 0 \in 0 .. N
    BY <1>1
  <2> QED BY <1>2, <2>1, <2>2, <2>3
<1>10. H(N) = U
  BY <1>1, <1>5
<1> HIDE DEF H
<1>11. ASSUME NEW n \in 0 + 1 .. N, n - 1 \in T PROVE n \in T
  <2>1. n \in 1 .. N /\ n \in 0 .. N /\ n - 1 \in 0 .. N
    BY <1>1
  <2>2. PICK j \in 1 .. U : /\ s[n] = u[j] /\ j <= H(n - 1) + 1
                            /\ H(n) = IF j <= H(n - 1) THEN H(n - 1) ELSE H(n - 1) + 1
    BY <1>7, <2>1
  <2>3. f[n] = More(SubSeq(u, 1, H(n - 1)), u[j])
    BY <1>3, <1>11, <2>1, <2>2
  <2>4. H(n - 1) \in 0 .. U
    BY <1>8, <2>1
  <2>5. f[n] = SubSeq(u, 1, IF j <= H(n - 1) THEN H(n - 1) ELSE H(n - 1) + 1)
    BY <2>2, <2>3, <2>4, OneMore DEF U
  <2> QED BY <2>1, <2>2, <2>5
<1>12. 0 .. N \subseteq T
  <2> HIDE DEF T
  <2> QED BY <1>1, <1>9, <1>11, Upward
<1>13. f[N] = SubSeq(u, 1, U)
  <2>1. N \in T
    BY <1>1, <1>12
  <2> QED BY <1>10, <2>1
<1>14. SubSeq(u, 1, U) = u
  BY SubSeqFull DEF U
<1> QED BY <1>2, <1>13, <1>14

(* What a scope begins with and what is in it.                             *)
LEMMA Grown ==
  ASSUME NEW C, NEW start \in Seq(C), Overlay!IsInjective(start), NEW s \in Seq(C),
           HasPrefix(s, start),
         NEW again \in Seq(C), HasPrefix(again, start \o Overlay!Unique(s)),
         Overlay!ToSet(again) \subseteq Overlay!ToSet(s)
  PROVE  Overlay!Unique(again) = Overlay!Unique(s)
<1> DEFINE u == Overlay!Unique(s)
<1>1. u \in Seq(C) /\ Overlay!IsInjective(u) /\ Overlay!ToSet(u) = Overlay!ToSet(s)
  BY UniqueIs
<1>2. \A i, j \in 1 .. Len(start) : start[i] = start[j] => i = j
  BY LenProperties DEF Overlay!IsInjective
<1>3. HasPrefix(u, start)
  BY <1>2, UniqueBegins
<1> HIDE DEF u
<1>4. \A i, j \in 1 .. Len(u) : u[i] = u[j] => i = j
  BY <1>1, LenProperties DEF Overlay!IsInjective
<1>5. HasPrefix(again, start \o u)
  BY DEF u
<1>6. Overlay!Unique(again) = u
  BY <1>1, <1>3, <1>4, <1>5, UniqueAgain
<1> QED BY <1>6 DEF u

(* What is unique stays.                                                   *)
LEMMA UniqueOfUnique ==
  ASSUME NEW C, NEW start \in Seq(C), Overlay!IsInjective(start)
  PROVE  Overlay!Unique(start) = start
<1>1. <<>> \in Seq(C) /\ <<>> \o start = start /\ Len(<<>>) = 0
  BY EmptySeq, ConcatEmptySeq
<1>2. \A i, j \in 1 .. Len(start) : start[i] = start[j] => i = j
  BY LenProperties DEF Overlay!IsInjective
<1>3. HasPrefix(start, <<>>) /\ HasPrefix(start, <<>> \o start)
  BY <1>1, LenProperties DEF HasPrefix
<1> QED BY <1>1, <1>2, <1>3, UniqueAgain

(* What a merged profile is.                                               *)
MergedFrom(merged, fields, o) ==
  /\ DOMAIN merged = Overlay!ScopeFields \cup Overlay!Kept(fields, o)
  /\ merged = [f \in Overlay!ScopeFields \cup Overlay!Kept(fields, o) |-> merged[f]]
  /\ merged["include"] = Overlay!Unique(fields["include"] \o Overlay!ListOf(o, "include"))
  /\ merged["exclude"] =
       Overlay!Unique(fields["exclude"] \o Overlay!ListOf(o, "exclude")
         \o Overlay!ListOf(o, "archivePatterns")
                        \o Overlay!ListOf(o, "legacyPatterns")
                          \o Overlay!ListOf(o, "generatedPatterns"))
  /\ \A f \in Overlay!Kept(fields, o) : merged[f] = IF f \in DOMAIN o THEN o[f] ELSE fields[f]

(* What a profile and an overlay make, field by field.                     *)
LEMMA MergedIs ==
  ASSUME NEW fields, NEW o
  PROVE  MergedFrom(Overlay!Merged(fields, o), fields, o)
<1>1. "include" \in Overlay!ScopeFields /\ "exclude" \in Overlay!ScopeFields
  BY DEF Overlay!ScopeFields
<1>2. \A f \in Overlay!Kept(fields, o) : f # "include" /\ f # "exclude"
  BY DEF Overlay!Kept, Overlay!ScopeFields
<1> QED BY <1>1, <1>2 DEF Overlay!Merged, MergedFrom

(* An overlay whose fields are lists of texts.                             *)
Lists(o) == \A f \in DOMAIN o \cap Overlay!ListFields : o[f] \in Seq(Overlay!Text)

(* A field it does not have is an empty list.                              *)
LEMMA ListOfIs ==
  ASSUME NEW o, Lists(o), NEW f \in Overlay!ListFields
  PROVE  Overlay!ListOf(o, f) \in Seq(Overlay!Text)
BY EmptySeq DEF Lists, Overlay!ListOf

(* Five lists in a row.                                                    *)
LEMMA FiveJoined ==
  ASSUME NEW C, NEW a \in Seq(C), NEW b \in Seq(C), NEW c \in Seq(C), NEW d \in Seq(C),
         NEW e \in Seq(C)
  PROVE  LET w == a \o b \o c \o d \o e
         IN /\ w \in Seq(C) /\ HasPrefix(w, a) /\ HasPrefix(w, a \o b)
            /\ Overlay!ToSet(w) = Overlay!ToSet(a) \cup Overlay!ToSet(b) \cup Overlay!ToSet(c)
                                    \cup Overlay!ToSet(d) \cup Overlay!ToSet(e)
<1> DEFINE x == a \o b
           y == x \o c
           z == y \o d
           w == z \o e
<1>1. x \in Seq(C) /\ HasPrefix(x, a) /\ Overlay!ToSet(x) = Overlay!ToSet(a) \cup Overlay!ToSet(b)
  BY Joined
<1> HIDE DEF x
<1>2. y \in Seq(C) /\ HasPrefix(y, x) /\ Overlay!ToSet(y) = Overlay!ToSet(x) \cup Overlay!ToSet(c)
  BY <1>1, Joined
<1> HIDE DEF y
<1>3. z \in Seq(C) /\ HasPrefix(z, y) /\ Overlay!ToSet(z) = Overlay!ToSet(y) \cup Overlay!ToSet(d)
  BY <1>2, Joined
<1> HIDE DEF z
<1>4. w \in Seq(C) /\ HasPrefix(w, z) /\ Overlay!ToSet(w) = Overlay!ToSet(z) \cup Overlay!ToSet(e)
  BY <1>3, Joined
<1> HIDE DEF w
<1>5. HasPrefix(z, x)
  BY <1>1, <1>2, <1>3, PrefixOfPrefix
<1>6. HasPrefix(w, x)
  BY <1>1, <1>3, <1>4, <1>5, PrefixOfPrefix
<1>7. HasPrefix(w, a)
  BY <1>1, <1>4, <1>6, PrefixOfPrefix
<1>8. Overlay!ToSet(w) = Overlay!ToSet(a) \cup Overlay!ToSet(b) \cup Overlay!ToSet(c)
                           \cup Overlay!ToSet(d) \cup Overlay!ToSet(e)
  BY <1>1, <1>2, <1>3, <1>4
<1> QED BY <1>4, <1>6, <1>7, <1>8 DEF x, y, z, w

(* What a profile is.                                                      *)
FieldsOfProfile(fields) ==
  /\ fields = [f \in DOMAIN fields |-> fields[f]]
  /\ Overlay!ScopeFields \subseteq DOMAIN fields
  /\ DOMAIN fields
       \subseteq Overlay!ScopeFields \cup Overlay!ReplacedFields \cup Overlay!RecipeFields
  /\ \A f \in DOMAIN fields :
       /\ fields[f] \in Seq(Overlay!Text) /\ Overlay!IsInjective(fields[f])
       /\ \A i \in DOMAIN fields[f] : Overlay!Trim(fields[f][i]) # <<>>

(* What is assumed of a profile.                                           *)
LEMMA ProfileIs ==
  ASSUME NEW profile, Overlay!IsProfile(profile)
  PROVE  /\ profile = [id |-> profile.id, fields |-> profile.fields]
         /\ DOMAIN profile = {"id", "fields"}
         /\ FieldsOfProfile(profile.fields)
<1>1. profile = [id |-> profile.id, fields |-> profile.fields]
  BY DEF Overlay!IsProfile
<1>2. DOMAIN profile = {"id", "fields"}
  BY <1>1
<1> DEFINE fields == profile.fields
<1>3. fields \in [DOMAIN fields -> Seq(Overlay!Text)] /\ \A f \in DOMAIN fields :
        Overlay!IsStringArray(fields[f])
  BY DEF Overlay!IsProfile
<1>4. /\ Overlay!ScopeFields \subseteq DOMAIN fields
      /\ DOMAIN fields
           \subseteq Overlay!ScopeFields \cup Overlay!ReplacedFields \cup Overlay!RecipeFields
  BY DEF Overlay!IsProfile
<1> HIDE DEF fields
<1>5. fields = [f \in DOMAIN fields |-> fields[f]]
  BY <1>3
<1>6. \A f \in DOMAIN fields :
        /\ fields[f] \in Seq(Overlay!Text) /\ Overlay!IsInjective(fields[f])
        /\ \A i \in DOMAIN fields[f] : Overlay!Trim(fields[f][i]) # <<>>
  BY <1>3 DEF Overlay!IsStringArray
<1>7. FieldsOfProfile(fields)
  BY <1>4, <1>5, <1>6 DEF FieldsOfProfile
<1> QED BY <1>1, <1>2, <1>7 DEF fields

(* Nothing merged into a profile leaves it.                                *)
LEMMA MergedNothing ==
  ASSUME NEW profile, Overlay!IsProfile(profile)
  PROVE  Overlay!Merged(profile.fields, <<>>) = profile.fields
<1> DEFINE fields == profile.fields
           merged == Overlay!Merged(fields, <<>>)
<1>1. /\ fields = [f \in DOMAIN fields |-> fields[f]]
      /\ Overlay!ScopeFields \subseteq DOMAIN fields
      /\ \A f \in DOMAIN fields : fields[f] \in Seq(Overlay!Text)
           /\ Overlay!IsInjective(fields[f])
  BY ProfileIs DEF FieldsOfProfile
<1>0. MergedFrom(merged, fields, <<>>)
  BY MergedIs
<1>2. /\ DOMAIN merged = Overlay!ScopeFields \cup Overlay!Kept(fields, <<>>)
      /\ merged = [f \in Overlay!ScopeFields \cup Overlay!Kept(fields, <<>>) |-> merged[f]]
      /\ merged["include"] = Overlay!Unique(fields["include"] \o Overlay!ListOf(<<>>, "include"))
      /\ merged["exclude"] =
           Overlay!Unique(fields["exclude"] \o Overlay!ListOf(<<>>, "exclude")
             \o Overlay!ListOf(<<>>, "archivePatterns")
                            \o Overlay!ListOf(<<>>, "legacyPatterns")
                              \o Overlay!ListOf(<<>>, "generatedPatterns"))
      /\ \A f \in Overlay!Kept(fields, <<>>) : merged[f] = IF f \in DOMAIN <<>> THEN <<>>[f]
           ELSE fields[f]
  BY <1>0 DEF MergedFrom
<1> HIDE DEF fields, merged
<1>3. \A f : Overlay!ListOf(<<>>, f) = <<>>
  BY DEF Overlay!ListOf
<1>4. \A s \in Seq(Overlay!Text) : s \o <<>> = s
  BY ConcatEmptySeq
<1>5. "include" \in DOMAIN fields /\ "exclude" \in DOMAIN fields
  BY <1>1 DEF Overlay!ScopeFields
<1>6. merged["include"] = fields["include"] /\ merged["exclude"] = fields["exclude"]
  <2>1. merged["include"] = Overlay!Unique(fields["include"])
          /\ merged["exclude"] = Overlay!Unique(fields["exclude"])
    <3>1. fields["include"] \in Seq(Overlay!Text) /\ fields["exclude"] \in Seq(Overlay!Text)
      BY <1>1, <1>5
    <3>2. fields["include"] \o Overlay!ListOf(<<>>, "include") = fields["include"]
      BY <1>3, <1>4, <3>1
    <3>3. fields["exclude"] \o Overlay!ListOf(<<>>, "exclude")
            \o Overlay!ListOf(<<>>, "archivePatterns")
            \o Overlay!ListOf(<<>>, "legacyPatterns")
              \o Overlay!ListOf(<<>>, "generatedPatterns") = fields["exclude"]
      <4>1. /\ Overlay!ListOf(<<>>, "exclude") = <<>>
                 /\ Overlay!ListOf(<<>>, "archivePatterns") = <<>>
            /\ Overlay!ListOf(<<>>, "legacyPatterns") = <<>>
                 /\ Overlay!ListOf(<<>>, "generatedPatterns") = <<>>
        BY <1>3
      <4>2. fields["exclude"] \o <<>> = fields["exclude"]
        BY <1>4, <3>1
      <4> QED BY <4>1, <4>2
    <3> QED BY <1>2, <3>2, <3>3
  <2> QED BY <1>1, <1>5, <2>1, UniqueOfUnique
<1>7. Overlay!Kept(fields, <<>>) = DOMAIN fields \ Overlay!ScopeFields
  BY DEF Overlay!Kept
<1>8. \A f \in Overlay!ScopeFields : f = "include" \/ f = "exclude"
  BY DEF Overlay!ScopeFields
<1>9. \A f \in DOMAIN fields : merged[f] = fields[f]
  BY <1>2, <1>6, <1>7, <1>8
<1>10. Overlay!ScopeFields \cup Overlay!Kept(fields, <<>>) = DOMAIN fields
  BY <1>1, <1>7
<1>11. merged = fields
  BY <1>1, <1>2, <1>9, <1>10
<1> QED BY <1>11 DEF fields, merged

(* No file reads as no overlay.                                            *)
LEMMA NothingRead == Overlay!Read(<<>>).overlay = <<>> /\ Reads(<<>>) /\ IsFile(<<>>)
<1>1. Len(<<>>) = 0 /\ DOMAIN <<>> = {} /\ 1 .. 0 = {} /\ <<>> \in Seq(Overlay!ToSet(<<>>))
  BY EmptySeq
<1>2. PICK f : /\ f[0] = Overlay!Reading(<<>>, None, FALSE)
               /\ \A n \in 1 .. Len(<<>>) : f[n] = Overlay!ReadSection(f[n - 1], <<>>[n])
               /\ Overlay!Read(<<>>) = f[Len(<<>>)]
  BY <1>1, FileSteps
<1>3. Overlay!Read(<<>>).overlay = <<>>
  BY <1>1, <1>2 DEF Overlay!Reading
<1> QED BY <1>1, <1>3 DEF Reads, OneEach, EachReads, IsFile, Overlay!IsList

(* The effective profile, with or without a file.                          *)
LEMMA EffectiveIs ==
  ASSUME NEW profile, Overlay!IsProfile(profile), NEW sections
  PROVE  Overlay!Effective(profile, sections)
           = [id |-> profile.id,
             fields |-> Overlay!Merged(profile.fields, Overlay!Read(sections).overlay)]
<1>1. profile = [id |-> profile.id, fields |-> profile.fields]
  BY ProfileIs
<1>2. CASE sections = <<>>
  BY <1>1, <1>2, NothingRead, MergedNothing DEF Overlay!Effective
<1>3. CASE sections # <<>>
  <2> DEFINE merged == Overlay!Merged(profile.fields, Overlay!Read(sections).overlay)
  <2>1. Overlay!Effective(profile, sections) = [profile EXCEPT !.fields = merged]
    BY <1>3 DEF Overlay!Effective
  <2> HIDE DEF merged
  <2>2. [profile EXCEPT !.fields = merged] = [id |-> profile.id, fields |-> merged]
    BY <1>1
  <2> QED BY <2>1, <2>2 DEF merged
<1> QED BY <1>2, <1>3

(* An overlay into which values of the profile were written.               *)
LEMMA MergedAgain ==
  ASSUME NEW profile, Overlay!IsProfile(profile), NEW o, Lists(o), NEW again, NEW F,
           F \subseteq Overlay!ListFields,
         F \cap {"archivePatterns", "legacyPatterns", "generatedPatterns"} = {},
         F \subseteq Overlay!BoundaryFields \cup DOMAIN Overlay!Merged(profile.fields, o),
         DOMAIN again = DOMAIN o \cup Overlay!ScalarFields \cup F,
         \A f \in F \ Overlay!BoundaryFields : again[f] = Overlay!Merged(profile.fields, o)[f],
         \A f \in DOMAIN o \ (Overlay!ScalarFields \cup F) : again[f] = o[f]
  PROVE  Overlay!Merged(profile.fields, again) = Overlay!Merged(profile.fields, o)
<1> DEFINE fields == profile.fields
           E == Overlay!Merged(fields, o)
           A == Overlay!Merged(fields, again)
           K == Overlay!Kept(fields, o)
           R == Overlay!RecipeFields \cup Overlay!ReplacedFields
           C == Overlay!Text
<1>1. /\ Overlay!ScopeFields \subseteq DOMAIN fields
      /\ DOMAIN fields \subseteq Overlay!ScopeFields \cup R
      /\ \A f \in DOMAIN fields : fields[f] \in Seq(C) /\ Overlay!IsInjective(fields[f])
  BY ProfileIs DEF FieldsOfProfile
<1>0. MergedFrom(E, fields, o)
  BY MergedIs
<1>2. /\ DOMAIN E = Overlay!ScopeFields \cup K
      /\ E = [f \in Overlay!ScopeFields \cup K |-> E[f]]
      /\ E["include"] = Overlay!Unique(fields["include"] \o Overlay!ListOf(o, "include"))
      /\ E["exclude"] =
           Overlay!Unique(fields["exclude"] \o Overlay!ListOf(o, "exclude")
             \o Overlay!ListOf(o, "archivePatterns")
                            \o Overlay!ListOf(o, "legacyPatterns")
                              \o Overlay!ListOf(o, "generatedPatterns"))
      /\ \A f \in K : E[f] = IF f \in DOMAIN o THEN o[f] ELSE fields[f]
  BY <1>0 DEF MergedFrom
<1>15. MergedFrom(A, fields, again)
  BY MergedIs
<1>3. /\ A = [f \in Overlay!ScopeFields \cup Overlay!Kept(fields, again) |-> A[f]]
      /\ A["include"] = Overlay!Unique(fields["include"] \o Overlay!ListOf(again, "include"))
      /\ A["exclude"] =
           Overlay!Unique(fields["exclude"] \o Overlay!ListOf(again, "exclude")
             \o Overlay!ListOf(again, "archivePatterns")
                            \o Overlay!ListOf(again, "legacyPatterns")
                              \o Overlay!ListOf(again, "generatedPatterns"))
      /\ \A f \in Overlay!Kept(fields, again) : A[f] = IF f \in DOMAIN again THEN again[f]
           ELSE fields[f]
  BY <1>15 DEF MergedFrom
<1>4. /\ DOMAIN again = DOMAIN o \cup Overlay!ScalarFields \cup F
      /\ F \subseteq Overlay!BoundaryFields \cup DOMAIN E
      /\ \A f \in F \ Overlay!BoundaryFields : again[f] = E[f]
  OBVIOUS
<1> HIDE DEF fields, E, A
<1>5. /\ Overlay!BoundaryFields \cap (R \cup Overlay!ScopeFields) = {}
      /\ R \cup Overlay!ScopeFields \subseteq Overlay!ListFields
      /\ Overlay!ScalarFields \cap Overlay!ListFields = {}
      /\ Overlay!ScopeFields \cap R = {}
  BY FieldsApart
<1>6. Overlay!Kept(fields, again) = K
  <2>1. Overlay!Kept(fields, again)
          = (DOMAIN fields \cup (DOMAIN again \cap R)) \ Overlay!ScopeFields
        /\ K = (DOMAIN fields \cup (DOMAIN o \cap R)) \ Overlay!ScopeFields
    BY DEF Overlay!Kept
  <2> HIDE DEF K, R
  <2> QED BY <1>2, <1>4, <1>5, <2>1
<1>7. ASSUME NEW f \in Overlay!ListFields, f \notin F
      PROVE  /\ f \in DOMAIN again <=> f \in DOMAIN o
             /\ f \in DOMAIN o => again[f] = o[f]
             /\ Overlay!ListOf(again, f) = Overlay!ListOf(o, f)
  <2>1. (f \in DOMAIN again <=> f \in DOMAIN o) /\ (f \in DOMAIN o => again[f] = o[f])
    BY <1>4, <1>5, <1>7
  <2> QED BY <2>1 DEF Overlay!ListOf
<1>8. "include" \in Overlay!ScopeFields /\ "exclude" \in Overlay!ScopeFields
      /\ \A f \in Overlay!ScopeFields : f = "include" \/ f = "exclude"
  BY DEF Overlay!ScopeFields
<1>9. ASSUME NEW f \in Overlay!ScopeFields, f \in F PROVE Overlay!ListOf(again, f) = E[f]
  <2>1. f \in DOMAIN again /\ again[f] = E[f]
    BY <1>4, <1>5, <1>9
  <2> QED BY <2>1 DEF Overlay!ListOf
<1>10. A["include"] = E["include"]
  <2>1. CASE "include" \notin F
    <3>1. Overlay!ListOf(again, "include") = Overlay!ListOf(o, "include")
      BY <1>5, <1>7, <1>8, <2>1
    <3> QED BY <1>2, <1>3, <3>1
  <2>2. CASE "include" \in F
    <3> DEFINE start == fields["include"]
               list == Overlay!ListOf(o, "include")
               s == start \o list
               u == Overlay!Unique(s)
    <3>1. start \in Seq(C) /\ Overlay!IsInjective(start) /\ list \in Seq(C)
      BY <1>1, <1>5, <1>8, ListOfIs
    <3>2. A["include"] = Overlay!Unique(start \o u) /\ E["include"] = u
      BY <1>2, <1>3, <1>8, <1>9, <2>2
    <3> HIDE DEF start, list
    <3>3. s \in Seq(C) /\ HasPrefix(s, start)
            /\ Overlay!ToSet(s) = Overlay!ToSet(start) \cup Overlay!ToSet(list)
      BY <3>1, Joined
    <3> HIDE DEF s
    <3>4. u \in Seq(C) /\ Overlay!ToSet(u) = Overlay!ToSet(s)
      BY <3>3, UniqueIs
    <3>5. start \o u \in Seq(C)
            /\ Overlay!ToSet(start \o u) = Overlay!ToSet(start) \cup Overlay!ToSet(u)
          /\ Len(start \o u) \in Nat
      <4> HIDE DEF u
      <4>1. start \o u \in Seq(C)
              /\ Overlay!ToSet(start \o u) = Overlay!ToSet(start) \cup Overlay!ToSet(u)
        BY <3>1, <3>4, Joined
      <4> QED BY <4>1, LenProperties
    <3>6. HasPrefix(start \o u, start \o u)
      BY <3>5 DEF HasPrefix
    <3>7. Overlay!ToSet(start \o u) \subseteq Overlay!ToSet(s)
      BY <3>3, <3>4, <3>5
    <3>8. Overlay!Unique(start \o u) = u
      BY <3>1, <3>3, <3>5, <3>6, <3>7, Grown
    <3> QED BY <3>2, <3>8
  <2> QED BY <2>1, <2>2
<1>11. A["exclude"] = E["exclude"]
  <2> DEFINE a == Overlay!ListOf(o, "archivePatterns")
             b == Overlay!ListOf(o, "legacyPatterns")
             c == Overlay!ListOf(o, "generatedPatterns")
  <2>1. /\ Overlay!ListOf(again, "archivePatterns") = a
        /\ Overlay!ListOf(again, "legacyPatterns") = b
        /\ Overlay!ListOf(again, "generatedPatterns") = c
    BY <1>7, FieldsApart
  <2>2. CASE "exclude" \notin F
    <3>1. Overlay!ListOf(again, "exclude") = Overlay!ListOf(o, "exclude")
      BY <1>5, <1>7, <1>8, <2>2
    <3> QED BY <1>2, <1>3, <2>1, <3>1
  <2>3. CASE "exclude" \in F
    <3> DEFINE start == fields["exclude"]
               list == Overlay!ListOf(o, "exclude")
               s == start \o list \o a \o b \o c
               u == Overlay!Unique(s)
               t == start \o u \o a \o b \o c
    <3>1. start \in Seq(C) /\ Overlay!IsInjective(start) /\ list \in Seq(C)
      BY <1>1, <1>5, <1>8, ListOfIs
    <3>2. a \in Seq(C) /\ b \in Seq(C) /\ c \in Seq(C)
      BY FieldsApart, ListOfIs
    <3>3. A["exclude"] = Overlay!Unique(t) /\ E["exclude"] = u
      BY <1>2, <1>3, <1>8, <1>9, <2>1, <2>3
    <3> HIDE DEF start, list, a, b, c
    <3>4. /\ s \in Seq(C) /\ HasPrefix(s, start)
          /\ Overlay!ToSet(s)
               = Overlay!ToSet(start) \cup Overlay!ToSet(list) \cup Overlay!ToSet(a)
                                  \cup Overlay!ToSet(b) \cup Overlay!ToSet(c)
      BY <3>1, <3>2, FiveJoined
    <3> HIDE DEF s
    <3>5. u \in Seq(C) /\ Overlay!ToSet(u) = Overlay!ToSet(s)
      BY <3>4, UniqueIs
    <3>6. /\ t \in Seq(C) /\ HasPrefix(t, start \o u)
          /\ Overlay!ToSet(t) = Overlay!ToSet(start) \cup Overlay!ToSet(u) \cup Overlay!ToSet(a)
                                  \cup Overlay!ToSet(b) \cup Overlay!ToSet(c)
      <4> HIDE DEF u
      <4> QED BY <3>1, <3>2, <3>5, FiveJoined
    <3> HIDE DEF t
    <3>7. Overlay!ToSet(t) \subseteq Overlay!ToSet(s)
      BY <3>4, <3>5, <3>6
    <3>8. Overlay!Unique(t) = u
      BY <3>1, <3>4, <3>6, <3>7, Grown
    <3> QED BY <3>3, <3>8
  <2> QED BY <2>2, <2>3
<1>12. ASSUME NEW f \in K PROVE A[f] = E[f]
  <2>1. f \in Overlay!ListFields /\ f \notin Overlay!BoundaryFields
    BY <1>1, <1>5 DEF K, Overlay!Kept
  <2>2. A[f] = IF f \in DOMAIN again THEN again[f] ELSE fields[f]
    BY <1>3, <1>6
  <2>3. CASE f \in F
    BY <1>4, <2>1, <2>2, <2>3
  <2>4. CASE f \notin F
    BY <1>2, <1>7, <2>1, <2>2, <2>4
  <2> QED BY <2>3, <2>4
<1> HIDE DEF K
<1>13. \A f \in Overlay!ScopeFields \cup K : A[f] = E[f]
  BY <1>8, <1>10, <1>11, <1>12
<1>14. A = E
  BY <1>2, <1>3, <1>6, <1>13
<1> QED BY <1>14 DEF A, E, fields

(* The lists of a profile that an overlay changed.                         *)
Inked(values) == \A i \in DOMAIN values : Overlay!Trim(values[i]) # <<>>

(* Uniqueness keeps the values non-empty.                                  *)
LEMMA InkedLists ==
  ASSUME NEW C, NEW a \in Seq(C), NEW s \in Seq(C), \A x \in Overlay!ToSet(s) :
           Overlay!Trim(x) # <<>>
  PROVE  Inked(Overlay!Unique(s))
<1>1. Overlay!ToSet(Overlay!Unique(s)) = Overlay!ToSet(s)
  BY UniqueIs
<1> QED BY <1>1 DEF Inked, Overlay!ToSet

(* The fields of an effective profile hold non-empty texts.                *)
LEMMA MergedLists ==
  ASSUME NEW profile, Overlay!IsProfile(profile), NEW o, Lists(o),
         \A f \in DOMAIN o \cap Overlay!ListFields : Inked(o[f])
  PROVE  \A f \in DOMAIN Overlay!Merged(profile.fields, o) :
           LET values == Overlay!Merged(profile.fields, o)[f]
                 IN values \in Seq(Overlay!Text) /\ Inked(values)
<1> DEFINE fields == profile.fields
           E == Overlay!Merged(fields, o)
           K == Overlay!Kept(fields, o)
           C == Overlay!Text
           Ink(s) == \A x \in Overlay!ToSet(s) : Overlay!Trim(x) # <<>>
<1>1. /\ Overlay!ScopeFields \subseteq DOMAIN fields
      /\ DOMAIN fields
           \subseteq Overlay!ScopeFields \cup Overlay!ReplacedFields \cup Overlay!RecipeFields
      /\ \A f \in DOMAIN fields : fields[f] \in Seq(C) /\ Ink(fields[f])
  <2>1. FieldsOfProfile(fields)
    BY ProfileIs
  <2> HIDE DEF fields
  <2> QED BY <2>1 DEF FieldsOfProfile, Overlay!ToSet
<1>0. MergedFrom(E, fields, o)
  BY MergedIs
<1>2. /\ DOMAIN E = Overlay!ScopeFields \cup K
      /\ E["include"] = Overlay!Unique(fields["include"] \o Overlay!ListOf(o, "include"))
      /\ E["exclude"] =
           Overlay!Unique(fields["exclude"] \o Overlay!ListOf(o, "exclude")
             \o Overlay!ListOf(o, "archivePatterns")
                            \o Overlay!ListOf(o, "legacyPatterns")
                              \o Overlay!ListOf(o, "generatedPatterns"))
      /\ \A f \in K : E[f] = IF f \in DOMAIN o THEN o[f] ELSE fields[f]
  BY <1>0 DEF MergedFrom
<1> HIDE DEF fields, E
<1>3. ASSUME NEW f \in Overlay!ListFields
      PROVE  Overlay!ListOf(o, f) \in Seq(C) /\ Ink(Overlay!ListOf(o, f))
  <2>1. Overlay!ListOf(o, f) \in Seq(C)
    BY ListOfIs
  <2>2. CASE f \in DOMAIN o
    <3>1. Overlay!ListOf(o, f) = o[f] /\ Inked(o[f])
      BY <2>2 DEF Overlay!ListOf
    <3> QED BY <2>1, <3>1 DEF Inked, Overlay!ToSet
  <2>3. CASE f \notin DOMAIN o
    <3>1. Overlay!ListOf(o, f) = <<>> /\ DOMAIN <<>> = {}
      BY <2>3 DEF Overlay!ListOf
    <3> QED BY <2>1, <3>1 DEF Overlay!ToSet
  <2> QED BY <2>2, <2>3
<1>4. "include" \in Overlay!ScopeFields /\ "exclude" \in Overlay!ScopeFields
      /\ \A f \in Overlay!ScopeFields : f = "include" \/ f = "exclude"
  BY DEF Overlay!ScopeFields
<1>5. E["include"] \in Seq(C) /\ Inked(E["include"])
  <2> DEFINE a == fields["include"]
             b == Overlay!ListOf(o, "include")
             w == a \o b
  <2>1. a \in Seq(C) /\ Ink(a) /\ b \in Seq(C) /\ Ink(b)
    BY <1>1, <1>3, <1>4, FieldsApart
  <2> HIDE DEF a, b
  <2>2. w \in Seq(C) /\ Overlay!ToSet(w) = Overlay!ToSet(a) \cup Overlay!ToSet(b)
    BY <2>1, Joined
  <2> HIDE DEF w
  <2>3. Overlay!Unique(w) \in Seq(C) /\ Inked(Overlay!Unique(w))
    BY <2>1, <2>2, UniqueIs, InkedLists
  <2> QED BY <1>2, <2>3 DEF w, a, b
<1>6. E["exclude"] \in Seq(C) /\ Inked(E["exclude"])
  <2> DEFINE a == fields["exclude"]
             b == Overlay!ListOf(o, "exclude")
             c == Overlay!ListOf(o, "archivePatterns")
             d == Overlay!ListOf(o, "legacyPatterns")
             e == Overlay!ListOf(o, "generatedPatterns")
             w == a \o b \o c \o d \o e
  <2>1. /\ a \in Seq(C) /\ Ink(a) /\ b \in Seq(C) /\ Ink(b) /\ c \in Seq(C) /\ Ink(c)
        /\ d \in Seq(C) /\ Ink(d) /\ e \in Seq(C) /\ Ink(e)
    BY <1>1, <1>3, <1>4, FieldsApart
  <2> HIDE DEF a, b, c, d, e
  <2>2. w \in Seq(C)
          /\ Overlay!ToSet(w) = Overlay!ToSet(a) \cup Overlay!ToSet(b) \cup Overlay!ToSet(c)
                                             \cup Overlay!ToSet(d) \cup Overlay!ToSet(e)
    BY <2>1, FiveJoined
  <2> HIDE DEF w
  <2>3. Overlay!Unique(w) \in Seq(C) /\ Inked(Overlay!Unique(w))
    BY <2>1, <2>2, UniqueIs, InkedLists
  <2> QED BY <1>2, <2>3 DEF w, a, b, c, d, e
<1>7. ASSUME NEW f \in K PROVE E[f] \in Seq(C) /\ Inked(E[f])
  <2>1. (f \in DOMAIN o /\ f \in Overlay!ListFields) \/ (f \notin DOMAIN o /\ f \in DOMAIN fields)
    <3>1. f \in DOMAIN fields
            \/ (f \in DOMAIN o /\ f \in Overlay!RecipeFields \cup Overlay!ReplacedFields)
      BY DEF K, Overlay!Kept
    <3>2. f \in DOMAIN fields => f \in Overlay!ListFields
      BY <1>1, FieldsApart
    <3> QED BY <3>1, <3>2, FieldsApart
  <2>2. CASE f \in DOMAIN o /\ f \in Overlay!ListFields
    BY <1>2, <2>2 DEF Lists
  <2>3. CASE f \notin DOMAIN o /\ f \in DOMAIN fields
    BY <1>1, <1>2, <2>3 DEF Inked, Overlay!ToSet
  <2> QED BY <2>1, <2>2, <2>3
<1> HIDE DEF K
<1>8. \A f \in DOMAIN E : E[f] \in Seq(C) /\ Inked(E[f])
  BY <1>2, <1>4, <1>5, <1>6, <1>7
<1> QED BY <1>8 DEF E, fields

(* Joined, as one fact.                                                    *)
JoinOf(w, a, b) ==
  /\ Len(w) = Len(a) + Len(b) /\ HasPrefix(w, a)
  /\ \A i \in 1 .. Len(b) : w[Len(a) + i] = b[i]

LEMMA JoinIs ==
  ASSUME NEW C, NEW a \in Seq(C), NEW b \in Seq(C)
  PROVE  a \o b \in Seq(C) /\ JoinOf(a \o b, a, b)
BY Joined DEF JoinOf

(* Lowering the case again changes nothing.                                *)
LEMMA LowerAgain ==
  ASSUME NEW v \in Overlay!Text, Overlay!Trim(v) # <<>>
  PROVE  /\ Overlay!Lower(v) \in Overlay!Text /\ Overlay!Trim(Overlay!Lower(v)) # <<>>
         /\ Overlay!Lower(Overlay!Lower(v)) = Overlay!Lower(v)
<1> DEFINE C == Overlay!Characters
           N == Len(v)
           w == Overlay!Lower(v)
<1>1. v \in Seq(C) /\ N \in Nat /\ DOMAIN v = 1 .. N /\ \A i \in 1 .. N : v[i] \in C
  BY LenProperties, ElementOfSeq DEF Overlay!Text
<1>2. w = [i \in 1 .. N |-> LowerCase[v[i]]]
  BY <1>1 DEF Overlay!Lower
<1> HIDE DEF w, N
<1>3. DOMAIN w = 1 .. N /\ \A i \in 1 .. N : w[i] = LowerCase[v[i]] /\ w[i] \in C
  BY <1>1, <1>2, LettersGiven
<1>4. w \in Seq(C)
  <2>1. w \in [1 .. N -> C]
    BY <1>2, <1>3
  <2> QED BY <1>1, <2>1, SeqDef
<1>5. Overlay!Trim(w) # <<>>
  <2>1. PICK i \in 1 .. N : v[i] # Overlay!Blank
    BY <1>1, TrimIs
  <2>2. w[i] # Overlay!Blank
    BY <1>1, <1>3, <2>1, LettersGiven
  <2>3. \E j \in DOMAIN w : w[j] # Overlay!Blank
    BY <1>3, <2>2
  <2>4. Overlay!Trim(w) = <<>> => \A j \in DOMAIN w : w[j] = Overlay!Blank
    BY <1>4, TrimIs
  <2> QED BY <2>3, <2>4
<1>6. Overlay!Lower(w) = w
  <2>1. Overlay!Lower(w) = [i \in 1 .. N |-> LowerCase[w[i]]]
    BY <1>3 DEF Overlay!Lower
  <2>2. \A i \in 1 .. N : LowerCase[w[i]] = LowerCase[v[i]]
    BY <1>1, <1>3, LettersGiven
  <2> QED BY <1>2, <2>1, <2>2
<1> QED BY <1>4, <1>5, <1>6 DEF w, Overlay!Text

(* Turning the slashes again changes nothing.                              *)
LEMMA ForwardIs ==
  ASSUME NEW s \in Seq(Overlay!Characters)
  PROVE  LET t == Overlay!Forward(s)
         IN /\ t \in Seq(Overlay!Characters) /\ Len(t) = Len(s)
            /\ Overlay!Forward(t) = t
            /\ \A i \in 1 .. Len(s) : s[i] # Overlay!Blank => t[i] # Overlay!Blank
<1> DEFINE C == Overlay!Characters
           N == Len(s)
           t == Overlay!Forward(s)
<1>1. N \in Nat /\ DOMAIN s = 1 .. N /\ \A i \in 1 .. N : s[i] \in C
  BY LenProperties, ElementOfSeq
<1>2. Overlay!Slash \in C /\ Overlay!Slash # Overlay!Blank
  BY LettersGiven, CharactersDiffer
<1>3. t = [i \in 1 .. N |-> IF s[i] = Overlay!Backslash THEN Overlay!Slash ELSE s[i]]
  BY <1>1 DEF Overlay!Forward
<1> HIDE DEF N, t
<1>4. t \in [1 .. N -> C]
  BY <1>1, <1>2, <1>3
<1>5. t \in Seq(C) /\ Len(t) = N /\ DOMAIN t = 1 .. N
  BY <1>1, <1>4, SeqDef, LenProperties
<1>6. Overlay!Forward(t) = t
  <2>1. Overlay!Forward(t)
          = [i \in 1 .. N |-> IF t[i] = Overlay!Backslash THEN Overlay!Slash ELSE t[i]]
    BY <1>5 DEF Overlay!Forward
  <2>2. \A i \in 1 .. N : t[i] = Overlay!Backslash => t[i] = Overlay!Slash
    BY <1>3
  <2> QED BY <1>3, <2>1, <2>2
<1>7. \A i \in 1 .. N : s[i] # Overlay!Blank => t[i] # Overlay!Blank
  BY <1>2, <1>3
<1> QED BY <1>5, <1>6, <1>7 DEF N, t

(* A root rule that was written down is read as the same rule.             *)
LEMMA RootRuleAgain ==
  ASSUME NEW v \in Overlay!Text, Overlay!IsRootRule(v)
  PROVE  LET w == Overlay!WriteRootRule(Overlay!RootRule(v))
         IN /\ w \in Overlay!Text /\ Overlay!Trim(w) # <<>>
            /\ Overlay!IsRootRule(w) /\ Overlay!RootRule(w) = Overlay!RootRule(v)
<1> DEFINE C == Overlay!Characters
           colons == {i \in DOMAIN v : v[i] = Overlay!Colon}
           at == CHOOSE i \in colons : \A j \in colons : j <= i
           prefix == Overlay!RootRule(v).prefix
           P == Len(prefix)
           w == Overlay!WriteRootRule(Overlay!RootRule(v))
<1>1. v \in Seq(C) /\ Len(v) \in Nat /\ DOMAIN v = 1 .. Len(v)
  BY LenProperties DEF Overlay!Text
<1>2. prefix = Overlay!Forward(Overlay!Trim(SubSeq(v, 1, at - 1))) /\ prefix # <<>>
  BY DEF Overlay!RootRule, Overlay!IsRootRule
<1>3. PICK k \in Kinds : Overlay!RootRule(v).kind = <<k>>
  BY DEF Overlay!IsRootRule
<1>4. Overlay!RootRule(v) = [prefix |-> prefix, kind |-> <<k>>]
  BY <1>3 DEF Overlay!RootRule
<1>5. at \in 1 .. Len(v)
  <2>1. colons \subseteq 1 .. Len(v) /\ colons # {}
    BY <1>1 DEF Overlay!IsRootRule
  <2>2. \E i \in colons : \A j \in colons : j <= i
    <3> HIDE DEF colons
    <3> QED BY <1>1, <2>1, FirstAndLast
  <2>3. at \in colons
    <3> HIDE DEF colons
    <3> QED BY <2>2
  <2> HIDE DEF at, colons
  <2> QED BY <2>1, <2>3
<1>7. w = prefix \o <<Overlay!Colon>> \o <<k>>
  <2> DEFINE rule == Overlay!RootRule(v)
  <2>1. rule.kind = <<k>>
    BY <1>3
  <2> HIDE DEF rule
  <2>2. Overlay!WriteRootRule(rule) = rule.prefix \o <<Overlay!Colon>> \o <<k>>
    BY <2>1 DEF Overlay!WriteRootRule
  <2> QED BY <2>2 DEF rule
<1> HIDE DEF at, colons, prefix, w
<1>6. /\ prefix \in Seq(C) /\ prefix[1] # Overlay!Blank /\ prefix[P] # Overlay!Blank
      /\ Overlay!Forward(prefix) = prefix
  <2>1. \A i \in 1 .. at - 1 : v[i] \in C
    <3>1. \A i \in 1 .. at - 1 : i \in 1 .. Len(v)
      BY <1>1, <1>5
    <3> QED BY <1>1, <3>1, ElementOfSeq
  <2>2. SubSeq(v, 1, at - 1) \in Seq(C)
    BY <1>1, <1>5, <2>1, SubSeqProperties
  <2> DEFINE cut == SubSeq(v, 1, at - 1)
             s == Overlay!Trim(cut)
  <2>3. cut \in Seq(C) /\ prefix = Overlay!Forward(s)
    BY <1>2, <2>2
  <2> HIDE DEF cut
  <2>4. s \in Seq(C) /\ (s # <<>> => s[1] # Overlay!Blank /\ s[Len(s)] # Overlay!Blank)
    BY <2>3, TrimIs
  <2> HIDE DEF s
  <2>5. /\ prefix \in Seq(C) /\ Len(prefix) = Len(s) /\ Overlay!Forward(prefix) = prefix
        /\ \A i \in 1 .. Len(s) : s[i] # Overlay!Blank => prefix[i] # Overlay!Blank
    BY <2>3, <2>4, ForwardIs
  <2>6. s # <<>> /\ Len(s) \in Nat /\ Len(s) # 0
    BY <1>2, <2>4, <2>5, EmptySeq
  <2>7. 1 \in 1 .. Len(s) /\ Len(s) \in 1 .. Len(s) /\ P = Len(s)
    BY <2>5, <2>6 DEF P
  <2> HIDE DEF P
  <2> QED BY <2>4, <2>5, <2>6, <2>7
<1>8. P \in Nat /\ P >= 1 /\ DOMAIN prefix = 1 .. P
  <2>1. P \in Nat /\ P # 0
    BY <1>2, <1>6, EmptySeq
  <2> QED BY <1>6, <2>1, LenProperties
<1>9. k \in C /\ Overlay!Colon \in C /\ k # Overlay!Colon /\ k # Overlay!Blank
        /\ Overlay!Colon # Overlay!Blank
  BY LettersGiven, CharactersDiffer
<1>10. /\ w \in Seq(C) /\ Len(w) = P + 2 /\ DOMAIN w = 1 .. P + 2
       /\ w[P + 1] = Overlay!Colon /\ w[P + 2] = k
       /\ \A i \in 1 .. P : w[i] = prefix[i]
  <2> DEFINE colon == <<Overlay!Colon>>
             last == <<k>>
             x == prefix \o colon
  <2>1. colon \in Seq(C) /\ Len(colon) = 1 /\ colon[1] = Overlay!Colon
    BY <1>9
  <2>2. last \in Seq(C) /\ Len(last) = 1 /\ last[1] = k
    BY <1>9
  <2>6. w = x \o last
    BY <1>7
  <2> HIDE DEF colon, last
  <2>3. x \in Seq(C) /\ JoinOf(x, prefix, colon)
    BY <1>6, <2>1, JoinIs
  <2> HIDE DEF x
  <2>4. Len(x) = P + 1 /\ x[P + 1] = Overlay!Colon /\ \A i \in 1 .. P : x[i] = prefix[i]
    BY <1>8, <2>1, <2>3 DEF HasPrefix, JoinOf
  <2> HIDE DEF P
  <2>5. x \o last \in Seq(C) /\ JoinOf(x \o last, x, last)
    BY <2>2, <2>3, JoinIs
  <2>7. Len(w) = (P + 1) + 1 /\ w[(P + 1) + 1] = k /\ \A i \in 1 .. P + 1 : w[i] = x[i]
    BY <1>8, <2>2, <2>4, <2>5, <2>6 DEF HasPrefix, JoinOf
  <2>8. (P + 1) + 1 = P + 2 /\ P + 1 \in 1 .. P + 1 /\ \A i \in 1 .. P : i \in 1 .. P + 1
    BY <1>8
  <2>9. w \in Seq(C)
    BY <2>5, <2>6
  <2>10. DOMAIN w = 1 .. Len(w)
    BY <2>9, LenProperties
  <2> QED BY <2>4, <2>7, <2>8, <2>9, <2>10
<1> HIDE DEF P
<1>11. Overlay!Trim(w) # <<>>
  <2>1. P + 1 \in DOMAIN w /\ w[P + 1] # Overlay!Blank
    BY <1>8, <1>9, <1>10
  <2> QED BY <1>10, <2>1, TrimIs
<1> DEFINE marks == {i \in DOMAIN w : w[i] = Overlay!Colon}
<1>12. P + 1 \in marks /\ \A i \in marks : i <= P + 1
  <2>1. P + 1 \in marks /\ P + 2 \notin marks
    BY <1>8, <1>9, <1>10
  <2>2. \A i \in marks : i \in 1 .. P + 2 /\ i # P + 2
    BY <1>10, <2>1
  <2> HIDE DEF marks
  <2> QED BY <1>8, <2>1, <2>2
<1>13. (CHOOSE i \in marks : \A j \in marks : j <= i) = P + 1
  <2>1. \A i \in marks : (\A j \in marks : j <= i) => i = P + 1
    <3>1. \A i \in marks : i \in Int
      BY <1>8, <1>10
    <3> HIDE DEF marks
    <3> QED BY <1>8, <1>12, <3>1
  <2> HIDE DEF marks
  <2> QED BY <1>12, <2>1
<1>14. SubSeq(w, 1, (P + 1) - 1) = prefix
  <2>1. (P + 1) - 1 = P /\ P \in 0 .. Len(w)
    BY <1>8, <1>10
  <2>2. /\ SubSeq(w, 1, P) \in Seq(C) /\ Len(SubSeq(w, 1, P)) = P
        /\ \A i \in 1 .. P : SubSeq(w, 1, P)[i] = w[i]
    BY <1>10, <2>1, FirstElements
  <2>3. SubSeq(w, 1, P) = prefix
    BY <1>6, <1>10, <2>2, SeqEqual DEF P
  <2> QED BY <2>1, <2>3
<1>15. SubSeq(w, (P + 1) + 1, Len(w)) = <<k>>
  <2>1. (P + 1) + 1 = P + 2 /\ Len(w) = P + 2 /\ P + 2 \in Int
    BY <1>8, <1>10
  <2>2. \A i \in P + 2 .. P + 2 : i = P + 2 /\ w[i] = k /\ w[i] \in C
    BY <1>8, <1>9, <1>10
  <2>3. /\ SubSeq(w, P + 2, P + 2) \in Seq(C)
        /\ Len(SubSeq(w, P + 2, P + 2)) = IF P + 2 <= P + 2 THEN (P + 2) - (P + 2) + 1 ELSE 0
        /\ \A i \in 1 .. (P + 2) - (P + 2) + 1 : SubSeq(w, P + 2, P + 2)[i] = w[(P + 2) + i - 1]
    BY <2>1, <2>2, SubSeqProperties
  <2>4. Len(SubSeq(w, P + 2, P + 2)) = 1 /\ SubSeq(w, P + 2, P + 2)[1] = k
    <3>1. (P + 2) - (P + 2) + 1 = 1 /\ P + 2 <= P + 2 /\ (P + 2) + 1 - 1 = P + 2 /\ 1 \in 1 .. 1
      BY <1>8
    <3> QED BY <1>10, <2>3, <3>1
  <2>5. <<k>> \in Seq(C) /\ Len(<<k>>) = 1 /\ <<k>>[1] = k
    BY <1>9
  <2>6. \A i \in 1 .. 1 : i = 1
    OBVIOUS
  <2>7. SubSeq(w, P + 2, P + 2) = <<k>>
    BY <2>3, <2>4, <2>5, <2>6, SeqEqual
  <2> QED BY <2>1, <2>7
<1>16. Overlay!Trim(prefix) = prefix
  BY <1>2, <1>6, TrimIs DEF P
<1>17. Overlay!Trim(<<k>>) = <<k>>
  <2>1. <<k>> \in Seq(C) /\ Len(<<k>>) = 1 /\ <<k>>[1] = k /\ <<k>> # <<>>
    BY <1>9
  <2> QED BY <1>9, <2>1, TrimIs
<1>18. Overlay!RootRule(w) = [prefix |-> prefix, kind |-> <<k>>]
  <2>1. Overlay!RootRule(w)
          = [prefix |-> Overlay!Forward(Overlay!Trim(SubSeq(w, 1, (P + 1) - 1))),
                              kind |-> Overlay!Trim(SubSeq(w, (P + 1) + 1, Len(w)))]
    BY <1>13 DEF Overlay!RootRule
  <2> QED BY <1>6, <1>14, <1>15, <1>16, <1>17, <2>1
<1>19. Overlay!IsRootRule(w)
  <2>1. P + 1 \in DOMAIN w /\ w[P + 1] = Overlay!Colon
    BY <1>8, <1>10
  <2>2. Overlay!RootRule(w).prefix # <<>> /\ Overlay!RootRule(w).kind = <<k>>
    BY <1>2, <1>18
  <2> QED BY <2>1, <2>2 DEF Overlay!IsRootRule
<1> QED BY <1>4, <1>10, <1>11, <1>18, <1>19 DEF w, prefix, Overlay!Text

(* One value of a field of the boundary map.                               *)
LEMMA NormalAgain ==
  ASSUME NEW f \in Overlay!BoundaryFields, NEW v \in Overlay!Text, Overlay!Trim(v) # <<>>,
         f = "boundaryMapRoots" => Overlay!IsRootRule(v)
  PROVE  LET w == Overlay!Normal(f, v)
         IN /\ w \in Overlay!Text /\ Overlay!Trim(w) # <<>>
            /\ f = "boundaryMapRoots" => Overlay!IsRootRule(w)
            /\ Overlay!Normal(f, w) = w
<1>1. CASE f = "boundaryMapRoots"
  <2> DEFINE w == Overlay!WriteRootRule(Overlay!RootRule(v))
  <2>1. /\ w \in Overlay!Text /\ Overlay!Trim(w) # <<>>
        /\ Overlay!IsRootRule(w) /\ Overlay!RootRule(w) = Overlay!RootRule(v)
    BY <1>1, RootRuleAgain
  <2>2. Overlay!Normal(f, v) = w
          /\ Overlay!Normal(f, w) = Overlay!WriteRootRule(Overlay!RootRule(w))
    BY <1>1 DEF Overlay!Normal
  <2> HIDE DEF w
  <2>3. Overlay!Normal(f, w) = w
    BY <2>1, <2>2 DEF w
  <2> QED BY <1>1, <2>1, <2>2, <2>3
<1>2. CASE f = "boundaryMapContractPathMarkers"
  <2>1. Overlay!Normal(f, v) = v
    BY <1>2 DEF Overlay!Normal
  <2> QED BY <1>2, <2>1
<1>3. CASE f # "boundaryMapRoots" /\ f # "boundaryMapContractPathMarkers"
  <2>1. \A x : Overlay!Normal(f, x) = Overlay!Lower(x)
    BY <1>3 DEF Overlay!Normal
  <2> QED BY <1>3, <2>1, LowerAgain
<1> QED BY <1>1, <1>2, <1>3

(* What an overlay that is valid holds.                                    *)
Rules(values) == \A i \in DOMAIN values : Overlay!IsRootRule(values[i])
(* An overlay that is valid.                                               *)
Sound(o) ==
  /\ Lists(o)
  /\ \A f \in DOMAIN o \cap Overlay!ListFields : Inked(o[f])
  /\ "boundaryMapRoots" \in DOMAIN o => Rules(o["boundaryMapRoots"])

(* What is read are lists of texts.                                        *)
LEMMA ReadLists ==
  ASSUME NEW s, IsFile(s), Reads(s)
  PROVE  Lists(Overlay!Read(s).overlay)
<1> DEFINE o == Overlay!Read(s).overlay
<1>1. DOMAIN o = {Key(s[i]) : i \in DOMAIN s}
  BY FileReads
<1>2. ASSUME NEW i \in DOMAIN s
      PROVE  o[Key(s[i])] = Own(s[i]).overlay[Key(s[i])] /\ Overlay!IsSection(s[i])
               /\ ~Own(s[i]).failed
  <2>1. o[Key(s[i])] = Own(s[i]).overlay[Key(s[i])]
    BY ReadsEach
  <2>2. DOMAIN s = 1 .. Len(s)
    BY LenProperties DEF IsFile, Overlay!IsList
  <2> HIDE DEF o
  <2> QED BY <2>1, <2>2 DEF IsFile, Reads, EachReads
<1> HIDE DEF o
<1>3. ASSUME NEW f \in DOMAIN o \cap Overlay!ListFields PROVE o[f] \in Seq(Overlay!Text)
  <2>1. PICK i \in DOMAIN s : Key(s[i]) = f
    BY <1>1
  <2>2. Key(s[i]) \notin Overlay!ScalarFields
    BY <2>1, FieldsApart
  <2>3. Own(s[i]).overlay[Key(s[i])] \in Seq(Overlay!Text)
    BY <1>2, <2>2, OwnIs
  <2> QED BY <1>2, <2>1, <2>3
<1>4. Lists(o)
  BY <1>3 DEF Lists
<1> QED BY <1>4 DEF o

(* The configuration, field by field.                                      *)
SourceOf(o, f) == IF f \in DOMAIN o THEN o[f] ELSE Defaults[f]
ConfiguredAs(f, values) == [i \in DOMAIN values |-> Overlay!Normal(f, values[i])]
ConfigOf(o) == [f \in Overlay!BoundaryFields |-> ConfiguredAs(f, SourceOf(o, f))]

LEMMA BuiltConfig ==
  ASSUME NEW s
  PROVE  Overlay!BuildConfig(s) = ConfigOf(Overlay!Read(s).overlay)
BY DEF Overlay!BuildConfig, ConfigOf, ConfiguredAs, SourceOf

(* A configuration that is configured again stays as it is.                *)
LEMMA ConfiguredAgain ==
  ASSUME NEW o, Sound(o), NEW f \in Overlay!BoundaryFields
  PROVE  LET values == ConfiguredAs(f, SourceOf(o, f))
         IN /\ values \in Seq(Overlay!Text) /\ Inked(values)
            /\ f = "boundaryMapRoots" => Rules(values)
            /\ ConfiguredAs(f, values) = values
<1> DEFINE source == SourceOf(o, f)
           values == ConfiguredAs(f, source)
           N == Len(source)
<1>1. source \in Seq(Overlay!Text) /\ Inked(source) /\ (f = "boundaryMapRoots" => Rules(source))
  <2>1. CASE f \in DOMAIN o
    <3>1. f \in Overlay!ListFields
      BY FieldsApart
    <3> QED BY <2>1, <3>1 DEF SourceOf, Sound, Lists
  <2>2. CASE f \notin DOMAIN o
    <3>1. Defaults[f] \in Seq(Overlay!Text) /\ Overlay!IsStringArray(Defaults[f])
      BY LettersGiven
    <3>2. f = "boundaryMapRoots" => Rules(Defaults[f])
      BY LettersGiven DEF Rules
    <3> QED BY <2>2, <3>1, <3>2 DEF SourceOf, Overlay!IsStringArray, Inked
  <2> QED BY <2>1, <2>2
<1> HIDE DEF source
<1>2. N \in Nat /\ DOMAIN source = 1 .. N
  BY <1>1, LenProperties
<1>3. ASSUME NEW i \in 1 .. N
      PROVE  LET w == Overlay!Normal(f, source[i])
             IN /\ w \in Overlay!Text /\ Overlay!Trim(w) # <<>>
                /\ f = "boundaryMapRoots" => Overlay!IsRootRule(w)
                /\ Overlay!Normal(f, w) = w
  <2>1. source[i] \in Overlay!Text /\ Overlay!Trim(source[i]) # <<>>
    BY <1>1, <1>2, ElementOfSeq DEF Inked
  <2>2. f = "boundaryMapRoots" => Overlay!IsRootRule(source[i])
    BY <1>1, <1>2 DEF Rules
  <2> QED BY <2>1, <2>2, NormalAgain
<1>4. values = [i \in 1 .. N |-> Overlay!Normal(f, source[i])]
  BY <1>2 DEF ConfiguredAs
<1> HIDE DEF N, values
<1>5. DOMAIN values = 1 .. N /\ \A i \in 1 .. N : values[i] = Overlay!Normal(f, source[i])
  BY <1>4
<1>6. values \in Seq(Overlay!Text)
  <2>1. values \in [1 .. N -> Overlay!Text]
    BY <1>3, <1>4
  <2> QED BY <1>2, <2>1, SeqDef
<1>7. Inked(values)
  BY <1>3, <1>5 DEF Inked
<1>8. f = "boundaryMapRoots" => Rules(values)
  BY <1>3, <1>5 DEF Rules
<1>9. ConfiguredAs(f, values) = values
  <2>1. ConfiguredAs(f, values) = [i \in 1 .. N |-> Overlay!Normal(f, values[i])]
    BY <1>5 DEF ConfiguredAs
  <2>2. \A i \in 1 .. N : Overlay!Normal(f, values[i]) = Overlay!Normal(f, source[i])
    BY <1>3, <1>5
  <2> QED BY <1>4, <2>1, <2>2
<1> QED BY <1>6, <1>7, <1>8, <1>9 DEF values, source

(* The scaffold is the active configuration.                               *)
LEMMA RoundTrip ==
  ASSUME NEW P, Overlay!IsProfile(P), NEW S, IsFile(S),
         NEW symptom \in DOMAIN Overlay!Symptoms(P),
         Overlay!Accepted(P, S), Overlay!Answerable(Overlay!Effective(P, S), symptom),
         Overlay!WritesPlainly(Overlay!Effective(P, S), Overlay!BuildConfig(S), symptom)
  PROVE  LET pasted == Overlay!Pasted(S,
               Overlay!Scaffold(Overlay!Effective(P, S), Overlay!BuildConfig(S), symptom))
         IN /\ Overlay!Accepted(P, pasted)
            /\ Overlay!Effective(P, pasted) = Overlay!Effective(P, S)
            /\ Overlay!BuildConfig(pasted) = Overlay!BuildConfig(S)
<1> DEFINE o == Overlay!Read(S).overlay
           E == Overlay!Merged(P.fields, o)
           effective == Overlay!Effective(P, S)
           config == Overlay!BuildConfig(S)
           fields == Overlay!Symptoms(P)[symptom]
           F == Overlay!ToSet(fields)
           value(f) == Overlay!Values(effective, config, f)
           scaffold == Overlay!Scaffold(effective, config, symptom)
           b == Overlay!Read(scaffold).overlay
           pasted == Overlay!Pasted(S, scaffold)
           q == Overlay!Read(pasted).overlay
<1>1. effective = [id |-> P.id, fields |-> E] /\ config = ConfigOf(o)
  BY EffectiveIs, BuiltConfig
<1>2. effective.id = P.id /\ effective.fields = E
  BY <1>1
<1>3. Overlay!Symptoms(effective) = Overlay!Symptoms(P)
  BY ProfileIs, SameSymptoms
<1>4. /\ Reads(S)
      /\ S = <<>> => o = <<>>
      /\ S # <<>> => Overlay!ValidOverlay(o) /\ Overlay!ValidProfile(E)
  <2>1. CASE S = <<>>
    BY <2>1, NothingRead
  <2>2. CASE S # <<>>
    <3>1. ~Overlay!Read(S).failed /\ Overlay!ValidOverlay(o) /\ Overlay!ValidProfile(E)
      BY <2>2 DEF Overlay!Accepted, Overlay!Readable
    <3>2. Reads(S)
      BY <3>1, FileReads
    <3> QED BY <2>2, <3>1, <3>2
  <2> QED BY <2>1, <2>2
<1>5. Lists(o)
  BY <1>4, ReadLists
<1> HIDE DEF o, E
<1>6. Sound(o)
  <2>1. CASE S = <<>>
    <3>1. DOMAIN o = {}
      BY <1>4, <2>1
    <3> QED BY <1>5, <3>1 DEF Sound
  <2>2. CASE S # <<>>
    <3>1. Overlay!ValidOverlay(o)
      BY <1>4, <2>2
    <3>2. "boundaryMapRoots" \in Overlay!ListFields
      BY FieldsApart DEF Overlay!BoundaryFields
    <3>3. \A f \in DOMAIN o \cap Overlay!ListFields : Inked(o[f])
      BY <3>1 DEF Overlay!ValidOverlay, Overlay!IsStringArray, Inked
    <3>4. "boundaryMapRoots" \in DOMAIN o => Rules(o["boundaryMapRoots"])
      BY <3>1, <3>2 DEF Overlay!ValidOverlay, Rules
    <3> QED BY <1>5, <3>3, <3>4 DEF Sound
  <2> QED BY <2>1, <2>2
<1>7. /\ F \subseteq Overlay!ListFields
      /\ F \cap {"criteria", "requiredOutputs", "archivePatterns", "legacyPatterns",
           "generatedPatterns"} = {}
  <2>1. fields \in Seq(Overlay!ListFields)
        /\ F \cap {"criteria", "requiredOutputs", "archivePatterns", "legacyPatterns",
             "generatedPatterns"} = {}
    BY SymptomFields
  <2> HIDE DEF fields
  <2>2. F \subseteq Overlay!ListFields
    BY <2>1, LenProperties, ElementOfSeq DEF Overlay!ToSet
  <2> QED BY <2>1, <2>2
<1>8. F \subseteq Overlay!BoundaryFields \cup DOMAIN E
  BY <1>2, <1>3 DEF Overlay!Answerable
<1>9. \A f \in F : Overlay!IsInjective(value(f)) /\ \A i \in DOMAIN value(f) : Plain(value(f)[i])
  <2>1. \A f \in F : /\ Overlay!IsInjective(value(f))
                     /\ \A i \in DOMAIN value(f) :
                          {Overlay!DoubleQuote, Overlay!Backslash} \cap Overlay!ToSet(value(f)[i])
                            = {}
    BY <1>3 DEF Overlay!WritesPlainly
  <2> HIDE DEF F, value
  <2> QED BY <2>1 DEF Plain, Overlay!ToSet
<1>10. ASSUME NEW f \in F
       PROVE  /\ f \in Overlay!BoundaryFields => value(f) = ConfiguredAs(f, SourceOf(o, f))
              /\ f \notin Overlay!BoundaryFields => value(f) = E[f] /\ f \in DOMAIN E
  <2>1. f \in Overlay!BoundaryFields => value(f) = config[f]
    BY DEF Overlay!Values
  <2>2. f \notin Overlay!BoundaryFields => value(f) = E[f]
    BY <1>2 DEF Overlay!Values
  <2>3. f \in Overlay!BoundaryFields => config[f] = ConfiguredAs(f, SourceOf(o, f))
    BY <1>1 DEF ConfigOf
  <2> HIDE DEF F, value, config
  <2> QED BY <1>8, <2>1, <2>2, <2>3
<1> HIDE DEF fields, F, value, effective, config
<1>11. ASSUME NEW f \in F
       PROVE  /\ value(f) \in Seq(Overlay!Text) /\ Inked(value(f))
              /\ f = "boundaryMapRoots" => Rules(value(f))
  <2>1. CASE f \in Overlay!BoundaryFields
    BY <1>6, <1>10, <2>1, ConfiguredAgain
  <2>2. CASE f \notin Overlay!BoundaryFields
    <3>1. value(f) = E[f] /\ f \in DOMAIN E
      BY <1>10, <2>2
    <3>2. E[f] \in Seq(Overlay!Text) /\ Inked(E[f])
      BY <1>6, <3>1, MergedLists DEF E, Sound
    <3>3. f # "boundaryMapRoots"
      BY <2>2 DEF Overlay!BoundaryFields
    <3> QED BY <3>1, <3>2, <3>3
  <2> QED BY <2>1, <2>2
(* The file with the scaffold in it.                                       *)
<1>12. /\ IsFile(scaffold) /\ Reads(scaffold) /\ scaffold # <<>>
       /\ DOMAIN b = Overlay!ScalarFields \cup F
       /\ b["formatVersion"] = <<"1">> /\ b["profileId"] = <<P.id>>
       /\ \A f \in F : b[f] = value(f)
  <2>1. symptom \in DOMAIN Overlay!Symptoms(effective)
        /\ F = Overlay!ToSet(Overlay!Symptoms(effective)[symptom])
    BY <1>3 DEF F, fields, effective
  <2>2. effective.id \in Overlay!Characters \ {Overlay!Blank, Overlay!Hash}
    BY <1>2 DEF Overlay!IsProfile
  <2>3. \A f \in F :
          /\ Overlay!Values(effective, config, f) \in Seq(Overlay!Text)
          /\ \A i \in DOMAIN Overlay!Values(effective, config, f) :
               Plain(Overlay!Values(effective, config, f)[i])
    BY <1>9, <1>11 DEF value
  <2>4. /\ IsFile(scaffold) /\ Reads(scaffold) /\ scaffold # <<>>
        /\ DOMAIN b = {"formatVersion",
             "profileId"} \cup Overlay!ToSet(Overlay!Symptoms(effective)[symptom])
        /\ b["formatVersion"] = <<"1">> /\ b["profileId"] = <<effective.id>>
        /\ \A f \in Overlay!ToSet(Overlay!Symptoms(effective)[symptom]) :
             b[f] = Overlay!Values(effective, config, f)
    BY <2>1, <2>2, <2>3, ScaffoldReads
  <2> HIDE DEF scaffold, b
  <2>5. \A f \in F : b[f] = value(f)
    BY <2>1, <2>4 DEF value
  <2>6. DOMAIN b = Overlay!ScalarFields \cup F
    BY <2>1, <2>4 DEF Overlay!ScalarFields
  <2> QED BY <1>2, <2>4, <2>5, <2>6
<1> HIDE DEF scaffold
<1>13. /\ IsFile(pasted) /\ Reads(pasted) /\ pasted # <<>>
       /\ DOMAIN q = DOMAIN o \cup DOMAIN b
       /\ \A k \in DOMAIN b : q[k] = b[k]
       /\ \A k \in DOMAIN o \ DOMAIN b : q[k] = o[k]
  BY <1>4, <1>12, PastedReads DEF o
<1>14. ~Overlay!Read(pasted).failed
  BY <1>13, FileReads
<1>15. Overlay!Effective(P, pasted) = [id |-> P.id, fields |-> Overlay!Merged(P.fields, q)]
       /\ Overlay!BuildConfig(pasted) = ConfigOf(q)
  BY EffectiveIs, BuiltConfig
<1> HIDE DEF b, pasted, q
<1>16. /\ DOMAIN q = DOMAIN o \cup Overlay!ScalarFields \cup F
       /\ \A f \in F : q[f] = value(f)
       /\ \A f \in DOMAIN o \ (Overlay!ScalarFields \cup F) : q[f] = o[f]
       /\ q["formatVersion"] = <<"1">> /\ q["profileId"] = <<P.id>>
  <2>1. "formatVersion" \in Overlay!ScalarFields /\ "profileId" \in Overlay!ScalarFields
    BY DEF Overlay!ScalarFields
  <2> QED BY <1>12, <1>13, <2>1
<1>17. Overlay!Merged(P.fields, q) = E
  <2>1. \A f \in F \ Overlay!BoundaryFields : q[f] = E[f]
    BY <1>10, <1>16
  <2>2. F \cap {"archivePatterns", "legacyPatterns", "generatedPatterns"} = {}
    BY <1>7
  <2> QED BY <1>5, <1>7, <1>8, <1>16, <2>1, <2>2, MergedAgain DEF E
<1>18. Overlay!Effective(P, pasted) = effective
  BY <1>1, <1>15, <1>17
<1>19. ConfigOf(q) = ConfigOf(o)
  <2>1. ASSUME NEW f \in Overlay!BoundaryFields
        PROVE  ConfiguredAs(f, SourceOf(q, f)) = ConfiguredAs(f, SourceOf(o, f))
    <3>1. CASE f \in F
      <4>1. SourceOf(q, f) = ConfiguredAs(f, SourceOf(o, f))
        BY <1>10, <1>16, <3>1 DEF SourceOf
      <4>2. ConfiguredAs(f, ConfiguredAs(f, SourceOf(o, f))) = ConfiguredAs(f, SourceOf(o, f))
        BY <1>6, ConfiguredAgain
      <4> QED BY <4>1, <4>2
    <3>2. CASE f \notin F
      <4>1. f \notin Overlay!ScalarFields
        BY FieldsApart
      <4>2. SourceOf(q, f) = SourceOf(o, f)
        BY <1>16, <3>2, <4>1 DEF SourceOf
      <4> QED BY <4>2
    <3> QED BY <3>1, <3>2
  <2> QED BY <2>1 DEF ConfigOf
<1>20. Overlay!BuildConfig(pasted) = config
  BY <1>1, <1>15, <1>19
<1>21. Overlay!ValidOverlay(q)
  <2>1. ASSUME NEW f \in Overlay!ListFields \cap DOMAIN q
        PROVE  /\ Overlay!IsStringArray(q[f])
               /\ f \in {"criteria", "requiredOutputs"} => q[f] # <<>>
               /\ f = "boundaryMapRoots" => \A i \in DOMAIN q[f] : Overlay!IsRootRule(q[f][i])
    <3>1. CASE f \in F
      <4>1. q[f] = value(f) /\ Overlay!IsInjective(value(f)) /\ Inked(value(f))
            /\ (f = "boundaryMapRoots" => Rules(value(f)))
        BY <1>9, <1>11, <1>16, <3>1
      <4>2. f \notin {"criteria", "requiredOutputs"}
        BY <1>7, <3>1
      <4> QED BY <4>1, <4>2 DEF Overlay!IsStringArray, Inked, Rules
    <3>2. CASE f \notin F
      <4>1. f \notin Overlay!ScalarFields
        BY FieldsApart
      <4>2. f \in DOMAIN o /\ q[f] = o[f]
        BY <1>16, <3>2, <4>1
      <4>3. S # <<>>
        BY <1>4, <4>2
      <4>4. Overlay!ValidOverlay(o)
        BY <1>4, <4>3
      <4> QED BY <4>2, <4>4 DEF Overlay!ValidOverlay
    <3> QED BY <3>1, <3>2
  <2> QED BY <1>16, <2>1 DEF Overlay!ValidOverlay
<1>22. Overlay!ValidProfile(E)
  <2>1. CASE S = <<>>
    <3>1. E = P.fields
      BY <1>4, <2>1, MergedNothing DEF E
    <3> QED BY <3>1 DEF Overlay!IsProfile
  <2> QED BY <1>4, <2>1
<1>23. Overlay!Accepted(P, pasted)
  <2>1. Overlay!Readable(pasted)
    BY <1>14, <1>16 DEF Overlay!Readable, q
  <2>2. Overlay!ValidProfile(Overlay!Merged(P.fields, q))
    BY <1>17, <1>22
  <2> QED BY <1>16, <1>21, <2>1, <2>2 DEF Overlay!Accepted, q
<1> QED BY <1>18, <1>20, <1>23 DEF pasted, scaffold, effective, config

(* The suggestion answers the overlay it was asked about.                  *)
OverlayInv == input \in OverlayInputs /\ result = Overlay!Suggest(input)

LEMMA OverlaySuffices ==
  ASSUME OverlayInv
  PROVE  /\ Overlay!SectionsStandAlone
         /\ Overlay!OfferedSymptomsAreAnswered
         /\ Overlay!ScaffoldIsTheActiveProfile
<1> DEFINE P == input.profile
           S == input.sections
           symptom == input.symptom
<1>1. /\ DOMAIN input = {"profile", "sections", "symptom"}
      /\ Overlay!IsProfile(P) /\ IsFile(S)
      /\ symptom \in DOMAIN Overlay!Symptoms(P)
  BY ConstantsAreSound DEF OverlayInv, Overlay!InputsAreOverlays, IsFile
<1>2. result = Overlay!Suggest(input)
  BY DEF OverlayInv
<1>3. Overlay!SectionsStandAlone
  BY <1>1, <1>2, StandAlone DEF Overlay!SectionsStandAlone
<1>4. Overlay!OfferedSymptomsAreAnswered
  BY <1>1, <1>2, SomethingAnswered DEF Overlay!OfferedSymptomsAreAnswered
<1>5. ASSUME result.status = "suggested",
             Overlay!WritesPlainly(result.profile, result.config, symptom)
      PROVE  LET pasted == Overlay!Pasted(S, result.scaffold)
             IN /\ Overlay!Accepted(P, pasted)
                /\ Overlay!Effective(P, pasted) = result.profile
                /\ Overlay!BuildConfig(pasted) = result.config
  <2>1. /\ Overlay!Accepted(P, S) /\ Overlay!Answerable(Overlay!Effective(P, S), symptom)
        /\ result.profile = Overlay!Effective(P, S) /\ result.config = Overlay!BuildConfig(S)
        /\ result.scaffold =
             Overlay!Scaffold(Overlay!Effective(P, S), Overlay!BuildConfig(S), symptom)
    BY <1>2, <1>5 DEF Overlay!Suggest
  <2>2. Overlay!WritesPlainly(Overlay!Effective(P, S), Overlay!BuildConfig(S), symptom)
    BY <1>5, <2>1
  <2> HIDE DEF P, S, symptom
  <2> QED BY <1>1, <2>1, <2>2, RoundTrip
<1>6. Overlay!ScaffoldIsTheActiveProfile
  BY <1>5 DEF Overlay!ScaffoldIsTheActiveProfile
<1> QED BY <1>3, <1>4, <1>6

-----------------------------------------------------------------------------
(* The theorems: each part of the composition keeps its invariant. *)

ScansInv ==
  /\ part = "overlay" => OverlayInv
  /\ part = "calibration" => CalibrationInv
  /\ part = "comparison" => before \in ComparedRuns
  /\ part = "records" => RecordsInv
  /\ part = "adapters" /\ Supported => AdapterInv
  /\ part = "similar" => SimilarInv

LEMMA ScansInit == Init => ScansInv
<1> SUFFICES ASSUME Init PROVE ScansInv
  OBVIOUS
<1>0. part = "overlay" => OverlayInv
  BY DEF Init, Overlay!Init, OverlayInv
<1>1. part = "calibration" => CalibrationInv
  BY DEF Init, Calibration!Init, CalibrationInv
<1>2. part = "comparison" => before \in ComparedRuns
  BY DEF Init, Compare!Init
<1>3. part = "records" => RecordsInv
  BY DEF Init, Records!Init, RecordsInv
<1>4. part = "adapters" => AdapterInv
  BY AdapterInit DEF Init
<1>5. part = "similar" => SimilarInv
  BY SimilarInit DEF Init
<1> QED BY <1>0, <1>1, <1>2, <1>3, <1>4, <1>5 DEF ScansInv

LEMMA ScansStep ==
  ASSUME ScansInv, [Next]_vars
  PROVE  ScansInv'
<1>1. ASSUME part = "calibration", Calibration!Next, part' = part
      PROVE  ScansInv'
  BY <1>1, CalibrationStep DEF ScansInv
<1>2. ASSUME part = "records", Records!Next, part' = part
      PROVE  ScansInv'
  BY <1>2, RecordsStep DEF ScansInv
<1>3. ASSUME part = "adapters", Adapters!Next, part' = part
      PROVE  ScansInv'
  BY <1>3, AdapterStep DEF ScansInv
<1>4. ASSUME part = "similar", Similar!Next, part' = part
      PROVE  ScansInv'
  BY <1>4, SimilarStep DEF ScansInv
<1>5. ASSUME UNCHANGED vars
      PROVE  ScansInv'
  <2>1. CalibrationInv' <=> CalibrationInv
    BY <1>5 DEF vars, calibrationVars, CalibrationInv, Calibration!Decided, Calibration!Frozen
  <2>2. RecordsInv' <=> RecordsInv
    BY <1>5 DEF vars, recordVars, RecordsInv
  <2>3. AdapterInv' <=> AdapterInv
    BY <1>5 DEF vars, adapterVars, AdapterInv
  <2>4. SimilarInv' <=> SimilarInv
    BY <1>5 DEF vars, embeddingVars, SimilarInv, CallFits, Similar!RowsAreOfConcepts
  <2>5. OverlayInv' <=> OverlayInv
    BY <1>5 DEF vars, overlayVars, OverlayInv
  <2> QED BY <1>5, <2>1, <2>2, <2>3, <2>4, <2>5 DEF ScansInv, vars
<1> QED BY <1>1, <1>2, <1>3, <1>4, <1>5 DEF Next

LEMMA ScansInvariant == Spec => []ScansInv
BY ScansInit, ScansStep, PTL DEF Spec

(* What is frozen without an override was calibrated: on the coverage the  *)
(* decision to continue was about, with no doubt left about the shape, and *)
(* no more leniently than its validation (index.ts:1151).                  *)
THEOREM FrozenFindings == Spec => []FrozenFindingsAreCalibrated
<1>1. ScansInv => FrozenFindingsAreCalibrated
  BY CalibrationSuffices DEF ScansInv, FrozenFindingsAreCalibrated
<1> QED BY <1>1, ScansInvariant, PTL

(* A section of an overlay file means the same wherever it stands, every   *)
(* symptom offered is answered, and the scaffold of an answer, written     *)
(* back into the file as it is, leaves the profile and the boundary-map    *)
(* configuration of the next scan as they are                              *)
(* (scan-profile-guidance.ts).                                             *)
THEOREM OverlaysReadBack == Spec => []OverlaysRoundTrip
<1>1. ScansInv => OverlaysRoundTrip
  BY OverlaySuffices DEF ScansInv, OverlaysRoundTrip
<1> QED BY <1>1, ScansInvariant, PTL

(* The comparison of two runs never passes for a graver finding, a missed  *)
(* source or a kept finding where it failed without, finds nothing new in  *)
(* a run beside itself, and is turned round with its arguments             *)
(* (scan-compare.ts:56).                                                   *)
THEOREM Comparisons == Spec => []ComparisonsAreConsistent
<1>1. ASSUME ScansInv
      PROVE  ComparisonsAreConsistent
  <2> SUFFICES ASSUME part = "comparison"
               PROVE  /\ Compare!WorseIsNeverBetter
                      /\ Compare!SelfComparison
                      /\ Compare!DirectionsAgree
    BY DEF ComparisonsAreConsistent
  <2>1. Compare!IsRun(Compare!Before) /\ Compare!IsRun(Compare!After)
    BY <1>1, ConstantsAreSound
       DEF ScansInv, Compare!InputsAreRuns, Compare!Before, Compare!After
  <2> QED
    BY <2>1, WorseIsNeverBetterHolds, SelfComparisonHolds, DirectionsAgreeHolds
<1> QED BY <1>1, ScansInvariant, PTL

(* What the validators let through the schema takes (store-support.ts,     *)
(* postgres-schema-sql.ts), and a stored fact, index or run reads back as  *)
(* it was given.                                                           *)
THEOREM Survival == Spec => RecordsSurvive
<1>1. ScansInv => (part = "records" => Records!TypeOK /\ Records!ValidRecordsFit)
  BY RecordsSuffice DEF ScansInv
<1>2. ScansInv /\ [Next]_vars =>
        [state = "stored" => record' = record /\ Records!Valid(kind, record')]_(Records!vars)
  <2> SUFFICES ASSUME ScansInv, Next, Records!vars' # Records!vars, state = "stored"
               PROVE  record' = record /\ Records!Valid(kind, record')
    BY DEF vars, recordVars, Records!vars
  <2>1. part = "records" /\ Records!Next
    BY DEF Next, vars, recordVars, Records!vars
  <2> QED BY <2>1, RecordsStep DEF ScansInv
<1> QED BY <1>1, <1>2, ScansInvariant, PTL DEF Spec, RecordsSurvive, Records!LoadedAsSaved

(* On the calls both adapters support, they accept the same writes and     *)
(* give the same answers, and neither keeps anything of a workspace that   *)
(* is gone (in-memory-store.ts:3).                                         *)
THEOREM TwoAdapters ==
  ASSUME Supported
  PROVE  Spec => []AdaptersAgree
<1>1. ScansInv => AdaptersAgree
  BY AdapterSuffices DEF ScansInv, AdaptersAgree
<1> QED BY <1>1, ScansInvariant, PTL

(* A similarity request gives the best usable rows of the store at the     *)
(* time of its last call, for a source whose row was current at some time  *)
(* during the request, and falls short of its limit only when stale rows   *)
(* fill the window; no row outlives its concept (index.ts:697).            *)
THEOREM SimilarConcepts == Spec => []MatchesAreOfTheConcepts
<1>1. ScansInv => MatchesAreOfTheConcepts
  BY SimilarSuffices DEF ScansInv, MatchesAreOfTheConcepts
<1> QED BY <1>1, ScansInvariant, PTL
=============================================================================
