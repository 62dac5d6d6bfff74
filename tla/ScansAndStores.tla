---------------------------- MODULE ScansAndStores ----------------------------
(***************************************************************************)
(* What judges a scan (its calibration, the overlay of its profile, the    *)
(* comparison of two runs) and what the stores keep (rows of records, two  *)
(* adapters of one contract, vectors of concepts).  The parts share no     *)
(* state; a behaviour is about the one named by the variable part, while   *)
(* the others stay as they began.                                          *)
(***************************************************************************)
EXTENDS Integers

CONSTANTS Files, CodeFiles, TopLevel, Evidence, Profiles, Overlays, Corrections,
          Maps, MaxDecisions,                                     \* calibration
          OverlayInputs, Defaults, LowerCase, Kinds,              \* overlays
          ComparedRuns,                                           \* comparison
          Numbers, Counts,                                        \* records
          Workspaces, Slugs, Concepts, Indexes, Words, Dimensions,
          Contents, Supported,                                    \* adapters
          Nodes, ConceptTexts, Score, Callers,
          Limit, MinScore, Window, Behaviours,                    \* similarity
          Refused, None

VARIABLES part,
          input, result,
          base, overlay, indexed, run, answer, continued,
          before,
          kind, record, row, state,
          memory, postgres, outcome,
          text, embedding, lock, caller, bounds

overlayVars == <<input, result>>
calibrationVars == <<base, overlay, indexed, run, answer, continued>>
recordVars == <<kind, record, row, state>>
adapterVars == <<memory, postgres, outcome>>
embeddingVars == <<text, embedding, lock, caller, bounds>>

vars == <<part, overlayVars, calibrationVars, before, recordVars, adapterVars, embeddingVars>>

Calibration == INSTANCE ScanCalibration

Overlay == INSTANCE ProfileOverlay WITH Inputs <- OverlayInputs

Compare == INSTANCE ScanComparison WITH Inputs <- ComparedRuns, input <- before

Records == INSTANCE StoredRecords

Adapters == INSTANCE StoreAdapters

Similar == INSTANCE ConceptEmbeddings WITH Texts <- ConceptTexts

ASSUME ConstantsAreSound ==
  /\ Calibration!CalibrationAssumption
  /\ Overlay!InputsAreOverlays /\ Overlay!DefaultsAreNormal
  /\ Compare!InputsAreRuns
  /\ Adapters!SupportedIsBoolean /\ Adapters!ContentsAreTyped
  /\ Similar!WindowIsWider /\ Similar!ScoresAreNumbers
  /\ Similar!NodesAreNumbered /\ Similar!BehavioursAreBounded

(* None is no value of what may be missing. *)
ASSUME NoneIsNothingElse ==
  /\ None \notin Adapters!States \cup Dimensions
  /\ None \notin ConceptTexts \cup Callers
  /\ \A vector, digest \in ConceptTexts : None # [vector |-> vector, digest |-> digest]
  /\ \A chunks \in SUBSET Adapters!Queries : None # chunks
  /\ Records!NoneIsNoValue

-----------------------------------------------------------------------------
NoCalibration == /\ base = None /\ overlay = None /\ indexed = None
                 /\ run = None /\ answer = None /\ continued = None
NoRecord == kind = None /\ record = None /\ row = None /\ state = None
NoAdapter == memory = None /\ postgres = None /\ outcome = None
NoEmbedding == /\ text = None /\ embedding = None /\ lock = None
               /\ caller = None /\ bounds = None

Init ==
  /\ part \in {"overlay", "calibration", "comparison", "records", "adapters", "similar"}
  /\ IF part = "overlay" THEN Overlay!Init ELSE input = None /\ result = None
  /\ IF part = "calibration" THEN Calibration!Init ELSE NoCalibration
  /\ IF part = "comparison" THEN Compare!Init ELSE before = None
  /\ IF part = "records" THEN Records!Init ELSE NoRecord
  /\ IF part = "adapters" THEN Adapters!Init ELSE NoAdapter
  /\ IF part = "similar" THEN Similar!Init ELSE NoEmbedding

Next ==
  \/ /\ part = "calibration" /\ Calibration!Next
     /\ UNCHANGED <<part, overlayVars, before, recordVars, adapterVars, embeddingVars>>
  \/ /\ part = "records" /\ Records!Next
     /\ UNCHANGED <<part, overlayVars, calibrationVars, before, adapterVars, embeddingVars>>
  \/ /\ part = "adapters" /\ Adapters!Next
     /\ UNCHANGED <<part, overlayVars, calibrationVars, before, recordVars, embeddingVars>>
  \/ /\ part = "similar" /\ Similar!Next
     /\ UNCHANGED <<part, overlayVars, calibrationVars, before, recordVars, adapterVars>>
  \/ part \in {"overlay", "comparison", "similar"} /\ UNCHANGED vars

Spec == Init /\ [][Next]_vars

-----------------------------------------------------------------------------
(* Findings that are frozen without an override were calibrated: on the    *)
(* coverage of the decision to continue, which is no profile gap, and no   *)
(* more leniently than their validation (index.ts:1151).                   *)
FrozenFindingsAreCalibrated ==
  part = "calibration" =>
    /\ Calibration!FrozenAsContinued
    /\ Calibration!FrozenShapeIsSound
    /\ Calibration!ValidationIsNoStricter

(* Overlay and suggestion round-trip: sections stand alone, every symptom  *)
(* that is offered is answered, and the scaffold is the active profile.    *)
OverlaysRoundTrip ==
  part = "overlay" =>
    /\ Overlay!SectionsStandAlone
    /\ Overlay!OfferedSymptomsAreAnswered
    /\ Overlay!ScaffoldIsTheActiveProfile

(* A comparison never passes for a graver finding, finds nothing new in a  *)
(* run beside itself, and agrees with the comparison the other way round.  *)
ComparisonsAreConsistent ==
  part = "comparison" =>
    /\ Compare!WorseIsNeverBetter
    /\ Compare!SelfComparison
    /\ Compare!DirectionsAgree

(* Validators and CHECK constraints agree, and a record reads back as it   *)
(* was given (store-support.ts, postgres-schema-sql.ts).                   *)
RecordsSurvive ==
  [](part = "records" => Records!TypeOK /\ Records!ValidRecordsFit) /\ Records!LoadedAsSaved

(* The adapters accept the same writes and give the same answers, and in   *)
(* both nothing outlives its workspace (in-memory-store.ts:3).             *)
AdaptersAgree ==
  part = "adapters" =>
    /\ Adapters!TypeOK
    /\ Adapters!SameOutcome
    /\ Adapters!SameAnswers
    /\ Adapters!NothingOutlivesItsWorkspace

(* What a similarity query answers is of concepts, of their texts now and  *)
(* of a source vector that was current, and the best come first, although  *)
(* concepts and vectors change between its calls.                          *)
MatchesAreOfTheConcepts ==
  part = "similar" =>
    /\ Similar!TypeOK
    /\ Similar!RowsAreOfConcepts
    /\ Similar!MatchesAreCurrent
    /\ Similar!SourceWasCurrent
    /\ Similar!BestComeFirst
=============================================================================
