---------------------------- MODULE ScanCalibration ----------------------------
(***************************************************************************)
(* One scan run between its start and its completion: the coverage derived *)
(* from the effective profile or corrected by the caller, the decisions    *)
(* that unlock each operation, and the assessments of start, evidence,     *)
(* boundary map, finding validation and completion.  Globs are the sets of *)
(* files they match.  The overlay is a file of the repository: a scan      *)
(* reads it from the index, the user edits it in the repository.           *)
(***************************************************************************)
EXTENDS Integers, FiniteSets, FiniteSetsExt, Sequences

CONSTANTS
  None,
  Files,          \* the files of the index
  CodeFiles,      \* those whose source kind is code
  TopLevel,       \* [Files -> Nat]: the top-level symbols of a file
  Evidence,       \* the files that give candidates for the criterion
  Profiles,       \* base profiles: quality, code, include, exclude
  Overlays,       \* what the overlay file can say: include, exclude
  Corrections,    \* coverage a caller may record: discovered, included, excepted
  Maps,           \* boundary maps: entrypoints found everywhere, gaps elsewhere
  MaxDecisions    \* bound of a run's decisions

CalibrationAssumption ==
  /\ CodeFiles \subseteq Files
  /\ TopLevel \in [Files -> Nat]
  /\ MaxDecisions \in Nat

Decisions ==
  {"continue", "refine-overlay", "correct-coverage", "build-boundary-map", "restart-scan"}

VARIABLES
  base,        \* the built-in profile
  overlay,     \* the overlay file in the repository
  indexed,     \* the overlay file at the indexed revision
  run,         \* the scan run, or None
  answer,      \* what the last read operation answered
  continued    \* history: the coverage the last decision to continue was made on

vars == <<base, overlay, indexed, run, answer, continued>>

--------------------------------------------------------------------------------
(* Coverage.                                                               *)

(* An overlay appends to the scope.                                        *)
Effective(p, o) == [p EXCEPT !.include = @ \cup o.include, !.exclude = @ \cup o.exclude]

Derived(p) ==
  [discovered |-> Files, included |-> p.include \ p.exclude,
   excepted |-> (Files \ p.include) \cup (Files \cap p.exclude)]

ValidCoverage(c) ==
  /\ c.included # {}
  /\ c.included \subseteq c.discovered
  /\ c.excepted \subseteq c.discovered \ c.included

Symbols(files) == FoldSet(LAMBDA f, n : n + TopLevel[f], 0, files)

Warned(p, c) ==
  LET code == CodeFiles \cap c.discovered
      included == code \cap c.included
  IN /\ p.quality
     /\ code # {}
     /\ \/ included = {}
        \/ 5 * Cardinality(included) < Cardinality(code)
        \/ 5 * Symbols(included) < Symbols(code)

--------------------------------------------------------------------------------
(* Assessments.                                                            *)

StartAssessment(p, c, warned) ==
  IF warned THEN "profile-gap"
  ELSE IF p.code \/ CodeFiles \cap c.discovered \cap c.included # {} THEN "ambiguous-shape"
  ELSE "findings-ready"

EvidenceAssessment(found, warned) ==
  IF warned THEN "profile-gap" ELSE IF found THEN "findings-ready" ELSE "missing-evidence"

MapAssessment(map, warned) ==
  IF warned THEN "profile-gap" ELSE IF map.entrypoints THEN "findings-ready" ELSE "ambiguous-shape"

ShapeAssessment(p, c, map, warned) ==
  IF map = None THEN StartAssessment(p, c, warned) ELSE MapAssessment(map, warned)

(* Finding validation sums the recorded coverage up without its warnings,  *)
(* and looks for evidence in the coverage the profile derives.             *)
FindingAssessment(r, map) ==
  LET shape == ShapeAssessment(r.profile, r.coverage, map, FALSE)
      found == Evidence \cap Derived(r.profile).included # {}
  IN IF shape # "findings-ready" THEN shape
     ELSE IF found THEN "likely-real-finding" ELSE "missing-evidence"

(* Completion sums it up and adds them.                                    *)
CompletionAssessment(r, map) ==
  ShapeAssessment(r.profile, r.coverage, map, Warned(r.profile, r.coverage))

--------------------------------------------------------------------------------
(* Operations.                                                             *)

(* Faulty variant: any earlier decision unlocks the operation.              *)
DecidedOnce(r, decision) == \E i \in 1..Len(r.decisions) : r.decisions[i] = decision

Decided(r, decision) ==
  r.decisions # <<>> /\ r.decisions[Len(r.decisions)] = decision

InProgress == run # None /\ run.status = "in_progress"

NewRun(p) ==
  [status |-> "in_progress", profile |-> p, coverage |-> Derived(p), decisions |-> <<>>,
   findings |-> FALSE, declares |-> FALSE, map |-> None, override |-> FALSE]

StartScan ==
  LET p == Effective(base, indexed)
  IN /\ run = None
     /\ ValidCoverage(Derived(p))
     /\ run' = NewRun(p)
     /\ answer' = [of |-> "start", is |-> StartAssessment(p, Derived(p), Warned(p, Derived(p)))]
     /\ continued' = None
     /\ UNCHANGED <<base, overlay, indexed>>

(* A run is deleted with its findings; the next one starts anew.           *)
DeleteScan ==
  /\ run # None
  /\ run' = None
  /\ answer' = None /\ continued' = None
  /\ UNCHANGED <<base, overlay, indexed>>

RecordDecision(decision) ==
  /\ InProgress /\ Len(run.decisions) < MaxDecisions
  /\ run' = [run EXCEPT !.decisions = Append(@, decision)]
  /\ answer' = None
  /\ continued' = IF decision = "continue" THEN run.coverage ELSE continued
  /\ UNCHANGED <<base, overlay, indexed>>

RecordCoverage(c) ==
  /\ InProgress /\ Decided(run, "correct-coverage")
  /\ ValidCoverage(c)
  /\ run' = [run EXCEPT !.coverage = c]
  /\ answer' = None
  /\ UNCHANGED <<base, overlay, indexed, continued>>

(* The map of the model is any map the coverage may lead to.               *)
BuildBoundaryMap(map) ==
  /\ InProgress /\ Decided(run, "build-boundary-map")
  /\ answer' = [of |-> "map", is |-> MapAssessment(map, FALSE)]
  /\ UNCHANGED <<base, overlay, indexed, run, continued>>

EvidenceCandidates ==
  LET p == Effective(base, indexed)
      c == Derived(p)
  IN /\ answer' = [of |-> "evidence",
                   is |-> EvidenceAssessment(Evidence \cap c.included # {}, Warned(p, c))]
     /\ UNCHANGED <<base, overlay, indexed, run, continued>>

ValidateFinding(map) ==
  /\ InProgress
  /\ answer' = [of |-> "finding", is |-> FindingAssessment(run, map)]
  /\ UNCHANGED <<base, overlay, indexed, run, continued>>

CreateFinding ==
  /\ InProgress /\ Decided(run, "continue")
  /\ run' = [run EXCEPT !.findings = TRUE]
  /\ answer' = None
  /\ UNCHANGED <<base, overlay, indexed, continued>>

MayComplete(r, declares, map, override) ==
  (declares \/ r.findings) /\ ~override =>
    Decided(r, "continue") /\ CompletionAssessment(r, map) = "findings-ready"

CompleteScan(declares, map, override) ==
  /\ InProgress
  /\ MayComplete(run, declares, map, override)
  /\ run' = [run EXCEPT !.status = "completed", !.declares = declares,
                        !.map = map, !.override = override]
  /\ answer' = None
  /\ UNCHANGED <<base, overlay, indexed, continued>>

(* The user edits the overlay in the repository; only an index made of the *)
(* new revision sees it, and a run stays with its own.                     *)
EditOverlay(o) ==
  /\ o # overlay
  /\ overlay' = o
  /\ UNCHANGED <<base, indexed, run, answer, continued>>

IndexAgain ==
  /\ run = None /\ indexed # overlay
  /\ indexed' = overlay
  /\ UNCHANGED <<base, overlay, run, answer, continued>>

--------------------------------------------------------------------------------
Init ==
  /\ base \in Profiles
  /\ overlay \in Overlays
  /\ indexed = overlay
  /\ run = None /\ answer = None /\ continued = None

Next ==
  \/ StartScan \/ DeleteScan \/ EvidenceCandidates \/ CreateFinding \/ IndexAgain
  \/ \E d \in Decisions : RecordDecision(d)
  \/ \E c \in Corrections : RecordCoverage(c)
  \/ \E map \in Maps : BuildBoundaryMap(map)
  \/ \E map \in Maps \cup {None} : ValidateFinding(map)
  \/ \E declares, override \in BOOLEAN, map \in Maps \cup {None} :
       CompleteScan(declares, map, override)
  \/ \E o \in Overlays : EditOverlay(o)

Spec == Init /\ [][Next]_vars

--------------------------------------------------------------------------------
(* Findings frozen without an override.                                    *)
Frozen == run # None /\ run.status = "completed" /\ (run.findings \/ run.declares) /\ ~run.override

(* What is frozen is what the caller decided to continue with: the         *)
(* coverage was not corrected after the decision, though corrections and   *)
(* decisions alternate freely (requireCalibrationDecision looks at the     *)
(* latest decision only).                                                  *)
FrozenAsContinued == Frozen => continued = run.coverage

(* The frozen coverage is not a profile gap, whoever recorded it, and a    *)
(* scan over code was settled by a boundary map with all its entrypoints   *)
(* (completeScanMutation recomputes the warnings before it assesses).      *)
FrozenShapeIsSound ==
  Frozen =>
    /\ ~Warned(run.profile, run.coverage)
    /\ run.coverage.included \cap run.coverage.discovered \cap CodeFiles # {} =>
         run.map # None /\ run.map.entrypoints

(* Finding validation is never stricter about the shape than completion:   *)
(* what completion freezes, validation would not have called unclear.      *)
ValidationIsNoStricter ==
  Frozen => FindingAssessment(run, run.map) \in {"likely-real-finding", "missing-evidence"}

(* repository-scan.md: finding validation distinguishes a profile gap, so  *)
(* that the scan is tuned instead of frozen into a finding.                *)
ValidationSeesTheGap ==
  answer # None /\ answer.of = "finding" /\ Warned(run.profile, run.coverage) =>
    answer.is = "profile-gap"

(* repository-scan.md: findings completed while calibration remains        *)
(* missing-evidence carry an override.                                     *)
MissingEvidenceNeedsOverride == Frozen => Evidence \cap run.coverage.included # {}

(* The overlay workflow: refine the overlay, restart the scan from the     *)
(* same index, and see whether the symptom is gone.                        *)
RestartsSeeTheRefinement ==
  [][StartScan => run'.profile = Effective(base, overlay)]_vars
================================================================================
