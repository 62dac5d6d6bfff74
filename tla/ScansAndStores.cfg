SPECIFICATION Spec
CONSTANTS
  None = None
  Refused = Refused
  t1 = t1
  t2 = t2
  k1 = k1
  k2 = k2
  Files <- Files4
  CodeFiles <- CodeFiles3
  TopLevel <- TopLevel4
  Evidence <- CalibrationEvidence
  Profiles <- CalibrationProfiles
  Overlays <- CalibrationOverlays
  Corrections <- CalibrationCorrections
  Maps <- CalibrationMaps
  MaxDecisions = 3
  OverlayInputs <- OverlayCases
  Defaults <- OverlayDefaults
  LowerCase <- OverlayLowerCase
  Kinds = {"module"}
  ComparedRuns <- ComparisonInputs
  Numbers <- RecordNumbers
  Counts <- RecordCounts
  Workspaces <- TwoWorkspaces
  Slugs = {"s1"}
  Concepts <- TwoConcepts
  Indexes = {"i1"}
  Words = {"a", "b"}
  Dimensions = {1, 2}
  Contents <- AdapterContents
  Supported = TRUE
  ConceptTexts <- TwoTexts
  Score <- TextScore
  Limit = 1
  MinScore = 1
  Window = 2
  Nodes <- FourNodes
  Callers <- TwoCallers
  Behaviours <- SimilarBounds
SYMMETRY Symmetry
INVARIANTS
  FrozenFindingsAreCalibrated
  OverlaysRoundTrip
  ComparisonsAreConsistent
  AdaptersAgree
  MatchesAreOfTheConcepts
PROPERTIES
  RecordsSurvive
