SPECIFICATION Spec
CONSTANTS
  None = None
  DocumentSize = 3
  CodeSize = 2
  MaxChunks = 6
  MaxFacts = 8
  ContentInputs <- ContentCases
  PathInputs <- PathCases
  DocumentInputs <- DocumentCases
  Generic = {"doc"}
  ReferenceInputs <- ReferenceCases
  DuplicateInputs <- DuplicateCases
  BoundaryInputs <- BoundaryCases
  Words <- SegmentWords
  Dotted <- DottedSegments
  TestNames = {"tests"}
  Stems = {"readme"}
  Ignored = {"src", "docs", "tests"}
INVARIANTS
  ChunksAreFaithful
  PathsLeadWhereTheySay
  ConflictsAreOfTheDocuments
  ReferencesBreakWithTheirTarget
  DuplicatesAreAsEntangledAsTheirFiles
  BoundaryMapIsSound
