-------------------------- MODULE RepositoryEvidence --------------------------
(***************************************************************************)
(* What is computed from the text of a repository: content facts, paths    *)
(* and links, the four evidence criteria and the boundary map.  The parts  *)
(* share no state; a behaviour is about the one named by the variable      *)
(* part.  Only content facts take steps: they are built segment by segment *)
(* against a budget.                                                       *)
(***************************************************************************)
EXTENDS Naturals, Sequences, FiniteSets

CONSTANTS DocumentSize, CodeSize, MaxChunks, MaxFacts, ContentInputs,   \* content
          PathInputs,                                                   \* paths
          DocumentInputs, Generic,                                      \* documents
          ReferenceInputs,                                              \* references
          DuplicateInputs,                                              \* duplicates
          BoundaryInputs, Words, Dotted, TestNames, Stems, Ignored,     \* boundaries
          None

VARIABLES part, input, criterion, file, line, chunks, failure

contentVars == <<file, line, chunks, failure>>
vars == <<part, input, criterion, contentVars>>

Content == INSTANCE RepositoryContent WITH Inputs <- ContentInputs

Paths == INSTANCE GlobsAndLinks WITH Inputs <- PathInputs

Documents == INSTANCE DocumentEvidence WITH Inputs <- DocumentInputs

References == INSTANCE BrokenReferences WITH Inputs <- ReferenceInputs

Duplicates == INSTANCE DuplicateResponsibility WITH Inputs <- DuplicateInputs

Boundaries == INSTANCE BoundaryMap WITH Inputs <- BoundaryInputs

ASSUME ConstantsAreSound ==
  /\ Content!ConstantsAreSound
  /\ Paths!InputsArePaths
  /\ Documents!InputsAreIndexes
  /\ References!InputsAreIndexes
  /\ Duplicates!InputsAreIndexes
  /\ Boundaries!InputsAreIndexes

-----------------------------------------------------------------------------
NoContent == file = None /\ line = None /\ chunks = None /\ failure = None

Init ==
  \/ part = "content" /\ Content!Init /\ input = None /\ criterion = None
  \/ part = "documents" /\ Documents!Init /\ NoContent
  \/ /\ \/ part = "paths" /\ Paths!Init
        \/ part = "references" /\ References!Init
        \/ part = "duplicates" /\ Duplicates!Init
        \/ part = "boundaries" /\ Boundaries!Init
     /\ criterion = None /\ NoContent

Next ==
  \/ part = "content" /\ Content!Next /\ UNCHANGED <<part, input, criterion>>
  \/ part # "content" /\ UNCHANGED vars

Spec == Init /\ [][Next]_vars

-----------------------------------------------------------------------------
(* Content facts: every line of text is in exactly one chunk, chunks lie   *)
(* within their file and stay with their heading, and the budget is        *)
(* neither overdrawn nor refused early.                                    *)
ChunksAreFaithful ==
  part = "content" =>
    /\ Content!ChunksPartitionTheText
    /\ Content!ChunksFitTheFile
    /\ Content!HeadingStaysWithItsText
    /\ Content!BudgetIsExact
    /\ Content!OnlyCodeIsCode

(* Globs match their language and links lead where a reader walks.         *)
PathsLeadWhereTheySay ==
  part = "paths" => Paths!GlobIsItsLanguage /\ Paths!LinksLeadWhereTheyWalk

(* Conflicts of documents do not depend on the order of the index; a stale *)
(* document is the weaker side of a contradiction, and the stronger one    *)
(* has an owner; ids name places; cutting a document only loses conflicts. *)
ConflictsAreOfTheDocuments ==
  part = "documents" =>
    /\ Documents!OrderDoesNotMatter
    /\ Documents!StaleIsAWeakerContradiction
    /\ Documents!AuthoritiesHaveOwners
    /\ Documents!IdNamesThePlaces
    /\ Documents!CuttingOnlyLoses

(* A reference breaks when its target goes, and not because a document is  *)
(* not covered or is cut into other chunks.                                *)
ReferencesBreakWithTheirTarget ==
  part = "references" =>
    /\ References!CoverageBreaksNothing
    /\ References!DeletingBreaksItsReferences
    /\ References!CuttingChangesNothing

(* Duplicate responsibilities are ranked whatever the order of the index,  *)
(* and what is said of their topology is true of the dependencies.         *)
DuplicatesAreAsEntangledAsTheirFiles ==
  part = "duplicates" =>
    /\ Duplicates!RankingIgnoresOrder
    /\ Duplicates!OverloadsAddNoTopology
    /\ Duplicates!SummaryIsTrue
    /\ Duplicates!CoverageOnlyWeakens

(* The order of the index decides no more of a boundary map than which     *)
(* test is the harness of a suite; the map gives symbols to the boundary   *)
(* of their file, is accepted by the validation that completion makes, and *)
(* links tests on both sides.                                              *)
BoundaryMapIsSound ==
  part = "boundaries" =>
    /\ Boundaries!OrderOnlyPicksTheHarness
    /\ Boundaries!SymbolsFollowTheirFile
    /\ Boundaries!BuiltMapsAreValid
    /\ Boundaries!TestsAreLinked
=============================================================================
