-------------------------- MODULE RepositoryContent --------------------------
(***************************************************************************)
(* runtime/repository-content-facts.ts and repository-fact-budget.ts: how  *)
(* one tracked file becomes a source kind and text chunks.  A file is the  *)
(* set of marks its path carries, whether its bytes look like text, and a  *)
(* sequence of lines, each blank, a heading, an indented heading or text.  *)
(* Sizes stand for the 60 and 40 lines of a fixed segment.                 *)
(***************************************************************************)
EXTENDS Naturals, Sequences, FiniteSets

CONSTANTS DocumentSize,  \* lines of a fixed segment of documentation
          CodeSize,      \* lines of a fixed segment of anything else
          MaxChunks, MaxFacts, \* RepositoryFactBudget
          Inputs         \* the files tried: [marks, binary, lines, spent]

SizesArePositive == DocumentSize \in Nat \ {0} /\ CodeSize \in Nat \ {0}

VARIABLES file,     \* the file
          line,     \* where the next segment begins
          chunks, failure
vars == <<file, line, chunks, failure>>

Marks == {"docs/", ".md", "/test/", ".test.", "dotfile", ".json", "dist/", "/vendor/"}
Lines == {"blank", "heading", "indented", "text"}
Files == [marks : SUBSET Marks, binary : BOOLEAN, lines : Seq(Lines),
          spent : [chunks : 0 .. MaxChunks, facts : 0 .. MaxFacts]]
ConstantsAreSound == /\ SizesArePositive /\ MaxChunks \in Nat /\ MaxFacts \in Nat
                     /\ Inputs \subseteq Files

(***************************************************************************)
(* classifySourceKind: the first kind one of whose marks the path carries. *)
(***************************************************************************)
KindsInOrder ==
  << [kind |-> "documentation", marks |-> {"docs/", ".md"}],
     [kind |-> "test",          marks |-> {"/test/", ".test."}],
     [kind |-> "config",        marks |-> {"dotfile", ".json"}],
     [kind |-> "generated",     marks |-> {"dist/"}],
     [kind |-> "vendor",        marks |-> {"/vendor/"}] >>

SourceKind(marks) ==
  LET found == {n \in DOMAIN KindsInOrder : KindsInOrder[n].marks \cap marks # {}}
  IN IF found = {} THEN "code"
     ELSE KindsInOrder[CHOOSE n \in found : \A k \in found : n <= k].kind

(***************************************************************************)
(* The segments of a file, as they are yielded: each begins where the one  *)
(* before it ends, at a heading of a document with headings, else after a  *)
(* fixed number of lines; a configuration file is one segment.             *)
(***************************************************************************)
HasHeadings(lines) == \E n \in DOMAIN lines : lines[n] = "heading"

NextStart(kind, lines, n) ==
  LET later == {h \in DOMAIN lines : h > n /\ lines[h] = "heading"}
  IN IF kind = "config" THEN Len(lines) + 1
     ELSE IF kind # "documentation" THEN n + CodeSize
     ELSE IF ~HasHeadings(lines) THEN n + DocumentSize
     ELSE IF later = {} THEN Len(lines) + 1
     ELSE CHOOSE h \in later : \A g \in later : h <= g

Smaller(a, b) == IF a < b THEN a ELSE b

(* Faulty variant: a segment takes the first line of the next. *)
SegmentOverlapping(kind, lines, n) ==
  [first |-> n, last |-> Smaller(Len(lines), NextStart(kind, lines, n))]

Segment(kind, lines, n) ==
  [first |-> n, last |-> Smaller(Len(lines), NextStart(kind, lines, n) - 1)]

(* text.trim() drops the blank lines at both ends, startLine stays.  The   *)
(* model keeps the numbers of the lines whose text the chunk holds.        *)
Written(lines, seg) == {i \in DOMAIN lines \cap (seg.first .. seg.last) : lines[i] # "blank"}
HeldLines(kind, lines, seg) ==
  IF kind = "config" THEN seg.first .. seg.last
  ELSE {i \in seg.first .. seg.last :
          \E a, b \in Written(lines, seg) : a <= i /\ i <= b}

ChunkOf(kind, lines, seg) ==
  [startLine |-> seg.first, endLine |-> seg.last, held |-> HeldLines(kind, lines, seg)]

(***************************************************************************)
(* RepositoryFactBudget.consume, once per chunk: the chunk limit is looked *)
(* at first.  spent is what the files before this one have used.           *)
(***************************************************************************)
Refusal(spent, made) ==
  IF spent.chunks + made >= MaxChunks THEN "REPOSITORY_CHUNK_LIMIT_EXCEEDED"
  ELSE IF spent.facts + made >= MaxFacts THEN "REPOSITORY_FACT_LIMIT_EXCEEDED"
  ELSE "none"

-----------------------------------------------------------------------------
Kind == SourceKind(file.marks)

Init == file \in Inputs /\ line = 1 /\ chunks = <<>> /\ failure = "none"

Ended == file.binary \/ failure # "none" \/ line > Len(file.lines)

(* createRepositoryChunks, one segment at a time: a blank one is left out. *)
TakeSegment ==
  LET seg == Segment(Kind, file.lines, line)
      isText == Written(file.lines, seg) # {}
  IN /\ ~Ended
     /\ failure' = IF isText THEN Refusal(file.spent, Len(chunks)) ELSE "none"
     /\ chunks' = IF isText /\ failure' = "none"
                  THEN Append(chunks, ChunkOf(Kind, file.lines, seg)) ELSE chunks
     /\ line' = NextStart(Kind, file.lines, line)
     /\ UNCHANGED file

Done == Ended /\ UNCHANGED vars

Next == TakeSegment \/ Done
Spec == Init /\ [][Next]_vars

-----------------------------------------------------------------------------
Whole == Ended /\ failure = "none"

(* Every line of a text file that is not blank is in exactly one chunk,    *)
(* and the chunks are in the order of the lines.                           *)
ChunksPartitionTheText ==
  Whole /\ ~file.binary =>
    /\ \A i \in DOMAIN file.lines : file.lines[i] # "blank" =>
         Cardinality({n \in DOMAIN chunks : i \in chunks[n].held}) = 1
    /\ \A n \in 1 .. Len(chunks) - 1 : chunks[n].endLine < chunks[n + 1].startLine

(* A chunk never leaves the file and is never empty: what the CHECK        *)
(* constraints of repository_chunks and the validator ask for.             *)
ChunksFitTheFile ==
  \A n \in DOMAIN chunks :
    /\ 1 <= chunks[n].startLine /\ chunks[n].startLine <= chunks[n].endLine
    /\ chunks[n].endLine <= Len(file.lines)
    /\ chunks[n].held # {} /\ chunks[n].held \subseteq chunks[n].startLine .. chunks[n].endLine

(* In documentation with headings, the heading a line stands under is in   *)
(* the chunk of the line: claims are read chunk by chunk, with the last    *)
(* heading seen in that chunk as their context.                            *)
IsHeading(i) == file.lines[i] \in {"heading", "indented"}
HeadingStaysWithItsText ==
  Kind = "documentation" /\ (\E i \in DOMAIN file.lines : file.lines[i] = "heading") =>
    \A n \in DOMAIN chunks : \A i \in chunks[n].held, h \in DOMAIN file.lines :
      h < i /\ IsHeading(h) /\ (\A j \in h + 1 .. i : ~IsHeading(j)) => h \in chunks[n].held

(* The budget is never overdrawn, by chunks or by facts, and is not        *)
(* refused while there is room for one more of both.                       *)
BudgetIsExact ==
  /\ file.spent.chunks + Len(chunks) <= MaxChunks
  /\ file.spent.facts + Len(chunks) <= MaxFacts
  /\ failure = "REPOSITORY_CHUNK_LIMIT_EXCEEDED" => file.spent.chunks + Len(chunks) = MaxChunks
  /\ failure = "REPOSITORY_FACT_LIMIT_EXCEEDED" => file.spent.facts + Len(chunks) = MaxFacts

(* "repository dotfiles are configuration facts; placeholder dotfiles such *)
(* as .gitkeep must not be classified as code" (repository-indexing.md:355), *)
(* and neither are documents, wherever they are.                           *)
OnlyCodeIsCode ==
  /\ Kind = "code" => file.marks \cap {"dotfile", ".md", ".test."} = {}
  /\ ".md" \in file.marks => Kind = "documentation"

(* "file, heading/symbol context, and line range" (repository-indexing.md: *)
(* 386): the k-th line of a chunk's text is line startLine + k - 1 of the  *)
(* file, which is how the evidence builders cite it.                       *)
CitedLinesAreExact ==
  \A n \in DOMAIN chunks : \A i \in chunks[n].held :
    chunks[n].startLine + Cardinality({j \in chunks[n].held : j < i}) = i
=============================================================================
