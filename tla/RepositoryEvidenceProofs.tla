----------------------- MODULE RepositoryEvidenceProofs -----------------------
(***************************************************************************)
(* What is computed from the text of a repository, for any files, documents, *)
(* symbols and dependencies.                                               *)
(***************************************************************************)
EXTENDS RepositoryEvidence, TLAPS, FiniteSetTheorems, SequenceTheorems, WellFoundedInduction

LEMMA LeastNumber ==
  ASSUME NEW T, T \subseteq Nat, T # {}
  PROVE  \E m \in T : \A k \in T : m <= k
<1> DEFINE R == OpToRel(<, Nat)
<1>1. IsWellFoundedOn(R, Nat)
  BY NatLessThanWellFounded
<1>2. \A x, y \in Nat : x < y => <<x, y>> \in R
  BY DEF OpToRel
<1> HIDE DEF R
<1>3. PICK m \in T : \A y \in T : <<y, m>> \notin R
  BY <1>1, WFMin
<1>4. ASSUME NEW k \in T PROVE m <= k
  <2>1. m \in Nat /\ k \in Nat /\ ~(k < m)
    BY <1>2, <1>3
  <2> QED BY <2>1
<1> QED BY <1>4

-----------------------------------------------------------------------------
(***************************************************************************)
(* Content facts.                                                          *)
(***************************************************************************)
Kind == Content!Kind

(* Where a segment may begin: in documentation with headings, at the top,  *)
(* at a heading, or past the end.                                          *)
Beginning(kind, lines, n) ==
  kind = "documentation" /\ Content!HasHeadings(lines) =>
    n = 1 \/ n > Len(lines) \/ lines[n] = "heading"

(* A chunk is a segment with text that ends before the next one begins.    *)
IsSegment(kind, lines, next, c) ==
  LET seg == Content!Segment(kind, lines, c.startLine)
  IN /\ c.startLine \in 1 .. Len(lines)
     /\ c = Content!ChunkOf(kind, lines, seg)
     /\ Content!Written(lines, seg) # {}
     /\ c.endLine \in Nat /\ c.startLine <= c.endLine /\ c.endLine < next
     /\ c.endLine <= Len(lines)
     /\ Beginning(kind, lines, c.startLine)

InOrder(made) == \A n, m \in DOMAIN made : n < m => made[n].endLine < made[m].startLine

(* No line before the next segment is lost while the budget lasts.         *)
NothingLost(lines, next, made) ==
  \A i \in 1 .. Len(lines) : i < next /\ lines[i] # "blank" =>
    \E n \in DOMAIN made : i \in made[n].held

Chunk == [startLine : Nat, endLine : Nat, held : SUBSET Nat]

ContentInv ==
  /\ file \in ContentInputs
  /\ line \in Nat \ {0}
  /\ chunks \in Seq(Chunk)
  /\ Beginning(Kind, file.lines, line)
  /\ \A n \in DOMAIN chunks : IsSegment(Kind, file.lines, line, chunks[n])
  /\ InOrder(chunks)
  /\ failure = "none" => NothingLost(file.lines, line, chunks)
  /\ Content!BudgetIsExact

LEMMA FilesTyped ==
  ASSUME file \in ContentInputs
  PROVE  /\ file.lines \in Seq(Content!Lines) /\ Len(file.lines) \in Nat
         /\ DOMAIN file.lines = 1 .. Len(file.lines)
         /\ \A i \in 1 .. Len(file.lines) : file.lines[i] \in Content!Lines
         /\ file.spent.chunks \in 0 .. MaxChunks /\ file.spent.facts \in 0 .. MaxFacts
         /\ MaxChunks \in Nat /\ MaxFacts \in Nat
         /\ file.marks \subseteq Content!Marks
         /\ DocumentSize \in Nat \ {0} /\ CodeSize \in Nat \ {0}
<1>1. file \in Content!Files
  BY ConstantsAreSound DEF Content!ConstantsAreSound
<1>2. /\ file.lines \in Seq(Content!Lines) /\ file.marks \subseteq Content!Marks
      /\ file.spent.chunks \in 0 .. MaxChunks /\ file.spent.facts \in 0 .. MaxFacts
  BY <1>1 DEF Content!Files
<1>3. /\ MaxChunks \in Nat /\ MaxFacts \in Nat
      /\ DocumentSize \in Nat \ {0} /\ CodeSize \in Nat \ {0}
  BY ConstantsAreSound DEF Content!ConstantsAreSound, Content!SizesArePositive
<1> QED BY <1>2, <1>3

(* A segment is not empty, and the next one begins where one may.          *)
LEMMA SegmentsAdvance ==
  ASSUME NEW kind, NEW lines \in Seq(Content!Lines), NEW n \in 1 .. Len(lines),
         DocumentSize \in Nat \ {0}, CodeSize \in Nat \ {0}
  PROVE  /\ Content!NextStart(kind, lines, n) \in Nat /\ Content!NextStart(kind, lines, n) > n
         /\ Beginning(kind, lines, Content!NextStart(kind, lines, n))
<1> DEFINE later == {h \in DOMAIN lines : h > n /\ lines[h] = "heading"}
<1>1. Len(lines) \in Nat /\ DOMAIN lines = 1 .. Len(lines) /\ n \in Nat
  OBVIOUS
<1>2. CASE kind = "config"
  BY <1>1, <1>2 DEF Content!NextStart, Beginning
<1>3. CASE kind \notin {"config", "documentation"}
  BY <1>1, <1>3 DEF Content!NextStart, Beginning
<1>4. CASE kind = "documentation" /\ ~Content!HasHeadings(lines)
  BY <1>1, <1>4 DEF Content!NextStart, Beginning
<1>5. CASE kind = "documentation" /\ Content!HasHeadings(lines) /\ later = {}
  BY <1>1, <1>5 DEF Content!NextStart, Beginning
<1>6. CASE kind = "documentation" /\ Content!HasHeadings(lines) /\ later # {}
  <2>1. later \subseteq Nat
    BY <1>1
  <2>2. PICK m \in later : \A g \in later : m <= g
    BY <1>6, <2>1, LeastNumber
  <2> DEFINE next == CHOOSE h \in later : \A g \in later : h <= g
  <2>3. next \in later
    BY <2>2
  <2>4. Content!NextStart(kind, lines, n) = next
    BY <1>6 DEF Content!NextStart
  <2>5. next \in 1 .. Len(lines) /\ next > n /\ lines[next] = "heading"
    BY <1>1, <2>3
  <2> QED BY <1>1, <2>4, <2>5 DEF Beginning
<1> QED BY <1>2, <1>3, <1>4, <1>5, <1>6

(* The segment that begins at n, and the chunk made of it.                 *)
Cuts(lines, n, seg, next, c) ==
  /\ seg.first = n /\ seg.last \in n .. Len(lines) /\ seg.last < next
  /\ \A i \in 1 .. Len(lines) : i < next => i <= seg.last
  /\ c.startLine = n /\ c.endLine = seg.last /\ c.held \subseteq n .. seg.last
  /\ c \in Chunk
  /\ Content!Written(lines, seg) \subseteq c.held

LEMMA ChunksOfSegments ==
  ASSUME NEW kind, NEW lines \in Seq(Content!Lines), NEW n \in 1 .. Len(lines),
         DocumentSize \in Nat \ {0}, CodeSize \in Nat \ {0}
  PROVE  LET seg == Content!Segment(kind, lines, n)
         IN Cuts(lines, n, seg, Content!NextStart(kind, lines, n),
                 Content!ChunkOf(kind, lines, seg))
<1> DEFINE seg == Content!Segment(kind, lines, n)
           next == Content!NextStart(kind, lines, n)
           c == Content!ChunkOf(kind, lines, seg)
<1>1. Len(lines) \in Nat /\ DOMAIN lines = 1 .. Len(lines) /\ n \in Nat
  OBVIOUS
<1>2. next \in Nat /\ next > n
  BY SegmentsAdvance
<1>3. seg = [first |-> n, last |-> IF Len(lines) < next - 1 THEN Len(lines) ELSE next - 1]
  BY DEF Content!Segment, Content!Smaller
<1>4. seg.first = n /\ seg.last = IF Len(lines) < next - 1 THEN Len(lines) ELSE next - 1
  BY <1>3
<1>5. /\ seg.last \in n .. Len(lines) /\ seg.last < next
      /\ \A i \in 1 .. Len(lines) : i < next => i <= seg.last
  BY <1>1, <1>2, <1>4
<1>6. /\ c = [startLine |-> n, endLine |-> seg.last, held |-> Content!HeldLines(kind, lines, seg)]
      /\ Content!HeldLines(kind, lines, seg) \subseteq n .. seg.last
  BY <1>4 DEF Content!ChunkOf, Content!HeldLines
<1>7. Content!Written(lines, seg) \subseteq Content!HeldLines(kind, lines, seg)
  <2>1. ASSUME NEW i \in Content!Written(lines, seg) PROVE i \in Content!HeldLines(kind, lines, seg)
    <3>1. i \in seg.first .. seg.last /\ i <= i
      BY <1>1, <1>4, <1>5, <2>1 DEF Content!Written
    <3> QED BY <2>1, <3>1 DEF Content!HeldLines
  <2> QED BY <2>1
<1>8. n .. seg.last \subseteq Nat /\ seg.last \in Nat
  BY <1>1, <1>5
<1>9. Cuts(lines, n, seg, next, c)
  <2> HIDE DEF seg, next
  <2> QED BY <1>1, <1>4, <1>5, <1>6, <1>7, <1>8 DEF Chunk, Cuts
<1> QED BY <1>9

LEMMA ContentStarts ==
  ASSUME Content!Init
  PROVE  ContentInv
<1>1. file \in ContentInputs /\ line = 1 /\ chunks = <<>> /\ failure = "none"
  BY DEF Content!Init
<1>2. Content!BudgetIsExact
  BY <1>1, FilesTyped DEF Content!BudgetIsExact
<1> QED BY <1>1, <1>2, FilesTyped DEF ContentInv, Beginning, InOrder, NothingLost

(* Taking a segment: one chunk more, or none when it is blank or refused.  *)
LEMMA SegmentsAreTaken ==
  ASSUME ContentInv, Content!TakeSegment
  PROVE  ContentInv'
<1> DEFINE lines == file.lines
           seg == Content!Segment(Kind, lines, line)
           c == Content!ChunkOf(Kind, lines, seg)
           isText == Content!Written(lines, seg) # {}
<1>1. /\ file \in ContentInputs /\ line \in Nat \ {0} /\ chunks \in Seq(Chunk)
      /\ Beginning(Kind, lines, line)
      /\ \A n \in DOMAIN chunks : IsSegment(Kind, lines, line, chunks[n])
      /\ InOrder(chunks)
      /\ failure = "none" => NothingLost(lines, line, chunks)
      /\ Content!BudgetIsExact
  BY DEF ContentInv
<1>2. /\ ~Content!Ended
      /\ failure' = IF isText THEN Content!Refusal(file.spent, Len(chunks)) ELSE "none"
      /\ chunks' = IF isText /\ failure' = "none" THEN Append(chunks, c) ELSE chunks
      /\ line' = Content!NextStart(Kind, lines, line) /\ file' = file
  BY DEF Content!TakeSegment, Kind
<1>3. /\ lines \in Seq(Content!Lines) /\ Len(lines) \in Nat /\ DOMAIN lines = 1 .. Len(lines)
      /\ file.spent.chunks \in Nat /\ file.spent.facts \in Nat
      /\ MaxChunks \in Nat /\ MaxFacts \in Nat
      /\ DocumentSize \in Nat \ {0} /\ CodeSize \in Nat \ {0}
  BY <1>1, FilesTyped
<1>4. failure = "none" /\ line \in 1 .. Len(lines)
  BY <1>1, <1>2, <1>3 DEF Content!Ended
<1>5. Kind' = Kind
  BY <1>2 DEF Kind, Content!Kind
<1>6. line' \in Nat /\ line' > line /\ Beginning(Kind, lines, line')
  BY <1>2, <1>3, <1>4, SegmentsAdvance
<1>7. Cuts(lines, line, seg, line', c)
  BY <1>2, <1>3, <1>4, ChunksOfSegments
<1> HIDE DEF seg, c, lines, isText
<1>8. Len(chunks) \in Nat /\ DOMAIN chunks = 1 .. Len(chunks)
  BY <1>1
<1>9. \A n \in DOMAIN chunks : IsSegment(Kind, lines, line', chunks[n])
  BY <1>1, <1>6, <1>4 DEF IsSegment
<1>10. CASE isText /\ failure' = "none"
  <2>1. /\ chunks' = Append(chunks, c) /\ chunks' \in Seq(Chunk)
        /\ Len(chunks') = Len(chunks) + 1 /\ DOMAIN chunks' = 1 .. Len(chunks) + 1
        /\ chunks'[Len(chunks) + 1] = c
        /\ \A n \in DOMAIN chunks : chunks'[n] = chunks[n]
    <3>1. chunks' = Append(chunks, c)
      BY <1>2, <1>10
    <3> QED BY <1>1, <1>7, <1>8, <3>1 DEF Cuts
  <2>2. IsSegment(Kind, lines, line', c)
    <3>1. seg = Content!Segment(Kind, lines, c.startLine)
      BY <1>7 DEF seg, Cuts
    <3>2. c = Content!ChunkOf(Kind, lines, seg) /\ Content!Written(lines, seg) # {}
      BY <1>10 DEF c, isText
    <3> QED BY <1>1, <1>4, <1>3, <1>7, <3>1, <3>2 DEF IsSegment, Cuts
  <2>3. \A n \in DOMAIN chunks' : IsSegment(Kind, lines, line', chunks'[n])
    <3> SUFFICES ASSUME NEW n \in DOMAIN chunks'
                 PROVE  IsSegment(Kind, lines, line', chunks'[n])
      OBVIOUS
    <3>1. n \in DOMAIN chunks \/ n = Len(chunks) + 1
      BY <1>8, <2>1
    <3> QED BY <1>9, <2>1, <2>2, <3>1
  <2>4. InOrder(chunks')
    <3> SUFFICES ASSUME NEW n \in DOMAIN chunks', NEW m \in DOMAIN chunks', n < m
                 PROVE  chunks'[n].endLine < chunks'[m].startLine
      BY DEF InOrder
    <3>1. n \in DOMAIN chunks /\ (m \in DOMAIN chunks \/ m = Len(chunks) + 1)
      BY <1>8, <2>1
    <3>2. CASE m \in DOMAIN chunks
      BY <1>1, <2>1, <3>1, <3>2 DEF InOrder
    <3>3. CASE m = Len(chunks) + 1
      <4>1. chunks[n].endLine < line
        BY <1>1, <3>1 DEF IsSegment
      <4> QED BY <1>7, <2>1, <3>1, <3>3, <4>1 DEF Cuts
    <3> QED BY <3>1, <3>2, <3>3
  <2>5. NothingLost(lines, line', chunks')
    <3> SUFFICES ASSUME NEW i \in 1 .. Len(lines), i < line', lines[i] # "blank"
                 PROVE  \E n \in DOMAIN chunks' : i \in chunks'[n].held
      BY DEF NothingLost
    <3>1. CASE i < line
      <4>1. PICK n \in DOMAIN chunks : i \in chunks[n].held
        BY <1>1, <1>4, <3>1 DEF NothingLost
      <4>2. n \in DOMAIN chunks' /\ chunks'[n] = chunks[n]
        BY <1>8, <2>1
      <4> QED BY <4>1, <4>2
    <3>2. CASE ~(i < line)
      <4>1. i \in seg.first .. seg.last
        BY <1>3, <1>4, <1>7, <3>2 DEF Cuts
      <4>2. i \in Content!Written(lines, seg)
        BY <1>3, <4>1 DEF Content!Written
      <4>3. i \in c.held /\ Len(chunks) + 1 \in DOMAIN chunks'
        BY <1>7, <1>8, <2>1, <4>2 DEF Cuts
      <4> QED BY <2>1, <4>3
    <3> QED BY <3>1, <3>2
  <2>6. Content!BudgetIsExact'
    <3>1. ~(file.spent.chunks + Len(chunks) >= MaxChunks)
          /\ ~(file.spent.facts + Len(chunks) >= MaxFacts)
      BY <1>2, <1>10 DEF Content!Refusal
    <3> QED BY <1>2, <1>3, <1>8, <1>10, <2>1, <3>1, SMTT(30) DEF Content!BudgetIsExact
  <2> QED BY <1>1, <1>2, <1>5, <1>6, <2>1, <2>3, <2>4, <2>5, <2>6 DEF ContentInv, lines
<1>11. CASE ~(isText /\ failure' = "none")
  <2>1. chunks' = chunks
    BY <1>2, <1>11
  <2>2. failure' = "none" => NothingLost(lines, line', chunks)
    <3> SUFFICES ASSUME failure' = "none", NEW i \in 1 .. Len(lines), i < line', lines[i] # "blank"
                 PROVE  \E n \in DOMAIN chunks : i \in chunks[n].held
      BY DEF NothingLost
    <3>1. Content!Written(lines, seg) = {}
      BY <1>11 DEF isText
    <3>2. i < line
      <4>1. ~(i \in seg.first .. seg.last)
        BY <1>3, <3>1 DEF Content!Written
      <4> QED BY <1>3, <1>4, <1>7, <4>1 DEF Cuts
    <3> QED BY <1>1, <1>4, <3>2 DEF NothingLost
  <2>3. Content!BudgetIsExact'
    <3>1. failure' = "none" \/ failure' = Content!Refusal(file.spent, Len(chunks))
      BY <1>2
    <3>2. /\ file.spent.chunks + Len(chunks) <= MaxChunks
          /\ file.spent.facts + Len(chunks) <= MaxFacts
      BY <1>1 DEF Content!BudgetIsExact
    <3>3. /\ failure' = "REPOSITORY_CHUNK_LIMIT_EXCEEDED" => file.spent.chunks + Len(chunks) = MaxChunks
          /\ failure' = "REPOSITORY_FACT_LIMIT_EXCEEDED" => file.spent.facts + Len(chunks) = MaxFacts
      <4>1. /\ file.spent.chunks + Len(chunks) >= MaxChunks
                 => file.spent.chunks + Len(chunks) = MaxChunks
            /\ file.spent.facts + Len(chunks) >= MaxFacts
                 => file.spent.facts + Len(chunks) = MaxFacts
        BY <1>3, <1>8, <3>2, SMTT(30)
      <4>2. CASE failure' = "none"
        BY <4>2
      <4>3. CASE failure' = Content!Refusal(file.spent, Len(chunks))
        BY <4>1, <4>3 DEF Content!Refusal
      <4> QED BY <3>1, <4>2, <4>3
    <3> QED BY <1>2, <2>1, <3>2, <3>3 DEF Content!BudgetIsExact
  <2> QED BY <1>1, <1>2, <1>5, <1>6, <1>9, <2>1, <2>2, <2>3 DEF ContentInv, lines
<1> QED BY <1>10, <1>11

(* Chunks lie within the file and hold text.                               *)
LEMMA ChunksFit ==
  ASSUME ContentInv, NEW n \in DOMAIN chunks, NEW c, c = chunks[n]
  PROVE  LET seg == Content!Segment(Kind, file.lines, c.startLine)
         IN Cuts(file.lines, c.startLine, seg,
                 Content!NextStart(Kind, file.lines, c.startLine), c)
<1>1. IsSegment(Kind, file.lines, line, c) /\ file \in ContentInputs
  BY DEF ContentInv
<1> QED BY <1>1, FilesTyped, ChunksOfSegments DEF IsSegment

LEMMA TextIsPartitioned ==
  ASSUME ContentInv
  PROVE  Content!ChunksPartitionTheText
<1> SUFFICES ASSUME Content!Whole, ~file.binary
             PROVE  /\ \A i \in DOMAIN file.lines : file.lines[i] # "blank" =>
                         Content!Cardinality({n \in DOMAIN chunks : i \in chunks[n].held}) = 1
                    /\ \A n \in 1 .. Len(chunks) - 1 : chunks[n].endLine < chunks[n + 1].startLine
  BY DEF Content!ChunksPartitionTheText
<1>1. /\ failure = "none" /\ line > Len(file.lines) /\ line \in Nat
      /\ chunks \in Seq(Chunk) /\ InOrder(chunks) /\ file \in ContentInputs
      /\ NothingLost(file.lines, line, chunks)
  BY DEF Content!Whole, Content!Ended, ContentInv
<1>2. Len(file.lines) \in Nat /\ DOMAIN file.lines = 1 .. Len(file.lines)
  BY <1>1, FilesTyped
<1>3. Len(chunks) \in Nat /\ DOMAIN chunks = 1 .. Len(chunks)
  BY <1>1
<1>4. ASSUME NEW i \in DOMAIN file.lines, file.lines[i] # "blank"
      PROVE  Content!Cardinality({n \in DOMAIN chunks : i \in chunks[n].held}) = 1
  <2> DEFINE holders == {n \in DOMAIN chunks : i \in chunks[n].held}
  <2>1. PICK n \in DOMAIN chunks : i \in chunks[n].held
    BY <1>1, <1>2, <1>4 DEF NothingLost
  <2>2. ASSUME NEW m \in DOMAIN chunks, i \in chunks[m].held PROVE m = n
    <3>1. /\ i \in chunks[n].startLine .. chunks[n].endLine
          /\ i \in chunks[m].startLine .. chunks[m].endLine
          /\ chunks[n] \in Chunk /\ chunks[m] \in Chunk
      <4>1. /\ chunks[n].held \subseteq chunks[n].startLine .. chunks[n].endLine
            /\ chunks[m].held \subseteq chunks[m].startLine .. chunks[m].endLine
        <5>1. ASSUME NEW k \in DOMAIN chunks
              PROVE  chunks[k].held \subseteq chunks[k].startLine .. chunks[k].endLine
          BY ChunksFit DEF Cuts
        <5> QED BY <5>1
      <4> QED BY <1>1, <2>1, <2>2, <4>1
    <3>2. ~(n < m) /\ ~(m < n)
      <4>1. n < m => chunks[n].endLine < chunks[m].startLine
        BY <1>1 DEF InOrder
      <4>2. m < n => chunks[m].endLine < chunks[n].startLine
        BY <1>1 DEF InOrder
      <4>3. /\ chunks[n].startLine \in Nat /\ chunks[n].endLine \in Nat
            /\ chunks[m].startLine \in Nat /\ chunks[m].endLine \in Nat
        BY <3>1 DEF Chunk
      <4>4. i \in Nat /\ chunks[n].startLine <= i /\ i <= chunks[n].endLine
            /\ chunks[m].startLine <= i /\ i <= chunks[m].endLine
        BY <3>1, <4>3
      <4> QED BY <4>1, <4>2, <4>3, <4>4
    <3> QED BY <1>3, <3>2
  <2>3. holders = {n}
    BY <2>1, <2>2
  <2>4. Cardinality(holders) = 1
    BY <2>3, FS_Singleton
  <2>5. Content!Cardinality(holders) = Cardinality(holders)
    BY DEF Cardinality, Content!Cardinality
  <2> QED BY <2>4, <2>5
<1>5. ASSUME NEW n \in 1 .. Len(chunks) - 1
      PROVE  chunks[n].endLine < chunks[n + 1].startLine
  <2>1. n \in DOMAIN chunks /\ n + 1 \in DOMAIN chunks /\ n < n + 1
    BY <1>3
  <2> QED BY <1>1, <2>1 DEF InOrder
<1> QED BY <1>4, <1>5

LEMMA FileIsNotLeft ==
  ASSUME ContentInv
  PROVE  Content!ChunksFitTheFile
<1> SUFFICES ASSUME NEW n \in DOMAIN chunks
             PROVE  /\ 1 <= chunks[n].startLine /\ chunks[n].startLine <= chunks[n].endLine
                    /\ chunks[n].endLine <= Len(file.lines)
                    /\ chunks[n].held # {}
                    /\ chunks[n].held \subseteq chunks[n].startLine .. chunks[n].endLine
  BY DEF Content!ChunksFitTheFile
<1>1. IsSegment(Kind, file.lines, line, chunks[n]) /\ file \in ContentInputs
  BY DEF ContentInv
<1>2. LET seg == Content!Segment(Kind, file.lines, chunks[n].startLine)
      IN Cuts(file.lines, chunks[n].startLine, seg,
              Content!NextStart(Kind, file.lines, chunks[n].startLine), chunks[n])
  BY ChunksFit
<1>3. chunks[n].held # {} /\ chunks[n].held \subseteq chunks[n].startLine .. chunks[n].endLine
  BY <1>1, <1>2 DEF IsSegment, Cuts
<1> QED BY <1>1, <1>3, FilesTyped DEF IsSegment

LEMMA HeadingsStay ==
  ASSUME ContentInv
  PROVE  Content!HeadingStaysWithItsText
<1> SUFFICES ASSUME Kind = "documentation",
                    \E i \in DOMAIN file.lines : file.lines[i] = "heading",
                    NEW n \in DOMAIN chunks, NEW i \in chunks[n].held,
                    NEW h \in DOMAIN file.lines, h < i, Content!IsHeading(h),
                    \A j \in h + 1 .. i : ~Content!IsHeading(j)
             PROVE  h \in chunks[n].held
  BY DEF Content!HeadingStaysWithItsText, Kind
<1> DEFINE start == chunks[n].startLine
           seg == Content!Segment(Kind, file.lines, start)
<1>1. IsSegment(Kind, file.lines, line, chunks[n]) /\ file \in ContentInputs
  BY DEF ContentInv
<1>2. Cuts(file.lines, start, seg, Content!NextStart(Kind, file.lines, start), chunks[n])
  BY ChunksFit
<1>3. Len(file.lines) \in Nat /\ DOMAIN file.lines = 1 .. Len(file.lines)
  BY <1>1, FilesTyped
<1>4. start \in 1 .. Len(file.lines)
  BY <1>1 DEF IsSegment
<1>5. start = 1 \/ file.lines[start] = "heading"
  BY <1>1, <1>3, <1>4 DEF IsSegment, Beginning, Content!HasHeadings
<1>6. /\ seg.first = start /\ seg.last \in start .. Len(file.lines)
      /\ i \in start .. seg.last /\ Content!Written(file.lines, seg) \subseteq chunks[n].held
  BY <1>2 DEF Cuts
<1> HIDE DEF seg, start
<1>7. start <= h
  <2>1. ~Content!IsHeading(start) \/ ~(start \in h + 1 .. i)
    OBVIOUS
  <2>2. start = 1 \/ ~(start \in h + 1 .. i)
    BY <1>5, <2>1 DEF Content!IsHeading
  <2> QED BY <1>3, <1>4, <1>6, <2>2
<1>8. h \in seg.first .. seg.last
  BY <1>3, <1>4, <1>6, <1>7
<1>9. file.lines[h] # "blank"
  BY DEF Content!IsHeading
<1>10. h \in Content!Written(file.lines, seg)
  BY <1>8, <1>9 DEF Content!Written
<1> QED BY <1>6, <1>10

LEMMA CodeIsCode ==
  ASSUME file \in ContentInputs
  PROVE  Content!OnlyCodeIsCode
<1> DEFINE marks == file.marks
           order == Content!KindsInOrder
           found == {n \in DOMAIN order : order[n].marks \cap marks # {}}
<1>1. /\ Len(order) = 5 /\ DOMAIN order = 1 .. 5
      /\ order[1] = [kind |-> "documentation", marks |-> {"docs/", ".md"}]
      /\ order[2] = [kind |-> "test",          marks |-> {"/test/", ".test."}]
      /\ order[3] = [kind |-> "config",        marks |-> {"dotfile", ".json"}]
      /\ order[4] = [kind |-> "generated",     marks |-> {"dist/"}]
      /\ order[5] = [kind |-> "vendor",        marks |-> {"/vendor/"}]
  BY DEF Content!KindsInOrder
<1>2. Content!SourceKind(marks)
        = IF found = {} THEN "code" ELSE order[CHOOSE n \in found : \A k \in found : n <= k].kind
  BY DEF Content!SourceKind
<1>3. Content!Kind = Content!SourceKind(marks)
  BY DEF Content!Kind
<1> HIDE DEF order
<1>4. ASSUME found # {}
      PROVE  \E n \in found : Content!Kind = order[n].kind /\ \A k \in found : n <= k
  <2>1. found \subseteq Nat
    BY <1>1
  <2>2. PICK n \in found : \A k \in found : n <= k
    BY <1>4, <2>1, LeastNumber
  <2> QED BY <1>2, <1>3, <1>4, <2>2
<1>5. ASSUME Content!Kind = "code"
      PROVE  marks \cap {"dotfile", ".md", ".test."} = {}
  <2>1. found = {}
    <3>1. SUFFICES ASSUME found # {} PROVE FALSE
      OBVIOUS
    <3>2. PICK n \in found : Content!Kind = order[n].kind
      BY <1>4, <3>1
    <3>3. n = 1 \/ n = 2 \/ n = 3 \/ n = 4 \/ n = 5
      BY <1>1
    <3> QED BY <1>1, <1>5, <3>2, <3>3
  <2>2. 1 \notin found /\ 2 \notin found /\ 3 \notin found
    BY <2>1
  <2> QED BY <1>1, <2>2
<1>6. ASSUME ".md" \in marks
      PROVE  Content!Kind = "documentation"
  <2>1. 1 \in found
    BY <1>1, <1>6
  <2>2. PICK n \in found : Content!Kind = order[n].kind /\ \A k \in found : n <= k
    BY <1>4, <2>1
  <2>3. n \in 1 .. 5 /\ n <= 1
    BY <1>1, <2>1, <2>2
  <2> QED BY <1>1, <2>2, <2>3
<1> QED BY <1>5, <1>6 DEF Content!OnlyCodeIsCode

-----------------------------------------------------------------------------
(***************************************************************************)
(* Boundary maps.                                                          *)
(***************************************************************************)
BPaths == Boundaries!Paths

LEMMA PathsTyped ==
  ASSUME NEW p \in BPaths
  PROVE  p \in Seq(DOMAIN Words) /\ Len(p) \in Nat /\ Len(p) >= 1 /\ DOMAIN p = 1 .. Len(p)
<1>1. p \in Seq(DOMAIN Words) /\ p # <<>>
  BY DEF BPaths, Boundaries!Paths
<1> QED BY <1>1

(* A path that is where another one begins. *)
Starts(s, p) == s \in BPaths /\ Len(s) <= Len(p) /\ \A n \in 1 .. Len(s) : s[n] = p[n]

LEMMA PrefixesStart ==
  ASSUME NEW s \in BPaths, NEW p \in BPaths
  PROVE  Boundaries!IsPrefix(s, p) <=> Starts(s, p)
<1>1. /\ s \in Seq(DOMAIN Words) /\ Len(s) \in Nat /\ p \in Seq(DOMAIN Words) /\ Len(p) \in Nat
  BY PathsTyped
<1>2. CASE Len(s) <= Len(p)
  <2>1. /\ SubSeq(s, 1, Len(s)) = [n \in 1 .. Len(s) |-> s[n]]
        /\ SubSeq(p, 1, Len(s)) = [n \in 1 .. Len(s) |-> p[n]]
    BY <1>1, <1>2
  <2>2. SubSeq(s, 1, Len(s)) = SubSeq(p, 1, Len(s)) <=> \A n \in 1 .. Len(s) : s[n] = p[n]
    BY <2>1
  <2> QED BY <1>2, <2>2 DEF Boundaries!IsPrefix, Starts
<1>3. CASE ~(Len(s) <= Len(p))
  BY <1>3 DEF Boundaries!IsPrefix, Starts
<1> QED BY <1>2, <1>3

LEMMA FrontsStart ==
  ASSUME NEW p \in BPaths, NEW n \in 1 .. Len(p)
  PROVE  Starts(SubSeq(p, 1, n), p) /\ Len(SubSeq(p, 1, n)) = n
<1>1. p \in Seq(DOMAIN Words) /\ Len(p) \in Nat
  BY PathsTyped
<1>2. SubSeq(p, 1, n) \in Seq(DOMAIN Words) /\ Len(SubSeq(p, 1, n)) = n
  BY <1>1
<1>3. \A k \in 1 .. n : SubSeq(p, 1, n)[k] = p[k]
  BY <1>1
<1>4. SubSeq(p, 1, n) # <<>>
  BY <1>2
<1> QED BY <1>1, <1>2, <1>3, <1>4 DEF Starts, BPaths, Boundaries!Paths

LEMMA SameStart ==
  ASSUME NEW s, NEW t, NEW p \in BPaths, Starts(s, p), Starts(t, p), Len(s) = Len(t)
  PROVE  s = t
<1>1. /\ s \in Seq(DOMAIN Words) /\ t \in Seq(DOMAIN Words)
      /\ \A n \in 1 .. Len(s) : s[n] = t[n]
  BY PathsTyped DEF Starts
<1> QED BY <1>1

LEMMA StartsOfStarts ==
  ASSUME NEW s, NEW t, NEW p \in BPaths, Starts(s, t), Starts(t, p)
  PROVE  Starts(s, p)
<1>1. Len(s) \in Nat /\ Len(t) \in Nat /\ Len(p) \in Nat /\ Len(s) <= Len(t) /\ Len(t) <= Len(p)
  BY PathsTyped DEF Starts
<1> QED BY <1>1 DEF Starts

LEMMA LongestRule ==
  ASSUME NEW rules, \A r \in rules : r.prefix \in BPaths, NEW p \in BPaths,
         Boundaries!Matching(rules, p) # {}
  PROVE  /\ Boundaries!ScopedRule(rules, p) \in Boundaries!Matching(rules, p)
         /\ \A q \in Boundaries!Matching(rules, p) :
              Len(q.prefix) <= Len(Boundaries!ScopedRule(rules, p).prefix)
<1> DEFINE found == Boundaries!Matching(rules, p)
           short == {Len(p) - Len(r.prefix) : r \in found}
<1>1. \A r \in found : Len(r.prefix) \in Nat /\ Len(r.prefix) <= Len(p) /\ Len(p) \in Nat
  BY PathsTyped, PrefixesStart DEF Boundaries!Matching, Starts
<1>2. short \subseteq Nat /\ short # {}
  BY <1>1
<1>3. PICK m \in short : \A k \in short : m <= k
  BY <1>2, LeastNumber
<1>4. PICK r \in found : m = Len(p) - Len(r.prefix)
  BY <1>3
<1>5. \A q \in found : Len(q.prefix) <= Len(r.prefix)
  <2> SUFFICES ASSUME NEW q \in found PROVE Len(q.prefix) <= Len(r.prefix)
    OBVIOUS
  <2>1. Len(p) - Len(q.prefix) \in short
    OBVIOUS
  <2>2. Len(p) - Len(r.prefix) <= Len(p) - Len(q.prefix)
    BY <1>3, <1>4, <2>1
  <2> QED BY <1>1, <2>2
<1> QED BY <1>4, <1>5 DEF Boundaries!ScopedRule

(* Two paths with the same longest prefix have the same rule. *)
LEMMA SameRule ==
  ASSUME NEW rules, \A r \in rules : r.prefix \in BPaths, NEW p \in BPaths, NEW q \in BPaths,
         Boundaries!Matching(rules, p) # {}, Boundaries!Matching(rules, q) # {},
         Boundaries!ScopedRule(rules, p).prefix = Boundaries!ScopedRule(rules, q).prefix
  PROVE  Boundaries!ScopedRule(rules, p) = Boundaries!ScopedRule(rules, q)
<1> DEFINE long(x) == {r \in Boundaries!Matching(rules, x) :
                         \A s \in Boundaries!Matching(rules, x) : Len(s.prefix) <= Len(r.prefix)}
           a == Boundaries!ScopedRule(rules, p)
           b == Boundaries!ScopedRule(rules, q)
<1>1. ASSUME NEW x \in BPaths, Boundaries!Matching(rules, x) # {}
      PROVE  long(x) = {r \in rules : r.prefix = Boundaries!ScopedRule(rules, x).prefix}
  <2> DEFINE c == Boundaries!ScopedRule(rules, x)
  <2>1. c \in long(x) /\ \A r \in Boundaries!Matching(rules, x) : Starts(r.prefix, x)
    BY <1>1, LongestRule, PrefixesStart DEF Boundaries!Matching
  <2>2. ASSUME NEW r \in long(x) PROVE r.prefix = c.prefix
    <3>1. Len(r.prefix) <= Len(c.prefix) /\ Len(c.prefix) <= Len(r.prefix)
      BY <2>1, <2>2
    <3>2. Len(r.prefix) \in Nat /\ Len(c.prefix) \in Nat
      BY <2>1, <2>2, PathsTyped DEF Starts
    <3> QED BY <2>1, <2>2, <3>1, <3>2, SameStart
  <2>3. ASSUME NEW r \in rules, r.prefix = c.prefix PROVE r \in long(x)
    BY <2>1, <2>3 DEF Boundaries!Matching
  <2>4. long(x) \subseteq rules
    BY DEF Boundaries!Matching
  <2> QED BY <2>2, <2>3, <2>4
<1>2. long(p) = long(q)
  BY <1>1
<1>3. \A r : r \in Boundaries!Matching(rules, p)
               /\ (\A s \in Boundaries!Matching(rules, p) : Len(s.prefix) <= Len(r.prefix))
             <=> r \in Boundaries!Matching(rules, q)
               /\ (\A s \in Boundaries!Matching(rules, q) : Len(s.prefix) <= Len(r.prefix))
  BY <1>2
<1> QED BY <1>3 DEF Boundaries!ScopedRule

SeedOf(rules, p) == Boundaries!Seed(rules, p)

LEMMA SeedsAreTheirRoots ==
  ASSUME NEW rules, NEW p
  PROVE  SeedOf(rules, p) =
           [id |-> <<SeedOf(rules, p).kind, Boundaries!Identifier(SeedOf(rules, p).root)>>,
            kind |-> SeedOf(rules, p).kind, root |-> SeedOf(rules, p).root]
<1> DEFINE of(kind, root) == [id |-> <<kind, Boundaries!Identifier(root)>>, kind |-> kind, root |-> root]
<1>1. \E kind, root : SeedOf(rules, p) = of(kind, root)
  BY DEF SeedOf, Boundaries!Seed
<1>2. PICK kind, root : SeedOf(rules, p) = of(kind, root)
  BY <1>1
<1>3. SeedOf(rules, p).kind = kind /\ SeedOf(rules, p).root = root
  BY <1>2
<1> QED BY <1>2, <1>3

(* A test suite is rooted at the first test directory of its path.         *)
TestRooted(seed, p, t) ==
  /\ t \in 1 .. Len(p) /\ p[t] \in TestNames /\ \A k \in 1 .. t - 1 : p[k] \notin TestNames
  /\ seed.kind = "test-suite" /\ Starts(seed.root, p) /\ Len(seed.root) = t

LEMMA TestSeeds ==
  ASSUME NEW rules, NEW p \in BPaths, Boundaries!InTestDirectory(p)
  PROVE  \E t \in Nat : TestRooted(SeedOf(rules, p), p, t)
<1> DEFINE tests == {n \in DOMAIN p : p[n] \in TestNames}
           t == CHOOSE n \in DOMAIN p :
                  p[n] \in TestNames /\ \A k \in 1 .. n - 1 : p[k] \notin TestNames
<1>1. Len(p) \in Nat /\ DOMAIN p = 1 .. Len(p)
  BY PathsTyped
<1>2. tests \subseteq Nat /\ tests # {}
  BY <1>1 DEF Boundaries!InTestDirectory
<1>3. PICK m \in tests : \A k \in tests : m <= k
  BY <1>2, LeastNumber
<1>4. \A k \in 1 .. m - 1 : p[k] \notin TestNames
  BY <1>1, <1>3
<1>5. t \in DOMAIN p /\ p[t] \in TestNames /\ \A k \in 1 .. t - 1 : p[k] \notin TestNames
  BY <1>3, <1>4
<1>6. /\ SeedOf(rules, p).kind = "test-suite"
      /\ SeedOf(rules, p).root = SubSeq(p, 1, t)
  BY DEF SeedOf, Boundaries!Seed, Boundaries!TestRoot
<1> HIDE DEF t
<1>7. Starts(SubSeq(p, 1, t), p) /\ Len(SubSeq(p, 1, t)) = t
  BY <1>1, <1>5, FrontsStart
<1> QED BY <1>1, <1>5, <1>6, <1>7 DEF TestRooted

(* Any other boundary is rooted at the prefix of its rule, or one segment  *)
(* below it.                                                               *)
RuleRooted(rule, root, p) ==
  /\ Starts(rule.prefix, p) /\ Starts(root, p) /\ Starts(rule.prefix, root)
  /\ Len(root) # Len(rule.prefix) => Len(rule.prefix) = 1 /\ Len(root) = 2
  /\ Len(rule.prefix) = 1 => (Len(root) = 2 <=> Len(p) >= 2 /\ p[2] \notin Dotted)

LEMMA RuleSeeds ==
  ASSUME NEW rules, \A r \in rules : r.prefix \in BPaths, NEW p \in BPaths,
         ~Boundaries!InTestDirectory(p), Boundaries!Matching(rules, p) # {},
         NEW rule, rule = Boundaries!ScopedRule(rules, p)
  PROVE  SeedOf(rules, p).kind = rule.kind /\ RuleRooted(rule, SeedOf(rules, p).root, p)
<1> DEFINE root == SeedOf(rules, p).root
<1>1. SeedOf(rules, p).kind = rule.kind /\ root = Boundaries!RuleRoot(rule, p)
  BY DEF SeedOf, Boundaries!Seed
<1> HIDE DEF root
<1>2. rule \in Boundaries!Matching(rules, p)
  BY LongestRule
<1>3. Starts(rule.prefix, p) /\ rule.prefix \in BPaths
  BY <1>2, PrefixesStart DEF Boundaries!Matching
<1>4. Len(rule.prefix) \in Nat /\ Len(rule.prefix) >= 1 /\ Len(p) \in Nat
  BY <1>3, PathsTyped
<1>5. CASE Len(rule.prefix) = 1 /\ Len(p) >= 2 /\ p[2] \notin Dotted
  <2>1. root = SubSeq(p, 1, 2) /\ 2 \in 1 .. Len(p)
    BY <1>1, <1>4, <1>5 DEF Boundaries!RuleRoot
  <2>2. Starts(root, p) /\ Len(root) = 2
    BY <2>1, FrontsStart
  <2>3. Starts(rule.prefix, root)
    BY <1>3, <1>5, <2>2 DEF Starts
  <2> QED BY <1>1, <1>3, <1>5, <2>2, <2>3 DEF RuleRooted, root
<1>6. CASE ~(Len(rule.prefix) = 1 /\ Len(p) >= 2 /\ p[2] \notin Dotted)
  <2>1. root = rule.prefix
    BY <1>1, <1>6 DEF Boundaries!RuleRoot
  <2>2. Starts(root, root)
    BY <1>3, <1>4, <2>1 DEF Starts
  <2>3. Len(rule.prefix) = 1 => ~(Len(root) = 2)
    BY <2>1
  <2> QED BY <1>1, <1>3, <1>6, <2>1, <2>2, <2>3 DEF RuleRooted, root
<1> QED BY <1>5, <1>6

(* Where the root of one path is around another path, the root of that     *)
(* path is at least as long, and is of the same boundary when it is not    *)
(* longer.                                                                 *)
LEMMA RootsNest ==
  ASSUME NEW rules, \A r \in rules : r.prefix \in BPaths, NEW p \in BPaths, NEW q \in BPaths,
         Boundaries!HasRoot(rules, p), Boundaries!HasRoot(rules, q),
         Starts(SeedOf(rules, q).root, p)
  PROVE  /\ Len(SeedOf(rules, q).root) <= Len(SeedOf(rules, p).root)
         /\ Len(SeedOf(rules, q).root) = Len(SeedOf(rules, p).root) =>
              SeedOf(rules, q) = SeedOf(rules, p)
<1> DEFINE a == SeedOf(rules, p)
           b == SeedOf(rules, q)
<1>1. a.kind = b.kind /\ a.root = b.root => a = b
  BY SeedsAreTheirRoots
<1> HIDE DEF a, b
<1>2. Starts(b.root, p)
  BY DEF b
<1>3. Len(p) \in Nat /\ DOMAIN p = 1 .. Len(p) /\ Len(q) \in Nat /\ DOMAIN q = 1 .. Len(q)
  BY PathsTyped
<1>4. CASE Boundaries!InTestDirectory(p) /\ Boundaries!InTestDirectory(q)
  <2>1. PICK t \in Nat : TestRooted(a, p, t)
    BY <1>4, TestSeeds DEF a
  <2>2. PICK u \in Nat : TestRooted(b, q, u)
    BY <1>4, TestSeeds DEF b
  <2>3. u \in 1 .. Len(p) /\ \A k \in 1 .. u : p[k] = q[k]
    BY <1>2, <1>3, <2>2 DEF TestRooted, Starts
  <2>4. ~(u < t)
    <3>1. SUFFICES ASSUME u < t PROVE FALSE
      OBVIOUS
    <3>2. u \in 1 .. t - 1 /\ p[u] = q[u]
      BY <2>2, <2>3, <3>1 DEF TestRooted
    <3> QED BY <2>1, <2>2, <3>2 DEF TestRooted
  <2>5. ~(t < u)
    <3>1. SUFFICES ASSUME t < u PROVE FALSE
      OBVIOUS
    <3>2. t \in 1 .. u - 1 /\ t \in 1 .. u
      BY <2>1, <3>1 DEF TestRooted
    <3>3. p[t] = q[t]
      BY <2>3, <3>2
    <3> QED BY <2>1, <2>2, <3>2, <3>3 DEF TestRooted
  <2>6. t = u /\ Len(a.root) = t /\ Len(b.root) = t /\ Starts(a.root, p) /\ a.kind = b.kind
    BY <2>1, <2>2, <2>4, <2>5 DEF TestRooted
  <2>7. a.root = b.root
    BY <1>2, <2>6, SameStart
  <2> QED BY <1>1, <2>6, <2>7 DEF a, b
<1>5. CASE Boundaries!InTestDirectory(p) /\ ~Boundaries!InTestDirectory(q)
  <2>1. PICK t \in Nat : TestRooted(a, p, t)
    BY <1>5, TestSeeds DEF a
  <2>2. Starts(b.root, q)
    BY <1>5, RuleSeeds DEF Boundaries!HasRoot, RuleRooted, b
  <2>3. Len(b.root) \in Nat /\ Len(b.root) <= Len(q)
    BY <2>2, PathsTyped DEF Starts
  <2>4. Len(b.root) < t
    <3>1. SUFFICES ASSUME t \in 1 .. Len(b.root) PROVE FALSE
      BY <2>1, <2>3 DEF TestRooted
    <3>2. p[t] = q[t] /\ t \in DOMAIN q
      BY <1>2, <1>3, <2>2, <2>3, <3>1 DEF Starts
    <3> QED BY <1>5, <2>1, <3>2 DEF Boundaries!InTestDirectory, TestRooted
  <2> QED BY <2>1, <2>3, <2>4 DEF TestRooted, a, b
<1>6. CASE ~Boundaries!InTestDirectory(p) /\ Boundaries!InTestDirectory(q)
  <2>1. PICK u \in Nat : TestRooted(b, q, u)
    BY <1>6, TestSeeds DEF b
  <2>2. u \in 1 .. Len(b.root) /\ Len(b.root) <= Len(p)
    BY <1>2, <2>1 DEF TestRooted, Starts
  <2>3. p[u] = q[u] /\ u \in DOMAIN p
    BY <1>2, <1>3, <2>1, <2>2 DEF TestRooted, Starts
  <2> QED BY <1>6, <2>1, <2>3 DEF Boundaries!InTestDirectory, TestRooted
<1>7. CASE ~Boundaries!InTestDirectory(p) /\ ~Boundaries!InTestDirectory(q)
  <2> DEFINE r == Boundaries!ScopedRule(rules, p)
             s == Boundaries!ScopedRule(rules, q)
  <2>1. /\ Boundaries!Matching(rules, p) # {} /\ Boundaries!Matching(rules, q) # {}
        /\ a.kind = r.kind /\ RuleRooted(r, a.root, p)
        /\ b.kind = s.kind /\ RuleRooted(s, b.root, q)
    BY <1>7, RuleSeeds DEF Boundaries!HasRoot, a, b
  <2>2. /\ r \in rules /\ s \in rules /\ r.prefix \in BPaths /\ s.prefix \in BPaths
        /\ \A x \in Boundaries!Matching(rules, p) : Len(x.prefix) <= Len(r.prefix)
        /\ \A x \in Boundaries!Matching(rules, q) : Len(x.prefix) <= Len(s.prefix)
    BY <2>1, LongestRule DEF Boundaries!Matching
  <2>3. r.prefix = s.prefix => r = s
    BY <2>1, SameRule
  <2> HIDE DEF r, s
  <2>4. /\ Len(a.root) \in Nat /\ Len(b.root) \in Nat
        /\ Len(r.prefix) \in Nat /\ Len(s.prefix) \in Nat
        /\ Len(r.prefix) >= 1 /\ Len(s.prefix) >= 1
        /\ Len(r.prefix) <= Len(a.root) /\ Len(s.prefix) <= Len(b.root)
        /\ Len(b.root) <= Len(p) /\ Len(b.root) <= Len(q)
    BY <1>2, <2>1, <2>2, PathsTyped DEF RuleRooted, Starts
  <2>5. Starts(s.prefix, p)
    BY <1>2, <2>1, StartsOfStarts DEF RuleRooted
  <2>6. Len(s.prefix) <= Len(r.prefix)
    <3>1. s \in Boundaries!Matching(rules, p)
      BY <2>2, <2>5, PrefixesStart DEF Boundaries!Matching
    <3> QED BY <2>2, <3>1
  <2>7. CASE Len(s.prefix) = Len(r.prefix)
    <3>1. r = s
      BY <2>1, <2>3, <2>5, <2>7, SameStart DEF RuleRooted
    <3>2. CASE Len(r.prefix) = 1
      <4>1. Len(b.root) = 2 => Len(p) >= 2 /\ p[2] \notin Dotted
        <5>1. SUFFICES ASSUME Len(b.root) = 2 PROVE Len(p) >= 2 /\ p[2] \notin Dotted
          OBVIOUS
        <5>2. q[2] \notin Dotted
          BY <2>1, <3>1, <3>2, <5>1 DEF RuleRooted
        <5>3. 2 \in 1 .. Len(b.root) /\ b.root[2] = p[2] /\ b.root[2] = q[2]
          BY <1>2, <2>1, <5>1 DEF RuleRooted, Starts
        <5> QED BY <2>4, <5>1, <5>2, <5>3
      <4>2. Len(b.root) = 2 => Len(a.root) = 2
        BY <2>1, <3>2, <4>1 DEF RuleRooted
      <4>3. Len(a.root) \in {1, 2} /\ Len(b.root) \in {1, 2}
        BY <2>1, <3>1, <3>2 DEF RuleRooted
      <4>4. Len(a.root) = Len(b.root) => a.root = b.root
        BY <1>2, <2>1, SameStart DEF RuleRooted
      <4>5. Len(b.root) <= Len(a.root)
        <5>1. \A x, y \in Nat : x \in {1, 2} /\ y \in {1, 2} /\ (y = 2 => x = 2) => y <= x
          OBVIOUS
        <5> QED BY <2>4, <4>2, <4>3, <5>1
      <4> QED BY <1>1, <2>1, <3>1, <4>4, <4>5 DEF a, b
    <3>3. CASE Len(r.prefix) # 1
      <4>1. Len(a.root) = Len(r.prefix) /\ Len(b.root) = Len(r.prefix)
        BY <2>1, <3>1, <3>3 DEF RuleRooted
      <4>2. a.root = b.root
        BY <1>2, <2>1, <4>1, SameStart DEF RuleRooted
      <4> QED BY <1>1, <2>1, <2>4, <3>1, <4>1, <4>2 DEF a, b
    <3> QED BY <3>2, <3>3
  <2>8. CASE Len(s.prefix) # Len(r.prefix)
    <3>1. Len(s.prefix) < Len(r.prefix)
      BY <2>4, <2>6, <2>8
    <3>2. CASE Len(b.root) = Len(s.prefix)
      BY <2>4, <3>1, <3>2 DEF a, b
    <3>3. CASE Len(b.root) # Len(s.prefix)
      <4>1. Len(s.prefix) = 1 /\ Len(b.root) = 2
        BY <2>1, <3>3 DEF RuleRooted
      <4>2. Len(r.prefix) # 2
        <5>1. SUFFICES ASSUME Len(r.prefix) = 2 PROVE FALSE
          OBVIOUS
        <5>2. r.prefix = b.root
          BY <1>2, <2>1, <4>1, <5>1, SameStart DEF RuleRooted
        <5>3. Starts(r.prefix, q)
          BY <2>1, <5>2 DEF RuleRooted
        <5>4. r \in Boundaries!Matching(rules, q)
          BY <2>2, <5>3, PrefixesStart DEF Boundaries!Matching
        <5>5. Len(r.prefix) <= Len(s.prefix)
          BY <2>2, <5>4
        <5> QED BY <2>4, <3>1, <5>5
      <4>3. Len(b.root) < Len(a.root)
        <5>1. Len(r.prefix) > 2
          <6>1. \A x, y \in Nat : x = 1 /\ x < y /\ y # 2 => y > 2
            OBVIOUS
          <6> QED BY <2>4, <3>1, <4>1, <4>2, <6>1
        <5> QED BY <2>4, <4>1, <5>1
      <4> QED BY <2>4, <4>3 DEF a, b
    <3> QED BY <3>2, <3>3
  <2> QED BY <2>7, <2>8
<1> QED BY <1>4, <1>5, <1>6, <1>7

(* Two indexes that list the same files, in whatever order.                *)
SameIndex(in, other) ==
  /\ Boundaries!ToSet(other.files) = Boundaries!ToSet(in.files)
  /\ other.symbols = in.symbols /\ other.dependencies = in.dependencies
  /\ other.included = in.included /\ other.rules = in.rules

LEMMA SameFacts ==
  ASSUME NEW in, NEW other, SameIndex(in, other)
  PROVE  /\ Boundaries!Covered(other) = Boundaries!Covered(in)
         /\ Boundaries!Seeds(other) = Boundaries!Seeds(in)
         /\ Boundaries!Symbols(other) = Boundaries!Symbols(in)
         /\ Boundaries!Dependencies(other) = Boundaries!Dependencies(in)
         /\ \A path : Boundaries!FileAt(other, path) = Boundaries!FileAt(in, path)
         /\ \A seed : Boundaries!BoundaryOf(other, seed) = Boundaries!BoundaryOf(in, seed)
<1>1. Boundaries!Covered(other) = Boundaries!Covered(in)
  BY DEF SameIndex, Boundaries!Covered
<1>2. Boundaries!Seeds(other) = Boundaries!Seeds(in)
  BY <1>1 DEF Boundaries!Seeds
<1>3. Boundaries!Symbols(other) = Boundaries!Symbols(in)
  BY DEF SameIndex, Boundaries!Symbols
<1>4. Boundaries!Dependencies(other) = Boundaries!Dependencies(in)
  BY DEF SameIndex, Boundaries!Dependencies
<1>5. ASSUME NEW path PROVE Boundaries!FileAt(other, path) = Boundaries!FileAt(in, path)
  BY DEF SameIndex, Boundaries!FileAt
<1>6. ASSUME NEW seed PROVE Boundaries!BoundaryOf(other, seed) = Boundaries!BoundaryOf(in, seed)
  BY <1>2 DEF SameIndex, Boundaries!BoundaryOf
<1> QED BY <1>1, <1>2, <1>3, <1>4, <1>5, <1>6

LEMMA SameRelations ==
  ASSUME NEW in, NEW other, SameIndex(in, other), NEW bs
  PROVE  /\ Boundaries!Relations(other, bs) = Boundaries!Relations(in, bs)
         /\ Boundaries!Crossing(other, bs) = Boundaries!Crossing(in, bs)
<1>1. \A d : Boundaries!Targets(other, bs, d) = Boundaries!Targets(in, bs, d)
  BY SameFacts DEF Boundaries!Targets
<1>2. \A d : Boundaries!RelationKind(other, d) = Boundaries!RelationKind(in, d)
  BY SameFacts DEF Boundaries!RelationKind
<1>3. Boundaries!Crossing(other, bs) = Boundaries!Crossing(in, bs)
  BY <1>1, SameFacts DEF Boundaries!Crossing
<1>4. \A c : Boundaries!RelationOf(other, c) = Boundaries!RelationOf(in, c)
  BY <1>2 DEF Boundaries!RelationOf
<1>5. \A d : Boundaries!Reference(other, d) = Boundaries!Reference(in, d)
  BY <1>2, SameFacts DEF Boundaries!Reference
<1>6. Boundaries!Relations(other, bs) = Boundaries!Relations(in, bs)
  BY <1>2, <1>3, <1>4, <1>5 DEF Boundaries!Relations
<1> QED BY <1>3, <1>6

IsIndex(in) ==
  /\ in.files \in Seq(Boundaries!Files) /\ Len(in.files) \in Nat
  /\ DOMAIN in.files = 1 .. Len(in.files)
  /\ \A f \in Boundaries!ToSet(in.files) :
       f.path \in BPaths /\ \E n \in DOMAIN in.files : f = in.files[n]
  /\ \A f \in Boundaries!Seeds(in) : f \in Boundaries!ToSet(in.files)
  /\ \A s, t \in in.symbols : s.key = t.key => s = t
  /\ \A d \in in.dependencies : \E f \in Boundaries!ToSet(in.files) : f.path = d.file
  /\ \A r \in in.rules : r.prefix \in BPaths

(* A suite that some test verifies has one harness, one of these tests.    *)
LEMMA HarnessIsATest ==
  ASSUME NEW in, IsIndex(in), NEW bs, NEW b, Boundaries!TestRefs(in, bs, b) # {}
  PROVE  \E t \in Boundaries!TestRefs(in, bs, b) : Boundaries!Harness(in, bs, b) = {t}
<1> DEFINE refs == Boundaries!TestRefs(in, bs, b)
           tests == {n \in DOMAIN in.files : in.files[n].path \in refs}
<1>1. PICK f \in Boundaries!Covered(in) : f.path \in refs
  BY DEF Boundaries!TestRefs
<1>2. f \in Boundaries!ToSet(in.files)
  BY <1>1 DEF Boundaries!Covered
<1>3. tests \subseteq Nat /\ tests # {}
  BY <1>1, <1>2 DEF IsIndex
<1>4. PICK n \in tests : \A k \in tests : n <= k
  BY <1>3, LeastNumber
<1>5. \A k \in tests : (\A j \in tests : k <= j) => k = n
  <2> SUFFICES ASSUME NEW k \in tests, \A j \in tests : k <= j PROVE k = n
    OBVIOUS
  <2>1. k <= n /\ n <= k /\ k \in Nat /\ n \in Nat
    BY <1>3, <1>4
  <2> QED BY <2>1
<1>6. Boundaries!Harness(in, bs, b) = {in.files[k].path : k \in {m \in tests : \A j \in tests : m <= j}}
  BY DEF Boundaries!Harness
<1>7. in.files[n].path \in refs
  BY <1>4
<1> HIDE DEF refs, tests
<1>8. {m \in tests : \A j \in tests : m <= j} = {n}
  BY <1>4, <1>5
<1>9. Boundaries!Harness(in, bs, b) = {in.files[n].path}
  BY <1>6, <1>8
<1> QED BY <1>7, <1>9 DEF refs

LEMMA NoTestNoHarness ==
  ASSUME NEW in, NEW bs, NEW b, Boundaries!TestRefs(in, bs, b) = {}
  PROVE  Boundaries!Harness(in, bs, b) = {}
BY DEF Boundaries!Harness

(* What is said of a boundary, but for the harness of a test suite.        *)
LEMMA SameDescriptions ==
  ASSUME NEW in, NEW other, SameIndex(in, other), IsIndex(in), IsIndex(other), NEW bs, NEW b
  PROVE  LET here == Boundaries!Described(in, bs, b)
             there == Boundaries!Described(other, bs, b)
         IN \/ there = here
            \/ /\ b.kind = "test-suite"
               /\ \E s, t \in here.tests :
                    /\ here.entrypoints = {s}
                    /\ there = [here EXCEPT !.entrypoints = {t}]
<1> DEFINE here == Boundaries!Described(in, bs, b)
           there == Boundaries!Described(other, bs, b)
           tests == Boundaries!TestRefs(in, bs, b)
           e == Boundaries!Entrypoints(in, bs, b)
           f == Boundaries!Entrypoints(other, bs, b)
<1>1. Boundaries!TestRefs(other, bs, b) = tests
  BY SameFacts, SameRelations DEF Boundaries!TestRefs
<1>2. Boundaries!ContractRefs(other, bs, b) = Boundaries!ContractRefs(in, bs, b)
  BY SameFacts DEF Boundaries!ContractRefs
<1>3. Boundaries!OwnedSymbols(other, bs, b) = Boundaries!OwnedSymbols(in, bs, b)
  BY SameFacts DEF Boundaries!OwnedSymbols
<1>4. Boundaries!ToolEntrypoint(other, b) = Boundaries!ToolEntrypoint(in, b)
  BY SameFacts DEF Boundaries!ToolEntrypoint
<1>5. f = e \/ (b.kind = "test-suite" /\ \E s, t \in tests : e = {s} /\ f = {t})
  <2>1. \/ f = e
        \/ /\ b.kind = "test-suite"
           /\ e = Boundaries!Harness(in, bs, b) /\ f = Boundaries!Harness(other, bs, b)
    BY <1>1, <1>3, <1>4 DEF Boundaries!Entrypoints
  <2>2. CASE tests = {}
    BY <1>1, <2>1, <2>2, NoTestNoHarness
  <2>3. CASE tests # {}
    BY <1>1, <2>1, <2>3, HarnessIsATest
  <2> QED BY <2>2, <2>3
<1>6. f = {} <=> e = {}
  BY <1>5
<1>7. Boundaries!Confidence(other, bs, b) = Boundaries!Confidence(in, bs, b)
  BY <1>1, <1>2, <1>6 DEF Boundaries!Confidence
<1>8. Boundaries!Questions(other, bs, b) = Boundaries!Questions(in, bs, b)
  BY <1>1, <1>2, <1>6 DEF Boundaries!Questions
<1>9. there = [here EXCEPT !.entrypoints = f]
  <2> DEFINE symbols == {s.key : s \in Boundaries!OwnedSymbols(in, bs, b)}
             contracts == Boundaries!ContractRefs(in, bs, b)
             questions == Boundaries!Questions(in, bs, b)
             confidence == Boundaries!Confidence(in, bs, b)
             With(x) == [id |-> b.id, kind |-> b.kind, paths |-> b.paths, symbols |-> symbols,
                         entrypoints |-> x, contracts |-> contracts, tests |-> tests,
                         questions |-> questions, confidence |-> confidence]
  <2>1. here = With(e)
    BY DEF Boundaries!Described
  <2>2. there = With(f)
    BY <1>1, <1>2, <1>3, <1>7, <1>8 DEF Boundaries!Described
  <2> HIDE DEF here, there, tests, e, f, symbols, contracts, questions, confidence
  <2>3. With(f) = [With(e) EXCEPT !.entrypoints = f]
    OBVIOUS
  <2> HIDE DEF With
  <2> QED BY <2>1, <2>2, <2>3
<1>10. here.tests = tests /\ here.entrypoints = e /\ here = [here EXCEPT !.entrypoints = e]
  BY DEF Boundaries!Described
<1> HIDE DEF here, there, tests, e, f
<1>11. f = e => there = here
  BY <1>9, <1>10
<1>12. ASSUME NEW s \in tests, NEW t \in tests, e = {s}, f = {t}
       PROVE  \E x, y \in here.tests :
                here.entrypoints = {x} /\ there = [here EXCEPT !.entrypoints = {y}]
  BY <1>9, <1>10, <1>12
<1>13. \/ there = here
       \/ b.kind = "test-suite" /\ \E x, y \in here.tests :
            here.entrypoints = {x} /\ there = [here EXCEPT !.entrypoints = {y}]
  BY <1>5, <1>11, <1>12
<1> QED BY <1>13 DEF here, there

LEMMA IndexesTyped ==
  ASSUME NEW in \in BoundaryInputs
  PROVE  /\ DOMAIN in = {"files", "symbols", "dependencies", "included", "rules"}
         /\ IsIndex(in)
<1>1. Boundaries!InputsAreIndexes
  BY ConstantsAreSound
<1>2. /\ DOMAIN in = {"files", "symbols", "dependencies", "included", "rules"}
      /\ in.files \in Seq(Boundaries!Files)
      /\ \A s, t \in in.symbols : s.key = t.key => s = t
      /\ \A d \in in.dependencies : \E f \in Boundaries!ToSet(in.files) : f.path = d.file
      /\ \A r \in in.rules : r.prefix \in BPaths
  BY <1>1 DEF Boundaries!InputsAreIndexes, BPaths
<1>3. Len(in.files) \in Nat /\ DOMAIN in.files = 1 .. Len(in.files)
  BY <1>2
<1>4. ASSUME NEW f \in Boundaries!ToSet(in.files)
      PROVE  f.path \in BPaths /\ \E n \in DOMAIN in.files : f = in.files[n]
  <2>1. PICK n \in DOMAIN in.files : f = in.files[n]
    BY DEF Boundaries!ToSet
  <2>2. f \in Boundaries!Files
    BY <1>2, <1>3, <2>1
  <2> QED BY <2>1, <2>2 DEF Boundaries!Files, BPaths
<1>5. \A f \in Boundaries!Seeds(in) : f \in Boundaries!ToSet(in.files)
  BY DEF Boundaries!Seeds, Boundaries!Covered
<1> QED BY <1>2, <1>3, <1>4, <1>5 DEF IsIndex

IdOf(in, f) == SeedOf(in.rules, f.path).id

(* Each identifier has a first file, and one boundary.                     *)
LEMMA FirstFiles ==
  ASSUME NEW in, IsIndex(in), NEW f \in Boundaries!Seeds(in)
  PROVE  \E n \in DOMAIN in.files :
           /\ in.files[n] \in Boundaries!Seeds(in) /\ Boundaries!IsFirstWithId(in, n)
           /\ IdOf(in, in.files[n]) = IdOf(in, f)
<1> DEFINE same == {n \in DOMAIN in.files : in.files[n] \in Boundaries!Seeds(in)
                                            /\ IdOf(in, in.files[n]) = IdOf(in, f)}
<1>1. Len(in.files) \in Nat /\ DOMAIN in.files = 1 .. Len(in.files)
  BY DEF IsIndex
<1>2. same \subseteq Nat /\ same # {}
  BY <1>1 DEF IsIndex, Boundaries!Seeds, Boundaries!Covered
<1>3. PICK n \in same : \A k \in same : n <= k
  BY <1>2, LeastNumber
<1>4. Boundaries!IsFirstWithId(in, n)
  <2> SUFFICES ASSUME NEW k \in 1 .. n - 1, in.files[k] \in Boundaries!Seeds(in),
                      IdOf(in, in.files[k]) = IdOf(in, in.files[n])
               PROVE  FALSE
    BY DEF Boundaries!IsFirstWithId, IdOf, SeedOf
  <2>1. k \in same /\ k < n
    BY <1>1, <1>3
  <2> QED BY <1>1, <1>3, <2>1
<1> QED BY <1>3, <1>4

Founds(in, b, n) ==
  /\ n \in DOMAIN in.files /\ in.files[n] \in Boundaries!Seeds(in)
  /\ Boundaries!IsFirstWithId(in, n)
  /\ b = Boundaries!BoundaryOf(in, SeedOf(in.rules, in.files[n].path))

LEMMA BoundariesAreFounded ==
  ASSUME NEW in, NEW b
  PROVE  b \in Boundaries!Boundaries(in) <=> \E n : Founds(in, b, n)
BY DEF Boundaries!Boundaries, Founds, SeedOf

LEMMA BoundaryFields ==
  ASSUME NEW in, NEW seed, NEW b, b = Boundaries!BoundaryOf(in, seed)
  PROVE  /\ b.id = seed.id /\ b.kind = seed.kind /\ b.root = seed.root
         /\ \A x : x \in b.paths <=>
              \E f \in Boundaries!Seeds(in) : x = f.path /\ IdOf(in, f) = seed.id
BY DEF Boundaries!BoundaryOf, IdOf, SeedOf

LEMMA IdsAreUnique ==
  ASSUME NEW in, IsIndex(in),
         NEW b \in Boundaries!Boundaries(in), NEW c \in Boundaries!Boundaries(in), b.id = c.id
  PROVE  b = c
<1>1. PICK n : Founds(in, b, n)
  BY BoundariesAreFounded
<1>2. PICK m : Founds(in, c, m)
  BY BoundariesAreFounded
<1>3. n \in Nat /\ m \in Nat /\ n >= 1 /\ m >= 1
  BY <1>1, <1>2 DEF Founds, IsIndex
<1>4. IdOf(in, in.files[n]) = IdOf(in, in.files[m])
  BY <1>1, <1>2, BoundaryFields DEF Founds, IdOf
<1>5. ~(n < m)
  BY <1>1, <1>2, <1>3, <1>4 DEF Founds, Boundaries!IsFirstWithId, IdOf, SeedOf
<1>6. ~(m < n)
  BY <1>1, <1>2, <1>3, <1>4 DEF Founds, Boundaries!IsFirstWithId, IdOf, SeedOf
<1>7. n = m
  BY <1>3, <1>5, <1>6
<1> QED BY <1>1, <1>2, <1>7 DEF Founds

(* Without a collision each file has the boundary of its own seed.         *)
OwnBoundaries(in) ==
  {Boundaries!BoundaryOf(in, SeedOf(in.rules, f.path)) : f \in Boundaries!Seeds(in)}

LEMMA BoundariesOfSeeds ==
  ASSUME NEW in, IsIndex(in), ~Boundaries!Collision(in)
  PROVE  Boundaries!Boundaries(in) = OwnBoundaries(in)
<1>1. ASSUME NEW f \in Boundaries!Seeds(in), NEW g \in Boundaries!Seeds(in), IdOf(in, f) = IdOf(in, g)
      PROVE  SeedOf(in.rules, f.path) = SeedOf(in.rules, g.path)
  <2> DEFINE a == SeedOf(in.rules, f.path)
             b == SeedOf(in.rules, g.path)
  <2>1. a.root = b.root
    BY <1>1 DEF Boundaries!Collision, IdOf, SeedOf
  <2>2. /\ a = [id |-> <<a.kind, Boundaries!Identifier(a.root)>>, kind |-> a.kind, root |-> a.root]
        /\ b = [id |-> <<b.kind, Boundaries!Identifier(b.root)>>, kind |-> b.kind, root |-> b.root]
    BY SeedsAreTheirRoots
  <2>3. a.id = b.id
    BY <1>1 DEF IdOf
  <2> HIDE DEF a, b
  <2>4. a.id = <<a.kind, Boundaries!Identifier(a.root)>> /\ b.id = <<b.kind, Boundaries!Identifier(b.root)>>
    BY <2>2
  <2>5. a.kind = b.kind
    <3>1. \A w, x, y, z : <<w, x>> = <<y, z>> => w = y
      OBVIOUS
    <3>2. <<a.kind, Boundaries!Identifier(a.root)>> = <<b.kind, Boundaries!Identifier(b.root)>>
      BY <2>3, <2>4
    <3> QED BY <3>1, <3>2
  <2>6. a = b
    BY <2>1, <2>2, <2>5
  <2> QED BY <2>6 DEF a, b
<1>2. ASSUME NEW b \in Boundaries!Boundaries(in)
      PROVE  \E f \in Boundaries!Seeds(in) : b = Boundaries!BoundaryOf(in, SeedOf(in.rules, f.path))
  BY BoundariesAreFounded DEF Founds
<1>3. ASSUME NEW f \in Boundaries!Seeds(in)
      PROVE  Boundaries!BoundaryOf(in, SeedOf(in.rules, f.path)) \in Boundaries!Boundaries(in)
  <2>1. PICK n \in DOMAIN in.files :
          /\ in.files[n] \in Boundaries!Seeds(in) /\ Boundaries!IsFirstWithId(in, n)
          /\ IdOf(in, in.files[n]) = IdOf(in, f)
    BY FirstFiles
  <2>2. SeedOf(in.rules, in.files[n].path) = SeedOf(in.rules, f.path)
    BY <1>1, <2>1
  <2> QED BY <2>1, <2>2, BoundariesAreFounded DEF Founds
<1> QED BY <1>2, <1>3 DEF OwnBoundaries

LEMMA OrderIsForgotten ==
  ASSUME NEW in \in BoundaryInputs, NEW other, other = [in EXCEPT !.files = Boundaries!Reverse(@)]
  PROVE  /\ SameIndex(in, other) /\ IsIndex(in) /\ IsIndex(other)
         /\ Boundaries!IsBuilt(other) <=> Boundaries!IsBuilt(in)
         /\ Boundaries!IsBuilt(in) /\ ~Boundaries!Collision(in) =>
              Boundaries!Boundaries(other) = Boundaries!Boundaries(in)
<1> DEFINE n == Len(in.files)
<1>1. /\ DOMAIN in = {"files", "symbols", "dependencies", "included", "rules"}
      /\ in.files \in Seq(Boundaries!Files) /\ n \in Nat /\ DOMAIN in.files = 1 .. n
  BY IndexesTyped DEF IsIndex
<1>2. /\ other.files = Boundaries!Reverse(in.files)
      /\ other.symbols = in.symbols /\ other.dependencies = in.dependencies
      /\ other.included = in.included /\ other.rules = in.rules
  BY <1>1
<1>3. other.files = [i \in 1 .. n |-> in.files[n - i + 1]]
  BY <1>2 DEF Boundaries!Reverse
<1>4. /\ other.files \in Seq(Boundaries!Files) /\ Len(other.files) = n
      /\ DOMAIN other.files = 1 .. n
      /\ \A i \in 1 .. n : other.files[i] = in.files[n - i + 1]
  <2> HIDE DEF n
  <2>1. \A i \in 1 .. n : n - i + 1 \in 1 .. n
    BY <1>1
  <2>2. \A i \in 1 .. n : in.files[n - i + 1] \in Boundaries!Files
    BY <1>1, <2>1 DEF n
  <2>3. [i \in 1 .. n |-> in.files[n - i + 1]] \in [1 .. n -> Boundaries!Files]
    BY <2>2
  <2> DEFINE g == [i \in 1 .. n |-> in.files[n - i + 1]]
  <2>4. DOMAIN g = 1 .. n /\ \A i \in 1 .. n : g[i] = in.files[n - i + 1]
    OBVIOUS
  <2>5. g \in Seq(Boundaries!Files) /\ Len(g) = n
    <3> HIDE DEF g
    <3>1. g \in [1 .. n -> Boundaries!Files]
      BY <2>3 DEF g
    <3>2. g \in Seq(Boundaries!Files)
      BY <1>1, <3>1
    <3>3. Len(g) \in Nat /\ DOMAIN g = 1 .. Len(g)
      BY <3>2
    <3> QED BY <1>1, <2>4, <3>2, <3>3
  <2> HIDE DEF g
  <2>6. other.files = g
    BY <1>3 DEF g
  <2> QED BY <2>4, <2>5, <2>6
<1> HIDE DEF n
<1>5. \A i \in 1 .. n : n - i + 1 \in 1 .. n /\ n - (n - i + 1) + 1 = i
  BY <1>1
<1>6. Boundaries!ToSet(other.files) = Boundaries!ToSet(in.files)
  <2>1. ASSUME NEW i \in 1 .. n
        PROVE  other.files[i] \in Boundaries!ToSet(in.files)
    <3>1. n - i + 1 \in DOMAIN in.files /\ other.files[i] = in.files[n - i + 1]
      BY <1>1, <1>4, <1>5
    <3> QED BY <3>1 DEF Boundaries!ToSet
  <2>2. ASSUME NEW i \in 1 .. n
        PROVE  in.files[i] \in Boundaries!ToSet(other.files)
    <3>1. n - i + 1 \in DOMAIN other.files /\ other.files[n - i + 1] = in.files[i]
      BY <1>4, <1>5
    <3> QED BY <3>1 DEF Boundaries!ToSet
  <2>3. ASSUME NEW x \in Boundaries!ToSet(other.files) PROVE x \in Boundaries!ToSet(in.files)
    <3>1. PICK i \in 1 .. n : x = other.files[i]
      BY <1>4 DEF Boundaries!ToSet
    <3> QED BY <2>1, <3>1
  <2>4. ASSUME NEW x \in Boundaries!ToSet(in.files) PROVE x \in Boundaries!ToSet(other.files)
    <3>1. PICK i \in 1 .. n : x = in.files[i]
      BY <1>1 DEF Boundaries!ToSet
    <3> QED BY <2>2, <3>1
  <2> QED BY <2>3, <2>4
<1>7. SameIndex(in, other)
  BY <1>2, <1>6 DEF SameIndex
<1>8. Boundaries!IsBuilt(other) <=> Boundaries!IsBuilt(in)
  BY <1>2, <1>7, SameFacts DEF Boundaries!IsBuilt
<1>9. IsIndex(in) /\ IsIndex(other)
  <2>3. IsIndex(in)
    BY IndexesTyped
  <2>1. \A f \in Boundaries!ToSet(other.files) : \E i \in DOMAIN other.files : f = other.files[i]
    BY DEF Boundaries!ToSet
  <2>2. IsIndex(other)
    BY <1>1, <1>2, <1>4, <1>7, <2>1, IndexesTyped, SameFacts DEF IsIndex, SameIndex
  <2> QED BY <2>2, <2>3
<1>10. ASSUME Boundaries!IsBuilt(in), ~Boundaries!Collision(in)
       PROVE  Boundaries!Boundaries(other) = Boundaries!Boundaries(in)
  <2>1. ~Boundaries!Collision(other)
    BY <1>2, <1>7, <1>10, SameFacts DEF Boundaries!Collision
  <2>2. Boundaries!Boundaries(in) = OwnBoundaries(in)
    BY <1>9, <1>10, BoundariesOfSeeds
  <2>3. Boundaries!Boundaries(other) = OwnBoundaries(other)
    BY <1>9, <2>1, BoundariesOfSeeds
  <2>4. OwnBoundaries(other) = OwnBoundaries(in)
    BY <1>2, <1>7, SameFacts DEF OwnBoundaries
  <2> QED BY <2>2, <2>3, <2>4
<1> QED BY <1>7, <1>8, <1>9, <1>10

(* A seed file is owned by the boundary of its own seed and by no other.   *)
LEMMA SeedFilesAreOwned ==
  ASSUME NEW in, IsIndex(in), Boundaries!IsBuilt(in), ~Boundaries!Collision(in),
         NEW f \in Boundaries!Seeds(in), NEW b \in Boundaries!Boundaries(in)
  PROVE  b \in Boundaries!Owners(Boundaries!Boundaries(in), f.path) <=> b.id = IdOf(in, f)
<1> DEFINE bs == Boundaries!Boundaries(in)
           own == Boundaries!BoundaryOf(in, SeedOf(in.rules, f.path))
<1>1. \A r \in in.rules : r.prefix \in BPaths
  BY DEF IsIndex
<1>2. \A g \in Boundaries!Seeds(in) : g.path \in BPaths /\ Boundaries!HasRoot(in.rules, g.path)
  BY DEF IsIndex, Boundaries!IsBuilt
<1>3. own \in bs /\ \A c \in bs : \E g \in Boundaries!Seeds(in) :
                      c = Boundaries!BoundaryOf(in, SeedOf(in.rules, g.path))
  BY BoundariesOfSeeds DEF OwnBoundaries
<1>4. ASSUME NEW g \in Boundaries!Seeds(in)
      PROVE  SeedOf(in.rules, g.path).root \in BPaths /\ Starts(SeedOf(in.rules, g.path).root, g.path)
  <2>1. CASE Boundaries!InTestDirectory(g.path)
    BY <1>2, <2>1, TestSeeds DEF TestRooted, Starts
  <2>2. CASE ~Boundaries!InTestDirectory(g.path)
    <3>1. Boundaries!Matching(in.rules, g.path) # {}
      BY <1>2, <2>2 DEF Boundaries!HasRoot
    <3>2. RuleRooted(Boundaries!ScopedRule(in.rules, g.path), SeedOf(in.rules, g.path).root, g.path)
      BY <1>1, <1>2, <2>2, <3>1, RuleSeeds
    <3> QED BY <3>2 DEF RuleRooted, Starts
  <2> QED BY <2>1, <2>2
<1>5. own.root = SeedOf(in.rules, f.path).root /\ own.id = IdOf(in, f)
  BY BoundaryFields DEF IdOf
<1> HIDE DEF own, bs
<1>6. own \in Boundaries!Around(bs, f.path)
  BY <1>2, <1>3, <1>4, <1>5, PrefixesStart DEF Boundaries!Around
<1>7. ASSUME NEW c \in Boundaries!Around(bs, f.path)
      PROVE  Len(c.root) <= Len(own.root) /\ (Len(c.root) = Len(own.root) => c = own)
  <2>1. PICK g \in Boundaries!Seeds(in) : c = Boundaries!BoundaryOf(in, SeedOf(in.rules, g.path))
    BY <1>3, <1>7 DEF Boundaries!Around
  <2>2. c.root = SeedOf(in.rules, g.path).root
    BY <2>1, BoundaryFields
  <2>3. Starts(SeedOf(in.rules, g.path).root, f.path)
    BY <1>2, <1>4, <1>7, <2>2, PrefixesStart DEF Boundaries!Around
  <2>4. /\ Len(c.root) <= Len(own.root)
        /\ Len(c.root) = Len(own.root) => SeedOf(in.rules, g.path) = SeedOf(in.rules, f.path)
    BY <1>1, <1>2, <1>5, <2>2, <2>3, RootsNest
  <2> QED BY <2>1, <2>4 DEF own
<1>8. ASSUME b \in Boundaries!Owners(bs, f.path) PROVE b = own
  <2>1. b \in Boundaries!Around(bs, f.path) /\ Len(own.root) <= Len(b.root)
    BY <1>6, <1>8 DEF Boundaries!Owners
  <2>2. Len(b.root) <= Len(own.root)
    BY <1>7, <2>1
  <2>3. Len(own.root) \in Nat /\ Len(b.root) \in Nat
    <3>1. PICK g \in Boundaries!Seeds(in) : b = Boundaries!BoundaryOf(in, SeedOf(in.rules, g.path))
      BY <1>3 DEF bs
    <3>2. b.root = SeedOf(in.rules, g.path).root
      BY <3>1, BoundaryFields
    <3> QED BY <1>4, <1>5, <3>2, PathsTyped
  <2> QED BY <1>7, <2>1, <2>2, <2>3
<1>9. own \in Boundaries!Owners(bs, f.path)
  BY <1>6, <1>7 DEF Boundaries!Owners
<1>10. b.id = IdOf(in, f) => b = own
  BY <1>3, <1>5, IdsAreUnique DEF bs
<1> QED BY <1>5, <1>8, <1>9, <1>10 DEF bs

LEMMA SymbolsFollow ==
  ASSUME input \in BoundaryInputs
  PROVE  Boundaries!SymbolsFollowTheirFile
<1> DEFINE bs == Boundaries!Boundaries(input)
<1> SUFFICES ASSUME Boundaries!IsBuilt(input), ~Boundaries!Collision(input),
                    NEW s \in Boundaries!Symbols(input),
                    NEW b \in Boundaries!Artifact(input).boundaries,
                    s.file \in {f.path : f \in Boundaries!Seeds(input)}
             PROVE  s.key \in b.symbols <=> s.file \in b.paths
  BY DEF Boundaries!SymbolsFollowTheirFile
<1>1. IsIndex(input)
  BY IndexesTyped
<1>2. PICK c \in bs : b = Boundaries!Described(input, bs, c)
  BY DEF Boundaries!Artifact
<1>3. PICK f \in Boundaries!Seeds(input) : s.file = f.path
  OBVIOUS
<1>4. c \in Boundaries!Owners(bs, s.file) <=> c.id = IdOf(input, f)
  BY <1>1, <1>2, <1>3, SeedFilesAreOwned
<1>5. s.key \in b.symbols <=> c \in Boundaries!Owners(bs, s.file)
  <2>1. b.symbols = {t.key : t \in Boundaries!OwnedSymbols(input, bs, c)}
    BY <1>2 DEF Boundaries!Described
  <2>2. \A t \in Boundaries!Symbols(input) : t.key = s.key => t = s
    BY <1>1 DEF IsIndex, Boundaries!Symbols
  <2> QED BY <2>1, <2>2 DEF Boundaries!OwnedSymbols
<1>6. s.file \in b.paths <=> c.id = IdOf(input, f)
  <2>1. b.paths = c.paths
    BY <1>2 DEF Boundaries!Described
  <2>2. PICK g \in Boundaries!Seeds(input) :
          c = Boundaries!BoundaryOf(input, SeedOf(input.rules, g.path))
    BY <1>1, <1>2, BoundariesOfSeeds DEF OwnBoundaries
  <2>3. /\ c.id = SeedOf(input.rules, g.path).id
        /\ \A x : x \in c.paths <=>
             \E h \in Boundaries!Seeds(input) : x = h.path /\ IdOf(input, h) = c.id
    BY <2>2, BoundaryFields
  <2>4. \A h \in Boundaries!Seeds(input) : h.path = f.path => IdOf(input, h) = IdOf(input, f)
    BY DEF IdOf
  <2> QED BY <1>3, <2>1, <2>3, <2>4
<1> QED BY <1>4, <1>5, <1>6

LEMMA MapsAreValid ==
  ASSUME input \in BoundaryInputs
  PROVE  Boundaries!BuiltMapsAreValid
<1> SUFFICES ASSUME Boundaries!IsBuilt(input)
             PROVE  Boundaries!ValidMap(Boundaries!Artifact(input))
  BY DEF Boundaries!BuiltMapsAreValid
<1> DEFINE bs == Boundaries!Boundaries(input)
           map == Boundaries!Artifact(input)
           crossing == Boundaries!Crossing(input, bs)
           refs(c) == {Boundaries!Reference(input, e.dependency) :
                         e \in {x \in crossing : Boundaries!RelationOf(input, x)
                                                   = Boundaries!RelationOf(input, c)}}
<1>1. IsIndex(input)
  BY IndexesTyped
<1>2. /\ map.boundaries = {Boundaries!Described(input, bs, b) : b \in bs}
      /\ map.relations = Boundaries!Relations(input, bs)
  BY DEF Boundaries!Artifact
<1>3. map.boundaries # {}
  <2>1. PICK f : f \in Boundaries!Seeds(input)
    BY DEF Boundaries!IsBuilt
  <2>2. PICK n \in DOMAIN input.files :
          input.files[n] \in Boundaries!Seeds(input) /\ Boundaries!IsFirstWithId(input, n)
    BY <1>1, <2>1, FirstFiles
  <2>3. Boundaries!BoundaryOf(input, SeedOf(input.rules, input.files[n].path)) \in bs
    BY <2>2, BoundariesAreFounded DEF Founds
  <2> QED BY <1>2, <2>3
<1>4. ASSUME NEW b \in map.boundaries, NEW c \in map.boundaries, b.id = c.id
      PROVE  b = c
  <2>1. PICK d \in bs : b = Boundaries!Described(input, bs, d)
    BY <1>2
  <2>2. PICK e \in bs : c = Boundaries!Described(input, bs, e)
    BY <1>2
  <2>3. d.id = e.id
    BY <1>4, <2>1, <2>2 DEF Boundaries!Described
  <2> QED BY <1>1, <2>1, <2>2, <2>3, IdsAreUnique
<1>5. ASSUME NEW b \in map.boundaries PROVE b.paths # {}
  <2>1. PICK d \in bs : b = Boundaries!Described(input, bs, d)
    BY <1>2
  <2>2. PICK n : Founds(input, d, n)
    BY BoundariesAreFounded
  <2>3. input.files[n].path \in d.paths
    BY <2>2, BoundaryFields DEF Founds, IdOf
  <2> QED BY <2>1, <2>3 DEF Boundaries!Described
<1> HIDE DEF map
<1>6. ASSUME NEW r \in map.relations
      PROVE  \E c \in crossing :
               /\ r = [from |-> c.from.id, kind |-> Boundaries!RelationKind(input, c.dependency),
                       to |-> c.to.id, refs |-> refs(c)]
               /\ <<r.from, r.kind, r.to>> = Boundaries!RelationOf(input, c)
  BY <1>2, <1>6 DEF Boundaries!Relations, Boundaries!RelationOf
<1>7. ASSUME NEW r \in map.relations, NEW q \in map.relations,
             <<r.from, r.kind, r.to>> = <<q.from, q.kind, q.to>>
      PROVE  r = q
  <2>1. PICK c \in crossing :
          /\ r = [from |-> c.from.id, kind |-> Boundaries!RelationKind(input, c.dependency),
                  to |-> c.to.id, refs |-> refs(c)]
          /\ <<r.from, r.kind, r.to>> = Boundaries!RelationOf(input, c)
    BY <1>6
  <2>2. PICK d \in crossing :
          /\ q = [from |-> d.from.id, kind |-> Boundaries!RelationKind(input, d.dependency),
                  to |-> d.to.id, refs |-> refs(d)]
          /\ <<q.from, q.kind, q.to>> = Boundaries!RelationOf(input, d)
    BY <1>6
  <2>3. Boundaries!RelationOf(input, c) = Boundaries!RelationOf(input, d)
    BY <1>7, <2>1, <2>2
  <2>4. refs(c) = refs(d)
    BY <2>3
  <2>5. c.from.id = d.from.id /\ c.to.id = d.to.id
        /\ Boundaries!RelationKind(input, c.dependency) = Boundaries!RelationKind(input, d.dependency)
    BY <2>3 DEF Boundaries!RelationOf
  <2> QED BY <2>1, <2>2, <2>4, <2>5
<1>8. ASSUME NEW r \in map.relations
      PROVE  /\ {r.from, r.to} \subseteq {b.id : b \in map.boundaries}
             /\ r.refs # {} /\ \A ref \in r.refs : Boundaries!ValidRef(r, ref)
  <2>1. PICK c \in crossing :
          /\ r = [from |-> c.from.id, kind |-> Boundaries!RelationKind(input, c.dependency),
                  to |-> c.to.id, refs |-> refs(c)]
          /\ <<r.from, r.kind, r.to>> = Boundaries!RelationOf(input, c)
    BY <1>6
  <2>2. c.from \in bs /\ c.to \in bs
    BY DEF Boundaries!Crossing
  <2>3. \A b \in bs : b.id \in {d.id : d \in map.boundaries}
    <3>1. \A b \in bs : Boundaries!Described(input, bs, b).id = b.id
      BY DEF Boundaries!Described
    <3> QED BY <1>2, <3>1
  <2>4. r.from = c.from.id /\ r.to = c.to.id /\ r.refs = refs(c)
        /\ r.kind = Boundaries!RelationKind(input, c.dependency)
    BY <2>1
  <2>5. Boundaries!Reference(input, c.dependency) \in refs(c)
    OBVIOUS
  <2>6. ASSUME NEW ref \in refs(c) PROVE Boundaries!ValidRef(r, ref)
    <3>1. PICK x \in crossing : /\ Boundaries!RelationOf(input, x) = Boundaries!RelationOf(input, c)
                                /\ ref = Boundaries!Reference(input, x.dependency)
      OBVIOUS
    <3>2. Boundaries!RelationKind(input, x.dependency) = r.kind
      BY <2>4, <3>1 DEF Boundaries!RelationOf
    <3>3. Boundaries!RelationKind(input, x.dependency) = "verifies"
            <=> Boundaries!IsTestFile(Boundaries!FileAt(input, x.dependency.file))
      BY DEF Boundaries!RelationKind
    <3> QED BY <3>1, <3>2, <3>3 DEF Boundaries!Reference, Boundaries!ValidRef
  <2> QED BY <2>2, <2>3, <2>4, <2>5, <2>6
<1>9. Boundaries!ValidMap(map)
  BY <1>3, <1>4, <1>5, <1>7, <1>8 DEF Boundaries!ValidMap
<1> QED BY <1>9 DEF map

LEMMA VerifyingTestsAreListed ==
  ASSUME input \in BoundaryInputs
  PROVE  Boundaries!TestsAreLinked
<1> DEFINE bs == Boundaries!Boundaries(input)
           crossing == Boundaries!Crossing(input, bs)
<1> SUFFICES ASSUME Boundaries!IsBuilt(input),
                    NEW r \in Boundaries!Artifact(input).relations, r.kind = "verifies",
                    NEW b \in Boundaries!Artifact(input).boundaries, b.id = r.to
             PROVE  {ref.file : ref \in r.refs} \subseteq b.tests /\ "test" \notin b.questions
  BY DEF Boundaries!TestsAreLinked
<1>1. IsIndex(input)
  BY IndexesTyped
<1>2. PICK d \in bs : b = Boundaries!Described(input, bs, d)
  BY DEF Boundaries!Artifact
<1>3. /\ b.id = d.id /\ b.tests = Boundaries!TestRefs(input, bs, d)
      /\ b.questions = Boundaries!Questions(input, bs, d)
  BY <1>2 DEF Boundaries!Described
<1>4. PICK c \in crossing :
        r = [from |-> c.from.id, kind |-> Boundaries!RelationKind(input, c.dependency), to |-> c.to.id,
             refs |-> {Boundaries!Reference(input, e.dependency) :
                         e \in {x \in crossing : Boundaries!RelationOf(input, x)
                                                   = Boundaries!RelationOf(input, c)}}]
  BY DEF Boundaries!Artifact, Boundaries!Relations
<1>5. r.to = c.to.id /\ Boundaries!RelationKind(input, c.dependency) = "verifies"
  BY <1>4
<1>6. ASSUME NEW x \in crossing, Boundaries!RelationOf(input, x) = Boundaries!RelationOf(input, c)
      PROVE  x.dependency.file \in b.tests
  <2>1. x.to \in bs /\ x.dependency \in Boundaries!Dependencies(input)
    BY DEF Boundaries!Crossing
  <2>2. x.to.id = c.to.id /\ Boundaries!RelationKind(input, x.dependency) = "verifies"
    BY <1>5, <1>6 DEF Boundaries!RelationOf
  <2>3. x.to = d
    BY <1>1, <1>3, <1>5, <2>1, <2>2, IdsAreUnique
  <2> DEFINE g == Boundaries!FileAt(input, x.dependency.file)
  <2>4. Boundaries!IsTestFile(g)
    BY <2>2 DEF Boundaries!RelationKind
  <2>5. x.dependency \in input.dependencies /\ x.dependency.file \in input.included
    BY <2>1 DEF Boundaries!Dependencies
  <2>6. g \in Boundaries!ToSet(input.files) /\ g.path = x.dependency.file
    <3>1. \E f \in Boundaries!ToSet(input.files) : f.path = x.dependency.file
      BY <1>1, <2>5 DEF IsIndex
    <3> QED BY <3>1 DEF Boundaries!FileAt
  <2> HIDE DEF g
  <2>7. g \in Boundaries!Covered(input)
    BY <2>5, <2>6 DEF Boundaries!Covered
  <2> QED BY <1>3, <2>3, <2>4, <2>6, <2>7 DEF Boundaries!TestRefs
<1>7. {ref.file : ref \in r.refs} \subseteq b.tests
  <2> SUFFICES ASSUME NEW ref \in r.refs PROVE ref.file \in b.tests
    OBVIOUS
  <2>1. PICK x \in crossing : /\ Boundaries!RelationOf(input, x) = Boundaries!RelationOf(input, c)
                              /\ ref = Boundaries!Reference(input, x.dependency)
    BY <1>4
  <2>2. ref.file = x.dependency.file
    BY <2>1 DEF Boundaries!Reference
  <2> QED BY <1>6, <2>1, <2>2
<1>8. "test" \notin b.questions
  <2>1. c.dependency.file \in b.tests
    BY <1>6
  <2>2. Boundaries!TestRefs(input, bs, d) # {}
    BY <1>3, <2>1
  <2> QED BY <1>3, <2>2 DEF Boundaries!Questions
<1> QED BY <1>7, <1>8

-----------------------------------------------------------------------------
(***************************************************************************)
(* Broken references.                                                      *)
(***************************************************************************)
Linked(in, l, c, k, at) ==
  /\ c \in References!Documentation(in) /\ c.file \in in.included
  /\ k \in DOMAIN c.lines /\ at \in DOMAIN c.lines[k].links
  /\ l = [chunk |-> c, line |-> k, at |-> at]

LEMMA LinksOfChunks ==
  ASSUME NEW in, NEW l
  PROVE  l \in References!Links(in) <=> \E c, k, at : Linked(in, l, c, k, at)
<1>1. ASSUME l \in References!Links(in)
      PROVE  \E c, k, at : Linked(in, l, c, k, at)
  <2>1. /\ l = [chunk |-> l.chunk, line |-> l.line, at |-> l.at]
        /\ l.chunk \in References!Documentation(in) /\ l.chunk.file \in in.included
        /\ l.line \in DOMAIN l.chunk.lines /\ l.at \in DOMAIN l.chunk.lines[l.line].links
    BY <1>1 DEF References!Links
  <2>2. Linked(in, l, l.chunk, l.line, l.at)
    BY <2>1 DEF Linked
  <2> QED BY <2>2
<1>2. ASSUME NEW c, NEW k, NEW at, Linked(in, l, c, k, at)
      PROVE  l \in References!Links(in)
  <2>1. k \in UNION {DOMAIN d.lines : d \in References!Documentation(in)}
    BY <1>2 DEF Linked
  <2>2. at \in UNION {DOMAIN c.lines[n].links : n \in DOMAIN c.lines}
    BY <1>2 DEF Linked
  <2>3. at \in UNION {UNION {DOMAIN d.lines[n].links : n \in DOMAIN d.lines} :
                        d \in References!Documentation(in)}
    BY <1>2, <2>2 DEF Linked
  <2>4. l.chunk = c /\ l.line = k /\ l.at = at
    BY <1>2 DEF Linked
  <2> QED BY <1>2, <2>1, <2>3, <2>4 DEF Linked, References!Links
<1> QED BY <1>1, <1>2

(* What is reported: a link of a covered document that names what the      *)
(* index does not have.                                                    *)
IsReported(in, file_, link) ==
  /\ References!HasReference(file_, link)
  /\ References!Broken(in, References!Path(file_, link), link.fragment)

Cites(in, x, c, k, at) ==
  /\ c \in References!Documentation(in) /\ c.file \in in.included
  /\ k \in DOMAIN c.lines /\ at \in DOMAIN c.lines[k].links
  /\ IsReported(in, c.file, c.lines[k].links[at])
  /\ x = <<c.file, c.start + k - 1, c.lines[k].links[at]>>

LEMMA ReportsOfChunks ==
  ASSUME NEW in, NEW x
  PROVE  x \in References!All(in) <=> \E c, k, at : Cites(in, x, c, k, at)
<1>1. ASSUME x \in References!All(in) PROVE \E c, k, at : Cites(in, x, c, k, at)
  <2>1. PICK l \in References!Reported(in) : x = References!Id(l)
    BY <1>1 DEF References!All
  <2>2. l \in References!Links(in)
    BY DEF References!Reported
  <2>3. PICK c, k, at : Linked(in, l, c, k, at)
    BY <2>2, LinksOfChunks
  <2>4. l.chunk = c /\ l.line = k /\ l.at = at
    BY <2>3 DEF Linked
  <2>5. IsReported(in, c.file, c.lines[k].links[at])
    BY <2>4 DEF References!Reported, References!LinkAt, IsReported
  <2>6. x = <<c.file, c.start + k - 1, c.lines[k].links[at]>>
    BY <2>1, <2>4 DEF References!Id, References!LinkAt
  <2>7. Cites(in, x, c, k, at)
    BY <2>3, <2>5, <2>6 DEF Cites, Linked
  <2> QED BY <2>7
<1>2. ASSUME NEW c, NEW k, NEW at, Cites(in, x, c, k, at)
      PROVE  x \in References!All(in)
  <2> DEFINE l == [chunk |-> c, line |-> k, at |-> at]
  <2>1. Linked(in, l, c, k, at)
    BY <1>2 DEF Linked, Cites
  <2>2. l.chunk = c /\ l.line = k /\ l.at = at
    OBVIOUS
  <2> HIDE DEF l
  <2>3. l \in References!Links(in)
    BY <2>1, LinksOfChunks
  <2>4. l \in References!Reported(in)
    BY <1>2, <2>2, <2>3 DEF References!Reported, References!LinkAt, Cites, IsReported
  <2>5. x = References!Id(l)
    BY <1>2, <2>2 DEF References!Id, References!LinkAt, Cites
  <2> QED BY <2>4, <2>5 DEF References!All
<1> QED BY <1>1, <1>2

LEMMA ReferencesTyped ==
  ASSUME NEW in \in ReferenceInputs
  PROVE  /\ DOMAIN in = {"files", "chunks", "included", "limit"}
         /\ \A c \in in.chunks :
              /\ DOMAIN c = {"ordinal", "file", "start", "kind", "lines"}
              /\ c.start \in Nat /\ Len(c.lines) \in Nat /\ DOMAIN c.lines = 1 .. Len(c.lines)
<1>1. References!InputsAreIndexes
  BY ConstantsAreSound
<1>2. ASSUME NEW c \in in.chunks
      PROVE  /\ DOMAIN c = {"ordinal", "file", "start", "kind", "lines"}
             /\ c.start \in Nat /\ Len(c.lines) \in Nat /\ DOMAIN c.lines = 1 .. Len(c.lines)
  <2>1. /\ c \in [ordinal : Nat, file : in.files, start : Nat \ {0}, kind : {c.kind},
                  lines : {c.lines}]
        /\ c.lines \in Seq({c.lines[n] : n \in DOMAIN c.lines})
    BY <1>1 DEF References!InputsAreIndexes
  <2>2. DOMAIN c = {"ordinal", "file", "start", "kind", "lines"} /\ c.start \in Nat
    BY <2>1
  <2>3. Len(c.lines) \in Nat /\ DOMAIN c.lines = 1 .. Len(c.lines)
    BY <2>1
  <2> QED BY <2>2, <2>3
<1> QED BY <1>1, <1>2 DEF References!InputsAreIndexes

(* Coverage decides which documents are read and nothing else.             *)
LEMMA CoverageIsReading ==
  ASSUME input \in ReferenceInputs
  PROVE  References!CoverageBreaksNothing
<1> SUFFICES ASSUME NEW fewer \in SUBSET input.included,
                    NEW other, other = [input EXCEPT !.included = fewer]
             PROVE  References!All(other) = {x \in References!All(input) : x[1] \in fewer}
  BY DEF References!CoverageBreaksNothing
<1>1. other.files = input.files /\ other.chunks = input.chunks /\ other.included = fewer
  BY ReferencesTyped
<1>2. References!Documentation(other) = References!Documentation(input)
  BY <1>1 DEF References!Documentation
<1>3. \A f, link : IsReported(other, f, link) <=> IsReported(input, f, link)
  BY <1>1, <1>2 DEF IsReported, References!Broken, References!Headings
<1>4. \A x, c, k, at : Cites(other, x, c, k, at) <=> Cites(input, x, c, k, at) /\ c.file \in fewer
  BY <1>1, <1>2, <1>3 DEF Cites
<1>5. ASSUME NEW x
      PROVE  x \in References!All(other) <=> x \in References!All(input) /\ x[1] \in fewer
  <2>1. \A c, k, at : Cites(input, x, c, k, at) => x[1] = c.file
    BY DEF Cites
  <2> QED BY <1>4, <2>1, ReportsOfChunks
<1> QED BY <1>5

(* Deleting a file breaks what names it and mends nothing.                 *)
LEMMA DeletingBreaks ==
  ASSUME input \in ReferenceInputs
  PROVE  References!DeletingBreaksItsReferences
<1> SUFFICES ASSUME NEW gone \in input.files, NEW other, other = References!Without(input, gone)
             PROVE  /\ \A x \in References!All(other) \ References!All(input) :
                         References!Path(x[1], x[3]) = gone
                    /\ {x \in References!All(input) : x[1] # gone} \subseteq References!All(other)
  BY DEF References!DeletingBreaksItsReferences
<1>1. /\ other.files = input.files \ {gone} /\ other.included = input.included
      /\ other.chunks = {c \in input.chunks : c.file # gone}
  BY ReferencesTyped DEF References!Without
<1>2. References!Documentation(other) = {c \in References!Documentation(input) : c.file # gone}
  BY <1>1 DEF References!Documentation
<1>3. \A path : References!Headings(other, path) \subseteq References!Headings(input, path)
  BY <1>2 DEF References!Headings
<1>4. \A path : path # gone => References!Headings(other, path) = References!Headings(input, path)
  <2> SUFFICES ASSUME NEW path, path # gone
               PROVE  References!Headings(other, path) = References!Headings(input, path)
    OBVIOUS
  <2>1. {d \in References!Documentation(other) : d.file = path}
          = {d \in References!Documentation(input) : d.file = path}
    BY <1>2
  <2> QED BY <2>1 DEF References!Headings
<1>5. \A f, link : IsReported(input, f, link) => IsReported(other, f, link)
  BY <1>1, <1>3 DEF IsReported, References!Broken
<1>6. \A f, link : IsReported(other, f, link) /\ References!Path(f, link) # gone
                     => IsReported(input, f, link)
  BY <1>1, <1>4 DEF IsReported, References!Broken
<1>7. ASSUME NEW x \in References!All(other), x \notin References!All(input)
      PROVE  References!Path(x[1], x[3]) = gone
  <2>1. PICK c, k, at : Cites(other, x, c, k, at)
    BY ReportsOfChunks
  <2>2. ~Cites(input, x, c, k, at)
    BY <1>7, ReportsOfChunks
  <2>3. x[1] = c.file /\ x[3] = c.lines[k].links[at]
    BY <2>1 DEF Cites
  <2>4. ~IsReported(input, c.file, c.lines[k].links[at])
    BY <1>1, <1>2, <2>1, <2>2 DEF Cites
  <2> QED BY <1>6, <2>1, <2>3, <2>4 DEF Cites
<1>8. ASSUME NEW x \in References!All(input), x[1] # gone
      PROVE  x \in References!All(other)
  <2>1. PICK c, k, at : Cites(input, x, c, k, at)
    BY ReportsOfChunks
  <2>2. x[1] = c.file
    BY <2>1 DEF Cites
  <2>3. Cites(other, x, c, k, at)
    BY <1>1, <1>2, <1>5, <1>8, <2>1, <2>2 DEF Cites
  <2> QED BY <2>3, ReportsOfChunks
<1> QED BY <1>7, <1>8

(* The two pieces of a chunk have its lines.                               *)
AreThePieces(c, n, a, b) ==
  /\ a.file = c.file /\ b.file = c.file /\ a.kind = c.kind /\ b.kind = c.kind
  /\ a.start = c.start /\ b.start = c.start + n
  /\ DOMAIN a.lines = 1 .. n /\ \A k \in 1 .. n : a.lines[k] = c.lines[k]
  /\ DOMAIN b.lines = 1 .. Len(c.lines) - n
  /\ \A k \in 1 .. Len(c.lines) - n : b.lines[k] = c.lines[k + n]

LEMMA PiecesHaveTheLines ==
  ASSUME NEW in \in ReferenceInputs, NEW c \in in.chunks, NEW n \in 1 .. Len(c.lines) - 1
  PROVE  \E a, b : References!Cut(c, n) = {a, b} /\ AreThePieces(c, n, a, b)
<1> DEFINE first == SubSeq(c.lines, 1, n)
           rest == SubSeq(c.lines, n + 1, Len(c.lines))
           a == [c EXCEPT !.lines = SubSeq(@, 1, n)]
           b == [c EXCEPT !.lines = SubSeq(@, n + 1, Len(@)), !.start = @ + n]
<1>1. /\ DOMAIN c = {"ordinal", "file", "start", "kind", "lines"}
      /\ c.start \in Nat /\ Len(c.lines) \in Nat /\ DOMAIN c.lines = 1 .. Len(c.lines)
      /\ n \in Nat
  BY ReferencesTyped
<1>2. first = [k \in 1 .. n |-> c.lines[k]]
  BY <1>1
<1>3. rest = [k \in 1 .. Len(c.lines) - n |-> c.lines[n + k]]
  BY <1>1
<1>4. /\ a.file = c.file /\ a.kind = c.kind /\ a.start = c.start /\ a.lines = first
      /\ b.file = c.file /\ b.kind = c.kind /\ b.start = c.start + n /\ b.lines = rest
  BY <1>1
<1>5. References!Cut(c, n) = {a, b}
  BY DEF References!Cut
<1> HIDE DEF a, b, first, rest
<1>6. AreThePieces(c, n, a, b)
  BY <1>1, <1>2, <1>3, <1>4 DEF AreThePieces
<1> QED BY <1>5, <1>6

(* Where a document is cut does not matter.                                *)
LEMMA CutsChangeNothing ==
  ASSUME input \in ReferenceInputs
  PROVE  References!CuttingChangesNothing
<1> SUFFICES ASSUME NEW c \in input.chunks, NEW n \in 1 .. Len(c.lines) - 1,
                    NEW other,
                    other = [input EXCEPT !.chunks = (@ \ {c}) \cup References!Cut(c, n)]
             PROVE  References!All(other) = References!All(input)
  BY DEF References!CuttingChangesNothing
<1>1. PICK a, b : References!Cut(c, n) = {a, b} /\ AreThePieces(c, n, a, b)
  BY PiecesHaveTheLines
<1>2. /\ other.files = input.files /\ other.included = input.included
      /\ other.chunks = (input.chunks \ {c}) \cup {a, b}
  BY <1>1, ReferencesTyped
<1>3. Len(c.lines) \in Nat /\ DOMAIN c.lines = 1 .. Len(c.lines) /\ c.start \in Nat /\ n \in Nat
  BY ReferencesTyped
<1>4. \A d : d \in References!Documentation(other) <=>
              \/ d \in References!Documentation(input) /\ d # c
              \/ c \in References!Documentation(input) /\ (d = a \/ d = b)
  BY <1>1, <1>2 DEF AreThePieces, References!Documentation
<1> DEFINE Heads(in, path, h, d, k) ==
             /\ d \in References!Documentation(in) /\ d.file = path
             /\ k \in DOMAIN d.lines /\ h = d.lines[k].heading /\ h # None
<1>5. \A in, path, h : h \in References!Headings(in, path) <=> \E d, k : Heads(in, path, h, d, k)
  BY DEF References!Headings
<1>6. ASSUME NEW k \in DOMAIN c.lines, ~(k \in 1 .. n)
      PROVE  k - n \in DOMAIN b.lines /\ b.lines[k - n] = c.lines[k]
  <2>1. k - n \in 1 .. Len(c.lines) - n /\ (k - n) + n = k
    BY <1>3, <1>6
  <2> QED BY <1>1, <2>1 DEF AreThePieces
<1>7. ASSUME NEW k \in 1 .. n
      PROVE  k \in DOMAIN c.lines /\ k \in DOMAIN a.lines /\ a.lines[k] = c.lines[k]
  <2>1. k \in 1 .. Len(c.lines)
    BY <1>3
  <2> QED BY <1>1, <1>3, <2>1 DEF AreThePieces
<1>8. ASSUME NEW k \in DOMAIN b.lines
      PROVE  k \in Nat /\ k + n \in DOMAIN c.lines /\ b.lines[k] = c.lines[k + n]
  <2>1. k \in 1 .. Len(c.lines) - n
    BY <1>1 DEF AreThePieces
  <2>2. k \in Nat /\ k + n \in 1 .. Len(c.lines)
    BY <1>3, <2>1
  <2> QED BY <1>1, <1>3, <2>1, <2>2 DEF AreThePieces
<1>9. \A path : References!Headings(other, path) = References!Headings(input, path)
  <2> SUFFICES ASSUME NEW path
               PROVE  References!Headings(other, path) = References!Headings(input, path)
    OBVIOUS
  <2>1. ASSUME NEW h, NEW d, NEW k, Heads(input, path, h, d, k)
        PROVE  \E e, m : Heads(other, path, h, e, m)
    <3>1. CASE d # c
      <4>1. Heads(other, path, h, d, k)
        BY <1>4, <2>1, <3>1
      <4> QED BY <4>1
    <3>2. CASE d = c /\ k \in 1 .. n
      <4>1. Heads(other, path, h, a, k)
        BY <1>1, <1>4, <1>7, <2>1, <3>2 DEF AreThePieces
      <4> QED BY <4>1
    <3>3. CASE d = c /\ ~(k \in 1 .. n)
      <4>1. Heads(other, path, h, b, k - n)
        BY <1>1, <1>4, <1>6, <2>1, <3>3 DEF AreThePieces
      <4> QED BY <4>1
    <3> QED BY <3>1, <3>2, <3>3
  <2>2. ASSUME NEW h, NEW d, NEW k, Heads(other, path, h, d, k)
        PROVE  \E e, m : Heads(input, path, h, e, m)
    <3>1. CASE d \in References!Documentation(input) /\ d # c
      <4>1. Heads(input, path, h, d, k)
        BY <2>2, <3>1
      <4> QED BY <4>1
    <3>2. CASE d = a /\ c \in References!Documentation(input)
      <4>1. k \in 1 .. n
        BY <1>1, <2>2, <3>2 DEF AreThePieces
      <4>2. Heads(input, path, h, c, k)
        BY <1>1, <1>7, <2>2, <3>2, <4>1 DEF AreThePieces
      <4> QED BY <4>2
    <3>3. CASE d = b /\ c \in References!Documentation(input)
      <4>1. Heads(input, path, h, c, k + n)
        BY <1>1, <1>8, <2>2, <3>3 DEF AreThePieces
      <4> QED BY <4>1
    <3> QED BY <1>4, <2>2, <3>1, <3>2, <3>3
  <2> HIDE DEF Heads
  <2>3. ASSUME NEW h
        PROVE  h \in References!Headings(other, path) <=> h \in References!Headings(input, path)
    BY <1>5, <2>1, <2>2
  <2>4. /\ References!Headings(other, path) \subseteq References!Headings(input, path)
        /\ References!Headings(input, path) \subseteq References!Headings(other, path)
    BY <2>3
  <2> QED BY <2>4
<1>10. \A f, link : IsReported(other, f, link) <=> IsReported(input, f, link)
  BY <1>2, <1>9 DEF IsReported, References!Broken
<1>11. ASSUME NEW x, NEW d, NEW k, NEW at, Cites(input, x, d, k, at)
       PROVE  \E e, m : Cites(other, x, e, m, at)
  <2>1. CASE d # c
    <3>1. Cites(other, x, d, k, at)
      BY <1>2, <1>4, <1>10, <1>11, <2>1 DEF Cites
    <3> QED BY <3>1
  <2>2. CASE d = c /\ k \in 1 .. n
    <3>1. Cites(other, x, a, k, at)
      BY <1>1, <1>2, <1>4, <1>7, <1>10, <1>11, <2>2 DEF Cites, AreThePieces
    <3> QED BY <3>1
  <2>3. CASE d = c /\ ~(k \in 1 .. n)
    <3>1. k \in DOMAIN c.lines /\ k \in Nat
      BY <1>3, <1>11, <2>3 DEF Cites
    <3>2. k - n \in DOMAIN b.lines /\ b.lines[k - n] = c.lines[k]
      BY <1>6, <2>3, <3>1
    <3>3. b.start + (k - n) - 1 = c.start + k - 1
      BY <1>1, <1>3, <3>1 DEF AreThePieces
    <3>4. Cites(other, x, b, k - n, at)
      BY <1>1, <1>2, <1>4, <1>10, <1>11, <2>3, <3>2, <3>3 DEF Cites, AreThePieces
    <3> QED BY <3>4
  <2> QED BY <2>1, <2>2, <2>3
<1>12. ASSUME NEW x, NEW d, NEW k, NEW at, Cites(other, x, d, k, at)
       PROVE  \E e, m : Cites(input, x, e, m, at)
  <2>1. CASE d \in References!Documentation(input) /\ d # c
    <3>1. Cites(input, x, d, k, at)
      BY <1>2, <1>10, <1>12, <2>1 DEF Cites
    <3> QED BY <3>1
  <2>2. CASE d = a /\ c \in References!Documentation(input)
    <3>1. k \in 1 .. n
      BY <1>1, <1>12, <2>2 DEF AreThePieces, Cites
    <3>2. Cites(input, x, c, k, at)
      BY <1>1, <1>2, <1>7, <1>10, <1>12, <2>2, <3>1 DEF Cites, AreThePieces
    <3> QED BY <3>2
  <2>3. CASE d = b /\ c \in References!Documentation(input)
    <3>1. k \in DOMAIN b.lines
      BY <1>12, <2>3 DEF Cites
    <3>2. k \in Nat /\ k + n \in DOMAIN c.lines /\ b.lines[k] = c.lines[k + n]
      BY <1>8, <3>1
    <3>3. b.start + k - 1 = c.start + (k + n) - 1
      <4>1. b.start = c.start + n
        BY <1>1 DEF AreThePieces
      <4> QED BY <1>3, <3>2, <4>1
    <3>4. Cites(input, x, c, k + n, at)
      BY <1>1, <1>2, <1>10, <1>12, <2>3, <3>2, <3>3 DEF Cites, AreThePieces
    <3> QED BY <3>4
  <2>4. d \in References!Documentation(other)
    BY <1>12 DEF Cites
  <2> QED BY <1>4, <2>1, <2>2, <2>3, <2>4
<1>13. ASSUME NEW x PROVE x \in References!All(other) <=> x \in References!All(input)
  <2>1. ASSUME x \in References!All(other) PROVE x \in References!All(input)
    <3>1. PICK d, k, at : Cites(other, x, d, k, at)
      BY <2>1, ReportsOfChunks
    <3>2. PICK e, m : Cites(input, x, e, m, at)
      BY <1>12, <3>1
    <3> QED BY <3>2, ReportsOfChunks
  <2>2. ASSUME x \in References!All(input) PROVE x \in References!All(other)
    <3>1. PICK d, k, at : Cites(input, x, d, k, at)
      BY <2>2, ReportsOfChunks
    <3>2. PICK e, m : Cites(other, x, e, m, at)
      BY <1>11, <3>1
    <3> QED BY <3>2, ReportsOfChunks
  <2> QED BY <2>1, <2>2
<1> QED BY <1>13

-----------------------------------------------------------------------------
(***************************************************************************)
(* Duplicate responsibilities.                                             *)
(***************************************************************************)
LEMMA DuplicatesCount ==
  ASSUME NEW S
  PROVE  /\ Duplicates!Cardinality(S) = Cardinality(S)
         /\ Duplicates!IsFiniteSet(S) <=> IsFiniteSet(S)
<1>1. Duplicates!Cardinality(S) = Cardinality(S)
  BY DEF Cardinality, Duplicates!Cardinality
<1>2. Duplicates!IsFiniteSet(S) <=> IsFiniteSet(S)
  BY DEF IsFiniteSet, Duplicates!IsFiniteSet
<1> QED BY <1>1, <1>2

HasSymbols(in) ==
  /\ IsFiniteSet(in.symbols) /\ in.symbols \subseteq Duplicates!SymbolRecords
  /\ IsFiniteSet(in.dependencies)

LEMMA DuplicatesTyped ==
  ASSUME NEW in \in DuplicateInputs
  PROVE  /\ DOMAIN in = {"code", "symbols", "dependencies", "limit"}
         /\ HasSymbols(in) /\ in.limit \in Nat /\ None \notin {"share", "direct"}
<1>1. Duplicates!InputsAreIndexes
  BY ConstantsAreSound
<1>2. /\ DOMAIN in = {"code", "symbols", "dependencies", "limit"}
      /\ in.symbols \subseteq Duplicates!SymbolRecords
      /\ Duplicates!IsFiniteSet(in.symbols) /\ Duplicates!IsFiniteSet(in.dependencies)
      /\ in.limit \in Nat /\ None \notin {"share", "direct"}
  BY <1>1 DEF Duplicates!InputsAreIndexes
<1> QED BY <1>2, DuplicatesCount DEF HasSymbols

(* What a function makes of a finite set is finite. *)
LEMMA FiniteImage ==
  ASSUME NEW S, IsFiniteSet(S), NEW T, NEW f \in [S -> T], \A y \in T : \E x \in S : y = f[x]
  PROVE  IsFiniteSet(T)
<1>1. f \in Surjection(S, T)
  BY DEF Surjection
<1> QED BY <1>1, FS_Surjection

LEMMA SubsetsCount ==
  ASSUME NEW T, IsFiniteSet(T), NEW S, S \subseteq T
  PROVE  /\ IsFiniteSet(S)
         /\ Duplicates!Cardinality(S) \in Nat /\ Duplicates!Cardinality(T) \in Nat
         /\ Duplicates!Cardinality(S) <= Duplicates!Cardinality(T)
         /\ Duplicates!Cardinality(S) = 0 <=> S = {}
<1>1. IsFiniteSet(S) /\ Cardinality(S) <= Cardinality(T)
  BY FS_Subset
<1>2. Cardinality(S) \in Nat /\ Cardinality(T) \in Nat
  BY <1>1, FS_CardinalityType
<1>3. Cardinality(S) = 0 <=> S = {}
  BY <1>1, FS_EmptySet
<1> QED BY <1>1, <1>2, <1>3, DuplicatesCount

(* Two are different when there are at least two. *)
LEMMA TwoOfThem ==
  ASSUME NEW S, IsFiniteSet(S), Duplicates!Cardinality(S) >= 2, NEW x
  PROVE  \E y \in S : y # x
<1>1. SUFFICES ASSUME S \subseteq {x} PROVE FALSE
  OBVIOUS
<1>2. Duplicates!Cardinality(S) <= Duplicates!Cardinality({x})
  BY <1>1, SubsetsCount, FS_Singleton
<1>3. Duplicates!Cardinality({x}) = 1 /\ Duplicates!Cardinality(S) \in Nat
  BY <1>1, SubsetsCount, DuplicatesCount, FS_Singleton
<1> QED BY <1>2, <1>3

LEMMA FilesAreFinite ==
  ASSUME NEW S, IsFiniteSet(S)
  PROVE  IsFiniteSet(Duplicates!FilesOf(S))
<1> DEFINE f == [s \in S |-> s.file]
<1>1. f \in [S -> Duplicates!FilesOf(S)]
  BY DEF Duplicates!FilesOf
<1>2. \A y \in Duplicates!FilesOf(S) : \E s \in S : y = f[s]
  BY DEF Duplicates!FilesOf
<1> HIDE DEF f
<1> QED BY <1>1, <1>2, FiniteImage

Identities(in) == {Duplicates!Identity(d) : d \in in.dependencies}
Depends(in) == {<<d.file, Duplicates!Identity(d)>> : d \in in.dependencies}

LEMMA TopologyIsFinite ==
  ASSUME NEW in, HasSymbols(in)
  PROVE  IsFiniteSet(Identities(in)) /\ IsFiniteSet(Depends(in))
<1> DEFINE f == [d \in in.dependencies |-> Duplicates!Identity(d)]
           g == [d \in in.dependencies |-> <<d.file, Duplicates!Identity(d)>>]
<1>1. IsFiniteSet(in.dependencies)
  BY DEF HasSymbols
<1>2. f \in [in.dependencies -> Identities(in)]
      /\ \A y \in Identities(in) : \E d \in in.dependencies : y = f[d]
  BY DEF Identities
<1>3. g \in [in.dependencies -> Depends(in)]
      /\ \A y \in Depends(in) : \E d \in in.dependencies : y = g[d]
  BY DEF Depends
<1> HIDE DEF f, g
<1> QED BY <1>1, <1>2, <1>3, FiniteImage

(* A file's neighbourhood are the identities of its dependencies.          *)
LEMMA Neighbors ==
  ASSUME NEW in, NEW f, NEW id
  PROVE  id \in Duplicates!Neighborhood(in, f) <=>
           \E d \in in.dependencies :
             /\ d.file = f /\ f \in in.code /\ Duplicates!HasIdentity(d)
             /\ id = Duplicates!Identity(d)
BY DEF Duplicates!Neighborhood

LEMMA EntangledFiles ==
  ASSUME NEW in, HasSymbols(in), NEW files, IsFiniteSet(files)
  PROVE  /\ Duplicates!Shared(in, files) \subseteq Identities(in)
         /\ Duplicates!Direct(in, files) \subseteq Depends(in)
         /\ IsFiniteSet(Duplicates!Shared(in, files)) /\ IsFiniteSet(Duplicates!Direct(in, files))
         /\ \A id : IsFiniteSet(Duplicates!Having(in, files, id))
<1>1. \A f, id : id \in Duplicates!Neighborhood(in, f) =>
                   id \in Identities(in) /\ <<f, id>> \in Depends(in)
  BY Neighbors DEF Identities, Depends
<1>2. Duplicates!Shared(in, files) \subseteq Identities(in)
  BY <1>1 DEF Duplicates!Shared
<1>3. Duplicates!Direct(in, files) \subseteq Depends(in)
  BY <1>1 DEF Duplicates!Direct
<1>4. \A id : Duplicates!Having(in, files, id) \subseteq files
  BY DEF Duplicates!Having
<1> QED BY <1>2, <1>3, <1>4, TopologyIsFinite, FS_Subset

LEMMA CandidatesAre ==
  ASSUME NEW in, HasSymbols(in), NEW g \in Duplicates!All(in)
  PROVE  /\ g = Duplicates!Candidate(in, g.name)
         /\ g.name \in Nat
         /\ \E s \in Duplicates!Counted(in) : s.name = g.name
         /\ g.symbols = Duplicates!Group(in, g.name)
         /\ g.topology = Duplicates!Topology(in, Duplicates!FilesOf(g.symbols))
         /\ IsFiniteSet(g.symbols) /\ g.symbols \subseteq in.symbols
         /\ IsFiniteSet(Duplicates!FilesOf(g.symbols))
         /\ Duplicates!Cardinality(Duplicates!FilesOf(g.symbols)) > 1
         /\ Duplicates!Cardinality(g.symbols) \in Nat
         /\ g.topology.shared \in Nat /\ g.topology.direct \in Nat
<1>1. PICK name \in {s.name : s \in Duplicates!Counted(in)} :
        /\ g = Duplicates!Candidate(in, name)
        /\ Duplicates!Cardinality(Duplicates!FilesOf(Duplicates!Group(in, name))) > 1
  BY DEF Duplicates!All
<1>2. /\ g.name = name /\ g.symbols = Duplicates!Group(in, name)
      /\ g.topology = Duplicates!Topology(in, Duplicates!FilesOf(g.symbols))
  BY <1>1 DEF Duplicates!Candidate
<1>3. name \in Nat /\ \E s \in Duplicates!Counted(in) : s.name = name
  BY DEF HasSymbols, Duplicates!Counted, Duplicates!SymbolRecords
<1>4. g.symbols \subseteq in.symbols /\ IsFiniteSet(g.symbols)
      /\ Duplicates!Cardinality(g.symbols) \in Nat
  <2>1. g.symbols \subseteq in.symbols
    BY <1>2 DEF Duplicates!Group, Duplicates!Counted
  <2> QED BY <2>1, SubsetsCount DEF HasSymbols
<1>5. IsFiniteSet(Duplicates!FilesOf(g.symbols))
  BY <1>4, FilesAreFinite
<1>6. g.topology.shared \in Nat /\ g.topology.direct \in Nat
  <2> DEFINE files == Duplicates!FilesOf(g.symbols)
  <2>1. g.topology.shared = Duplicates!Cardinality(Duplicates!Shared(in, files))
        /\ g.topology.direct = Duplicates!Cardinality(Duplicates!Direct(in, files))
    BY <1>2 DEF Duplicates!Topology
  <2>2. IsFiniteSet(Duplicates!Shared(in, files)) /\ IsFiniteSet(Duplicates!Direct(in, files))
    BY <1>5, EntangledFiles
  <2> QED BY <2>1, <2>2, SubsetsCount
<1> QED BY <1>1, <1>2, <1>3, <1>4, <1>5, <1>6

LEMMA StrongestFirst ==
  ASSUME NEW in, HasSymbols(in)
  PROVE  /\ \A g, h \in Duplicates!All(in) :
              g # h => (Duplicates!Before(g, h) <=> ~Duplicates!Before(h, g))
         /\ \A g, h, i \in Duplicates!All(in) :
              Duplicates!Before(g, h) /\ Duplicates!Before(h, i) => Duplicates!Before(g, i)
<1>1. \A g \in Duplicates!All(in) :
        /\ Duplicates!Cardinality(g.symbols) \in Nat
        /\ g.topology.shared \in Nat /\ g.topology.direct \in Nat /\ g.name \in Nat
  BY CandidatesAre
<1>2. ASSUME NEW g \in Duplicates!All(in), NEW h \in Duplicates!All(in), g # h
      PROVE  Duplicates!Before(g, h) <=> ~Duplicates!Before(h, g)
  <2>1. g.name # h.name
    <3>1. g = Duplicates!Candidate(in, g.name) /\ h = Duplicates!Candidate(in, h.name)
      BY CandidatesAre
    <3> QED BY <1>2, <3>1
  <2> QED BY <1>1, <2>1 DEF Duplicates!Before
<1>3. ASSUME NEW g \in Duplicates!All(in), NEW h \in Duplicates!All(in),
             NEW i \in Duplicates!All(in), Duplicates!Before(g, h), Duplicates!Before(h, i)
      PROVE  Duplicates!Before(g, i)
  BY <1>1, <1>3 DEF Duplicates!Before
<1> QED BY <1>2, <1>3

LEMMA CandidatesAreFinite ==
  ASSUME NEW in, HasSymbols(in)
  PROVE  IsFiniteSet(Duplicates!All(in))
<1> DEFINE f == [s \in Duplicates!Counted(in) |-> Duplicates!Candidate(in, s.name)]
           T == {Duplicates!Candidate(in, s.name) : s \in Duplicates!Counted(in)}
<1>1. Duplicates!Counted(in) \subseteq in.symbols
  BY DEF Duplicates!Counted
<1>2. IsFiniteSet(Duplicates!Counted(in))
  BY <1>1, FS_Subset DEF HasSymbols
<1>3. f \in [Duplicates!Counted(in) -> T]
      /\ \A y \in T : \E s \in Duplicates!Counted(in) : y = f[s]
  OBVIOUS
<1>4. Duplicates!All(in) \subseteq T
  BY DEF Duplicates!All
<1> HIDE DEF f, T
<1>5. IsFiniteSet(T)
  BY <1>2, <1>3, FiniteImage
<1> QED BY <1>4, <1>5, FS_Subset

LEMMA RankingIsOfNames ==
  ASSUME input \in DuplicateInputs
  PROVE  Duplicates!RankingIgnoresOrder
<1>1. HasSymbols(input) /\ input.limit \in Nat
  BY DuplicatesTyped
<1>2. ASSUME NEW g \in Duplicates!All(input), NEW s \in g.symbols, NEW t \in g.symbols,
             s.file # t.file \/ s.line # t.line
      PROVE  Duplicates!Earlier(s, t) <=> ~Duplicates!Earlier(t, s)
  <2>1. g.symbols \subseteq Duplicates!SymbolRecords
    BY <1>1, CandidatesAre DEF HasSymbols
  <2>2. s.file \in Nat /\ s.line \in Nat /\ t.file \in Nat /\ t.line \in Nat
    BY <2>1 DEF Duplicates!SymbolRecords
  <2> QED BY <1>2, <2>2 DEF Duplicates!Earlier
<1>3. ASSUME NEW g \in Duplicates!Candidates(input),
             NEW h \in Duplicates!StrongerThan(input, g)
      PROVE  h \in Duplicates!Candidates(input)
  <2>1. /\ g \in Duplicates!All(input) /\ h \in Duplicates!All(input) /\ Duplicates!Before(h, g)
        /\ Duplicates!Cardinality(Duplicates!StrongerThan(input, g)) < input.limit
    BY DEF Duplicates!Candidates, Duplicates!StrongerThan
  <2>2. Duplicates!StrongerThan(input, h) \subseteq Duplicates!StrongerThan(input, g)
    BY <1>1, <2>1, StrongestFirst DEF Duplicates!StrongerThan
  <2>3. Duplicates!StrongerThan(input, g) \subseteq Duplicates!All(input)
    BY DEF Duplicates!StrongerThan
  <2>4. IsFiniteSet(Duplicates!StrongerThan(input, g))
    BY <1>1, <2>3, CandidatesAreFinite, FS_Subset
  <2>5. Duplicates!Cardinality(Duplicates!StrongerThan(input, h)) < input.limit
    BY <1>1, <2>1, <2>2, <2>4, SubsetsCount
  <2> QED BY <2>1, <2>5 DEF Duplicates!Candidates
<1>4. /\ \A g, h \in Duplicates!All(input) :
              g # h => (Duplicates!Before(g, h) <=> ~Duplicates!Before(h, g))
      /\ \A g, h, i \in Duplicates!All(input) :
              Duplicates!Before(g, h) /\ Duplicates!Before(h, i) => Duplicates!Before(g, i)
  BY <1>1, StrongestFirst
<1> QED BY <1>2, <1>3, <1>4 DEF Duplicates!RankingIgnoresOrder

(* The topology of files is of the dependencies alone, and more of them    *)
(* with fewer files out of sight.                                          *)
LEMMA TopologyGrows ==
  ASSUME NEW a, NEW b, HasSymbols(b), a.dependencies = b.dependencies, a.code \subseteq b.code,
         NEW fewer, NEW files, fewer \subseteq files, IsFiniteSet(files)
  PROVE  /\ Duplicates!Shared(a, fewer) \subseteq Duplicates!Shared(b, files)
         /\ Duplicates!Direct(a, fewer) \subseteq Duplicates!Direct(b, files)
<1>1. \A f : Duplicates!Neighborhood(a, f) \subseteq Duplicates!Neighborhood(b, f)
  BY Neighbors
<1>2. ASSUME NEW id \in Duplicates!Shared(a, fewer)
      PROVE  id \in Duplicates!Shared(b, files)
  <2>1. PICK f \in fewer : id \in Duplicates!Neighborhood(a, f)
    BY DEF Duplicates!Shared
  <2>2. id \in UNION {Duplicates!Neighborhood(b, e) : e \in files}
    BY <1>1, <2>1
  <2>3. Duplicates!Cardinality(Duplicates!Having(a, fewer, id)) >= 2
    BY DEF Duplicates!Shared
  <2>4. Duplicates!Having(a, fewer, id) \subseteq Duplicates!Having(b, files, id)
    BY <1>1 DEF Duplicates!Having
  <2>5. IsFiniteSet(Duplicates!Having(b, files, id))
    BY EntangledFiles
  <2>6. Duplicates!Cardinality(Duplicates!Having(b, files, id)) >= 2
    BY <2>3, <2>4, <2>5, SubsetsCount
  <2> QED BY <2>2, <2>6 DEF Duplicates!Shared
<1>3. ASSUME NEW x \in Duplicates!Direct(a, fewer)
      PROVE  x \in Duplicates!Direct(b, files)
  <2>1. PICK f \in fewer : x \in {<<f, id>> : id \in {i \in Duplicates!Neighborhood(a, f) :
                                                        i[2] \in fewer \ {f}}}
    BY DEF Duplicates!Direct
  <2>2. PICK id \in Duplicates!Neighborhood(a, f) : x = <<f, id>> /\ id[2] \in fewer \ {f}
    BY <2>1
  <2>3. id \in Duplicates!Neighborhood(b, f) /\ id[2] \in files \ {f} /\ f \in files
    BY <1>1, <2>2
  <2>4. x \in {<<f, i>> : i \in {j \in Duplicates!Neighborhood(b, f) : j[2] \in files \ {f}}}
    BY <2>2, <2>3
  <2> QED BY <2>3, <2>4 DEF Duplicates!Direct
<1> QED BY <1>2, <1>3

LEMMA OverloadsEntangleNothing ==
  ASSUME input \in DuplicateInputs
  PROVE  Duplicates!OverloadsAddNoTopology
<1> SUFFICES ASSUME NEW g \in Duplicates!All(input), NEW s \in g.symbols, NEW t \in g.symbols,
                    s # t, s.file = t.file
             PROVE  \E h \in Duplicates!All([input EXCEPT !.symbols = @ \ {s}]) :
                      h.name = g.name /\ h.topology = g.topology
  BY DEF Duplicates!OverloadsAddNoTopology
<1> DEFINE other == [input EXCEPT !.symbols = @ \ {s}]
           files == Duplicates!FilesOf(g.symbols)
           h == Duplicates!Candidate(other, g.name)
<1>1. HasSymbols(input) /\ DOMAIN input = {"code", "symbols", "dependencies", "limit"}
  BY DuplicatesTyped
<1>2. /\ other.symbols = input.symbols \ {s} /\ other.code = input.code
      /\ other.dependencies = input.dependencies
  BY <1>1
<1>3. HasSymbols(other)
  <2>1. other.symbols \subseteq input.symbols /\ IsFiniteSet(input.symbols)
    BY <1>1, <1>2 DEF HasSymbols
  <2>2. IsFiniteSet(other.symbols)
    BY <2>1, FS_Subset
  <2> QED BY <1>1, <1>2, <2>1, <2>2 DEF HasSymbols
<1>4. /\ g.symbols = Duplicates!Group(input, g.name)
      /\ g.topology = Duplicates!Topology(input, files)
      /\ IsFiniteSet(files) /\ Duplicates!Cardinality(files) > 1
  BY <1>1, CandidatesAre
<1> HIDE DEF other
<1>5. Duplicates!Group(other, g.name) = g.symbols \ {s}
  <2>1. Duplicates!Counted(other) = Duplicates!Counted(input) \ {s}
    BY <1>2 DEF Duplicates!Counted
  <2> QED BY <1>4, <2>1 DEF Duplicates!Group
<1>6. Duplicates!FilesOf(Duplicates!Group(other, g.name)) = files
  BY <1>5 DEF Duplicates!FilesOf
<1>7. t \in Duplicates!Group(other, g.name)
  BY <1>5
<1> HIDE DEF files
<1>8. Duplicates!Topology(other, files) = Duplicates!Topology(input, files)
  <2>1. /\ Duplicates!Shared(other, files) = Duplicates!Shared(input, files)
        /\ Duplicates!Direct(other, files) = Duplicates!Direct(input, files)
    <3>1. /\ Duplicates!Shared(other, files) \subseteq Duplicates!Shared(input, files)
          /\ Duplicates!Direct(other, files) \subseteq Duplicates!Direct(input, files)
      BY <1>1, <1>2, <1>4, TopologyGrows
    <3>2. /\ Duplicates!Shared(input, files) \subseteq Duplicates!Shared(other, files)
          /\ Duplicates!Direct(input, files) \subseteq Duplicates!Direct(other, files)
      BY <1>3, <1>2, <1>4, TopologyGrows
    <3> QED BY <3>1, <3>2
  <2>2. \A f : Duplicates!Neighborhood(other, f) = Duplicates!Neighborhood(input, f)
    BY <1>2 DEF Duplicates!Neighborhood
  <2> QED BY <2>1, <2>2 DEF Duplicates!Topology
<1>9. h.name = g.name /\ h.topology = g.topology
  BY <1>4, <1>6, <1>8 DEF Duplicates!Candidate
<1>10. h \in Duplicates!All(other)
  <2>1. t \in Duplicates!Counted(other) /\ t.name = g.name
    BY <1>7 DEF Duplicates!Group
  <2>2. g.name \in {u.name : u \in Duplicates!Counted(other)}
    BY <2>1
  <2> QED BY <2>2, <1>4, <1>6 DEF Duplicates!All
<1> QED BY <1>9, <1>10 DEF other

LEMMA SummariesAreTrue ==
  ASSUME input \in DuplicateInputs
  PROVE  Duplicates!SummaryIsTrue
<1>1. HasSymbols(input) /\ None \notin {"share", "direct"}
  BY DuplicatesTyped
<1> SUFFICES ASSUME NEW g \in Duplicates!All(input)
             PROVE  LET files == Duplicates!FilesOf(g.symbols)
                    IN IF Duplicates!Summary(g.topology) = "share" THEN Duplicates!SharingIsTrue(g)
                       ELSE /\ \A f \in files : g.topology.perFile[f] = 0
                            /\ Duplicates!Summary(g.topology) = "direct" =>
                                 \E d \in input.dependencies :
                                   /\ d.file \in files
                                   /\ Duplicates!Target(d) \in files \ {d.file}
  BY DEF Duplicates!SummaryIsTrue
<1> DEFINE files == Duplicates!FilesOf(g.symbols)
           shared == Duplicates!Shared(input, files)
           perFile == g.topology.perFile
           sharing == {f \in files : perFile[f] > 0}
<1>2. /\ IsFiniteSet(files) /\ g.topology = Duplicates!Topology(input, files)
  BY <1>1, CandidatesAre
<1>3. /\ g.topology.shared = Duplicates!Cardinality(shared)
      /\ g.topology.direct = Duplicates!Cardinality(Duplicates!Direct(input, files))
      /\ \A f \in files :
           perFile[f] = Duplicates!Cardinality(shared \cap Duplicates!Neighborhood(input, f))
  BY <1>2 DEF Duplicates!Topology
<1>4. /\ IsFiniteSet(shared) /\ IsFiniteSet(Duplicates!Direct(input, files))
      /\ \A id : IsFiniteSet(Duplicates!Having(input, files, id))
  BY <1>1, <1>2, EntangledFiles
<1> HIDE DEF files
<1>5. \A f \in files : perFile[f] > 0 <=> shared \cap Duplicates!Neighborhood(input, f) # {}
  <2> SUFFICES ASSUME NEW f \in files
               PROVE  perFile[f] > 0 <=> shared \cap Duplicates!Neighborhood(input, f) # {}
    OBVIOUS
  <2>1. shared \cap Duplicates!Neighborhood(input, f) \subseteq shared
    OBVIOUS
  <2>2. /\ perFile[f] \in Nat
        /\ perFile[f] = 0 <=> shared \cap Duplicates!Neighborhood(input, f) = {}
    <3> HIDE DEF shared, perFile
    <3> QED BY <1>3, <1>4, <2>1, SubsetsCount
  <2> HIDE DEF shared, perFile
  <2> QED BY <2>2
<1>6. \A f \in files : perFile[f] = 0 <=> shared \cap Duplicates!Neighborhood(input, f) = {}
  BY <1>3, <1>4, SubsetsCount
<1>7. ASSUME NEW id \in shared, NEW x
      PROVE  \E f \in files : f # x /\ f \in sharing /\ id \in Duplicates!Neighborhood(input, f)
  <2>1. Duplicates!Cardinality(Duplicates!Having(input, files, id)) >= 2
    BY DEF Duplicates!Shared
  <2>2. PICK f \in Duplicates!Having(input, files, id) : f # x
    BY <1>4, <2>1, TwoOfThem
  <2>3. f \in files /\ id \in Duplicates!Neighborhood(input, f)
    BY <2>2 DEF Duplicates!Having
  <2>4. perFile[f] > 0
    BY <1>5, <2>3
  <2> QED BY <2>2, <2>3, <2>4
<1>8. CASE Duplicates!Summary(g.topology) = "share"
  <2>1. shared # {}
    <3>1. g.topology.shared > 0
      BY <1>1, <1>8 DEF Duplicates!Summary
    <3>2. Duplicates!Cardinality(shared) # 0
      BY <1>3, <3>1
    <3> HIDE DEF shared
    <3> QED BY <1>4, <3>2, SubsetsCount
  <2>2. sharing # {}
    BY <1>7, <2>1
  <2>3. ASSUME NEW f \in sharing
        PROVE  \E h \in sharing \ {f} : \E d, e \in input.dependencies :
                 /\ d.file = f /\ e.file = h /\ d.kind = e.kind
                 /\ Duplicates!Target(d) = Duplicates!Target(e)
    <3>1. PICK id \in shared : id \in Duplicates!Neighborhood(input, f)
      BY <1>5, <2>3
    <3>2. PICK h \in files : h # f /\ h \in sharing /\ id \in Duplicates!Neighborhood(input, h)
      BY <1>7, <3>1
    <3>3. PICK d \in input.dependencies : d.file = f /\ id = Duplicates!Identity(d)
      BY <3>1, Neighbors
    <3>4. PICK e \in input.dependencies : e.file = h /\ id = Duplicates!Identity(e)
      BY <3>2, Neighbors
    <3>5. d.kind = e.kind /\ Duplicates!Target(d) = Duplicates!Target(e)
      BY <3>3, <3>4 DEF Duplicates!Identity
    <3> HIDE DEF sharing
    <3> QED BY <3>2, <3>3, <3>4, <3>5
  <2>4. Duplicates!SharingIsTrue(g)
    BY <2>2, <2>3 DEF Duplicates!SharingIsTrue, files
  <2> QED BY <1>8, <2>4
<1>9. CASE Duplicates!Summary(g.topology) # "share"
  <2>1. shared = {}
    <3>1. ~(g.topology.shared > 0)
      BY <1>9 DEF Duplicates!Summary
    <3>2. Duplicates!Cardinality(shared) \in Nat
          /\ (Duplicates!Cardinality(shared) = 0 <=> shared = {})
      <4> HIDE DEF shared
      <4> QED BY <1>4, SubsetsCount
    <3> HIDE DEF shared
    <3> QED BY <1>3, <3>1, <3>2
  <2>2. \A f \in files : perFile[f] = 0
    BY <1>6, <2>1
  <2>3. ASSUME Duplicates!Summary(g.topology) = "direct"
        PROVE  \E d \in input.dependencies :
                 d.file \in files /\ Duplicates!Target(d) \in files \ {d.file}
    <3>1. g.topology.direct > 0
      BY <1>1, <2>3 DEF Duplicates!Summary
    <3>2. Duplicates!Cardinality(Duplicates!Direct(input, files)) # 0
      BY <1>3, <3>1
    <3>3. Duplicates!Direct(input, files) # {}
      BY <1>4, <3>2, SubsetsCount
    <3>4. PICK f \in files : {<<f, id>> : id \in {i \in Duplicates!Neighborhood(input, f) :
                                                    i[2] \in files \ {f}}} # {}
      BY <3>3 DEF Duplicates!Direct
    <3>5. PICK id \in Duplicates!Neighborhood(input, f) : id[2] \in files \ {f}
      BY <3>4
    <3>6. PICK d \in input.dependencies : d.file = f /\ id = Duplicates!Identity(d)
      BY <3>5, Neighbors
    <3>7. id[2] = Duplicates!Target(d)
      BY <3>6 DEF Duplicates!Identity
    <3> QED BY <3>5, <3>6, <3>7
  <2> QED BY <1>9, <2>2, <2>3 DEF files
<1> QED BY <1>8, <1>9

LEMMA CoverageStrengthens ==
  ASSUME input \in DuplicateInputs
  PROVE  Duplicates!CoverageOnlyWeakens
<1> SUFFICES ASSUME NEW gone \in input.code,
                    NEW h \in Duplicates!All([input EXCEPT !.code = @ \ {gone}])
             PROVE  \E g \in Duplicates!All(input) :
                      /\ g.name = h.name /\ h.symbols \subseteq g.symbols
                      /\ h.topology.shared <= g.topology.shared
                      /\ h.topology.direct <= g.topology.direct
  BY DEF Duplicates!CoverageOnlyWeakens
<1> DEFINE other == [input EXCEPT !.code = @ \ {gone}]
           g == Duplicates!Candidate(input, h.name)
           fewer == Duplicates!FilesOf(h.symbols)
           files == Duplicates!FilesOf(g.symbols)
<1>1. HasSymbols(input) /\ DOMAIN input = {"code", "symbols", "dependencies", "limit"}
  BY DuplicatesTyped
<1>2. /\ other.symbols = input.symbols /\ other.code = input.code \ {gone}
      /\ other.dependencies = input.dependencies
  BY <1>1
<1>3. HasSymbols(other) /\ h \in Duplicates!All(other)
  BY <1>1, <1>2 DEF HasSymbols
<1> HIDE DEF other
<1>4. /\ h.symbols = Duplicates!Group(other, h.name)
      /\ h.topology = Duplicates!Topology(other, fewer)
      /\ \E s \in Duplicates!Counted(other) : s.name = h.name
      /\ Duplicates!Cardinality(fewer) > 1
  BY <1>3, CandidatesAre
<1>5. Duplicates!Counted(other) \subseteq Duplicates!Counted(input)
  BY <1>2 DEF Duplicates!Counted
<1>6. /\ g.name = h.name /\ g.symbols = Duplicates!Group(input, h.name)
      /\ g.topology = Duplicates!Topology(input, files)
  BY DEF Duplicates!Candidate
<1> HIDE DEF g
<1>7. h.symbols \subseteq g.symbols
  BY <1>4, <1>5, <1>6 DEF Duplicates!Group
<1>8. fewer \subseteq files
  BY <1>7 DEF Duplicates!FilesOf
<1>9. IsFiniteSet(files)
  <2>1. g.symbols \subseteq input.symbols
    BY <1>6 DEF Duplicates!Group, Duplicates!Counted
  <2>2. IsFiniteSet(g.symbols)
    BY <1>1, <2>1, FS_Subset DEF HasSymbols
  <2> QED BY <2>2, FilesAreFinite
<1>10. g \in Duplicates!All(input)
  <2>1. Duplicates!Cardinality(files) > 1
    BY <1>4, <1>8, <1>9, SubsetsCount
  <2>2. h.name \in {s.name : s \in Duplicates!Counted(input)}
    BY <1>4, <1>5
  <2> QED BY <1>6, <2>1, <2>2 DEF Duplicates!All, g
<1> HIDE DEF files, fewer
<1>11. /\ Duplicates!Shared(other, fewer) \subseteq Duplicates!Shared(input, files)
       /\ Duplicates!Direct(other, fewer) \subseteq Duplicates!Direct(input, files)
  BY <1>1, <1>2, <1>8, <1>9, TopologyGrows
<1>12. IsFiniteSet(Duplicates!Shared(input, files)) /\ IsFiniteSet(Duplicates!Direct(input, files))
  BY <1>1, <1>9, EntangledFiles
<1>13. /\ h.topology.shared = Duplicates!Cardinality(Duplicates!Shared(other, fewer))
       /\ h.topology.direct = Duplicates!Cardinality(Duplicates!Direct(other, fewer))
       /\ g.topology.shared = Duplicates!Cardinality(Duplicates!Shared(input, files))
       /\ g.topology.direct = Duplicates!Cardinality(Duplicates!Direct(input, files))
  BY <1>4, <1>6 DEF Duplicates!Topology
<1>14. h.topology.shared <= g.topology.shared /\ h.topology.direct <= g.topology.direct
  BY <1>11, <1>12, <1>13, SubsetsCount
<1> QED BY <1>6, <1>7, <1>10, <1>14

-----------------------------------------------------------------------------
(***************************************************************************)
(* Conflicts of documents.                                                 *)
(***************************************************************************)
LEMMA DocumentsCount ==
  ASSUME NEW S
  PROVE  /\ Documents!Cardinality(S) = Cardinality(S)
         /\ Documents!IsFiniteSet(S) <=> IsFiniteSet(S)
<1>1. Documents!Cardinality(S) = Cardinality(S)
  BY DEF Cardinality, Documents!Cardinality
<1>2. Documents!IsFiniteSet(S) <=> IsFiniteSet(S)
  BY DEF IsFiniteSet, Documents!IsFiniteSet
<1> QED BY <1>1, <1>2

LEMMA FewerTokens ==
  ASSUME NEW T, IsFiniteSet(T), NEW S, S \subseteq T
  PROVE  /\ IsFiniteSet(S)
         /\ Documents!Cardinality(S) \in Nat /\ Documents!Cardinality(T) \in Nat
         /\ Documents!Cardinality(S) <= Documents!Cardinality(T)
         /\ Documents!Cardinality(S) = 0 <=> S = {}
<1>1. IsFiniteSet(S) /\ Cardinality(S) <= Cardinality(T)
  BY FS_Subset
<1>2. Cardinality(S) \in Nat /\ Cardinality(T) \in Nat
  BY <1>1, FS_CardinalityType
<1>3. Cardinality(S) = 0 <=> S = {}
  BY <1>1, FS_EmptySet
<1> QED BY <1>1, <1>2, <1>3, DocumentsCount

(* What is used of the type of an index: chunks with their ordinals, and   *)
(* patterns in order.                                                      *)
IsChunkOf(in, c) ==
  /\ c \in [ordinal : 0 .. in.last, file : DOMAIN in.about, start : Nat \ {0}, lines : {c.lines}]
  /\ Len(c.lines) \in Nat /\ DOMAIN c.lines = 1 .. Len(c.lines)

IsDocumentIndex(in) ==
  /\ in.last \in Nat /\ in.order \in Seq(SUBSET DOMAIN in.about)
  /\ \A c \in in.chunks : IsChunkOf(in, c)

HasFiniteLines(c) ==
  \A n \in DOMAIN c.lines :
    /\ IsFiniteSet(c.lines[n].heading) /\ IsFiniteSet(c.lines[n].topic)
    /\ IsFiniteSet(c.lines[n].status.context) /\ IsFiniteSet(c.lines[n].selection.context)

LEMMA DocumentsTyped ==
  ASSUME NEW in \in DocumentInputs
  PROVE  /\ DOMAIN in = {"chunks", "last", "about", "order", "limit"}
         /\ IsDocumentIndex(in)
         /\ \A c \in in.chunks : HasFiniteLines(c)
         /\ \A c, d \in in.chunks : c.ordinal = d.ordinal \/ Documents!ShareALine(c, d) => c = d
<1>1. Documents!InputsAreIndexes
  BY ConstantsAreSound
<1>2. /\ DOMAIN in = {"chunks", "last", "about", "order", "limit"}
      /\ in.last \in Nat /\ in.order \in Seq(SUBSET DOMAIN in.about)
      /\ \A c \in in.chunks :
           /\ c \in [ordinal : 0 .. in.last, file : DOMAIN in.about, start : Nat \ {0},
                     lines : {c.lines}]
           /\ Documents!AreLines(c.lines)
      /\ \A c, d \in in.chunks : c.ordinal = d.ordinal \/ Documents!ShareALine(c, d) => c = d
  BY <1>1 DEF Documents!InputsAreIndexes
<1>3. ASSUME NEW c \in in.chunks
      PROVE  IsChunkOf(in, c) /\ HasFiniteLines(c)
  <2>1. /\ c.lines \in Seq({c.lines[n] : n \in DOMAIN c.lines})
        /\ \A n \in DOMAIN c.lines :
             /\ Documents!IsFiniteSet(c.lines[n].heading)
             /\ Documents!IsFiniteSet(c.lines[n].topic)
             /\ Documents!IsFiniteSet(c.lines[n].status.context)
             /\ Documents!IsFiniteSet(c.lines[n].selection.context)
    BY <1>2 DEF Documents!AreLines
  <2>2. Len(c.lines) \in Nat /\ DOMAIN c.lines = 1 .. Len(c.lines)
    BY <2>1
  <2>3. HasFiniteLines(c)
    BY <2>1, DocumentsCount DEF HasFiniteLines
  <2> QED BY <1>2, <2>2, <2>3 DEF IsChunkOf
<1> QED BY <1>2, <1>3 DEF IsDocumentIndex

(* A mention is a line of a chunk of the index.                            *)
LEMMA MentionsAre ==
  ASSUME NEW in, NEW kinds, NEW m
  PROVE  m \in Documents!Mentions(in, kinds) <=>
           \E c \in in.chunks : m \in [chunk : {c}, line : DOMAIN c.lines, kind : kinds]
BY DEF Documents!Mentions

LEMMA MentionsHave ==
  ASSUME NEW in, IsDocumentIndex(in), NEW kinds, NEW m \in Documents!Mentions(in, kinds)
  PROVE  /\ m.chunk \in in.chunks /\ IsChunkOf(in, m.chunk)
         /\ m = [chunk |-> m.chunk, line |-> m.line, kind |-> m.kind]
         /\ m.line \in DOMAIN m.chunk.lines /\ m.line \in Nat /\ m.line >= 1
         /\ m.kind \in kinds
         /\ m.chunk.ordinal \in Nat /\ m.chunk.ordinal <= in.last
         /\ m.chunk.start \in Nat /\ m.chunk.start >= 1
<1>1. PICK c \in in.chunks : m \in [chunk : {c}, line : DOMAIN c.lines, kind : kinds]
  BY MentionsAre
<1>2. IsChunkOf(in, c)
  BY DEF IsDocumentIndex
<1>3. m.chunk = c /\ m = [chunk |-> c, line |-> m.line, kind |-> m.kind]
      /\ m.line \in DOMAIN c.lines /\ m.kind \in kinds
  BY <1>1
<1>4. m.line \in Nat /\ m.line >= 1
  BY <1>2, <1>3 DEF IsChunkOf
<1>5. c.ordinal \in Nat /\ c.ordinal <= in.last /\ c.start \in Nat /\ c.start >= 1
  BY <1>2 DEF IsChunkOf, IsDocumentIndex
<1> QED BY <1>2, <1>3, <1>4, <1>5

(* The precedence of a file is the first pattern that matches it.          *)
LEMMA PrecedenceIs ==
  ASSUME NEW in, IsDocumentIndex(in), NEW f
  PROVE  /\ Documents!Precedence(in, f) \in Nat
         /\ Documents!Precedence(in, f) <= Len(in.order) + 1
         /\ Documents!Precedence(in, f) # Len(in.order) + 1 => Documents!Matching(in, f) # {}
         /\ Len(in.order) \in Nat
<1> DEFINE T == Documents!Matching(in, f)
<1>1. Len(in.order) \in Nat /\ DOMAIN in.order = 1 .. Len(in.order)
  BY DEF IsDocumentIndex
<1>2. T \subseteq 1 .. Len(in.order)
  BY <1>1 DEF Documents!Matching
<1>3. CASE T = {}
  BY <1>1, <1>3 DEF Documents!Precedence
<1>4. CASE T # {}
  <2>1. PICK n \in T : \A k \in T : n <= k
    BY <1>1, <1>2, <1>4, LeastNumber
  <2>2. Documents!Precedence(in, f) = CHOOSE n1 \in T : \A k \in T : n1 <= k
    BY <1>4 DEF Documents!Precedence
  <2>3. Documents!Precedence(in, f) \in T
    <3> HIDE DEF T
    <3> QED BY <2>1, <2>2
  <2> QED BY <1>1, <1>2, <1>4, <2>3
<1> QED BY <1>3, <1>4

LEMMA ConflictsAreMutual ==
  ASSUME NEW l, NEW r
  PROVE  /\ Documents!Contradicting(l, r) => Documents!Contradicting(r, l)
         /\ Documents!SharesTopic(l, r) => Documents!SharesTopic(r, l)
<1>1. /\ Documents!Context(l) \cap Documents!Context(r)
           = Documents!Context(r) \cap Documents!Context(l)
      /\ Documents!Said(l).subject \cap Documents!Said(r).subject
           = Documents!Said(r).subject \cap Documents!Said(l).subject
  OBVIOUS
<1>2. Documents!Contradicting(l, r) => Documents!Contradicting(r, l)
  BY <1>1 DEF Documents!Contradicting
<1>3. Documents!SharesTopic(l, r) => Documents!SharesTopic(r, l)
  BY <1>1 DEF Documents!SharesTopic
<1> QED BY <1>2, <1>3

LEMMA ConflictsAreOfAKind ==
  ASSUME NEW l, NEW r, Documents!Contradicting(l, r) \/ Documents!SharesTopic(l, r)
  PROVE  l.kind = r.kind
BY DEF Documents!Contradicting, Documents!SharesTopic

(* The stale side of a pair: of two different precedences the larger.      *)
LEMMA StaleSidesAre ==
  ASSUME NEW in, IsDocumentIndex(in), NEW p \in Documents!StalePairs(in)
  PROVE  /\ p \in Documents!Contradictions(in)
         /\ p = <<p[1], p[2]>>
         /\ \/ Documents!StaleSide(in, p) = <<p[1], p[2]>>
            \/ Documents!StaleSide(in, p) = <<p[2], p[1]>>
         /\ LET sides == Documents!StaleSide(in, p)
            IN Documents!Precedence(in, Documents!File(sides[2]))
                 < Documents!Precedence(in, Documents!File(sides[1]))
<1>1. /\ p \in Documents!Contradictions(in)
      /\ Documents!Precedence(in, Documents!File(p[1]))
           # Documents!Precedence(in, Documents!File(p[2]))
  BY DEF Documents!StalePairs
<1>2. p = <<p[1], p[2]>>
  BY <1>1 DEF Documents!Contradictions, Documents!Pairs
<1>3. /\ Documents!Precedence(in, Documents!File(p[1])) \in Nat
      /\ Documents!Precedence(in, Documents!File(p[2])) \in Nat
  BY PrecedenceIs
<1>4. CASE Documents!Precedence(in, Documents!File(p[1]))
             < Documents!Precedence(in, Documents!File(p[2]))
  <2>1. Documents!StaleSide(in, p) = <<p[2], p[1]>>
    BY <1>4 DEF Documents!StaleSide
  <2> QED BY <1>1, <1>2, <1>4, <2>1
<1>5. CASE ~(Documents!Precedence(in, Documents!File(p[1]))
               < Documents!Precedence(in, Documents!File(p[2])))
  <2>1. Documents!StaleSide(in, p) = p
    BY <1>5 DEF Documents!StaleSide
  <2>2. Documents!StaleSide(in, p) = <<p[1], p[2]>>
    BY <1>2, <2>1
  <2>3. Documents!StaleSide(in, p)[1] = p[1] /\ Documents!StaleSide(in, p)[2] = p[2]
    BY <2>1
  <2>4. Documents!Precedence(in, Documents!File(p[2]))
          < Documents!Precedence(in, Documents!File(p[1]))
    BY <1>1, <1>3, <1>5
  <2> QED BY <1>1, <1>2, <2>2, <2>3, <2>4
<1> QED BY <1>4, <1>5

(* Read the other way round.                                               *)
Mirror(last, c) == [c EXCEPT !.ordinal = last - @]
Opposite(last, m) == [chunk |-> Mirror(last, m.chunk), line |-> m.line, kind |-> m.kind]

AreOpposite(a, b) ==
  /\ a.last = b.last /\ a.about = b.about /\ a.order = b.order
  /\ a.chunks = {Mirror(b.last, c) : c \in b.chunks}
  /\ b.chunks = {Mirror(a.last, c) : c \in a.chunks}

LEMMA MirrorsAre ==
  ASSUME NEW in, IsDocumentIndex(in), NEW c, IsChunkOf(in, c)
  PROVE  /\ Mirror(in.last, c).ordinal = in.last - c.ordinal
         /\ Mirror(in.last, c).file = c.file /\ Mirror(in.last, c).start = c.start
         /\ Mirror(in.last, c).lines = c.lines
         /\ Mirror(in.last, Mirror(in.last, c)) = c
         /\ IsChunkOf(in, Mirror(in.last, c))
<1> DEFINE d == Mirror(in.last, c)
<1>1. /\ in.last \in Nat /\ c.ordinal \in 0 .. in.last
      /\ c = [ordinal |-> c.ordinal, file |-> c.file, start |-> c.start, lines |-> c.lines]
      /\ c.file \in DOMAIN in.about /\ c.start \in Nat \ {0}
  BY DEF IsChunkOf, IsDocumentIndex
<1>2. d = [ordinal |-> in.last - c.ordinal, file |-> c.file, start |-> c.start, lines |-> c.lines]
  BY <1>1 DEF Mirror
<1>3. Mirror(in.last, d) = [ordinal |-> in.last - (in.last - c.ordinal), file |-> c.file,
                            start |-> c.start, lines |-> c.lines]
  <2>1. Mirror(in.last, d) = [d EXCEPT !.ordinal = in.last - d.ordinal]
    BY DEF Mirror
  <2> HIDE DEF d
  <2> QED BY <1>2, <2>1
<1>4. in.last - (in.last - c.ordinal) = c.ordinal /\ in.last - c.ordinal \in 0 .. in.last
  BY <1>1
<1>5. Mirror(in.last, d) = c
  BY <1>1, <1>3, <1>4
<1>6. IsChunkOf(in, d)
  <2>1. d \in [ordinal : 0 .. in.last, file : DOMAIN in.about, start : Nat \ {0},
               lines : {d.lines}]
    <3>1. d.lines = c.lines
      BY <1>2
    <3> HIDE DEF d
    <3> QED BY <1>1, <1>2, <1>4, <3>1
  <2>2. d.lines = c.lines
    BY <1>2
  <2> QED BY <2>1, <2>2 DEF IsChunkOf
<1> QED BY <1>2, <1>5, <1>6

LEMMA OppositesSayTheSame ==
  ASSUME NEW in, IsDocumentIndex(in), NEW kinds, NEW m \in Documents!Mentions(in, kinds)
  PROVE  LET o == Opposite(in.last, m)
         IN /\ o.kind = m.kind /\ o.line = m.line
            /\ o.chunk.ordinal = in.last - m.chunk.ordinal
            /\ Documents!File(o) = Documents!File(m)
            /\ Documents!Place(o) = Documents!Place(m)
            /\ Documents!Said(o) = Documents!Said(m)
            /\ Documents!Context(o) = Documents!Context(m)
            /\ Documents!IsClaim(o) <=> Documents!IsClaim(m)
<1> DEFINE o == Opposite(in.last, m)
<1>1. IsChunkOf(in, m.chunk)
  BY MentionsHave
<1>2. /\ o.kind = m.kind /\ o.line = m.line /\ o.chunk = Mirror(in.last, m.chunk)
  BY DEF Opposite
<1> HIDE DEF o
<1>3. /\ o.chunk.ordinal = in.last - m.chunk.ordinal
      /\ o.chunk.file = m.chunk.file /\ o.chunk.start = m.chunk.start
      /\ o.chunk.lines = m.chunk.lines
  BY <1>1, <1>2, MirrorsAre
<1>4. Documents!File(o) = Documents!File(m)
  BY <1>3 DEF Documents!File
<1>5. Documents!Place(o) = Documents!Place(m)
  BY <1>2, <1>3, <1>4 DEF Documents!Place
<1>6. Documents!Said(o) = Documents!Said(m)
  BY <1>2, <1>3 DEF Documents!Said
<1>7. Documents!Heading(o.chunk, o.line) = Documents!Heading(m.chunk, m.line)
  <2>1. Documents!Above(o.chunk, o.line) = Documents!Above(m.chunk, m.line)
    BY <1>2, <1>3 DEF Documents!Above
  <2> QED BY <1>3, <2>1 DEF Documents!Heading
<1>8. Documents!Context(o) = Documents!Context(m)
  BY <1>6, <1>7 DEF Documents!Context
<1>9. Documents!IsClaim(o) <=> Documents!IsClaim(m)
  BY <1>2, <1>3, <1>6, <1>8 DEF Documents!IsClaim
<1> QED BY <1>2, <1>3, <1>4, <1>5, <1>6, <1>8, <1>9 DEF o

LEMMA OppositeMentions ==
  ASSUME NEW a, NEW b, IsDocumentIndex(a), AreOpposite(a, b), NEW kinds,
         NEW m \in Documents!Mentions(a, kinds)
  PROVE  Opposite(a.last, m) \in Documents!Mentions(b, kinds)
<1>1. PICK c \in a.chunks : m \in [chunk : {c}, line : DOMAIN c.lines, kind : kinds]
  BY MentionsAre
<1>2. IsChunkOf(a, c)
  BY DEF IsDocumentIndex
<1>3. Mirror(a.last, c) \in b.chunks
  BY DEF AreOpposite
<1>4. Mirror(a.last, c).lines = c.lines
  BY <1>2, MirrorsAre
<1>5. m.chunk = c /\ m.line \in DOMAIN c.lines /\ m.kind \in kinds
  BY <1>1
<1> DEFINE d == Mirror(a.last, c)
<1>6. Opposite(a.last, m) = [chunk |-> d, line |-> m.line, kind |-> m.kind]
  BY <1>5 DEF Opposite
<1> HIDE DEF d
<1>7. Opposite(a.last, m) \in [chunk : {d}, line : DOMAIN d.lines, kind : kinds]
  BY <1>4, <1>5, <1>6 DEF d
<1> QED BY <1>3, <1>7, MentionsAre DEF d

(* Two claims that conflict conflict the other way round.                  *)
Flipped(last, p) == <<Opposite(last, p[2]), Opposite(last, p[1])>>

Turns(last, p, q) ==
  /\ q[1].kind = p[2].kind /\ q[2].kind = p[1].kind
  /\ Documents!File(q[1]) = Documents!File(p[2]) /\ Documents!File(q[2]) = Documents!File(p[1])
  /\ Documents!Place(q[1]) = Documents!Place(p[2]) /\ Documents!Place(q[2]) = Documents!Place(p[1])
  /\ Documents!Said(q[1]) = Documents!Said(p[2]) /\ Documents!Said(q[2]) = Documents!Said(p[1])
  /\ Documents!Context(q[1]) = Documents!Context(p[2])
  /\ Documents!Context(q[2]) = Documents!Context(p[1])
  /\ Documents!IsClaim(q[1]) <=> Documents!IsClaim(p[2])
  /\ Documents!IsClaim(q[2]) <=> Documents!IsClaim(p[1])
  /\ q[1].chunk.ordinal = last - p[2].chunk.ordinal
  /\ q[2].chunk.ordinal = last - p[1].chunk.ordinal

LEMMA FlippedPairs ==
  ASSUME NEW a, NEW b, IsDocumentIndex(a), AreOpposite(a, b), NEW kinds, NEW p,
         p[1] \in Documents!Mentions(a, kinds), p[2] \in Documents!Mentions(a, kinds)
  PROVE  LET q == Flipped(a.last, p)
         IN /\ Turns(a.last, p, q)
            /\ q[1] \in Documents!Mentions(b, kinds) /\ q[2] \in Documents!Mentions(b, kinds)
            /\ p[1].chunk.ordinal < p[2].chunk.ordinal => q[1].chunk.ordinal < q[2].chunk.ordinal
            /\ Documents!Contradicting(p[1], p[2]) => Documents!Contradicting(q[1], q[2])
            /\ Documents!SharesTopic(p[1], p[2]) => Documents!SharesTopic(q[1], q[2])
<1> DEFINE q == Flipped(a.last, p)
<1>1. q[1] = Opposite(a.last, p[2]) /\ q[2] = Opposite(a.last, p[1])
  BY DEF Flipped
<1> HIDE DEF q
<1>2. q[1] \in Documents!Mentions(b, kinds) /\ q[2] \in Documents!Mentions(b, kinds)
  BY <1>1, OppositeMentions
<1>3. Turns(a.last, p, q)
  BY <1>1, OppositesSayTheSame DEF Turns
<1>4. p[1].chunk.ordinal < p[2].chunk.ordinal => q[1].chunk.ordinal < q[2].chunk.ordinal
  <2>1. /\ p[1].chunk.ordinal \in Nat /\ p[2].chunk.ordinal \in Nat /\ a.last \in Nat
        /\ q[1].chunk.ordinal = a.last - p[2].chunk.ordinal
        /\ q[2].chunk.ordinal = a.last - p[1].chunk.ordinal
    BY <1>3, MentionsHave DEF Turns, IsDocumentIndex
  <2> QED BY <2>1
<1>5. Documents!Contradicting(p[2], p[1]) => Documents!Contradicting(q[1], q[2])
  BY <1>3 DEF Turns, Documents!Contradicting
<1>6. Documents!SharesTopic(p[2], p[1]) => Documents!SharesTopic(q[1], q[2])
  BY <1>3 DEF Turns, Documents!SharesTopic
<1>7. /\ Documents!Contradicting(p[1], p[2]) => Documents!Contradicting(p[2], p[1])
      /\ Documents!SharesTopic(p[1], p[2]) => Documents!SharesTopic(p[2], p[1])
  BY ConflictsAreMutual
<1> QED BY <1>2, <1>3, <1>4, <1>5, <1>6, <1>7 DEF q

LEMMA FlippedContradictions ==
  ASSUME NEW a, NEW b, IsDocumentIndex(a), AreOpposite(a, b),
         NEW p \in Documents!Contradictions(a)
  PROVE  LET q == Flipped(a.last, p)
         IN q \in Documents!Contradictions(b) /\ Turns(a.last, p, q) /\ p[1].kind = p[2].kind
<1> DEFINE q == Flipped(a.last, p)
           kinds == {"status", "selection"}
<1>1. /\ p[1] \in Documents!ContradictionClaims(a) /\ p[2] \in Documents!ContradictionClaims(a)
      /\ Documents!File(p[1]) # Documents!File(p[2])
      /\ p[1].chunk.ordinal < p[2].chunk.ordinal
      /\ Documents!Contradicting(p[1], p[2])
  BY DEF Documents!Contradictions, Documents!Pairs
<1>2. /\ p[1] \in Documents!Mentions(a, kinds) /\ p[2] \in Documents!Mentions(a, kinds)
      /\ Documents!Material(a.about[Documents!File(p[1])]) /\ Documents!IsClaim(p[1])
      /\ Documents!Material(a.about[Documents!File(p[2])]) /\ Documents!IsClaim(p[2])
  BY <1>1 DEF Documents!ContradictionClaims
<1>3. /\ Turns(a.last, p, q)
      /\ q[1] \in Documents!Mentions(b, kinds) /\ q[2] \in Documents!Mentions(b, kinds)
      /\ q[1].chunk.ordinal < q[2].chunk.ordinal
      /\ Documents!Contradicting(q[1], q[2])
  BY <1>1, <1>2, FlippedPairs
<1>4. a.about = b.about
  BY DEF AreOpposite
<1>5. q[1] \in Documents!ContradictionClaims(b) /\ q[2] \in Documents!ContradictionClaims(b)
  BY <1>2, <1>3, <1>4 DEF Turns, Documents!ContradictionClaims
<1>6. Documents!File(q[1]) # Documents!File(q[2])
  BY <1>1, <1>3 DEF Turns
<1>7. q \in Documents!Pairs(Documents!ContradictionClaims(b))
  <2>1. q = <<q[1], q[2]>>
    BY DEF Flipped
  <2> HIDE DEF q
  <2> QED BY <1>3, <1>5, <1>6, <2>1 DEF Documents!Pairs
<1>8. p[1].kind = p[2].kind
  BY <1>1, ConflictsAreOfAKind
<1> QED BY <1>3, <1>7, <1>8 DEF Documents!Contradictions

LEMMA FlippedOverlaps ==
  ASSUME NEW a, NEW b, IsDocumentIndex(a), AreOpposite(a, b),
         NEW p \in Documents!Overlaps(a)
  PROVE  LET q == Flipped(a.last, p)
         IN q \in Documents!Overlaps(b) /\ Turns(a.last, p, q) /\ p[1].kind = p[2].kind
<1> DEFINE q == Flipped(a.last, p)
           kinds == {"authority"}
<1>1. /\ p[1] \in Documents!AuthorityClaims(a) /\ p[2] \in Documents!AuthorityClaims(a)
      /\ Documents!File(p[1]) # Documents!File(p[2])
      /\ p[1].chunk.ordinal < p[2].chunk.ordinal
      /\ Documents!SharesTopic(p[1], p[2])
  BY DEF Documents!Overlaps, Documents!Pairs
<1>2. /\ p[1] \in Documents!Mentions(a, kinds) /\ p[2] \in Documents!Mentions(a, kinds)
      /\ Documents!IsClaim(p[1]) /\ Documents!IsClaim(p[2])
  BY <1>1 DEF Documents!AuthorityClaims
<1>3. /\ Turns(a.last, p, q)
      /\ q[1] \in Documents!Mentions(b, kinds) /\ q[2] \in Documents!Mentions(b, kinds)
      /\ q[1].chunk.ordinal < q[2].chunk.ordinal
      /\ Documents!SharesTopic(q[1], q[2])
  BY <1>1, <1>2, FlippedPairs
<1>4. q[1] \in Documents!AuthorityClaims(b) /\ q[2] \in Documents!AuthorityClaims(b)
  BY <1>2, <1>3 DEF Turns, Documents!AuthorityClaims
<1>5. Documents!File(q[1]) # Documents!File(q[2])
  BY <1>1, <1>3 DEF Turns
<1>6. q \in Documents!Pairs(Documents!AuthorityClaims(b))
  <2>1. q = <<q[1], q[2]>>
    BY DEF Flipped
  <2> HIDE DEF q
  <2> QED BY <1>3, <1>4, <1>5, <2>1 DEF Documents!Pairs
<1>7. p[1].kind = p[2].kind
  BY <1>1, ConflictsAreOfAKind
<1> QED BY <1>3, <1>6, <1>7 DEF Documents!Overlaps

LEMMA FlippedStalePairs ==
  ASSUME NEW a, NEW b, IsDocumentIndex(a), AreOpposite(a, b),
         NEW p \in Documents!StalePairs(a)
  PROVE  LET q == Flipped(a.last, p)
         IN q \in Documents!StalePairs(b) /\ Documents!StaleId(b, q) = Documents!StaleId(a, p)
<1> DEFINE q == Flipped(a.last, p)
<1>1. /\ p \in Documents!Contradictions(a)
      /\ Documents!Precedence(a, Documents!File(p[1]))
           # Documents!Precedence(a, Documents!File(p[2]))
      /\ Documents!Current(a, Documents!File(p[1])) /\ Documents!Current(a, Documents!File(p[2]))
  BY DEF Documents!StalePairs
<1>2. q \in Documents!Contradictions(b) /\ Turns(a.last, p, q)
  BY <1>1, FlippedContradictions
<1>3. p = <<p[1], p[2]>> /\ q = <<q[1], q[2]>>
  BY <1>1 DEF Documents!Contradictions, Documents!Pairs, Flipped
<1> HIDE DEF q
<1>4. \A f : Documents!Precedence(b, f) = Documents!Precedence(a, f)
  BY DEF AreOpposite, Documents!Precedence, Documents!Matching
<1>5. \A f : Documents!Current(b, f) <=> Documents!Current(a, f)
  BY DEF AreOpposite, Documents!Current
<1>6. q \in Documents!StalePairs(b)
  BY <1>1, <1>2, <1>4, <1>5 DEF Turns, Documents!StalePairs
<1>7. /\ Documents!Precedence(a, Documents!File(p[1])) \in Nat
      /\ Documents!Precedence(a, Documents!File(p[2])) \in Nat
  BY PrecedenceIs
<1>8. Documents!StaleId(b, q) = Documents!StaleId(a, p)
  <2>1. CASE Documents!Precedence(a, Documents!File(p[1]))
               < Documents!Precedence(a, Documents!File(p[2]))
    <3>1. Documents!StaleSide(a, p) = <<p[2], p[1]>>
      BY <2>1 DEF Documents!StaleSide
    <3>2. Documents!StaleSide(b, q) = <<q[1], q[2]>>
      BY <1>2, <1>3, <1>4, <1>7, <2>1 DEF Documents!StaleSide, Turns
    <3> QED BY <1>2, <3>1, <3>2 DEF Documents!StaleId, Turns
  <2>2. CASE Documents!Precedence(a, Documents!File(p[2]))
               < Documents!Precedence(a, Documents!File(p[1]))
    <3>1. Documents!StaleSide(a, p) = <<p[1], p[2]>>
      BY <1>3, <1>7, <2>2 DEF Documents!StaleSide
    <3>2. Documents!StaleSide(b, q) = <<q[2], q[1]>>
      BY <1>2, <1>3, <1>4, <1>7, <2>2 DEF Documents!StaleSide, Turns
    <3> QED BY <1>2, <3>1, <3>2 DEF Documents!StaleId, Turns
  <2> QED BY <1>1, <1>7, <2>1, <2>2
<1> QED BY <1>6, <1>8 DEF q

LEMMA SixOfThree ==
  ASSUME NEW a, NEW b, NEW c, NEW d, NEW e, NEW f
  PROVE  LET s == <<a, b, c>> \o <<d, e, f>>
         IN s[1] = a /\ s[2] = b /\ s[3] = c /\ s[4] = d /\ s[5] = e /\ s[6] = f
<1> DEFINE S == {a, b, c, d, e, f}
           u == <<a, b, c>>
           v == <<d, e, f>>
<1>1. u \in Seq(S) /\ v \in Seq(S) /\ Len(u) = 3 /\ Len(v) = 3
  OBVIOUS
<1>2. u[1] = a /\ u[2] = b /\ u[3] = c /\ v[1] = d /\ v[2] = e /\ v[3] = f
  OBVIOUS
<1> HIDE DEF u, v, S
<1>3. \A i \in 1 .. 6 : (u \o v)[i] = IF i <= 3 THEN u[i] ELSE v[i - 3]
  <2>1. \A i \in 1 .. Len(u) + Len(v) :
          (u \o v)[i] = IF i <= Len(u) THEN u[i] ELSE v[i - Len(u)]
    BY <1>1, ConcatProperties
  <2>2. Len(u) + Len(v) = 6
    BY <1>1
  <2> QED BY <1>1, <2>1, <2>2
<1> QED BY <1>2, <1>3 DEF u, v

(* Some pair with an id is listed first.                                   *)
LEMMA KeysAreNumbers ==
  ASSUME NEW in, IsDocumentIndex(in), NEW p \in Documents!Contradictions(in)
  PROVE  /\ \A n \in 1 .. 6 : Documents!Keys(p)[n] \in Nat
         /\ Documents!Keys(p)[1] = p[1].chunk.ordinal
         /\ Documents!Keys(p)[2] = p[1].chunk.start + p[1].line - 1
         /\ Documents!Keys(p)[3] = IF p[1].kind = "selection" THEN 1 ELSE 0
         /\ Documents!Keys(p)[4] = p[2].chunk.ordinal
         /\ Documents!Keys(p)[5] = p[2].chunk.start + p[2].line - 1
         /\ Documents!Keys(p)[6] = IF p[2].kind = "selection" THEN 1 ELSE 0
<1> DEFINE kinds == {"status", "selection"}
<1>1. p[1] \in Documents!Mentions(in, kinds) /\ p[2] \in Documents!Mentions(in, kinds)
  BY DEF Documents!Contradictions, Documents!Pairs, Documents!ContradictionClaims
<1>2. /\ p[1].chunk.ordinal \in Nat /\ p[2].chunk.ordinal \in Nat
      /\ p[1].chunk.start + p[1].line - 1 \in Nat /\ p[2].chunk.start + p[2].line - 1 \in Nat
  <2>1. /\ p[1].chunk.start \in Nat /\ p[1].line \in Nat /\ p[1].line >= 1
        /\ p[2].chunk.start \in Nat /\ p[2].line \in Nat /\ p[2].line >= 1
        /\ p[1].chunk.ordinal \in Nat /\ p[2].chunk.ordinal \in Nat
    BY <1>1, MentionsHave
  <2> QED BY <2>1
<1>3. \A m : Documents!Listed(m) = <<m.chunk.ordinal, m.chunk.start + m.line - 1,
                                      IF m.kind = "selection" THEN 1 ELSE 0>>
  BY DEF Documents!Listed, Documents!Place
<1>4. /\ Documents!Keys(p)[1] = p[1].chunk.ordinal
      /\ Documents!Keys(p)[2] = p[1].chunk.start + p[1].line - 1
      /\ Documents!Keys(p)[3] = IF p[1].kind = "selection" THEN 1 ELSE 0
      /\ Documents!Keys(p)[4] = p[2].chunk.ordinal
      /\ Documents!Keys(p)[5] = p[2].chunk.start + p[2].line - 1
      /\ Documents!Keys(p)[6] = IF p[2].kind = "selection" THEN 1 ELSE 0
  <2> DEFINE a == p[1].chunk.ordinal
             b == p[1].chunk.start + p[1].line - 1
             c == IF p[1].kind = "selection" THEN 1 ELSE 0
             d == p[2].chunk.ordinal
             e == p[2].chunk.start + p[2].line - 1
             f == IF p[2].kind = "selection" THEN 1 ELSE 0
  <2>1. Documents!Keys(p) = Documents!Listed(p[1]) \o Documents!Listed(p[2])
    BY DEF Documents!Keys
  <2>2. Documents!Listed(p[1]) = <<a, b, c>> /\ Documents!Listed(p[2]) = <<d, e, f>>
    BY <1>3
  <2> HIDE DEF a, b, c, d, e, f
  <2>3. Documents!Keys(p) = <<a, b, c>> \o <<d, e, f>>
    BY <2>1, <2>2
  <2>4. /\ Documents!Keys(p)[1] = a /\ Documents!Keys(p)[2] = b /\ Documents!Keys(p)[3] = c
        /\ Documents!Keys(p)[4] = d /\ Documents!Keys(p)[5] = e /\ Documents!Keys(p)[6] = f
    BY <2>3, SixOfThree
  <2> QED BY <2>4 DEF a, b, c, d, e, f
<1>5. ASSUME NEW n \in 1 .. 6 PROVE Documents!Keys(p)[n] \in Nat
  <2>1. n = 1 \/ n = 2 \/ n = 3 \/ n = 4 \/ n = 5 \/ n = 6
    OBVIOUS
  <2> QED BY <1>2, <1>4, <2>1
<1> QED BY <1>4, <1>5

(* Up to a key, one of the pairs comes before no other.                    *)
FirstUpTo(T, p, n) ==
  \A q \in T : \A k \in 1 .. n :
    (\A j \in 1 .. k - 1 : Documents!Keys(q)[j] = Documents!Keys(p)[j])
      => Documents!Keys(p)[k] <= Documents!Keys(q)[k]

LEMMA NextKey ==
  ASSUME NEW T, \A p \in T : \A k \in 1 .. 6 : Documents!Keys(p)[k] \in Nat,
         NEW n \in Nat, n + 1 <= 6, NEW p \in T, FirstUpTo(T, p, n)
  PROVE  \E f \in T : FirstUpTo(T, f, n + 1)
<1> DEFINE S == {q \in T : \A j \in 1 .. n : Documents!Keys(q)[j] = Documents!Keys(p)[j]}
           V == {Documents!Keys(q)[n + 1] : q \in S}
<1>1. p \in S
  OBVIOUS
<1>2. n + 1 \in 1 .. 6
  OBVIOUS
<1>3. V # {} /\ V \subseteq Nat
  BY <1>1, <1>2
<1>4. PICK v \in V : \A w \in V : v <= w
  <2> HIDE DEF V
  <2> QED BY <1>3, LeastNumber
<1>5. PICK f \in S : v = Documents!Keys(f)[n + 1]
  OBVIOUS
<1>6. f \in T /\ \A j \in 1 .. n : Documents!Keys(f)[j] = Documents!Keys(p)[j]
  BY <1>5
<1>7. ASSUME NEW q \in T, NEW k \in 1 .. n + 1,
             \A j \in 1 .. k - 1 : Documents!Keys(q)[j] = Documents!Keys(f)[j]
      PROVE  Documents!Keys(f)[k] <= Documents!Keys(q)[k]
  <2> HIDE DEF S, V
  <2>1. CASE k \in 1 .. n
    <3>1. \A j \in 1 .. k - 1 : Documents!Keys(q)[j] = Documents!Keys(p)[j]
      BY <1>6, <1>7, <2>1
    <3>2. Documents!Keys(p)[k] <= Documents!Keys(q)[k]
      BY <2>1, <3>1 DEF FirstUpTo
    <3>3. Documents!Keys(f)[k] = Documents!Keys(p)[k]
      BY <1>6, <2>1
    <3> QED BY <3>2, <3>3
  <2>2. CASE k = n + 1
    <3>1. \A j \in 1 .. n : Documents!Keys(q)[j] = Documents!Keys(f)[j]
      BY <1>7, <2>2
    <3>2. \A j \in 1 .. n : Documents!Keys(q)[j] = Documents!Keys(p)[j]
      BY <1>6, <3>1
    <3>3. q \in S
      BY <3>2 DEF S
    <3>4. Documents!Keys(q)[n + 1] \in V
      BY <3>3 DEF V
    <3> QED BY <1>4, <1>5, <2>2, <3>4
  <2>3. k \in 1 .. n \/ k = n + 1
    OBVIOUS
  <2> QED BY <2>1, <2>2, <2>3
<1> QED BY <1>6, <1>7 DEF FirstUpTo

LEMMA SomeIsFirst ==
  ASSUME NEW T, T # {}, \A p \in T : \A k \in 1 .. 6 : Documents!Keys(p)[k] \in Nat
  PROVE  \E p \in T : \A q \in T : ~Documents!Earlier(q, p)
<1>0. \E p \in T : FirstUpTo(T, p, 0)
  BY DEF FirstUpTo
<1>1. \E p \in T : FirstUpTo(T, p, 1)
  BY <1>0, NextKey
<1>2. \E p \in T : FirstUpTo(T, p, 2)
  BY <1>1, NextKey
<1>3. \E p \in T : FirstUpTo(T, p, 3)
  BY <1>2, NextKey
<1>4. \E p \in T : FirstUpTo(T, p, 4)
  BY <1>3, NextKey
<1>5. \E p \in T : FirstUpTo(T, p, 5)
  BY <1>4, NextKey
<1>6. PICK p \in T : FirstUpTo(T, p, 6)
  BY <1>5, NextKey
<1>7. ASSUME NEW q \in T, Documents!Earlier(q, p)
      PROVE  FALSE
  <2>1. PICK n \in 1 .. 6 :
          /\ Documents!Keys(q)[n] < Documents!Keys(p)[n]
          /\ \A k \in 1 .. n - 1 : Documents!Keys(q)[k] = Documents!Keys(p)[k]
    BY <1>7 DEF Documents!Earlier
  <2>2. Documents!Keys(p)[n] <= Documents!Keys(q)[n]
    BY <1>6, <2>1 DEF FirstUpTo
  <2>3. Documents!Keys(p)[n] \in Nat /\ Documents!Keys(q)[n] \in Nat
    OBVIOUS
  <2> QED BY <2>1, <2>2, <2>3
<1> QED BY <1>7

(* So keeping the first pair of an id loses no id.                         *)
LEMMA StaleIds ==
  ASSUME NEW in, IsDocumentIndex(in)
  PROVE  /\ \A x \in Documents!Stale(in) : \E p \in Documents!StalePairs(in) :
              x = Documents!Candidate(p, Documents!StaleSide(in, p), Documents!StaleId(in, p))
              /\ Documents!IsFirstWithId(in, p)
         /\ \A p \in Documents!StalePairs(in) : \E x \in Documents!Stale(in) :
              x.id = Documents!StaleId(in, p)
<1>1. ASSUME NEW x \in Documents!Stale(in)
      PROVE  \E p \in Documents!StalePairs(in) :
               x = Documents!Candidate(p, Documents!StaleSide(in, p), Documents!StaleId(in, p))
               /\ Documents!IsFirstWithId(in, p)
  BY DEF Documents!Stale
<1>2. ASSUME NEW p \in Documents!StalePairs(in)
      PROVE  \E x \in Documents!Stale(in) : x.id = Documents!StaleId(in, p)
  <2> DEFINE T == {q \in Documents!StalePairs(in) :
                     Documents!StaleId(in, q) = Documents!StaleId(in, p)}
  <2>1. \A q \in T : q \in Documents!Contradictions(in)
    BY DEF Documents!StalePairs
  <2>2. \A q \in T : \A k \in 1 .. 6 : Documents!Keys(q)[k] \in Nat
    BY <2>1, KeysAreNumbers
  <2>3. p \in T
    OBVIOUS
  <2>4. PICK f \in T : \A q \in T : ~Documents!Earlier(q, f)
    <3> HIDE DEF T
    <3>1. T # {}
      BY <2>3
    <3> QED BY <2>2, <3>1, SomeIsFirst
  <2>5. f \in Documents!StalePairs(in) /\ Documents!StaleId(in, f) = Documents!StaleId(in, p)
    OBVIOUS
  <2>6. Documents!IsFirstWithId(in, f)
    BY <2>4, <2>5 DEF Documents!IsFirstWithId
  <2> DEFINE x == Documents!Candidate(f, Documents!StaleSide(in, f), Documents!StaleId(in, f))
  <2>7. x \in Documents!Stale(in)
    BY <2>5, <2>6 DEF Documents!Stale
  <2>8. x.id = Documents!StaleId(in, p)
    BY <2>5 DEF Documents!Candidate
  <2> QED BY <2>7, <2>8
<1> QED BY <1>1, <1>2

(* The order of the index is forgotten.                                    *)
LEMMA ReversedIsOpposite ==
  ASSUME NEW in \in DocumentInputs
  PROVE  /\ IsDocumentIndex(Documents!Reversed(in))
         /\ AreOpposite(in, Documents!Reversed(in)) /\ AreOpposite(Documents!Reversed(in), in)
<1> DEFINE b == Documents!Reversed(in)
<1>1. IsDocumentIndex(in) /\ DOMAIN in = {"chunks", "last", "about", "order", "limit"}
  BY DocumentsTyped
<1>2. /\ b.chunks = {Mirror(in.last, c) : c \in in.chunks}
      /\ b.last = in.last /\ b.about = in.about /\ b.order = in.order
  BY <1>1 DEF Documents!Reversed, Mirror
<1> HIDE DEF b
<1>3. \A c \in in.chunks : IsChunkOf(in, Mirror(in.last, c)) /\ Mirror(in.last, Mirror(in.last, c)) = c
  BY <1>1, MirrorsAre DEF IsDocumentIndex
<1>4. \A c : IsChunkOf(in, c) <=> IsChunkOf(b, c)
  BY <1>2 DEF IsChunkOf
<1>5. IsDocumentIndex(b)
  <2>1. \A c \in b.chunks : IsChunkOf(b, c)
    BY <1>2, <1>3, <1>4
  <2> QED BY <1>1, <1>2, <2>1 DEF IsDocumentIndex
<1>6. in.chunks = {Mirror(in.last, d) : d \in b.chunks}
  <2>1. ASSUME NEW c \in in.chunks PROVE c \in {Mirror(in.last, d) : d \in b.chunks}
    BY <1>2, <1>3
  <2>2. ASSUME NEW d \in b.chunks PROVE Mirror(in.last, d) \in in.chunks
    BY <1>2, <1>3
  <2> QED BY <2>1, <2>2
<1>7. AreOpposite(in, b) /\ AreOpposite(b, in)
  BY <1>2, <1>6 DEF AreOpposite
<1> QED BY <1>5, <1>7 DEF b

LEMMA ConflictsStay ==
  ASSUME NEW a, NEW b, IsDocumentIndex(a), IsDocumentIndex(b), AreOpposite(a, b),
         criterion \in Documents!Criteria, NEW x \in Documents!Found(criterion, a)
  PROVE  \E y \in Documents!Found(criterion, b) : Documents!Conflict(y) = Documents!Conflict(x)
<1>1. criterion \in {"contradictory-claims", "stale-documentation", "duplicate-authority"}
  BY DEF Documents!Criteria
<1>2. \A p, q : Turns(a.last, p, q) /\ p[1].kind = p[2].kind =>
        LET c == Documents!Candidate(p, p, Documents!PlacesId(p))
            d == Documents!Candidate(q, q, Documents!PlacesId(q))
        IN /\ c.kind = d.kind
           /\ {Documents!Place(c.sources[1]), Documents!Place(c.sources[2])}
                = {Documents!Place(d.sources[1]), Documents!Place(d.sources[2])}
  BY DEF Turns, Documents!Candidate
<1>3. CASE criterion = "contradictory-claims"
  <2>1. x \in Documents!Contradictory(a)
    BY <1>3 DEF Documents!Found
  <2>2. PICK p \in Documents!Contradictions(a) :
          x = Documents!Candidate(p, p, Documents!PlacesId(p))
    BY <2>1 DEF Documents!Contradictory
  <2> DEFINE q == Flipped(a.last, p)
             y == Documents!Candidate(q, q, Documents!PlacesId(q))
  <2>3. q \in Documents!Contradictions(b) /\ Turns(a.last, p, q) /\ p[1].kind = p[2].kind
    BY FlippedContradictions
  <2> HIDE DEF q
  <2>4. Documents!Conflict(y) = Documents!Conflict(x)
    BY <1>2, <1>3, <2>2, <2>3 DEF Documents!Conflict
  <2>5. y \in Documents!Found(criterion, b)
    BY <1>3, <2>3 DEF Documents!Found, Documents!Contradictory
  <2> QED BY <2>4, <2>5
<1>4. CASE criterion = "duplicate-authority"
  <2>1. x \in Documents!DuplicateAuthority(a)
    BY <1>4 DEF Documents!Found
  <2>2. PICK p \in Documents!Overlaps(a) :
          x = Documents!Candidate(p, p, Documents!PlacesId(p))
    BY <2>1 DEF Documents!DuplicateAuthority
  <2> DEFINE q == Flipped(a.last, p)
             y == Documents!Candidate(q, q, Documents!PlacesId(q))
  <2>3. q \in Documents!Overlaps(b) /\ Turns(a.last, p, q) /\ p[1].kind = p[2].kind
    BY FlippedOverlaps
  <2> HIDE DEF q
  <2>4. Documents!Conflict(y) = Documents!Conflict(x)
    BY <1>2, <1>4, <2>2, <2>3 DEF Documents!Conflict
  <2>5. y \in Documents!Found(criterion, b)
    BY <1>4, <2>3 DEF Documents!Found, Documents!DuplicateAuthority
  <2> QED BY <2>4, <2>5
<1>5. CASE criterion = "stale-documentation"
  <2>1. x \in Documents!Stale(a)
    BY <1>5 DEF Documents!Found
  <2>2. PICK p \in Documents!StalePairs(a) :
          x = Documents!Candidate(p, Documents!StaleSide(a, p), Documents!StaleId(a, p))
    BY <2>1, StaleIds
  <2>3. x.id = Documents!StaleId(a, p)
    BY <2>2 DEF Documents!Candidate
  <2>4. /\ Flipped(a.last, p) \in Documents!StalePairs(b)
        /\ Documents!StaleId(b, Flipped(a.last, p)) = Documents!StaleId(a, p)
    BY FlippedStalePairs
  <2>5. PICK y \in Documents!Stale(b) : y.id = Documents!StaleId(b, Flipped(a.last, p))
    BY <2>4, StaleIds
  <2>6. y \in Documents!Found(criterion, b)
    BY <1>5 DEF Documents!Found
  <2> QED BY <1>5, <2>3, <2>4, <2>5, <2>6 DEF Documents!Conflict
<1> QED BY <1>1, <1>3, <1>4, <1>5

LEMMA ListingOrderIsForgotten ==
  ASSUME input \in DocumentInputs, criterion \in Documents!Criteria
  PROVE  Documents!OrderDoesNotMatter
<1> DEFINE a == input
           b == Documents!Reversed(input)
<1>1. /\ IsDocumentIndex(a) /\ IsDocumentIndex(b) /\ AreOpposite(a, b) /\ AreOpposite(b, a)
  BY DocumentsTyped, ReversedIsOpposite
<1> HIDE DEF b
<1>2. \A x \in Documents!Found(criterion, a) : \E y \in Documents!Found(criterion, b) :
        Documents!Conflict(y) = Documents!Conflict(x)
  BY <1>1, ConflictsStay
<1>3. \A x \in Documents!Found(criterion, b) : \E y \in Documents!Found(criterion, a) :
        Documents!Conflict(y) = Documents!Conflict(x)
  BY <1>1, ConflictsStay
<1>4. {Documents!Conflict(x) : x \in Documents!Found(criterion, b)}
        = {Documents!Conflict(x) : x \in Documents!Found(criterion, a)}
  BY <1>2, <1>3
<1> QED BY <1>4 DEF Documents!OrderDoesNotMatter, b

LEMMA StaleIsWeaker ==
  ASSUME input \in DocumentInputs
  PROVE  Documents!StaleIsAWeakerContradiction
<1>1. IsDocumentIndex(input)
  BY DocumentsTyped
<1> SUFFICES ASSUME NEW x \in Documents!Stale(input)
             PROVE  /\ \E y \in Documents!Contradictory(input) :
                         {y.sources[1], y.sources[2]} = {x.sources[1], x.sources[2]}
                    /\ Documents!Current(input, Documents!File(x.sources[1]))
                    /\ Documents!Current(input, Documents!File(x.sources[2]))
                    /\ \A y \in Documents!Stale(input) : ~(y.id[1] = x.id[2] /\ y.id[2] = x.id[1])
  BY DEF Documents!StaleIsAWeakerContradiction
<1>2. \A y \in Documents!Stale(input) :
        /\ Documents!Precedence(input, y.id[2]) < Documents!Precedence(input, y.id[1])
        /\ Documents!Precedence(input, y.id[1]) \in Nat
        /\ Documents!Precedence(input, y.id[2]) \in Nat
  <2> SUFFICES ASSUME NEW y \in Documents!Stale(input)
               PROVE  Documents!Precedence(input, y.id[2]) < Documents!Precedence(input, y.id[1])
    BY <1>1, PrecedenceIs
  <2>1. PICK p \in Documents!StalePairs(input) :
          y = Documents!Candidate(p, Documents!StaleSide(input, p), Documents!StaleId(input, p))
    BY <1>1, StaleIds
  <2>2. y.id = Documents!StaleId(input, p)
    BY <2>1 DEF Documents!Candidate
  <2>3. /\ y.id[1] = Documents!File(Documents!StaleSide(input, p)[1])
        /\ y.id[2] = Documents!File(Documents!StaleSide(input, p)[2])
    BY <2>2 DEF Documents!StaleId
  <2> QED BY <1>1, <2>3, StaleSidesAre
<1>3. PICK p \in Documents!StalePairs(input) :
        x = Documents!Candidate(p, Documents!StaleSide(input, p), Documents!StaleId(input, p))
  BY <1>1, StaleIds
<1> DEFINE sides == Documents!StaleSide(input, p)
           y == Documents!Candidate(p, p, Documents!PlacesId(p))
<1>4. x.sources = sides
  BY <1>3 DEF Documents!Candidate
<1>5. /\ p \in Documents!Contradictions(input)
      /\ sides = <<p[1], p[2]>> \/ sides = <<p[2], p[1]>>
  BY <1>1, StaleSidesAre
<1>6. y \in Documents!Contradictory(input) /\ y.sources = p
  BY <1>5 DEF Documents!Contradictory, Documents!Candidate
<1>7. Documents!Current(input, Documents!File(p[1])) /\ Documents!Current(input, Documents!File(p[2]))
  BY DEF Documents!StalePairs
<1> HIDE DEF sides, y
<1>8. {y.sources[1], y.sources[2]} = {x.sources[1], x.sources[2]}
  <2>1. {sides[1], sides[2]} = {p[1], p[2]}
    BY <1>5
  <2> QED BY <1>4, <1>6, <2>1
<1>9. /\ Documents!Current(input, Documents!File(x.sources[1]))
      /\ Documents!Current(input, Documents!File(x.sources[2]))
  BY <1>4, <1>5, <1>7
<1>10. ASSUME NEW z \in Documents!Stale(input), z.id[1] = x.id[2], z.id[2] = x.id[1]
       PROVE  FALSE
  BY <1>2, <1>10
<1> QED BY <1>6, <1>8, <1>9, <1>10

LEMMA OwnersOfAuthorities ==
  ASSUME input \in DocumentInputs
  PROVE  Documents!AuthoritiesHaveOwners
<1>1. IsDocumentIndex(input)
  BY DocumentsTyped
<1> SUFFICES ASSUME NEW x \in Documents!Stale(input)
             PROVE  Documents!File(x.sources[2]) \notin Documents!MissingOwner(input)
  BY DEF Documents!AuthoritiesHaveOwners
<1>2. PICK p \in Documents!StalePairs(input) :
        x = Documents!Candidate(p, Documents!StaleSide(input, p), Documents!StaleId(input, p))
  BY <1>1, StaleIds
<1>3. x.sources = Documents!StaleSide(input, p)
  BY <1>2 DEF Documents!Candidate
<1>4. Documents!Precedence(input, Documents!File(x.sources[2]))
        < Documents!Precedence(input, Documents!File(x.sources[1]))
  BY <1>1, <1>3, StaleSidesAre
<1>5. /\ Documents!Precedence(input, Documents!File(x.sources[1])) \in Nat
      /\ Documents!Precedence(input, Documents!File(x.sources[2])) \in Nat
      /\ Documents!Precedence(input, Documents!File(x.sources[1])) <= Len(input.order) + 1
      /\ Len(input.order) \in Nat
  BY <1>1, PrecedenceIs
<1>6. Documents!Precedence(input, Documents!File(x.sources[2])) # Len(input.order) + 1
  BY <1>4, <1>5
<1>7. Documents!Matching(input, Documents!File(x.sources[2])) # {}
  BY <1>1, <1>6, PrecedenceIs
<1> QED BY <1>7 DEF Documents!MissingOwner

(* A place and a kind are one mention: no line is in two chunks.           *)
LEMMA PlacesNameMentions ==
  ASSUME NEW in \in DocumentInputs, NEW kinds,
         NEW l \in Documents!Mentions(in, kinds), NEW m \in Documents!Mentions(in, kinds),
         l.kind = m.kind,
         \/ Documents!Place(l) = Documents!Place(m)
         \/ l.chunk.ordinal = m.chunk.ordinal /\ Documents!Place(l)[2] = Documents!Place(m)[2]
  PROVE  l = m
<1>1. /\ IsDocumentIndex(in)
      /\ \A c, d \in in.chunks : c.ordinal = d.ordinal \/ Documents!ShareALine(c, d) => c = d
  BY DocumentsTyped
<1>2. /\ l.chunk \in in.chunks /\ l = [chunk |-> l.chunk, line |-> l.line, kind |-> l.kind]
      /\ l.line \in DOMAIN l.chunk.lines /\ l.line \in Nat /\ l.chunk.start \in Nat
      /\ m.chunk \in in.chunks /\ m = [chunk |-> m.chunk, line |-> m.line, kind |-> m.kind]
      /\ m.line \in DOMAIN m.chunk.lines /\ m.line \in Nat /\ m.chunk.start \in Nat
  BY <1>1, MentionsHave
<1>3. /\ Documents!Place(l)[2] = l.chunk.start + l.line - 1
      /\ Documents!Place(m)[2] = m.chunk.start + m.line - 1
      /\ Documents!Place(l)[1] = l.chunk.file /\ Documents!Place(m)[1] = m.chunk.file
  BY DEF Documents!Place, Documents!File
<1>4. l.chunk.start + l.line = m.chunk.start + m.line
  <2>1. Documents!Place(l)[2] = Documents!Place(m)[2]
    OBVIOUS
  <2> QED BY <1>2, <1>3, <2>1
<1>5. l.chunk = m.chunk
  <2>1. CASE Documents!Place(l) = Documents!Place(m)
    <3>1. l.chunk.file = m.chunk.file
      BY <1>3, <2>1
    <3>2. Documents!ShareALine(l.chunk, m.chunk)
      BY <1>2, <1>4, <3>1 DEF Documents!ShareALine
    <3> QED BY <1>1, <1>2, <3>2
  <2>2. CASE l.chunk.ordinal = m.chunk.ordinal
    BY <1>1, <1>2, <2>2
  <2> QED BY <2>1, <2>2
<1>6. l.line = m.line
  BY <1>2, <1>4, <1>5
<1> QED BY <1>2, <1>5, <1>6

LEMMA ContradictionsAre ==
  ASSUME NEW in, NEW p \in Documents!Contradictions(in)
  PROVE  /\ p = <<p[1], p[2]>>
         /\ p[1] \in Documents!Mentions(in, {"status", "selection"})
         /\ p[2] \in Documents!Mentions(in, {"status", "selection"})
         /\ p[1].kind = p[2].kind
<1>1. /\ p[1] \in Documents!ContradictionClaims(in) /\ p[2] \in Documents!ContradictionClaims(in)
      /\ p = <<p[1], p[2]>> /\ Documents!Contradicting(p[1], p[2])
  BY DEF Documents!Contradictions, Documents!Pairs
<1> QED BY <1>1, ConflictsAreOfAKind DEF Documents!ContradictionClaims

LEMMA OverlapsAre ==
  ASSUME NEW in, NEW p \in Documents!Overlaps(in)
  PROVE  /\ p = <<p[1], p[2]>>
         /\ p[1] \in Documents!Mentions(in, {"authority"})
         /\ p[2] \in Documents!Mentions(in, {"authority"})
         /\ p[1].kind = p[2].kind
<1>1. /\ p[1] \in Documents!AuthorityClaims(in) /\ p[2] \in Documents!AuthorityClaims(in)
      /\ p = <<p[1], p[2]>> /\ Documents!SharesTopic(p[1], p[2])
  BY DEF Documents!Overlaps, Documents!Pairs
<1> QED BY <1>1, ConflictsAreOfAKind DEF Documents!AuthorityClaims

LEMMA PlacesNamePairs ==
  ASSUME NEW in \in DocumentInputs, NEW kinds, NEW p, NEW q,
         p = <<p[1], p[2]>>, q = <<q[1], q[2]>>,
         p[1] \in Documents!Mentions(in, kinds), p[2] \in Documents!Mentions(in, kinds),
         q[1] \in Documents!Mentions(in, kinds), q[2] \in Documents!Mentions(in, kinds),
         p[1].kind = p[2].kind, q[1].kind = q[2].kind, p[1].kind = q[1].kind,
         Documents!PlacesId(p) = Documents!PlacesId(q)
  PROVE  p = q
<1>1. /\ Documents!Place(p[1]) = Documents!Place(q[1])
      /\ Documents!Place(p[2]) = Documents!Place(q[2])
  <2>1. \A w, x, y, z : <<w, x>> = <<y, z>> => w = y /\ x = z
    OBVIOUS
  <2>2. <<Documents!Place(p[1]), Documents!Place(p[2])>>
          = <<Documents!Place(q[1]), Documents!Place(q[2])>>
    BY DEF Documents!PlacesId
  <2> QED BY <2>1, <2>2
<1>2. p[1] = q[1]
  BY <1>1, PlacesNameMentions
<1>3. p[2] = q[2]
  BY <1>1, PlacesNameMentions
<1> QED BY <1>2, <1>3

(* Of two pairs one is listed first, but for pairs with the same keys.     *)
LEMMA OneIsEarlier ==
  ASSUME NEW p, NEW q, \A n \in 1 .. 6 : Documents!Keys(p)[n] \in Nat,
         \A n \in 1 .. 6 : Documents!Keys(q)[n] \in Nat,
         ~Documents!Earlier(p, q), ~Documents!Earlier(q, p)
  PROVE  \A n \in 1 .. 6 : Documents!Keys(p)[n] = Documents!Keys(q)[n]
<1> DEFINE T == {n \in 1 .. 6 : Documents!Keys(p)[n] # Documents!Keys(q)[n]}
<1>1. SUFFICES ASSUME T # {} PROVE FALSE
  OBVIOUS
<1>2. T \subseteq Nat
  OBVIOUS
<1>3. PICK n \in T : \A k \in T : n <= k
  <2> HIDE DEF T
  <2> QED BY <1>1, <1>2, LeastNumber
<1>4. n \in 1 .. 6 /\ Documents!Keys(p)[n] # Documents!Keys(q)[n]
  BY <1>3
<1>5. \A k \in 1 .. n - 1 : Documents!Keys(p)[k] = Documents!Keys(q)[k]
                            /\ Documents!Keys(q)[k] = Documents!Keys(p)[k]
  <2> SUFFICES ASSUME NEW k \in 1 .. n - 1
               PROVE  Documents!Keys(p)[k] = Documents!Keys(q)[k]
    OBVIOUS
  <2>1. k \in 1 .. 6 /\ ~(n <= k)
    BY <1>4
  <2> QED BY <1>3, <2>1
<1>6. \/ Documents!Keys(p)[n] < Documents!Keys(q)[n]
      \/ Documents!Keys(q)[n] < Documents!Keys(p)[n]
  <2>1. Documents!Keys(p)[n] \in Nat /\ Documents!Keys(q)[n] \in Nat
    BY <1>4
  <2> QED BY <1>4, <2>1
<1>7. Documents!Earlier(p, q) \/ Documents!Earlier(q, p)
  <2> HIDE DEF T
  <2> QED BY <1>4, <1>5, <1>6 DEF Documents!Earlier
<1> QED BY <1>7

LEMMA IdsNamePlaces ==
  ASSUME input \in DocumentInputs, criterion \in Documents!Criteria
  PROVE  Documents!IdNamesThePlaces
<1>1. criterion \in {"contradictory-claims", "stale-documentation", "duplicate-authority"}
  BY DEF Documents!Criteria
<1>2. IsDocumentIndex(input)
  BY DocumentsTyped
<1> SUFFICES ASSUME NEW x \in Documents!Found(criterion, input),
                    NEW y \in Documents!Found(criterion, input),
                    x.id = y.id, x.kind = y.kind
             PROVE  x = y
  BY DEF Documents!IdNamesThePlaces
<1>3. CASE criterion = "contradictory-claims"
  <2>1. x \in Documents!Contradictory(input) /\ y \in Documents!Contradictory(input)
    BY <1>3 DEF Documents!Found
  <2>2. PICK p \in Documents!Contradictions(input) :
          x = Documents!Candidate(p, p, Documents!PlacesId(p))
    BY <2>1 DEF Documents!Contradictory
  <2>3. PICK q \in Documents!Contradictions(input) :
          y = Documents!Candidate(q, q, Documents!PlacesId(q))
    BY <2>1 DEF Documents!Contradictory
  <2>4. p[1].kind = q[1].kind /\ Documents!PlacesId(p) = Documents!PlacesId(q)
    BY <2>2, <2>3 DEF Documents!Candidate
  <2>5. p = q
    <3> DEFINE kinds == {"status", "selection"}
    <3>1. /\ p = <<p[1], p[2]>> /\ p[1].kind = p[2].kind
          /\ p[1] \in Documents!Mentions(input, kinds) /\ p[2] \in Documents!Mentions(input, kinds)
      BY ContradictionsAre
    <3>2. /\ q = <<q[1], q[2]>> /\ q[1].kind = q[2].kind
          /\ q[1] \in Documents!Mentions(input, kinds) /\ q[2] \in Documents!Mentions(input, kinds)
      BY ContradictionsAre
    <3> HIDE DEF kinds
    <3> QED BY <2>4, <3>1, <3>2, PlacesNamePairs
  <2> QED BY <2>2, <2>3, <2>5
<1>4. CASE criterion = "duplicate-authority"
  <2>1. x \in Documents!DuplicateAuthority(input) /\ y \in Documents!DuplicateAuthority(input)
    BY <1>4 DEF Documents!Found
  <2>2. PICK p \in Documents!Overlaps(input) :
          x = Documents!Candidate(p, p, Documents!PlacesId(p))
    BY <2>1 DEF Documents!DuplicateAuthority
  <2>3. PICK q \in Documents!Overlaps(input) :
          y = Documents!Candidate(q, q, Documents!PlacesId(q))
    BY <2>1 DEF Documents!DuplicateAuthority
  <2>4. p[1].kind = q[1].kind /\ Documents!PlacesId(p) = Documents!PlacesId(q)
    BY <2>2, <2>3 DEF Documents!Candidate
  <2>5. p = q
    <3> DEFINE kinds == {"authority"}
    <3>1. /\ p = <<p[1], p[2]>> /\ p[1].kind = p[2].kind
          /\ p[1] \in Documents!Mentions(input, kinds) /\ p[2] \in Documents!Mentions(input, kinds)
      BY OverlapsAre
    <3>2. /\ q = <<q[1], q[2]>> /\ q[1].kind = q[2].kind
          /\ q[1] \in Documents!Mentions(input, kinds) /\ q[2] \in Documents!Mentions(input, kinds)
      BY OverlapsAre
    <3> HIDE DEF kinds
    <3> QED BY <2>4, <3>1, <3>2, PlacesNamePairs
  <2> QED BY <2>2, <2>3, <2>5
<1>5. CASE criterion = "stale-documentation"
  <2>1. x \in Documents!Stale(input) /\ y \in Documents!Stale(input)
    BY <1>5 DEF Documents!Found
  <2>2. PICK p \in Documents!StalePairs(input) :
          x = Documents!Candidate(p, Documents!StaleSide(input, p), Documents!StaleId(input, p))
          /\ Documents!IsFirstWithId(input, p)
    BY <1>2, <2>1, StaleIds
  <2>3. PICK q \in Documents!StalePairs(input) :
          y = Documents!Candidate(q, Documents!StaleSide(input, q), Documents!StaleId(input, q))
          /\ Documents!IsFirstWithId(input, q)
    BY <1>2, <2>1, StaleIds
  <2>4. Documents!StaleId(input, p) = Documents!StaleId(input, q)
    BY <2>2, <2>3 DEF Documents!Candidate
  <2>5. ~Documents!Earlier(p, q) /\ ~Documents!Earlier(q, p)
    BY <2>2, <2>3, <2>4 DEF Documents!IsFirstWithId
  <2>6. p \in Documents!Contradictions(input) /\ q \in Documents!Contradictions(input)
    BY DEF Documents!StalePairs
  <2>7. \A n \in 1 .. 6 : Documents!Keys(p)[n] = Documents!Keys(q)[n]
    <3>1. /\ \A n \in 1 .. 6 : Documents!Keys(p)[n] \in Nat
          /\ \A n \in 1 .. 6 : Documents!Keys(q)[n] \in Nat
      BY <1>2, <2>6, KeysAreNumbers
    <3> QED BY <2>5, <3>1, OneIsEarlier
  <2>8. p = q
    <3> DEFINE kinds == {"status", "selection"}
    <3>1. /\ p = <<p[1], p[2]>> /\ q = <<q[1], q[2]>>
          /\ p[1] \in Documents!Mentions(input, kinds) /\ p[2] \in Documents!Mentions(input, kinds)
          /\ q[1] \in Documents!Mentions(input, kinds) /\ q[2] \in Documents!Mentions(input, kinds)
      BY <2>6, ContradictionsAre
    <3> HIDE DEF kinds
    <3>3. /\ p[1].kind \in kinds /\ p[2].kind \in kinds
          /\ q[1].kind \in kinds /\ q[2].kind \in kinds
      BY <1>2, <3>1, MentionsHave
    <3>4. /\ Documents!Keys(p)[1] = Documents!Keys(q)[1] /\ Documents!Keys(p)[2] = Documents!Keys(q)[2]
          /\ Documents!Keys(p)[3] = Documents!Keys(q)[3] /\ Documents!Keys(p)[4] = Documents!Keys(q)[4]
          /\ Documents!Keys(p)[5] = Documents!Keys(q)[5] /\ Documents!Keys(p)[6] = Documents!Keys(q)[6]
      BY <2>7
    <3>5. p[1].kind = q[1].kind /\ p[2].kind = q[2].kind
      <4>1. \A r \in Documents!Contradictions(input) :
              /\ r[1].kind = "selection" => Documents!Keys(r)[3] = 1
              /\ r[1].kind # "selection" => Documents!Keys(r)[3] = 0
              /\ r[2].kind = "selection" => Documents!Keys(r)[6] = 1
              /\ r[2].kind # "selection" => Documents!Keys(r)[6] = 0
        BY <1>2, KeysAreNumbers
      <4>2. /\ p[1].kind = "selection" <=> q[1].kind = "selection"
            /\ p[2].kind = "selection" <=> q[2].kind = "selection"
        BY <2>6, <3>4, <4>1
      <4> QED BY <3>3, <4>2 DEF kinds
    <3>6. /\ p[1].chunk.ordinal = q[1].chunk.ordinal /\ p[2].chunk.ordinal = q[2].chunk.ordinal
          /\ p[1].chunk.start + p[1].line - 1 = q[1].chunk.start + q[1].line - 1
          /\ p[2].chunk.start + p[2].line - 1 = q[2].chunk.start + q[2].line - 1
      BY <1>2, <2>6, <3>4, KeysAreNumbers
    <3>7. /\ Documents!Place(p[1])[2] = Documents!Place(q[1])[2]
          /\ Documents!Place(p[2])[2] = Documents!Place(q[2])[2]
      BY <3>6 DEF Documents!Place
    <3>8. p[1] = q[1] /\ p[2] = q[2]
      BY <3>1, <3>5, <3>6, <3>7, PlacesNameMentions
    <3> QED BY <3>1, <3>8
  <2> QED BY <2>2, <2>3, <2>8
<1> QED BY <1>1, <1>3, <1>4, <1>5

LEMMA GreatestNumber ==
  ASSUME NEW n \in Nat, NEW T, T \subseteq 1 .. n, T # {}
  PROVE  \E m \in T : \A k \in T : k <= m
<1> DEFINE V == {n - k : k \in T}
<1>1. V \subseteq Nat /\ V # {}
  <2>1. \A k \in 1 .. n : n - k \in Nat
    OBVIOUS
  <2> QED BY <2>1
<1>2. PICK v \in V : \A w \in V : v <= w
  <2> HIDE DEF V
  <2> QED BY <1>1, LeastNumber
<1>3. PICK m \in T : v = n - m
  OBVIOUS
<1>4. ASSUME NEW k \in T PROVE k <= m
  <2>1. n - m <= n - k
    BY <1>2, <1>3
  <2>2. k \in Nat /\ m \in Nat
    OBVIOUS
  <2> QED BY <2>1, <2>2
<1> QED BY <1>4

LEMMA HeadingIs ==
  ASSUME NEW c, NEW n, NEW h \in Documents!Above(c, n), Documents!Above(c, n) \subseteq Nat,
         \A g \in Documents!Above(c, n) : g <= h
  PROVE  Documents!Heading(c, n) = c.lines[h].heading
<1> DEFINE T == Documents!Above(c, n)
<1>1. Documents!Heading(c, n) = c.lines[CHOOSE i \in T : \A g \in T : g <= i].heading
  BY DEF Documents!Heading
<1>2. (CHOOSE i \in T : \A g \in T : g <= i) = h
  <2> HIDE DEF T
  <2>1. h \in T /\ T \subseteq Nat /\ \A g \in T : g <= h
    BY DEF T
  <2>2. \A i \in T : (\A g \in T : g <= i) => i = h
    BY <2>1
  <2> QED BY <2>1, <2>2
<1> QED BY <1>1, <1>2

(* A piece of a chunk that begins after its first d lines.                 *)
IsPiece(c, d, x) ==
  /\ d \in Nat /\ x.ordinal = c.ordinal /\ x.file = c.file /\ x.start = c.start + d
  /\ \A k \in DOMAIN x.lines :
       k \in Nat /\ k >= 1 /\ d + k \in DOMAIN c.lines /\ x.lines[k] = c.lines[d + k]
       /\ \A j \in 1 .. k : j \in DOMAIN x.lines

LEMMA PiecesAre ==
  ASSUME NEW in, IsDocumentIndex(in), NEW c \in in.chunks, NEW n \in 1 .. Len(c.lines) - 1,
         NEW x \in Documents!Cut(c, n)
  PROVE  \E d \in Nat : IsPiece(c, d, x)
<1> DEFINE first == SubSeq(c.lines, 1, n)
           rest == SubSeq(c.lines, n + 1, Len(c.lines))
           a == [c EXCEPT !.lines = SubSeq(@, 1, n)]
           b == [c EXCEPT !.lines = SubSeq(@, n + 1, Len(@)), !.start = @ + n]
<1>1. /\ DOMAIN c = {"ordinal", "file", "start", "lines"}
      /\ c.start \in Nat /\ Len(c.lines) \in Nat /\ DOMAIN c.lines = 1 .. Len(c.lines)
      /\ n \in Nat
  BY DEF IsDocumentIndex, IsChunkOf
<1>2. first = [k \in 1 .. n |-> c.lines[k]]
  BY <1>1
<1>3. rest = [k \in 1 .. Len(c.lines) - n |-> c.lines[n + k]]
  BY <1>1
<1>4. /\ a.ordinal = c.ordinal /\ a.file = c.file /\ a.start = c.start /\ a.lines = first
      /\ b.ordinal = c.ordinal /\ b.file = c.file /\ b.start = c.start + n /\ b.lines = rest
  BY <1>1
<1>5. x = a \/ x = b
  BY DEF Documents!Cut
<1> HIDE DEF a, b, first, rest
<1>6. IsPiece(c, 0, a)
  BY <1>1, <1>2, <1>4 DEF IsPiece
<1>7. IsPiece(c, n, b)
  BY <1>1, <1>3, <1>4 DEF IsPiece
<1> QED BY <1>1, <1>5, <1>6, <1>7

LEMMA PiecesHaveLessHeading ==
  ASSUME NEW c, NEW d, NEW x, IsPiece(c, d, x), NEW k \in DOMAIN x.lines
  PROVE  Documents!Heading(x, k) \subseteq Documents!Heading(c, d + k)
<1>1. /\ d \in Nat /\ k \in Nat /\ k >= 1
      /\ \A j \in 1 .. k : x.lines[j] = c.lines[d + j]
  BY DEF IsPiece
<1>2. CASE Documents!Above(x, k) = {}
  BY <1>2 DEF Documents!Heading
<1>3. CASE Documents!Above(x, k) # {}
  <2>1. Documents!Above(x, k) \subseteq 1 .. k
    BY DEF Documents!Above
  <2>2. PICK h \in Documents!Above(x, k) : \A g \in Documents!Above(x, k) : g <= h
    BY <1>1, <1>3, <2>1, GreatestNumber
  <2>3. h \in 1 .. k /\ x.lines[h].heading # {}
    BY <2>2 DEF Documents!Above
  <2>4. Documents!Heading(x, k) = x.lines[h].heading
    BY <1>1, <2>1, <2>2, HeadingIs
  <2>5. d + h \in Documents!Above(c, d + k)
    BY <1>1, <2>3 DEF Documents!Above
  <2>6. ASSUME NEW g \in Documents!Above(c, d + k)
        PROVE  g <= d + h /\ g \in Nat
    <3>1. g \in 1 .. d + k /\ c.lines[g].heading # {}
      BY DEF Documents!Above
    <3>2. CASE g <= d
      BY <1>1, <2>3, <3>1, <3>2
    <3>3. CASE ~(g <= d)
      <4>1. g - d \in 1 .. k /\ d + (g - d) = g
        BY <1>1, <3>1, <3>3
      <4>2. x.lines[g - d] = c.lines[g]
        BY <1>1, <4>1
      <4>3. g - d \in Documents!Above(x, k)
        BY <3>1, <4>1, <4>2 DEF Documents!Above
      <4>4. g - d <= h
        BY <2>2, <4>3
      <4> QED BY <1>1, <2>3, <3>1, <4>4
    <3> QED BY <3>2, <3>3
  <2>7. Documents!Heading(c, d + k) = c.lines[d + h].heading
    BY <2>5, <2>6, HeadingIs
  <2> QED BY <1>1, <2>3, <2>4, <2>7
<1> QED BY <1>2, <1>3

(* What is said of a line in a piece is said of it in the whole, where it  *)
(* may have more of a context.                                             *)
Came(s, m) ==
  /\ s.kind = m.kind /\ s.chunk.ordinal = m.chunk.ordinal
  /\ Documents!File(s) = Documents!File(m) /\ Documents!Place(s) = Documents!Place(m)
  /\ Documents!Said(s) = Documents!Said(m)
  /\ s.chunk.lines[s.line].authority = m.chunk.lines[m.line].authority
  /\ Documents!Context(s) \subseteq Documents!Context(m)

IsCutOf(in, other, c, n) ==
  /\ other.chunks = (in.chunks \ {c}) \cup Documents!Cut(c, n)
  /\ other.about = in.about /\ other.order = in.order /\ other.last = in.last

LEMMA MentionsCame ==
  ASSUME NEW in, IsDocumentIndex(in), NEW c \in in.chunks, NEW n \in 1 .. Len(c.lines) - 1,
         NEW other, IsCutOf(in, other, c, n), NEW kinds,
         NEW s \in Documents!Mentions(other, kinds)
  PROVE  \E m \in Documents!Mentions(in, kinds) : Came(s, m)
<1>1. PICK x \in other.chunks : s \in [chunk : {x}, line : DOMAIN x.lines, kind : kinds]
  BY MentionsAre
<1>2. CASE x \in in.chunks
  <2>1. s \in Documents!Mentions(in, kinds)
    BY <1>1, <1>2, MentionsAre
  <2> QED BY <2>1 DEF Came
<1>3. CASE x \in Documents!Cut(c, n)
  <2>1. PICK d \in Nat : IsPiece(c, d, x)
    BY <1>3, PiecesAre
  <2>2. s.chunk = x /\ s.line \in DOMAIN x.lines /\ s.kind \in kinds
    BY <1>1
  <2> DEFINE m == [chunk |-> c, line |-> d + s.line, kind |-> s.kind]
  <2>3. /\ m.chunk = c /\ m.line = d + s.line /\ m.kind = s.kind
        /\ d + s.line \in DOMAIN c.lines
        /\ x.lines[s.line] = c.lines[d + s.line]
        /\ x.file = c.file /\ x.ordinal = c.ordinal /\ x.start = c.start + d
        /\ d \in Nat /\ s.line \in Nat /\ c.start \in Nat
    BY <2>1, <2>2 DEF IsPiece, IsDocumentIndex, IsChunkOf
  <2>4. m \in Documents!Mentions(in, kinds)
    BY <2>2, <2>3, MentionsAre
  <2> HIDE DEF m
  <2>5. Documents!File(s) = Documents!File(m)
    BY <2>2, <2>3 DEF Documents!File
  <2>6. Documents!Place(s) = Documents!Place(m)
    <3>1. s.chunk.start + s.line - 1 = m.chunk.start + m.line - 1
      BY <2>2, <2>3
    <3> QED BY <2>5, <3>1 DEF Documents!Place
  <2>7. Documents!Said(s) = Documents!Said(m)
    BY <2>2, <2>3 DEF Documents!Said
  <2>8. Documents!Heading(s.chunk, s.line) \subseteq Documents!Heading(m.chunk, m.line)
    BY <2>1, <2>2, <2>3, PiecesHaveLessHeading
  <2>9. Came(s, m)
    BY <2>2, <2>3, <2>5, <2>6, <2>7, <2>8 DEF Came, Documents!Context
  <2> QED BY <2>4, <2>9
<1> QED BY <1>1, <1>2, <1>3 DEF IsCutOf

LEMMA ContextsAreFinite ==
  ASSUME NEW in \in DocumentInputs, NEW kinds, NEW m \in Documents!Mentions(in, kinds)
  PROVE  IsFiniteSet(Documents!Context(m))
<1>1. IsDocumentIndex(in) /\ \A c \in in.chunks : HasFiniteLines(c)
  BY DocumentsTyped
<1>2. /\ m.chunk \in in.chunks /\ IsChunkOf(in, m.chunk)
      /\ m.line \in DOMAIN m.chunk.lines /\ m.line \in Nat
  BY <1>1, MentionsHave
<1>3. HasFiniteLines(m.chunk)
  BY <1>1, <1>2
<1>4. IsFiniteSet(Documents!Said(m).context)
  BY <1>2, <1>3 DEF HasFiniteLines, Documents!Said
<1>5. IsFiniteSet(Documents!Heading(m.chunk, m.line))
  <2> DEFINE T == Documents!Above(m.chunk, m.line)
  <2>1. CASE T = {}
    BY <2>1, FS_EmptySet DEF Documents!Heading
  <2>2. CASE T # {}
    <3>1. T \subseteq 1 .. m.line
      BY DEF Documents!Above
    <3>2. PICK h \in T : \A g \in T : g <= h
      <4> HIDE DEF T
      <4> QED BY <1>2, <2>2, <3>1, GreatestNumber
    <3>3. Documents!Heading(m.chunk, m.line) = m.chunk.lines[h].heading
      BY <1>2, <3>1, <3>2, HeadingIs
    <3>4. h \in DOMAIN m.chunk.lines
      BY <1>2, <3>1, <3>2 DEF IsChunkOf
    <3> QED BY <1>3, <3>3, <3>4 DEF HasFiniteLines
  <2> QED BY <2>1, <2>2
<1> QED BY <1>4, <1>5, FS_Union DEF Documents!Context

(* More context makes no claim and no conflict go away.                    *)
LEMMA MoreContextKeepsClaims ==
  ASSUME NEW s, NEW m, Came(s, m), IsFiniteSet(Documents!Context(m)), Documents!IsClaim(s)
  PROVE  Documents!IsClaim(m)
<1>1. /\ Documents!Cardinality(Documents!Context(s)) \in Nat
      /\ Documents!Cardinality(Documents!Context(m)) \in Nat
      /\ Documents!Cardinality(Documents!Context(s)) <= Documents!Cardinality(Documents!Context(m))
  BY FewerTokens DEF Came
<1> QED BY <1>1 DEF Came, Documents!IsClaim

LEMMA MoreContextKeepsConflicts ==
  ASSUME NEW l, NEW r, NEW m, NEW o, Came(l, m), Came(r, o), IsFiniteSet(Documents!Context(m))
  PROVE  /\ Documents!Contradicting(l, r) => Documents!Contradicting(m, o)
         /\ Documents!SharesTopic(l, r) => Documents!SharesTopic(m, o)
<1> DEFINE fewer == Documents!Context(l) \cap Documents!Context(r)
           more == Documents!Context(m) \cap Documents!Context(o)
<1>1. fewer \subseteq more /\ fewer \ Generic \subseteq more \ Generic
  BY DEF Came
<1>2. IsFiniteSet(more) /\ IsFiniteSet(more \ Generic)
  <2>1. more \subseteq Documents!Context(m) /\ more \ Generic \subseteq Documents!Context(m)
    OBVIOUS
  <2> HIDE DEF more
  <2> QED BY <2>1, FS_Subset
<1> HIDE DEF fewer, more
<1>3. /\ Documents!Cardinality(fewer) \in Nat /\ Documents!Cardinality(more) \in Nat
      /\ Documents!Cardinality(fewer) <= Documents!Cardinality(more)
  BY <1>1, <1>2, FewerTokens
<1>4. /\ Documents!Cardinality(fewer \ Generic) \in Nat
      /\ Documents!Cardinality(more \ Generic) \in Nat
      /\ Documents!Cardinality(fewer \ Generic) <= Documents!Cardinality(more \ Generic)
      /\ Documents!Cardinality(fewer \ Generic) = 0 <=> fewer \ Generic = {}
  BY <1>1, <1>2, FewerTokens
<1>5. /\ l.kind = m.kind /\ r.kind = o.kind
      /\ Documents!Said(l) = Documents!Said(m) /\ Documents!Said(r) = Documents!Said(o)
  BY DEF Came
<1>6. Documents!Contradicting(l, r) => Documents!Contradicting(m, o)
  BY <1>1, <1>3, <1>5 DEF Documents!Contradicting, fewer, more
<1>7. ASSUME Documents!SharesTopic(l, r)
      PROVE  Documents!SharesTopic(m, o)
  <2>1. /\ l.kind = "authority" /\ r.kind = "authority" /\ fewer \ Generic # {}
        /\ ~(Documents!Cardinality(fewer \ Generic) = 1 /\ Documents!Cardinality(fewer) < 2)
    BY <1>7 DEF Documents!SharesTopic, fewer
  <2>2. more \ Generic # {}
    BY <1>1, <2>1
  <2>3. ~(Documents!Cardinality(more \ Generic) = 1 /\ Documents!Cardinality(more) < 2)
    BY <1>3, <1>4, <2>1
  <2> QED BY <1>5, <2>1, <2>2, <2>3 DEF Documents!SharesTopic, more
<1> QED BY <1>6, <1>7

LEMMA ConflictsCame ==
  ASSUME NEW in \in DocumentInputs, NEW c \in in.chunks, NEW n \in 1 .. Len(c.lines) - 1,
         NEW other, IsCutOf(in, other, c, n), NEW kinds, NEW p,
         p[1] \in Documents!Mentions(other, kinds), p[2] \in Documents!Mentions(other, kinds),
         Documents!IsClaim(p[1]), Documents!IsClaim(p[2])
  PROVE  \E m, o \in Documents!Mentions(in, kinds) :
           /\ Came(p[1], m) /\ Came(p[2], o)
           /\ Documents!IsClaim(m) /\ Documents!IsClaim(o)
           /\ Documents!Contradicting(p[1], p[2]) => Documents!Contradicting(m, o)
           /\ Documents!SharesTopic(p[1], p[2]) => Documents!SharesTopic(m, o)
<1>1. IsDocumentIndex(in)
  BY DocumentsTyped
<1>2. PICK m \in Documents!Mentions(in, kinds) : Came(p[1], m)
  BY <1>1, MentionsCame
<1>3. PICK o \in Documents!Mentions(in, kinds) : Came(p[2], o)
  BY <1>1, MentionsCame
<1>4. IsFiniteSet(Documents!Context(m)) /\ IsFiniteSet(Documents!Context(o))
  BY ContextsAreFinite
<1>5. Documents!IsClaim(m) /\ Documents!IsClaim(o)
  BY <1>2, <1>3, <1>4, MoreContextKeepsClaims
<1>6. /\ Documents!Contradicting(p[1], p[2]) => Documents!Contradicting(m, o)
      /\ Documents!SharesTopic(p[1], p[2]) => Documents!SharesTopic(m, o)
  BY <1>2, <1>3, <1>4, MoreContextKeepsConflicts
<1> QED BY <1>2, <1>3, <1>5, <1>6

LEMMA ContradictionsCame ==
  ASSUME NEW in \in DocumentInputs, NEW c \in in.chunks, NEW n \in 1 .. Len(c.lines) - 1,
         NEW other, IsCutOf(in, other, c, n), NEW p \in Documents!Contradictions(other)
  PROVE  \E q \in Documents!Contradictions(in) : Came(p[1], q[1]) /\ Came(p[2], q[2])
<1> DEFINE kinds == {"status", "selection"}
<1>1. /\ p[1] \in Documents!ContradictionClaims(other)
      /\ p[2] \in Documents!ContradictionClaims(other)
      /\ Documents!File(p[1]) # Documents!File(p[2]) /\ p[1].chunk.ordinal < p[2].chunk.ordinal
      /\ Documents!Contradicting(p[1], p[2])
  BY DEF Documents!Contradictions, Documents!Pairs
<1>2. /\ p[1] \in Documents!Mentions(other, kinds) /\ p[2] \in Documents!Mentions(other, kinds)
      /\ Documents!Material(other.about[Documents!File(p[1])]) /\ Documents!IsClaim(p[1])
      /\ Documents!Material(other.about[Documents!File(p[2])]) /\ Documents!IsClaim(p[2])
  BY <1>1 DEF Documents!ContradictionClaims
<1>3. PICK m, o \in Documents!Mentions(in, kinds) :
        /\ Came(p[1], m) /\ Came(p[2], o)
        /\ Documents!IsClaim(m) /\ Documents!IsClaim(o)
        /\ Documents!Contradicting(p[1], p[2]) => Documents!Contradicting(m, o)
  <2> HIDE DEF kinds
  <2> QED BY <1>2, ConflictsCame
<1>4. m \in Documents!ContradictionClaims(in) /\ o \in Documents!ContradictionClaims(in)
  BY <1>2, <1>3 DEF Came, IsCutOf, Documents!ContradictionClaims
<1>5. /\ Documents!File(m) # Documents!File(o) /\ m.chunk.ordinal < o.chunk.ordinal
      /\ Documents!Contradicting(m, o)
  BY <1>1, <1>3 DEF Came
<1>6. <<m, o>> \in Documents!Contradictions(in)
  BY <1>4, <1>5 DEF Documents!Contradictions, Documents!Pairs
<1>7. <<m, o>>[1] = m /\ <<m, o>>[2] = o
  OBVIOUS
<1> QED BY <1>3, <1>6, <1>7

LEMMA OverlapsCame ==
  ASSUME NEW in \in DocumentInputs, NEW c \in in.chunks, NEW n \in 1 .. Len(c.lines) - 1,
         NEW other, IsCutOf(in, other, c, n), NEW p \in Documents!Overlaps(other)
  PROVE  \E q \in Documents!Overlaps(in) : Came(p[1], q[1]) /\ Came(p[2], q[2])
<1> DEFINE kinds == {"authority"}
<1>1. /\ p[1] \in Documents!AuthorityClaims(other) /\ p[2] \in Documents!AuthorityClaims(other)
      /\ Documents!File(p[1]) # Documents!File(p[2]) /\ p[1].chunk.ordinal < p[2].chunk.ordinal
      /\ Documents!SharesTopic(p[1], p[2])
  BY DEF Documents!Overlaps, Documents!Pairs
<1>2. /\ p[1] \in Documents!Mentions(other, kinds) /\ p[2] \in Documents!Mentions(other, kinds)
      /\ Documents!IsClaim(p[1]) /\ Documents!IsClaim(p[2])
  BY <1>1 DEF Documents!AuthorityClaims
<1>3. PICK m, o \in Documents!Mentions(in, kinds) :
        /\ Came(p[1], m) /\ Came(p[2], o)
        /\ Documents!IsClaim(m) /\ Documents!IsClaim(o)
        /\ Documents!SharesTopic(p[1], p[2]) => Documents!SharesTopic(m, o)
  <2> HIDE DEF kinds
  <2> QED BY <1>2, ConflictsCame
<1>4. m \in Documents!AuthorityClaims(in) /\ o \in Documents!AuthorityClaims(in)
  BY <1>3 DEF Documents!AuthorityClaims
<1>5. /\ Documents!File(m) # Documents!File(o) /\ m.chunk.ordinal < o.chunk.ordinal
      /\ Documents!SharesTopic(m, o)
  BY <1>1, <1>3 DEF Came
<1>6. <<m, o>> \in Documents!Overlaps(in)
  BY <1>4, <1>5 DEF Documents!Overlaps, Documents!Pairs
<1>7. <<m, o>>[1] = m /\ <<m, o>>[2] = o
  OBVIOUS
<1> QED BY <1>3, <1>6, <1>7

LEMMA StalePairsCame ==
  ASSUME NEW in \in DocumentInputs, NEW c \in in.chunks, NEW n \in 1 .. Len(c.lines) - 1,
         NEW other, IsCutOf(in, other, c, n), NEW p \in Documents!StalePairs(other)
  PROVE  \E q \in Documents!StalePairs(in) : Documents!StaleId(in, q) = Documents!StaleId(other, p)
<1>1. /\ p \in Documents!Contradictions(other)
      /\ Documents!Precedence(other, Documents!File(p[1]))
           # Documents!Precedence(other, Documents!File(p[2]))
      /\ Documents!Current(other, Documents!File(p[1]))
      /\ Documents!Current(other, Documents!File(p[2]))
  BY DEF Documents!StalePairs
<1>2. PICK q \in Documents!Contradictions(in) : Came(p[1], q[1]) /\ Came(p[2], q[2])
  BY <1>1, ContradictionsCame
<1>3. \A f : Documents!Precedence(other, f) = Documents!Precedence(in, f)
  BY DEF IsCutOf, Documents!Precedence, Documents!Matching
<1>4. \A f : Documents!Current(other, f) <=> Documents!Current(in, f)
  BY DEF IsCutOf, Documents!Current
<1>5. q \in Documents!StalePairs(in)
  BY <1>1, <1>2, <1>3, <1>4 DEF Came, Documents!StalePairs
<1>6. Documents!StaleId(in, q) = Documents!StaleId(other, p)
  <2>1. CASE Documents!Precedence(in, Documents!File(q[1]))
               < Documents!Precedence(in, Documents!File(q[2]))
    <3>1. Documents!StaleSide(in, q) = <<q[2], q[1]>>
      BY <2>1 DEF Documents!StaleSide
    <3>2. Documents!StaleSide(other, p) = <<p[2], p[1]>>
      BY <1>2, <1>3, <2>1 DEF Documents!StaleSide, Came
    <3> QED BY <1>2, <3>1, <3>2 DEF Documents!StaleId, Came
  <2>2. CASE ~(Documents!Precedence(in, Documents!File(q[1]))
                 < Documents!Precedence(in, Documents!File(q[2])))
    <3>1. Documents!StaleSide(in, q) = q
      BY <2>2 DEF Documents!StaleSide
    <3>2. Documents!StaleSide(other, p) = p
      BY <1>2, <1>3, <2>2 DEF Documents!StaleSide, Came
    <3> QED BY <1>2, <3>1, <3>2 DEF Documents!StaleId, Came
  <2> QED BY <2>1, <2>2
<1> QED BY <1>5, <1>6

LEMMA CutsLose ==
  ASSUME input \in DocumentInputs, criterion \in Documents!Criteria
  PROVE  Documents!CuttingOnlyLoses
<1>1. criterion \in {"contradictory-claims", "stale-documentation", "duplicate-authority"}
  BY DEF Documents!Criteria
<1>2. IsDocumentIndex(input) /\ DOMAIN input = {"chunks", "last", "about", "order", "limit"}
  BY DocumentsTyped
<1> SUFFICES ASSUME NEW c \in input.chunks, NEW n \in 1 .. Len(c.lines) - 1,
                    NEW other,
                    other = [input EXCEPT !.chunks = (@ \ {c}) \cup Documents!Cut(c, n)],
                    NEW x \in Documents!Found(criterion, other)
             PROVE  \E y \in Documents!Found(criterion, input) : y.id = x.id
  BY DEF Documents!CuttingOnlyLoses
<1>3. IsCutOf(input, other, c, n)
  BY <1>2 DEF IsCutOf
<1>4. \A p, q : Came(p[1], q[1]) /\ Came(p[2], q[2]) =>
                  Documents!PlacesId(p) = Documents!PlacesId(q)
  BY DEF Came, Documents!PlacesId
<1>5. CASE criterion = "contradictory-claims"
  <2>1. PICK p \in Documents!Contradictions(other) :
          x = Documents!Candidate(p, p, Documents!PlacesId(p))
    BY <1>5 DEF Documents!Found, Documents!Contradictory
  <2>2. PICK q \in Documents!Contradictions(input) : Came(p[1], q[1]) /\ Came(p[2], q[2])
    BY <1>3, ContradictionsCame
  <2> DEFINE y == Documents!Candidate(q, q, Documents!PlacesId(q))
  <2>3. y \in Documents!Found(criterion, input)
    BY <1>5 DEF Documents!Found, Documents!Contradictory
  <2>4. y.id = x.id
    BY <1>4, <2>1, <2>2 DEF Documents!Candidate
  <2> QED BY <2>3, <2>4
<1>6. CASE criterion = "duplicate-authority"
  <2>1. PICK p \in Documents!Overlaps(other) :
          x = Documents!Candidate(p, p, Documents!PlacesId(p))
    BY <1>6 DEF Documents!Found, Documents!DuplicateAuthority
  <2>2. PICK q \in Documents!Overlaps(input) : Came(p[1], q[1]) /\ Came(p[2], q[2])
    BY <1>3, OverlapsCame
  <2> DEFINE y == Documents!Candidate(q, q, Documents!PlacesId(q))
  <2>3. y \in Documents!Found(criterion, input)
    BY <1>6 DEF Documents!Found, Documents!DuplicateAuthority
  <2>4. y.id = x.id
    BY <1>4, <2>1, <2>2 DEF Documents!Candidate
  <2> QED BY <2>3, <2>4
<1>7. CASE criterion = "stale-documentation"
  <2>1. PICK p \in Documents!StalePairs(other) : x.id = Documents!StaleId(other, p)
    <3>1. x \in Documents!Stale(other)
      BY <1>7 DEF Documents!Found
    <3>2. PICK p \in Documents!StalePairs(other) :
            x = Documents!Candidate(p, Documents!StaleSide(other, p), Documents!StaleId(other, p))
      BY <3>1 DEF Documents!Stale
    <3>3. x.id = Documents!StaleId(other, p)
      BY <3>2 DEF Documents!Candidate
    <3> QED BY <3>3
  <2>2. PICK q \in Documents!StalePairs(input) :
          Documents!StaleId(input, q) = Documents!StaleId(other, p)
    BY <1>3, StalePairsCame
  <2>3. PICK y \in Documents!Stale(input) : y.id = Documents!StaleId(input, q)
    BY <1>2, StaleIds
  <2>4. y \in Documents!Found(criterion, input)
    BY <1>7 DEF Documents!Found
  <2> QED BY <2>1, <2>2, <2>3, <2>4
<1> QED BY <1>1, <1>5, <1>6, <1>7
-----------------------------------------------------------------------------
(***************************************************************************)
(* Globs.                                                                  *)
(***************************************************************************)
(* The cut before element j of the pattern, and the rule of its piece.     *)
Piece(s, p, star, fits, cut, j) ==
  IF p[j] = star THEN cut[j - 1] <= cut[j]
  ELSE cut[j] = cut[j - 1] + 1 /\ <<s[cut[j]], p[j]>> \in fits

(* A cut of what is left of s from i on for the elements from j on.        *)
CutsRest(s, p, star, fits, i, j, cut) ==
  /\ cut \in [j - 1 .. Len(p) -> 0 .. Len(s)]
  /\ cut[j - 1] = i - 1 /\ cut[Len(p)] = Len(s)
  /\ \A k \in j .. Len(p) : Piece(s, p, star, fits, cut, k)

Rests(s, p, star, fits, j) ==
  {i \in 1 .. Len(s) + 1 : \E cut : CutsRest(s, p, star, fits, i, j, cut)}

(* What the search makes of the positions of the elements from j + 1 on.   *)
Search(s, p, star, fits, from, j) ==
  IF j > Len(p) THEN {Len(s) + 1}
  ELSE IF p[j] = star
  THEN {i \in 1 .. Len(s) + 1 : \E k \in i .. Len(s) + 1 : k \in from[j + 1]}
  ELSE {i \in 1 .. Len(s) : <<s[i], p[j]>> \in fits /\ i + 1 \in from[j + 1]}

LEMMA RestsOfNothing ==
  ASSUME NEW s, NEW p, NEW star, NEW fits, Len(s) \in Nat, Len(p) \in Nat
  PROVE  Rests(s, p, star, fits, Len(p) + 1) = {Len(s) + 1}
<1> DEFINE j == Len(p) + 1
           end == [m \in j - 1 .. Len(p) |-> Len(s)]
<1>1. j - 1 = Len(p) /\ j \in Nat /\ Len(p) \in j - 1 .. Len(p) /\ j .. Len(p) = {}
  OBVIOUS
<1>2. CutsRest(s, p, star, fits, Len(s) + 1, j, end)
  <2>1. end \in [j - 1 .. Len(p) -> 0 .. Len(s)] /\ end[j - 1] = Len(s) /\ end[Len(p)] = Len(s)
    BY <1>1
  <2>2. Len(s) + 1 - 1 = Len(s)
    OBVIOUS
  <2> HIDE DEF end, j
  <2> QED BY <1>1, <2>1, <2>2 DEF CutsRest
<1>3. ASSUME NEW i \in Rests(s, p, star, fits, j) PROVE i = Len(s) + 1
  <2>1. PICK cut : CutsRest(s, p, star, fits, i, j, cut)
    BY <1>3 DEF Rests
  <2>2. i \in 1 .. Len(s) + 1 /\ cut[j - 1] = i - 1 /\ cut[Len(p)] = Len(s)
    BY <1>3, <2>1 DEF Rests, CutsRest
  <2> QED BY <1>1, <2>2
<1>4. Len(s) + 1 \in Rests(s, p, star, fits, j)
  BY <1>2 DEF Rests
<1> QED BY <1>3, <1>4

(* One element more: the cut of the rest grows at its front.               *)
LEMMA RestsGrow ==
  ASSUME NEW s, NEW p, NEW star, NEW fits, Len(s) \in Nat, Len(p) \in Nat,
         NEW j \in 1 .. Len(p), NEW i \in 1 .. Len(s) + 1, NEW k \in Rests(s, p, star, fits, j + 1),
         IF p[j] = star THEN i <= k ELSE k = i + 1 /\ <<s[i], p[j]>> \in fits
  PROVE  i \in Rests(s, p, star, fits, j)
<1>1. PICK rest : CutsRest(s, p, star, fits, k, j + 1, rest)
  BY DEF Rests
<1>2. k \in 1 .. Len(s) + 1
  BY DEF Rests
<1> DEFINE cut == [m \in j - 1 .. Len(p) |-> IF m = j - 1 THEN i - 1 ELSE rest[m]]
<1>3. /\ rest \in [j .. Len(p) -> 0 .. Len(s)] /\ rest[j] = k - 1 /\ rest[Len(p)] = Len(s)
      /\ \A m \in j + 1 .. Len(p) : Piece(s, p, star, fits, rest, m)
  <2>1. j + 1 - 1 = j
    OBVIOUS
  <2> QED BY <1>1, <2>1 DEF CutsRest
<1>4. cut \in [j - 1 .. Len(p) -> 0 .. Len(s)]
  <2> SUFFICES ASSUME NEW m \in j - 1 .. Len(p)
               PROVE  (IF m = j - 1 THEN i - 1 ELSE rest[m]) \in 0 .. Len(s)
    OBVIOUS
  <2>1. m = j - 1 \/ m \in j .. Len(p)
    OBVIOUS
  <2> QED BY <1>3, <2>1
<1>5. /\ cut[j - 1] = i - 1
      /\ \A m \in j .. Len(p) : cut[m] = rest[m]
  OBVIOUS
<1> HIDE DEF cut
<1>6. cut[j] = k - 1 /\ cut[Len(p)] = Len(s)
  BY <1>3, <1>5
<1>7. Piece(s, p, star, fits, cut, j)
  <2>1. CASE p[j] = star
    BY <1>2, <1>5, <1>6, <2>1 DEF Piece
  <2>2. CASE p[j] # star
    <3>1. k - 1 = i /\ i - 1 + 1 = i
      BY <1>2, <2>2
    <3> QED BY <1>5, <1>6, <2>2, <3>1 DEF Piece
  <2> QED BY <2>1, <2>2
<1>8. ASSUME NEW m \in j + 1 .. Len(p) PROVE Piece(s, p, star, fits, cut, m)
  <2>1. m \in j .. Len(p) /\ m - 1 \in j .. Len(p)
    OBVIOUS
  <2>2. cut[m] = rest[m] /\ cut[m - 1] = rest[m - 1]
    BY <1>5, <2>1
  <2> QED BY <1>3, <2>2 DEF Piece
<1>9. \A m \in j .. Len(p) : Piece(s, p, star, fits, cut, m)
  <2> SUFFICES ASSUME NEW m \in j .. Len(p) PROVE Piece(s, p, star, fits, cut, m)
    OBVIOUS
  <2>1. m = j \/ m \in j + 1 .. Len(p)
    OBVIOUS
  <2> QED BY <1>7, <1>8, <2>1
<1>10. CutsRest(s, p, star, fits, i, j, cut)
  BY <1>4, <1>5, <1>6, <1>9 DEF CutsRest
<1> QED BY <1>10 DEF Rests

(* And it shrinks at its front.                                            *)
LEMMA RestsShrink ==
  ASSUME NEW s, NEW p, NEW star, NEW fits, Len(s) \in Nat, Len(p) \in Nat,
         NEW j \in 1 .. Len(p), NEW i \in Rests(s, p, star, fits, j)
  PROVE  \E k \in Rests(s, p, star, fits, j + 1) :
           IF p[j] = star THEN i <= k ELSE k = i + 1 /\ <<s[i], p[j]>> \in fits
<1>1. PICK cut : CutsRest(s, p, star, fits, i, j, cut)
  BY DEF Rests
<1>2. i \in 1 .. Len(s) + 1
  BY DEF Rests
<1> DEFINE rest == [m \in j .. Len(p) |-> cut[m]]
           k == cut[j] + 1
<1>3. /\ cut \in [j - 1 .. Len(p) -> 0 .. Len(s)] /\ cut[j - 1] = i - 1 /\ cut[Len(p)] = Len(s)
      /\ \A m \in j .. Len(p) : Piece(s, p, star, fits, cut, m)
  BY <1>1 DEF CutsRest
<1>4. \A m \in j .. Len(p) : m \in j - 1 .. Len(p) /\ cut[m] \in 0 .. Len(s)
  <2>1. ASSUME NEW m \in j .. Len(p) PROVE m \in j - 1 .. Len(p)
    OBVIOUS
  <2> QED BY <1>3, <2>1
<1>5. rest \in [j .. Len(p) -> 0 .. Len(s)] /\ \A m \in j .. Len(p) : rest[m] = cut[m]
  BY <1>4
<1> HIDE DEF rest
<1>6. k \in 1 .. Len(s) + 1 /\ rest[j] = k - 1 /\ rest[Len(p)] = Len(s)
  BY <1>3, <1>4, <1>5
<1>7. ASSUME NEW m \in j + 1 .. Len(p) PROVE Piece(s, p, star, fits, rest, m)
  <2>1. m \in j .. Len(p) /\ m - 1 \in j .. Len(p)
    OBVIOUS
  <2>2. rest[m] = cut[m] /\ rest[m - 1] = cut[m - 1]
    BY <1>5, <2>1
  <2> QED BY <1>3, <2>1, <2>2 DEF Piece
<1>8. CutsRest(s, p, star, fits, k, j + 1, rest)
  <2>1. j + 1 - 1 = j
    OBVIOUS
  <2> HIDE DEF k
  <2> QED BY <1>5, <1>6, <1>7, <2>1 DEF CutsRest
<1>9. k \in Rests(s, p, star, fits, j + 1)
  BY <1>6, <1>8 DEF Rests
<1>10. Piece(s, p, star, fits, cut, j)
  BY <1>3
<1>11. IF p[j] = star THEN i <= k ELSE k = i + 1 /\ <<s[i], p[j]>> \in fits
  <2>1. CASE p[j] = star
    BY <1>2, <1>3, <1>4, <1>10, <2>1 DEF Piece
  <2>2. CASE p[j] # star
    <3>1. cut[j] = i - 1 + 1 /\ <<s[cut[j]], p[j]>> \in fits
      BY <1>3, <1>10, <2>2 DEF Piece
    <3>2. cut[j] = i
      BY <1>2, <3>1
    <3> QED BY <2>2, <3>1, <3>2
  <2> QED BY <2>1, <2>2
<1> QED BY <1>9, <1>11

(* The rests are what the search computes from them.                       *)
LEMMA RestsAreSearched ==
  ASSUME NEW s, NEW p, NEW star, NEW fits, Len(s) \in Nat, Len(p) \in Nat,
         NEW j \in 1 .. Len(p) + 1, NEW from,
         j <= Len(p) => from[j + 1] = Rests(s, p, star, fits, j + 1)
  PROVE  Search(s, p, star, fits, from, j) = Rests(s, p, star, fits, j)
<1>1. CASE j > Len(p)
  <2>1. j = Len(p) + 1
    BY <1>1
  <2> QED BY <1>1, <2>1, RestsOfNothing DEF Search
<1>2. CASE ~(j > Len(p))
  <2>1. j \in 1 .. Len(p) /\ from[j + 1] = Rests(s, p, star, fits, j + 1)
    BY <1>2
  <2>2. ASSUME NEW i \in Search(s, p, star, fits, from, j)
        PROVE  i \in Rests(s, p, star, fits, j)
    <3>1. CASE p[j] = star
      <4>1. i \in 1 .. Len(s) + 1 /\ \E k \in i .. Len(s) + 1 : k \in from[j + 1]
        BY <1>2, <2>2, <3>1 DEF Search
      <4>2. PICK k \in i .. Len(s) + 1 : k \in from[j + 1]
        BY <4>1
      <4>3. i <= k /\ k \in Rests(s, p, star, fits, j + 1)
        BY <2>1, <4>1, <4>2
      <4> QED BY <2>1, <3>1, <4>1, <4>3, RestsGrow
    <3>2. CASE p[j] # star
      <4>1. i \in 1 .. Len(s) /\ <<s[i], p[j]>> \in fits /\ i + 1 \in from[j + 1]
        BY <1>2, <2>2, <3>2 DEF Search
      <4>2. i \in 1 .. Len(s) + 1 /\ i + 1 \in Rests(s, p, star, fits, j + 1)
        BY <2>1, <4>1
      <4> QED BY <2>1, <3>2, <4>1, <4>2, RestsGrow
    <3> QED BY <3>1, <3>2
  <2>3. ASSUME NEW i \in Rests(s, p, star, fits, j)
        PROVE  i \in Search(s, p, star, fits, from, j)
    <3>1. PICK k \in Rests(s, p, star, fits, j + 1) :
            IF p[j] = star THEN i <= k ELSE k = i + 1 /\ <<s[i], p[j]>> \in fits
      BY <2>1, RestsShrink
    <3>2. i \in 1 .. Len(s) + 1 /\ k \in 1 .. Len(s) + 1
      BY DEF Rests
    <3>3. CASE p[j] = star
      <4>1. k \in i .. Len(s) + 1 /\ k \in from[j + 1]
        BY <2>1, <3>1, <3>2, <3>3
      <4> QED BY <1>2, <3>2, <3>3, <4>1 DEF Search
    <3>4. CASE p[j] # star
      <4>1. k = i + 1 /\ <<s[i], p[j]>> \in fits
        BY <3>1, <3>4
      <4>2. i \in 1 .. Len(s) /\ i + 1 \in from[j + 1]
        BY <2>1, <3>2, <4>1
      <4> QED BY <1>2, <3>4, <4>1, <4>2 DEF Search
    <3> QED BY <3>3, <3>4
  <2> QED BY <2>2, <2>3
<1> QED BY <1>1, <1>2

(* The search of the code, by the equation that defines it.                *)
LEMMA WildcardSearches ==
  ASSUME NEW s, NEW p, NEW star, NEW fits, Len(s) \in Nat, Len(p) \in Nat
  PROVE  \E from :
           /\ \A j \in 1 .. Len(p) + 1 : from[j] = Search(s, p, star, fits, from, j)
           /\ Paths!Wildcard(s, p, star, fits) <=> 1 \in from[1]
<1> DEFINE Is(from) == from = [j \in 1 .. Len(p) + 1 |-> Search(s, p, star, fits, from, j)]
           rests == [j \in 1 .. Len(p) + 1 |-> Rests(s, p, star, fits, j)]
           chosen == CHOOSE from : Is(from)
<1>1. Is(rests)
  <2>1. ASSUME NEW j \in 1 .. Len(p) + 1
        PROVE  Search(s, p, star, fits, rests, j) = Rests(s, p, star, fits, j)
    <3>1. j <= Len(p) => rests[j + 1] = Rests(s, p, star, fits, j + 1)
      OBVIOUS
    <3> HIDE DEF rests
    <3> QED BY <3>1, RestsAreSearched
  <2> DEFINE searched == [j \in 1 .. Len(p) + 1 |-> Search(s, p, star, fits, rests, j)]
  <2>2. rests = searched
    BY <2>1
  <2> QED BY <2>2
<1>2. Is(chosen)
  BY <1>1
<1>3. Paths!Wildcard(s, p, star, fits) <=> 1 \in chosen[1]
  BY DEF Paths!Wildcard, Search
<1> HIDE DEF chosen
<1>4. \A j \in 1 .. Len(p) + 1 : chosen[j] = Search(s, p, star, fits, chosen, j)
  BY <1>2
<1> QED BY <1>3, <1>4

(* A search finds a match exactly when there is a cut.                     *)
LEMMA WildcardIsCuts ==
  ASSUME NEW s, NEW p, NEW star, NEW fits, Len(s) \in Nat, Len(p) \in Nat
  PROVE  Paths!Wildcard(s, p, star, fits) <=> Paths!CutsInto(s, p, star, fits)
<1>1. PICK from :
        /\ \A j \in 1 .. Len(p) + 1 : from[j] = Search(s, p, star, fits, from, j)
        /\ Paths!Wildcard(s, p, star, fits) <=> 1 \in from[1]
  BY WildcardSearches
<1> DEFINE wrong == {n \in 0 .. Len(p) :
                       from[Len(p) + 1 - n] # Rests(s, p, star, fits, Len(p) + 1 - n)}
<1>2. wrong = {}
  <2> SUFFICES ASSUME wrong # {} PROVE FALSE
    OBVIOUS
  <2>1. wrong \subseteq Nat
    OBVIOUS
  <2>2. PICK n \in wrong : \A k \in wrong : n <= k
    BY <2>1, LeastNumber
  <2> DEFINE j == Len(p) + 1 - n
  <2>3. j \in 1 .. Len(p) + 1 /\ n \in 0 .. Len(p)
    OBVIOUS
  <2>4. ASSUME j <= Len(p) PROVE from[j + 1] = Rests(s, p, star, fits, j + 1)
    <3>1. n - 1 \in 0 .. Len(p) /\ Len(p) + 1 - (n - 1) = j + 1 /\ ~(n <= n - 1)
      BY <2>4
    <3>2. n - 1 \notin wrong
      BY <2>2, <3>1
    <3> QED BY <3>1, <3>2
  <2>5. from[j] # Rests(s, p, star, fits, j)
    OBVIOUS
  <2> HIDE DEF wrong, j
  <2>6. Search(s, p, star, fits, from, j) = Rests(s, p, star, fits, j)
    BY <2>3, <2>4, RestsAreSearched
  <2> QED BY <1>1, <2>3, <2>5, <2>6
<1>3. from[1] = Rests(s, p, star, fits, 1)
  <2>1. Len(p) \in 0 .. Len(p) /\ Len(p) + 1 - Len(p) = 1
    OBVIOUS
  <2> QED BY <1>2, <2>1
<1>4. 1 \in Rests(s, p, star, fits, 1) <=> \E cut : CutsRest(s, p, star, fits, 1, 1, cut)
  BY DEF Rests
<1>5. \A cut : CutsRest(s, p, star, fits, 1, 1, cut) <=>
        /\ cut \in [0 .. Len(p) -> 0 .. Len(s)] /\ cut[0] = 0 /\ cut[Len(p)] = Len(s)
        /\ \A j \in 1 .. Len(p) : Piece(s, p, star, fits, cut, j)
  BY DEF CutsRest
<1>6. Paths!CutsInto(s, p, star, fits) <=>
        \E cut \in [0 .. Len(p) -> 0 .. Len(s)] :
          /\ cut[0] = 0 /\ cut[Len(p)] = Len(s)
          /\ \A j \in 1 .. Len(p) : Piece(s, p, star, fits, cut, j)
  BY DEF Paths!CutsInto, Piece
<1> QED BY <1>1, <1>3, <1>4, <1>5, <1>6

(* At the level of segments and at that of characters.                     *)
LEMMA GlobsAreLanguages ==
  ASSUME NEW path, NEW glob, Paths!IsList(path), Paths!IsList(glob),
         \A s \in Paths!ToSet(path) \cup Paths!ToSet(glob) : Paths!IsList(s)
  PROVE  Paths!MatchesGlob(path, glob) <=>
           Paths!CutsInto(path, glob, <<"*", "*">>,
             {x \in Paths!ToSet(path) \X Paths!ToSet(glob) : Paths!SegmentFits(x[1], x[2])})
<1>1. ASSUME NEW s, Paths!IsList(s) PROVE Len(s) \in Nat
  BY <1>1 DEF Paths!IsList
<1> DEFINE pairs == Paths!ToSet(path) \X Paths!ToSet(glob)
<1>2. ASSUME NEW x \in pairs
      PROVE  Paths!MatchesGlobSegment(x[1], x[2]) <=> Paths!SegmentFits(x[1], x[2])
  <2>1. x[1] \in Paths!ToSet(path) /\ x[2] \in Paths!ToSet(glob)
    BY <1>2
  <2>2. Len(x[1]) \in Nat /\ Len(x[2]) \in Nat
    BY <1>1, <2>1
  <2> QED BY <2>2, WildcardIsCuts DEF Paths!MatchesGlobSegment, Paths!SegmentFits
<1>3. {x \in pairs : Paths!MatchesGlobSegment(x[1], x[2])} = {x \in pairs : Paths!SegmentFits(x[1], x[2])}
  <2> HIDE DEF pairs
  <2> QED BY <1>2
<1>4. Len(path) \in Nat /\ Len(glob) \in Nat
  BY <1>1
<1> QED BY <1>3, <1>4, WildcardIsCuts DEF Paths!MatchesGlob
-----------------------------------------------------------------------------
(***************************************************************************)
(* Links.                                                                  *)
(***************************************************************************)
AreStacks(stack, walk) ==
  /\ stack[0] = <<>>
  /\ \A n \in 1 .. Len(walk) :
       stack[n] = Paths!Step(stack[n - 1], walk[n], Paths!IsAbsolute(walk))

AreDepths(depth, walk) ==
  /\ depth[0] = 0
  /\ \A n \in 1 .. Len(walk) :
       depth[n] = Paths!Deeper(depth[n - 1], walk[n], Paths!IsAbsolute(walk))

(* What defines the stacks and the depths is defined: a prefix of a walk   *)
(* without them would have a shortest one.                                 *)
LEMMA StacksAre ==
  ASSUME NEW walk, Len(walk) \in Nat
  PROVE  AreStacks(Paths!Stacks(walk), walk)
<1> DEFINE Made(f, n) == IF n = 0 THEN <<>>
                         ELSE Paths!Step(f[n - 1], walk[n], Paths!IsAbsolute(walk))
           Is(f, m) == f = [n \in 0 .. m |-> Made(f, n)]
           without == {m \in 0 .. Len(walk) : \A f : ~Is(f, m)}
           chosen == CHOOSE f : Is(f, Len(walk))
<1>1. without = {}
  <2> SUFFICES ASSUME without # {} PROVE FALSE
    OBVIOUS
  <2>1. without \subseteq Nat
    OBVIOUS
  <2>2. PICK m \in without : \A k \in without : m <= k
    BY <2>1, LeastNumber
  <2>3. m \in 0 .. Len(walk) /\ \A f : ~Is(f, m)
    OBVIOUS
  <2>4. CASE m = 0
    <3> DEFINE f == [n \in 0 .. 0 |-> <<>>]
    <3>1. ASSUME NEW n \in 0 .. 0 PROVE Made(f, n) = <<>>
      OBVIOUS
    <3>2. f = [n \in 0 .. 0 |-> Made(f, n)]
      BY <3>1
    <3> HIDE DEF f, Made
    <3>3. Is(f, m)
      BY <2>4, <3>2
    <3> QED BY <2>3, <3>3
  <2>5. CASE m # 0
    <3>1. m - 1 \in 0 .. Len(walk) /\ ~(m <= m - 1)
      BY <2>3, <2>5
    <3>2. m - 1 \notin without
      BY <2>2, <3>1
    <3>3. PICK g : Is(g, m - 1)
      BY <3>1, <3>2
    <3> DEFINE f == [n \in 0 .. m |-> Made(g, n)]
    <3>4. ASSUME NEW n \in 0 .. m - 1 PROVE f[n] = g[n]
      <4>1. n \in 0 .. m /\ f[n] = Made(g, n)
        BY <2>3
      <4> HIDE DEF Made, f
      <4>2. g[n] = Made(g, n)
        BY <3>3
      <4> QED BY <4>1, <4>2
    <3>5. ASSUME NEW n \in 0 .. m PROVE Made(f, n) = Made(g, n)
      <4>1. CASE n = 0
        BY <4>1
      <4>2. CASE n # 0
        <5>1. n - 1 \in 0 .. m - 1
          BY <2>3, <4>2
        <5>2. f[n - 1] = g[n - 1]
          BY <3>4, <5>1
        <5> HIDE DEF f
        <5> QED BY <4>2, <5>2
      <4> QED BY <4>1, <4>2
    <3>6. f = [n \in 0 .. m |-> Made(f, n)]
      <4> DEFINE made == [n \in 0 .. m |-> Made(f, n)]
      <4>1. f = made
        <5> HIDE DEF Made
        <5> QED BY <3>5
      <4> QED BY <4>1
    <3> QED BY <2>3, <3>6
  <2> QED BY <2>4, <2>5
<1>2. \E f : Is(f, Len(walk))
  BY <1>1
<1>3. Is(chosen, Len(walk))
  BY <1>2
<1>4. Paths!Stacks(walk) = chosen
  BY DEF Paths!Stacks
<1> HIDE DEF chosen
<1>5. \A n \in 0 .. Len(walk) : chosen[n] = Made(chosen, n)
  <2> HIDE DEF Made
  <2> QED BY <1>3
<1>6. chosen[0] = <<>>
  <2>1. 0 \in 0 .. Len(walk)
    OBVIOUS
  <2> QED BY <1>5, <2>1
<1>7. ASSUME NEW n \in 1 .. Len(walk) 
      PROVE  chosen[n] = Paths!Step(chosen[n - 1], walk[n], Paths!IsAbsolute(walk))
  <2>1. n \in 0 .. Len(walk) /\ n # 0
    OBVIOUS
  <2> QED BY <1>5, <2>1
<1> QED BY <1>4, <1>6, <1>7 DEF AreStacks

LEMMA DepthsAre ==
  ASSUME NEW walk, Len(walk) \in Nat
  PROVE  AreDepths(Paths!Depths(walk), walk)
<1> DEFINE Made(f, n) == IF n = 0 THEN 0
                         ELSE Paths!Deeper(f[n - 1], walk[n], Paths!IsAbsolute(walk))
           Is(f, m) == f = [n \in 0 .. m |-> Made(f, n)]
           without == {m \in 0 .. Len(walk) : \A f : ~Is(f, m)}
           chosen == CHOOSE f : Is(f, Len(walk))
<1>1. without = {}
  <2> SUFFICES ASSUME without # {} PROVE FALSE
    OBVIOUS
  <2>1. without \subseteq Nat
    OBVIOUS
  <2>2. PICK m \in without : \A k \in without : m <= k
    BY <2>1, LeastNumber
  <2>3. m \in 0 .. Len(walk) /\ \A f : ~Is(f, m)
    OBVIOUS
  <2>4. CASE m = 0
    <3> DEFINE f == [n \in 0 .. 0 |-> 0]
    <3>1. ASSUME NEW n \in 0 .. 0 PROVE Made(f, n) = 0
      OBVIOUS
    <3>2. f = [n \in 0 .. 0 |-> Made(f, n)]
      BY <3>1
    <3> HIDE DEF f, Made
    <3>3. Is(f, m)
      BY <2>4, <3>2
    <3> QED BY <2>3, <3>3
  <2>5. CASE m # 0
    <3>1. m - 1 \in 0 .. Len(walk) /\ ~(m <= m - 1)
      BY <2>3, <2>5
    <3>2. m - 1 \notin without
      BY <2>2, <3>1
    <3>3. PICK g : Is(g, m - 1)
      BY <3>1, <3>2
    <3> DEFINE f == [n \in 0 .. m |-> Made(g, n)]
    <3>4. ASSUME NEW n \in 0 .. m - 1 PROVE f[n] = g[n]
      <4>1. n \in 0 .. m /\ f[n] = Made(g, n)
        BY <2>3
      <4> HIDE DEF Made, f
      <4>2. g[n] = Made(g, n)
        BY <3>3
      <4> QED BY <4>1, <4>2
    <3>5. ASSUME NEW n \in 0 .. m PROVE Made(f, n) = Made(g, n)
      <4>1. CASE n = 0
        BY <4>1
      <4>2. CASE n # 0
        <5>1. n - 1 \in 0 .. m - 1
          BY <2>3, <4>2
        <5>2. f[n - 1] = g[n - 1]
          BY <3>4, <5>1
        <5> HIDE DEF f
        <5> QED BY <4>2, <5>2
      <4> QED BY <4>1, <4>2
    <3>6. f = [n \in 0 .. m |-> Made(f, n)]
      <4> DEFINE made == [n \in 0 .. m |-> Made(f, n)]
      <4>1. f = made
        <5> HIDE DEF Made
        <5> QED BY <3>5
      <4> QED BY <4>1
    <3> QED BY <2>3, <3>6
  <2> QED BY <2>4, <2>5
<1>2. \E f : Is(f, Len(walk))
  BY <1>1
<1>3. Is(chosen, Len(walk))
  BY <1>2
<1>4. Paths!Depths(walk) = chosen
  BY DEF Paths!Depths
<1> HIDE DEF chosen
<1>5. \A n \in 0 .. Len(walk) : chosen[n] = Made(chosen, n)
  <2> HIDE DEF Made
  <2> QED BY <1>3
<1>6. chosen[0] = 0
  <2>1. 0 \in 0 .. Len(walk)
    OBVIOUS
  <2> QED BY <1>5, <2>1
<1>7. ASSUME NEW n \in 1 .. Len(walk) 
      PROVE  chosen[n] = Paths!Deeper(chosen[n - 1], walk[n], Paths!IsAbsolute(walk))
  <2>1. n \in 0 .. Len(walk) /\ n # 0
    OBVIOUS
  <2> QED BY <1>5, <2>1
<1> QED BY <1>4, <1>6, <1>7 DEF AreDepths

(* The three kinds of segments.                                            *)
Stays(segment) == segment \in {"", "."}
Up == ".."
IsName(segment) == ~Stays(segment) /\ segment # Up

LEMMA StayingSegments ==
  ASSUME NEW stack, NEW segment, Stays(segment), NEW walk
  PROVE  /\ Paths!Step(stack, segment, Paths!IsAbsolute(walk)) = stack
         /\ \A depth \in Int : Paths!Deeper(depth, segment, Paths!IsAbsolute(walk)) = depth
         /\ Paths!Down(segment) = 0
<1>1. Paths!Step(stack, segment, Paths!IsAbsolute(walk)) = stack /\ Paths!Down(segment) = 0
  BY Zenon DEF Stays, Paths!Step, Paths!Down
<1>2. segment # Up
  BY Zenon DEF Stays, Up
<1>3. \A depth : Paths!Deeper(depth, segment, Paths!IsAbsolute(walk)) = depth + Paths!Down(segment)
  BY <1>2, Zenon DEF Up, Paths!Deeper
<1> QED BY <1>1, <1>3

LEMMA UpSegments ==
  ASSUME NEW stack, NEW walk
  PROVE  /\ stack # <<>> /\ Paths!Last(stack) # Up
              => Paths!Step(stack, Up, Paths!IsAbsolute(walk)) = Paths!Front(stack)
         /\ stack = <<>> \/ Paths!Last(stack) = Up
              => IF Paths!IsAbsolute(walk)
                 THEN Paths!Step(stack, Up, Paths!IsAbsolute(walk)) = stack
                 ELSE Paths!Step(stack, Up, Paths!IsAbsolute(walk)) = Append(stack, Up)
         /\ \A depth \in Int :
              IF Paths!IsAbsolute(walk) /\ depth = 0
              THEN Paths!Deeper(depth, Up, Paths!IsAbsolute(walk)) = depth
              ELSE Paths!Deeper(depth, Up, Paths!IsAbsolute(walk)) = depth - 1
<1>1. ~Stays(Up)
  BY Zenon DEF Stays, Up
<1>2. Paths!Down(Up) = -1
  BY <1>1, Zenon DEF Stays, Up, Paths!Down
<1>3. \A depth : IF Paths!IsAbsolute(walk) /\ depth = 0
                 THEN Paths!Deeper(depth, Up, Paths!IsAbsolute(walk)) = depth
                 ELSE Paths!Deeper(depth, Up, Paths!IsAbsolute(walk)) = depth + Paths!Down(Up)
  BY Zenon DEF Up, Paths!Deeper
<1>4. \A depth \in Int :
        IF Paths!IsAbsolute(walk) /\ depth = 0
        THEN Paths!Deeper(depth, Up, Paths!IsAbsolute(walk)) = depth
        ELSE Paths!Deeper(depth, Up, Paths!IsAbsolute(walk)) = depth - 1
  BY <1>2, <1>3
<1>5. stack # <<>> /\ Paths!Last(stack) # Up
        => Paths!Step(stack, Up, Paths!IsAbsolute(walk)) = Paths!Front(stack)
  BY <1>1, Zenon DEF Stays, Up, Paths!Step
<1>6. stack = <<>> \/ Paths!Last(stack) = Up
        => IF Paths!IsAbsolute(walk)
           THEN Paths!Step(stack, Up, Paths!IsAbsolute(walk)) = stack
           ELSE Paths!Step(stack, Up, Paths!IsAbsolute(walk)) = Append(stack, Up)
  BY <1>1, Zenon DEF Stays, Up, Paths!Step
<1> QED BY <1>4, <1>5, <1>6

LEMMA NamingSegments ==
  ASSUME NEW stack, NEW segment, IsName(segment), NEW walk
  PROVE  /\ Paths!Step(stack, segment, Paths!IsAbsolute(walk)) = Append(stack, segment)
         /\ \A depth \in Int : Paths!Deeper(depth, segment, Paths!IsAbsolute(walk)) = depth + 1
         /\ Paths!Down(segment) = 1
<1>1. /\ Paths!Step(stack, segment, Paths!IsAbsolute(walk)) = Append(stack, segment)
      /\ Paths!Down(segment) = 1
  BY Zenon DEF IsName, Stays, Up, Paths!Step, Paths!Down
<1>2. \A depth : Paths!Deeper(depth, segment, Paths!IsAbsolute(walk)) = depth + Paths!Down(segment)
  BY Zenon DEF IsName, Up, Paths!Deeper
<1> QED BY <1>1, <1>2

LEMMA DownOfNames ==
  ASSUME NEW segment, Paths!Down(segment) = 1
  PROVE  IsName(segment)
<1>1. ~Stays(segment)
  <2>1. SUFFICES ASSUME Stays(segment) PROVE FALSE
    OBVIOUS
  <2>2. Paths!Down(segment) = 0
    BY <2>1, StayingSegments
  <2> QED BY <2>2
<1>2. segment # Up
  <2>1. SUFFICES ASSUME segment = Up PROVE FALSE
    OBVIOUS
  <2>2. Paths!Down(segment) = -1
    BY <2>1, Zenon DEF Up, Paths!Down
  <2> QED BY <2>2
<1> QED BY <1>1, <1>2 DEF IsName

(* Where a name stands: on the stack of a walk that has not left, the name *)
(* at each level is the last one that led there.                           *)
Leads(walk, depth, i, l, n) ==
  /\ i \in 1 .. n /\ Paths!Down(walk[i]) = 1 /\ depth[i] = l
  /\ \A k \in i .. n : depth[k] >= l

Standing(walk, stack, depth, n) ==
  /\ stack[n] \in Seq({walk[i] : i \in 1 .. Len(walk)})
  /\ depth[n] \in Nat /\ Len(stack[n]) = depth[n]
  /\ \A l \in 1 .. depth[n] : \E i \in 1 .. n : Leads(walk, depth, i, l, n) /\ stack[n][l] = walk[i]

LEMMA DepthsAreIntegers ==
  ASSUME NEW walk, Len(walk) \in Nat, NEW depth, AreDepths(depth, walk)
  PROVE  \A n \in 0 .. Len(walk) : depth[n] \in Int
<1> DEFINE wrong == {n \in 0 .. Len(walk) : depth[n] \notin Int}
<1> SUFFICES ASSUME wrong # {} PROVE FALSE
  OBVIOUS
<1>1. wrong \subseteq Nat
  OBVIOUS
<1>2. PICK n \in wrong : \A k \in wrong : n <= k
  BY <1>1, LeastNumber
<1>3. n # 0
  BY DEF AreDepths
<1>4. n \in 1 .. Len(walk) /\ n - 1 \in 0 .. Len(walk) /\ ~(n <= n - 1)
  BY <1>3
<1>5. depth[n - 1] \in Int
  BY <1>2, <1>4
<1>6. depth[n] = Paths!Deeper(depth[n - 1], walk[n], Paths!IsAbsolute(walk))
  BY <1>4 DEF AreDepths
<1>7. Paths!Down(walk[n]) \in Int
  BY DEF Paths!Down
<1>8. depth[n] \in Int
  BY <1>5, <1>6, <1>7 DEF Paths!Deeper
<1> QED BY <1>8

(* One segment of a walk that stays inside.                                *)
LEMMA SegmentsAreTakenInside ==
  ASSUME NEW walk, Len(walk) \in Nat, NEW stack, AreStacks(stack, walk),
         NEW depth, AreDepths(depth, walk), NEW n \in 1 .. Len(walk),
         Standing(walk, stack, depth, n - 1), depth[n] \in Int, depth[n] >= 0
  PROVE  Standing(walk, stack, depth, n)
<1> DEFINE S == {walk[i] : i \in 1 .. Len(walk)}
           before == stack[n - 1]
           d == depth[n - 1]
<1>1. /\ before \in Seq(S) /\ d \in Nat /\ Len(before) = d
      /\ \A l \in 1 .. d : \E i \in 1 .. n - 1 : Leads(walk, depth, i, l, n - 1) /\ before[l] = walk[i]
  BY DEF Standing
<1>2. /\ stack[n] = Paths!Step(before, walk[n], Paths!IsAbsolute(walk))
      /\ depth[n] = Paths!Deeper(d, walk[n], Paths!IsAbsolute(walk))
  BY DEF AreStacks, AreDepths
<1>3. walk[n] \in S
  OBVIOUS
<1> HIDE DEF S, before, d
<1>4. ASSUME NEW l, NEW i, Leads(walk, depth, i, l, n - 1), depth[n] >= l
      PROVE  i \in 1 .. n /\ Leads(walk, depth, i, l, n)
  <2>1. /\ i \in 1 .. n - 1 /\ Paths!Down(walk[i]) = 1 /\ depth[i] = l
        /\ \A k \in i .. n - 1 : depth[k] >= l
    BY <1>4 DEF Leads
  <2>2. \A k \in i .. n : k = n \/ k \in i .. n - 1
    BY <2>1
  <2>3. \A k \in i .. n : depth[k] >= l
    BY <1>4, <2>1, <2>2
  <2> QED BY <2>1, <2>3 DEF Leads
<1>5. CASE Stays(walk[n])
  <2>1. stack[n] = before /\ depth[n] = d
    <3> QED BY <1>1, <1>2, <1>5, StayingSegments
  <2>2. ASSUME NEW l \in 1 .. d
        PROVE  \E i \in 1 .. n : Leads(walk, depth, i, l, n) /\ before[l] = walk[i]
    <3>1. PICK i \in 1 .. n - 1 : Leads(walk, depth, i, l, n - 1) /\ before[l] = walk[i]
      BY <1>1
    <3>2. depth[n] >= l
      BY <1>1, <2>1
    <3> QED BY <1>4, <3>1, <3>2
  <2> QED BY <1>1, <2>1, <2>2 DEF Standing, S
<1>6. CASE walk[n] = Up /\ Paths!IsAbsolute(walk) /\ d = 0
  <2>1. stack[n] = before /\ depth[n] = d
    <3>1. before = <<>> /\ d \in Int
      BY <1>1, <1>6
    <3>2. Paths!Step(before, Up, Paths!IsAbsolute(walk)) = before
      BY <1>6, <3>1, UpSegments, Zenon
    <3>3. Paths!Deeper(d, Up, Paths!IsAbsolute(walk)) = d
      BY <1>6, <3>1, UpSegments, Zenon
    <3> QED BY <1>2, <1>6, <3>2, <3>3
  <2>2. \A l \in 1 .. d : FALSE
    BY <1>6
  <2> QED BY <1>1, <2>1, <2>2 DEF Standing, S
<1>8. CASE walk[n] = Up /\ ~(Paths!IsAbsolute(walk) /\ d = 0)
  <2>1. depth[n] = d - 1 /\ d >= 1
    <3>0. d \in Int
      BY <1>1
    <3>1. Paths!Deeper(d, Up, Paths!IsAbsolute(walk)) = d - 1
      BY <1>8, <3>0, UpSegments, Zenon
    <3> QED BY <1>1, <1>2, <1>8, <3>1
  <2>2. Paths!Last(before) # Up /\ before # <<>>
    <3>1. PICK i \in 1 .. n - 1 : Leads(walk, depth, i, d, n - 1) /\ before[d] = walk[i]
      BY <1>1, <2>1
    <3>2. IsName(walk[i])
      BY <3>1, DownOfNames DEF Leads
    <3>3. Paths!Last(before) = walk[i]
      BY <1>1, <3>1 DEF Paths!Last
    <3> QED BY <1>1, <2>1, <3>2, <3>3 DEF IsName
  <2>3. stack[n] = SubSeq(before, 1, d - 1)
    <3>1. Paths!Step(before, walk[n], Paths!IsAbsolute(walk)) = Paths!Front(before)
      BY <1>1, <1>8, <2>2, UpSegments
    <3> QED BY <1>1, <1>2, <3>1 DEF Paths!Front
  <2>4. /\ stack[n] \in Seq(S) /\ Len(stack[n]) = d - 1
        /\ \A l \in 1 .. d - 1 : stack[n][l] = before[l]
    BY <1>1, <2>1, <2>3
  <2>5. ASSUME NEW l \in 1 .. d - 1
        PROVE  \E i \in 1 .. n : Leads(walk, depth, i, l, n) /\ before[l] = walk[i]
    <3>1. l \in 1 .. d
      BY <1>1
    <3>2. PICK i \in 1 .. n - 1 : Leads(walk, depth, i, l, n - 1) /\ before[l] = walk[i]
      BY <1>1, <3>1
    <3>3. depth[n] >= l
      BY <1>1, <2>1
    <3> QED BY <1>4, <3>2, <3>3
  <2>6. depth[n] \in Nat
    BY <2>1, <1>1
  <2> QED BY <2>1, <2>4, <2>5, <2>6 DEF Standing, S
<1>7. CASE IsName(walk[n])
  <2>1. Paths!Down(walk[n]) = 1
    BY <1>1, <1>7, NamingSegments
  <2>2. depth[n] = d + 1 /\ stack[n] = Append(before, walk[n])
    <3>1. d \in Int
      BY <1>1
    <3>2. Paths!Deeper(d, walk[n], Paths!IsAbsolute(walk)) = d + 1
      BY <1>7, <3>1, NamingSegments, Zenon
    <3>3. Paths!Step(before, walk[n], Paths!IsAbsolute(walk)) = Append(before, walk[n])
      BY <1>7, NamingSegments, Zenon
    <3> QED BY <1>2, <3>2, <3>3
  <2>3. /\ stack[n] \in Seq(S) /\ Len(stack[n]) = d + 1 /\ stack[n][d + 1] = walk[n]
        /\ \A l \in 1 .. d : stack[n][l] = before[l]
    BY <1>1, <1>3, <2>2, AppendProperties
  <2>4. ASSUME NEW l \in 1 .. d + 1
        PROVE  \E i \in 1 .. n : Leads(walk, depth, i, l, n) /\ stack[n][l] = walk[i]
    <3>1. CASE l = d + 1
      <4>1. \A k \in n .. n : k = n
        OBVIOUS
      <4>2. Leads(walk, depth, n, l, n)
        BY <1>1, <2>1, <2>2, <3>1, <4>1 DEF Leads
      <4> QED BY <2>3, <3>1, <4>2
    <3>2. CASE l # d + 1
      <4>1. l \in 1 .. d /\ depth[n] >= l
        BY <1>1, <2>2, <3>2
      <4>2. PICK i \in 1 .. n - 1 : Leads(walk, depth, i, l, n - 1) /\ before[l] = walk[i]
        BY <1>1, <4>1
      <4> QED BY <1>4, <2>3, <4>1, <4>2
    <3> QED BY <3>1, <3>2
  <2>5. depth[n] \in Nat
    BY <1>1, <2>2
  <2> QED BY <2>2, <2>3, <2>4, <2>5 DEF Standing, S
<1> QED BY <1>5, <1>6, <1>7, <1>8 DEF IsName

(* As long as no step has left the repository, names stand where they led. *)
LEMMA InsideNamesStand ==
  ASSUME NEW walk, Len(walk) \in Nat, NEW stack, AreStacks(stack, walk),
         NEW depth, AreDepths(depth, walk), NEW m \in 0 .. Len(walk),
         \A k \in 0 .. m : depth[k] >= 0
  PROVE  Standing(walk, stack, depth, m)
<1> DEFINE wrong == {n \in 0 .. m : ~Standing(walk, stack, depth, n)}
<1> SUFFICES ASSUME wrong # {} PROVE FALSE
  OBVIOUS
<1>1. wrong \subseteq Nat
  OBVIOUS
<1>2. PICK n \in wrong : \A k \in wrong : n <= k
  BY <1>1, LeastNumber
<1>3. n # 0
  <2>1. stack[0] = <<>> /\ depth[0] = 0
    BY DEF AreStacks, AreDepths
  <2>2. Standing(walk, stack, depth, 0)
    BY <2>1 DEF Standing
  <2> QED BY <2>2
<1>4. n \in 1 .. Len(walk) /\ n - 1 \in 0 .. m /\ ~(n <= n - 1) /\ n \in 0 .. m
  BY <1>3
<1>5. Standing(walk, stack, depth, n - 1)
  BY <1>2, <1>4
<1>6. depth[n] \in Int /\ depth[n] >= 0
  <2>1. n \in 0 .. Len(walk)
    BY <1>4
  <2> QED BY <1>4, <2>1, DepthsAreIntegers
<1>7. ~Standing(walk, stack, depth, n)
  OBVIOUS
<1> HIDE DEF wrong
<1> QED BY <1>4, <1>5, <1>6, <1>7, SegmentsAreTakenInside

(* A walk that has left the repository has not come back: the way out is   *)
(* at the bottom of its stack.                                             *)
IsOut(walk, top) ==
  top \in Seq({walk[i] : i \in 1 .. Len(walk)}) /\ Len(top) >= 1 /\ top[1] = Up

LEMMA OutsideIsKept ==
  ASSUME NEW walk, Len(walk) \in Nat, NEW n \in 1 .. Len(walk), NEW top, IsOut(walk, top),
         ~Paths!IsAbsolute(walk)
  PROVE  IsOut(walk, Paths!Step(top, walk[n], Paths!IsAbsolute(walk)))
<1> DEFINE S == {walk[i] : i \in 1 .. Len(walk)}
<1>1. top \in Seq(S) /\ Len(top) \in Nat /\ Len(top) >= 1 /\ top[1] = Up /\ walk[n] \in S
  BY DEF IsOut
<1> HIDE DEF S
<1>2. ASSUME NEW next, next = Append(top, walk[n]) PROVE IsOut(walk, next)
  <2>1. /\ next \in Seq(S) /\ Len(next) = Len(top) + 1
        /\ \A i \in 1 .. Len(top) : next[i] = top[i]
    BY <1>1, <1>2, AppendProperties
  <2>2. next[1] = Up /\ Len(next) >= 1
    BY <1>1, <2>1
  <2> QED BY <2>1, <2>2 DEF IsOut, S
<1>3. CASE Stays(walk[n])
  BY <1>3, StayingSegments
<1>4. CASE IsName(walk[n])
  BY <1>2, <1>4, NamingSegments
<1>5. CASE walk[n] = Up
  <2>1. top # <<>>
    BY <1>1
  <2>2. CASE Paths!Last(top) = Up
    BY <1>2, <1>5, <2>2, UpSegments
  <2>3. CASE Paths!Last(top) # Up
    <3>1. Len(top) # 1
      BY <1>1, <2>3 DEF Paths!Last
    <3>2. Paths!Step(top, walk[n], Paths!IsAbsolute(walk)) = SubSeq(top, 1, Len(top) - 1)
      BY <1>5, <2>1, <2>3, UpSegments DEF Paths!Front
    <3> DEFINE next == SubSeq(top, 1, Len(top) - 1)
    <3>3. PICK d : d = Len(top)
      OBVIOUS
    <3> d \in Nat /\ d >= 2
      BY <1>1, <3>1, <3>3
    <3>4. next = SubSeq(top, 1, d - 1)
      BY <3>3
    <3> HIDE DEF next
    <3>5. next \in Seq(S) /\ Len(next) = d - 1 /\ \A i \in 1 .. d - 1 : next[i] = top[i]
      BY <1>1, <3>3, <3>4
    <3>6. next[1] = top[1] /\ Len(next) >= 1
      BY <3>3, <3>5
    <3>7. IsOut(walk, next)
      BY <1>1, <3>5, <3>6 DEF IsOut, S
    <3> QED BY <3>2, <3>7 DEF next
  <2> QED BY <2>2, <2>3
<1> QED BY <1>3, <1>4, <1>5 DEF IsName

LEMMA OutsideIsOut ==
  ASSUME NEW walk, Len(walk) \in Nat, NEW stack, AreStacks(stack, walk),
         NEW depth, AreDepths(depth, walk), NEW m \in 0 .. Len(walk), depth[m] < 0
  PROVE  IsOut(walk, stack[Len(walk)]) /\ ~Paths!IsAbsolute(walk)
<1> DEFINE below == {n \in 0 .. Len(walk) : depth[n] < 0}
<1>1. below \subseteq Nat /\ below # {}
  OBVIOUS
<1>2. PICK first \in below : \A k \in below : first <= k
  BY <1>1, LeastNumber
<1>3. \A n \in 0 .. Len(walk) : depth[n] \in Int
  BY DepthsAreIntegers
<1>4. first \in 0 .. Len(walk) /\ depth[first] < 0
  OBVIOUS
<1>5. first # 0
  BY <1>4 DEF AreDepths
<1>6. first \in 1 .. Len(walk) /\ first - 1 \in 0 .. Len(walk)
  BY <1>4, <1>5
<1>7. \A k \in 0 .. first - 1 : depth[k] >= 0
  <2> SUFFICES ASSUME NEW k \in 0 .. first - 1 PROVE depth[k] >= 0
    OBVIOUS
  <2>1. k \in 0 .. Len(walk) /\ ~(first <= k)
    BY <1>6
  <2>2. ~(depth[k] < 0)
    BY <1>2, <2>1
  <2> QED BY <1>3, <2>1, <2>2
<1> HIDE DEF below
<1>8. Standing(walk, stack, depth, first - 1)
  BY <1>6, <1>7, InsideNamesStand
<1>9. IsOut(walk, stack[first]) /\ ~Paths!IsAbsolute(walk)
  <2>1. depth[first] = Paths!Deeper(depth[first - 1], walk[first], Paths!IsAbsolute(walk))
        /\ stack[first] = Paths!Step(stack[first - 1], walk[first], Paths!IsAbsolute(walk))
    BY <1>6 DEF AreDepths, AreStacks
  <2>2. /\ depth[first - 1] \in Nat /\ Len(stack[first - 1]) = depth[first - 1]
        /\ stack[first - 1] \in Seq({walk[i] : i \in 1 .. Len(walk)})
    BY <1>8 DEF Standing
  <2>3. ~Stays(walk[first]) /\ ~IsName(walk[first])
    <3>1. ~Stays(walk[first])
      <4>1. SUFFICES ASSUME Stays(walk[first]) PROVE FALSE
        OBVIOUS
      <4>2. depth[first] = depth[first - 1]
        BY <2>1, <2>2, <4>1, StayingSegments
      <4> QED BY <1>4, <2>2, <4>2
    <3>2. ~IsName(walk[first])
      <4>1. SUFFICES ASSUME IsName(walk[first]) PROVE FALSE
        OBVIOUS
      <4>2. depth[first] = depth[first - 1] + 1
        <5>1. depth[first - 1] \in Int
          BY <2>2
        <5>2. Paths!Deeper(depth[first - 1], walk[first], Paths!IsAbsolute(walk))
                = depth[first - 1] + 1
          BY <4>1, <5>1, NamingSegments, Zenon
        <5> QED BY <2>1, <5>2
      <4> QED BY <1>4, <2>2, <4>2
    <3> QED BY <3>1, <3>2
  <2>4. walk[first] = Up
    BY <2>3 DEF IsName
  <2>5. IF Paths!IsAbsolute(walk) /\ depth[first - 1] = 0
        THEN depth[first] = depth[first - 1] ELSE depth[first] = depth[first - 1] - 1
    BY <2>1, <2>2, <2>4, UpSegments
  <2>6. depth[first - 1] = 0 /\ ~Paths!IsAbsolute(walk)
    BY <1>4, <2>2, <2>5
  <2>7. stack[first - 1] = <<>>
    BY <2>2, <2>6
  <2>8. stack[first] = Append(<<>>, Up)
    BY <2>1, <2>2, <2>4, <2>6, <2>7, UpSegments
  <2>9. Up \in {walk[i] : i \in 1 .. Len(walk)}
    BY <1>6, <2>4
  <2> HIDE DEF Up
  <2>10. /\ stack[first] \in Seq({walk[i] : i \in 1 .. Len(walk)})
         /\ Len(stack[first]) = 1 /\ stack[first][1] = Up
    BY <2>8, <2>9
  <2> QED BY <2>6, <2>10 DEF IsOut
<1> DEFINE wrong == {n \in first .. Len(walk) : ~IsOut(walk, stack[n])}
<1>10. wrong = {}
  <2> SUFFICES ASSUME wrong # {} PROVE FALSE
    OBVIOUS
  <2>1. wrong \subseteq Nat
    BY <1>6
  <2>2. PICK n \in wrong : \A k \in wrong : n <= k
    BY <2>1, LeastNumber
  <2>3. n # first
    BY <1>9
  <2>4. n \in 1 .. Len(walk) /\ n - 1 \in first .. Len(walk) /\ ~(n <= n - 1)
    BY <1>6, <2>3
  <2>5. IsOut(walk, stack[n - 1]) /\ ~IsOut(walk, stack[n])
    BY <2>2, <2>4
  <2>6. stack[n] = Paths!Step(stack[n - 1], walk[n], Paths!IsAbsolute(walk))
    BY <2>4 DEF AreStacks
  <2> HIDE DEF wrong
  <2> QED BY <1>9, <2>4, <2>5, <2>6, OutsideIsKept
<1>11. Len(walk) \in first .. Len(walk)
  BY <1>6
<1> QED BY <1>9, <1>10, <1>11

(* The names of the walk are what stands at its end.                       *)
LEMMA StandingNames ==
  ASSUME NEW walk, Len(walk) \in Nat, DOMAIN walk = 1 .. Len(walk),
         NEW stack, NEW depth, AreDepths(depth, walk), Standing(walk, stack, depth, Len(walk))
  PROVE  stack[Len(walk)] = Paths!Names(walk, depth)
<1> DEFINE N == Len(walk)
           top == stack[N]
           d == depth[N]
           LeadsTo(l, n) == /\ Paths!Down(walk[n]) = 1 /\ depth[n] = l
                            /\ \A k \in n .. N : depth[k] >= l
<1>1. /\ top \in Seq({walk[i] : i \in 1 .. N}) /\ d \in Nat /\ Len(top) = d
      /\ \A l \in 1 .. d : \E i \in 1 .. N : Leads(walk, depth, i, l, N) /\ top[l] = walk[i]
  BY DEF Standing
<1>2. top = [l \in 1 .. d |-> top[l]]
  <2> HIDE DEF top
  <2> QED BY <1>1
<1>3. ASSUME NEW l \in 1 .. d
      PROVE  top[l] = walk[CHOOSE n \in DOMAIN walk : LeadsTo(l, n)]
  <2>1. PICK i \in 1 .. N : Leads(walk, depth, i, l, N) /\ top[l] = walk[i]
    BY <1>1
  <2>2. i \in DOMAIN walk /\ LeadsTo(l, i)
    BY <2>1 DEF Leads
  <2> DEFINE chosen == CHOOSE n \in DOMAIN walk : LeadsTo(l, n)
  <2>3. chosen \in DOMAIN walk /\ LeadsTo(l, chosen)
    <3> HIDE DEF LeadsTo
    <3> QED BY <2>2
  <2>4. ASSUME NEW a \in 1 .. N, NEW b \in 1 .. N, LeadsTo(l, a), LeadsTo(l, b), a < b
        PROVE  FALSE
    <3>1. b - 1 \in a .. N /\ b - 1 \in 0 .. N
      BY <2>4
    <3>2. depth[b - 1] >= l
      BY <2>4, <3>1
    <3>3. depth[b] = depth[b - 1] + 1 /\ depth[b] = l
      <4>1. depth[b - 1] \in Int
        BY <3>1, DepthsAreIntegers
      <4>2. IsName(walk[b])
        BY <2>4, DownOfNames
      <4>3. depth[b] = Paths!Deeper(depth[b - 1], walk[b], Paths!IsAbsolute(walk))
        BY DEF AreDepths
      <4> QED BY <2>4, <4>1, <4>2, <4>3, NamingSegments
    <3>4. depth[b - 1] \in Int
      BY <3>1, DepthsAreIntegers
    <3> QED BY <3>2, <3>3, <3>4
  <2>5. chosen \in 1 .. N /\ LeadsTo(l, chosen)
    BY <2>3
  <2> HIDE DEF chosen
  <2>6. ~(chosen < i) /\ ~(i < chosen)
    <3> HIDE DEF LeadsTo
    <3> QED BY <2>2, <2>4, <2>5
  <2>7. chosen = i
    BY <2>5, <2>6
  <2> QED BY <2>1, <2>7 DEF chosen
<1>4. Paths!Names(walk, depth) = [l \in 1 .. d |-> walk[CHOOSE n \in DOMAIN walk : LeadsTo(l, n)]]
  BY DEF Paths!Names
<1> HIDE DEF LeadsTo, d, top
<1>5. [l \in 1 .. d |-> top[l]] = [l \in 1 .. d |-> walk[CHOOSE n \in DOMAIN walk : LeadsTo(l, n)]]
  BY <1>3
<1> QED BY <1>2, <1>4, <1>5 DEF top

(* How what is left of a walk is written: the dot stands for the root, an  *)
(* empty segment before and after for the slashes.                         *)
Here == "."
Empty == ""

LEMMA FirstSegments ==
  ASSUME NEW S, NEW names \in Seq(S), NEW segments
  PROVE  LET path == Paths!Written(names, segments)
         IN  /\ Paths!IsAbsolute(segments) => path[1] = Empty
             /\ ~Paths!IsAbsolute(segments) /\ names # <<>> => path[1] = names[1]
             /\ ~Paths!IsAbsolute(segments) /\ names = <<>> =>
                  /\ path[1] = Here
                  /\ path = <<Here>> <=> ~Paths!EndsInSlash(segments)
<1> DEFINE start == IF Paths!IsAbsolute(segments) THEN <<Empty>> ELSE <<>>
           end == IF Paths!EndsInSlash(segments) THEN <<Empty>> ELSE <<>>
           path == Paths!Written(names, segments)
           T == S \cup {Empty, Here}
<1>1. path = IF names # <<>> THEN start \o names \o end
             ELSE IF Paths!IsAbsolute(segments) THEN <<Empty, Empty>> ELSE <<Here>> \o end
  BY Zenon DEF Paths!Written, Empty, Here
<1>2. names \in Seq(T) /\ start \in Seq(T) /\ end \in Seq(T) /\ <<Here>> \in Seq(T)
  OBVIOUS
<1>3. Paths!IsAbsolute(segments) => Len(start) = 1 /\ start[1] = Empty
  OBVIOUS
<1>4. ~Paths!IsAbsolute(segments) => start = <<>>
  OBVIOUS
<1>5. IF Paths!EndsInSlash(segments) THEN Len(end) = 1 ELSE end = <<>>
  OBVIOUS
<1> HIDE DEF start, end, path, T
<1>6. CASE names # <<>>
  <2>1. /\ start \o names \in Seq(T)
        /\ Len(start \o names) = Len(start) + Len(names)
        /\ Len(start) \in Nat /\ Len(names) \in Nat \ {0}
    BY <1>2, <1>6, ConcatProperties
  <2>2. path = (start \o names) \o end
    BY <1>1, <1>6
  <2>3. path[1] = (start \o names)[1]
    BY <1>2, <2>1, <2>2, ConcatProperties
  <2>4. CASE Paths!IsAbsolute(segments)
    <3>1. (start \o names)[1] = start[1]
      BY <1>2, <1>3, <2>1, <2>4, ConcatProperties
    <3> QED BY <1>3, <1>6, <2>3, <2>4, <3>1 DEF path
  <2>5. CASE ~Paths!IsAbsolute(segments)
    <3>1. start \o names = names
      BY <1>2, <1>4, <2>5
    <3> QED BY <1>6, <2>3, <2>5, <3>1 DEF path
  <2> QED BY <2>4, <2>5
<1>7. CASE names = <<>> /\ Paths!IsAbsolute(segments)
  <2>1. path = <<Empty, Empty>>
    BY <1>1, <1>7
  <2> QED BY <1>7, <2>1 DEF path
<1>8. CASE names = <<>> /\ ~Paths!IsAbsolute(segments)
  <2>1. path = <<Here>> \o end
    BY <1>1, <1>8
  <2>2. Len(path) = 1 + Len(end) /\ path[1] = Here
    BY <1>2, <2>1, ConcatProperties
  <2>3. end = <<>> => path = <<Here>>
    BY <2>1
  <2>4. path = <<Here>> <=> ~Paths!EndsInSlash(segments)
    <3>1. CASE Paths!EndsInSlash(segments)
      <4>1. Len(path) = 2
        <5>1. Len(end) = 1
          BY <1>5, <3>1, Zenon
        <5> QED BY <2>2, <5>1
      <4>2. Len(<<Here>>) = 1
        OBVIOUS
      <4> QED BY <3>1, <4>1, <4>2
    <3>2. CASE ~Paths!EndsInSlash(segments)
      BY <1>5, <2>3, <3>2
    <3> QED BY <3>1, <3>2
  <2> QED BY <1>8, <2>2, <2>4 DEF path
<1> QED BY <1>6, <1>7, <1>8

LEMMA WalksAreSequences ==
  ASSUME input \in PathInputs, input.kind = "link"
  PROVE  /\ Len(Paths!Walk(input)) \in Nat
         /\ DOMAIN Paths!Walk(input) = 1 .. Len(Paths!Walk(input))
         /\ Paths!IsAbsolute(Paths!Walk(input)) <=> Paths!IsAbsolute(input.target.segments)
<1> DEFINE document == input.document
           segments == input.target.segments
           S == Paths!ToSet(document) \cup Paths!ToSet(segments)
           from == IF input.target.rooted THEN <<>> ELSE Paths!Front(document)
<1>0. /\ Paths!IsList(document) /\ document # <<>> /\ Empty \notin Paths!ToSet(document)
      /\ Paths!IsList(segments)
      /\ input.target.rooted \/ (segments # <<>> /\ segments[1] # Empty)
  BY ConstantsAreSound, Zenon DEF ConstantsAreSound, Paths!InputsArePaths, Empty
<1>1. /\ document \in Seq(Paths!ToSet(document)) /\ document # <<>>
      /\ segments \in Seq(Paths!ToSet(segments))
  BY <1>0 DEF Paths!IsList
<1>6. /\ Empty \notin Paths!ToSet(document)
      /\ input.target.rooted \/ (segments # <<>> /\ segments[1] # Empty)
  BY <1>0
<1>7. document[1] # Empty
  <2>1. 1 \in DOMAIN document
    <3> HIDE DEF document
    <3> QED BY <1>1
  <2> QED BY <1>6, <2>1 DEF Paths!ToSet
<1>2. segments \in Seq(S) /\ document \in Seq(S)
  <2> HIDE DEF document, segments
  <2> QED BY <1>1
<1>3. Paths!Walk(input) = from \o segments
  BY DEF Paths!Walk
<1>4. from \in Seq(S)
  <2>1. Len(document) \in Nat /\ Len(document) >= 1
    <3> HIDE DEF document
    <3> QED BY <1>1
  <2> HIDE DEF document, S
  <2>2. SubSeq(document, 1, Len(document) - 1) \in Seq(S)
    BY <1>2, <2>1
  <2> QED BY <2>2 DEF Paths!Front
<1>8. from = <<>> \/ (~input.target.rooted /\ from[1] = document[1])
  <2>1. SUFFICES ASSUME ~input.target.rooted, Paths!Front(document) # <<>>
                 PROVE  Paths!Front(document)[1] = document[1]
    OBVIOUS
  <2> HIDE DEF document
  <2>2. Paths!Front(document) = SubSeq(document, 1, Len(document) - 1) /\ Len(document) \in Nat
    BY <1>1 DEF Paths!Front
  <2>3. PICK d \in Nat : d = Len(document)
    BY <2>2
  <2>4. d >= 2
    BY <1>1, <2>1, <2>2, <2>3
  <2> QED BY <1>1, <2>2, <2>3, <2>4
<1> HIDE DEF from, segments, S, document
<1>5. from \o segments \in Seq(S)
  BY <1>2, <1>4, ConcatProperties
<1>9. Paths!IsAbsolute(from \o segments) <=> Paths!IsAbsolute(segments)
  <2>1. \A s : Paths!IsAbsolute(s) <=> s # <<>> /\ s[1] = Empty
    BY Zenon DEF Paths!IsAbsolute, Empty
  <2>2. CASE from = <<>>
    <3>1. from \o segments = segments
      BY <1>2, <2>2
    <3> QED BY <3>1
  <2>3. CASE from # <<>>
    <3>1. from[1] # Empty /\ segments # <<>> /\ segments[1] # Empty
      BY <1>6, <1>7, <1>8, <2>3
    <3>2. (from \o segments)[1] = from[1]
      BY <1>2, <1>4, <2>3, ConcatProperties
    <3> QED BY <2>1, <3>1, <3>2
  <2> QED BY <2>2, <2>3
<1>10. Paths!IsAbsolute(segments) <=> Paths!IsAbsolute(input.target.segments)
  BY DEF segments
<1> QED BY <1>3, <1>5, <1>9, <1>10

(* Links lead where a reader walks.                                        *)
LEMMA LinksLead ==
  ASSUME input \in PathInputs
  PROVE  Paths!LinksLeadWhereTheyWalk
<1> SUFFICES ASSUME input.kind = "link" PROVE Paths!LinksLeadWhereTheyWalk
  BY Zenon DEF Paths!LinksLeadWhereTheyWalk
<1> DEFINE walk == Paths!Walk(input)
           N == Len(walk)
           stack == Paths!Stacks(walk)
           depth == Paths!Depths(walk)
           top == stack[N]
           path == Paths!Normalized(walk)
           abs == Paths!IsAbsolute(walk)
           ends == Paths!EndsInSlash(walk)
           leaves == \E n \in 0 .. N : depth[n] < 0
           isRoot == depth[N] = 0 /\ ~abs /\ ~ends
           found == Paths!Resolved(input.document, input.target)
           names == Paths!Names(walk, depth)
<1>1. /\ N \in Nat /\ DOMAIN walk = 1 .. N
      /\ abs <=> Paths!IsAbsolute(input.target.segments)
  BY WalksAreSequences
<1>2. AreStacks(stack, walk) /\ AreDepths(depth, walk)
  BY <1>1, StacksAre, DepthsAre
<1>3. path = Paths!Written(top, walk)
  BY DEF Paths!Normalized
<1>4. found = IF path = <<Here>> \/ path[1] = Up THEN None ELSE path
  BY Zenon DEF Paths!Resolved, Paths!Walk, Here, Up
<1>5. /\ found = IF leaves \/ isRoot THEN None ELSE Paths!Written(names, walk)
      /\ found # None => (found[1] = Empty <=> abs)
      => Paths!LinksLeadWhereTheyWalk
  BY <1>1, Zenon DEF Paths!LinksLeadWhereTheyWalk, Empty
<1>6. Here # Up /\ Here # Empty /\ Up # Empty
  BY Zenon DEF Here, Up, Empty
<1>7. ~IsName(Here) /\ ~IsName(Up) /\ ~IsName(Empty)
  BY Zenon DEF IsName, Stays, Here, Up, Empty
<1>8. CASE leaves
  <2>1. PICK m \in 0 .. N : depth[m] < 0
    BY <1>8
  <2>2. IsOut(walk, top) /\ ~abs
    <3> HIDE DEF walk, stack, depth
    <3> QED BY <1>1, <1>2, <2>1, OutsideIsOut
  <2> HIDE DEF top, walk, path
  <2>3. top \in Seq({walk[i] : i \in 1 .. N}) /\ Len(top) >= 1 /\ top[1] = Up
    BY <2>2 DEF IsOut
  <2>4. top # <<>>
    BY <2>3
  <2>5. path[1] = Up
    <3> HIDE DEF N
    <3> QED BY <1>3, <2>2, <2>3, <2>4, FirstSegments
  <2> HIDE DEF found, leaves, abs, isRoot, names
  <2> QED BY <1>4, <1>5, <1>8, <2>5
<1>9. CASE ~leaves
  <2>1. Standing(walk, stack, depth, N)
    <3> HIDE DEF walk, stack, depth
    <3>1. \A n \in 0 .. N : depth[n] >= 0
      <4>1. \A n \in 0 .. N : depth[n] \in Int
        BY <1>1, <1>2, DepthsAreIntegers
      <4> QED BY <1>9, <4>1
    <3>2. N \in 0 .. N
      BY <1>1
    <3> QED BY <1>1, <1>2, <3>1, <3>2, InsideNamesStand
  <2>2. /\ top \in Seq({walk[i] : i \in 1 .. N}) /\ depth[N] \in Nat /\ Len(top) = depth[N]
        /\ \A l \in 1 .. depth[N] :
             \E i \in 1 .. N : Leads(walk, depth, i, l, N) /\ top[l] = walk[i]
    BY <2>1 DEF Standing
  <2>3. top = names
    <3> HIDE DEF walk, stack, depth
    <3> QED BY <1>1, <1>2, <2>1, StandingNames
  <2>4. /\ abs => path[1] = Empty
        /\ ~abs /\ top # <<>> => path[1] = top[1]
        /\ ~abs /\ top = <<>> => path[1] = Here /\ (path = <<Here>> <=> ~ends)
    <3> HIDE DEF top, walk, path, N
    <3> QED BY <1>3, <2>2, FirstSegments
  <2> HIDE DEF top, walk, path, stack, depth, found, leaves, N, abs, ends, names
  <2>5. top = <<>> <=> depth[N] = 0
    BY <2>2
  <2>6. CASE isRoot
    <3>1. path = <<Here>>
      BY <2>4, <2>5, <2>6
    <3>2. found = None
      BY <1>4, <3>1
    <3> QED BY <1>5, <2>6, <3>2
  <2>7. CASE ~isRoot
    <3>1. ~abs /\ top # <<>> => IsName(top[1])
      <4> SUFFICES ASSUME top # <<>> PROVE IsName(top[1])
        OBVIOUS
      <4>1. 1 \in 1 .. depth[N]
        BY <2>2, <2>5
      <4>2. PICK i \in 1 .. N : Leads(walk, depth, i, 1, N) /\ top[1] = walk[i]
        BY <2>2, <4>1
      <4> QED BY <4>2, DownOfNames DEF Leads
    <3>2. path[1] # Up /\ path # <<Here>> /\ (path[1] = Empty <=> abs)
      <4>1. path = <<Here>> => path[1] = Here
        OBVIOUS
      <4>2. CASE abs
        BY <1>6, <2>4, <4>1, <4>2
      <4>3. CASE ~abs /\ top # <<>>
        BY <1>7, <2>4, <3>1, <4>1, <4>3
      <4>4. CASE ~abs /\ top = <<>>
        BY <1>6, <2>4, <2>5, <2>7, <4>4
      <4> QED BY <4>2, <4>3, <4>4
    <3>3. found = path
      BY <1>4, <3>2
    <3> QED BY <1>3, <1>5, <1>9, <2>3, <2>7, <3>2, <3>3
  <2> QED BY <2>6, <2>7
<1> QED BY <1>8, <1>9

-----------------------------------------------------------------------------
(***************************************************************************)
(* The composition.                                                        *)
(***************************************************************************)
EvidenceInv ==
  /\ part = "content" => ContentInv
  /\ part = "paths" => input \in PathInputs
  /\ part = "documents" => input \in DocumentInputs /\ criterion \in Documents!Criteria
  /\ part = "references" => input \in ReferenceInputs
  /\ part = "duplicates" => input \in DuplicateInputs
  /\ part = "boundaries" => input \in BoundaryInputs

LEMMA EvidenceInvHolds == Spec => []EvidenceInv
<1>1. Init => EvidenceInv
  BY ContentStarts
     DEF Init, EvidenceInv, Paths!Init, Documents!Init, References!Init, Duplicates!Init, Boundaries!Init
<1>2. EvidenceInv /\ [Next]_vars => EvidenceInv'
  <2> SUFFICES ASSUME EvidenceInv, [Next]_vars PROVE EvidenceInv'
    OBVIOUS
  <2>1. CASE part = "content" /\ Content!Next /\ UNCHANGED <<part, input, criterion>>
    <3>1. ContentInv'
      <4>1. CASE Content!TakeSegment
        BY <2>1, <4>1, SegmentsAreTaken DEF EvidenceInv
      <4>2. CASE Content!Done
        <5>1. UNCHANGED contentVars
          BY <4>2 DEF Content!Done, Content!vars, contentVars
        <5> QED BY <2>1, <5>1 DEF EvidenceInv, ContentInv, contentVars, Kind, Content!Kind,
                                  Content!BudgetIsExact
      <4> QED BY <2>1, <4>1, <4>2 DEF Content!Next
    <3> QED BY <2>1, <3>1 DEF EvidenceInv
  <2>2. CASE UNCHANGED vars
    BY <2>2 DEF vars, contentVars, EvidenceInv, ContentInv, Kind, Content!Kind,
                Content!BudgetIsExact
  <2> QED BY <2>1, <2>2 DEF Next
<1> QED BY <1>1, <1>2, PTL DEF Spec

(* Content facts, for any files, segment sizes and limits: every line of   *)
(* text is in exactly one chunk, chunks lie within their file and stay     *)
(* with their heading, and the budget is neither overdrawn nor refused     *)
(* early.                                                                  *)
THEOREM ChunksFollowTheFile == Spec => []ChunksAreFaithful
<1>1. EvidenceInv => ChunksAreFaithful
  <2> SUFFICES ASSUME ContentInv
               PROVE  /\ Content!ChunksPartitionTheText
                      /\ Content!ChunksFitTheFile
                      /\ Content!HeadingStaysWithItsText
                      /\ Content!BudgetIsExact
                      /\ Content!OnlyCodeIsCode
    BY DEF EvidenceInv, ChunksAreFaithful
  <2>1. file \in ContentInputs /\ Content!BudgetIsExact
    BY DEF ContentInv
  <2> QED BY <2>1, TextIsPartitioned, FileIsNotLeft, HeadingsStay, CodeIsCode
<1> QED BY <1>1, EvidenceInvHolds, PTL

(* Globs and links, for any paths, patterns and targets: a glob matches    *)
(* exactly when the path can be cut into its elements, whatever order the  *)
(* stars are tried in, and a link resolves to the place its steps lead to, *)
(* and to none when a step leaves the repository.                          *)
THEOREM PathsLead == Spec => []PathsLeadWhereTheySay
<1>1. EvidenceInv => PathsLeadWhereTheySay
  <2> SUFFICES ASSUME input \in PathInputs
               PROVE  Paths!GlobIsItsLanguage /\ Paths!LinksLeadWhereTheyWalk
    BY DEF EvidenceInv, PathsLeadWhereTheySay
  <2>1. ASSUME input.kind = "glob"
        PROVE  /\ Paths!IsList(input.path) /\ Paths!IsList(input.glob)
               /\ \A s \in Paths!ToSet(input.path) \cup Paths!ToSet(input.glob) : Paths!IsList(s)
    BY <2>1, ConstantsAreSound DEF Paths!InputsArePaths
  <2>2. Paths!GlobIsItsLanguage
    BY <2>1, GlobsAreLanguages DEF Paths!GlobIsItsLanguage
  <2> QED BY <2>2, LinksLead
<1> QED BY <1>1, EvidenceInvHolds, PTL

(* Conflicts of documents, for any documents, order of precedence and      *)
(* words: the order of the listing is forgotten, a stale document is the   *)
(* weaker side of a contradiction and the stronger has an owner, an id     *)
(* names its places, and cutting a document loses conflicts only.          *)
THEOREM ConflictsAreTrue == Spec => []ConflictsAreOfTheDocuments
<1>1. EvidenceInv => ConflictsAreOfTheDocuments
  BY ListingOrderIsForgotten, StaleIsWeaker, OwnersOfAuthorities, IdsNamePlaces, CutsLose
     DEF EvidenceInv, ConflictsAreOfTheDocuments
<1> QED BY <1>1, EvidenceInvHolds, PTL

(* Broken references, for any documents and links: coverage breaks none,   *)
(* deleting a file breaks those to it and mends none, and where documents  *)
(* are cut into chunks does not matter.                                    *)
THEOREM ReferencesBreak == Spec => []ReferencesBreakWithTheirTarget
<1>1. EvidenceInv => ReferencesBreakWithTheirTarget
  BY CoverageIsReading, DeletingBreaks, CutsChangeNothing
     DEF EvidenceInv, ReferencesBreakWithTheirTarget
<1> QED BY <1>1, EvidenceInvHolds, PTL

(* Duplicate responsibilities, for any symbols, dependencies and limit:    *)
(* the ranking is total and cuts from the end, an overload adds no         *)
(* topology, what is said of the files is true of their dependencies, and  *)
(* covering fewer files only weakens a candidate.                          *)
THEOREM DuplicatesAreTrue == Spec => []DuplicatesAreAsEntangledAsTheirFiles
<1>1. EvidenceInv => DuplicatesAreAsEntangledAsTheirFiles
  BY RankingIsOfNames, OverloadsEntangleNothing, SummariesAreTrue, CoverageStrengthens
     DEF EvidenceInv, DuplicatesAreAsEntangledAsTheirFiles
<1> QED BY <1>1, EvidenceInvHolds, PTL

(* Boundary maps, for any index, rules and names: the order of the index   *)
(* decides no more of a map than which test is the harness of a suite; a   *)
(* map gives the symbols of a code or test file to the boundary of the     *)
(* file, passes the validation of the completion, and lists the tests of   *)
(* what it says is verified.                                               *)
THEOREM MapsAreSound == Spec => []BoundaryMapIsSound
<1>1. EvidenceInv => BoundaryMapIsSound
  <2> SUFFICES ASSUME input \in BoundaryInputs
               PROVE  /\ Boundaries!OrderOnlyPicksTheHarness
                      /\ Boundaries!SymbolsFollowTheirFile
                      /\ Boundaries!BuiltMapsAreValid
                      /\ Boundaries!TestsAreLinked
    BY DEF EvidenceInv, BoundaryMapIsSound
  <2>1. Boundaries!OrderOnlyPicksTheHarness
    <3> DEFINE other == [input EXCEPT !.files = Boundaries!Reverse(@)]
    <3> HIDE DEF other
    <3>1. /\ SameIndex(input, other) /\ IsIndex(input) /\ IsIndex(other)
          /\ Boundaries!IsBuilt(other) <=> Boundaries!IsBuilt(input)
          /\ Boundaries!IsBuilt(input) /\ ~Boundaries!Collision(input) =>
               Boundaries!Boundaries(other) = Boundaries!Boundaries(input)
      BY OrderIsForgotten DEF other
    <3>2. \A bs : Boundaries!Relations(other, bs) = Boundaries!Relations(input, bs)
      BY <3>1, SameRelations
    <3>3. ASSUME NEW bs, NEW b
          PROVE  LET here == Boundaries!Described(input, bs, b)
                     there == Boundaries!Described(other, bs, b)
                 IN \/ there = here
                    \/ /\ b.kind = "test-suite"
                       /\ \E s, t \in here.tests :
                            /\ here.entrypoints = {s}
                            /\ there = [here EXCEPT !.entrypoints = {t}]
      BY <3>1, SameDescriptions
    <3> QED BY <3>1, <3>2, <3>3 DEF other, Boundaries!OrderOnlyPicksTheHarness
  <2> QED BY <2>1, SymbolsFollow, MapsAreValid, VerifyingTestsAreListed
<1> QED BY <1>1, EvidenceInvHolds, PTL
=============================================================================
