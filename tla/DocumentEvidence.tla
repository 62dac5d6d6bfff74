--------------------------- MODULE DocumentEvidence ---------------------------
(***************************************************************************)
(* runtime/repository-evidence-candidates.ts, the documentation-conflicts  *)
(* profile: claims are read from the lines of indexed chunks and paired    *)
(* across files into evidence candidates.  A line is what the patterns     *)
(* make of it: the tokens of a heading, of a status claim, of a selection  *)
(* claim, whether it has an authority phrase or an ownership marker.       *)
(* Tokens are already normalised; a set stands for a list without doubles. *)
(* The index lists its chunks by ordinal.                                  *)
(***************************************************************************)
EXTENDS Naturals, Sequences, FiniteSets

CONSTANTS Inputs,   \* [chunks, last, about, order, limit]
          Generic   \* duplicateAuthorityGenericTopicTokens

VARIABLES input, criterion
vars == <<input, criterion>>

Criteria == {"contradictory-claims", "stale-documentation", "duplicate-authority"}

(* What the schema and the content facts keep of an index: ordinals are    *)
(* unique, and the chunks of a file share no line.                         *)
AreLines(lines) ==
  /\ lines \in Seq({lines[n] : n \in DOMAIN lines})
  /\ \A n \in DOMAIN lines :
       /\ IsFiniteSet(lines[n].heading) /\ IsFiniteSet(lines[n].topic)
       /\ IsFiniteSet(lines[n].status.context) /\ IsFiniteSet(lines[n].selection.context)
ShareALine(c, d) ==
  c.file = d.file /\ \E n \in DOMAIN c.lines, m \in DOMAIN d.lines : c.start + n = d.start + m

InputsAreIndexes ==
  \A in \in Inputs :
    /\ DOMAIN in = {"chunks", "last", "about", "order", "limit"}
    /\ in.last \in Nat /\ in.order \in Seq(SUBSET DOMAIN in.about)
    /\ \A c \in in.chunks :
         /\ c \in [ordinal : 0 .. in.last, file : DOMAIN in.about, start : Nat \ {0},
                   lines : {c.lines}]
         /\ AreLines(c.lines)
    /\ \A c, d \in in.chunks : c.ordinal = d.ordinal \/ ShareALine(c, d) => c = d

(***************************************************************************)
(* Claims.  A mention is a place of the index where one may be read.       *)
(***************************************************************************)
Mentions(in, kinds) ==
  UNION {[chunk : {c}, line : DOMAIN c.lines, kind : kinds] : c \in in.chunks}

File(m) == m.chunk.file
Place(m) == <<File(m), m.chunk.start + m.line - 1>>

(* The last heading of the chunk up to this line; a chunk starts with none. *)
Above(chunk, n) == {h \in 1 .. n : chunk.lines[h].heading # {}}
Heading(chunk, n) ==
  IF Above(chunk, n) = {} THEN {}
  ELSE chunk.lines[CHOOSE h \in Above(chunk, n) : \A g \in Above(chunk, n) : g <= h].heading

(* side is the group and polarity of a status, the qualifier of a selection. *)
Said(m) ==
  LET line == m.chunk.lines[m.line]
  IN IF m.kind = "status" THEN line.status
     ELSE IF m.kind = "selection" THEN line.selection
     ELSE [subject |-> {}, context |-> line.topic, side |-> ""]

Context(m) == Said(m).context \cup Heading(m.chunk, m.line)

IsClaim(m) ==
  IF m.kind = "authority" THEN m.chunk.lines[m.line].authority
  ELSE /\ Said(m).subject # {}
       /\ Cardinality(Context(m)) >= IF m.kind = "status" THEN 1 ELSE 2

(* isMaterialContradictionDocument: an ignored path is never material, else *)
(* its name, a word in its path or a word in its text makes it so.          *)
Material(about) == ~about.ignored /\ about.keyword

ContradictionClaims(in) ==
  {m \in Mentions(in, {"status", "selection"}) : Material(in.about[File(m)]) /\ IsClaim(m)}
AuthorityClaims(in) == {m \in Mentions(in, {"authority"}) : IsClaim(m)}

(***************************************************************************)
(* Which two claims make a candidate.                                      *)
(***************************************************************************)
Contradicting(l, r) ==
  \/ /\ l.kind = "status" /\ r.kind = "status"
     /\ Said(l).side.group = Said(r).side.group /\ Said(l).side.polarity # Said(r).side.polarity
     /\ Said(l).subject \cap Said(r).subject # {} /\ Context(l) \cap Context(r) # {}
  \/ /\ l.kind = "selection" /\ r.kind = "selection" /\ Said(l).side = Said(r).side
     /\ Cardinality(Context(l) \cap Context(r)) >= 2 /\ Said(l).subject # Said(r).subject

SharesTopic(l, r) ==
  LET shared == Context(l) \cap Context(r)
      material == shared \ Generic
  IN /\ l.kind = "authority" /\ r.kind = "authority"
     /\ material # {} /\ ~(Cardinality(material) = 1 /\ Cardinality(shared) < 2)

(* scoreSsotPrecedence: the first pattern that matches the file.  A pattern *)
(* is the set of files it matches; "implementation" matches none.           *)
Matching(in, f) == {n \in DOMAIN in.order : f \in in.order[n]}
Precedence(in, f) ==
  IF Matching(in, f) = {} THEN Len(in.order) + 1
  ELSE CHOOSE n \in Matching(in, f) : \A k \in Matching(in, f) : n <= k

Current(in, f) == in.about[f].current   \* isCurrentLookingDocumentationSource

(***************************************************************************)
(* Pairs of claims of different files, the one listed earlier on the left. *)
(***************************************************************************)
Pairs(claims) ==
  {p \in claims \X claims : File(p[1]) # File(p[2]) /\ p[1].chunk.ordinal < p[2].chunk.ordinal}

Contradictions(in) == {p \in Pairs(ContradictionClaims(in)) : Contradicting(p[1], p[2])}
Overlaps(in) == {p \in Pairs(AuthorityClaims(in)) : SharesTopic(p[1], p[2])}

(* Faulty variant: only the document on the left has to look current. *)
StalePairsHalfCurrent(in) ==
  {p \in Contradictions(in) : /\ Precedence(in, File(p[1])) # Precedence(in, File(p[2]))
                              /\ Current(in, File(p[1]))}

(* Both documents look current, and one precedes the other.                *)
StalePairs(in) ==
  {p \in Contradictions(in) : /\ Precedence(in, File(p[1])) # Precedence(in, File(p[2]))
                              /\ Current(in, File(p[1])) /\ Current(in, File(p[2]))}

(* The stale claim and the authoritative one. *)
StaleSide(in, p) ==
  IF Precedence(in, File(p[1])) < Precedence(in, File(p[2])) THEN <<p[2], p[1]>> ELSE p

(* The order of the pairs: by the left claim, then by the right; a line is *)
(* read for a status first.                                                *)
Listed(m) == <<m.chunk.ordinal, Place(m)[2], IF m.kind = "selection" THEN 1 ELSE 0>>
Keys(p) == Listed(p[1]) \o Listed(p[2])
Earlier(p, q) ==
  \E n \in 1 .. 6 : Keys(p)[n] < Keys(q)[n] /\ \A k \in 1 .. n - 1 : Keys(p)[k] = Keys(q)[k]

(***************************************************************************)
(* The candidates, in order, until there are limit of them.                *)
(***************************************************************************)
Candidate(p, sources, id) == [pair |-> p, kind |-> p[1].kind, sources |-> sources, id |-> id]

PlacesId(p) == <<Place(p[1]), Place(p[2])>>

(* The id names the stale line and the authoritative file; the first pair  *)
(* with an id is the one that is kept.                                     *)
StaleId(in, p) ==
  LET sides == StaleSide(in, p) IN <<File(sides[1]), File(sides[2]), Place(sides[1])[2]>>
IsFirstWithId(in, p) ==
  \A q \in StalePairs(in) : StaleId(in, q) = StaleId(in, p) => ~Earlier(q, p)

Contradictory(in) == {Candidate(p, p, PlacesId(p)) : p \in Contradictions(in)}
DuplicateAuthority(in) == {Candidate(p, p, PlacesId(p)) : p \in Overlaps(in)}
Stale(in) ==
  {Candidate(p, StaleSide(in, p), StaleId(in, p)) :
     p \in {q \in StalePairs(in) : IsFirstWithId(in, q)}}

Found(what, in) ==
  IF what = "contradictory-claims" THEN Contradictory(in)
  ELSE IF what = "stale-documentation" THEN Stale(in) ELSE DuplicateAuthority(in)

Candidates(what, in) ==
  {x \in Found(what, in) :
     Cardinality({y \in Found(what, in) : Earlier(y.pair, x.pair)}) < in.limit}

(* buildMissingOwnerCandidates: one per operational document, so its id is *)
(* its path.                                                               *)
Marked(in, f) == \E c \in in.chunks : c.file = f /\ \E n \in DOMAIN c.lines : c.lines[n].marker
MissingOwner(in) ==
  {f \in DOMAIN in.about : in.about[f].operational /\ ~Marked(in, f) /\ Matching(in, f) = {}}

-----------------------------------------------------------------------------
Init == input \in Inputs /\ criterion \in Criteria
Next == UNCHANGED vars
Spec == Init /\ [][Next]_vars

(* Which documents conflict does not depend on the order in which the      *)
(* index lists them: read the other way round, the chunks give the same    *)
(* contradictions and the same overlaps of authority, and the same         *)
(* documents are called stale for the same lines and the same authority.   *)
Reversed(in) ==
  [in EXCEPT !.chunks = {[c EXCEPT !.ordinal = in.last - @] : c \in @}]
Conflict(x) ==
  IF criterion = "stale-documentation" THEN x.id
  ELSE <<{Place(x.sources[1]), Place(x.sources[2])}, x.kind>>
OrderDoesNotMatter ==
  {Conflict(x) : x \in Found(criterion, Reversed(input))}
    = {Conflict(x) : x \in Found(criterion, input)}

(* "stale-documentation currently reuses contradiction-style claims plus   *)
(* SSOT precedence and only flags lower-precedence, current-looking docs   *)
(* when they conflict with stronger sources" (repository-indexing.md:512): *)
(* a stale candidate is a contradiction as well, and no document is stale  *)
(* against another that is stale against it.                               *)
StaleIsAWeakerContradiction ==
  \A x \in Stale(input) :
    /\ \E y \in Contradictory(input) :
         {y.sources[1], y.sources[2]} = {x.sources[1], x.sources[2]}
    /\ Current(input, File(x.sources[1])) /\ Current(input, File(x.sources[2]))
    /\ \A y \in Stale(input) : ~(y.id[1] = x.id[2] /\ y.id[2] = x.id[1])

(* A document that is held up against a stale one is never itself reported *)
(* as a document without an owner.                                         *)
AuthoritiesHaveOwners ==
  \A x \in Stale(input) : File(x.sources[2]) \notin MissingOwner(input)

(* Two candidates of one answer with one id are a status and a selection   *)
(* read from the same two lines, never claims from different lines: a      *)
(* reader who keeps one per id loses no place.                             *)
IdNamesThePlaces ==
  \A x, y \in Found(criterion, input) : x.id = y.id => x = y \/ x.kind # y.kind

(* What a document says under its own headings is enough: cutting a chunk  *)
(* where it is not a heading loses candidates (the heading stays behind)   *)
(* but never adds one.                                                     *)
Cut(chunk, n) ==
  {[chunk EXCEPT !.lines = SubSeq(@, 1, n)],
   [chunk EXCEPT !.lines = SubSeq(@, n + 1, Len(@)), !.start = @ + n]}
CuttingOnlyLoses ==
  \A c \in input.chunks : \A n \in 1 .. Len(c.lines) - 1 :
    {x.id : x \in Found(criterion, [input EXCEPT !.chunks = (@ \ {c}) \cup Cut(c, n)])}
      \subseteq {x.id : x \in Found(criterion, input)}
=============================================================================
