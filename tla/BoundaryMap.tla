------------------------------ MODULE BoundaryMap ------------------------------
(***************************************************************************)
(* runtime/repository-boundary-map.ts: the boundaries of a repository      *)
(* derived from the covered files, symbols and dependencies of one index,  *)
(* and the rules of scans/boundary-map-validation.ts that the artifact has *)
(* to meet when a scan is completed with it.  A path is a sequence of      *)
(* segments, a segment a set entry of Words: the words between its         *)
(* separators.  Labels, notes, revisions and line anchors are left out.    *)
(***************************************************************************)
EXTENDS Naturals, Sequences, FiniteSets, SequencesExt

CONSTANTS Inputs,     \* [files, symbols, dependencies, included, rules]
          Words,      \* segment -> the words normalizeIdentifier finds in it
          Dotted,     \* segments with a dot
          TestNames,  \* testDirectoryNames
          Stems,      \* contractFileStems
          Ignored,    \* ignoredDocTokens
          None        \* undefined

VARIABLE input

(* What the schema keeps of an index: paths are not empty, keys are unique *)
(* and a dependency is of an indexed file.                                 *)
Paths == Seq(DOMAIN Words) \ {<<>>}
Files == [path : Paths,
          kind : {"documentation", "test", "config", "generated", "vendor", "code"},
          marker : BOOLEAN, launcher : BOOLEAN, order : Nat]
InputsAreIndexes ==
  \A in \in Inputs :
    /\ DOMAIN in = {"files", "symbols", "dependencies", "included", "rules"}
    /\ in.files \in Seq(Files)
    /\ \A s, t \in in.symbols : s.key = t.key => s = t
    /\ \A d \in in.dependencies : \E f \in ToSet(in.files) : f.path = d.file
    /\ \A r \in in.rules : r.prefix \in Paths

Covered(in) == {f \in ToSet(in.files) : f.path \in in.included}
FileAt(in, path) == CHOOSE f \in ToSet(in.files) : f.path = path
Symbols(in) == {s \in in.symbols : s.file \in in.included}
Dependencies(in) == {d \in in.dependencies : d.file \in in.included}
Seeds(in) == {f \in Covered(in) : f.kind \in {"code", "test"}}

(***************************************************************************)
(* Roots.                                                                  *)
(***************************************************************************)
InTestDirectory(path) == \E n \in DOMAIN path : path[n] \in TestNames

(* findScopedBoundaryRule: the longest prefix. *)
Matching(rules, path) == {r \in rules : IsPrefix(r.prefix, path)}
ScopedRule(rules, path) ==
  CHOOSE r \in Matching(rules, path) :
    \A q \in Matching(rules, path) : Len(q.prefix) <= Len(r.prefix)

HasRoot(rules, path) == InTestDirectory(path) \/ Matching(rules, path) # {}

(* normalizeIdentifier: separators and slashes alike become one dash. *)
Identifier(path) == FlattenSeq([n \in DOMAIN path |-> Words[path[n]]])

TestRoot(path) ==
  SubSeq(path, 1, CHOOSE n \in DOMAIN path :
    path[n] \in TestNames /\ \A k \in 1 .. n - 1 : path[k] \notin TestNames)

RuleRoot(rule, path) ==
  IF Len(rule.prefix) = 1 /\ Len(path) >= 2 /\ path[2] \notin Dotted
  THEN SubSeq(path, 1, 2) ELSE rule.prefix

(* createBoundarySeed, of a path that has a root. *)
Seed(rules, path) ==
  LET of(kind, root) == [id |-> <<kind, Identifier(root)>>, kind |-> kind, root |-> root]
      rule == ScopedRule(rules, path)
  IN IF InTestDirectory(path) THEN of("test-suite", TestRoot(path))
     ELSE of(rule.kind, RuleRoot(rule, path))

(* The first file with an id gives the boundary its root; each file adds   *)
(* its path.                                                               *)
IsFirstWithId(in, n) ==
  \A k \in 1 .. n - 1 : in.files[k] \in Seeds(in) =>
    Seed(in.rules, in.files[k].path).id # Seed(in.rules, in.files[n].path).id

BoundaryOf(in, seed) ==
  [id |-> seed.id, kind |-> seed.kind, root |-> seed.root,
   paths |-> {f.path : f \in {g \in Seeds(in) : Seed(in.rules, g.path).id = seed.id}}]

Boundaries(in) ==
  {BoundaryOf(in, Seed(in.rules, in.files[n].path)) :
     n \in {k \in DOMAIN in.files : in.files[k] \in Seeds(in) /\ IsFirstWithId(in, k)}}

(* findBoundaryForPath: none, or the one with the longest root.            *)
Around(boundaries, path) == {b \in boundaries : IsPrefix(b.root, path)}

(* Faulty variant: the shortest root wins. *)
OwnersByShortest(boundaries, path) ==
  {b \in Around(boundaries, path) : \A c \in Around(boundaries, path) : Len(c.root) >= Len(b.root)}

Owners(boundaries, path) ==
  {b \in Around(boundaries, path) : \A c \in Around(boundaries, path) : Len(c.root) <= Len(b.root)}

IsTestFile(file) == file.kind = "test" \/ InTestDirectory(file.path)

(***************************************************************************)
(* Relations.                                                              *)
(***************************************************************************)
(* findTargetBoundary: none, or one. *)
Targets(in, boundaries, d) ==
  IF d.path # None THEN {b \in boundaries : d.path \in b.paths}
  ELSE UNION {Owners(boundaries, s.file) : s \in {t \in Symbols(in) : t.key = d.symbol}}

RelationKind(in, d) ==
  IF IsTestFile(FileAt(in, d.file)) THEN "verifies"
  ELSE IF d.kind = "implements" THEN "implements" ELSE "depends-on"

(* The dependencies that cross from one boundary to another.               *)
Crossing(in, boundaries) ==
  {c \in [dependency : Dependencies(in), from : boundaries, to : boundaries] :
     /\ c.from \in Owners(boundaries, c.dependency.file)
     /\ c.to \in Targets(in, boundaries, c.dependency)
     /\ c.from # c.to}

(* Each relation by the ids it joins; its references by file.              *)
RelationOf(in, c) == <<c.from.id, RelationKind(in, c.dependency), c.to.id>>

Reference(in, d) ==
  [file |-> d.file, role |-> RelationKind(in, d),
   source |-> IF IsTestFile(FileAt(in, d.file)) THEN "test" ELSE "code"]

Relations(in, boundaries) ==
  {[from |-> c.from.id, kind |-> RelationKind(in, c.dependency), to |-> c.to.id,
    refs |-> {Reference(in, e.dependency) :
                e \in {x \in Crossing(in, boundaries) : RelationOf(in, x) = RelationOf(in, c)}}] :
     c \in Crossing(in, boundaries)}

(***************************************************************************)
(* What is attached to a boundary.                                         *)
(***************************************************************************)
(* attachTestRefs: a test verifies the boundary it lies in and those it    *)
(* depends on.                                                             *)
TestRefs(in, boundaries, b) ==
  {f.path : f \in {g \in Covered(in) : IsTestFile(g) /\
     (b \in Owners(boundaries, g.path)
        \/ \E c \in Crossing(in, boundaries) : c.dependency.file = g.path /\ c.to = b)}}

Tokens(path) == (UNION {ToSet(Words[path[n]]) : n \in DOMAIN path}) \ Ignored

(* documentationLikelyMatchesBoundary *)
MatchesBoundary(path, b) ==
  LET said == IF Last(path) \in Stems THEN Tokens(Front(path)) ELSE Tokens(<<Last(path)>>)
  IN said # {} /\ said \subseteq UNION {Tokens(p) : p \in b.paths}

(* attachDocumentationRefs: to the boundary it lies in, or to each it      *)
(* speaks of.                                                              *)
ContractRefs(in, boundaries, b) ==
  {f.path : f \in {g \in Covered(in) : g.kind = "documentation" /\
     LET home == {c \in Owners(boundaries, g.path) : g.marker \/ MatchesBoundary(g.path, c)}
     IN b \in home \/ (home = {} /\ MatchesBoundary(g.path, b))}}

OwnedSymbols(in, boundaries, b) == {s \in Symbols(in) : b \in Owners(boundaries, s.file)}

(* selectToolEntrypointFile: the first launcher, else the only file; order *)
(* is by toolEntrypointPathRank and path.                                  *)
ToolEntrypoint(in, b) ==
  LET files == {f \in Covered(in) : f.path \in b.paths /\ f.kind = "code"}
      launchers == {f \in files : f.launcher \/ Front(f.path) = b.root}
  IN {f.path : f \in {g \in launchers : \A h \in launchers : g.order <= h.order}}
     \cup {f.path : f \in {g \in files : launchers = {} /\ files = {g}}}

(* The harness of a test suite: the first of its tests in the index.       *)
Harness(in, boundaries, b) ==
  LET refs == TestRefs(in, boundaries, b)
      tests == {n \in DOMAIN in.files : in.files[n].path \in refs}
  IN {in.files[n].path : n \in {k \in tests : \A j \in tests : k <= j}}

Entrypoints(in, boundaries, b) ==
  LET public == {s.file : s \in {t \in OwnedSymbols(in, boundaries, b) : t.public}}
  IN IF public # {} THEN public
     ELSE CASE b.kind = "tool" -> ToolEntrypoint(in, b)
            [] b.kind = "test-suite" -> Harness(in, boundaries, b)
            [] OTHER -> {}

(* calculateBoundaryConfidence *)
Confidence(in, boundaries, b) ==
  LET code == IF b.kind = "test-suite" THEN 0 ELSE Cardinality(b.paths)
      entered == Entrypoints(in, boundaries, b) # {}
      backed == ContractRefs(in, boundaries, b) # {} \/ TestRefs(in, boundaries, b) # {}
  IN IF entered /\ (backed \/ code > 1) THEN "high"
     ELSE IF code > 0 \/ TestRefs(in, boundaries, b) # {} THEN "medium" ELSE "low"

(* finalizeBoundaryNotes *)
Questions(in, boundaries, b) ==
  {q \in {"contract", "test", "entrypoint"} :
     CASE q = "contract" -> ContractRefs(in, boundaries, b) = {}
       [] q = "test" -> b.kind # "test-suite" /\ TestRefs(in, boundaries, b) = {}
       [] q = "entrypoint" -> b.kind # "test-suite" /\ Entrypoints(in, boundaries, b) = {}}

(* buildBoundaryMapArtifact: an error when nothing seeds a boundary or a   *)
(* seed file has no root.                                                  *)
IsBuilt(in) == Seeds(in) # {} /\ \A f \in Seeds(in) : HasRoot(in.rules, f.path)

Described(in, boundaries, b) ==
  [id |-> b.id, kind |-> b.kind, paths |-> b.paths,
   symbols |-> {s.key : s \in OwnedSymbols(in, boundaries, b)},
   entrypoints |-> Entrypoints(in, boundaries, b),
   contracts |-> ContractRefs(in, boundaries, b),
   tests |-> TestRefs(in, boundaries, b),
   questions |-> Questions(in, boundaries, b),
   confidence |-> Confidence(in, boundaries, b)]

Artifact(in) ==
  LET boundaries == Boundaries(in)
  IN [boundaries |-> {Described(in, boundaries, b) : b \in boundaries},
      relations |-> Relations(in, boundaries)]

(***************************************************************************)
(* validateBoundaryMap                                                     *)
(***************************************************************************)
ValidRef(relation, ref) ==
  /\ ref.role = relation.kind
  /\ ref.source = IF relation.kind = "verifies" THEN "test" ELSE "code"

ValidMap(map) ==
  /\ map.boundaries # {}
  /\ \A b, c \in map.boundaries : b.id = c.id => b = c
  /\ \A b \in map.boundaries : b.paths # {} \/ b.symbols # {} \/ b.entrypoints # {}
  /\ \A r, q \in map.relations :
       <<r.from, r.kind, r.to>> = <<q.from, q.kind, q.to>> => r = q
  /\ \A r \in map.relations :
       /\ {r.from, r.to} \subseteq {b.id : b \in map.boundaries}
       /\ r.refs # {} /\ \A ref \in r.refs : ValidRef(r, ref)

-----------------------------------------------------------------------------
Init == input \in Inputs
Next == UNCHANGED input
Spec == Init /\ [][Next]_input

(* Two covered roots that only differ in separators share an identifier.   *)
Collision(in) ==
  \E f, g \in Seeds(in) :
    LET a == Seed(in.rules, f.path)
        b == Seed(in.rules, g.path)
    IN a.id = b.id /\ a.root # b.root

(* Paths are given to boundaries by rule, symbols by the longest root      *)
(* around their file, and the two agree: wherever roots nest, a symbol of  *)
(* a covered code or test file belongs to the boundary that owns the file. *)
SymbolsFollowTheirFile ==
  IsBuilt(input) /\ ~Collision(input) =>
    \A s \in Symbols(input) : \A b \in Artifact(input).boundaries :
      s.file \in {f.path : f \in Seeds(input)} =>
        (s.key \in b.symbols <=> s.file \in b.paths)

(* What the build returns, completion accepts: a run that is completed     *)
(* with the map it was given never fails on a reference that has the role  *)
(* or the source of another kind of relation.                              *)
BuiltMapsAreValid == IsBuilt(input) => ValidMap(Artifact(input))

(* A test is linked on both sides: where a relation says that a boundary   *)
(* is verified, the boundary lists each file the relation cites, and no    *)
(* boundary that something verifies is asked for a verifying test.         *)
TestsAreLinked ==
  IsBuilt(input) =>
    \A r \in Artifact(input).relations : r.kind = "verifies" =>
      \A b \in Artifact(input).boundaries : b.id = r.to =>
        {ref.file : ref \in r.refs} \subseteq b.tests /\ "test" \notin b.questions

(* The order in which the index lists files decides one thing: which of    *)
(* its tests is the harness of a test suite without public symbols.  Every *)
(* boundary, every relation and all else that is said of a boundary, its   *)
(* confidence and open questions included, is the same in another order.   *)
OrderOnlyPicksTheHarness ==
  LET other == [input EXCEPT !.files = Reverse(@)]
      boundaries == Boundaries(input)
  IN /\ IsBuilt(other) <=> IsBuilt(input)
     /\ IsBuilt(input) /\ ~Collision(input) =>
          /\ Boundaries(other) = boundaries
          /\ Relations(other, boundaries) = Relations(input, boundaries)
          /\ \A b \in boundaries :
               LET here == Described(input, boundaries, b)
                   there == Described(other, boundaries, b)
               IN \/ there = here
                  \/ /\ b.kind = "test-suite"
                     /\ \E s, t \in here.tests :
                          /\ here.entrypoints = {s}
                          /\ there = [here EXCEPT !.entrypoints = {t}]

(* "boundaries with stable ids, human labels, generic kinds, owned         *)
(* repository paths, owned symbol keys" (docs/specs/repository-scan.md:    *)
(* 176): covering more files takes no symbol from the boundary with an id. *)
IdsAreStable ==
  \A fewer \in SUBSET input.included :
    LET part == [input EXCEPT !.included = fewer]
    IN IsBuilt(part) /\ IsBuilt(input) =>
         \A b \in Artifact(part).boundaries : \E c \in Artifact(input).boundaries :
           c.id = b.id /\ b.symbols \subseteq c.symbols
=============================================================================
