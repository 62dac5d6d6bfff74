------------------------ MODULE DuplicateResponsibility ------------------------
(***************************************************************************)
(* buildDuplicateResponsibilityCandidates of                               *)
(* runtime/repository-evidence-candidates.ts: visible top-level symbols of *)
(* covered code files are grouped by name; a name that several files use   *)
(* is a candidate, ranked by how many symbols share it and by what the     *)
(* files depend on.  Names are lower-cased already; files and names are    *)
(* numbers, in the order localeCompare gives them.                         *)
(***************************************************************************)
EXTENDS Naturals, FiniteSets

CONSTANTS Inputs,   \* [code, symbols, dependencies, limit]
          None      \* undefined

VARIABLE input

SymbolRecords == [key : Nat, file : Nat, name : Nat, line : Nat, top : BOOLEAN, visible : BOOLEAN]
InputsAreIndexes ==
  /\ None \notin {"share", "direct"}
  /\ \A in \in Inputs :
       /\ DOMAIN in = {"code", "symbols", "dependencies", "limit"}
       /\ IsFiniteSet(in.symbols) /\ in.symbols \subseteq SymbolRecords
       /\ IsFiniteSet(in.dependencies) /\ in.limit \in Nat

(***************************************************************************)
(* Groups, in the order of compareRepositorySymbols; the names of a group  *)
(* are the same.                                                           *)
(***************************************************************************)
Earlier(s, t) == s.file < t.file \/ (s.file = t.file /\ s.line < t.line)

Counted(in) == {s \in in.symbols : s.file \in in.code /\ s.top /\ s.visible}
Group(in, name) == {s \in Counted(in) : s.name = name}
FilesOf(symbols) == {s.file : s \in symbols}

(***************************************************************************)
(* Topology.                                                               *)
(***************************************************************************)
(* createDependencyTopologyIdentity: a resolved target by its path, an     *)
(* unresolved one by its text; an unresolved call has none.                *)
HasIdentity(d) == d.path # None \/ d.kind # "call"
Target(d) == IF d.path # None THEN d.path ELSE d.text
Identity(d) == <<d.kind, Target(d)>>

(* createDependencyNeighborhoodIndex *)
Neighborhood(in, f) ==
  {Identity(d) : d \in {e \in in.dependencies : e.file = f /\ f \in in.code /\ HasIdentity(e)}}

Having(in, files, id) == {f \in files : id \in Neighborhood(in, f)}
Shared(in, files) ==
  {id \in UNION {Neighborhood(in, f) : f \in files} : Cardinality(Having(in, files, id)) >= 2}

(* Each file with each identity whose target is another file of the group. *)
(* Faulty variant: a file may be its own peer. *)
DirectWithSelf(in, files) ==
  UNION {{<<f, id>> : id \in {i \in Neighborhood(in, f) : i[2] \in files}} : f \in files}

Direct(in, files) ==
  UNION {{<<f, id>> : id \in {i \in Neighborhood(in, f) : i[2] \in files \ {f}}} : f \in files}

(* describeDuplicateResponsibilityTopology *)
Topology(in, files) ==
  [shared |-> Cardinality(Shared(in, files)), direct |-> Cardinality(Direct(in, files)),
   perFile |-> [f \in files |-> Cardinality(Shared(in, files) \cap Neighborhood(in, f))]]

(* createDuplicateResponsibilityTopologySummary *)
Summary(topology) ==
  IF topology.shared > 0 THEN "share" ELSE IF topology.direct > 0 THEN "direct" ELSE None

(***************************************************************************)
(* Candidates, ranked and cut at the limit.                                *)
(***************************************************************************)
Candidate(in, name) ==
  [name |-> name, symbols |-> Group(in, name),
   topology |-> Topology(in, FilesOf(Group(in, name)))]

All(in) ==
  {Candidate(in, name) : name \in
     {n \in {s.name : s \in Counted(in)} : Cardinality(FilesOf(Group(in, n))) > 1}}

Before(g, h) ==
  LET symbols(x) == Cardinality(x.symbols)
  IN IF symbols(g) # symbols(h) THEN symbols(g) > symbols(h)
     ELSE IF g.topology.shared # h.topology.shared THEN g.topology.shared > h.topology.shared
     ELSE IF g.topology.direct # h.topology.direct THEN g.topology.direct > h.topology.direct
     ELSE g.name < h.name

StrongerThan(in, g) == {h \in All(in) : Before(h, g)}

Candidates(in) == {g \in All(in) : Cardinality(StrongerThan(in, g)) < in.limit}

-----------------------------------------------------------------------------
Init == input \in Inputs
Next == UNCHANGED input
Spec == Init /\ [][Next]_input

(* The comparators order candidates and the symbols of a candidate in one  *)
(* way only, but for symbols on one line, so what the sorts return does    *)
(* not depend on the order of the index; and the limit cuts from the end.  *)
RankingIgnoresOrder ==
  /\ \A g, h \in All(input) : g # h => (Before(g, h) <=> ~Before(h, g))
  /\ \A g, h, i \in All(input) : Before(g, h) /\ Before(h, i) => Before(g, i)
  /\ \A g \in All(input) : \A s, t \in g.symbols :
       s.file # t.file \/ s.line # t.line => (Earlier(s, t) <=> ~Earlier(t, s))
  /\ \A g \in Candidates(input) : StrongerThan(input, g) \subseteq Candidates(input)

(* A second symbol of the same name in a file, an overload, counts as a    *)
(* symbol but makes the files no more entangled than they are.             *)
OverloadsAddNoTopology ==
  \A g \in All(input) : \A s, t \in g.symbols :
    s # t /\ s.file = t.file =>
      \E h \in All([input EXCEPT !.symbols = @ \ {s}]) :
        h.name = g.name /\ h.topology = g.topology

(* What a candidate says of its files is true of them: where it says they  *)
(* share targets, each file that is said to share one has a peer that is   *)
(* said so too; where it says they depend on one another, one has a        *)
(* dependency whose target is another.                                     *)
SharingIsTrue(g) ==
  LET sharing == {f \in FilesOf(g.symbols) : g.topology.perFile[f] > 0}
  IN /\ sharing # {}
     /\ \A f \in sharing : \E h \in sharing \ {f} : \E d, e \in input.dependencies :
          d.file = f /\ e.file = h /\ d.kind = e.kind /\ Target(d) = Target(e)

SummaryIsTrue ==
  \A g \in All(input) :
    LET files == FilesOf(g.symbols)
    IN IF Summary(g.topology) = "share" THEN SharingIsTrue(g)
       ELSE /\ \A f \in files : g.topology.perFile[f] = 0
            /\ Summary(g.topology) = "direct" =>
                 \E d \in input.dependencies : d.file \in files /\ Target(d) \in files \ {d.file}

(* Covering fewer files never makes a candidate stronger: it may go, but   *)
(* while it is there it has no more symbols and no more topology.          *)
CoverageOnlyWeakens ==
  \A gone \in input.code : \A h \in All([input EXCEPT !.code = @ \ {gone}]) :
    \E g \in All(input) :
      /\ g.name = h.name /\ h.symbols \subseteq g.symbols
      /\ h.topology.shared <= g.topology.shared
      /\ h.topology.direct <= g.topology.direct
=============================================================================
