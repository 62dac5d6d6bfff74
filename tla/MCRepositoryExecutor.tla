------------------------ MODULE MCRepositoryExecutor ------------------------
(* Model checking of RepositoryExecutor, with limits of two files, two     *)
(* bytes a file, three bytes in all and six facts.                         *)
EXTENDS RepositoryExecutor

CONSTANTS c1, c2

Entry(kind, size, written, facts, dependencies) ==
  [kind |-> kind, size |-> size, written |-> written, facts |-> facts,
   dependencies |-> dependencies]
Named(name, e) == [name |-> name, kind |-> e.kind, size |-> e.size, written |-> e.written,
                   facts |-> e.facts, dependencies |-> e.dependencies]

Small == Entry("regular", 1, 1, 2, 1)
Full == Entry("regular", 2, 2, 2, 1)
Large == Entry("regular", 3, 3, 2, 1)
Growing == Entry("regular", 1, 2, 3, 0)       \* its line ends are converted
Overgrown == Entry("regular", 2, 3, 2, 1)
Dense == Entry("regular", 0, 0, 4, 0)
Entangled == Entry("regular", 0, 0, 2, 2)
Link == Entry("symlink", 1, 1, 0, 0)
Submodule == Entry("commit", 0, 0, 0, 0)

Firsts == {Small, Full, Large, Growing, Overgrown, Dense, Entangled, Link, Submodule}
Seconds == {Small, Full, Entangled, Link}

MCTrees == {{}, {Named(1, Small), Named(2, Small), Named(3, Dense)}}
             \cup {{Named(1, e)} : e \in Firsts}
             \cup {{Named(1, d), Named(2, e)} : d \in Firsts, e \in Seconds}
Plain == {Named(1, Full), Named(2, Small)}
MCHistories == {[c \in {c1, c2} |-> IF c = c1 THEN t ELSE Plain] : t \in MCTrees}
Simple == {[c \in {c1, c2} |-> IF c = c1 THEN {Named(2, Small)} ELSE Plain]}

(* A name with a backslash, alone and beside the name it is taken for. *)
Backslash == 3
WithBackslash == {[c \in {c1, c2} |-> IF c = c1 THEN {Named(Backslash, Small)} ELSE
                                      {Named(1, Full), Named(Backslash, Small)}]}
Slashes == <<1, 2, 1>>
Straight == <<1, 2, 3>>
=============================================================================
