------------------------ MODULE MCRepositoryIndexing ------------------------
(* Model checking of RepositoryIndexing.                                   *)
EXTENDS RepositoryIndexing, TLC

CONSTANTS w1, i1

OneWorkspace == [x \in Indexes \cup Scans |-> w1]

Symmetry == Permutations(Revisions) \cup Permutations(Scans)
=============================================================================
