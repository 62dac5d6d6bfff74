--------------------------- MODULE RepositoryTree ---------------------------
(***************************************************************************)
(* The tree of one commit, as far as the indexing limits look at it.  An   *)
(* entry has a name, a kind (regular file, symbolic link, anything else),  *)
(* the size of its blob, the size of the file a checkout writes for it     *)
(* (line endings may be converted), and the facts it gives: chunks,        *)
(* symbols and references as they are built file by file, and the distinct *)
(* dependencies that are derived at the end.                               *)
(***************************************************************************)
EXTENDS Naturals, FiniteSets, Sequences

CONSTANTS MaxFiles, MaxFileBytes, MaxTotalBytes, MaxFacts,
          PathOf  \* names are numbered in path order; the path with / for \

TreeEntry == [name : DOMAIN PathOf, kind : {"regular", "symlink", "commit"},
              size : Nat, written : Nat, facts : Nat, dependencies : Nat]

(* With / for \ a path is as it is, and it is a name.                      *)
PathsAreNames ==
  /\ DOMAIN PathOf \subseteq Nat
  /\ \A n \in DOMAIN PathOf : PathOf[n] \in DOMAIN PathOf /\ PathOf[PathOf[n]] = PathOf[n]
LimitsAreNumbers == {MaxFiles, MaxFileBytes, MaxTotalBytes, MaxFacts} \subseteq Nat

InPathOrder(d, e) == \/ PathOf[d.name] < PathOf[e.name]
                     \/ PathOf[d.name] = PathOf[e.name] /\ d.name < e.name

(* The entries of a tree in path order. *)
Entries(tree) ==
  [k \in 1..Cardinality(tree) |->
     CHOOSE e \in tree : Cardinality({d \in tree : InPathOrder(d, e)}) = k - 1]

(* The paths of a tree in order; two names may have one path. *)
Tracked(tree) == [k \in 1..Cardinality(tree) |-> PathOf[Entries(tree)[k].name]]

(* What is counted, entry by entry. *)
Total(numbers) ==
  LET upTo[k \in 0..Len(numbers)] == IF k = 0 THEN 0 ELSE upTo[k - 1] + numbers[k]
  IN upTo[Len(numbers)]
Totals(entries) ==
  [size         |-> Total([k \in 1..Len(entries) |-> entries[k].size]),
   written      |-> Total([k \in 1..Len(entries) |-> entries[k].written]),
   facts        |-> Total([k \in 1..Len(entries) |-> entries[k].facts]),
   dependencies |-> Total([k \in 1..Len(entries) |-> entries[k].dependencies])]

(* Faulty variant: a limit itself is taken for too much. *)
AcceptedBelow(tree) ==
  /\ \A e \in tree : e.kind = "regular" /\ e.size <= MaxFileBytes
  /\ Totals(Entries(tree)).size <= MaxTotalBytes
  /\ Cardinality(tree) < MaxFiles

(* parseAndValidateRepositoryTree returns without an error. *)
Accepted(tree) ==
  /\ \A e \in tree : e.kind = "regular" /\ e.size <= MaxFileBytes
  /\ Totals(Entries(tree)).size <= MaxTotalBytes
  /\ Cardinality(tree) <= MaxFiles

(* What the limits ask of a tree, of the blobs as of the written files.   *)
Indexable(tree) ==
  LET total == Totals(Entries(tree))
  IN /\ \A e \in tree : /\ e.kind = "regular"
                        /\ {e.size, e.written} \subseteq 0..MaxFileBytes
     /\ Cardinality(tree) \in 0..MaxFiles
     /\ {total.size, total.written} \subseteq 0..MaxTotalBytes
     /\ total.facts + total.dependencies \in 0..MaxFacts

(* What an index of the tree says: one file of every entry. *)
Listing(tree) == {[path |-> PathOf[e.name], entry |-> e] : e \in tree}
=============================================================================
