----------------------------- MODULE GlobsAndLinks -----------------------------
(***************************************************************************)
(* What the globs of a scan profile mean and where the links of a document *)
(* lead, without the searches and the normalization of RepositoryPaths.    *)
(***************************************************************************)
EXTENDS RepositoryPaths, Integers, FiniteSets

CONSTANT Inputs   \* [kind, path, glob] or [kind, document, target]

VARIABLE input

IsList(s) == s \in Seq(ToSet(s))
InputsArePaths ==
  \A in \in Inputs :
    /\ in.kind = "glob" =>
         /\ IsList(in.path) /\ IsList(in.glob)
         /\ \A s \in ToSet(in.path) \cup ToSet(in.glob) : IsList(s)
    /\ in.kind = "link" =>
         /\ IsList(in.document) /\ in.document # <<>> /\ "" \notin ToSet(in.document)
         /\ in.target.rooted \in BOOLEAN
         /\ IsList(in.target.segments) /\ in.target.segments # <<"">>
         /\ in.target.rooted \/ (in.target.segments # <<>> /\ in.target.segments[1] # "")

Init == input \in Inputs
Next == UNCHANGED input
Spec == Init /\ [][Next]_input

(* What a glob means, without the search: the path can be cut into as many *)
(* consecutive pieces as the glob has elements, a star's piece of any      *)
(* length and any other's of one element that fits.                        *)
CutsInto(s, p, star, fits) ==
  \E cut \in [0 .. Len(p) -> 0 .. Len(s)] :
    /\ cut[0] = 0 /\ cut[Len(p)] = Len(s)
    /\ \A j \in 1 .. Len(p) :
         IF p[j] = star THEN cut[j - 1] <= cut[j]
         ELSE cut[j] = cut[j - 1] + 1 /\ <<s[cut[j]], p[j]>> \in fits

SegmentFits(value, pattern) == CutsInto(value, pattern, "*", CharsThatFit(value, pattern))

(* "Applies deterministic ... *, **, ? segment matching"                   *)
(* (repository-path.ts:4): the two nested searches find a match exactly    *)
(* when one exists, whatever the order in which stars are tried.           *)
GlobIsItsLanguage ==
  input.kind = "glob" =>
    (MatchesGlob(input.path, input.glob) <=>
       CutsInto(input.path, input.glob, <<"*", "*">>,
         {x \in ToSet(input.path) \X ToSet(input.glob) : SegmentFits(x[1], x[2])}))

(* A link resolves to the place a reader walks to: no step may leave the   *)
(* repository, and the names that are left are those no later step goes    *)
(* back above, one at each depth.  Behind two slashes the walk is of the   *)
(* file system: it goes no higher than its root, and stays outside.        *)
Walk(in) == (IF in.target.rooted THEN <<>> ELSE Front(in.document)) \o in.target.segments

Down(segment) == IF segment \in {"", "."} THEN 0 ELSE IF segment = ".." THEN -1 ELSE 1

Deeper(depth, segment, absolute) ==
  IF segment = ".." /\ absolute /\ depth = 0 THEN 0 ELSE depth + Down(segment)

(* How deep the walk is after n segments. *)
Depths(walk) ==
  LET depth[n \in 0 .. Len(walk)] ==
        IF n = 0 THEN 0 ELSE Deeper(depth[n - 1], walk[n], IsAbsolute(walk))
  IN depth

Names(walk, depth) ==
  [l \in 1 .. depth[Len(walk)] |->
     walk[CHOOSE n \in DOMAIN walk :
            /\ Down(walk[n]) = 1 /\ depth[n] = l
            /\ \A k \in n .. Len(walk) : depth[k] >= l]]

LinksLeadWhereTheyWalk ==
  input.kind = "link" =>
    LET walk == Walk(input)
        depth == Depths(walk)
        leaves == \E n \in 0 .. Len(walk) : depth[n] < 0
        isRoot == depth[Len(walk)] = 0 /\ ~IsAbsolute(walk) /\ ~EndsInSlash(walk)
        found == Resolved(input.document, input.target)
    IN /\ found = IF leaves \/ isRoot THEN None ELSE Written(Names(walk, depth), walk)
       /\ found # None => (found[1] = "" <=> IsAbsolute(input.target.segments))
=============================================================================
