---------------------------- MODULE RepositoryPaths ----------------------------
(***************************************************************************)
(* Paths inside a repository: runtime/repository-path.ts (the globs of     *)
(* scan profiles) and the resolution of Markdown link targets in           *)
(* runtime/repository-evidence-candidates.ts.  A path is the sequence of   *)
(* segments between its slashes: empty first with a leading slash, empty   *)
(* last with a trailing one, <<"", "">> a slash alone and <<>> no text.    *)
(* Where globs look into a segment it is a sequence of characters.         *)
(***************************************************************************)
EXTENDS Naturals, Sequences, SequencesExt

CONSTANT None   \* undefined

(***************************************************************************)
(* Globs.  matchGlobSegments and matchGlobSegmentChars recurse alike: a    *)
(* star takes any number of elements, anything else takes one that fits;   *)
(* from[j] are the positions from which the rest of s matches the pattern  *)
(* from j on.                                                              *)
(***************************************************************************)
Wildcard(s, p, star, fits) ==
  LET from[j \in 1 .. Len(p) + 1] ==
        IF j > Len(p) THEN {Len(s) + 1}
        ELSE IF p[j] = star
        THEN {i \in 1 .. Len(s) + 1 : \E k \in i .. Len(s) + 1 : k \in from[j + 1]}
        ELSE {i \in 1 .. Len(s) : <<s[i], p[j]>> \in fits /\ i + 1 \in from[j + 1]}
  IN 1 \in from[1]

CharsThatFit(value, pattern) ==
  {x \in ToSet(value) \X ToSet(pattern) : x[2] = "?" \/ x[2] = x[1]}

MatchesGlobSegment(value, pattern) == Wildcard(value, pattern, "*", CharsThatFit(value, pattern))

MatchesGlob(path, pattern) ==
  Wildcard(path, pattern, <<"*", "*">>,
    {x \in ToSet(path) \X ToSet(pattern) : MatchesGlobSegment(x[1], x[2])})

(***************************************************************************)
(* Link targets.                                                           *)
(***************************************************************************)
IsAbsolute(segments) == segments # <<>> /\ segments[1] = ""
EndsInSlash(segments) == segments # <<>> /\ Last(segments) = ""

(* pathPosix.normalize: "." and doubled slashes go, ".." takes the name    *)
(* before it, and at the root there is nothing above.                      *)
Step(stack, segment, absolute) ==
  IF segment \in {"", "."} THEN stack
  ELSE IF segment = ".." /\ stack # <<>> /\ Last(stack) # ".." THEN Front(stack)
  ELSE IF segment = ".." /\ absolute THEN stack
  ELSE Append(stack, segment)

Stacks(segments) ==
  LET stack[n \in 0 .. Len(segments)] ==
        IF n = 0 THEN <<>> ELSE Step(stack[n - 1], segments[n], IsAbsolute(segments))
  IN stack

(* The names that are left, with the slashes that were around them.        *)
Written(names, segments) ==
  LET start == IF IsAbsolute(segments) THEN <<"">> ELSE <<>>
      end   == IF EndsInSlash(segments) THEN <<"">> ELSE <<>>
  IN IF names # <<>> THEN start \o names \o end
     ELSE IF IsAbsolute(segments) THEN <<"", "">> ELSE <<".">> \o end

Normalized(segments) == Written(Stacks(segments)[Len(segments)], segments)

(* Faulty variant: ".." is looked at before the path is normalized. *)
ResolvedEarly(document, target) ==
  LET from == IF target.rooted THEN <<>> ELSE Front(document)
      path == Normalized(from \o target.segments)
  IN IF target.segments # <<>> /\ target.segments[1] = ".." /\ Len(document) = 1 THEN None
     ELSE IF path = <<".">> THEN None ELSE path

(* resolveRepositoryLinkTargetPath: a target with a leading slash starts   *)
(* at the root and is what follows that slash, any other starts in the     *)
(* directory of its document.  A second slash makes the path absolute.     *)
Resolved(document, target) ==
  LET from == IF target.rooted THEN <<>> ELSE Front(document)
      path == Normalized(from \o target.segments)
  IN IF path = <<".">> \/ path[1] = ".." THEN None ELSE path
=============================================================================
