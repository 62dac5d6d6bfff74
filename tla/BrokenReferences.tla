---------------------------- MODULE BrokenReferences ----------------------------
(***************************************************************************)
(* buildBrokenReferenceCandidates of                                       *)
(* runtime/repository-evidence-candidates.ts: Markdown links of covered    *)
(* documents that name a file, or a heading of a file, that the index does *)
(* not have.  A line is its heading slug and its links; the text of a link *)
(* target is what its parse gives: whether it has a scheme, whether it is  *)
(* rooted, its path segments and its fragment slug.  The index lists its   *)
(* chunks by ordinal.                                                      *)
(***************************************************************************)
EXTENDS RepositoryPaths, FiniteSets

CONSTANT Inputs   \* [files, chunks, included, limit]

VARIABLE input

InputsAreIndexes ==
  \A in \in Inputs :
    /\ DOMAIN in = {"files", "chunks", "included", "limit"}
    /\ \A c \in in.chunks :
         /\ c \in [ordinal : Nat, file : in.files, start : Nat \ {0}, kind : {c.kind},
                   lines : {c.lines}]
         /\ c.lines \in Seq({c.lines[n] : n \in DOMAIN c.lines})

Documentation(in) == {c \in in.chunks : c.kind = "documentation"}

(* resolveRepositoryLinkReference: no path means the document itself. *)
Path(document, link) ==
  IF ~link.rooted /\ link.segments = <<>> THEN document ELSE Resolved(document, link)
HasReference(document, link) == ~link.scheme /\ Path(document, link) # None

(* collectMarkdownHeadingsByFile reads every document, covered or not.     *)
(* Faulty variant: it reads covered documents only. *)
HeadingsOfCovered(in, path) ==
  (UNION {{c.lines[n].heading : n \in DOMAIN c.lines} :
            c \in {d \in Documentation(in) : d.file = path /\ path \in in.included}}) \ {None}

Headings(in, path) ==
  (UNION {{c.lines[n].heading : n \in DOMAIN c.lines} :
            c \in {d \in Documentation(in) : d.file = path}}) \ {None}

Broken(in, path, fragment) ==
  path \notin in.files \/ (fragment # None /\ fragment \notin Headings(in, path))

(* The links of the covered documents, by their place.                     *)
Links(in) ==
  {l \in [chunk : Documentation(in),
          line : UNION {DOMAIN c.lines : c \in Documentation(in)},
          at : UNION {UNION {DOMAIN c.lines[n].links : n \in DOMAIN c.lines} : c \in Documentation(in)}] :
     /\ l.chunk.file \in in.included
     /\ l.line \in DOMAIN l.chunk.lines /\ l.at \in DOMAIN l.chunk.lines[l.line].links}

LinkAt(l) == l.chunk.lines[l.line].links[l.at]

Reported(in) ==
  {l \in Links(in) : LET link == LinkAt(l) IN
     HasReference(l.chunk.file, link)
       /\ Broken(in, Path(l.chunk.file, link), link.fragment)}

(* Each by what its id is made of: the document, the line and the target.  *)
Id(l) == <<l.chunk.file, l.chunk.start + l.line - 1, LinkAt(l)>>
All(in) == {Id(l) : l \in Reported(in)}

(* The candidates, in order, until there are limit of them.                *)
Earlier(l, m) ==
  LET key(x) == <<x.chunk.ordinal, Id(x)[2], x.at>>
  IN \E n \in 1 .. 3 : key(l)[n] < key(m)[n] /\ \A k \in 1 .. n - 1 : key(l)[k] = key(m)[k]

Candidates(in) ==
  {Id(l) : l \in {m \in Reported(in) :
     Cardinality({k \in Reported(in) : Earlier(k, m)}) < in.limit}}

-----------------------------------------------------------------------------
Init == input \in Inputs
Next == UNCHANGED input
Spec == Init /\ [][Next]_input

(* Coverage says which documents are read for links, not what a link may   *)
(* name: with fewer documents covered, the reports of the others are the   *)
(* same and no reference breaks because its target is not covered.         *)
CoverageBreaksNothing ==
  \A fewer \in SUBSET input.included :
    All([input EXCEPT !.included = fewer]) = {c \in All(input) : c[1] \in fewer}

(* Deleting a file from the repository breaks the references to it and     *)
(* mends none: what else was reported, is reported, and nothing more.      *)
Without(in, gone) ==
  [in EXCEPT !.files = @ \ {gone}, !.chunks = {c \in @ : c.file # gone}]
DeletingBreaksItsReferences ==
  \A gone \in input.files :
    /\ \A c \in All(Without(input, gone)) \ All(input) : Path(c[1], c[3]) = gone
    /\ {c \in All(input) : c[1] # gone} \subseteq All(Without(input, gone))

(* Where a document is cut into chunks does not matter: every report names *)
(* the same line of the file.                                              *)
Cut(chunk, n) ==
  {[chunk EXCEPT !.lines = SubSeq(@, 1, n)],
   [chunk EXCEPT !.lines = SubSeq(@, n + 1, Len(@)), !.start = @ + n]}
CuttingChangesNothing ==
  \A c \in input.chunks : \A n \in 1 .. Len(c.lines) - 1 :
    All([input EXCEPT !.chunks = (@ \ {c}) \cup Cut(c, n)]) = All(input)

(* "broken-references includes missing repository-relative files and       *)
(* missing Markdown heading fragments" (docs/specs/repository-indexing.md: *)
(* 510): what is reported is a path at which the repository has neither a  *)
(* file nor a directory, or a fragment of a Markdown document without that *)
(* heading.                                                                *)
ReportedIsMissing ==
  \A c \in Candidates(input) :
    LET target == Path(c[1], c[3])
        path == SelectSeq(target, LAMBDA s : s \notin {"", "."})
    IN IF target \in input.files
       THEN \E chunk \in Documentation(input) : chunk.file = target
       ELSE IsAbsolute(target) \/ \A f \in input.files : ~IsPrefix(path, f)
=============================================================================
