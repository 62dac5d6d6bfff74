------------------------- MODULE MCRepositoryEvidence -------------------------
(***************************************************************************)
(* Model checking of RepositoryEvidence, by enumeration of small inputs    *)
(* for each part.                                                          *)
(***************************************************************************)
EXTENDS RepositoryEvidence, SequencesExt

(* Content: every file of up to five lines for the kinds of segments,      *)
(* every pair of marks for the kinds of paths, and budgets with little or  *)
(* nothing left.                                                           *)
SomeMarks == {"docs/", ".md", "/test/", ".json", "dotfile", "dist/", "/vendor/"}
Untouched == [chunks |-> 0, facts |-> 0]

ContentCases ==
  {[marks |-> m, binary |-> FALSE, lines |-> l, spent |-> Untouched] :
     m \in {{".md"}, {".json"}, {}},
     l \in BoundedSeq({"blank", "heading", "indented", "text"}, 5) \ {<<>>}}
  \cup
  {[marks |-> m, binary |-> b, lines |-> <<"text", "blank", "text">>, spent |-> Untouched] :
     m \in {{p, q} : p, q \in SomeMarks}, b \in BOOLEAN}
  \cup
  {[marks |-> {}, binary |-> FALSE, lines |-> <<"text", "text", "text", "text", "text">>,
    spent |-> [chunks |-> c, facts |-> f]] : c \in 0 .. 6, f \in 6 .. 8}

-----------------------------------------------------------------------------
(* Every short path against every short glob, and every short link target  *)
(* from documents at three depths; only what follows the slash of a rooted *)
(* target may begin with another or be empty.                              *)
Segments == {<<"a">>, <<"a", "b">>}
GlobSegments == {<<"a">>, <<"*">>, <<"?">>, <<"a", "*">>, <<"*", "b">>, <<"*", "*">>}
LinkTargets ==
  {t \in [rooted : BOOLEAN, segments : BoundedSeq({"a", ".", "..", ""}, 4)] :
     /\ t.segments # <<"">>
     /\ t.rooted \/ (t.segments # <<>> /\ t.segments[1] # "")}

PathCases ==
  {[kind |-> "glob", path |-> p, glob |-> g] :
     p \in BoundedSeq(Segments, 4), g \in BoundedSeq(GlobSegments, 3)}
  \cup
  {[kind |-> "link", document |-> d, target |-> t] :
     d \in {<<"m">>, <<"d", "m">>, <<"d", "e", "m">>}, t \in LinkTargets}

-----------------------------------------------------------------------------
(* Documents: two of a chunk of two lines, and one of two chunks beside    *)
(* another that is ignored or not.                                         *)
Nothing == [subject |-> {}, context |-> {}, side |-> ""]
PlainLine == [heading |-> {}, status |-> Nothing, selection |-> Nothing,
              authority |-> FALSE, topic |-> {}, marker |-> FALSE]
StatusClaim(context, polarity) ==
  [subject |-> {"api"}, context |-> context,
   side |-> [group |-> "support", polarity |-> polarity]]
SelectionClaim(subject) ==
  [subject |-> subject, context |-> {"auth", "store"}, side |-> "default"]

DocumentLines ==
  {[PlainLine EXCEPT !.heading = {"auth", "setup"}],
   [PlainLine EXCEPT !.status = StatusClaim({}, "positive")],
   [PlainLine EXCEPT !.status = StatusClaim({"auth"}, "negative")],
   [PlainLine EXCEPT !.selection = SelectionClaim({"x"})],
   [PlainLine EXCEPT !.selection = SelectionClaim({"x", "y"}),
                     !.status = StatusClaim({"auth"}, "positive")],
   [PlainLine EXCEPT !.authority = TRUE, !.topic = {"doc", "auth"}, !.marker = TRUE]}

DocumentChunk(n, f, start, lines) == [ordinal |-> n, file |-> f, start |-> start, lines |-> lines]
About(current) ==
  [f \in {"a", "b"} |-> [ignored |-> FALSE, keyword |-> TRUE, operational |-> TRUE,
                         current |-> f = "a" \/ current]]

DocumentCases ==
  {[chunks |-> {DocumentChunk(0, "a", 1, <<l1, l2>>), DocumentChunk(1, "b", 1, <<m1, m2>>)}, last |-> 1,
    about |-> About(current), order |-> order, limit |-> 2] :
     l1, l2, m1, m2 \in DocumentLines, current \in BOOLEAN,
     order \in {<<>>, <<{"a"}>>, <<{"b"}, {"a", "b"}>>}}
  \cup
  {[chunks |-> {DocumentChunk(0, "a", 1, <<l1>>), DocumentChunk(1, "a", 2, <<l2>>),
                DocumentChunk(2, "b", 1, <<m1>>)}, last |-> 2,
    about |-> [About(TRUE) EXCEPT !["b"].ignored = ignored], order |-> <<{"a"}>>, limit |-> 1] :
     l1, l2, m1 \in DocumentLines, ignored \in BOOLEAN}

-----------------------------------------------------------------------------
(* Links from a guide in docs/: to itself, the readme, the code, a         *)
(* directory, a file that is not there, the root, and out of the           *)
(* repository.                                                             *)
Link(segments, fragment) ==
  [scheme |-> FALSE, rooted |-> FALSE, segments |-> segments, fragment |-> fragment]

Guide == <<"docs", "guide">>
Readme == <<"readme">>
Main == <<"src", "main">>

Links == {Link(<<>>, "setup"), Link(<<>>, "usage"),
          Link(<<"..", "readme">>, None), Link(<<"..", "readme">>, "setup"),
          Link(<<"..", "src", "main">>, None), Link(<<"..", "src", "main">>, "l10"),
          Link(<<"..", "src", "">>, None), Link(<<"gone">>, None), Link(<<"..", "">>, None),
          Link(<<"..", "..", "x">>, None),
          [Link(<<"readme">>, "usage") EXCEPT !.rooted = TRUE],
          [Link(<<"", "readme">>, None) EXCEPT !.rooted = TRUE],
          [Link(<<"x">>, None) EXCEPT !.scheme = TRUE]}

LinkLine(heading, links) == [heading |-> heading, links |-> links]

ReferenceCases ==
  {[files |-> {Guide, Readme, Main},
    chunks |-> {[ordinal |-> 0, file |-> Guide, start |-> 3, kind |-> "documentation",
                 lines |-> <<LinkLine(None, <<a>>), LinkLine(h, <<b, c>>)>>],
                [ordinal |-> 1, file |-> Readme, start |-> 1, kind |-> "documentation",
                 lines |-> <<LinkLine(g, <<Link(<<"docs", "guide">>, "setup")>>)>>],
                [ordinal |-> 2, file |-> Main, start |-> 1, kind |-> "code",
                 lines |-> <<LinkLine(None, <<>>)>>]},
    included |-> included, limit |-> 2] :
     a, b \in Links, c \in {Link(<<>>, "usage"), Link(<<"..", "src", "main">>, "l10")},
     h, g \in {None, "setup"}, included \in {{Guide, Readme}, {Guide}}}

-----------------------------------------------------------------------------
(* Responsibilities: three code files and a fourth that is only ever a     *)
(* target, with symbols on lines of their own.                              *)
Sym(f, name, at) ==
  [key |-> 10 * f + at, file |-> f, name |-> name, line |-> at, top |-> TRUE, visible |-> TRUE]
ImportOf(f, path) == [file |-> f, kind |-> "import", path |-> path, text |-> None]
Loose(f, kind, text) == [file |-> f, kind |-> kind, path |-> None, text |-> text]

DuplicateCases ==
  {[code |-> code, symbols |-> symbols, dependencies |-> dependencies, limit |-> limit] :
     code \in {{1, 2, 3}, {1, 3}}, limit \in {1, 20},
     symbols \in
       {{Sym(1, 1, 1), Sym(2, 1, 1)},
        {Sym(1, 1, 1), Sym(1, 2, 5), Sym(2, 2, 1), Sym(2, 1, 5), Sym(3, 2, 3)},
        {Sym(3, 1, 1), Sym(1, 1, 7), Sym(1, 1, 3), Sym(2, 2, 2), Sym(3, 2, 9)},
        {Sym(2, 1, 1), [Sym(1, 1, 1) EXCEPT !.visible = FALSE], Sym(3, 1, 2),
          [Sym(1, 1, 3) EXCEPT !.top = FALSE]}},
     dependencies \in SUBSET
       {ImportOf(1, 4), ImportOf(2, 4), ImportOf(1, 2), ImportOf(1, 3), ImportOf(1, 1),
        Loose(1, "import", 9), Loose(3, "import", 9), Loose(2, "call", 9), Loose(3, "call", 9)}}

-----------------------------------------------------------------------------
(* Boundaries. *)
FileOf(path, kind) ==
  [path |-> path, kind |-> kind, marker |-> FALSE, launcher |-> FALSE, order |-> 2]

(* Code with a test beside it, a test directory inside it, a nested root,  *)
(* a suite of two tests, a script, documents in and beside a boundary, and *)
(* code that no rule covers.                                               *)
CodeA == <<"src", "a", "x.ts">>
TestA == <<"src", "a", "x.t.ts">>
SuiteA == <<"src", "a", "tests", "u.ts">>
CodeAB == <<"src", "a", "b", "y.ts">>
Suite == <<"tests", "t.ts">>
SuiteToo == <<"tests", "v.ts">>
Script == <<"tools", "run">>
Library == <<"tools", "run", "lib", "y.ts">>
DocA == <<"docs", "a">>
ReadmeB == <<"src", "a", "b", "readme">>
Stray == <<"other", "z.ts">>

SomeFiles == <<FileOf(DocA, "documentation"), FileOf(Stray, "code"),
             [FileOf(ReadmeB, "documentation") EXCEPT !.marker = TRUE],
             FileOf(CodeAB, "code"), FileOf(SuiteA, "code"), FileOf(TestA, "test"), FileOf(CodeA, "code"),
             FileOf(Suite, "test"), FileOf(SuiteToo, "test"),
             [FileOf(Script, "code") EXCEPT !.launcher = TRUE, !.order = 1],
             FileOf(Library, "code")>>

Symbol(key, f, public) == [key |-> key, file |-> f, public |-> public]
SomeSymbols == {Symbol("A", CodeA, TRUE), Symbol("U", SuiteA, FALSE),
              Symbol("B", CodeAB, FALSE), Symbol("T", Suite, FALSE), Symbol("R", ReadmeB, TRUE)}

Dependency(f, kind, path, symbol) ==
  [file |-> f, kind |-> kind, path |-> path, symbol |-> symbol]
SomeDependencies ==
  {Dependency(CodeA, "implements", CodeAB, None), Dependency(CodeAB, "import", None, "A"),
   Dependency(SuiteA, "implements", CodeA, None), Dependency(Suite, "import", CodeAB, None),
   Dependency(TestA, "import", None, "T")}

Rule(prefix, kind) == [prefix |-> prefix, kind |-> kind]
Top == {Rule(<<"src">>, "module"), Rule(<<"tools">>, "tool")}
SomeRules == {Top, Top \cup {Rule(<<"src", "a", "b">>, "service")}}

(* Two directories whose names differ in a separator. *)
Dash == <<"src", "a-b", "x.ts">>
Underscore == <<"src", "a_b", "x.ts">>
CollidingCases ==
  {[files |-> <<FileOf(Dash, "code"), FileOf(Underscore, "code")>>,
    symbols |-> {Symbol("D", Dash, TRUE), Symbol("S", Underscore, TRUE)},
    dependencies |-> {}, included |-> {Dash, Underscore}, rules |-> Top]}

BoundaryCases ==
  CollidingCases \cup
  {[files |-> SomeFiles, symbols |-> SomeSymbols, dependencies |-> dependencies,
    included |-> included, rules |-> rules] :
     dependencies \in {d \in SUBSET SomeDependencies : Cardinality(d) <= 2 \/ d = SomeDependencies},
     rules \in SomeRules,
     included \in {i \in SUBSET {f.path : f \in ToSet(SomeFiles)} :
       /\ Stray \in i => i \subseteq {Stray, CodeA}
       /\ CodeA \in i /\ (TestA \in i <=> Suite \in i) /\ (DocA \in i <=> ReadmeB \in i)
       /\ (Script \in i <=> Library \in i) /\ (Suite \in i <=> SuiteToo \in i)}}

SegmentWords ==
  [s \in {"src", "a", "b", "x.ts", "x.t.ts", "tests", "u.ts", "y.ts", "t.ts", "v.ts", "tools", "run", "lib",
          "docs", "readme", "other", "z.ts", "a-b", "a_b"} |->
     IF s \in {"a-b", "a_b"} THEN <<"a", "b">> ELSE <<s>>]
DottedSegments == {"x.ts", "x.t.ts", "u.ts", "y.ts", "t.ts", "v.ts", "z.ts"}
=============================================================================
