---------------------------- MODULE MCProfileOverlay ----------------------------
EXTENDS ProfileOverlay, TLC

(* Ids and criteria are words, which count as one character.               *)
Letters == {"a", "A", "#", "'", "\"", "\\", "/", " ", ":", "b", "1", "module"}
WordCharacters == {"code-quality-review", "documentation-conflicts"} \cup DOMAIN RecipeOf

MCLowerCase == [c \in Letters \cup WordCharacters |-> IF c = "A" THEN "a" ELSE c]

MCDefaults == [f \in BoundaryFields |-> IF f = "boundaryMapRoots" THEN <<<<"a", ":", "module">>>> ELSE <<<<"b">>>>]

Fields(recipes, criteria) ==
  [f \in {"instructions", "include", "exclude", "sourceTypes", "ssotOrder", "requiredOutputs"} |-> <<<<"b">>>>]
    @@ [f \in recipes |-> <<<<"b">>>>] @@ ("criteria" :> criteria)

Quality == [id |-> "code-quality-review",
            fields |-> Fields(ToSet(ResponsibilityFields), <<<<"duplicate-responsibility">>>>)]
Documentation ==
  [id |-> "documentation-conflicts",
   fields |-> Fields(RecipeFields \ ToSet(ResponsibilityFields),
                     <<<<"duplicate-authority">>, <<"missing-owner">>, <<"stale-documentation">>>>)]

Section(field, texts) ==
  <<Line(field, FALSE, <<>>)>> \o [i \in DOMAIN texts |-> Line(None, TRUE, texts[i])]
Scalars(profile) ==
  <<<<Line("formatVersion", FALSE, <<"1">>)>>, <<Line("profileId", FALSE, <<profile.id>>)>>>>
Stray == <<Line("profileId", FALSE, <<"documentation-conflicts">>), Line(None, TRUE, <<"b">>)>>

(* What may stand after the dash of an item.                               *)
Texts == UNION {[1..n -> {"a", "A", "#", "'", " "}] : n \in 0..3}
Roots == {<<"a", ":", "module">>, <<" ", "a", " ", ":", "module">>, <<"'", "a", "#", ":", "module", "'">>,
          <<"a", "\\", "b", ":", "module">>, <<"a", ":", "b", ":", " ", "module">>, <<"a", ":", "b">>}

TextFields(profile) ==
  IF profile = Quality
  THEN {"exclude", "boundaryMapTestDirectoryNames", "boundaryMapContractPathMarkers"}
  ELSE {"duplicateAuthorityClaimPatterns", "ssotOrder"}

OverlayFiles(profile) ==
  {<<>>, <<Section("include", <<>>)>>,
   Append(Scalars(profile), Section("boundaryMapTestDirectoryNames", <<<<"a">>, <<"A">>>>)),
   Append(Scalars(profile), Section("boundaryMapRouteNameSuffixes", <<<<"a", "\"", "b">>, <<"\\", "b">>>>)), Append(Scalars(profile), Section("criteria", <<<<"missing-owner">>>>)),
   Append(Scalars(profile), Section("ssotOrder", <<>>)), <<Scalars(profile)[1], Section("include", <<<<"a">>>>), Stray>>}
    \cup {Append(Scalars(profile), Section(f, <<t>>)) : f \in TextFields(profile), t \in Texts}
    \cup {Append(Scalars(profile), Section("boundaryMapRoots", <<t>>)) : t \in Roots}
    \cup {Scalars(profile) \o <<Section(f, <<<<"a">>, <<"b">>>>), Section(g, <<<<"'", "a", " ", "'">>>>)>> :
            f, g \in {"include", "exclude", "archivePatterns", "generatedPatterns", "criteria",
                      "boundaryMapRoutePathMarkers", "duplicateResponsibilityTopLevelSymbolKinds"}}

MCInputs ==
  UNION {{[profile |-> p, sections |-> s, symptom |-> y] : s \in OverlayFiles(p), y \in DOMAIN Symptoms(p)} :
           p \in {Quality, Documentation}}

(* The first claim pattern of the built-in documentation profile begins    *)
(* with a word boundary.                                                   *)
PatternInputs ==
  {[profile |-> [Documentation EXCEPT !.fields["duplicateAuthorityClaimPatterns"] = <<<<"\\", "b", "a">>>>],
    sections |-> <<>>, symptom |-> "duplicate-authority-selection"]}
================================================================================
