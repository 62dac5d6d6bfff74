----------------------------- MODULE ProfileOverlay -----------------------------
(***************************************************************************)
(* The repository-local overlay of a scan profile: the reader of its small *)
(* YAML subset, what an overlay makes of a profile and of the boundary-map *)
(* configuration, and the scaffold suggested for a calibration symptom,    *)
(* which the user writes back into the overlay.  A value is a sequence of  *)
(* characters, and only those the reader and the writer tell apart; a      *)
(* criterion is its id, and the name and description, which only label a   *)
(* profile, are left out.                                                  *)
(***************************************************************************)
EXTENDS Integers, Sequences, SequencesExt

CONSTANTS
  None,
  Inputs,     \* records: profile, sections (of the overlay file), symptom
  Defaults,   \* the boundary-map configuration without an overlay
  LowerCase,  \* [character -> its lower case]
  Kinds       \* the boundary kinds

VARIABLES input, result
vars == <<input, result>>

--------------------------------------------------------------------------------
(* Fields and symptoms.                                                    *)

ScopeFields == {"include", "exclude"}
ExcludeFields == <<"exclude", "archivePatterns", "legacyPatterns", "generatedPatterns">>
AuthorityFields ==
  <<"duplicateAuthorityClaimPatterns", "duplicateAuthorityIgnoredTopicTokens",
    "duplicateAuthorityGenericTopicTokens">>
OwnerFields ==
  <<"missingOwnerMaterialPaths", "missingOwnerMaterialFileNames", "missingOwnerIgnoredPathMarkers",
    "missingOwnerPathKeywords", "missingOwnerTextKeywords">>
StaleFields ==
  <<"staleDocumentationMaterialFileNames", "staleDocumentationIgnoredPathMarkers",
    "staleDocumentationPathKeywords", "staleDocumentationTextKeywords",
    "staleDocumentationNonCurrentPathMarkers", "staleDocumentationNonCurrentTextMarkers">>
ResponsibilityFields ==
  <<"duplicateResponsibilityTopLevelSymbolKinds", "duplicateResponsibilityIgnorePathGlobs">>
StructureFields ==
  <<"boundaryMapContractPathMarkers", "boundaryMapContractFileStems", "boundaryMapTestDirectoryNames",
    "boundaryMapRoutePathMarkers", "boundaryMapRouteNameSuffixes",
    "boundaryMapApiPathMarkers", "boundaryMapApiNameSuffixes">>
BoundaryFields == ToSet(StructureFields) \cup {"boundaryMapRoots", "boundaryMapIgnoredTokens"}
RecipeFields == UNION {ToSet(s) : s \in {AuthorityFields, OwnerFields, StaleFields, ResponsibilityFields}}
ReplacedFields == {"instructions", "sourceTypes", "criteria", "ssotOrder", "requiredOutputs"}
ListFields == ReplacedFields \cup RecipeFields \cup BoundaryFields \cup ToSet(ExcludeFields) \cup {"include"}

(* What a criterion needs the profile to define.                           *)
RecipeOf ==
  [c \in {"duplicate-authority", "missing-owner", "stale-documentation", "duplicate-responsibility"} |->
     CASE c = "duplicate-authority" -> AuthorityFields
       [] c = "missing-owner" -> OwnerFields
       [] c = "stale-documentation" -> StaleFields
       [] c = "duplicate-responsibility" -> ResponsibilityFields]

Symptoms(profile) ==
  IF profile.id = "code-quality-review"
  THEN [s \in {"scope-roots", "boundary-map-heuristics", "duplicate-responsibility-selection"} |->
          CASE s = "scope-roots" ->
                 <<"include", "exclude", "boundaryMapRoots", "boundaryMapTestDirectoryNames">>
            [] s = "boundary-map-heuristics" -> StructureFields
            [] s = "duplicate-responsibility-selection" -> ResponsibilityFields]
  ELSE [s \in {"duplicate-authority-selection", "missing-owner-materiality",
               "stale-documentation-currentness", "ssot-order"} |->
          CASE s = "duplicate-authority-selection" -> AuthorityFields
            [] s = "missing-owner-materiality" -> OwnerFields
            [] s = "stale-documentation-currentness" -> StaleFields
            [] s = "ssot-order" -> <<"ssotOrder">>]

--------------------------------------------------------------------------------
(* Text.                                                                   *)

Characters == DOMAIN LowerCase
Text == Seq(Characters)

Blank == " "
Hash == "#"
Colon == ":"
SingleQuote == "'"
DoubleQuote == "\""
Backslash == "\\"
Slash == "/"
Quotes == {SingleQuote, DoubleQuote}

Trim(s) ==
  LET ink == {i \in DOMAIN s : s[i] # Blank}
  IN IF ink = {} THEN <<>>
     ELSE SubSeq(s, CHOOSE i \in ink : \A j \in ink : i <= j, CHOOSE i \in ink : \A j \in ink : j <= i)

(* The quote that is open after the first n characters: a quote inside the *)
(* other kind does not count.                                              *)
OpenQuote(s) ==
  LET open[n \in 0 .. Len(s)] ==
        IF n = 0 THEN None
        ELSE IF s[n] \in Quotes /\ open[n - 1] \in {None, s[n]}
        THEN IF open[n - 1] = None THEN s[n] ELSE None
        ELSE open[n - 1]
  IN open

StripComment(s) ==
  LET marks == {i \in DOMAIN s : s[i] = Hash /\ OpenQuote(s)[i - 1] = None}
  IN IF marks = {} THEN s
     ELSE SubSeq(s, 1, (CHOOSE i \in marks : \A j \in marks : i <= j) - 1)

Scalar(s) ==
  LET t == Trim(s)
  IN IF Len(t) >= 2 /\ t[1] \in Quotes /\ t[Len(t)] = t[1] THEN SubSeq(t, 2, Len(t) - 1) ELSE t

(* JSON.stringify                                                          *)
Quoted(s) ==
  LET escaped[n \in 0 .. Len(s)] ==
        IF n = 0 THEN <<>>
        ELSE escaped[n - 1] \o (IF s[n] \in {DoubleQuote, Backslash} THEN <<Backslash, s[n]>> ELSE <<s[n]>>)
  IN <<DoubleQuote>> \o escaped[Len(s)] \o <<DoubleQuote>>

--------------------------------------------------------------------------------
(* The reader: a line is a key with what follows its colon, an item of a   *)
(* list, or neither (key None, item FALSE).  A section is a key with the   *)
(* lines below it.                                                         *)

ScalarFields == {"formatVersion", "profileId"}

Line(key, item, text) == [key |-> key, item |-> item, text |-> text]

Reading(overlay, active, failed) == [overlay |-> overlay, active |-> active, failed |-> failed]
Refuse(state) == Reading(state.overlay, state.active, TRUE)

Written(overlay, key, value) ==
  [k \in DOMAIN overlay \cup {key} |-> IF k = key THEN value ELSE overlay[k]]

(* Faulty variant: a scalar leaves the list before it open.                *)
ReadKeyOpen(state, key, text) ==
  IF key \in DOMAIN state.overlay THEN Refuse(state)
  ELSE IF key \in ScalarFields /\ text # <<>>
  THEN Reading(Written(state.overlay, key, Scalar(text)), state.active, FALSE)
  ELSE IF key \in ListFields /\ text = <<>>
  THEN Reading(Written(state.overlay, key, <<>>), key, FALSE)
  ELSE Refuse(state)

ReadKey(state, key, text) ==
  IF key \in DOMAIN state.overlay THEN Refuse(state)
  ELSE IF key \in ScalarFields /\ text # <<>>
  THEN Reading(Written(state.overlay, key, Scalar(text)), None, FALSE)
  ELSE IF key \in ListFields /\ text = <<>>
  THEN Reading(Written(state.overlay, key, <<>>), key, FALSE)
  ELSE Refuse(state)

ReadItem(state, text) ==
  IF state.active = None \/ text = <<>> THEN Refuse(state)
  ELSE LET before == state.overlay[state.active]
       IN Reading(Written(state.overlay, state.active, Append(before, Scalar(text))), state.active, FALSE)

ReadLine(state, line) ==
  LET text == Trim(StripComment(line.text))
  IN IF state.failed THEN state
     ELSE IF line.key # None THEN ReadKey(state, line.key, text)
     ELSE IF line.item THEN ReadItem(state, text)
     ELSE IF text = <<>> THEN state
     ELSE Refuse(state)

ReadSection(state, section) ==
  LET after[n \in 0 .. Len(section)] ==
        IF n = 0 THEN state ELSE ReadLine(after[n - 1], section[n])
  IN after[Len(section)]

Read(sections) ==
  LET after[n \in 0 .. Len(sections)] ==
        IF n = 0 THEN Reading(<<>>, None, FALSE) ELSE ReadSection(after[n - 1], sections[n])
  IN after[Len(sections)]

Readable(sections) == ~Read(sections).failed /\ ScalarFields \subseteq DOMAIN Read(sections).overlay

--------------------------------------------------------------------------------
(* What an overlay means.                                                  *)

ListOf(overlay, field) == IF field \in DOMAIN overlay THEN overlay[field] ELSE <<>>

Forward(path) == [i \in DOMAIN path |-> IF path[i] = Backslash THEN Slash ELSE path[i]]

(* The last colon separates the kind; a path is written with slashes.      *)
RootRule(value) ==
  LET colons == {i \in DOMAIN value : value[i] = Colon}
      at == CHOOSE i \in colons : \A j \in colons : j <= i
  IN [prefix |-> Forward(Trim(SubSeq(value, 1, at - 1))),
      kind |-> Trim(SubSeq(value, at + 1, Len(value)))]

IsRootRule(value) ==
  /\ \E i \in DOMAIN value : value[i] = Colon
  /\ RootRule(value).prefix # <<>>
  /\ \E kind \in Kinds : RootRule(value).kind = <<kind>>

WriteRootRule(rule) == rule.prefix \o <<Colon>> \o rule.kind

(* validateStringArray                                                     *)
IsStringArray(values) == IsInjective(values) /\ \A i \in DOMAIN values : Trim(values[i]) # <<>>

ValidOverlay(overlay) ==
  /\ overlay["formatVersion"] = <<"1">>
  /\ \A f \in ListFields \cap DOMAIN overlay :
       /\ IsStringArray(overlay[f])
       /\ f \in {"criteria", "requiredOutputs"} => overlay[f] # <<>>
       /\ f = "boundaryMapRoots" => \A i \in DOMAIN overlay[f] : IsRootRule(overlay[f][i])

ValidProfile(fields) ==
  /\ \A f \in {"instructions", "include", "sourceTypes", "ssotOrder", "criteria", "requiredOutputs"} :
       fields[f] # <<>>
  /\ \A c \in DOMAIN RecipeOf :
       <<c>> \in ToSet(fields["criteria"]) =>
         /\ ToSet(RecipeOf[c]) \subseteq DOMAIN fields
         /\ c = "duplicate-responsibility" => fields[RecipeOf[c][1]] # <<>>

(* uniqueStable                                                            *)
Unique(s) ==
  LET seen[n \in 0 .. Len(s)] ==
        IF n = 0 THEN <<>>
        ELSE IF s[n] \in ToSet(seen[n - 1]) THEN seen[n - 1] ELSE Append(seen[n - 1], s[n])
  IN seen[Len(s)]

(* copyOptionalList: a field of the profile stays defined.                 *)
Kept(base, overlay) ==
  (DOMAIN base \cup (DOMAIN overlay \cap (RecipeFields \cup ReplacedFields))) \ ScopeFields

(* The scope grows, everything else is replaced.                           *)
Merged(base, overlay) ==
  [f \in ScopeFields \cup Kept(base, overlay) |->
     CASE f = "include" -> Unique(base[f] \o ListOf(overlay, f))
       [] f = "exclude" ->
            Unique(base[f] \o ListOf(overlay, f) \o ListOf(overlay, "archivePatterns")
                     \o ListOf(overlay, "legacyPatterns") \o ListOf(overlay, "generatedPatterns"))
       [] OTHER -> IF f \in DOMAIN overlay THEN overlay[f] ELSE base[f]]

(* Otherwise SCAN_PROFILE_OVERLAY_INVALID; without a file there is nothing *)
(* to be wrong.                                                            *)
Accepted(profile, sections) ==
  LET overlay == Read(sections).overlay
  IN sections # <<>> =>
       /\ Readable(sections)
       /\ ValidOverlay(overlay)
       /\ overlay["profileId"] = <<profile.id>>
       /\ ValidProfile(Merged(profile.fields, overlay))

(* The profile a scan of this overlay file runs with.                      *)
Effective(profile, sections) ==
  IF sections = <<>> THEN profile
  ELSE [profile EXCEPT !.fields = Merged(@, Read(sections).overlay)]

Lower(s) == [i \in DOMAIN s |-> LowerCase[s[i]]]

(* What the configuration makes of one value of a field.                   *)
Normal(field, value) ==
  CASE field = "boundaryMapRoots" -> WriteRootRule(RootRule(value))
    [] field = "boundaryMapContractPathMarkers" -> value
    [] OTHER -> Lower(value)

BuildConfig(sections) ==
  LET overlay == Read(sections).overlay
  IN [f \in BoundaryFields |->
        LET values == IF f \in DOMAIN overlay THEN overlay[f] ELSE Defaults[f]
        IN [i \in DOMAIN values |-> Normal(f, values[i])]]

--------------------------------------------------------------------------------
(* The suggestion.                                                         *)

(* Otherwise SCAN_PROFILE_OVERLAY_FIELD_UNDEFINED.                         *)
Answerable(profile, symptom) ==
  ToSet(Symptoms(profile)[symptom]) \subseteq BoundaryFields \cup DOMAIN profile.fields

Values(profile, config, field) ==
  IF field \in BoundaryFields THEN config[field] ELSE profile.fields[field]

WriteSection(key, scalar, values) ==
  [i \in 1 .. Len(values) + 1 |->
     IF i = 1 THEN Line(key, FALSE, scalar) ELSE Line(None, TRUE, Quoted(values[i - 1]))]

Scaffold(profile, config, symptom) ==
  LET fields == Symptoms(profile)[symptom]
  IN <<WriteSection("formatVersion", <<"1">>, <<>>), WriteSection("profileId", <<profile.id>>, <<>>)>>
       \o [i \in DOMAIN fields |-> WriteSection(fields[i], <<>>, Values(profile, config, fields[i]))]

(* The user replaces the sections of the file that the scaffold has.       *)
Pasted(sections, scaffold) ==
  LET pasted[n \in 0 .. Len(sections)] ==
        IF n = 0 THEN scaffold
        ELSE IF \E i \in DOMAIN scaffold : scaffold[i][1].key = sections[n][1].key
        THEN pasted[n - 1]
        ELSE Append(pasted[n - 1], sections[n])
  IN pasted[Len(sections)]

--------------------------------------------------------------------------------
Suggest(in) ==
  LET effective == Effective(in.profile, in.sections)
      config == BuildConfig(in.sections)
  IN IF ~Accepted(in.profile, in.sections) THEN [status |-> "invalid"]
     ELSE IF ~Answerable(effective, in.symptom) THEN [status |-> "undefined"]
     ELSE [status |-> "suggested", profile |-> effective, config |-> config,
           scaffold |-> Scaffold(effective, config, in.symptom)]

Init == input \in Inputs /\ result = Suggest(input)
Next == UNCHANGED vars
Spec == Init /\ [][Next]_vars

--------------------------------------------------------------------------------
(* What is given.  A built-in profile is valid, its lists too, and defines *)
(* what its symptoms ask for (initial-scan-profiles.ts); it has no fields  *)
(* of the boundary map, and its id is one word.                            *)

IsList(s) == s \in Seq(ToSet(s))

IsProfile(profile) ==
  /\ profile = [id |-> profile.id, fields |-> profile.fields]
  /\ profile.id \in Characters \ {Blank, Hash}
  /\ ScopeFields \cup ReplacedFields \subseteq DOMAIN profile.fields
  /\ DOMAIN profile.fields \subseteq ScopeFields \cup ReplacedFields \cup RecipeFields
  /\ profile.fields \in [DOMAIN profile.fields -> Seq(Text)]
  /\ \A f \in DOMAIN profile.fields : IsStringArray(profile.fields[f])
  /\ ValidProfile(profile.fields)
  /\ \A s \in DOMAIN Symptoms(profile) : Answerable(profile, s)

IsSection(section) ==
  /\ IsList(section) /\ section # <<>>
  /\ \A i \in DOMAIN section : section[i].text \in Text /\ (section[i].key # None <=> i = 1)

InputsAreOverlays ==
  \A in \in Inputs :
    /\ DOMAIN in = {"profile", "sections", "symptom"}
    /\ IsProfile(in.profile)
    /\ IsList(in.sections) /\ \A i \in DOMAIN in.sections : IsSection(in.sections[i])
    /\ in.symptom \in DOMAIN Symptoms(in.profile)

DefaultsAreNormal ==
  /\ LowerCase \in [Characters -> Characters]
  /\ \A c \in Characters : LowerCase[LowerCase[c]] = LowerCase[c] /\ (LowerCase[c] = Blank <=> c = Blank)
  /\ \A f \in BoundaryFields : Defaults[f] \in Seq(Text) /\ IsStringArray(Defaults[f])
  /\ \A i \in DOMAIN Defaults["boundaryMapRoots"] : IsRootRule(Defaults["boundaryMapRoots"][i])
  /\ {Blank, Hash, Colon} \cap Kinds = {}
  /\ {"1", Slash, Colon, DoubleQuote} \cup Kinds \subseteq Characters
  /\ None \notin ListFields \cup ScalarFields \cup Quotes

--------------------------------------------------------------------------------
(* A section of the file means the same wherever it stands: no item is     *)
(* taken into the list of another key (parseScanProfileOverlayYaml).       *)
SectionsStandAlone == Suggest([input EXCEPT !.sections = Reverse(@)]) = result

(* Every symptom the overlay help offers for a built-in profile gets a     *)
(* scaffold, whatever valid overlay is active: no overlay takes a field    *)
(* away that a later suggestion needs (copyOptionalList).                  *)
OfferedSymptomsAreAnswered == result.status # "undefined"

(* What the reader cannot give back, and what the validation refuses: a    *)
(* value with a character that JSON.stringify escapes, and two values of a *)
(* field that the configuration made equal.                                *)
WritesPlainly(profile, config, symptom) ==
  \A f \in ToSet(Symptoms(profile)[symptom]) :
    LET values == Values(profile, config, f)
    IN /\ IsInjective(values)
       /\ \A i \in DOMAIN values : {DoubleQuote, Backslash} \cap ToSet(values[i]) = {}

(* The scaffold is the active configuration: written into the overlay file *)
(* as it is, before the user changes a value, it leaves the effective      *)
(* profile and the boundary-map configuration of the next scan as they     *)
(* are, whatever blanks, hashes and single quotes its values hold.         *)
ScaffoldIsTheActiveProfile ==
  result.status = "suggested" /\ WritesPlainly(result.profile, result.config, input.symptom) =>
    LET pasted == Pasted(input.sections, result.scaffold)
    IN /\ Accepted(input.profile, pasted)
       /\ Effective(input.profile, pasted) = result.profile
       /\ BuildConfig(pasted) = result.config
================================================================================
