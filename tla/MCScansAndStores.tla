--------------------------- MODULE MCScansAndStores ---------------------------
(* Model checking of ScansAndStores: values of its constants. *)
EXTENDS ScansAndStores, Sequences, TLC

CONSTANTS t1, t2, k1, k2

(* The overlay files are those of MCProfileOverlay. *)
Overlaid == INSTANCE MCProfileOverlay WITH Inputs <- {}, Defaults <- <<>>, LowerCase <- <<>>
OverlayCases == Overlaid!MCInputs
OverlayDefaults == Overlaid!MCDefaults
OverlayLowerCase == Overlaid!MCLowerCase

-----------------------------------------------------------------------------
(* Calibration.  Main alone is one symbol of six, below a fifth; of Main   *)
(* and Wide it is exactly a fifth.                                         *)
Files4 == {"Doc", "Main", "Wide", "Tool"}

TopLevel4 == [f \in Files4 |-> CASE f = "Wide" -> 4 [] f = "Doc" -> 0 [] OTHER -> 1]

CalibrationProfiles ==
  {[quality |-> TRUE, code |-> TRUE, include |-> {"Doc", "Main"}, exclude |-> {}],
   [quality |-> FALSE, code |-> FALSE, include |-> {"Doc"}, exclude |-> {}]}
CalibrationOverlays ==
  {[include |-> {}, exclude |-> {}], [include |-> {"Wide"}, exclude |-> {"Doc"}],
   [include |-> {}, exclude |-> {"Doc", "Main"}]}

(* A correction that keeps a gap, one at the very fifth, one that includes *)
(* everything, one without code, and one that is not valid.                *)
Correction(discovered, included) ==
  [discovered |-> discovered, included |-> included, excepted |-> discovered \ included]
CalibrationCorrections ==
  {Correction(Files4, {"Main"}), Correction({"Doc", "Main", "Wide"}, {"Main"}),
   Correction(Files4, Files4), Correction({"Doc"}, {"Doc"}), Correction(Files4, {})}

CodeFiles3 == Files4 \ {"Doc"}
CalibrationEvidence == {"Doc"}
CalibrationMaps == {[entrypoints |-> e, gaps |-> g] : e, g \in BOOLEAN}

-----------------------------------------------------------------------------
(* Comparison: every pair of findings under one fingerprint, beside a      *)
(* further finding, over two sources.                                      *)
Finding(fingerprint, severity, status, content, sources) ==
  [fingerprint |-> fingerprint, severity |-> severity, status |-> status,
   content |-> content, sources |-> sources]

First == {Finding(1, severity, status, content, {"s1"}) :
            severity \in {"low", "normal", "high", "critical"}, content \in {"a", "b"},
            status \in {"open", "resolved", "accepted", "unverifiable"}}
Second == Finding(2, "high", "open", "a", {"s2"})

Coverage(included, failed) ==
  [discovered |-> {"s1", "s2"}, included |-> included, failed |-> failed]
Everything == Coverage({"s1", "s2"}, {})
Coverages == {Everything, Coverage({"s2"}, {"s1"}), Coverage({"s2"}, {}),
              [Everything EXCEPT !.discovered = {"s2"}, !.included = {"s2"}]}

ComparedRun(version, evidence, coverage) ==
  [profile |-> "p", version |-> version, evidence |-> evidence, coverage |-> coverage]

Pairs == {<<>>, <<Second>>} \cup {<<f>> : f \in First} \cup {<<Second, f>> : f \in First}
Lone == {<<>>} \cup {<<f>> : f \in First}

ComparisonInputs ==
  {<<ComparedRun(1, b, Everything), ComparedRun(1, a, c)>> : b \in Lone, a \in Pairs, c \in Coverages}
    \cup {<<ComparedRun(1, b, Everything), ComparedRun(2, a, Everything)>> : b \in Pairs, a \in Lone}

-----------------------------------------------------------------------------
RecordNumbers == -1..2
RecordCounts == -1..1

(* Nothing, chunks of two words, the same with records of another index,   *)
(* and the same with a key twice.                                          *)
AdapterContents ==
  {[chunks |-> {}, owned |-> TRUE, loose |-> FALSE]}
    \cup {[chunks |-> {{"a"}, {"a", "b"}}, owned |-> owned, loose |-> loose] :
            owned \in BOOLEAN, loose \in BOOLEAN}

TwoWorkspaces == {"w1", "w2"}
TwoConcepts == {"c1", "c2"}

-----------------------------------------------------------------------------
(* Two texts; four concepts and one call at a time, so that stale rows can *)
(* fill the window, or two concepts and two calls, which interleave.       *)
TextScore == [p \in {t1, t2} \X {t1, t2} |-> IF p[1] = p[2] THEN 2 ELSE 1]

TwoTexts == {t1, t2}
TwoCallers == {k1, k2}
FourNodes == 1..4
SimilarBounds == {[nodes |-> 1..4, calls |-> 1, edits |-> 2, upserts |-> 4],
                  [nodes |-> 1..2, calls |-> 2, edits |-> 3, upserts |-> 3]}

Symmetry == Permutations({t1, t2}) \cup Permutations({k1, k2})
=============================================================================
