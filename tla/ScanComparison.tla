--------------------------- MODULE ScanComparison ---------------------------
(***************************************************************************)
(* compareCompletedScans: two completed runs of one profile, their         *)
(* findings matched by fingerprint, every pair classified, and a verdict.  *)
(* A finding has a fingerprint, a severity, a status, the sources it       *)
(* cites, and a content that stands for everything else a reader sees of   *)
(* it (label, notes, kind, confidence, claims, affected nodes, owner).     *)
(***************************************************************************)
EXTENDS Naturals, FiniteSets, Sequences, SequencesExt

CONSTANTS Inputs,  \* pairs of completed runs
          None

VARIABLE input

Severities == <<"low", "normal", "high", "critical">>
Blocking == {"high", "critical"}
Closed == {"resolved", "accepted"}

(* Faulty variant: severities in the order of their names. *)
SeverityRankByName(s) ==
  [critical |-> 1, high |-> 2, low |-> 3, normal |-> 4][s]

SeverityRank(s) == CHOOSE k \in DOMAIN Severities : Severities[k] = s

(* A completed run: a profile and its version, findings in the order of    *)
(* the evidence, and the sources that were discovered, read and missed.    *)
IsFinding(f) ==
  /\ DOMAIN f = {"fingerprint", "severity", "status", "content", "sources"}
  /\ f.severity \in {"low", "normal", "high", "critical"}
  /\ f # None
  /\ \A s \in {"low", "normal", "high", "critical"} : [f EXCEPT !.severity = s] # None
IsRun(run) ==
  /\ DOMAIN run = {"profile", "version", "evidence", "coverage"}
  /\ DOMAIN run.coverage = {"discovered", "included", "failed"}
  /\ run.evidence \in Seq({run.evidence[k] : k \in DOMAIN run.evidence})
  /\ \A k \in DOMAIN run.evidence : IsFinding(run.evidence[k])

InputsAreRuns == \A pair \in Inputs : IsRun(pair[1]) /\ IsRun(pair[2])

Fingerprints(run) == {run.evidence[k].fingerprint : k \in DOMAIN run.evidence}

(* evidenceByFingerprint throws on the second finding of a fingerprint. *)
HasDuplicates(run) ==
  \E j, k \in DOMAIN run.evidence :
    j < k /\ run.evidence[j].fingerprint = run.evidence[k].fingerprint

Comparable(before, after) == /\ before.profile = after.profile
                             /\ ~HasDuplicates(before)
                             /\ ~HasDuplicates(after)

FindingOf(run, f) ==
  IF f \in Fingerprints(run)
  THEN run.evidence[CHOOSE k \in DOMAIN run.evidence : run.evidence[k].fingerprint = f]
  ELSE None

(* stableFindingContent: status and resolution evidence are no part of it. *)
Content(f) == <<f.content, f.severity, f.sources>>

(* A finding of both runs; the first case that applies. *)
BothStatus(previous, current) ==
  IF current.status = "unverifiable" THEN "unverifiable"
  ELSE IF current.status \in Closed THEN "resolved"
  ELSE IF SeverityRank(current.severity) > SeverityRank(previous.severity) THEN "regressed"
  ELSE IF Content(previous) # Content(current) THEN "changed"
  ELSE "still_open"

Item(before, after, f) ==
  LET previous == FindingOf(before, f)
      current  == FindingOf(after, f)
  IN [fingerprint |-> f, before |-> previous, after |-> current,
      status |-> IF current = None
                 THEN IF previous.sources \cap after.coverage.failed # {}
                      THEN "unverifiable" ELSE "resolved"
                 ELSE IF previous = None THEN "new"
                 ELSE BothStatus(previous, current)]

Blocks(item) ==
  \/ item.status = "unverifiable"
  \/ /\ item.status \in {"still_open", "regressed", "new"}
     /\ item.after.severity \in Blocking

Discovered(run) == run.coverage.discovered

Comparison(before, after) ==
  LET items == {Item(before, after, f) : f \in Fingerprints(before) \cup Fingerprints(after)}
  IN [items |-> items,
      added |-> Discovered(after) \ Discovered(before),
      removed |-> Discovered(before) \ Discovered(after),
      verdict |-> IF before.version # after.version \/ (\E i \in items : Blocks(i))
                  THEN "fail" ELSE "pass"]

Init == input \in Inputs
Next == UNCHANGED input
Spec == Init /\ [][Next]_input

-----------------------------------------------------------------------------
Before == input[1]
After == input[2]
StatusOf(comparison, f) == (CHOOSE i \in comparison.items : i.fingerprint = f).status

(* Runs that are worse than a run in one respect: a finding more severe, a *)
(* source that could not be read, a further finding.                       *)
Worse(run) ==
  {[run EXCEPT !.evidence[k].severity = s] :
     k \in DOMAIN run.evidence, s \in {"low", "normal", "high", "critical"}}
  \cup {[run EXCEPT !.coverage.failed = run.coverage.failed \cup {t}] : t \in Discovered(run)}
  \cup {[run EXCEPT !.evidence = Append(@, f)] :
          f \in {g \in {Before.evidence[k] : k \in DOMAIN Before.evidence} :
                   g.fingerprint \notin Fingerprints(run) /\ g.status = "open"
                   /\ g.severity \in Blocking}}

NoLessSevere(run, worse) ==
  \A k \in DOMAIN run.evidence :
    SeverityRank(worse.evidence[k].severity) >= SeverityRank(run.evidence[k].severity)

(* A run that fails against its baseline does not pass when a finding is   *)
(* graver, a source could not be read or a blocking finding stays.         *)
WorseIsNeverBetter ==
  Comparable(Before, After) /\ Comparison(Before, After).verdict = "fail" =>
    \A worse \in {w \in Worse(After) : NoLessSevere(After, w)} :
      Comparison(Before, worse).verdict = "fail"

Open(f) == f.status \notin Closed \cup {"unverifiable"}

(* Compared with itself a run shows no news, and passes exactly when all   *)
(* its findings could be verified and no blocking one is open.             *)
SelfComparison ==
  ~HasDuplicates(After) =>
    LET c == Comparison(After, After)
    IN /\ \A i \in c.items : i.status \notin {"new", "regressed", "changed"}
       /\ c.added \cup c.removed = {}
       /\ c.verdict = "pass" <=>
            \A k \in DOMAIN After.evidence :
              /\ After.evidence[k].status # "unverifiable"
              /\ ~(Open(After.evidence[k]) /\ After.evidence[k].severity \in Blocking)

(* The two directions of a comparison agree: what is new in one is missing *)
(* in the other, a finding gets worse in one direction at most, and what   *)
(* is unchanged in one is unchanged in the other while it is open in both. *)
DirectionsAgree ==
  Comparable(Before, After) =>
    LET there == Comparison(Before, After)
        back  == Comparison(After, Before)
    IN /\ there.added = back.removed
       /\ \A f \in Fingerprints(Before) \cup Fingerprints(After) :
            /\ StatusOf(there, f) = "new" =>
                 /\ FindingOf(Before, f) = None
                 /\ StatusOf(back, f) \in {"resolved", "unverifiable"}
            /\ StatusOf(there, f) = "regressed" => StatusOf(back, f) # "regressed"
            /\ f \in Fingerprints(Before) \cap Fingerprints(After)
               /\ Open(FindingOf(Before, f)) /\ StatusOf(there, f) = "still_open"
                 => StatusOf(back, f) = "still_open"

(* The policy for a pass requires that no finding of high or critical      *)
(* severity is open still (repository-scan.md).                            *)
PassLeavesNothingOpen ==
  Comparable(Before, After) /\ Comparison(Before, After).verdict = "pass" =>
    \A k \in DOMAIN After.evidence :
      ~(Open(After.evidence[k]) /\ After.evidence[k].severity \in Blocking)

(* A finding that is no longer produced is resolved only where the later   *)
(* run has looked at its sources again, or they are gone                   *)
(* (repository-scan.md).                                                   *)
ResolvedWhereCovered ==
  Comparable(Before, After) =>
    \A i \in Comparison(Before, After).items :
      i.status = "resolved" /\ i.after = None
        => i.before.sources \cap Discovered(After) \subseteq After.coverage.included

(* Completed runs of one profile can be compared (repository-scan.md).     *)
CompletedRunsCompare == Before.profile = After.profile => Comparable(Before, After)
=============================================================================
