---------------------------- MODULE StoredRecords ----------------------------
(***************************************************************************)
(* What becomes of a record between the validators of store-support.ts and *)
(* scan-run.ts, the CHECK constraints of the schema, and the functions of  *)
(* postgres-store.ts that turn it into a row and back.  A text is given by *)
(* what the two sides tell apart: JavaScript trims tabs and line ends, the *)
(* btrim of Postgres trims spaces only.  None is undefined on one side and *)
(* NULL on the other.                                                      *)
(***************************************************************************)
EXTENDS Integers, FiniteSets

CONSTANTS Numbers,  \* line numbers, columns and sizes that are tried
          Counts,   \* counts in the statistics of an index
          None      \* undefined, NULL

Texts  == {"text", "tabs", "spaces"}
Blank  == [validator |-> {"tabs", "spaces"}, table |-> {"spaces"}]

VARIABLES kind,    \* what is stored
          record,  \* the record handed to the store
          row,     \* its row, or None
          state    \* "given", "invalid", "refused", "stored", "loaded"

vars == <<kind, record, row, state>>

-----------------------------------------------------------------------------
(* Rules on the fields of a fact: texts that are required and texts that   *)
(* may be missing, lower bounds, and pairs in order.                       *)

Rules(text, optional, least, spans) ==
  [text |-> text, optional |-> optional, least |-> least, spans |-> spans]

Obeys(r, rules, blank) ==
  /\ \A f \in rules.text : r[f] \notin blank \cup {None}
  /\ \A f \in rules.optional : r[f] \notin blank
  /\ \A f \in DOMAIN rules.least : r[f] >= rules.least[f]
  /\ \A span \in rules.spans : r[span[2]] >= r[span[1]]

Lines  == {<<"startLine", "endLine">>}
Bounds == [startLine |-> 1, startColumn |-> 0, endColumn |-> 0]
Tool   == {"producerTool", "producerVersion"}

ValidFile  == Rules({"path", "language", "sourceKind", "contentHash"}, {},
                    [byteSize |-> 0], {})
ValidChunk == Rules({"id", "filePath", "language", "sourceKind", "text", "contentHash"},
                    {}, [startLine |-> 1], Lines)
ValidSymbol == Rules({"key", "filePath", "language", "name", "qualifiedName", "kind"}
                       \cup Tool, {"parentSymbolKey"}, Bounds, Lines)

ValidReference ==
  Rules({"key", "filePath", "language", "sourceKind", "kind", "targetText",
         "resolutionConfidence"} \cup Tool, {"resolvedSymbolKey"}, Bounds, Lines)
ValidDependency ==
  Rules({"key", "filePath", "language", "sourceKind", "kind", "targetText",
         "resolutionConfidence"} \cup Tool, {"targetFilePath", "targetSymbolKey"},
        Bounds, Lines)

FileTable   == Rules({"path", "language", "sourceKind", "contentHash"}, {},
                     [byteSize |-> 0], {})
ChunkTable  == Rules({"id", "filePath", "language", "sourceKind", "text", "contentHash"},
                     {}, [startLine |-> 1], Lines)
SymbolTable == Rules({"key", "filePath", "language", "name", "qualifiedName", "kind"}
                       \cup Tool, {"parentSymbolKey"}, Bounds, Lines)
ReferenceTable ==
  Rules({"key", "filePath", "language", "sourceKind", "kind", "targetText",
         "resolutionConfidence"} \cup Tool, {"resolvedSymbolKey"}, Bounds, Lines)
DependencyTable ==
  Rules({"key", "filePath", "language", "sourceKind", "kind", "targetText",
         "resolutionConfidence"} \cup Tool, {"targetFilePath", "targetSymbolKey"},
        Bounds, Lines)

Validator == [file |-> ValidFile, chunk |-> ValidChunk, symbol |-> ValidSymbol,
              reference |-> ValidReference, dependency |-> ValidDependency]
Table     == [file |-> FileTable, chunk |-> ChunkTable, symbol |-> SymbolTable,
              reference |-> ReferenceTable, dependency |-> DependencyTable]
FactKinds == DOMAIN Validator

-----------------------------------------------------------------------------
(* The row of a repository index: two optional objects become columns.     *)

Active == {"requested", "resolving_ref", "checking_out", "discovering",
           "indexing_syntax", "running_rules", "embedding_changed_chunks",
           "normalizing"}
Stages == Active \cup {"completed", "failed", "cancelled"}

ValidIndex(r) ==
  /\ r.resolvedCommit \notin Blank.validator
  /\ r.stage \in Stages
  /\ r.stage \in {"completed", "failed", "cancelled"} <=> r.completedAt # None
  /\ r.stage = "failed" <=> r.failure # None
  /\ r.failure # None => /\ r.failure.code \notin Blank.validator
                         /\ r.failure.message \notin Blank.validator
  /\ r.stats # None => \A f \in DOMAIN r.stats : r.stats[f] >= 0

Column(object, f) == IF object = None THEN None ELSE object[f]

IndexRow(r) ==
  [stage |-> r.stage, completed_at |-> r.completedAt, resolved_commit |-> r.resolvedCommit,
   failure_code |-> Column(r.failure, "code"),
   failure_message |-> Column(r.failure, "message"),
   stats_file_count |-> Column(r.stats, "fileCount"),
   stats_chunk_count |-> Column(r.stats, "chunkCount"),
   stats_indexed_bytes |-> Column(r.stats, "indexedBytes")]

IndexTable(w) ==
  /\ w.resolved_commit \notin Blank.table
  /\ (w.failure_code = None) = (w.failure_message = None)
  /\ (w.stats_file_count = None) = (w.stats_chunk_count = None)
  /\ (w.stats_file_count = None) = (w.stats_indexed_bytes = None)
  /\ \A f \in {"stats_file_count", "stats_chunk_count", "stats_indexed_bytes"} :
       w[f] # None => w[f] >= 0
  /\ \/ w.stage \in Active /\ w.completed_at = None /\ w.failure_code = None
     \/ w.stage = "completed" /\ w.completed_at # None /\ w.failure_code = None
     \/ w.stage = "cancelled" /\ w.completed_at # None /\ w.failure_code = None
     \/ w.stage = "failed" /\ w.completed_at # None /\ w.failure_code # None

(* Faulty variant: zero counts are taken for missing ones. *)
IndexOfRowTruthy(w) ==
  [stage |-> w.stage, completedAt |-> w.completed_at, resolvedCommit |-> w.resolved_commit,
   failure |-> IF None \in {w.failure_code, w.failure_message} THEN None
               ELSE [code |-> w.failure_code, message |-> w.failure_message],
   stats |-> IF {None, 0} \cap {w.stats_file_count, w.stats_chunk_count,
                                w.stats_indexed_bytes} # {} THEN None
             ELSE [fileCount |-> w.stats_file_count, chunkCount |-> w.stats_chunk_count,
                   indexedBytes |-> w.stats_indexed_bytes]]

IndexOfRow(w) ==
  [stage |-> w.stage, completedAt |-> w.completed_at, resolvedCommit |-> w.resolved_commit,
   failure |-> IF None \in {w.failure_code, w.failure_message} THEN None
               ELSE [code |-> w.failure_code, message |-> w.failure_message],
   stats |-> IF None \in {w.stats_file_count, w.stats_chunk_count, w.stats_indexed_bytes}
             THEN None
             ELSE [fileCount |-> w.stats_file_count, chunkCount |-> w.stats_chunk_count,
                   indexedBytes |-> w.stats_indexed_bytes]]

-----------------------------------------------------------------------------
(* The row of a scan run: the fields of a completed run are columns that   *)
(* an unfinished one leaves NULL.                                          *)

ValidRun(r) ==
  /\ r.worktreeDigest \notin Blank.validator
  /\ r.status = "completed" =>
       /\ r.graphDigest \notin Blank.validator
       /\ r.declaresMap <=> r.boundaryMap # None
       /\ r.calibrationOverrideReason \notin Blank.validator

RunRow(r) ==
  LET done(f) == IF r.status = "completed" THEN r[f] ELSE None
  IN [status |-> r.status, repository_worktree_digest |-> r.worktreeDigest,
      coverage |-> r.coverage, declared_map |-> r.declaresMap,
      completed_at |-> done("completedAt"), graph_digest |-> done("graphDigest"),
      finding_evidence |-> done("findingEvidence"), boundary_map |-> done("boundaryMap"),
      calibration_override_reason |-> done("calibrationOverrideReason")]

RunTable(w) ==
  /\ w.calibration_override_reason \notin Blank.table
  /\ \/ /\ w.status = "in_progress"
        /\ {w.completed_at, w.graph_digest, w.finding_evidence} = {None}
     \/ /\ w.status = "completed"
        /\ None \notin {w.completed_at, w.graph_digest, w.coverage, w.finding_evidence}

RunOfRow(w) ==
  LET base == [status |-> w.status, worktreeDigest |-> w.repository_worktree_digest,
               coverage |-> w.coverage, declaresMap |-> w.declared_map]
      done(v) == IF w.status = "completed" THEN v ELSE None
  IN [f \in {"status", "worktreeDigest", "coverage", "declaresMap", "completedAt",
             "graphDigest", "findingEvidence", "boundaryMap",
             "calibrationOverrideReason"} |->
        CASE f \in DOMAIN base -> base[f]
          [] f = "completedAt" -> done(w.completed_at)
          [] f = "graphDigest" -> done(w.graph_digest)
          [] f = "findingEvidence" -> done(w.finding_evidence)
          [] f = "boundaryMap" -> done(w.boundary_map)
          [] OTHER -> done(w.calibration_override_reason)]

-----------------------------------------------------------------------------
(* The records that are tried: of a fact, every record that differs in at  *)
(* most two fields from one that is in order.                              *)

Values(rules, f) == CASE f \in rules.text     -> Texts
                      [] f \in rules.optional -> Texts \cup {None}
                      [] OTHER                -> Numbers

FieldsOf(rules) == rules.text \cup rules.optional \cup DOMAIN rules.least
                     \cup {span[2] : span \in rules.spans}

Facts(k) ==
  LET rules == Table[k]
      fields == FieldsOf(rules)
      sound  == [f \in fields |-> IF f \in rules.text \cup rules.optional THEN "text" ELSE 1]
  IN UNION {{[sound EXCEPT ![f] = v, ![g] = u] :
               v \in Values(rules, f), u \in Values(rules, g)} : f, g \in fields}

MaybeText == Texts \cup {None}

IndexRecords ==
  [stage : Stages, completedAt : {None, "date"}, resolvedCommit : MaybeText,
   failure : {None} \cup [code : Texts, message : Texts],
   stats : {None} \cup [fileCount : Counts, chunkCount : Counts, indexedBytes : Counts]]

RunRecords ==
  {r \in [status : {"in_progress", "completed"}, worktreeDigest : MaybeText,
          coverage : {None, "coverage"}, declaresMap : BOOLEAN,
          completedAt : {None, "date"}, graphDigest : MaybeText,
          findingEvidence : {None, "evidence"}, boundaryMap : {None, "map"},
          calibrationOverrideReason : MaybeText] :
     IF r.status = "completed"
     THEN None \notin {r.completedAt, r.graphDigest, r.findingEvidence, r.coverage}
     ELSE {r.completedAt, r.graphDigest, r.findingEvidence, r.boundaryMap,
           r.calibrationOverrideReason} = {None}}

RecordKinds == FactKinds \cup {"index", "run"}

RecordsOf(k) == CASE k = "index" -> IndexRecords
                  [] k = "run"   -> RunRecords
                  [] OTHER       -> Facts(k)

Init == /\ kind \in RecordKinds
        /\ record \in RecordsOf(kind)
        /\ row = None
        /\ state = "given"

Valid(k, r) == CASE k = "index" -> ValidIndex(r)
                 [] k = "run"   -> ValidRun(r)
                 [] OTHER       -> Obeys(r, Validator[k], Blank.validator)

RowOf(k, r) == CASE k = "index" -> IndexRow(r)
                 [] k = "run"   -> RunRow(r)
                 [] OTHER       -> r

Fits(k, w) == CASE k = "index" -> IndexTable(w)
                [] k = "run"   -> RunTable(w)
                [] OTHER       -> Obeys(w, Table[k], Blank.table)

RecordOf(k, w) == CASE k = "index" -> IndexOfRow(w)
                    [] k = "run"   -> RunOfRow(w)
                    [] OTHER       -> w

(* None is no value that a field or a row can have. *)
NoneIsNoValue ==
  /\ None \notin Texts \cup {"date", "coverage", "evidence", "map"}
  /\ None \notin Counts
  /\ None \notin [code : Texts, message : Texts]
  /\ None \notin [fileCount : Counts, chunkCount : Counts, indexedBytes : Counts]
  /\ \A k \in RecordKinds : \A r \in RecordsOf(k) : None # RowOf(k, r)

Save ==
  /\ state = "given"
  /\ IF ~Valid(kind, record) THEN row' = None /\ state' = "invalid"
     ELSE IF ~Fits(kind, RowOf(kind, record)) THEN row' = None /\ state' = "refused"
     ELSE row' = RowOf(kind, record) /\ state' = "stored"
  /\ UNCHANGED <<kind, record>>

(* The record an adapter reads back takes the place of the one it was given. *)
Load ==
  /\ state = "stored"
  /\ record' = RecordOf(kind, row)
  /\ state' = "loaded"
  /\ UNCHANGED <<kind, row>>

Done == state \in {"invalid", "refused", "loaded"} /\ UNCHANGED vars

Next == Save \/ Load \/ Done

Spec == Init /\ [][Next]_vars

-----------------------------------------------------------------------------
(* Properties. *)

TypeOK ==
  /\ kind \in RecordKinds
  /\ state \in {"given", "invalid", "refused", "stored", "loaded"}
  /\ row # None <=> state \in {"stored", "loaded"}

(* A record that passes its validator fits its table: the store never has  *)
(* to report a constraint of Postgres for a record it called valid.        *)
ValidRecordsFit == state # "refused"

(* A stored record reads back as it was given and is still valid: no       *)
(* optional object is lost, invented or half there.                        *)
LoadedAsSaved ==
  [][state = "stored" => record' = record /\ Valid(kind, record')]_vars
=============================================================================
