----------------------------- MODULE StoreSchema -----------------------------
(***************************************************************************)
(* packages/storage/src/postgres-schema-sql.ts: the tables of one          *)
(* workspace and what their foreign keys do when a row they point at goes. *)
(* A table stands for its rows of the workspace: content[t] is the write   *)
(* that left them there, or Absent.  parts[v] names the optional tables    *)
(* write v filled or named, so which nullable references its rows make.    *)
(***************************************************************************)
EXTENDS Naturals, FiniteSets

Absent == 0

(* The tables that hold a WorkspaceState, those an index run fills, and    *)
(* the vectors.                                                            *)
StateTables == {"workspaces", "graphs", "nodes", "edges", "categories",
                "category_assignments", "capture_policies", "proposals",
                "projections", "feedback_events", "scan_profiles", "scan_runs"}
FactTables  == {"files", "chunks", "symbols", "references", "dependencies"}
Tables      == StateTables \cup FactTables \cup {"repository_indexes", "node_embeddings"}

(* A foreign key: the table it is on, the one it points at, what a delete  *)
(* of the target does to the row, and whether the column may be null.      *)
Key(on, to, action, optional) ==
  [on |-> on, to |-> to, action |-> action, optional |-> optional]
Owned(tables, by) == {Key(t, by, "cascade", FALSE) : t \in tables}

GraphKeys ==
  Owned({"graphs", "node_embeddings"}, "workspaces")
    \cup Owned({"nodes", "edges"}, "graphs")
    \cup {Key("edges", "nodes", "restrict", FALSE)}

(* ON DELETE SET NULL names both columns, and workspace_id may not be      *)
(* null: a projection that feedback still names cannot be deleted either.  *)
CaptureKeys ==
  Owned({"categories", "category_assignments", "capture_policies", "proposals",
         "projections", "feedback_events"}, "workspaces")
    \cup {Key("category_assignments", "categories", "restrict", FALSE),
          Key("feedback_events", "projections", "set null", TRUE)}

ScanKeys ==
  Owned({"scan_profiles", "repository_indexes", "scan_runs"}, "workspaces")
    \cup {Key("scan_runs", "scan_profiles", "restrict", FALSE),
          Key("scan_runs", "repository_indexes", "restrict", TRUE)}

FileKeys == Owned({"files", "chunks", "symbols"}, "repository_indexes")
              \cup Owned({"chunks", "symbols"}, "files")

ReferenceKeys == Owned({"references", "dependencies"}, "repository_indexes")
                   \cup Owned({"references", "dependencies"}, "files")

ForeignKeys == GraphKeys \cup CaptureKeys \cup ScanKeys \cup FileKeys \cup ReferenceKeys

(* The rows of fk.on make the reference fk. *)
Refers(content, parts, fk) ==
  content[fk.on] # Absent /\ (fk.optional => fk.to \in parts[content[fk.on]])

(***************************************************************************)
(* What Postgres does (external).  A row is inserted when no row has its   *)
(* key and every row it points at is there.  A delete removes the rows     *)
(* that cascade from it level by level, and is refused when, at some       *)
(* level, a row that does not cascade still points at a removed one.       *)
(***************************************************************************)
CanInsert(content, parts, t, v) ==
  /\ content[t] = Absent
  /\ \A fk \in ForeignKeys :
       fk.on = t /\ (fk.optional => fk.to \in parts[v]) => content[fk.to] # Absent

(* The rows that go with the rows in gone when these go. *)
Along(content, parts, gone) ==
  gone \cup {fk.on : fk \in {k \in ForeignKeys : /\ k.action = "cascade"
                                                /\ k.to \in gone
                                                /\ Refers(content, parts, k)}}

(* What has gone after each level; no chain of cascades is longer. *)
Cascaded(content, parts, t) ==
  LET first  == {u \in {t} : content[u] # Absent}
      second == Along(content, parts, first)
      third  == Along(content, parts, second)
      fourth == Along(content, parts, third)
  IN <<first, second, third, fourth>>

CanDelete(content, parts, t) ==
  LET gone == Cascaded(content, parts, t)
  IN \A fk \in {k \in ForeignKeys : k.action # "cascade"} :
       Refers(content, parts, fk) =>
         \A n \in DOMAIN gone : fk.to \in gone[n] => fk.on \in gone[n]

Without(content, parts, t) ==
  LET gone == Cascaded(content, parts, t)
  IN [u \in Tables |-> IF u \in gone[4] THEN Absent ELSE content[u]]
=============================================================================
