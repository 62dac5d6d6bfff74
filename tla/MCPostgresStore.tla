--------------------------- MODULE MCPostgresStore ---------------------------
(* Model checking of PostgresStore.                                        *)
EXTENDS PostgresStore

Full == (StateTables \ Mandatory) \cup {"repository_indexes"}
Some == {"nodes", "categories", "scan_profiles", "scan_runs", "feedback_events"}
BoundedShapes == {{}, Some, Full}
Symmetry == Permutations(Sessions)
=============================================================================
