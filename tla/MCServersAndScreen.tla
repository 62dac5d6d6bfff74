-------------------------- MODULE MCServersAndScreen --------------------------
(* Model checking of the API process and the screen. *)
EXTENDS ServersAndScreen, TLC

(* Two servers of one release and one of the next. *)
ThreeServers == {"a", "b", "c"}
TwoVersions == {1, 2}
OneIsNewer == [s \in ThreeServers |-> IF s = "c" THEN 2 ELSE 1]

TwoOperations == {"p", "q"}
OneConnection == {"c"}
ThreeRequests == {"p", "q", "r"}
BothSignals == {"SIGINT", "SIGTERM"}
TwoWorkspaces == {"A", "B"}
=============================================================================
