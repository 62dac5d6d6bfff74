----------------------- MODULE MCWorkspaceMutations -----------------------
(* Instances of WorkspaceMutations for TLC. *)
EXTENDS WorkspaceMutations

CONSTANTS c1, f1, e1, s1, s2

(* Graph commands around one finding: concepts, an edge that may end at    *)
(* the finding, and attempts the finding policy has to refuse.             *)
OneFinding ==
  {<<CreateNode(c1, Concept)>>,
   <<DeleteNode(c1)>>,
   <<CreateEdge(e1, c1, f1)>>,
   <<UpdateEdge(e1, c1, c1)>>,
   <<DeleteEdge(e1)>>,
   <<DeleteEdge(e1), DeleteNode(c1)>>,
   <<UpdateNode(f1, FindingNode(s1, {}))>>,
   <<DeleteNode(f1)>>}

(* Commands proposals carry: a finding of either run, with the concept it  *)
(* affects or without, and changes of an existing finding.                 *)
Proposed ==
  {<<CreateNode(c1, Concept)>>,
   <<DeleteNode(c1)>>,
   <<CreateNode(f1, FindingNode(s1, {c1}))>>,
   <<CreateNode(c1, Concept), CreateNode(f1, FindingNode(s2, {c1}))>>,
   <<UpdateNode(c1, FindingNode(s1, {}))>>,
   <<UpdateNode(f1, FindingNode(s2, {}))>>,
   <<DeleteNode(f1)>>}
=============================================================================
