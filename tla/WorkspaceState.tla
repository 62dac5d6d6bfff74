--------------------------- MODULE WorkspaceState ---------------------------
(***************************************************************************)
(* The state one workspace saves as a whole, what makes it valid, and the  *)
(* pure functions the mutations compute the next state with: graph         *)
(* commands, the finding policy, projections and the scan cascade.         *)
(*                                                                         *)
(* A table is a function whose domain is the ids it holds.  Of a node are  *)
(* kept its type and the finding metadata other records depend on; a       *)
(* concept stands for every other node type.  Group membership of a        *)
(* projection is one set, all its groups together.                         *)
(***************************************************************************)
EXTENDS Naturals, Sequences, SequencesExt

CONSTANTS Nodes, Edges, Projections, Proposals, Scans,  \* ids
          None                                          \* no scan; no graph

Tables(ids, rows) == UNION {[held -> rows] : held \in SUBSET ids}
NoRows == [id \in {} |-> None]
Put(table, id, row) == [x \in DOMAIN table \cup {id} |->
                          IF x = id THEN row ELSE table[x]]

NodeRows == [type : {"concept", "finding"}, origin : Scans \cup {None},
             affected : SUBSET Nodes, status : {"open", "resolved"}]
EdgeRows == [from : Nodes, to : Nodes]
Graphs == [nodes : Tables(Nodes, NodeRows), edges : Tables(Edges, EdgeRows)]
ProjectionRows == [root : SUBSET Nodes, visible : SUBSET Nodes,
                   edges : SUBSET Edges, grouped : SUBSET Nodes]

Targets == ({"node"} \X Nodes) \cup ({"edge"} \X Edges)
             \cup ({"projection"} \X Projections)

(* The latest calibration decision of a run; the other decisions the code  *)
(* knows open no gate, as an absent one does.                              *)
Decisions == {"continue", "correct-coverage"}

RunRows == [status : {"in_progress", "completed"},
            coverage : {"derived", "corrected"},
            decision : Decisions \cup {None},
            findings : SUBSET Nodes,
            evidence : Tables(Nodes, NodeRows),
            override : BOOLEAN]

Concept == [type |-> "concept", origin |-> None, affected |-> {}, status |-> "open"]

(* createFindingNode *)
FindingNode(s, affected) == [type |-> "finding", origin |-> s,
                             affected |-> affected, status |-> "open"]

(* createInitialWorkspaceState *)
InitialWorkspace == [graph |-> [nodes |-> NoRows, edges |-> NoRows],
                     categoryAssignments |-> {}, feedbackEvents |-> {},
                     proposals |-> NoRows, projections |-> NoRows,
                     scanRuns |-> NoRows]

Findings(g) == {n \in DOMAIN g.nodes : g.nodes[n].type = "finding"}
OwnedFindings(g, s) == {n \in Findings(g) : g.nodes[n].origin = s}

-----------------------------------------------------------------------------
(* Validation, run before every save.                                      *)

ValidGraph(g) ==
  \A e \in DOMAIN g.edges : {g.edges[e].from, g.edges[e].to} \subseteq DOMAIN g.nodes

ValidProjection(p, g) ==
  /\ p.root \cup p.visible \subseteq DOMAIN g.nodes
  /\ p.edges \subseteq DOMAIN g.edges
  /\ \A e \in p.edges : {g.edges[e].from, g.edges[e].to} \subseteq p.visible
  /\ p.grouped \subseteq p.visible

ValidCategoryAssignments(w) ==
  w.categoryAssignments \subseteq ({"node"} \X DOMAIN w.graph.nodes)
                           \cup ({"edge"} \X DOMAIN w.graph.edges)
                           \cup ({"projection"} \X DOMAIN w.projections)

(* validateFindingAffectedNodes *)
AffectedNodesExist(node, g) ==
  node.affected \subseteq DOMAIN g.nodes \ Findings(g)

ValidScanRun(run, g) ==
  run.status = "completed" =>
    /\ DOMAIN run.evidence = run.findings
    /\ run.findings \subseteq Findings(g)

ValidScanState(runs, g) ==
  /\ \A s \in DOMAIN runs : ValidScanRun(runs[s], g)
  /\ \A n \in Findings(g) : /\ AffectedNodesExist(g.nodes[n], g)
                            /\ g.nodes[n].origin \in DOMAIN runs
  /\ \A s \in DOMAIN runs : runs[s].findings = OwnedFindings(g, s)

ValidWorkspaceState(w) ==
  /\ ValidGraph(w.graph)
  /\ ValidCategoryAssignments(w)
  /\ \A p \in DOMAIN w.projections : ValidProjection(w.projections[p], w.graph)
  /\ ValidScanState(w.scanRuns, w.graph)

-----------------------------------------------------------------------------
(* Graph commands.                                                         *)

CreateNode(n, node) == [do |-> "node.create", id |-> n, node |-> node]
UpdateNode(n, node) == [do |-> "node.update", id |-> n, node |-> node]
DeleteNode(n)       == [do |-> "node.delete", id |-> n]
CreateEdge(e, a, b) == [do |-> "edge.create", id |-> e, edge |-> [from |-> a, to |-> b]]
UpdateEdge(e, a, b) == [do |-> "edge.update", id |-> e, edge |-> [from |-> a, to |-> b]]
DeleteEdge(e)       == [do |-> "edge.delete", id |-> e]

Commands ==
  {CreateNode(n, node) : n \in Nodes, node \in NodeRows}
    \cup {UpdateNode(n, node) : n \in Nodes, node \in NodeRows}
    \cup {DeleteNode(n) : n \in Nodes}
    \cup {CreateEdge(e, a, b) : e \in Edges, a \in Nodes, b \in Nodes}
    \cup {UpdateEdge(e, a, b) : e \in Edges, a \in Nodes, b \in Nodes}
    \cup {DeleteEdge(e) : e \in Edges}

Accepts(g, c) ==
  CASE c.do = "node.create" -> c.id \notin DOMAIN g.nodes
    [] c.do = "node.update" -> c.id \in DOMAIN g.nodes
    [] c.do = "node.delete" -> /\ c.id \in DOMAIN g.nodes
                               /\ \A e \in DOMAIN g.edges :
                                    c.id \notin {g.edges[e].from, g.edges[e].to}
    [] c.do = "edge.create" -> c.id \notin DOMAIN g.edges
    [] OTHER                -> c.id \in DOMAIN g.edges

Effect(g, c) ==
  CASE c.do \in {"node.create", "node.update"} ->
         [g EXCEPT !.nodes = Put(g.nodes, c.id, c.node)]
    [] c.do = "node.delete" ->
         [g EXCEPT !.nodes = Restrict(g.nodes, DOMAIN g.nodes \ {c.id})]
    [] c.do \in {"edge.create", "edge.update"} ->
         [g EXCEPT !.edges = Put(g.edges, c.id, c.edge)]
    [] OTHER ->
         [g EXCEPT !.edges = Restrict(g.edges, DOMAIN g.edges \ {c.id})]

(* The next graph; None when the command or its result is refused. *)
ApplyGraphCommand(g, c) ==
  IF g = None \/ ~Accepts(g, c) \/ ~ValidGraph(Effect(g, c)) THEN None
  ELSE Effect(g, c)

ApplyGraphCommands(g, batch) ==
  LET after[k \in 0..Len(batch)] ==
        IF k = 0 THEN g ELSE ApplyGraphCommand(after[k - 1], batch[k])
  IN after[Len(batch)]

-----------------------------------------------------------------------------
(* The finding policy.                                                     *)

CreatesFinding(c) == c.do = "node.create" /\ c.node.type = "finding"
CreatedFindings(batch) ==
  {batch[i].id : i \in {j \in DOMAIN batch : CreatesFinding(batch[j])}}

(* Faulty variant: an existing finding may be updated. *)
TouchesByDeletion(c, findings) ==
  \/ c.do = "node.update" /\ c.node.type = "finding" /\ c.id \notin findings
  \/ c.do = "node.delete" /\ c.id \in findings

(* An update or a deletion of a finding, or an update into a finding. *)
Touches(c, findings) ==
  \/ c.do = "node.update" /\ (c.id \in findings \/ c.node.type = "finding")
  \/ c.do = "node.delete" /\ c.id \in findings

(* assertGenericCommandsDoNotMutateFindings *)
GenericCommandsSpareFindings(g, batch) ==
  \A i \in DOMAIN batch : /\ ~Touches(batch[i], Findings(g))
                          /\ ~CreatesFinding(batch[i])

(* Faulty variants: the affected nodes are not looked up; any decision but *)
(* the one to correct the coverage will do.                                *)
AttachableAnywhere(w, g, node) ==
  /\ node.origin \in DOMAIN w.scanRuns
  /\ w.scanRuns[node.origin].status = "in_progress"
  /\ w.scanRuns[node.origin].decision = "continue"

AttachableUndecided(w, g, node) ==
  /\ AffectedNodesExist(node, g)
  /\ node.origin \in DOMAIN w.scanRuns
  /\ w.scanRuns[node.origin].status = "in_progress"
  /\ w.scanRuns[node.origin].decision # "correct-coverage"

(* requireAttachableFindingScan *)
Attachable(w, g, node) ==
  /\ AffectedNodesExist(node, g)
  /\ node.origin \in DOMAIN w.scanRuns
  /\ w.scanRuns[node.origin].status = "in_progress"
  /\ w.scanRuns[node.origin].decision = "continue"

(* attachProposedFindingCreates: when it does not throw, and what it returns. *)
ProposalMayAttach(w, g, batch) ==
  /\ \A i \in DOMAIN batch :
       ~Touches(batch[i], Findings(w.graph) \cup CreatedFindings(batch))
  /\ \A n \in CreatedFindings(batch) : Attachable(w, g, g.nodes[n])

WithAttached(w, g, batch) ==
  [s \in DOMAIN w.scanRuns |->
     [w.scanRuns[s] EXCEPT !.findings = @ \cup
        {n \in CreatedFindings(batch) : g.nodes[n].origin = s}]]

-----------------------------------------------------------------------------
(* Projections.                                                            *)

Joining(g, visible) == {e \in DOMAIN g.edges :
                          {g.edges[e].from, g.edges[e].to} \subseteq visible}

(* createOverviewProjection and createProjectMapProjection: the nodes are  *)
(* chosen by the request, the edges are all those between them.            *)
Selection(g, root, visible, grouped) ==
  [root |-> root, visible |-> visible, edges |-> Joining(g, visible),
   grouped |-> grouped]

(* createDiveInProjection: a node, what it affects and its neighbours; the *)
(* groups are the requested ones (None: not requested) or those of a finding. *)
DiveIn(g, n, groups) ==
  LET node    == g.nodes[n]
      touched == UNION {{g.edges[e].from, g.edges[e].to} :
                          e \in {d \in DOMAIN g.edges :
                                   n \in {g.edges[d].from, g.edges[d].to}}}
      related == IF node.type = "finding" THEN {n} \cup node.affected ELSE {}
  IN Selection(g, {n}, {n} \cup touched \cup related,
               IF groups = None THEN related ELSE groups)

-----------------------------------------------------------------------------
(* deleteScanFromWorkspaceState: the run, its findings, their edges, and   *)
(* every mention of one of those.                                          *)
IncidentEdges(g, nodes) ==
  {e \in DOMAIN g.edges : {g.edges[e].from, g.edges[e].to} \cap nodes # {}}

(* Faulty variant: the groups keep the nodes that go. *)
TrimmedOutsideGroups(p, nodes, edges) == [root    |-> p.root \ nodes,
                                          visible |-> p.visible \ nodes,
                                          edges   |-> p.edges \ edges,
                                          grouped |-> p.grouped]

Trimmed(p, nodes, edges) == [root    |-> p.root \ nodes,
                             visible |-> p.visible \ nodes,
                             edges   |-> p.edges \ edges,
                             grouped |-> p.grouped \ nodes]

LosesAll(p, nodes) == \/ p.visible # {} /\ p.visible \subseteq nodes
                      \/ p.root # {} /\ p.root \subseteq nodes

WithoutScan(w, s) ==
  LET gone      == OwnedFindings(w.graph, s)
      goneEdges == IncidentEdges(w.graph, gone)
      kept      == {p \in DOMAIN w.projections : ~LosesAll(w.projections[p], gone)}
  IN [graph |->
        [nodes |-> Restrict(w.graph.nodes, DOMAIN w.graph.nodes \ gone),
         edges |-> Restrict(w.graph.edges, DOMAIN w.graph.edges \ goneEdges)],
      projections |-> [p \in kept |-> Trimmed(w.projections[p], gone, goneEdges)],
      categoryAssignments |->
        w.categoryAssignments \ (({"node"} \X gone) \cup ({"edge"} \X goneEdges)
          \cup ({"projection"} \X (DOMAIN w.projections \ kept))),
      scanRuns |-> Restrict(w.scanRuns, DOMAIN w.scanRuns \ {s}),
      feedbackEvents |-> w.feedbackEvents,
      proposals |-> w.proposals]
=============================================================================
