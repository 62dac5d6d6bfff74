---------------------- MODULE WorkspaceMutationsProofs ----------------------
(***************************************************************************)
(* The mutations of a workspace, for any ids, batches and selections: the  *)
(* saved state is always well formed and valid, and from that, step by     *)
(* step, the action properties of findings, runs and proposals.  A batch   *)
(* of graph commands is a loop over the commands, so what it does to the   *)
(* findings is proved by induction over its prefixes.                      *)
(***************************************************************************)
EXTENDS WorkspaceMutations, TLAPS, WellFoundedInduction

-----------------------------------------------------------------------------
(* The cascade of scan_delete, for workspaces of any size: what it leaves  *)
(* of a valid state is a valid state; so validation never refuses it.      *)

(* What is left of the graph: an edge stays with both of its ends, a       *)
(* finding of another run stays as it was.                                 *)
LEMMA CascadeGraph ==
  ASSUME NEW w, NEW s, ValidGraph(w.graph)
  PROVE  LET gone == OwnedFindings(w.graph, s)
             g    == WithoutScan(w, s).graph
         IN /\ ValidGraph(g)
            /\ DOMAIN g.nodes = DOMAIN w.graph.nodes \ gone
            /\ DOMAIN g.edges = DOMAIN w.graph.edges \ IncidentEdges(w.graph, gone)
            /\ \A n \in DOMAIN g.nodes : g.nodes[n] = w.graph.nodes[n]
            /\ \A e \in DOMAIN g.edges : g.edges[e] = w.graph.edges[e]
            /\ Findings(g) = Findings(w.graph) \ gone
<1> DEFINE gone == OwnedFindings(w.graph, s)
           g == WithoutScan(w, s).graph
<1>1. /\ g.nodes = Restrict(w.graph.nodes, DOMAIN w.graph.nodes \ gone)
      /\ g.edges = Restrict(w.graph.edges,
                     DOMAIN w.graph.edges \ IncidentEdges(w.graph, gone))
  BY DEF WithoutScan
<1> HIDE DEF g
<1>2. /\ DOMAIN g.nodes = DOMAIN w.graph.nodes \ gone
      /\ \A n \in DOMAIN g.nodes : g.nodes[n] = w.graph.nodes[n]
  BY <1>1 DEF Restrict
<1>3. /\ DOMAIN g.edges = DOMAIN w.graph.edges \ IncidentEdges(w.graph, gone)
      /\ \A e \in DOMAIN g.edges : g.edges[e] = w.graph.edges[e]
  BY <1>1 DEF Restrict
<1>4. Findings(g) = Findings(w.graph) \ gone
  BY <1>2 DEF Findings
<1>5. ValidGraph(g)
  <2> SUFFICES ASSUME NEW e \in DOMAIN g.edges
               PROVE  {g.edges[e].from, g.edges[e].to} \subseteq DOMAIN g.nodes
    BY DEF ValidGraph
  <2>1. /\ e \in DOMAIN w.graph.edges
        /\ {w.graph.edges[e].from, w.graph.edges[e].to} \cap gone = {}
    BY <1>3 DEF IncidentEdges
  <2>2. {w.graph.edges[e].from, w.graph.edges[e].to} \subseteq DOMAIN w.graph.nodes
    BY <2>1 DEF ValidGraph
  <2> QED BY <2>1, <2>2, <1>2, <1>3
<1> QED BY <1>2, <1>3, <1>4, <1>5 DEF g

(* A projection that is kept shows what is left, and no more. *)
LEMMA CascadeProjections ==
  ASSUME NEW w, NEW s, ValidGraph(w.graph),
         \A p \in DOMAIN w.projections : ValidProjection(w.projections[p], w.graph)
  PROVE  LET v == WithoutScan(w, s)
         IN \A p \in DOMAIN v.projections : ValidProjection(v.projections[p], v.graph)
<1> DEFINE v == WithoutScan(w, s)
           gone == OwnedFindings(w.graph, s)
           goneEdges == IncidentEdges(w.graph, gone)
<1> SUFFICES ASSUME NEW p \in DOMAIN v.projections
             PROVE  ValidProjection(v.projections[p], v.graph)
  OBVIOUS
<1>1. /\ p \in DOMAIN w.projections
      /\ v.projections[p] = Trimmed(w.projections[p], gone, goneEdges)
  BY DEF WithoutScan
<1>2. /\ DOMAIN v.graph.nodes = DOMAIN w.graph.nodes \ gone
      /\ DOMAIN v.graph.edges = DOMAIN w.graph.edges \ goneEdges
      /\ \A e \in DOMAIN v.graph.edges : v.graph.edges[e] = w.graph.edges[e]
  BY CascadeGraph
<1> HIDE DEF v
<1>3. ValidProjection(w.projections[p], w.graph)
  BY <1>1
<1> DEFINE old == w.projections[p]
           new == v.projections[p]
<1>4. /\ new.root = old.root \ gone
      /\ new.visible = old.visible \ gone
      /\ new.edges = old.edges \ goneEdges
      /\ new.grouped = old.grouped \ gone
  BY <1>1 DEF Trimmed
<1>5. /\ new.root \cup new.visible \subseteq DOMAIN v.graph.nodes
      /\ new.edges \subseteq DOMAIN v.graph.edges
      /\ new.grouped \subseteq new.visible
  BY <1>2, <1>3, <1>4 DEF ValidProjection
<1>6. ASSUME NEW e \in new.edges
      PROVE  {v.graph.edges[e].from, v.graph.edges[e].to} \subseteq new.visible
  <2>1. /\ e \in DOMAIN w.graph.edges
        /\ {w.graph.edges[e].from, w.graph.edges[e].to} \subseteq old.visible
    BY <1>3, <1>4 DEF ValidProjection
  <2>2. {w.graph.edges[e].from, w.graph.edges[e].to} \cap gone = {}
    BY <2>1, <1>4 DEF IncidentEdges
  <2> QED BY <2>1, <2>2, <1>2, <1>4, <1>5
<1> QED BY <1>5, <1>6 DEF ValidProjection

(* No category assignment is left whose target went. *)
LEMMA CascadeAssignments ==
  ASSUME NEW w, NEW s, ValidGraph(w.graph), ValidCategoryAssignments(w)
  PROVE  ValidCategoryAssignments(WithoutScan(w, s))
<1> DEFINE v == WithoutScan(w, s)
           gone == OwnedFindings(w.graph, s)
           goneEdges == IncidentEdges(w.graph, gone)
           kept == {p \in DOMAIN w.projections : ~LosesAll(w.projections[p], gone)}
<1>1. /\ DOMAIN v.projections = kept
      /\ v.categoryAssignments =
           w.categoryAssignments \ (({"node"} \X gone) \cup ({"edge"} \X goneEdges)
             \cup ({"projection"} \X (DOMAIN w.projections \ kept)))
  BY DEF WithoutScan
<1>2. /\ DOMAIN v.graph.nodes = DOMAIN w.graph.nodes \ gone
      /\ DOMAIN v.graph.edges = DOMAIN w.graph.edges \ goneEdges
  BY CascadeGraph
<1> HIDE DEF v, gone, goneEdges, kept
<1> QED BY <1>1, <1>2 DEF ValidCategoryAssignments, v

(* The findings of the other runs are untouched, and none of them affected *)
(* a finding that went.                                                    *)
LEMMA CascadeScans ==
  ASSUME NEW w, NEW s, ValidGraph(w.graph), ValidScanState(w.scanRuns, w.graph)
  PROVE  ValidScanState(WithoutScan(w, s).scanRuns, WithoutScan(w, s).graph)
<1> DEFINE v == WithoutScan(w, s)
           gone == OwnedFindings(w.graph, s)
<1>1. /\ DOMAIN v.scanRuns = DOMAIN w.scanRuns \ {s}
      /\ \A t \in DOMAIN v.scanRuns : v.scanRuns[t] = w.scanRuns[t]
  BY DEF WithoutScan, Restrict
<1>2. /\ DOMAIN v.graph.nodes = DOMAIN w.graph.nodes \ gone
      /\ \A n \in DOMAIN v.graph.nodes : v.graph.nodes[n] = w.graph.nodes[n]
      /\ Findings(v.graph) = Findings(w.graph) \ gone
  BY CascadeGraph
<1> HIDE DEF v
<1>3. gone = {n \in Findings(w.graph) : w.graph.nodes[n].origin = s}
  BY DEF OwnedFindings
<1> HIDE DEF gone
<1>4. Findings(v.graph) \subseteq DOMAIN v.graph.nodes
  BY DEF Findings
<1>5. ASSUME NEW t \in DOMAIN v.scanRuns
      PROVE  v.scanRuns[t].findings = OwnedFindings(v.graph, t)
  <2>1. /\ t # s
        /\ v.scanRuns[t] = w.scanRuns[t]
        /\ w.scanRuns[t].findings = OwnedFindings(w.graph, t)
    BY <1>1 DEF ValidScanState
  <2>2. OwnedFindings(v.graph, t) = OwnedFindings(w.graph, t)
    BY <2>1, <1>2, <1>3, <1>4 DEF OwnedFindings
  <2> QED BY <2>1, <2>2
<1>6. ASSUME NEW t \in DOMAIN v.scanRuns
      PROVE  ValidScanRun(v.scanRuns[t], v.graph)
  <2>1. ValidScanRun(v.scanRuns[t], w.graph)
    BY <1>1 DEF ValidScanState
  <2>2. v.scanRuns[t].findings \subseteq Findings(v.graph)
    BY <1>5 DEF OwnedFindings
  <2> QED BY <2>1, <2>2 DEF ValidScanRun
<1>7. ASSUME NEW n \in Findings(v.graph)
      PROVE  /\ AffectedNodesExist(v.graph.nodes[n], v.graph)
             /\ v.graph.nodes[n].origin \in DOMAIN v.scanRuns
  <2>1. /\ n \in Findings(w.graph)
        /\ n \notin gone
        /\ v.graph.nodes[n] = w.graph.nodes[n]
    BY <1>2, <1>4
  <2>2. /\ AffectedNodesExist(w.graph.nodes[n], w.graph)
        /\ w.graph.nodes[n].origin \in DOMAIN w.scanRuns
    BY <2>1 DEF ValidScanState
  <2>3. gone \subseteq Findings(w.graph)
    BY <1>3
  <2>4. AffectedNodesExist(v.graph.nodes[n], v.graph)
    BY <2>1, <2>2, <2>3, <1>2 DEF AffectedNodesExist
  <2>5. v.graph.nodes[n].origin \in DOMAIN v.scanRuns
    BY <2>1, <2>2, <1>1, <1>3
  <2> QED BY <2>4, <2>5
<1> QED BY <1>5, <1>6, <1>7 DEF ValidScanState, v

(* Deleting any scan from any valid state gives a valid state. *)
THEOREM CascadeKeepsValid ==
  ASSUME NEW w, NEW s, ValidWorkspaceState(w)
  PROVE  ValidWorkspaceState(WithoutScan(w, s))
BY CascadeGraph, CascadeProjections, CascadeAssignments, CascadeScans
   DEF ValidWorkspaceState

(* What is saved was validated: the saved state is always valid. *)
LEMMA SavedIsValid == Spec => []ValidWorkspaceState(workspace)
<1>1. Init => ValidWorkspaceState(workspace)
  BY DEF Init, InitialWorkspace, NoRows, ValidWorkspaceState, ValidGraph,
         ValidCategoryAssignments, ValidScanState, Findings
<1>2. ValidWorkspaceState(workspace) /\ [Next]_workspace => ValidWorkspaceState(workspace)'
  <2> SUFFICES ASSUME ValidWorkspaceState(workspace), [Next]_workspace
               PROVE  ValidWorkspaceState(workspace')
    OBVIOUS
  <2>1. ASSUME NEW w, Save(w) PROVE ValidWorkspaceState(workspace')
    BY <2>1 DEF Save
  <2>2. CASE UNCHANGED workspace
    BY <2>2
  <2>3. CASE CreateWorkspace
    BY <2>1, <2>3 DEF CreateWorkspace
  <2>4. CASE \E batch \in Batches :
               \/ RunGraphCommands(batch)
               \/ \E q \in Proposals, status \in ProposalStatuses :
                    CreateProposal(q, batch, status)
    BY <2>1, <2>4 DEF RunGraphCommands, CreateProposal
  <2>5. CASE \E q \in Proposals : ApproveProposal(q) \/ RejectProposal(q) \/ ApplyProposal(q)
    BY <2>1, <2>5 DEF ApproveProposal, RejectProposal, ApplyProposal
  <2>6. CASE \E target \in Targets : AssignCategory(target)
    BY <2>1, <2>6 DEF AssignCategory
  <2>7. CASE \E p \in Projections :
               \/ RecordFeedback(p)
               \/ \E root, visible, grouped \in Selections :
                    CreateSelection(p, root, visible, grouped)
               \/ \E n \in Nodes, groups \in Selections \cup {None} :
                    CreateDiveIn(p, n, groups)
    BY <2>1, <2>7 DEF RecordFeedback, CreateSelection, CreateDiveIn, SaveProjection
  <2>8. CASE \E s \in Scans :
               \/ StartScan(s) \/ RecordCoverage(s) \/ DeleteScan(s)
               \/ \E decision \in Decisions : RecordDecision(s, decision)
               \/ \E f \in Nodes, affected \in SUBSET Nodes :
                    CreateScanFinding(s, f, affected)
               \/ \E declares, ready, override \in BOOLEAN :
                    CompleteScan(s, declares, ready, override)
    BY <2>1, <2>8 DEF StartScan, RecordCoverage, DeleteScan, RecordDecision,
                      CreateScanFinding, CompleteScan
  <2>9. CASE \E f \in Nodes, status \in {"open", "resolved"} : UpdateFinding(f, status)
    BY <2>1, <2>9 DEF UpdateFinding
  <2> QED BY <2>2, <2>3, <2>4, <2>5, <2>6, <2>7, <2>8, <2>9 DEF Next
<1> QED BY <1>1, <1>2, PTL DEF Spec

(* The cascade of scan_delete is accepted by validation in every state the *)
(* workspace can reach, whatever its size.                                 *)
THEOREM CascadeAccepted == Spec => []CascadeIsNeverRefused
<1>1. ValidWorkspaceState(workspace) => CascadeIsNeverRefused
  BY CascadeKeepsValid DEF CascadeIsNeverRefused
<1> QED BY <1>1, SavedIsValid, PTL

-----------------------------------------------------------------------------
(* Every inhabited set of naturals has a least member. *)
LEMMA LeastNumber ==
  ASSUME NEW T, T \subseteq Nat, T # {}
  PROVE  \E m \in T : \A k \in T : m <= k
<1> DEFINE R == OpToRel(<, Nat)
<1>1. IsWellFoundedOn(R, Nat)
  BY NatLessThanWellFounded
<1>2. \A x, y \in Nat : x < y => <<x, y>> \in R
  BY DEF OpToRel
<1> HIDE DEF R
<1>3. PICK m \in T : \A y \in T : <<y, m>> \notin R
  BY <1>1, WFMin
<1>4. ASSUME NEW k \in T PROVE m <= k
  <2>1. m \in Nat /\ k \in Nat /\ ~(k < m)
    BY <1>2, <1>3
  <2> QED BY <2>1
<1> QED BY <1>3, <1>4

(* Induction, over sets in place of predicates. *)
LEMMA Induction ==
  ASSUME NEW S, 0 \in S, \A n \in Nat : n \in S => n + 1 \in S
  PROVE  Nat \subseteq S
<1> SUFFICES ASSUME Nat \ S # {} PROVE FALSE
  OBVIOUS
<1>1. PICK m \in Nat \ S : \A k \in Nat \ S : m <= k
  BY LeastNumber
<1>2. m # 0 /\ m - 1 \in Nat /\ m - 1 \in S
  BY <1>1
<1> QED BY <1>1, <1>2

-----------------------------------------------------------------------------
(* What a batch of commands makes of a graph, one command after another. *)
LEMMA BatchSteps ==
  ASSUME NEW g, NEW batch, Len(batch) \in Nat
  PROVE  \E after : /\ after[0] = g
                    /\ \A k \in 1..Len(batch) :
                         after[k] = ApplyGraphCommand(after[k - 1], batch[k])
                    /\ ApplyGraphCommands(g, batch) = after[Len(batch)]
<1> DEFINE F(h, n) == [k \in 0..n |-> IF k = 0 THEN g
                                      ELSE ApplyGraphCommand(h[k - 1], batch[k])]
           S == {n \in Nat : \E h : h = F(h, n)}
<1>1. 0 \in S
  <2> DEFINE h == [k \in 0..0 |-> g]
  <2>1. h = F(h, 0)
    OBVIOUS
  <2> QED BY <2>1
<1>2. ASSUME NEW n \in Nat, n \in S PROVE n + 1 \in S
  <2>1. PICK h : h = F(h, n)
    BY <1>2
  <2> DEFINE i == [k \in 0..(n + 1) |->
                     IF k = n + 1 THEN ApplyGraphCommand(h[n], batch[n + 1]) ELSE h[k]]
  <2>2. ASSUME NEW k \in 0..(n + 1)
        PROVE  i[k] = IF k = 0 THEN g ELSE ApplyGraphCommand(i[k - 1], batch[k])
    <3>1. CASE k = n + 1
      <4>1. i[k] = ApplyGraphCommand(h[n], batch[n + 1]) /\ k # 0 /\ k - 1 = n
        BY <3>1
      <4>2. i[n] = h[n]
        BY <3>1
      <4> QED BY <3>1, <4>1, <4>2
    <3>2. CASE k # n + 1
      <4>1. k \in 0..n /\ i[k] = h[k]
        BY <3>2
      <4>2. h[k] = IF k = 0 THEN g ELSE ApplyGraphCommand(h[k - 1], batch[k])
        BY <2>1, <4>1
      <4>3. k # 0 => i[k - 1] = h[k - 1]
        BY <4>1
      <4> QED BY <4>1, <4>2, <4>3
    <3> QED BY <3>1, <3>2
  <2>3. i = F(i, n + 1)
    BY <2>2
  <2> HIDE DEF F, i
  <2> QED BY <2>3
<1>3. PICK h : h = F(h, Len(batch))
  <2> HIDE DEF S
  <2>1. Len(batch) \in S
    BY <1>1, <1>2, Induction
  <2> QED BY <2>1 DEF S
<1> DEFINE after == CHOOSE f : f = F(f, Len(batch))
<1>4. after = F(after, Len(batch))
  BY <1>3
<1>5. ApplyGraphCommands(g, batch) = after[Len(batch)]
  BY DEF ApplyGraphCommands
<1> HIDE DEF after
<1> QED BY <1>4, <1>5
-----------------------------------------------------------------------------
(* Tables. *)
LEMMA TableRows ==
  ASSUME NEW ids, NEW rows, NEW table \in Tables(ids, rows)
  PROVE  /\ DOMAIN table \subseteq ids
         /\ \A id \in DOMAIN table : table[id] \in rows
         /\ table \in [DOMAIN table -> rows]
BY DEF Tables

LEMMA NewTable ==
  ASSUME NEW ids, NEW rows, NEW held \in SUBSET ids, NEW table \in [held -> rows]
  PROVE  table \in Tables(ids, rows)
BY DEF Tables

LEMMA PutRow ==
  ASSUME NEW ids, NEW rows, NEW table \in Tables(ids, rows),
         NEW id \in ids, NEW row \in rows
  PROVE  Put(table, id, row) \in Tables(ids, rows)
<1>1. Put(table, id, row) \in [DOMAIN table \cup {id} -> rows]
  BY TableRows DEF Put
<1>2. DOMAIN table \cup {id} \in SUBSET ids
  BY TableRows
<1> QED BY <1>1, <1>2, NewTable

LEMMA RestrictRows ==
  ASSUME NEW ids, NEW rows, NEW table \in Tables(ids, rows), NEW kept,
         kept \subseteq DOMAIN table
  PROVE  Restrict(table, kept) \in Tables(ids, rows)
<1>1. Restrict(table, kept) \in [kept -> rows]
  BY TableRows DEF Restrict
<1>2. kept \in SUBSET ids
  BY TableRows
<1> QED BY <1>1, <1>2, NewTable

(* What a command does to the nodes and the edges, whichever it is. *)
LEMMA CommandEffect ==
  ASSUME NEW g \in Graphs, NEW c \in Commands, NEW h, h = Effect(g, c)
  PROVE  /\ h \in Graphs
         /\ c.do \in {"node.create", "node.update"}
              => h.nodes = Put(g.nodes, c.id, c.node)
         /\ c.do = "node.delete"
              => h.nodes = Restrict(g.nodes, DOMAIN g.nodes \ {c.id})
         /\ c.do \notin {"node.create", "node.update", "node.delete"}
              => h.nodes = g.nodes
<1> USE DEF Graphs
<1>1. CASE \E n \in Nodes, node \in NodeRows :
             c = CreateNode(n, node) \/ c = UpdateNode(n, node)
  <2>1. /\ c.id \in Nodes /\ c.node \in NodeRows
        /\ c.do \in {"node.create", "node.update"}
    BY <1>1 DEF CreateNode, UpdateNode
  <2>2. /\ h.nodes = Put(g.nodes, c.id, c.node)
        /\ h.edges = g.edges /\ h = [nodes |-> h.nodes, edges |-> h.edges]
    BY <2>1 DEF Effect
  <2>3. Put(g.nodes, c.id, c.node) \in Tables(Nodes, NodeRows)
    BY <2>1, PutRow
  <2> QED BY <2>1, <2>2, <2>3
<1>2. CASE \E n \in Nodes : c = DeleteNode(n)
  <2>1. c.do = "node.delete"
    BY <1>2 DEF DeleteNode
  <2>2. /\ h.nodes = Restrict(g.nodes, DOMAIN g.nodes \ {c.id})
        /\ h.edges = g.edges /\ h = [nodes |-> h.nodes, edges |-> h.edges]
    BY <2>1 DEF Effect
  <2>3. Restrict(g.nodes, DOMAIN g.nodes \ {c.id}) \in Tables(Nodes, NodeRows)
    BY RestrictRows
  <2> QED BY <2>1, <2>2, <2>3
<1>3. CASE \E e \in Edges, a \in Nodes, b \in Nodes :
             c = CreateEdge(e, a, b) \/ c = UpdateEdge(e, a, b)
  <2>1. /\ c.id \in Edges /\ c.edge \in EdgeRows
        /\ c.do \in {"edge.create", "edge.update"}
    BY <1>3 DEF CreateEdge, UpdateEdge, EdgeRows
  <2>2. /\ h.edges = Put(g.edges, c.id, c.edge)
        /\ h.nodes = g.nodes /\ h = [nodes |-> h.nodes, edges |-> h.edges]
    BY <2>1 DEF Effect
  <2>3. Put(g.edges, c.id, c.edge) \in Tables(Edges, EdgeRows)
    BY <2>1, PutRow
  <2> QED BY <2>1, <2>2, <2>3
<1>4. CASE \E e \in Edges : c = DeleteEdge(e)
  <2>1. c.do = "edge.delete"
    BY <1>4 DEF DeleteEdge
  <2>2. /\ h.edges = Restrict(g.edges, DOMAIN g.edges \ {c.id})
        /\ h.nodes = g.nodes /\ h = [nodes |-> h.nodes, edges |-> h.edges]
    BY <2>1 DEF Effect
  <2>3. Restrict(g.edges, DOMAIN g.edges \ {c.id}) \in Tables(Edges, EdgeRows)
    BY RestrictRows
  <2> QED BY <2>1, <2>2, <2>3
<1> QED BY <1>1, <1>2, <1>3, <1>4 DEF Commands

(* Of the graph h, made from g: the findings of g are in it unchanged, and *)
(* the others are among new.                                               *)
FindingsKept(g, h, new) ==
  /\ \A f \in Findings(g) : f \in Findings(h) /\ h.nodes[f] = g.nodes[f]
  /\ Findings(h) \subseteq Findings(g) \cup new

(* A command that is accepted and touches no finding. *)
LEMMA CommandSparesFindings ==
  ASSUME NEW g \in Graphs, NEW c \in Commands, Accepts(g, c),
         NEW F, Findings(g) \subseteq F, ~Touches(c, F),
         NEW h, h = Effect(g, c)
  PROVE  FindingsKept(g, h, IF CreatesFinding(c) THEN {c.id} ELSE {})
<1>0. c.do \in {"node.create", "node.update", "node.delete",
                "edge.create", "edge.update", "edge.delete"}
  BY DEF Commands, CreateNode, UpdateNode, DeleteNode, CreateEdge, UpdateEdge, DeleteEdge
<1>1. CASE c.do = "node.create"
  <2>1. h.nodes = Put(g.nodes, c.id, c.node) /\ c.id \notin DOMAIN g.nodes
    BY <1>1, CommandEffect DEF Accepts
  <2> QED BY <1>1, <2>1 DEF FindingsKept, Findings, Put, CreatesFinding
<1>2. CASE c.do = "node.update"
  <2>1. /\ h.nodes = Put(g.nodes, c.id, c.node)
        /\ c.id \notin Findings(g) /\ c.node.type # "finding"
    BY <1>2, CommandEffect DEF Touches
  <2>2. ~CreatesFinding(c)
    BY <1>2 DEF CreatesFinding
  <2> QED BY <1>2, <2>1, <2>2 DEF FindingsKept, Findings, Put
<1>3. CASE c.do = "node.delete"
  <2>1. /\ h.nodes = Restrict(g.nodes, DOMAIN g.nodes \ {c.id})
        /\ c.id \notin Findings(g)
    BY <1>3, CommandEffect DEF Touches
  <2>2. ~CreatesFinding(c)
    BY <1>3 DEF CreatesFinding
  <2> QED BY <1>3, <2>1, <2>2 DEF FindingsKept, Findings, Restrict
<1>4. CASE c.do \notin {"node.create", "node.update", "node.delete"}
  <2>1. h.nodes = g.nodes
    BY <1>4, CommandEffect
  <2>2. ~CreatesFinding(c)
    BY <1>4 DEF CreatesFinding
  <2> QED BY <2>1, <2>2 DEF FindingsKept, Findings
<1> QED BY <1>0, <1>1, <1>2, <1>3, <1>4

(* A batch none of whose commands touches a finding, not even one the      *)
(* batch itself created before: by induction over the commands.            *)
LEMMA BatchSparesFindings ==
  ASSUME NEW g \in Graphs, NEW batch \in Seq(Commands),
         ApplyGraphCommands(g, batch) # None,
         NEW F, Findings(g) \cup CreatedFindings(batch) \subseteq F,
         \A i \in DOMAIN batch : ~Touches(batch[i], F)
  PROVE  /\ ApplyGraphCommands(g, batch) \in Graphs
         /\ FindingsKept(g, ApplyGraphCommands(g, batch), CreatedFindings(batch))
<1>1. /\ Len(batch) \in Nat /\ DOMAIN batch = 1..Len(batch)
      /\ \A i \in 1..Len(batch) : batch[i] \in Commands
  OBVIOUS
<1>2. PICK after : /\ after[0] = g
                   /\ \A k \in 1..Len(batch) :
                        after[k] = ApplyGraphCommand(after[k - 1], batch[k])
                   /\ ApplyGraphCommands(g, batch) = after[Len(batch)]
  BY <1>1, BatchSteps
<1> DEFINE Kept(k) == after[k] # None =>
                        /\ after[k] \in Graphs
                        /\ FindingsKept(g, after[k], CreatedFindings(batch))
           S == {k \in Nat : k <= Len(batch) => Kept(k)}
<1>3. 0 \in S
  BY <1>2 DEF FindingsKept
<1>4. ASSUME NEW n \in Nat, n \in S PROVE n + 1 \in S
  <2> SUFFICES ASSUME n + 1 <= Len(batch), after[n + 1] # None
               PROVE  /\ after[n + 1] \in Graphs
                      /\ FindingsKept(g, after[n + 1], CreatedFindings(batch))
    OBVIOUS
  <2> DEFINE a == after[n]
             c == batch[n + 1]
  <2>1. after[n + 1] = ApplyGraphCommand(a, c) /\ c \in Commands /\ n + 1 \in DOMAIN batch
    BY <1>1, <1>2
  <2>2. a # None /\ Accepts(a, c) /\ after[n + 1] = Effect(a, c)
    BY <2>1 DEF ApplyGraphCommand
  <2>3. a \in Graphs /\ FindingsKept(g, a, CreatedFindings(batch))
    BY <1>4, <2>2
  <2> DEFINE new == IF CreatesFinding(c) THEN {c.id} ELSE {}
  <2>4. new \subseteq CreatedFindings(batch)
    BY <2>1 DEF CreatedFindings
  <2>5. Findings(a) \subseteq F /\ ~Touches(c, F)
    BY <2>1, <2>3 DEF FindingsKept
  <2> HIDE DEF a, c
  <2>6. FindingsKept(a, Effect(a, c), new)
    BY <2>1, <2>2, <2>3, <2>5, CommandSparesFindings
  <2>7. Effect(a, c) \in Graphs
    BY <2>1, <2>3, CommandEffect
  <2> HIDE DEF new
  <2> QED BY <2>2, <2>3, <2>4, <2>6, <2>7 DEF FindingsKept
<1>5. Len(batch) \in S
  <2> HIDE DEF S
  <2> QED BY <1>1, <1>3, <1>4, Induction
<1> QED BY <1>2, <1>5

-----------------------------------------------------------------------------
(* The type invariant.                                                     *)

(* A saved state keeps its form when one of its parts is replaced. *)
LEMMA ReplacedPart ==
  ASSUME NEW w \in WorkspaceStates
  PROVE  /\ \A g \in Graphs : [w EXCEPT !.graph = g] \in WorkspaceStates
         /\ \A a \in SUBSET Targets :
              [w EXCEPT !.categoryAssignments = a] \in WorkspaceStates
         /\ \A e \in SUBSET Projections :
              [w EXCEPT !.feedbackEvents = e] \in WorkspaceStates
         /\ \A t \in Tables(Proposals, ProposalRows) :
              [w EXCEPT !.proposals = t] \in WorkspaceStates
         /\ \A t \in Tables(Projections, ProjectionRows) :
              [w EXCEPT !.projections = t] \in WorkspaceStates
         /\ \A t \in Tables(Scans, RunRows) :
              [w EXCEPT !.scanRuns = t] \in WorkspaceStates
BY DEF WorkspaceStates

(* What is projected of a graph is a row of the table of projections. *)
LEMMA SelectionRow ==
  ASSUME NEW g \in Graphs, NEW root \in SUBSET Nodes, NEW visible \in SUBSET Nodes,
         NEW grouped \in SUBSET Nodes
  PROVE  Selection(g, root, visible, grouped) \in ProjectionRows
<1>1. Joining(g, visible) \in SUBSET Edges
  BY TableRows DEF Joining, Graphs
<1> QED BY <1>1 DEF Selection, ProjectionRows

LEMMA DiveInRow ==
  ASSUME NEW g \in Graphs, NEW n \in DOMAIN g.nodes,
         NEW groups \in (SUBSET Nodes) \cup {None}
  PROVE  DiveIn(g, n, groups) \in ProjectionRows
<1> DEFINE touched == UNION {{g.edges[e].from, g.edges[e].to} :
                               e \in {d \in DOMAIN g.edges :
                                        n \in {g.edges[d].from, g.edges[d].to}}}
           related == IF g.nodes[n].type = "finding"
                        THEN {n} \cup g.nodes[n].affected ELSE {}
           chosen  == IF groups = None THEN related ELSE groups
<1>1. g.nodes[n] \in NodeRows /\ n \in Nodes
  BY TableRows DEF Graphs
<1>2. \A e \in DOMAIN g.edges : g.edges[e] \in EdgeRows
  BY TableRows DEF Graphs
<1>3. touched \in SUBSET Nodes
  BY <1>2 DEF EdgeRows
<1>4. related \in SUBSET Nodes
  BY <1>1 DEF NodeRows
<1>5. chosen \in SUBSET Nodes
  BY <1>4
<1>6. DiveIn(g, n, groups) = Selection(g, {n}, {n} \cup touched \cup related, chosen)
  BY DEF DiveIn
<1> HIDE DEF touched, related, chosen
<1>7. {n} \in SUBSET Nodes /\ {n} \cup touched \cup related \in SUBSET Nodes
  BY <1>1, <1>3, <1>4
<1> QED BY <1>5, <1>6, <1>7, SelectionRow

(* The runs once a proposal attached its findings. *)
LEMMA AttachedRuns ==
  ASSUME NEW w \in WorkspaceStates, NEW g, NEW batch, CreatedFindings(batch) \subseteq Nodes
  PROVE  WithAttached(w, g, batch) \in Tables(Scans, RunRows)
<1>1. /\ w.scanRuns \in Tables(Scans, RunRows)
      /\ DOMAIN w.scanRuns \in SUBSET Scans
  BY TableRows DEF WorkspaceStates
<1>2. ASSUME NEW s \in DOMAIN w.scanRuns
      PROVE  [w.scanRuns[s] EXCEPT !.findings = @ \cup
                {n \in CreatedFindings(batch) : g.nodes[n].origin = s}] \in RunRows
  <2> DEFINE new == {n \in CreatedFindings(batch) : g.nodes[n].origin = s}
             run == w.scanRuns[s]
  <2>1. run \in RunRows /\ new \subseteq Nodes
    BY <1>1, TableRows
  <2> HIDE DEF new, run
  <2>2. [run EXCEPT !.findings = @ \cup new] \in RunRows
    BY <2>1 DEF RunRows
  <2> QED BY <2>2 DEF new, run
<1>3. WithAttached(w, g, batch) \in [DOMAIN w.scanRuns -> RunRows]
  BY <1>2 DEF WithAttached
<1> QED BY <1>1, <1>3, NewTable

(* The findings a batch creates are nodes. *)
LEMMA CreatedAreNodes ==
  ASSUME NEW batch \in Seq(Commands)
  PROVE  CreatedFindings(batch) \subseteq Nodes
<1> SUFFICES ASSUME NEW i \in DOMAIN batch, CreatesFinding(batch[i])
             PROVE  batch[i].id \in Nodes
  BY DEF CreatedFindings
<1> DEFINE c == batch[i]
<1>1. c \in Commands /\ c.do = "node.create"
  BY DEF CreatesFinding
<1> HIDE DEF c
<1>2. PICK n \in Nodes, node \in NodeRows : c = CreateNode(n, node)
  BY <1>1 DEF Commands, CreateNode, UpdateNode, DeleteNode, CreateEdge, UpdateEdge, DeleteEdge
<1> QED BY <1>2 DEF CreateNode, c

(* A batch, whatever it does, leaves a graph or nothing. *)
LEMMA BatchOfGraph ==
  ASSUME NEW g \in Graphs, NEW batch \in Seq(Commands),
         ApplyGraphCommands(g, batch) # None
  PROVE  ApplyGraphCommands(g, batch) \in Graphs
<1>1. /\ Len(batch) \in Nat
      /\ \A i \in 1..Len(batch) : batch[i] \in Commands
  OBVIOUS
<1>2. PICK after : /\ after[0] = g
                   /\ \A k \in 1..Len(batch) :
                        after[k] = ApplyGraphCommand(after[k - 1], batch[k])
                   /\ ApplyGraphCommands(g, batch) = after[Len(batch)]
  BY <1>1, BatchSteps
<1> DEFINE S == {k \in Nat : k <= Len(batch) /\ after[k] # None => after[k] \in Graphs}
<1>3. 0 \in S
  BY <1>2
<1>4. ASSUME NEW n \in Nat, n \in S PROVE n + 1 \in S
  <2> SUFFICES ASSUME n + 1 <= Len(batch), after[n + 1] # None
               PROVE  after[n + 1] \in Graphs
    OBVIOUS
  <2>1. after[n + 1] = ApplyGraphCommand(after[n], batch[n + 1]) /\ batch[n + 1] \in Commands
    BY <1>1, <1>2
  <2>2. after[n] \in Graphs /\ after[n + 1] = Effect(after[n], batch[n + 1])
    BY <1>4, <2>1 DEF ApplyGraphCommand
  <2> QED BY <2>1, <2>2, CommandEffect
<1>5. Len(batch) \in S
  <2> HIDE DEF S
  <2> QED BY <1>1, <1>3, <1>4, Induction
<1> QED BY <1>2, <1>5

-----------------------------------------------------------------------------
(* What the steps make of a well-formed workspace, by kind of step.        *)

(* The mutations of the graph. *)
LEMMA GraphSteps ==
  ASSUME TypeOK, NEW batch \in Batches, RunGraphCommands(batch)
  PROVE  LET g == ApplyGraphCommands(workspace.graph, batch)
         IN /\ workspace' \in WorkspaceStates
            /\ g # None /\ GenericCommandsSpareFindings(workspace.graph, batch)
            /\ workspace'.graph = g
            /\ workspace'.proposals = workspace.proposals
            /\ workspace'.scanRuns = workspace.scanRuns
<1> DEFINE g == ApplyGraphCommands(workspace.graph, batch)
<1>1. g # None /\ workspace' = [workspace EXCEPT !.graph = g]
      /\ GenericCommandsSpareFindings(workspace.graph, batch)
  BY DEF RunGraphCommands, Save
<1>2. workspace.graph \in Graphs /\ batch \in Seq(Commands)
  BY RequestsAreTyped DEF TypeOK, WorkspaceStates
<1>3. g \in Graphs
  BY <1>1, <1>2, BatchOfGraph
<1> HIDE DEF g
<1>4. workspace' \in WorkspaceStates
  BY <1>1, <1>3, ReplacedPart DEF TypeOK
<1>5. /\ workspace'.graph = g
      /\ workspace'.proposals = workspace.proposals
      /\ workspace'.scanRuns = workspace.scanRuns
  BY <1>1 DEF TypeOK, WorkspaceStates
<1> QED BY <1>1, <1>4, <1>5 DEF g

(* The mutations that leave the graph, the proposals and the runs alone. *)
SideStep == \/ \E target \in Targets : AssignCategory(target)
            \/ \E p \in Projections :
                 \/ RecordFeedback(p)
                 \/ \E root, visible, grouped \in Selections :
                      CreateSelection(p, root, visible, grouped)
                 \/ \E n \in Nodes, groups \in Selections \cup {None} :
                      CreateDiveIn(p, n, groups)

LEMMA SideSteps ==
  ASSUME TypeOK, SideStep
  PROVE  /\ workspace' \in WorkspaceStates
         /\ workspace'.graph = workspace.graph
         /\ workspace'.proposals = workspace.proposals
         /\ workspace'.scanRuns = workspace.scanRuns
<1>1. /\ workspace \in WorkspaceStates /\ workspace.graph \in Graphs
      /\ workspace.categoryAssignments \subseteq Targets
      /\ workspace.feedbackEvents \subseteq Projections
      /\ workspace.projections \in Tables(Projections, ProjectionRows)
  BY DEF TypeOK, WorkspaceStates
<1>2. ASSUME NEW target \in Targets, AssignCategory(target)
      PROVE  \E a \in SUBSET Targets : workspace' = [workspace EXCEPT !.categoryAssignments = a]
  BY <1>1, <1>2 DEF AssignCategory, Save
<1>3. ASSUME NEW p \in Projections, RecordFeedback(p)
      PROVE  \E e \in SUBSET Projections : workspace' = [workspace EXCEPT !.feedbackEvents = e]
  BY <1>1, <1>3 DEF RecordFeedback, Save
<1> DEFINE New(row) == /\ row \in ProjectionRows
                       /\ \E p \in Projections : SaveProjection(p, row)
<1>4. ASSUME NEW row, New(row)
      PROVE  \E t \in Tables(Projections, ProjectionRows) :
               workspace' = [workspace EXCEPT !.projections = t]
  <2>1. PICK p \in Projections : SaveProjection(p, row)
    BY <1>4
  <2>2. Put(workspace.projections, p, row) \in Tables(Projections, ProjectionRows)
    BY <1>1, <1>4, PutRow
  <2>3. workspace' = [workspace EXCEPT !.projections = Put(workspace.projections, p, row)]
    BY <2>1 DEF SaveProjection, Save
  <2> QED BY <2>2, <2>3
<1>5. ASSUME NEW p \in Projections, NEW root \in Selections, NEW visible \in Selections,
             NEW grouped \in Selections, CreateSelection(p, root, visible, grouped)
      PROVE  \E row : New(row)
  <2>1. /\ root \in SUBSET Nodes /\ visible \in SUBSET Nodes /\ grouped \in SUBSET Nodes
    BY RequestsAreTyped
  <2>2. Selection(workspace.graph, root, visible, grouped) \in ProjectionRows
    BY <1>1, <2>1, SelectionRow
  <2> QED BY <1>5, <2>2 DEF CreateSelection
<1>6. ASSUME NEW p \in Projections, NEW n \in Nodes, NEW groups \in Selections \cup {None},
             CreateDiveIn(p, n, groups)
      PROVE  \E row : New(row)
  <2>1. groups \in (SUBSET Nodes) \cup {None} /\ n \in DOMAIN workspace.graph.nodes
    BY <1>6, RequestsAreTyped DEF CreateDiveIn
  <2>2. DiveIn(workspace.graph, n, groups) \in ProjectionRows
    BY <1>1, <2>1, DiveInRow
  <2> QED BY <1>6, <2>2 DEF CreateDiveIn
<1> HIDE DEF New
<1>7. \/ \E a \in SUBSET Targets : workspace' = [workspace EXCEPT !.categoryAssignments = a]
      \/ \E e \in SUBSET Projections : workspace' = [workspace EXCEPT !.feedbackEvents = e]
      \/ \E t \in Tables(Projections, ProjectionRows) :
           workspace' = [workspace EXCEPT !.projections = t]
  BY <1>2, <1>3, <1>4, <1>5, <1>6 DEF SideStep
<1>8. workspace' \in WorkspaceStates
  BY <1>1, <1>7, ReplacedPart
<1>9. /\ workspace'.graph = workspace.graph
      /\ workspace'.proposals = workspace.proposals
      /\ workspace'.scanRuns = workspace.scanRuns
  BY <1>1, <1>7 DEF WorkspaceStates
<1> QED BY <1>8, <1>9

(* A new workspace, and the first of all. *)
LEMMA NewWorkspace == /\ InitialWorkspace \in WorkspaceStates
                      /\ DOMAIN InitialWorkspace.proposals = {}
                      /\ DOMAIN InitialWorkspace.scanRuns = {}
                      /\ Findings(InitialWorkspace.graph) = {}
<1>1. ASSUME NEW ids, NEW rows PROVE NoRows \in Tables(ids, rows)
  <2>1. {} \in SUBSET ids /\ NoRows \in [{} -> rows]
    BY DEF NoRows
  <2> QED BY <2>1, NewTable
<1>2. DOMAIN NoRows = {}
  BY DEF NoRows
<1>3. InitialWorkspace \in WorkspaceStates
  BY <1>1 DEF InitialWorkspace, WorkspaceStates, Graphs
<1> QED BY <1>2, <1>3 DEF InitialWorkspace, Findings

(* A proposal gets another status. *)
LEMMA StatusChange ==
  ASSUME NEW w \in WorkspaceStates, NEW q \in DOMAIN w.proposals,
         NEW status \in ProposalStatuses, NEW v, v = WithStatus(w, q, status)
  PROVE  /\ v \in WorkspaceStates
         /\ v.graph = w.graph /\ v.scanRuns = w.scanRuns
         /\ DOMAIN v.proposals = DOMAIN w.proposals
         /\ v.proposals[q].commands = w.proposals[q].commands
         /\ \A x \in DOMAIN w.proposals : x # q => v.proposals[x] = w.proposals[x]
<1> DEFINE table == w.proposals
           row == [table[q] EXCEPT !.status = status]
           new == [table EXCEPT ![q] = row]
<1>1. table \in Tables(Proposals, ProposalRows)
  BY DEF WorkspaceStates
<1>2. table[q] \in ProposalRows /\ DOMAIN table \in SUBSET Proposals
      /\ table \in [DOMAIN table -> ProposalRows]
  BY <1>1, TableRows
<1>3. row \in ProposalRows /\ row.commands = table[q].commands
  BY <1>2 DEF ProposalRows
<1>4. v = [w EXCEPT !.proposals = new]
  BY DEF WithStatus
<1> HIDE DEF row
<1>5. new \in [DOMAIN table -> ProposalRows]
  BY <1>2, <1>3
<1>6. new \in Tables(Proposals, ProposalRows)
  BY <1>2, <1>5, NewTable
<1>7. /\ DOMAIN new = DOMAIN table /\ new[q] = row
      /\ \A x \in DOMAIN table : x # q => new[x] = table[x]
  BY <1>2
<1> HIDE DEF new
<1>8. v \in WorkspaceStates
  BY <1>4, <1>6, ReplacedPart
<1>9. v.graph = w.graph /\ v.scanRuns = w.scanRuns /\ v.proposals = new
  BY <1>4 DEF WorkspaceStates
<1> QED BY <1>3, <1>7, <1>8, <1>9

LEMMA CreateProposalStep ==
  ASSUME TypeOK, NEW q \in Proposals, NEW batch \in Batches, NEW status \in ProposalStatuses,
         CreateProposal(q, batch, status)
  PROVE  /\ workspace' \in WorkspaceStates
         /\ workspace'.graph = workspace.graph /\ workspace'.scanRuns = workspace.scanRuns
         /\ \A x \in DOMAIN workspace.proposals : workspace'.proposals[x] = workspace.proposals[x]
<1> DEFINE table == workspace.proposals
           row == [commands |-> batch, status |-> status]
           new == Put(table, q, row)
<1>1. workspace' = [workspace EXCEPT !.proposals = new] /\ q \notin DOMAIN table
  BY DEF CreateProposal, Save
<1>2. new \in Tables(Proposals, ProposalRows)
  <2>1. row \in ProposalRows
    BY DEF ProposalRows
  <2>2. table \in Tables(Proposals, ProposalRows)
    BY DEF TypeOK, WorkspaceStates
  <2> HIDE DEF row, table
  <2> QED BY <2>1, <2>2, PutRow
<1>3. \A x \in DOMAIN table : new[x] = table[x]
  BY <1>1 DEF Put
<1> HIDE DEF new
<1>4. workspace' \in WorkspaceStates
  BY <1>1, <1>2, ReplacedPart DEF TypeOK
<1>5. /\ workspace'.graph = workspace.graph /\ workspace'.scanRuns = workspace.scanRuns
      /\ workspace'.proposals = new
  BY <1>1 DEF TypeOK, WorkspaceStates
<1> QED BY <1>3, <1>4, <1>5

(* A pending proposal is decided. *)
LEMMA DecideStep ==
  ASSUME TypeOK, NEW q \in Proposals, ApproveProposal(q) \/ RejectProposal(q)
  PROVE  /\ workspace' \in WorkspaceStates
         /\ workspace'.graph = workspace.graph /\ workspace'.scanRuns = workspace.scanRuns
         /\ ProposalIs(q, "pending")
         /\ workspace'.proposals[q].commands = workspace.proposals[q].commands
         /\ \A x \in DOMAIN workspace.proposals :
              x # q => workspace'.proposals[x] = workspace.proposals[x]
<1>1. PICK status \in ProposalStatuses : workspace' = WithStatus(workspace, q, status)
  BY DEF ApproveProposal, RejectProposal, Save, ProposalStatuses
<1>2. ProposalIs(q, "pending")
  BY DEF ApproveProposal, RejectProposal
<1> QED BY <1>1, <1>2, StatusChange DEF TypeOK, ProposalIs

(* An approved proposal is applied. *)
LEMMA ApplyStep ==
  ASSUME TypeOK, NEW q \in Proposals, ApplyProposal(q)
  PROVE  LET batch == workspace.proposals[q].commands
             g     == ApplyGraphCommands(workspace.graph, batch)
         IN /\ workspace' \in WorkspaceStates
            /\ batch \in Seq(Commands) /\ g # None
            /\ ProposalMayAttach(workspace, g, batch)
            /\ workspace'.graph = g
            /\ workspace'.scanRuns = WithAttached(workspace, g, batch)
            /\ ProposalIs(q, "approved")
            /\ workspace'.proposals[q].commands = workspace.proposals[q].commands
            /\ \A x \in DOMAIN workspace.proposals :
                 x # q => workspace'.proposals[x] = workspace.proposals[x]
<1> DEFINE batch == workspace.proposals[q].commands
           g     == ApplyGraphCommands(workspace.graph, batch)
           runs  == WithAttached(workspace, g, batch)
           v     == WithStatus(workspace, q, "applied")
<1>1. /\ ProposalIs(q, "approved") /\ g # None /\ ProposalMayAttach(workspace, g, batch)
      /\ workspace' = [v EXCEPT !.graph = g, !.scanRuns = runs]
  BY DEF ApplyProposal, Save
<1>2. workspace \in WorkspaceStates /\ workspace.graph \in Graphs
      /\ workspace.proposals \in Tables(Proposals, ProposalRows)
  BY DEF TypeOK, WorkspaceStates
<1>3. workspace.proposals[q] \in ProposalRows
  BY <1>1, <1>2, TableRows DEF ProposalIs
<1>4. batch \in Seq(Commands)
  BY <1>3, RequestsAreTyped DEF ProposalRows
<1> HIDE DEF batch
<1>5. g \in Graphs
  BY <1>1, <1>2, <1>4, BatchOfGraph
<1> HIDE DEF g
<1>6. runs \in Tables(Scans, RunRows)
  BY <1>2, <1>4, CreatedAreNodes, AttachedRuns
<1> HIDE DEF runs, v
<1>7. /\ v \in WorkspaceStates
      /\ v.proposals[q].commands = workspace.proposals[q].commands
      /\ \A x \in DOMAIN workspace.proposals :
           x # q => v.proposals[x] = workspace.proposals[x]
  <2>1. "applied" \in ProposalStatuses /\ q \in DOMAIN workspace.proposals
    BY <1>1 DEF ProposalStatuses, ProposalIs
  <2> QED BY <1>2, <2>1, StatusChange DEF v
<1>8. workspace' = [[v EXCEPT !.graph = g] EXCEPT !.scanRuns = runs]
  BY <1>1
<1>9. workspace' \in WorkspaceStates
  BY <1>5, <1>6, <1>7, <1>8, ReplacedPart
<1>10. workspace'.graph = g /\ workspace'.scanRuns = runs /\ workspace'.proposals = v.proposals
  BY <1>1, <1>7 DEF WorkspaceStates
<1> QED BY <1>1, <1>4, <1>7, <1>9, <1>10 DEF batch, g, runs

(* One run gets another row. *)
LEMMA ReplacedRun ==
  ASSUME NEW w \in WorkspaceStates, NEW s \in DOMAIN w.scanRuns, NEW r \in RunRows,
         NEW v, v = [w EXCEPT !.scanRuns = [w.scanRuns EXCEPT ![s] = r]]
  PROVE  /\ v \in WorkspaceStates
         /\ v.graph = w.graph /\ v.proposals = w.proposals
         /\ DOMAIN v.scanRuns = DOMAIN w.scanRuns
         /\ v.scanRuns[s] = r
         /\ \A x \in DOMAIN w.scanRuns : x # s => v.scanRuns[x] = w.scanRuns[x]
<1> DEFINE table == w.scanRuns
           new == [table EXCEPT ![s] = r]
<1>1. table \in Tables(Scans, RunRows)
  BY DEF WorkspaceStates
<1>2. DOMAIN table \in SUBSET Scans /\ table \in [DOMAIN table -> RunRows]
  BY <1>1, TableRows
<1>3. /\ new \in [DOMAIN table -> RunRows]
      /\ new[s] = r
      /\ \A x \in DOMAIN table : x # s => new[x] = table[x]
  BY <1>2
<1>4. new \in Tables(Scans, RunRows)
  BY <1>2, <1>3, NewTable
<1>5. DOMAIN new = DOMAIN table
  BY <1>2
<1> HIDE DEF new
<1>6. v = [w EXCEPT !.scanRuns = new]
  BY DEF new
<1>7. v \in WorkspaceStates
  BY <1>4, <1>6, ReplacedPart
<1>8. v.graph = w.graph /\ v.proposals = w.proposals /\ v.scanRuns = new
  BY <1>6 DEF WorkspaceStates
<1> QED BY <1>3, <1>5, <1>7, <1>8

(* What is recorded in a run, or of it when it completes. *)
LEMMA RunSteps ==
  ASSUME TypeOK, ValidWorkspaceState(workspace), NEW s \in Scans,
         \/ RecordCoverage(s)
         \/ \E decision \in Decisions : RecordDecision(s, decision)
         \/ \E declares, ready, override \in BOOLEAN :
              CompleteScan(s, declares, ready, override)
  PROVE  /\ workspace' \in WorkspaceStates
         /\ workspace'.graph = workspace.graph /\ workspace'.proposals = workspace.proposals
         /\ InProgress(s)
         /\ \A x \in DOMAIN workspace.scanRuns :
              x # s => workspace'.scanRuns[x] = workspace.scanRuns[x]
<1> DEFINE run == workspace.scanRuns[s]
           Becomes(r) == workspace' = [workspace EXCEPT !.scanRuns =
                                         [workspace.scanRuns EXCEPT ![s] = r]]
<1>1. InProgress(s)
  BY DEF RecordCoverage, RecordDecision, CompleteScan, MayComplete, InProgress
<1>2. /\ workspace \in WorkspaceStates /\ workspace.graph.nodes \in Tables(Nodes, NodeRows)
      /\ s \in DOMAIN workspace.scanRuns
  BY <1>1 DEF TypeOK, WorkspaceStates, Graphs, InProgress
<1>3. run \in RunRows
  <2>1. workspace.scanRuns \in Tables(Scans, RunRows)
    BY <1>2 DEF WorkspaceStates
  <2> QED BY <1>2, <2>1, TableRows
<1>4. CASE RecordCoverage(s)
  <2>1. Becomes([run EXCEPT !.coverage = "corrected"])
    BY <1>4 DEF RecordCoverage, Save
  <2>2. [run EXCEPT !.coverage = "corrected"] \in RunRows
    BY <1>3 DEF RunRows
  <2> QED BY <1>1, <1>2, <2>1, <2>2, ReplacedRun
<1>5. ASSUME NEW decision \in Decisions, RecordDecision(s, decision)
      PROVE  \E r \in RunRows : Becomes(r)
  <2>1. Becomes([run EXCEPT !.decision = decision])
    BY <1>5 DEF RecordDecision, Save
  <2>2. [run EXCEPT !.decision = decision] \in RunRows
    BY <1>3 DEF RunRows
  <2> QED BY <2>1, <2>2
<1>6. ASSUME NEW declares \in BOOLEAN, NEW ready \in BOOLEAN, NEW override \in BOOLEAN,
             CompleteScan(s, declares, ready, override)
      PROVE  \E r \in RunRows : Becomes(r)
  <2> DEFINE evidence == Restrict(workspace.graph.nodes, run.findings)
             r1 == [run EXCEPT !.status = "completed"]
             r2 == [r1 EXCEPT !.evidence = evidence]
             r3 == [r2 EXCEPT !.override = override]
             With(w, r) == [w EXCEPT !.scanRuns = [w.scanRuns EXCEPT ![s] = r]]
             w1 == With(workspace, r1)
             w2 == With(w1, r2)
  <2>1. run.findings \subseteq DOMAIN workspace.graph.nodes
    BY <1>2 DEF ValidWorkspaceState, ValidScanState, OwnedFindings, Findings
  <2>2. evidence \in Tables(Nodes, NodeRows)
    BY <1>2, <2>1, RestrictRows
  <2> HIDE DEF evidence
  <2>3. r1 \in RunRows /\ r2 \in RunRows /\ r3 \in RunRows
    BY <1>3, <2>2 DEF RunRows
  <2> HIDE DEF r1, r2, r3, run
  <2>4. w1 \in WorkspaceStates /\ s \in DOMAIN w1.scanRuns /\ w1.scanRuns[s] = r1
    BY <1>2, <2>3, ReplacedRun
  <2>5. w2.scanRuns[s] = r2
    BY <2>3, <2>4, ReplacedRun
  <2>6. workspace' = With(w2, r3)
    BY <1>6, <2>4, <2>5 DEF CompleteScan, WithCompletion, Save, run, r1, r2, r3, evidence
  <2>7. With(w2, r3) = With(workspace, r3)
    OBVIOUS
  <2> QED BY <2>3, <2>6, <2>7
<1>7. ASSUME NEW r \in RunRows, Becomes(r)
      PROVE  /\ workspace' \in WorkspaceStates
             /\ workspace'.graph = workspace.graph /\ workspace'.proposals = workspace.proposals
             /\ \A x \in DOMAIN workspace.scanRuns :
                  x # s => workspace'.scanRuns[x] = workspace.scanRuns[x]
  BY <1>2, <1>7, ReplacedRun
<1> HIDE DEF Becomes
<1> QED BY <1>1, <1>4, <1>5, <1>6, <1>7

LEMMA StartScanStep ==
  ASSUME TypeOK, NEW s \in Scans, StartScan(s)
  PROVE  /\ workspace' \in WorkspaceStates
         /\ workspace'.graph = workspace.graph /\ workspace'.proposals = workspace.proposals
         /\ \A x \in DOMAIN workspace.scanRuns :
              workspace'.scanRuns[x] = workspace.scanRuns[x]
<1> DEFINE new == Put(workspace.scanRuns, s, NewRun)
<1>1. workspace' = [workspace EXCEPT !.scanRuns = new] /\ s \notin DOMAIN workspace.scanRuns
  BY DEF StartScan, Save
<1>2. NewRun \in RunRows
  <2>1. NoRows \in Tables(Nodes, NodeRows)
    <3>1. {} \in SUBSET Nodes /\ NoRows \in [{} -> NodeRows]
      BY DEF NoRows
    <3> QED BY <3>1, NewTable
  <2> QED BY <2>1 DEF NewRun, RunRows
<1>3. new \in Tables(Scans, RunRows)
  BY <1>2, PutRow DEF TypeOK, WorkspaceStates
<1>4. \A x \in DOMAIN workspace.scanRuns : new[x] = workspace.scanRuns[x]
  BY <1>1 DEF Put
<1> HIDE DEF new
<1>5. workspace' \in WorkspaceStates
  BY <1>1, <1>3, ReplacedPart DEF TypeOK
<1>6. /\ workspace'.graph = workspace.graph /\ workspace'.proposals = workspace.proposals
      /\ workspace'.scanRuns = new
  BY <1>1 DEF TypeOK, WorkspaceStates
<1> QED BY <1>4, <1>5, <1>6

(* A finding created through its run. *)
LEMMA CreateFindingStep ==
  ASSUME TypeOK, NEW s \in Scans, NEW f \in Nodes, NEW affected \in SUBSET Nodes,
         CreateScanFinding(s, f, affected)
  PROVE  /\ workspace' \in WorkspaceStates
         /\ MayCreateFinding(workspace, s, f, affected)
         /\ workspace'.graph.nodes = Put(workspace.graph.nodes, f, FindingNode(s, affected))
         /\ workspace'.proposals = workspace.proposals
         /\ \A x \in DOMAIN workspace.scanRuns :
              x # s => workspace'.scanRuns[x] = workspace.scanRuns[x]
<1> DEFINE node == FindingNode(s, affected)
           c    == CreateNode(f, node)
           g    == Effect(workspace.graph, c)
           run  == workspace.scanRuns[s]
           r    == [run EXCEPT !.findings = @ \cup {f}]
           w1   == [workspace EXCEPT !.graph = g]
           w2   == [w1 EXCEPT !.scanRuns = [w1.scanRuns EXCEPT ![s] = r]]
<1>1. MayCreateFinding(workspace, s, f, affected) /\ s \in DOMAIN workspace.scanRuns
  BY DEF CreateScanFinding, MayCreateFinding
<1>2. /\ workspace \in WorkspaceStates /\ workspace.graph \in Graphs
      /\ workspace.scanRuns \in Tables(Scans, RunRows)
  BY DEF TypeOK, WorkspaceStates
<1>3. node \in NodeRows /\ c \in Commands /\ c.do = "node.create" /\ c.id = f /\ c.node = node
  BY DEF FindingNode, NodeRows, Commands, CreateNode
<1> HIDE DEF c, node
<1>4. g \in Graphs /\ g.nodes = Put(workspace.graph.nodes, f, node)
  BY <1>2, <1>3, CommandEffect
<1> HIDE DEF g
<1>5. run \in RunRows
  BY <1>1, <1>2, TableRows
<1>6. r \in RunRows
  BY <1>5 DEF RunRows
<1>7. /\ w1 \in WorkspaceStates /\ w1.graph = g /\ w1.proposals = workspace.proposals
      /\ w1.scanRuns = workspace.scanRuns
  BY <1>2, <1>4, ReplacedPart DEF WorkspaceStates
<1>8. workspace' = w2
  BY <1>7 DEF CreateScanFinding, WithFinding, Save, g, c, node
<1> HIDE DEF w1, r
<1>9. /\ w2 \in WorkspaceStates /\ w2.graph = g /\ w2.proposals = workspace.proposals
      /\ \A x \in DOMAIN workspace.scanRuns : x # s => w2.scanRuns[x] = workspace.scanRuns[x]
  BY <1>1, <1>6, <1>7, ReplacedRun
<1> QED BY <1>1, <1>4, <1>8, <1>9 DEF node

(* A finding gets another status. *)
LEMMA UpdateFindingStep ==
  ASSUME TypeOK, NEW f \in Nodes, NEW status \in {"open", "resolved"}, UpdateFinding(f, status)
  PROVE  /\ workspace' \in WorkspaceStates
         /\ workspace'.proposals = workspace.proposals
         /\ workspace'.scanRuns = workspace.scanRuns
         /\ DOMAIN workspace'.graph.nodes = DOMAIN workspace.graph.nodes
         /\ \A n \in DOMAIN workspace.graph.nodes :
              /\ workspace'.graph.nodes[n].type = workspace.graph.nodes[n].type
              /\ workspace'.graph.nodes[n].origin = workspace.graph.nodes[n].origin
              /\ workspace'.graph.nodes[n].affected = workspace.graph.nodes[n].affected
<1> DEFINE table == workspace.graph.nodes
           row == [table[f] EXCEPT !.status = status]
           new == [table EXCEPT ![f] = row]
           g   == [workspace.graph EXCEPT !.nodes = new]
<1>1. workspace' = [workspace EXCEPT !.graph = g] /\ f \in DOMAIN table
  BY DEF UpdateFinding, Save, Findings
<1>2. workspace \in WorkspaceStates /\ workspace.graph \in Graphs /\ table \in Tables(Nodes, NodeRows)
  BY DEF TypeOK, WorkspaceStates, Graphs
<1>3. /\ DOMAIN table \in SUBSET Nodes /\ table \in [DOMAIN table -> NodeRows]
      /\ table[f] \in NodeRows
  BY <1>1, <1>2, TableRows
<1>4. /\ row \in NodeRows /\ row.type = table[f].type /\ row.origin = table[f].origin
      /\ row.affected = table[f].affected
  BY <1>3 DEF NodeRows
<1> HIDE DEF row
<1>5. /\ new \in [DOMAIN table -> NodeRows] /\ new[f] = row /\ DOMAIN new = DOMAIN table
      /\ \A n \in DOMAIN table : n # f => new[n] = table[n]
  BY <1>1, <1>3, <1>4
<1>6. new \in Tables(Nodes, NodeRows)
  BY <1>3, <1>5, NewTable
<1> HIDE DEF new
<1>7. g \in Graphs /\ g.nodes = new
  BY <1>2, <1>6 DEF Graphs
<1> HIDE DEF g
<1>8. workspace' \in WorkspaceStates
  BY <1>1, <1>2, <1>7, ReplacedPart
<1>9. /\ workspace'.graph = g /\ workspace'.proposals = workspace.proposals
      /\ workspace'.scanRuns = workspace.scanRuns
  BY <1>1, <1>2 DEF WorkspaceStates
<1> QED BY <1>4, <1>5, <1>7, <1>8, <1>9

(* A run goes with its findings. *)
LEMMA DeleteScanStep ==
  ASSUME TypeOK, NEW s \in Scans, DeleteScan(s)
  PROVE  /\ workspace' = WithoutScan(workspace, s)
         /\ workspace' \in WorkspaceStates
         /\ workspace'.proposals = workspace.proposals
         /\ DOMAIN workspace'.scanRuns = DOMAIN workspace.scanRuns \ {s}
         /\ \A x \in DOMAIN workspace'.scanRuns :
              workspace'.scanRuns[x] = workspace.scanRuns[x]
<1> DEFINE v == WithoutScan(workspace, s)
           gone == OwnedFindings(workspace.graph, s)
           goneEdges == IncidentEdges(workspace.graph, gone)
           kept == {p \in DOMAIN workspace.projections : ~LosesAll(workspace.projections[p], gone)}
           rows == [p \in kept |-> Trimmed(workspace.projections[p], gone, goneEdges)]
<1>1. workspace' = v
  BY DEF DeleteScan, Save
<1>2. /\ workspace.graph.nodes \in Tables(Nodes, NodeRows)
      /\ workspace.graph.edges \in Tables(Edges, EdgeRows)
      /\ workspace.scanRuns \in Tables(Scans, RunRows)
      /\ workspace.projections \in Tables(Projections, ProjectionRows)
      /\ workspace.categoryAssignments \subseteq Targets
      /\ workspace.feedbackEvents \subseteq Projections
      /\ workspace.proposals \in Tables(Proposals, ProposalRows)
  BY DEF TypeOK, WorkspaceStates, Graphs
<1>3. rows \in Tables(Projections, ProjectionRows)
  <2>1. ASSUME NEW p \in kept
        PROVE  Trimmed(workspace.projections[p], gone, goneEdges) \in ProjectionRows
    <3>1. workspace.projections[p] \in ProjectionRows
      BY <1>2, TableRows
    <3> HIDE DEF gone, goneEdges
    <3> QED BY <3>1 DEF Trimmed, ProjectionRows
  <2> HIDE DEF gone, goneEdges
  <2>2. kept \in SUBSET Projections
    BY <1>2, TableRows
  <2> HIDE DEF kept
  <2>3. rows \in [kept -> ProjectionRows]
    BY <2>1
  <2> QED BY <2>2, <2>3, NewTable
<1>4. /\ v.graph = [nodes |-> Restrict(workspace.graph.nodes, DOMAIN workspace.graph.nodes \ gone),
                    edges |-> Restrict(workspace.graph.edges, DOMAIN workspace.graph.edges \ goneEdges)]
      /\ v.projections = rows
      /\ v.categoryAssignments \subseteq workspace.categoryAssignments
      /\ v.scanRuns = Restrict(workspace.scanRuns, DOMAIN workspace.scanRuns \ {s})
      /\ v.feedbackEvents = workspace.feedbackEvents
      /\ v.proposals = workspace.proposals
      /\ v = [graph |-> v.graph, projections |-> v.projections,
              categoryAssignments |-> v.categoryAssignments, scanRuns |-> v.scanRuns,
              feedbackEvents |-> v.feedbackEvents, proposals |-> v.proposals]
  BY DEF WithoutScan
<1> HIDE DEF v, gone, goneEdges, rows
<1>5. v.graph \in Graphs
  BY <1>2, <1>4, RestrictRows DEF Graphs
<1>6. v.scanRuns \in Tables(Scans, RunRows)
  BY <1>2, <1>4, RestrictRows
<1>7. v \in WorkspaceStates
  BY <1>2, <1>3, <1>4, <1>5, <1>6 DEF WorkspaceStates
<1>8. /\ DOMAIN v.scanRuns = DOMAIN workspace.scanRuns \ {s}
      /\ \A x \in DOMAIN v.scanRuns : v.scanRuns[x] = workspace.scanRuns[x]
  BY <1>4 DEF Restrict
<1> QED BY <1>1, <1>4, <1>7, <1>8 DEF v

-----------------------------------------------------------------------------
(* The inductive invariant: the saved state is well formed and valid.      *)
IInv == TypeOK /\ ValidWorkspaceState(workspace)

(* What the action properties say of one step. *)
FindingsStay ==
  \A f \in Findings(workspace.graph) :
    LET s == workspace.graph.nodes[f].origin
    IN \/ s \notin DOMAIN workspace'.scanRuns
       \/ /\ f \in Findings(workspace'.graph)
          /\ workspace'.graph.nodes[f].origin = s
          /\ workspace'.graph.nodes[f].affected = workspace.graph.nodes[f].affected

BirthsAreCalibrated ==
  \A f \in Findings(workspace'.graph) \ Findings(workspace.graph) :
    LET s == workspace'.graph.nodes[f].origin
    IN /\ s \in DOMAIN workspace.scanRuns
       /\ workspace.scanRuns[s].status = "in_progress"
       /\ workspace.scanRuns[s].decision = "continue"

CompletedRunsStay ==
  \A s \in DOMAIN workspace.scanRuns \cap DOMAIN workspace'.scanRuns :
    workspace.scanRuns[s].status = "completed"
    => workspace'.scanRuns[s] = workspace.scanRuns[s]

DecidedStays ==
  \A q \in DOMAIN workspace.proposals \cap DOMAIN workspace'.proposals :
    /\ workspace'.proposals[q].commands = workspace.proposals[q].commands
    /\ workspace.proposals[q].status \in {"applied", "rejected"}
         => workspace'.proposals[q] = workspace.proposals[q]

StepIsSound == /\ TypeOK' /\ FindingsStay /\ BirthsAreCalibrated
               /\ CompletedRunsStay /\ DecidedStays

(* A step that keeps the findings keeps them with their runs; one that     *)
(* adds none has none to calibrate.                                        *)
LEMMA KeptFindings ==
  ASSUME NEW new, FindingsKept(workspace.graph, workspace'.graph, new)
  PROVE  /\ FindingsStay
         /\ new = {} => BirthsAreCalibrated
BY DEF FindingsKept, FindingsStay, BirthsAreCalibrated

LEMMA SameGraph ==
  ASSUME workspace'.graph = workspace.graph
  PROVE  FindingsStay /\ BirthsAreCalibrated
BY DEF FindingsStay, BirthsAreCalibrated

(* A run nothing is attached to stays what it was. *)
LEMMA NothingAttached ==
  ASSUME NEW run \in RunRows
  PROVE  [run EXCEPT !.findings = @ \cup {}] = run
<1>1. run.findings \cup {} = run.findings
  OBVIOUS
<1>2. [run EXCEPT !.findings = run.findings] = run
  BY DEF RunRows
<1> QED BY <1>1, <1>2

LEMMA StepIsSoundGraph ==
  ASSUME IInv, NEW batch \in Batches, RunGraphCommands(batch)
  PROVE  StepIsSound
<1> DEFINE g == workspace.graph
           h == ApplyGraphCommands(g, batch)
<1>1. /\ workspace' \in WorkspaceStates /\ workspace'.graph = h
      /\ h # None /\ GenericCommandsSpareFindings(g, batch)
      /\ workspace'.proposals = workspace.proposals
      /\ workspace'.scanRuns = workspace.scanRuns
  BY GraphSteps DEF IInv
<1>2. CreatedFindings(batch) = {}
  BY <1>1 DEF GenericCommandsSpareFindings, CreatedFindings
<1>3. g \in Graphs /\ batch \in Seq(Commands)
  BY RequestsAreTyped DEF IInv, TypeOK, WorkspaceStates
<1>4. \A i \in DOMAIN batch : ~Touches(batch[i], Findings(g))
  BY <1>1 DEF GenericCommandsSpareFindings
<1>5. FindingsKept(g, h, {})
  <2>1. Findings(g) \cup CreatedFindings(batch) \subseteq Findings(g)
    BY <1>2
  <2>2. FindingsKept(g, h, CreatedFindings(batch))
    BY <1>1, <1>3, <1>4, <2>1, BatchSparesFindings
  <2> QED BY <1>2, <2>2
<1>6. FindingsStay /\ BirthsAreCalibrated
  BY <1>1, <1>5, KeptFindings
<1> QED BY <1>1, <1>6 DEF StepIsSound, TypeOK, CompletedRunsStay, DecidedStays

(* The proposal whose findings are attached: they are new, and their runs  *)
(* are in progress and calibrated; so no other run changes.                *)
LEMMA StepIsSoundApply ==
  ASSUME IInv, NEW q \in Proposals, ApplyProposal(q)
  PROVE  StepIsSound
<1> DEFINE batch == workspace.proposals[q].commands
           g     == workspace.graph
           h     == ApplyGraphCommands(g, batch)
           new   == CreatedFindings(batch)
<1>1. /\ workspace' \in WorkspaceStates
      /\ batch \in Seq(Commands) /\ h # None
      /\ ProposalMayAttach(workspace, h, batch)
      /\ workspace'.graph = h
      /\ workspace'.scanRuns = WithAttached(workspace, h, batch)
      /\ ProposalIs(q, "approved")
      /\ workspace'.proposals[q].commands = batch
      /\ \A x \in DOMAIN workspace.proposals :
           x # q => workspace'.proposals[x] = workspace.proposals[x]
  BY ApplyStep DEF IInv
<1> HIDE DEF batch
<1>2. g \in Graphs /\ workspace.scanRuns \in Tables(Scans, RunRows)
  BY DEF IInv, TypeOK, WorkspaceStates
<1>3. FindingsKept(g, h, new)
  <2>1. \A i \in DOMAIN batch : ~Touches(batch[i], Findings(g) \cup new)
    BY <1>1 DEF ProposalMayAttach
  <2> QED BY <1>1, <1>2, <2>1, BatchSparesFindings
<1>4. \A n \in new : /\ h.nodes[n].origin \in DOMAIN workspace.scanRuns
                    /\ workspace.scanRuns[h.nodes[n].origin].status = "in_progress"
                    /\ workspace.scanRuns[h.nodes[n].origin].decision = "continue"
  BY <1>1 DEF ProposalMayAttach, Attachable
<1>5. FindingsStay
  BY <1>1, <1>3, KeptFindings
<1>6. BirthsAreCalibrated
  BY <1>1, <1>3, <1>4, SMTT(30) DEF BirthsAreCalibrated, FindingsKept
<1>7. CompletedRunsStay
  <2> SUFFICES ASSUME NEW s \in DOMAIN workspace.scanRuns,
                      workspace.scanRuns[s].status = "completed"
               PROVE  workspace'.scanRuns[s] = workspace.scanRuns[s]
    BY DEF CompletedRunsStay
  <2> DEFINE run == workspace.scanRuns[s]
             attached == {n \in new : h.nodes[n].origin = s}
  <2>1. attached = {}
    BY <1>4
  <2>2. workspace'.scanRuns[s] = [run EXCEPT !.findings = @ \cup attached]
    BY <1>1 DEF WithAttached
  <2>3. run \in RunRows
    BY <1>2, TableRows
  <2> HIDE DEF attached, run
  <2> QED BY <2>1, <2>2, <2>3, NothingAttached DEF run
<1>8. DecidedStays
  BY <1>1 DEF DecidedStays, ProposalIs, batch
<1> QED BY <1>1, <1>5, <1>6, <1>7, <1>8 DEF StepIsSound, TypeOK

LEMMA StepIsSoundScan ==
  ASSUME IInv, NEW s \in Scans
  PROVE  /\ StartScan(s) => StepIsSound
         /\ (\/ RecordCoverage(s)
             \/ \E decision \in Decisions : RecordDecision(s, decision)
             \/ \E declares, ready, override \in BOOLEAN :
                  CompleteScan(s, declares, ready, override)) => StepIsSound
         /\ \A f \in Nodes, affected \in SUBSET Nodes :
              CreateScanFinding(s, f, affected) => StepIsSound
         /\ DeleteScan(s) => StepIsSound
<1>1. ASSUME StartScan(s) PROVE StepIsSound
  BY <1>1, StartScanStep, SameGraph
     DEF IInv, StepIsSound, TypeOK, CompletedRunsStay, DecidedStays
<1>2. ASSUME \/ RecordCoverage(s)
             \/ \E decision \in Decisions : RecordDecision(s, decision)
             \/ \E declares, ready, override \in BOOLEAN :
                  CompleteScan(s, declares, ready, override)
      PROVE  StepIsSound
  <2>1. /\ workspace' \in WorkspaceStates
        /\ workspace'.graph = workspace.graph /\ workspace'.proposals = workspace.proposals
        /\ InProgress(s)
        /\ \A x \in DOMAIN workspace.scanRuns :
             x # s => workspace'.scanRuns[x] = workspace.scanRuns[x]
    BY <1>2, RunSteps DEF IInv
  <2>2. CompletedRunsStay
    BY <2>1 DEF CompletedRunsStay, InProgress
  <2> QED BY <2>1, <2>2, SameGraph DEF StepIsSound, TypeOK, DecidedStays
<1>3. ASSUME NEW f \in Nodes, NEW affected \in SUBSET Nodes, CreateScanFinding(s, f, affected)
      PROVE  StepIsSound
  <2> DEFINE g == workspace.graph
             h == workspace'.graph
  <2>1. /\ workspace' \in WorkspaceStates
        /\ MayCreateFinding(workspace, s, f, affected)
        /\ h.nodes = Put(g.nodes, f, FindingNode(s, affected))
        /\ workspace'.proposals = workspace.proposals
        /\ \A x \in DOMAIN workspace.scanRuns :
             x # s => workspace'.scanRuns[x] = workspace.scanRuns[x]
    BY <1>3, CreateFindingStep DEF IInv
  <2>2. /\ s \in DOMAIN workspace.scanRuns
        /\ workspace.scanRuns[s].status = "in_progress"
        /\ workspace.scanRuns[s].decision = "continue"
        /\ f \notin DOMAIN g.nodes
    BY <2>1 DEF MayCreateFinding, Attachable, Accepts, CreateNode, FindingNode
  <2>3. FindingsKept(g, h, {f})
    BY <2>1, <2>2 DEF FindingsKept, Findings, Put
  <2>4. h.nodes[f].origin = s
    BY <2>1 DEF Put, FindingNode
  <2>5. BirthsAreCalibrated
    BY <2>2, <2>3, <2>4 DEF BirthsAreCalibrated, FindingsKept
  <2>6. CompletedRunsStay
    BY <2>1, <2>2 DEF CompletedRunsStay
  <2> QED BY <2>1, <2>3, <2>5, <2>6, KeptFindings DEF StepIsSound, TypeOK, DecidedStays
<1>4. ASSUME DeleteScan(s) PROVE StepIsSound
  <2> DEFINE g == workspace.graph
             h == workspace'.graph
  <2>1. /\ workspace' \in WorkspaceStates
        /\ workspace'.proposals = workspace.proposals
        /\ DOMAIN workspace'.scanRuns = DOMAIN workspace.scanRuns \ {s}
        /\ \A x \in DOMAIN workspace'.scanRuns :
             workspace'.scanRuns[x] = workspace.scanRuns[x]
    BY <1>4, DeleteScanStep DEF IInv
  <2>2. workspace' = WithoutScan(workspace, s) /\ ValidGraph(g)
    BY <1>4, DeleteScanStep DEF IInv, ValidWorkspaceState
  <2>3. /\ \A n \in DOMAIN h.nodes : h.nodes[n] = g.nodes[n]
        /\ Findings(h) = Findings(g) \ OwnedFindings(g, s)
    BY <2>2, CascadeGraph
  <2>4. FindingsStay
    <3> SUFFICES ASSUME NEW f \in Findings(g), g.nodes[f].origin # s
                 PROVE  f \in Findings(h) /\ h.nodes[f] = g.nodes[f]
      BY <2>1 DEF FindingsStay
    <3>1. f \in Findings(h)
      BY <2>3 DEF OwnedFindings
    <3> QED BY <2>3, <3>1 DEF Findings
  <2>5. BirthsAreCalibrated
    BY <2>3 DEF BirthsAreCalibrated
  <2> QED BY <2>1, <2>4, <2>5 DEF StepIsSound, TypeOK, CompletedRunsStay, DecidedStays
<1> QED BY <1>1, <1>2, <1>3, <1>4

LEMMA NextIsSound ==
  ASSUME IInv, Next
  PROVE  StepIsSound
<1>1. CASE CreateWorkspace
  <2>1. workspace' = InitialWorkspace
    BY <1>1 DEF CreateWorkspace, Save
  <2> HIDE DEF InitialWorkspace
  <2> QED BY <2>1, NewWorkspace
          DEF StepIsSound, TypeOK, FindingsStay, BirthsAreCalibrated, CompletedRunsStay,
              DecidedStays
<1>2. ASSUME NEW batch \in Batches, RunGraphCommands(batch) PROVE StepIsSound
  BY <1>2, StepIsSoundGraph
<1>3. ASSUME NEW batch \in Batches, NEW q \in Proposals, NEW status \in ProposalStatuses,
             CreateProposal(q, batch, status)
      PROVE  StepIsSound
  BY <1>3, CreateProposalStep, SameGraph
     DEF IInv, StepIsSound, TypeOK, CompletedRunsStay, DecidedStays
<1>4. ASSUME NEW q \in Proposals, ApproveProposal(q) \/ RejectProposal(q)
      PROVE  StepIsSound
  <2>1. DecidedStays
    BY <1>4, DecideStep DEF IInv, DecidedStays, ProposalIs
  <2> QED BY <1>4, <2>1, DecideStep, SameGraph
          DEF IInv, StepIsSound, TypeOK, CompletedRunsStay
<1>5. ASSUME NEW q \in Proposals, ApplyProposal(q) PROVE StepIsSound
  BY <1>5, StepIsSoundApply
<1>6. CASE SideStep
  BY <1>6, SideSteps, SameGraph
     DEF IInv, StepIsSound, TypeOK, CompletedRunsStay, DecidedStays
<1>7. CASE \E s \in Scans :
             \/ StartScan(s) \/ RecordCoverage(s) \/ DeleteScan(s)
             \/ \E decision \in Decisions : RecordDecision(s, decision)
             \/ \E f \in Nodes, affected \in SUBSET Nodes : CreateScanFinding(s, f, affected)
             \/ \E declares, ready, override \in BOOLEAN :
                  CompleteScan(s, declares, ready, override)
  BY <1>7, StepIsSoundScan
<1>8. ASSUME NEW f \in Nodes, NEW status \in {"open", "resolved"}, UpdateFinding(f, status)
      PROVE  StepIsSound
  <2>1. /\ workspace' \in WorkspaceStates
        /\ workspace'.proposals = workspace.proposals
        /\ workspace'.scanRuns = workspace.scanRuns
        /\ DOMAIN workspace'.graph.nodes = DOMAIN workspace.graph.nodes
        /\ \A n \in DOMAIN workspace.graph.nodes :
             /\ workspace'.graph.nodes[n].type = workspace.graph.nodes[n].type
             /\ workspace'.graph.nodes[n].origin = workspace.graph.nodes[n].origin
             /\ workspace'.graph.nodes[n].affected = workspace.graph.nodes[n].affected
    BY <1>8, UpdateFindingStep DEF IInv
  <2>2. Findings(workspace'.graph) = Findings(workspace.graph)
    BY <2>1 DEF Findings
  <2>3. FindingsStay /\ BirthsAreCalibrated
    BY <2>1, <2>2 DEF FindingsStay, BirthsAreCalibrated, Findings
  <2> QED BY <2>1, <2>3 DEF StepIsSound, TypeOK, CompletedRunsStay, DecidedStays
<1> QED BY <1>1, <1>2, <1>3, <1>4, <1>5, <1>6, <1>7, <1>8 DEF Next, SideStep

(* The saved workspace is well formed and valid, always. *)
THEOREM InductiveInvariant == Spec => []IInv
<1>1. Init => TypeOK
  BY NewWorkspace DEF Init, TypeOK
<1>2. TypeOK /\ ValidWorkspaceState(workspace) /\ [Next]_workspace => TypeOK'
  <2>1. CASE Next
    BY <2>1, NextIsSound DEF IInv, StepIsSound
  <2>2. CASE UNCHANGED workspace
    BY <2>2 DEF TypeOK
  <2> QED BY <2>1, <2>2
<1>3. Spec => []TypeOK
  BY <1>1, <1>2, SavedIsValid, PTL DEF Spec
<1> QED BY <1>3, SavedIsValid, PTL DEF IInv

(* A finding keeps its run, its kind and what it affects for life, and     *)
(* goes only together with its run.                                        *)
THEOREM FindingsKeepTheirRun == Spec => FindingsBelongToTheirRun
<1>1. IInv /\ [Next]_workspace => [FindingsStay]_workspace
  BY NextIsSound DEF StepIsSound
<1>2. Spec => [][FindingsStay]_workspace
  BY <1>1, InductiveInvariant, PTL DEF Spec
<1> QED BY <1>2, PTL DEF FindingsBelongToTheirRun, FindingsStay

(* A finding is born in a run that is in progress and whose latest         *)
(* calibration decision is to continue.                                    *)
THEOREM BirthsFollowCalibration == Spec => FindingsAreBornCalibrated
<1>1. IInv /\ [Next]_workspace => [BirthsAreCalibrated]_workspace
  BY NextIsSound DEF StepIsSound
<1>2. Spec => [][BirthsAreCalibrated]_workspace
  BY <1>1, InductiveInvariant, PTL DEF Spec
<1> QED BY <1>2, PTL DEF FindingsAreBornCalibrated, BirthsAreCalibrated

(* A completed run is never edited. *)
THEOREM CompletionIsFinal == Spec => CompletedRunsAreFrozen
<1>1. IInv /\ [Next]_workspace => [CompletedRunsStay]_workspace
  BY NextIsSound DEF StepIsSound
<1>2. Spec => [][CompletedRunsStay]_workspace
  BY <1>1, InductiveInvariant, PTL DEF Spec
<1> QED BY <1>2, PTL DEF CompletedRunsAreFrozen, CompletedRunsStay

(* An applied or rejected proposal stays so, and no proposal's commands    *)
(* change.                                                                 *)
THEOREM ProposalsAreDecidedOnce == Spec => DecisionsAreFinal
<1>1. IInv /\ [Next]_workspace => [DecidedStays]_workspace
  BY NextIsSound DEF StepIsSound
<1>2. Spec => [][DecidedStays]_workspace
  BY <1>1, InductiveInvariant, PTL DEF Spec
<1> QED BY <1>2, PTL DEF DecisionsAreFinal, DecidedStays

-----------------------------------------------------------------------------
(* The checks of the dedicated operations suffice.                         *)

(* A finding that may be created leaves a valid workspace. *)
LEMMA CreationIsValid ==
  ASSUME IInv, NEW s \in Scans, NEW f \in Nodes, NEW affected \in SUBSET Nodes,
         MayCreateFinding(workspace, s, f, affected)
  PROVE  ValidWorkspaceState(WithFinding(workspace, s, f, affected))
<1> DEFINE node == FindingNode(s, affected)
           g == workspace.graph
           v == WithFinding(workspace, s, f, affected)
           h == v.graph
           runs == workspace.scanRuns
<1>1. /\ s \in DOMAIN runs /\ runs[s].status = "in_progress"
      /\ f \notin DOMAIN g.nodes
      /\ affected \subseteq DOMAIN g.nodes \ Findings(g)
  BY DEF MayCreateFinding, Attachable, AffectedNodesExist, Accepts, CreateNode, FindingNode
<1>2. /\ h.nodes = Put(g.nodes, f, node) /\ h.edges = g.edges
      /\ v.categoryAssignments = workspace.categoryAssignments
      /\ v.projections = workspace.projections
      /\ v.scanRuns = [runs EXCEPT ![s] = [runs[s] EXCEPT !.findings = @ \cup {f}]]
  BY DEF WithFinding, Effect, CreateNode, IInv, TypeOK, WorkspaceStates, Graphs
<1> HIDE DEF v
<1>3. runs \in [DOMAIN runs -> RunRows]
  BY TableRows DEF IInv, TypeOK, WorkspaceStates
<1>4. /\ DOMAIN v.scanRuns = DOMAIN runs
      /\ v.scanRuns[s].findings = runs[s].findings \cup {f}
      /\ v.scanRuns[s].status = "in_progress"
      /\ \A t \in DOMAIN runs : t # s => v.scanRuns[t] = runs[t]
  BY <1>1, <1>2, <1>3 DEF RunRows
<1>5. /\ DOMAIN h.nodes = DOMAIN g.nodes \cup {f}
      /\ \A n \in DOMAIN g.nodes : h.nodes[n] = g.nodes[n]
      /\ h.nodes[f] = node
  BY <1>1, <1>2 DEF Put
<1>6. node.type = "finding" /\ node.origin = s /\ node.affected = affected
  BY DEF FindingNode
<1> HIDE DEF node
<1>7. Findings(h) = Findings(g) \cup {f} /\ f \notin Findings(g)
  BY <1>1, <1>5, <1>6 DEF Findings
<1>8. ValidGraph(h) /\ ValidCategoryAssignments(v)
  BY <1>2, <1>5 DEF IInv, ValidWorkspaceState, ValidGraph, ValidCategoryAssignments
<1>9. ASSUME NEW p \in DOMAIN v.projections PROVE ValidProjection(v.projections[p], h)
  BY <1>2, <1>5 DEF IInv, ValidWorkspaceState, ValidProjection
<1>10. ValidScanState(v.scanRuns, h)
  <2>1. ValidScanState(runs, g)
    BY DEF IInv, ValidWorkspaceState
  <2>2. ASSUME NEW t \in DOMAIN v.scanRuns PROVE ValidScanRun(v.scanRuns[t], h)
    BY <1>4, <1>7, <2>1 DEF ValidScanState, ValidScanRun
  <2>3. ASSUME NEW n \in Findings(h)
        PROVE  /\ AffectedNodesExist(h.nodes[n], h)
               /\ h.nodes[n].origin \in DOMAIN v.scanRuns
    <3>1. CASE n = f
      BY <1>1, <1>4, <1>5, <1>6, <1>7, <3>1 DEF AffectedNodesExist
    <3>2. CASE n # f
      <4>1. n \in Findings(g) /\ h.nodes[n] = g.nodes[n]
        BY <1>5, <1>7, <3>2 DEF Findings
      <4> QED BY <1>1, <1>4, <1>5, <1>7, <2>1, <4>1 DEF ValidScanState, AffectedNodesExist
    <3> QED BY <3>1, <3>2
  <2>4. ASSUME NEW t \in DOMAIN v.scanRuns
        PROVE  v.scanRuns[t].findings = OwnedFindings(h, t)
    <3>1. runs[t].findings = OwnedFindings(g, t)
      BY <1>4, <2>1 DEF ValidScanState
    <3>2. \A n \in Findings(g) : h.nodes[n] = g.nodes[n]
      BY <1>5 DEF Findings
    <3>3. OwnedFindings(h, t) = OwnedFindings(g, t) \cup (IF t = s THEN {f} ELSE {})
      BY <1>5, <1>6, <1>7, <3>2 DEF OwnedFindings
    <3> QED BY <1>4, <3>1, <3>3
  <2> QED BY <2>2, <2>3, <2>4 DEF ValidScanState
<1> QED BY <1>8, <1>9, <1>10 DEF ValidWorkspaceState, v

(* A run that may be completed leaves a valid workspace. *)
LEMMA CompletionIsValid ==
  ASSUME IInv, NEW s \in Scans, NEW declares \in BOOLEAN, NEW ready \in BOOLEAN,
         NEW override \in BOOLEAN, MayComplete(workspace, s, declares, ready, override)
  PROVE  ValidWorkspaceState(WithCompletion(workspace, s, override))
<1> DEFINE g == workspace.graph
           v == WithCompletion(workspace, s, override)
           runs == workspace.scanRuns
           evidence == Restrict(g.nodes, runs[s].findings)
           row == [runs[s] EXCEPT !.status = "completed", !.evidence = evidence,
                                  !.override = override]
<1>1. s \in DOMAIN runs /\ ValidScanState(runs, g)
  BY DEF MayComplete, IInv, ValidWorkspaceState
<1>2. runs \in [DOMAIN runs -> RunRows]
  BY TableRows DEF IInv, TypeOK, WorkspaceStates
<1>3. /\ v.graph = g
      /\ v.categoryAssignments = workspace.categoryAssignments
      /\ v.projections = workspace.projections
      /\ DOMAIN v.scanRuns = DOMAIN runs
      /\ v.scanRuns[s] = row
      /\ \A t \in DOMAIN runs : t # s => v.scanRuns[t] = runs[t]
  BY <1>1 DEF WithCompletion, IInv, TypeOK, WorkspaceStates
<1> HIDE DEF v
<1>4. DOMAIN evidence = runs[s].findings
  BY DEF Restrict
<1> HIDE DEF evidence
<1>5. row.findings = runs[s].findings /\ row.evidence = evidence
  BY <1>1, <1>2 DEF RunRows
<1> HIDE DEF row
<1>6. \A t \in DOMAIN runs : /\ v.scanRuns[t].findings = runs[t].findings
                            /\ runs[t].findings = OwnedFindings(g, t)
  BY <1>1, <1>3, <1>5 DEF ValidScanState
<1>7. ASSUME NEW t \in DOMAIN v.scanRuns PROVE ValidScanRun(v.scanRuns[t], g)
  <2>1. CASE t = s
    <3>1. row.findings \subseteq Findings(g)
      BY <1>1, <1>5, <1>6 DEF OwnedFindings
    <3> QED BY <1>3, <1>4, <1>5, <2>1, <3>1 DEF ValidScanRun
  <2>2. CASE t # s
    BY <1>1, <1>3, <2>2 DEF ValidScanState
  <2> QED BY <2>1, <2>2
<1>8. ValidScanState(v.scanRuns, g)
  BY <1>1, <1>3, <1>6, <1>7 DEF ValidScanState
<1> QED BY <1>3, <1>8 DEF IInv, ValidWorkspaceState, ValidCategoryAssignments, v

(* Validation never overrules scan_finding_create and scan_complete.       *)
THEOREM ChecksSuffice == Spec => []ScanChecksSuffice
<1>1. IInv => ScanChecksSuffice
  BY CreationIsValid, CompletionIsValid DEF ScanChecksSuffice
<1> QED BY <1>1, InductiveInvariant, PTL
=============================================================================
