------------------------- MODULE WorkspaceMutations -------------------------
(***************************************************************************)
(* The mutations of one workspace in HiveMapRuntime: each loads the saved  *)
(* state, computes the next one, validates it and saves it whole.  They    *)
(* run one at a time under the key of the workspace and a save is one      *)
(* transaction, so a mutation is one step; a refused or failed one leaves  *)
(* the saved state as it was.                                              *)
(*                                                                         *)
(* The capture policy is the one every workspace is created with,          *)
(* delegated.  What an index says of a scan (its profile, its evidence,    *)
(* whether its calibration is findings-ready) is any answer.               *)
(***************************************************************************)
EXTENDS WorkspaceState

CONSTANTS Batches,         \* batches of graph commands a request may carry
          Selections,      \* sets of nodes a projection request may name
          MaxAssignments   \* bound: category assignments in the workspace

(* A batch is a list of graph commands, a selection names nodes. *)
ASSUME RequestsAreTyped == /\ Batches \subseteq Seq(Commands)
                           /\ Selections \subseteq SUBSET Nodes

ProposalStatuses == {"pending", "approved", "rejected", "applied"}

ProposalRows == [commands : Batches, status : ProposalStatuses]

WorkspaceStates ==
  [graph : Graphs,
   categoryAssignments : SUBSET Targets,
   feedbackEvents : SUBSET Projections,
   proposals : Tables(Proposals, ProposalRows),
   projections : Tables(Projections, ProjectionRows),
   scanRuns : Tables(Scans, RunRows)]

VARIABLE workspace

(* external: the foreign key of feedback_events in Postgres *)
StoreAccepts(w) == w.feedbackEvents \subseteq DOMAIN w.projections

(* saveWorkspaceState *)
Save(w) == /\ ValidWorkspaceState(w)
           /\ StoreAccepts(w)
           /\ workspace' = w

Init == workspace = InitialWorkspace

(* createWorkspace: an id that is in use is created anew. *)
CreateWorkspace == Save(InitialWorkspace)

-----------------------------------------------------------------------------
(* Graph, categories, projections, feedback.                               *)

RunGraphCommands(batch) ==
  LET g == ApplyGraphCommands(workspace.graph, batch)
  IN /\ GenericCommandsSpareFindings(workspace.graph, batch)
     /\ g # None
     /\ Save([workspace EXCEPT !.graph = g])

AssignCategory(target) ==
  /\ Cardinality(workspace.categoryAssignments) < MaxAssignments
  /\ Save([workspace EXCEPT !.categoryAssignments = @ \cup {target}])

(* A second projection of an id breaks the primary key. *)
SaveProjection(p, row) ==
  /\ p \notin DOMAIN workspace.projections
  /\ Save([workspace EXCEPT !.projections = Put(@, p, row)])

CreateSelection(p, root, visible, grouped) ==
  SaveProjection(p, Selection(workspace.graph, root, visible, grouped))

CreateDiveIn(p, n, groups) ==
  /\ n \in DOMAIN workspace.graph.nodes
  /\ SaveProjection(p, DiveIn(workspace.graph, n, groups))

(* An event that names a projection; nothing depends on the others. *)
RecordFeedback(p) ==
  Save([workspace EXCEPT !.feedbackEvents = @ \cup {p}])

-----------------------------------------------------------------------------
(* Proposals.                                                              *)

(* Faulty variant: the status is not looked at. *)
ProposalExists(q, status) == q \in DOMAIN workspace.proposals

ProposalIs(q, status) == /\ q \in DOMAIN workspace.proposals
                         /\ workspace.proposals[q].status = status

WithStatus(w, q, status) == [w EXCEPT !.proposals[q].status = status]

(* The request carries a whole proposal, its status included. *)
CreateProposal(q, batch, status) ==
  /\ q \notin DOMAIN workspace.proposals
  /\ Save([workspace EXCEPT
             !.proposals = Put(@, q, [commands |-> batch, status |-> status])])

ApproveProposal(q) == /\ ProposalIs(q, "pending")
                      /\ Save(WithStatus(workspace, q, "approved"))

RejectProposal(q) == /\ ProposalIs(q, "pending")
                     /\ Save(WithStatus(workspace, q, "rejected"))

ApplyProposal(q) ==
  LET batch == workspace.proposals[q].commands
      g     == ApplyGraphCommands(workspace.graph, batch)
  IN /\ ProposalIs(q, "approved")
     /\ g # None
     /\ ProposalMayAttach(workspace, g, batch)
     /\ Save([WithStatus(workspace, q, "applied") EXCEPT
                !.graph = g, !.scanRuns = WithAttached(workspace, g, batch)])

-----------------------------------------------------------------------------
(* Scans.                                                                  *)

NewRun == [status |-> "in_progress", coverage |-> "derived", decision |-> None,
           findings |-> {}, evidence |-> NoRows, override |-> FALSE]

(* Faulty variant: the status of the run is not looked at. *)
InAnyStatus(s) == s \in DOMAIN workspace.scanRuns

(* findInProgressScan *)
InProgress(s) == /\ s \in DOMAIN workspace.scanRuns
                 /\ workspace.scanRuns[s].status = "in_progress"

(* startScanMutation, once the index turned out to be completed. *)
StartScan(s) ==
  /\ s \notin DOMAIN workspace.scanRuns
  /\ Save([workspace EXCEPT !.scanRuns = Put(@, s, NewRun)])

RecordDecision(s, decision) ==
  /\ InProgress(s)
  /\ Save([workspace EXCEPT !.scanRuns[s].decision = decision])

RecordCoverage(s) ==
  /\ InProgress(s)
  /\ workspace.scanRuns[s].decision = "correct-coverage"
  /\ Save([workspace EXCEPT !.scanRuns[s].coverage = "corrected"])

(* createScanFindingMutation *)
MayCreateFinding(w, s, f, affected) ==
  /\ s \in DOMAIN w.scanRuns
  /\ w.scanRuns[s].status = "in_progress"
  /\ Attachable(w, w.graph, FindingNode(s, affected))
  /\ Accepts(w.graph, CreateNode(f, FindingNode(s, affected)))

WithFinding(w, s, f, affected) ==
  [w EXCEPT !.graph = Effect(@, CreateNode(f, FindingNode(s, affected))),
            !.scanRuns[s].findings = @ \cup {f}]

CreateScanFinding(s, f, affected) ==
  /\ MayCreateFinding(workspace, s, f, affected)
  /\ Save(WithFinding(workspace, s, f, affected))

(* updateFindingMutation: of any run, a completed one too. *)
UpdateFinding(f, status) ==
  /\ f \in Findings(workspace.graph)
  /\ Save([workspace EXCEPT !.graph.nodes[f].status = status])

(* completeScanMutation: declares says whether the request declares        *)
(* findings, ready what the calibration of the index facts amounts to.     *)
MayComplete(w, s, declares, ready, override) ==
  /\ s \in DOMAIN w.scanRuns
  /\ w.scanRuns[s].status = "in_progress"
  /\ (declares \/ w.scanRuns[s].findings # {}) /\ ~override =>
       /\ w.scanRuns[s].decision = "continue"
       /\ ready

WithCompletion(w, s, override) ==
  [w EXCEPT !.scanRuns[s].status = "completed",
            !.scanRuns[s].evidence = Restrict(w.graph.nodes, w.scanRuns[s].findings),
            !.scanRuns[s].override = override]

CompleteScan(s, declares, ready, override) ==
  /\ MayComplete(workspace, s, declares, ready, override)
  /\ Save(WithCompletion(workspace, s, override))

DeleteScan(s) == /\ s \in DOMAIN workspace.scanRuns
                 /\ Save(WithoutScan(workspace, s))

-----------------------------------------------------------------------------
Next ==
  \/ CreateWorkspace
  \/ \E batch \in Batches :
       \/ RunGraphCommands(batch)
       \/ \E q \in Proposals, status \in ProposalStatuses :
            CreateProposal(q, batch, status)
  \/ \E q \in Proposals : ApproveProposal(q) \/ RejectProposal(q) \/ ApplyProposal(q)
  \/ \E target \in Targets : AssignCategory(target)
  \/ \E p \in Projections :
       \/ RecordFeedback(p)
       \/ \E root, visible, grouped \in Selections :
            CreateSelection(p, root, visible, grouped)
       \/ \E n \in Nodes, groups \in Selections \cup {None} : CreateDiveIn(p, n, groups)
  \/ \E s \in Scans :
       \/ StartScan(s) \/ RecordCoverage(s) \/ DeleteScan(s)
       \/ \E decision \in Decisions : RecordDecision(s, decision)
       \/ \E f \in Nodes, affected \in SUBSET Nodes : CreateScanFinding(s, f, affected)
       \/ \E declares, ready, override \in BOOLEAN :
            CompleteScan(s, declares, ready, override)
  \/ \E f \in Nodes, status \in {"open", "resolved"} : UpdateFinding(f, status)

Spec == Init /\ [][Next]_workspace

-----------------------------------------------------------------------------
(* Properties.                                                             *)

TypeOK == workspace \in WorkspaceStates

(* Whatever the workspace has become, the cascade of scan_delete leaves a  *)
(* state that validation accepts: no edge, projection, group, category     *)
(* assignment or finding of another run is left pointing at what went.     *)
CascadeIsNeverRefused ==
  \A s \in DOMAIN workspace.scanRuns : ValidWorkspaceState(WithoutScan(workspace, s))

(* The validation before a save never overrules the dedicated operations:  *)
(* when the checks of scan_finding_create or of scan_complete pass, the    *)
(* state they compute is valid, although those checks look at one run or   *)
(* one node and validation at the whole workspace.                         *)
ScanChecksSuffice ==
  \A s \in Scans :
    /\ \A f \in Nodes, affected \in SUBSET Nodes :
         MayCreateFinding(workspace, s, f, affected)
           => ValidWorkspaceState(WithFinding(workspace, s, f, affected))
    /\ \A declares, ready, override \in BOOLEAN :
         MayComplete(workspace, s, declares, ready, override)
           => ValidWorkspaceState(WithCompletion(workspace, s, override))

(* A finding is born in a run that is in progress and whose latest         *)
(* calibration decision is to continue, also when the proposal it comes    *)
(* from was written and approved long before.                              *)
FindingsAreBornCalibrated ==
  [][\A f \in Findings(workspace'.graph) \ Findings(workspace.graph) :
       LET s == workspace'.graph.nodes[f].origin
       IN /\ s \in DOMAIN workspace.scanRuns
          /\ workspace.scanRuns[s].status = "in_progress"
          /\ workspace.scanRuns[s].decision = "continue"]_workspace

(* A finding keeps its run, its kind and what it affects for life, and     *)
(* goes only together with its run: no graph command, proposal or update   *)
(* reaches it.                                                             *)
FindingsBelongToTheirRun ==
  [][\A f \in Findings(workspace.graph) :
       LET s == workspace.graph.nodes[f].origin
       IN \/ s \notin DOMAIN workspace'.scanRuns
          \/ /\ f \in Findings(workspace'.graph)
             /\ workspace'.graph.nodes[f].origin = s
             /\ workspace'.graph.nodes[f].affected = workspace.graph.nodes[f].affected
    ]_workspace

(* A completed run is never edited: decisions, coverage, findings and the  *)
(* evidence snapshot stay what they were, until the run is removed.        *)
CompletedRunsAreFrozen ==
  [][\A s \in DOMAIN workspace.scanRuns \cap DOMAIN workspace'.scanRuns :
       workspace.scanRuns[s].status = "completed"
       => workspace'.scanRuns[s] = workspace.scanRuns[s]]_workspace

(* docs/specs/repository-scan.md:93: any scan run may be removed           *)
(* explicitly with scan_delete; so the store takes the state without it.   *)
AnyRunMayBeDeleted ==
  \A s \in DOMAIN workspace.scanRuns : StoreAccepts(WithoutScan(workspace, s))

(* A proposal that was applied or rejected stays so and its commands never *)
(* change, so nothing is applied twice, whatever status it was born with.  *)
DecisionsAreFinal ==
  [][\A q \in DOMAIN workspace.proposals \cap DOMAIN workspace'.proposals :
       /\ workspace'.proposals[q].commands = workspace.proposals[q].commands
       /\ workspace.proposals[q].status \in {"applied", "rejected"}
            => workspace'.proposals[q] = workspace.proposals[q]]_workspace

(* docs/specs/repository-scan.md:11: the evidence of a completed run is    *)
(* history; a run goes by scan_delete and by nothing else.                 *)
CompletedEvidenceStays ==
  [][\A s \in DOMAIN workspace.scanRuns :
       workspace.scanRuns[s].status = "completed" /\ s \notin DOMAIN workspace'.scanRuns
       => DeleteScan(s)]_workspace
=============================================================================
