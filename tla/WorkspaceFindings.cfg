SPECIFICATION Spec
CONSTANTS
  c1 = c1
  f1 = f1
  e1 = e1
  s1 = s1
  s2 = s2
  None = None
  Nodes = {c1, f1}
  Edges = {}
  Projections = {}
  Proposals = {q1}
  Scans = {s1, s2}
  Batches <- Proposed
  Selections = {}
  MaxAssignments = 0
INVARIANTS ScanChecksSuffice
PROPERTIES FindingsAreBornCalibrated CompletedRunsAreFrozen DecisionsAreFinal
