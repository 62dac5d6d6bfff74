SPECIFICATION Spec
CONSTANTS
  c1 = c1
  f1 = f1
  e1 = e1
  s1 = s1
  s2 = s2
  None = None
  Nodes = {c1, f1}
  Edges = {e1}
  Projections = {p1}
  Proposals = {}
  Scans = {s1}
  Batches <- OneFinding
  Selections = {{}, {c1}, {f1}, {c1, f1}}
  MaxAssignments = 1
INVARIANT AnyRunMayBeDeleted
