SPECIFICATION Spec
CONSTANTS
  w1 = w1
  i1 = i1
  None = None
  Workspaces = {w1}
  Indexes = {i1}
  Owner <- OneWorkspace
  Revisions = {r1, r2}
  Scans = {n1}
  Sessions = {s1}
INVARIANTS
  AnswerIsOfOneRevision
