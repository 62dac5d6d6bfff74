SPECIFICATION FairSpec
CONSTANTS
  w1 = w1
  i1 = i1
  None = None
  Workspaces = {w1}
  Indexes = {i1}
  Owner <- OneWorkspace
  Revisions = {r1}
  Scans = {n1}
  Sessions = {s1, s2}
INVARIANTS
  LockedReadsAreStable
PROPERTIES
  IndexChangesUnderKey
  KeysAreReturned
