SPECIFICATION FairSpec
CONSTANTS
  Calls = {c1, c2, c3}
  Workspaces = {w1, w2}
  Indexes = {i1}
  GlobalKey = GlobalKey
  NoIndex = NoIndex
  NoRun = NoRun
INVARIANTS
  MutualExclusion
  FirstComeFirstServed
  TailIsLatestPending
  ExclusiveIdsAreRunning
PROPERTIES
  EveryCallReturns
  ImplementsKeyedQueue
