SPECIFICATION Spec
CONSTANTS
  c1 = c1
  c2 = c2
  None = None
  Commits = {c1, c2}
  Histories <- MCHistories
  Roots = {d1, d2}
  PathOf <- Straight
  MaxFiles = 2
  MaxFileBytes = 2
  MaxTotalBytes = 3
  MaxFacts = 6
INVARIANTS
  OtherRootsAreRemoved
  LimitsAreExact
PROPERTIES
  KeepsThePromise
