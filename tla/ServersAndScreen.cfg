SPECIFICATION Spec
CONSTANTS
  None = None
  Servers <- ThreeServers
  Versions <- TwoVersions
  Version <- OneIsNewer
  Operations <- TwoOperations
  Health = "health"
  Conns <- OneConnection
  HttpRequests <- ThreeRequests
  Signals <- BothSignals
  MaxCalls = 2
  Workspaces <- TwoWorkspaces
  MaxFaults = 2
  MaxResets = 1
  MaxProjections = 2
  MaxEntries = 3
  MaxDispatches = 3
INVARIANT
  NothingIsBrokenOff
PROPERTIES
  StartsLeaveOneSchema
  ScreenIsTheLocation
  EveryWaitEnds
CHECK_DEADLOCK FALSE
