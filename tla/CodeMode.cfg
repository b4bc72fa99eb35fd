SPECIFICATION CodeFairSpec
CONSTANTS
  Exec = {x1, x2}
  Call = {x1, x2}
  Tool <- Tools
  Registered <- NoNames
  Inline <- Commands
  TripRequests = 2
  HalfRequests = 2
  CountBound = 2
  MaxPools = 2
  Vm = {v1, v2}
  PoolSize = 1
  None = None
INVARIANT CodeTypeOK
INVARIANT NoPoolEscapes
INVARIANT BreakerCounts
INVARIANT VmIsOwned
 
CHECK_DEADLOCK FALSE
