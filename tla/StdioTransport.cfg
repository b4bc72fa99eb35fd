SPECIFICATION FairSpec
CONSTANTS
  Req = {r1, r2}
  MaxRestarts = 1
  None = None
PROPERTY KeepsPromise
INVARIANT OneSender
INVARIANT NoOrphan
PROPERTY DeadChildFails
CHECK_DEADLOCK FALSE
