SPECIFICATION LoadedFairSpec
CONSTANTS
  Job = {j1}
  Worker = {w1}
  Client = {}
  QueueSize = 1
  AutoDelete = FALSE
  SavesFail = FALSE
  Restarts = FALSE
  MayStop = FALSE
  None = None
  Waiter = {u1}
  Streamer = {s1}
  SubSize = 2
INVARIANT EventsTypeOK
 
CHECK_DEADLOCK FALSE
