SPECIFICATION FairSpec
CONSTANTS
  Job = {j1, j2}
  Worker = {w1}
  Client = {}
  QueueSize = 1
  AutoDelete = TRUE
  SavesFail = FALSE
  Restarts = FALSE
  MayStop = FALSE
  None = None
PROPERTY DeferredIsPickedUp
CHECK_DEADLOCK FALSE
