SPECIFICATION FairSpec
CONSTANTS
  Job = {j1}
  Worker = {w1, w2}
  Client = {c1}
  QueueSize = 1
  AutoDelete = TRUE
  SavesFail = FALSE
  Restarts = FALSE
  MayStop = TRUE
  None = None
INVARIANT RunningIsOwned
PROPERTY EnqueuedEnds
PROPERTY StopCompletes
CHECK_DEADLOCK FALSE
