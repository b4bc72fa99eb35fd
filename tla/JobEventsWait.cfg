SPECIFICATION LoadedSpec
CONSTANTS
  Job = {j1}
  Worker = {w1}
  Client = {c1}
  QueueSize = 1
  AutoDelete = TRUE
  SavesFail = FALSE
  Restarts = TRUE
  MayStop = TRUE
  None = None
  Waiter = {u1}
  Streamer = {}
  SubSize = 1
 
PROPERTY Spec
CHECK_DEADLOCK FALSE
