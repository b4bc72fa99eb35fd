SPECIFICATION Spec
CONSTANTS
  Job = {j1}
  Worker = {w1, w2}
  Client = {c1, c2}
  QueueSize = 1
  AutoDelete = TRUE
  SavesFail = TRUE
  Restarts = TRUE
  MayStop = TRUE
  None = None
SYMMETRY Symmetry
INVARIANT CopyStatus
PROPERTY SettledStays
CHECK_DEADLOCK FALSE
