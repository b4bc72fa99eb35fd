SPECIFICATION Spec
CONSTANTS
  Job = {j1, j2}
  Worker = {w1, w2}
  Client = {}
  QueueSize = 1
  AutoDelete = TRUE
  SavesFail = FALSE
  Restarts = TRUE
  MayStop = TRUE
  None = None
SYMMETRY Symmetry
INVARIANT TypeOK
INVARIANT OneHolderPerCopy
INVARIANT EnqueuedOnce
 
INVARIANT CountersExact
CHECK_DEADLOCK FALSE
