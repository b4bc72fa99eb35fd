SPECIFICATION FairSpec
CONSTANTS
  Conn = {n1, n2, n3}
  Call = {a1, a2}
  MaxConnections = 1
  MaxErrors = 0
  None = None
INVARIANT TypeOK
INVARIANT OneOwner
INVARIANT OwnedIsOpen
INVARIANT NoLeak
PROPERTY CloseEndsAll
CHECK_DEADLOCK FALSE
