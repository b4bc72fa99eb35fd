SPECIFICATION Spec
CONSTANTS
  Id = {i1, i2}
  Box = {b1, b2}
  Tool = {t1, t2}
  Name <- Names
  Config <- Entries
  Go = {g1, g2, g3}
  MaxStarts = 2
  MaxRequests = 2
  None = None
SYMMETRY Symmetry
INVARIANT TypeOK
INVARIANT StoreFollows
 
PROPERTY StartRestores
CHECK_DEADLOCK FALSE
