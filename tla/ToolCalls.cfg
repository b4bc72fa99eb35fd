SPECIFICATION FairSpec
CONSTANTS
  Caller = {c1, c2}
  Toolkit <- Toolkits
  Query = {q}
  Name <- Names
  Qualified <- Dots
  Domain <- Domains
  Retries = 2
  None = None
INVARIANT TypeOK
INVARIANT ResolvesDuringCall
PROPERTY PresentIsFound
 
CHECK_DEADLOCK FALSE
