SPECIFICATION FairSpec
CONSTANTS
  Names = {n1, n2}
  Callers = {c1, c2, c3}
  MaxOpens = 3
  None = None
INVARIANT TypeOK
INVARIANT CacheCoherent
PROPERTY CloseFreesAll
PROPERTY LockAlwaysReleased
