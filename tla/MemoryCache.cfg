SPECIFICATION FairSpec
CONSTANTS
  Keys = {k1, k2, k3}
  Values = {v1, v2}
  Nil = Nil
  TTL = 1
  MaxTime = 3
  MaxKeys = 2
INVARIANTS
  TypeOK
  WithinLimit
PROPERTIES
  ImplementsCache
  NoNeedlessLoss
  CloseReturns
