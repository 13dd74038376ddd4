SPECIFICATION Spec
CONSTANTS
  Values <- OneFlow
  Keys <- OneFlowKeys
  Nacks <- OneFlowNacks
  Nil = Nil
  TTL = 1
  MaxTime = 2
  Instances = {i1, i2}
  Workers = {w1}
  Ifaces = {e1, e2}
  Backend = "redis"
  Dedup = TRUE
  DedupWindow = 1
  NumShards = 2
  Suppress = {}
  Faults = {"store", "retrieve", "setnx", "egress", "response", "crash"}
  MaxNacks = 2
  MaxRecv = 2
SYMMETRY Interchangeable
INVARIANTS
  TypeOK
  SentIsRequested
  OncePerWindow
  AckMeansEverywhere
  AckIsHonest
  SuppressedUnlessLost
CHECK_DEADLOCK FALSE
