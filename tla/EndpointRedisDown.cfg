SPECIFICATION Spec
CONSTANTS
  Values <- OneFlow
  Keys <- OneFlowKeys
  Nacks <- OneFlowNacks
  Nil = Nil
  TTL = 1
  MaxTime = 2
  Instances = {i1, i2}
  Workers = {w1}
  Ifaces = {e1, e2}
  Backend = "redis"
  Dedup = TRUE
  DedupWindow = 1
  NumShards = 2
  Suppress = {}
  Faults = {"setnx"}
  MaxNacks = 2
  MaxRecv = 2
SYMMETRY Interchangeable
INVARIANT
  SuppressedIsServed
CHECK_DEADLOCK FALSE
