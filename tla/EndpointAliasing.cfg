SPECIFICATION Spec
CONSTANTS
  Values <- OneFlow
  Keys <- OneFlowKeys
  Nacks <- OneFlowNacks
  Nil = Nil
  TTL = 1
  MaxTime = 2
  Instances = {i1}
  Workers = {w1}
  Ifaces = {e1}
  Backend = "memory"
  Dedup = FALSE
  DedupWindow = 1
  NumShards = 2
  Suppress = {}
  Faults = {}
  MaxNacks = 2
  MaxRecv = 2
SYMMETRY Interchangeable
INVARIANT
  SentIsRequested
CHECK_DEADLOCK FALSE
