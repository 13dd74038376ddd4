SPECIFICATION FairSpec
CONSTANTS
  Values <- TwoFlows
  Keys <- TwoFlowsKeys
  Nacks <- TwoFlowsNacks
  Nil = Nil
  TTL = 1
  MaxTime = 2
  Instances = {i1}
  Workers = {w1, w2}
  Ifaces = {e1}
  Backend = "memory"
  Dedup = FALSE
  DedupWindow = 1
  NumShards = 2
  Suppress = {"MISS"}
  Faults = {"egress", "crash"}
  MaxNacks = 2
  MaxRecv = 2
INVARIANTS
  AckIsHonest
PROPERTY
  WorkersFinish
CHECK_DEADLOCK FALSE
