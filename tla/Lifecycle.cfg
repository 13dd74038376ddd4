SPECIFICATION FairSpec
CONSTANTS
  Interfaces = {"eth0"}
  Flags <- MCFlags
  Envs <- MCEnvs
  Addrs = {"a1"}
  Workers = {w1}
  Capacity = 1
  MaxArrivals = 1
  MaxFd = 1
INVARIANTS
  TypeOK
  ResourcesOutliveUsers
  ForeignOnlyAtShutdown
  ReadyCountsServing
  AdvertOutlivesInterval
  ShardsApart
  GroupIDNotMisread
CHECK_DEADLOCK FALSE
PROPERTIES
  ImplementsServer
  OwnDescriptorOnly
  ShutsDown
