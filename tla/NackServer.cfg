SPECIFICATION FairSpec
CONSTANTS
  Workers = {w1, w2}
  Capacity = 2
  MaxArrivals = 5
INVARIANTS
  TypeOK
  SocketOutlivesWorkers
  EachOnce
  ShutdownLoss
PROPERTIES
  Stops
  Served
CHECK_DEADLOCK FALSE
