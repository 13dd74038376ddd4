SPECIFICATION FairSpec
CONSTANTS
  Callers = {c1}
  Keys = {k1, k2}
  Max = 1
  Window = 2
  MaxTime = 4
  MaxCalls = 2
PROPERTY
  QuietEntriesReleased
CHECK_DEADLOCK FALSE
