SPECIFICATION Spec
CONSTANTS
  Callers = {c1, c2}
  Keys = {k1, k2}
  Max = 1
  Window = 2
  MaxTime = 4
  MaxCalls = 2
INVARIANTS
  TypeOK
  StampBound
  CommitBound
PROPERTY
  SelfHeals
CHECK_DEADLOCK FALSE
