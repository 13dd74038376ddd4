SPECIFICATION Spec
CONSTANTS
  Workers = {w1, w2}
  Sources = {s1}
  HashKeys = {0, 1}
  SeqNums = {q1, q2}
  Groups = {g1}
  Limits <- MCLimits
  Minute = 60
  MaxTime = 2
  MaxCalls = 3
SYMMETRY Symmetry
INVARIANT RefusedByChainIsFree
CHECK_DEADLOCK FALSE
