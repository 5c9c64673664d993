SPECIFICATION Spec
CONSTANTS
  Tasks = {t1, t2, t3}
  Workers = {w1, w2, w3}
  Max = 0
  None = None
SYMMETRY Symmetry
INVARIANT NoWaitingWithoutLimit
CHECK_DEADLOCK FALSE
