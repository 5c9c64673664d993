SPECIFICATION FairExecSpec
CONSTANTS
  t1 = t1 t2 = t2 t3 = t3 c1 = c1 c2 = c2
  Tasks = {t1, t2, t3}
  Workers = {w1, w2}
  Calls = {c1, c2}
  Input <- MCInput
  Max = 2
  None = None
INVARIANTS ResultsInInputOrder OneErrorReturned
PROPERTIES ImplementsCallAnswers CallsReturn
CHECK_DEADLOCK FALSE
