SPECIFICATION Spec
CONSTANTS
  Items = {x1}
  Getters = {g1}
  Stoppers = {s1, s2}
  Adders = {p1, p2}
  Entries = {e1, e2}
  None = None
  Delays = {0, 2}
  Backoff <- MCBackoff
  MaxFailures = 1
  MaxTime = 3
  HandOff = FALSE
SYMMETRY Symmetry
INVARIANTS TypeOK WaitGroupCounts ArmedTimersAreMapped NoTimerAfterShutdown
PROPERTY DeadlineOnlyEarlier
