SPECIFICATION Spec
CONSTANTS
  Items = {x1, x2, x3}
  Getters = {g1, g2}
  Stoppers = {s1, s2}
  Adders = {}
  Entries = {}
  None = None
  Delays = {}
  Backoff <- MCBackoff
  MaxFailures = 0
  MaxTime = 0
  HandOff = TRUE
SYMMETRY Symmetry
INVARIANTS QueueMatchesSets OneConsumerPerItem NoLostWakeup
PROPERTY ImplementsWorkSet
