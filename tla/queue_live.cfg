SPECIFICATION FairSpec
CONSTANTS
  Items = {x1, x2}
  Getters = {g1, g2}
  Stoppers = {s1, s2}
  Adders = {p1}
  Entries = {e1}
  None = None
  Delays = {1}
  Backoff <- MCBackoff
  MaxFailures = 0
  MaxTime = 1
  HandOff = FALSE
INVARIANT NothingStranded
PROPERTIES ItemsAreTaken DelayedItemsCome ConsumersLeave ShutdownsReturn
