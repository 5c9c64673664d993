SPECIFICATION QueueFairSpec
CONSTANTS
  Items = {x1, x2, x3}
  Values = {u, v}
  Getters = {g1, g2}
  Stoppers = {s1}
  Adders = {}
  Entries = {}
  None = None
  Delays = {}
  Backoff <- MCBackoff
  MaxFailures = 0
  MaxTime = 0
  HandOff = FALSE
  MaxPuts = 3
PROPERTIES ImplementsFifo EveryPutIsTaken
CHECK_DEADLOCK FALSE
