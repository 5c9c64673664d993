SPECIFICATION FairSpec
CONSTANTS
  Items = {x1}
  Getters = {g1}
  Stoppers = {s1, s2}
  Adders = {}
  Entries = {}
  None = None
  Delays = {}
  Backoff <- MCBackoff
  MaxFailures = 0
  MaxTime = 0
  HandOff = FALSE
PROPERTY EveryDrainReturns
