SPECIFICATION FairSpec
CONSTANTS
  Items = {x1}
  Attempts = {a1, a2}
  MaxNumRequeues = 1
  MaxFailures = 3
  None = None
  BaseDelay = 3
  MaxDelay = 10
  MaxInt = 15
PROPERTY SubmittedItemsComeBack
