SPECIFICATION FairSpec
CONSTANTS
  MaxAbandoned = 2
INVARIANTS LoopsEndAsTold
PROPERTIES StoppedLoopsEnd 
CHECK_DEADLOCK FALSE
