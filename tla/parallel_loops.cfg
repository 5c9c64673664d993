SPECIFICATION FairSpec
CONSTANTS
  N = 3
  Wrappers <- MCWrappers
  None = None
INVARIANTS ForRunsEveryIndex ForAnswersFirstOfAGoroutine
PROPERTIES ImplementsLoopAnswers LoopsReturn
CHECK_DEADLOCK FALSE
