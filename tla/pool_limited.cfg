SPECIFICATION FairSpec
CONSTANTS
  Tasks = {t1, t2, t3, t4}
  Workers = {w1, w2, w3}
  Max = 2
  None = None
INVARIANTS WithinLimit FreeCountsIdleWorkers RunsOnce WaitingTasksHaveWorkers
PROPERTIES ImplementsTaskService AcceptedTasksEnd
CHECK_DEADLOCK FALSE
