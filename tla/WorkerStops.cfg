\* One worker and a user: every step is one of the queue, and stops are heeded.
SPECIFICATION FairWSpec
CONSTANTS
  None = None
  w1 = w1
  w2 = w2
  u1 = u1
  JobIds = {1}
  Requests <- OneAttempt
  ClaimFilters = {{}}
  Workers = {w1}
  Sessions = {w1, u1}
  LeaseTicks = 1
  MaxCalls = 2
  MaxTime = 3
  Serializable = FALSE
PROPERTIES QueueSpec StoppedWorkerEnds
CHECK_DEADLOCK FALSE
