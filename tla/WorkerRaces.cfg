\* Two workers and a user interleave loads and flushes.
SPECIFICATION WSpec
CONSTANTS
  None = None
  w1 = w1
  w2 = w2
  u1 = u1
  JobIds = {1}
  Requests <- OneAttempt
  ClaimFilters = {{}}
  Workers = {w1, w2}
  Sessions = {w1, w2, u1}
  LeaseTicks = 1
  MaxCalls = 1
  MaxTime = 3
  Serializable = FALSE
SYMMETRY Symmetry
INVARIANTS BoundaryFirst SubmissionsAreBounded UnknownIsExplained
PROPERTIES SubmitUnknownIsFinal
CHECK_DEADLOCK FALSE
