\* A completion that was decided before the lease ran out.
SPECIFICATION Spec
CONSTANTS
  None = None
  w1 = w1
  w2 = w2
  s1 = s1
  s2 = s2
  JobIds = {1}
  Requests <- OneRequest
  ClaimFilters = {{}}
  Workers = {w1, w2}
  Sessions = {s1, s2}
  LeaseTicks = 1
  MaxCalls = 0
  MaxTime = 3
SYMMETRY Symmetry
INVARIANTS LatestAttemptSucceeded
CHECK_DEADLOCK FALSE
