\* One session: operations of two workers and the users, one at a time;
\* workers that poll recover the leases of the ones that died.
SPECIFICATION FairSpec
CONSTANTS
  None = None
  w1 = w1
  w2 = w2
  s1 = s1
  s2 = s2
  JobIds = {1, 2}
  Requests <- TwoRequests
  ClaimFilters = {{}, {"publish"}}
  Workers = {w1, w2}
  Sessions = {s1}
  LeaseTicks = 1
  MaxCalls = 0
  MaxTime = 2
INVARIANTS AttemptsNumbered AttemptsTellTheirJob
PROPERTIES ImplementsLifecycle ExpiredLeaseIsRecovered
CHECK_DEADLOCK FALSE
