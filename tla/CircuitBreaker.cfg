\* Three calls; two failures open the breaker, two successes close it.
CONSTANTS
  Procs = {p1, p2, p3}
  MaxFailures = 2
  HalfOpenRequests = 2
SPECIFICATION FairSpec
INVARIANTS TypeOK HalfOpenNotStuck
PROPERTY BreakerRecovers
