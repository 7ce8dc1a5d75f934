\* Windows of three seconds, two requests each; a thread may stall for one.
CONSTANTS
  Callers = {t1, t2}
  Keys = {k}
  maxRequests = 2
  timePeriod = 3
  Ttl = 4
  MaxStall = 1
  MaxTime = 7
SPECIFICATION Spec
INVARIANTS
  TypeOK
  RateBound
  RefusedOnlyWhenFull
PROPERTIES
  CleanupKeepsWindows
\* The clock stops at MaxTime.
CHECK_DEADLOCK FALSE
