\* Two workers, two callers that may submit and shut down in any order.
CONSTANTS
  Workers = {w1, w2}
  Callers = {c1, c2}
  Tasks = {t1, t2, t3}
  NoTask = NoTask
SPECIFICATION Spec
INVARIANTS
  TypeOK
  WorkConserving
  NoSleeperAfterStop
  NothingLeftBehind
  NoDuplicate
PROPERTIES
  ImplementsExecutor
  ShutdownReturns
\* A pool that has been shut down stops for good.
CHECK_DEADLOCK FALSE
