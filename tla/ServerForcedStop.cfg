\* One call of shutdown(), one client that goes away on its own.
CONSTANTS
  Servers = {s}
  Conns = {c1}
  Apps = {a}
  Stoppers = {a}
  SignalThreads = {}
  PoolSize = 1
  MaxRequests = 1
  CloseWakesAccept = FALSE
  NoConn = NoConn
SPECIFICATION Spec
PROPERTIES
  ForcedMeansActive
CHECK_DEADLOCK FALSE
