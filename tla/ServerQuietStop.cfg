\* One call of shutdown() from a thread of the program, on Linux.
CONSTANTS
  Servers = {s}
  Conns = {c1}
  Apps = {a}
  Stoppers = {a}
  SignalThreads = {}
  PoolSize = 1
  MaxRequests = 1
  CloseWakesAccept = FALSE
  NoConn = NoConn
SPECIFICATION Spec
PROPERTIES
  ShutdownReturns
CHECK_DEADLOCK FALSE
