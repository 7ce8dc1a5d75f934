\* Ctrl-C on a program whose main thread is in start(), where close() wakes accept().
CONSTANTS
  Servers = {s}
  Conns = {c1}
  Apps = {}
  Stoppers = {}
  SignalThreads = {s}
  PoolSize = 1
  MaxRequests = 1
  CloseWakesAccept = TRUE
  NoConn = NoConn
SPECIFICATION Spec
PROPERTIES
  StartReturns
CHECK_DEADLOCK FALSE
