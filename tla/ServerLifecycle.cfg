\* One server with two workers, two connections, and a program that stops it from
\* a handler, or by a signal on a thread of its own or the acceptor.  A signal the
\* acceptor does not notice in time is a plain shutdown() from that thread.
CONSTANTS
  Servers = {s}
  Conns = {c1, c2}
  Apps = {a}
  Stoppers = {c1}
  SignalThreads = {s, a}
  PoolSize = 2
  MaxRequests = 2
  CloseWakesAccept = FALSE
  NoConn = NoConn
SPECIFICATION Spec
INVARIANTS
  TypeOK
  DoneIsQuiet
  NoUndercount
PROPERTIES
  ImplementsGraceful
  FinishedMeansIdle
  StopCompletes
  ConnectionsEnd
\* A server that is down stops for good.
CHECK_DEADLOCK FALSE
