--------------------------- MODULE ServerLifecycle ---------------------------
(***************************************************************************)
(* Server.cpp, seen from its threads: start() with its accept loop and its *)
(* graceful drain, handleClient on the pool's workers as far as the drain  *)
(* depends on it, shutdown() and requestGlobalShutdown() on whatever       *)
(* thread calls them, a signal handler included.                           *)
(*                                                                         *)
(* A thread is named by what it works for: server s names the thread that  *)
(* runs s.start(), connection c the worker that runs handleClient for it,  *)
(* and Apps are the program's other threads.  The pool is the executor of  *)
(* TaskExecutor.tla, which ThreadPool.tla implements: a line of accepted   *)
(* connections, PoolSize of them in work at a time, and a shutdown that    *)
(* returns when the line is worked off.  Each step reads or writes one     *)
(* shared field, as the code does.                                         *)
(***************************************************************************)
EXTENDS Naturals, Sequences, FiniteSets

CONSTANTS
  Servers,          \* the servers of the program, one start() each
  Conns,            \* the connections clients may open
  Apps,             \* threads of the program that are neither of the above
  Stoppers,         \* the threads whose code calls server.shutdown()
  SignalThreads,    \* the threads a signal may be delivered to
  PoolSize,         \* config.maxThreads
  MaxRequests,      \* config.maxRequestsPerConnection
  CloseWakesAccept, \* close() makes a blocked accept() fail: FALSE on Linux
  NoConn            \* no connection

Threads == Servers \cup Conns \cup Apps

ASSUME LifecycleAssumption ==
  /\ Servers # {} /\ IsFiniteSet(Conns)
  /\ Stoppers \subseteq Conns \cup Apps
  /\ SignalThreads \subseteq Threads
  /\ PoolSize \in Nat \ {0} /\ MaxRequests \in Nat
  /\ CloseWakesAccept \in BOOLEAN
  /\ NoConn \notin Conns
  /\ Servers \cap (Conns \cup Apps) = {} /\ Conns \cap Apps = {}

VARIABLES
  started, stopRequested, stopCompleted, \* flags of each server
  activeConnections,  \* the counter the drain waits on
  listener,           \* listener[s]: the state of server_fd
  apc,                \* apc[s]: where start() is
  accepted,           \* accepted[s]: client_fd, between accept and submit
  queue,              \* queue[s]: connections no worker has taken yet
  conn,               \* conn[c]: where connection c is
  home,               \* home[c]: the server it belongs to
  served,             \* served[c]: requestsReceived
  sd,                 \* sd[t]: where thread t is in a call of shutdown()
  target,             \* target[t]: the server it shuts down
  glob,               \* glob[t]: t is in the loop of requestGlobalShutdown()
  rest,               \* rest[t]: servers the loop over the registry has ahead
  globalShutdownRequested,
  report              \* report[s]: what the drain told the user at its end

serverVars == <<started, stopRequested, stopCompleted, listener>>
acceptVars == <<apc, accepted, queue, report>>
connVars == <<conn, home, served, activeConnections>>
callVars == <<sd, target, glob, rest, globalShutdownRequested>>
vars == <<serverVars, acceptVars, connVars, callVars>>

-----------------------------------------------------------------------------

\* The connections a worker has in its hands, and those counted as active.
InWork == {"taken", "top", "recv", "handle", "leave"}
Counted == {"top", "recv", "handle", "leave"}
Of(s, places) == { c \in Conns : home[c] = s /\ conn[c] \in places }
Backlog(s) == Of(s, {"backlog"})

\* A thread inside shutdown() or requestGlobalShutdown() does nothing else.
Busy(t) == sd[t] # "out" \/ glob[t]

\* Waiting inside shutdown() for a server to complete.
Awaits(t, s) == sd[t] = "wait" /\ target[t] = s

TypeOK ==
  /\ started \in [Servers -> BOOLEAN]
  /\ stopRequested \in [Servers -> BOOLEAN]
  /\ stopCompleted \in [Servers -> BOOLEAN]
  /\ activeConnections \in [Servers -> 0 .. Cardinality(Conns)]
  /\ listener \in [Servers -> {"none", "open", "closed"}]
  /\ apc \in [Servers -> {"idle", "listen", "loop", "global", "accept", "blocked",
                          "submit", "drain", "report", "complete", "join",
                          "done", "failed"}]
  /\ accepted \in [Servers -> Conns \cup {NoConn}]
  /\ queue \in [Servers -> Seq(Conns)]
  /\ conn \in [Conns -> {"new", "backlog", "accepted", "queued", "closed", "reset"}
                          \cup InWork]
  /\ home \in [Conns -> Servers]
  /\ served \in [Conns -> 0 .. MaxRequests + 1]
  /\ sd \in [Threads -> {"out", "store", "close", "wait"}]
  /\ target \in [Threads -> Servers]
  /\ glob \in [Threads -> BOOLEAN]
  /\ rest \in [Threads -> SUBSET Servers]
  /\ globalShutdownRequested \in BOOLEAN
  /\ report \in [Servers -> {"none", "finished", "forced"}]

Init ==
  /\ started = [s \in Servers |-> FALSE]
  /\ stopRequested = [s \in Servers |-> FALSE]
  /\ stopCompleted = [s \in Servers |-> FALSE]
  /\ activeConnections = [s \in Servers |-> 0]
  /\ listener = [s \in Servers |-> "none"]
  /\ apc = [s \in Servers |-> "idle"]
  /\ accepted = [s \in Servers |-> NoConn]
  /\ queue = [s \in Servers |-> <<>>]
  /\ conn = [c \in Conns |-> "new"]
  /\ home \in [Conns -> Servers]
  /\ served = [c \in Conns |-> 0]
  /\ sd = [t \in Threads |-> "out"]
  /\ target = [t \in Threads |-> CHOOSE s \in Servers : TRUE]
  /\ glob = [t \in Threads |-> FALSE]
  /\ rest = [t \in Threads |-> {}]
  /\ globalShutdownRequested = FALSE
  /\ report = [s \in Servers |-> "none"]

AcceptorAt(s, at) == apc[s] = at /\ ~Busy(s)
AcceptorGoes(s, at) == apc' = [apc EXCEPT ![s] = at]

-----------------------------------------------------------------------------
(* start(): from the socket to the accept loop.                            *)

\* socket, bind and listen succeed.
StartListen(s) ==
  /\ apc[s] = "idle" /\ ~started[s]
  /\ listener' = [listener EXCEPT ![s] = "open"]
  /\ AcceptorGoes(s, "listen")
  /\ UNCHANGED <<started, stopRequested, stopCompleted, accepted, queue, report,
                 connVars, callVars>>

\* One of them fails: start returns and the server never was started.
StartFails(s) ==
  /\ apc[s] = "idle" /\ ~started[s]
  /\ listener' = [listener EXCEPT ![s] = "closed"]
  /\ AcceptorGoes(s, "failed")
  /\ UNCHANGED <<started, stopRequested, stopCompleted, accepted, queue, report,
                 connVars, callVars>>

StartPool(s) ==
  /\ AcceptorAt(s, "listen")
  /\ started' = [started EXCEPT ![s] = TRUE]
  /\ AcceptorGoes(s, "loop")
  /\ UNCHANGED <<stopRequested, stopCompleted, listener, accepted, queue, report,
                 connVars, callVars>>

\* while (!stopRequested.load())
LoopTest(s) ==
  /\ AcceptorAt(s, "loop")
  /\ AcceptorGoes(s, IF stopRequested[s] THEN "drain" ELSE "global")
  /\ UNCHANGED <<serverVars, accepted, queue, report, connVars, callVars>>

\* if (globalShutdownRequested.load()): shutdown() is called by the acceptor
\* itself, and the loop is left when it returns.
GlobalTest(s) ==
  /\ AcceptorAt(s, "global")
  /\ IF globalShutdownRequested /\ ~stopRequested[s]
       THEN /\ sd' = [sd EXCEPT ![s] = "store"]
            /\ target' = [target EXCEPT ![s] = s]
            /\ UNCHANGED apc
       ELSE /\ AcceptorGoes(s, IF globalShutdownRequested THEN "drain" ELSE "accept")
            /\ UNCHANGED <<sd, target>>
  /\ UNCHANGED <<serverVars, accepted, queue, report, connVars, glob, rest,
                 globalShutdownRequested>>

\* accept() returns connection c.  When it was blocked while the listener was
\* closed, it held the last reference: the rest of the backlog is reset.
AcceptReturns(s, c) ==
  /\ \/ AcceptorAt(s, "accept") /\ listener[s] = "open"
     \/ AcceptorAt(s, "blocked") /\ ~(CloseWakesAccept /\ listener[s] = "closed")
  /\ c \in Backlog(s)
  /\ accepted' = [accepted EXCEPT ![s] = c]
  /\ conn' = [d \in Conns |->
                IF d = c THEN "accepted"
                ELSE IF d \in Backlog(s) /\ listener[s] = "closed" THEN "reset"
                ELSE conn[d]]
  /\ AcceptorGoes(s, "submit")
  /\ UNCHANGED <<serverVars, queue, report, home, served, activeConnections, callVars>>

AcceptBlocks(s) ==
  /\ AcceptorAt(s, "accept") /\ listener[s] = "open"
  /\ Backlog(s) = {}
  /\ AcceptorGoes(s, "blocked")
  /\ UNCHANGED <<serverVars, accepted, queue, report, connVars, callVars>>

AcceptError(s) ==
  /\ AcceptorGoes(s, IF stopRequested[s] THEN "drain" ELSE "loop")
  /\ UNCHANGED <<serverVars, accepted, queue, report, connVars, callVars>>

\* accept() fails because server_fd has been closed ...
AcceptOnClosed(s) ==
  /\ listener[s] = "closed"
  /\ AcceptorAt(s, "accept") \/ (AcceptorAt(s, "blocked") /\ CloseWakesAccept)
  /\ AcceptError(s)

\* ... or for reasons of its own: a connection aborted, no descriptor left.
AcceptFails(s) ==
  /\ listener[s] = "open"
  /\ AcceptorAt(s, "accept") \/ AcceptorAt(s, "blocked")
  /\ AcceptError(s)

\* threadPool->submit(...): only this thread submits to this pool.
Submit(s) ==
  /\ AcceptorAt(s, "submit")
  /\ queue' = [queue EXCEPT ![s] = Append(queue[s], accepted[s])]
  /\ conn' = [conn EXCEPT ![accepted[s]] = "queued"]
  /\ accepted' = [accepted EXCEPT ![s] = NoConn]
  /\ AcceptorGoes(s, "loop")
  /\ UNCHANGED <<serverVars, report, home, served, activeConnections, callVars>>

-----------------------------------------------------------------------------
(* start(): the end.                                                       *)

\* The drain ends when nothing is counted ...
DrainFinishes(s) ==
  /\ AcceptorAt(s, "drain") /\ activeConnections[s] = 0
  /\ AcceptorGoes(s, "report")
  /\ UNCHANGED <<serverVars, accepted, queue, report, connVars, callVars>>

\* A plausible slip: the loop does not look at the deadline.
MutDrainExpires(s) ==
  /\ AcceptorAt(s, "drain") /\ activeConnections[s] = 0
  /\ AcceptorGoes(s, "report")
  /\ UNCHANGED <<serverVars, accepted, queue, report, connVars, callVars>>

\* ... or when timeout + 3 seconds have passed.
DrainExpires(s) ==
  /\ AcceptorAt(s, "drain") /\ activeConnections[s] > 0
  /\ AcceptorGoes(s, "report")
  /\ UNCHANGED <<serverVars, accepted, queue, report, connVars, callVars>>

Report(s) ==
  /\ AcceptorAt(s, "report")
  /\ report' = [report EXCEPT ![s] =
                  IF activeConnections[s] = 0 THEN "finished" ELSE "forced"]
  /\ AcceptorGoes(s, "complete")
  /\ UNCHANGED <<serverVars, accepted, queue, connVars, callVars>>

Complete(s) ==
  /\ AcceptorAt(s, "complete")
  /\ stopCompleted' = [stopCompleted EXCEPT ![s] = TRUE]
  /\ AcceptorGoes(s, "join")
  /\ UNCHANGED <<started, stopRequested, listener, accepted, queue, report,
                 connVars, callVars>>

\* A plausible slip: start() returns without shutting its pool down.
MutPoolShutdown(s) ==
  /\ AcceptorAt(s, "join")
  /\ AcceptorGoes(s, "done")
  /\ UNCHANGED <<serverVars, accepted, queue, report, connVars, callVars>>

\* threadPool->shutdown() returns when the pool has worked off its line.
PoolShutdown(s) ==
  /\ AcceptorAt(s, "join")
  /\ queue[s] = <<>> /\ Of(s, InWork) = {}
  /\ AcceptorGoes(s, "done")
  /\ UNCHANGED <<serverVars, accepted, queue, report, connVars, callVars>>

-----------------------------------------------------------------------------
(* handleClient on a worker, as far as the counter and the stop go.        *)

WorkerAt(c, at) == conn[c] = at /\ ~Busy(c)
ConnGoes(c, at) == conn' = [conn EXCEPT ![c] = at]

\* A client connects.  A listener that was closed under a blocked accept()
\* lives on until that call returns.
Connect(c) ==
  /\ conn[c] = "new"
  /\ \/ listener[home[c]] = "open"
     \/ listener[home[c]] = "closed" /\ apc[home[c]] = "blocked" /\ ~CloseWakesAccept
  /\ ConnGoes(c, "backlog")
  /\ UNCHANGED <<serverVars, acceptVars, home, served, activeConnections, callVars>>

\* A free worker takes the head of the line.
PoolTake(c) ==
  LET s == home[c] IN
  /\ queue[s] # <<>> /\ c = Head(queue[s])
  /\ Cardinality(Of(s, InWork)) < PoolSize
  /\ queue' = [queue EXCEPT ![s] = Tail(queue[s])]
  /\ ConnGoes(c, "taken")
  /\ UNCHANGED <<serverVars, apc, accepted, report, home, served, activeConnections,
                 callVars>>

CountIn(c) ==
  /\ WorkerAt(c, "taken")
  /\ activeConnections' = [activeConnections EXCEPT ![home[c]] = activeConnections[home[c]] + 1]
  /\ ConnGoes(c, "top")
  /\ UNCHANGED <<serverVars, acceptVars, home, served, callVars>>

\* while (keepAlive && !stopRequested.load())
LoopTop(c) ==
  /\ WorkerAt(c, "top")
  /\ ConnGoes(c, IF stopRequested[home[c]] THEN "leave" ELSE "recv")
  /\ UNCHANGED <<serverVars, acceptVars, home, served, activeConnections, callVars>>

\* A request is complete: it is counted and goes to the handler.
Receive(c) ==
  /\ WorkerAt(c, "recv")
  /\ served' = [served EXCEPT ![c] = served[c] + 1]
  /\ ConnGoes(c, "handle")
  /\ UNCHANGED <<serverVars, acceptVars, home, activeConnections, callVars>>

\* The connection ends inside the framing loop: bad length, too large, timed
\* out, closed by the client.  The early return passes fetch_sub by.
EarlyReturn(c) ==
  /\ WorkerAt(c, "recv")
  /\ ConnGoes(c, "closed")
  /\ UNCHANGED <<serverVars, acceptVars, home, served, activeConnections, callVars>>

\* A plausible slip: requests are not counted against the limit.
MutRespond(c) ==
  /\ WorkerAt(c, "handle")
  /\ \E keepAlive \in BOOLEAN : ConnGoes(c, IF keepAlive THEN "top" ELSE "leave")
  /\ served' = [served EXCEPT ![c] = 0]
  /\ UNCHANGED <<serverVars, acceptVars, home, activeConnections, callVars>>

\* A plausible slip: the limit is not tested.
MutRespondUnlimited(c) ==
  /\ WorkerAt(c, "handle")
  /\ \E keepAlive \in BOOLEAN : ConnGoes(c, IF keepAlive THEN "top" ELSE "leave")
  /\ UNCHANGED <<serverVars, acceptVars, home, served, activeConnections, callVars>>

\* The handler is done and the response sent; the client may ask to close.
Respond(c) ==
  /\ WorkerAt(c, "handle")
  /\ \E keepAlive \in BOOLEAN :
       /\ served[c] >= MaxRequests => ~keepAlive
       /\ ConnGoes(c, IF keepAlive THEN "top" ELSE "leave")
  /\ UNCHANGED <<serverVars, acceptVars, home, served, activeConnections, callVars>>

\* A plausible slip: the early returns and this one both give the count back,
\* here twice.
MutLeave(c) ==
  /\ WorkerAt(c, "leave")
  /\ activeConnections' = [activeConnections EXCEPT ![home[c]] =
                             IF activeConnections[home[c]] > 1
                               THEN activeConnections[home[c]] - 2 ELSE 0]
  /\ ConnGoes(c, "closed")
  /\ UNCHANGED <<serverVars, acceptVars, home, served, callVars>>

Leave(c) ==
  /\ WorkerAt(c, "leave")
  /\ activeConnections' = [activeConnections EXCEPT ![home[c]] = activeConnections[home[c]] - 1]
  /\ ConnGoes(c, "closed")
  /\ UNCHANGED <<serverVars, acceptVars, home, served, callVars>>

-----------------------------------------------------------------------------
(* shutdown() and requestGlobalShutdown().                                 *)

\* if (!started || stopRequested.load()) return;
ShutdownPasses(s) == started[s] /\ ~stopRequested[s]

\* The application calls s.shutdown(), from a thread of its own or inside a
\* handler.  A call that does not pass the test returns at once.
CallShutdown(t, s) ==
  /\ ~Busy(t)
  /\ t \in Conns => conn[t] = "handle"
  /\ ShutdownPasses(s)
  /\ sd' = [sd EXCEPT ![t] = "store"]
  /\ target' = [target EXCEPT ![t] = s]
  /\ UNCHANGED <<serverVars, acceptVars, connVars, glob, rest, globalShutdownRequested>>

\* A plausible slip: the socket is closed before the flag is set.
MutShutdownStore(t) ==
  /\ sd[t] = "store"
  /\ listener' = [listener EXCEPT ![target[t]] = "closed"]
  /\ sd' = [sd EXCEPT ![t] = "close"]
  /\ UNCHANGED <<started, stopRequested, stopCompleted, acceptVars, connVars, target, glob,
                 rest, globalShutdownRequested>>

ShutdownStore(t) ==
  /\ sd[t] = "store"
  /\ stopRequested' = [stopRequested EXCEPT ![target[t]] = TRUE]
  /\ sd' = [sd EXCEPT ![t] = "close"]
  /\ UNCHANGED <<started, stopCompleted, listener, acceptVars, connVars, target, glob,
                 rest, globalShutdownRequested>>

\* close(server_fd).  The backlog is reset unless a blocked accept() holds on.
ShutdownClose(t) ==
  LET s == target[t] IN
  /\ sd[t] = "close"
  /\ listener' = [listener EXCEPT ![s] = "closed"]
  /\ conn' = [c \in Conns |->
                IF c \in Backlog(s) /\ (apc[s] # "blocked" \/ CloseWakesAccept)
                  THEN "reset" ELSE conn[c]]
  /\ sd' = [sd EXCEPT ![t] = "wait"]
  /\ UNCHANGED <<started, stopRequested, stopCompleted, acceptVars, home, served,
                 activeConnections, target, glob, rest, globalShutdownRequested>>

\* while (!stopCompleted.load()) sleep: the call returns to whoever made it;
\* the acceptor then breaks out of its loop.
ShutdownWait(t) ==
  /\ sd[t] = "wait" /\ stopCompleted[target[t]]
  /\ sd' = [sd EXCEPT ![t] = "out"]
  /\ IF t \in Servers /\ ~glob[t] THEN AcceptorGoes(t, "drain") ELSE UNCHANGED apc
  /\ UNCHANGED <<serverVars, accepted, queue, report, connVars, target, glob, rest,
                 globalShutdownRequested>>

\* A thread runs user code, the accept loop or handleClient.
Alive(t) ==
  /\ t \in Servers => apc[t] \notin {"idle", "failed", "done"}
  /\ t \in Conns => conn[t] \in InWork

\* A signal interrupts thread t.  The compare_exchange lets one call ever
\* through; a signal inside shutdown() itself is not delivered here.
RequestGlobalShutdown(t) ==
  /\ Alive(t) /\ ~Busy(t)
  /\ ~globalShutdownRequested
  /\ globalShutdownRequested' = TRUE
  /\ glob' = [glob EXCEPT ![t] = TRUE]
  /\ rest' = [rest EXCEPT ![t] = Servers]
  /\ UNCHANGED <<serverVars, acceptVars, connVars, sd, target>>

\* server->shutdown() for the next server of the registry.
GlobalLoop(t) ==
  /\ glob[t] /\ sd[t] = "out"
  /\ \E s \in rest[t] :
       /\ rest' = [rest EXCEPT ![t] = rest[t] \ {s}]
       /\ target' = [target EXCEPT ![t] = s]
       /\ sd' = [sd EXCEPT ![t] = IF ShutdownPasses(s) THEN "store" ELSE "out"]
  /\ UNCHANGED <<serverVars, acceptVars, connVars, glob, globalShutdownRequested>>

GlobalReturns(t) ==
  /\ glob[t] /\ sd[t] = "out" /\ rest[t] = {}
  /\ glob' = [glob EXCEPT ![t] = FALSE]
  /\ UNCHANGED <<serverVars, acceptVars, connVars, sd, target, rest,
                 globalShutdownRequested>>

-----------------------------------------------------------------------------

AcceptorStep(s) ==
  \/ StartPool(s) \/ LoopTest(s) \/ GlobalTest(s)
  \/ \E c \in Conns : AcceptReturns(s, c)
  \/ AcceptBlocks(s) \/ AcceptOnClosed(s) \/ Submit(s)
  \/ DrainFinishes(s) \/ DrainExpires(s) \/ Report(s)
  \/ Complete(s) \/ PoolShutdown(s)

WorkerStep(c) ==
  \/ CountIn(c) \/ LoopTop(c) \/ Receive(c) \/ EarlyReturn(c)
  \/ Respond(c) \/ Leave(c)

CallStep(t) ==
  \/ ShutdownStore(t) \/ ShutdownClose(t) \/ ShutdownWait(t)
  \/ GlobalLoop(t) \/ GlobalReturns(t)

Next ==
  \/ \E s \in Servers :
       AcceptorStep(s) \/ StartListen(s) \/ StartFails(s) \/ AcceptFails(s)
  \/ \E c \in Conns : WorkerStep(c) \/ PoolTake(c) \/ Connect(c)
  \/ \E t \in Threads : CallStep(t)
  \/ \E t \in Stoppers, s \in Servers : CallShutdown(t, s)
  \/ \E t \in SignalThreads : RequestGlobalShutdown(t)

Safety == Init /\ [][Next]_vars

(***************************************************************************)
(* Threads are scheduled, handlers return, and recv() returns: the socket  *)
(* has a receive timeout.  Clients need not connect, nobody has to start   *)
(* or stop a server, and accept() need not fail.  The pool starts a task   *)
(* when a worker is free, as TaskExecutor.tla promises.                    *)
(***************************************************************************)
Fairness ==
  /\ \A s \in Servers : WF_vars(AcceptorStep(s))
  /\ \A c \in Conns : WF_vars(WorkerStep(c)) /\ WF_vars(PoolTake(c))
  /\ \A t \in Threads : WF_vars(CallStep(t))

Spec == Safety /\ Fairness

-----------------------------------------------------------------------------
(* Properties.                                                             *)

\* When start() returns nothing it accepted is left: no connection is in its
\* hands, in the pool's line or with a worker, whatever the drain's timeout did.
DoneIsQuiet ==
  \A s \in Servers : apc[s] = "done" =>
    /\ accepted[s] = NoConn /\ queue[s] = <<>>
    /\ Of(s, {"accepted", "queued"} \cup InWork) = {}

\* The counter never falls below the handlers running: the drain cannot see
\* zero while one of them still serves its client.
NoUndercount ==
  \A s \in Servers : Cardinality(Of(s, Counted)) <= activeConnections[s]

\* What the program sees of server s, in the words of GracefulServer.tla.
Phase(s) ==
  IF apc[s] = "failed" THEN "failed"
  ELSE IF ~started[s] THEN "idle"
  ELSE IF ~stopRequested[s] THEN "open"
  ELSE IF ~stopCompleted[s] THEN "stopping"
  ELSE IF apc[s] # "done" THEN "complete" ELSE "down"

\* The accept loop has passed its test of stopRequested, or will pass it.
Admitting(s) ==
  started[s] /\ (stopRequested[s] => apc[s] \in {"global", "accept", "blocked"})

Graceful(s) ==
  INSTANCE GracefulServer
    WITH phase <- Phase(s),
         listening <- (listener[s] = "open"),
         admitting <- Admitting(s),
         clients <- Of(s, {"accepted", "queued"} \cup InWork)

\* Every server is a graceful one: its socket is closed only once it is told to
\* stop (or the loop would call accept() on a closed descriptor again), after
\* that at most one more client is accepted, and start() returns when every
\* client accepted before, during or after the drain has been let go.
ImplementsGraceful ==
  /\ \A s \in Servers : Graceful(s)!Init
  /\ [][\A s \in Servers : [Graceful(s)!Next]_(Graceful(s)!vars)]_vars

\* "All requests finished" is said only when no handler is running.
FinishedMeansIdle ==
  [][\A s \in Servers :
       report'[s] = "finished" /\ report[s] = "none" => Of(s, Counted) = {}]_vars

\* The acceptor is blocked on a listener that is closed, and no client comes.
Quiet(s) == AcceptorAt(s, "blocked") /\ listener[s] = "closed" /\ Backlog(s) = {}

\* A requested stop completes: start() returns, but for the two ways in which
\* the code can hang: accept() sleeps on, or the acceptor waits for itself.
StopCompletes ==
  \A s \in Servers :
    stopRequested[s] ~> (apc[s] = "done" \/ []Quiet(s) \/ []Awaits(s, s))

\* Every connection handed to the pool ends, whatever its client sends or
\* withholds, unless some thread hangs in shutdown().
ConnectionsEnd ==
  \A c \in Conns :
    conn[c] = "queued" ~>
      (conn[c] = "closed" \/ \E t \in Threads : [](sd[t] = "wait"))

\* A stop that was requested is carried out: start() gets to say that the
\* server "has been fully shutdown".
StartReturns == \A s \in Servers : stopRequested[s] ~> apc[s] = "done"

\* shutdown() returns: closing the listener ends the accept loop, which tests
\* stopRequested when accept() fails.
ShutdownReturns == \A t \in Threads : sd[t] = "wait" ~> sd[t] = "out"

\* A drain is cut off ("Timeout reached, forcing stop (N active connections)")
\* only when a connection is being served.
ForcedMeansActive ==
  [][\A s \in Servers :
       report'[s] = "forced" /\ report[s] = "none" => Of(s, Counted) # {}]_vars

=============================================================================
