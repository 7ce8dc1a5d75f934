------------------------ MODULE ServerLifecycleProofs ------------------------
(***************************************************************************)
(* What ServerLifecycle.tla guarantees for any number of servers, clients, *)
(* threads and signals: the counter of active connections never falls      *)
(* below the handlers running, start() returns with nothing in its hands,  *)
(* and every server is a GracefulServer.                                   *)
(***************************************************************************)
EXTENDS ServerLifecycle, TLAPS, FiniteSetTheorems, SequenceTheorems

AcceptorPlaces == {"idle", "listen", "loop", "global", "accept", "blocked", "submit", "drain",
                   "report", "complete", "join", "done", "failed"}
ConnPlaces == {"new", "backlog", "accepted", "queued", "closed", "reset"} \cup InWork
CallPlaces == {"out", "store", "close", "wait"}

\* Before the pool is made, and after the accept loop.
Opening == {"idle", "listen", "failed"}
Ending == {"drain", "report", "complete", "join", "done"}

\* Accepted and not yet let go; not yet at the handler of a last request; and
\* counted, or let go, perhaps without giving the count back.
Kept == {"accepted", "queued"} \cup InWork
Early == {"new", "backlog", "accepted", "queued", "taken", "top", "recv"}
OnceCounted == Counted \cup {"closed"}

\* The parts of TypeOK that different steps disturb, the two counters unbounded.
ServerTypes ==
  /\ started \in [Servers -> BOOLEAN]
  /\ stopRequested \in [Servers -> BOOLEAN]
  /\ stopCompleted \in [Servers -> BOOLEAN]
  /\ listener \in [Servers -> {"none", "open", "closed"}]

AcceptTypes ==
  /\ apc \in [Servers -> AcceptorPlaces]
  /\ accepted \in [Servers -> Conns \cup {NoConn}]
  /\ queue \in [Servers -> Seq(Conns)]
  /\ report \in [Servers -> {"none", "finished", "forced"}]

ConnTypes ==
  /\ conn \in [Conns -> ConnPlaces]
  /\ home \in [Conns -> Servers]
  /\ served \in [Conns -> Nat]
  /\ activeConnections \in [Servers -> Nat]

CallTypes ==
  /\ sd \in [Threads -> CallPlaces]
  /\ target \in [Threads -> Servers]
  /\ glob \in [Threads -> BOOLEAN]
  /\ rest \in [Threads -> SUBSET Servers]
  /\ globalShutdownRequested \in BOOLEAN

Types == ServerTypes /\ AcceptTypes /\ ConnTypes /\ CallTypes

\* The flags and the socket say where start() is.
StageInv ==
  \A s \in Servers :
    /\ started[s] <=> apc[s] \notin Opening
    /\ stopRequested[s] => started[s]
    /\ apc[s] \in Ending => stopRequested[s]
    /\ stopCompleted[s] <=> apc[s] \in {"join", "done"}
    /\ apc[s] = "idle" => listener[s] = "none"
    /\ apc[s] = "listen" => listener[s] = "open"

\* A thread inside shutdown() has passed its test; an acceptor that calls it
\* for itself stays at its test of the global flag.
CallInv ==
  /\ \A t \in Threads : /\ sd[t] # "out" => started[target[t]]
                        /\ sd[t] \in {"close", "wait"} => stopRequested[target[t]]
  /\ \A s \in Servers : sd[s] # "out" /\ ~glob[s] => apc[s] = "global" /\ target[s] = s

\* The acceptor's hands and the pool's line hold exactly the connections that
\* say so, each of them once.
HandInv ==
  /\ \A s \in Servers : apc[s] = "submit" => /\ accepted[s] \in Conns
                                             /\ conn[accepted[s]] = "accepted"
                                             /\ home[accepted[s]] = s
  /\ \A s \in Servers : apc[s] # "submit" => accepted[s] = NoConn
  /\ \A c \in Conns : conn[c] = "accepted" => /\ apc[home[c]] = "submit"
                                              /\ accepted[home[c]] = c

LineInv ==
  /\ \A s \in Servers, i \in Nat :
       i \in 1 .. Len(queue[s]) => conn[queue[s][i]] = "queued" /\ home[queue[s][i]] = s
  /\ \A s \in Servers, i, j \in Nat :
       i \in 1 .. Len(queue[s]) /\ j \in 1 .. Len(queue[s]) /\ queue[s][i] = queue[s][j] => i = j
  /\ \A c \in Conns :
       conn[c] = "queued" => \E i \in 1 .. Len(queue[home[c]]) : queue[home[c]][i] = c

\* A connection is counted before the counter may fall for it, and once only.
CountInv ==
  \A s \in Servers : /\ Cardinality(Of(s, Counted)) <= activeConnections[s]
                     /\ activeConnections[s] <= Cardinality(Of(s, OnceCounted))

\* The request that reaches the limit is the last.
ServedInv ==
  \A c \in Conns : /\ served[c] <= MaxRequests + 1
                   /\ conn[c] \in Early => served[c] <= MaxRequests

\* Behind the pool's shutdown nothing is kept.
QuietInv == \A c \in Conns : apc[home[c]] = "done" => conn[c] \notin Kept

LifecycleInv ==
  Types /\ StageInv /\ CallInv /\ HandInv /\ LineInv /\ CountInv /\ ServedInv /\ QuietInv

LEMMA ServersAreThreads ==
  /\ Servers \subseteq Threads /\ Conns \subseteq Threads /\ Apps \subseteq Threads
  /\ \A t \in Stoppers : t \in Threads /\ t \notin Servers
  /\ \A t \in SignalThreads : t \in Threads
  BY LifecycleAssumption DEF Threads

LEMMA OfFinite ==
  ASSUME NEW s, NEW P
  PROVE  /\ IsFiniteSet(Of(s, P))
         /\ Cardinality(Of(s, P)) \in Nat
         /\ Cardinality(Of(s, P)) <= Cardinality(Conns)
<1>1. IsFiniteSet(Conns) /\ Of(s, P) \subseteq Conns
  BY LifecycleAssumption DEF Of
<1> QED
  BY <1>1, FS_Subset, FS_CardinalityType

-----------------------------------------------------------------------------
(* What keeps each part of the invariant.                                  *)

LEMMA CallKept ==
  ASSUME LifecycleInv, UNCHANGED <<sd, target, glob>>,
         \A s \in Servers : /\ started[s] => started'[s]
                            /\ stopRequested[s] => stopRequested'[s]
                            /\ apc[s] = "global" /\ Busy(s) => apc'[s] = "global"
  PROVE  CallInv'
<1>1. target \in [Threads -> Servers]
  BY DEF LifecycleInv, Types, CallTypes
<1>2. \A t \in Threads : /\ sd'[t] # "out" => started'[target'[t]]
                         /\ sd'[t] \in {"close", "wait"} => stopRequested'[target'[t]]
  BY <1>1 DEF LifecycleInv, CallInv
<1>3. \A s \in Servers : sd'[s] # "out" /\ ~glob'[s] => apc'[s] = "global" /\ target'[s] = s
  BY <1>1 DEF LifecycleInv, CallInv, Busy
<1> QED
  BY <1>2, <1>3 DEF CallInv

LEMMA HandKept ==
  ASSUME LifecycleInv, UNCHANGED <<accepted, home>>,
         \A s \in Servers : apc'[s] = "submit" <=> apc[s] = "submit",
         \A c \in Conns : conn'[c] = "accepted" <=> conn[c] = "accepted"
  PROVE  HandInv'
<1>1. home \in [Conns -> Servers]
  BY DEF LifecycleInv, Types, ConnTypes
<1> QED
  BY <1>1 DEF LifecycleInv, HandInv

LEMMA LineKept ==
  ASSUME LifecycleInv, UNCHANGED <<queue, home>>,
         \A c \in Conns : conn'[c] = "queued" <=> conn[c] = "queued"
  PROVE  LineInv'
<1>1. \A s \in Servers : queue[s] \in Seq(Conns)
  BY DEF LifecycleInv, Types, AcceptTypes
<1>2. \A s \in Servers : \A i \in 1 .. Len(queue[s]) : queue[s][i] \in Conns
  BY <1>1, ElementOfSeq
<1> QED
  BY <1>2 DEF LifecycleInv, LineInv

LEMMA CountKept ==
  ASSUME LifecycleInv, UNCHANGED <<home, activeConnections>>,
         \A c \in Conns : /\ conn[c] \in OnceCounted => conn'[c] \in OnceCounted
                          /\ conn'[c] \in Counted => conn[c] \in Counted
  PROVE  CountInv'
<1> SUFFICES ASSUME NEW s \in Servers
             PROVE  /\ Cardinality(Of(s, Counted)') <= activeConnections[s]
                    /\ activeConnections[s] <= Cardinality(Of(s, OnceCounted)')
  BY DEF CountInv
<1>1. Of(s, Counted)' \subseteq Of(s, Counted)
  BY DEF Of
<1>2. Of(s, OnceCounted) \subseteq Of(s, OnceCounted)'
  BY DEF Of
<1>3. IsFiniteSet(Of(s, OnceCounted)')
  <2>1. IsFiniteSet(Conns) /\ Of(s, OnceCounted)' \subseteq Conns
    BY LifecycleAssumption DEF Of
  <2> QED
    BY <2>1, FS_Subset
<1>4. Cardinality(Of(s, Counted)') <= Cardinality(Of(s, Counted))
  BY <1>1, OfFinite, FS_Subset
<1>5. Cardinality(Of(s, OnceCounted)) <= Cardinality(Of(s, OnceCounted)')
  BY <1>2, <1>3, FS_Subset
<1>6. /\ Cardinality(Of(s, Counted)') \in Nat /\ Cardinality(Of(s, OnceCounted)') \in Nat
      /\ Cardinality(Of(s, Counted)) \in Nat /\ Cardinality(Of(s, OnceCounted)) \in Nat
  BY <1>1, <1>3, OfFinite, FS_Subset, FS_CardinalityType
<1>7. /\ activeConnections[s] \in Nat
      /\ Cardinality(Of(s, Counted)) <= activeConnections[s]
      /\ activeConnections[s] <= Cardinality(Of(s, OnceCounted))
  BY DEF LifecycleInv, Types, ConnTypes, CountInv
<1> QED
  BY <1>4, <1>5, <1>6, <1>7

LEMMA ServedKept ==
  ASSUME LifecycleInv, UNCHANGED served,
         \A c \in Conns : conn'[c] \in Early => conn[c] \in Early \/ served[c] <= MaxRequests
  PROVE  ServedInv'
  BY DEF LifecycleInv, ServedInv

LEMMA QuietKept ==
  ASSUME LifecycleInv, UNCHANGED home,
         \A c \in Conns : apc'[home[c]] = "done" /\ conn'[c] \in Kept =>
                            apc[home[c]] = "done" /\ conn[c] \in Kept
  PROVE  QuietInv'
  BY DEF LifecycleInv, QuietInv

-----------------------------------------------------------------------------
(* start().                                                                *)

\* The acceptor goes on, with no connection in its hands.
LEMMA AcceptorMoves ==
  ASSUME LifecycleInv, NEW s \in Servers, NEW at \in AcceptorPlaces,
         AcceptorGoes(s, at), apc[s] # "submit", at # "submit",
         apc[s] \in {"idle", "done"} \/ ~Busy(s),
         at = "done" => Of(s, Kept) = {},
         \A r \in Servers : /\ started[r] => started'[r]
                            /\ stopRequested[r] => stopRequested'[r],
         UNCHANGED <<accepted, queue, connVars, callVars>>
  PROVE  /\ apc' \in [Servers -> AcceptorPlaces] /\ apc'[s] = at
         /\ \A r \in Servers : r # s => apc'[r] = apc[r]
         /\ ConnTypes' /\ CallTypes'
         /\ CallInv' /\ HandInv' /\ LineInv' /\ CountInv' /\ ServedInv' /\ QuietInv'
<1>1. apc \in [Servers -> AcceptorPlaces]
  BY DEF LifecycleInv, Types, AcceptTypes
<1>2. /\ apc' \in [Servers -> AcceptorPlaces] /\ apc'[s] = at
      /\ \A r \in Servers : r # s => apc'[r] = apc[r]
  BY <1>1 DEF AcceptorGoes
<1>3. UNCHANGED <<conn, home, served, activeConnections, sd, target, glob, rest,
                  globalShutdownRequested>>
  BY DEF connVars, callVars
<1>4. ConnTypes' /\ CallTypes'
  BY <1>3 DEF LifecycleInv, Types, ConnTypes, CallTypes
<1>5. CallInv'
  BY <1>2, <1>3, CallKept DEF Busy
<1>6. HandInv'
  BY <1>2, <1>3, HandKept
<1>7. LineInv' /\ CountInv' /\ ServedInv'
  BY <1>3, LineKept, CountKept, ServedKept
<1>8. home \in [Conns -> Servers]
  BY DEF LifecycleInv, Types, ConnTypes
<1>9. ASSUME NEW c \in Conns, apc'[home[c]] = "done", conn'[c] \in Kept
      PROVE  apc[home[c]] = "done" /\ conn[c] \in Kept
  <2>1. CASE home[c] = s
    BY <1>2, <1>3, <1>9, <2>1 DEF Of
  <2>2. CASE home[c] # s
    BY <1>2, <1>3, <1>8, <1>9, <2>2
  <2> QED
    BY <2>1, <2>2
<1>10. QuietInv'
  BY <1>3, <1>9, QuietKept
<1> QED
  BY <1>2, <1>4, <1>5, <1>6, <1>7, <1>10

\* The loop goes round, the drain ends, or start() returns: the flags stay.
LEMMA AcceptorGoesOn ==
  ASSUME LifecycleInv, NEW s \in Servers, NEW at \in AcceptorPlaces,
         AcceptorGoes(s, at), ~Busy(s),
         \/ /\ apc[s] \in {"loop", "global", "accept", "blocked"}
            /\ at \in {"loop", "global", "accept", "blocked", "drain"}
            /\ at = "drain" => stopRequested[s]
         \/ apc[s] = "drain" /\ at = "report"
         \/ apc[s] = "report" /\ at = "complete"
         \/ apc[s] = "join" /\ at = "done" /\ Of(s, Kept) = {},
         report' \in [Servers -> {"none", "finished", "forced"}],
         UNCHANGED <<serverVars, accepted, queue, connVars, callVars>>
  PROVE  LifecycleInv'
<1>1. apc[s] # "submit" /\ at # "submit" /\ (at = "done" => Of(s, Kept) = {})
  OBVIOUS
<1>2. UNCHANGED <<started, stopRequested, stopCompleted, listener>>
  BY DEF serverVars
<1>3. /\ apc' \in [Servers -> AcceptorPlaces] /\ apc'[s] = at
      /\ \A r \in Servers : r # s => apc'[r] = apc[r]
      /\ ConnTypes' /\ CallTypes'
      /\ CallInv' /\ HandInv' /\ LineInv' /\ CountInv' /\ ServedInv' /\ QuietInv'
  BY <1>1, <1>2, AcceptorMoves
<1>4. StageInv'
  BY <1>2, <1>3 DEF LifecycleInv, StageInv, Opening, Ending
<1>5. Types'
  BY <1>2, <1>3 DEF LifecycleInv, Types, ServerTypes, AcceptTypes
<1> QED
  BY <1>3, <1>4, <1>5 DEF LifecycleInv

LEMMA StartListenKeeps ==
  ASSUME LifecycleInv, NEW s \in Servers, StartListen(s) \/ StartFails(s)
  PROVE  LifecycleInv'
<1>1. PICK at \in {"listen", "failed"} :
        /\ apc[s] = "idle" /\ AcceptorGoes(s, at)
        /\ listener' = [listener EXCEPT ![s] = IF at = "listen" THEN "open" ELSE "closed"]
        /\ UNCHANGED <<started, stopRequested, stopCompleted, accepted, queue, report,
                       connVars, callVars>>
  BY DEF StartListen, StartFails
<1>2. at \in AcceptorPlaces /\ at # "submit" /\ at # "done"
  BY DEF AcceptorPlaces
<1>3. /\ apc' \in [Servers -> AcceptorPlaces] /\ apc'[s] = at
      /\ \A r \in Servers : r # s => apc'[r] = apc[r]
      /\ ConnTypes' /\ CallTypes'
      /\ CallInv' /\ HandInv' /\ LineInv' /\ CountInv' /\ ServedInv' /\ QuietInv'
  BY <1>1, <1>2, AcceptorMoves
<1>4. listener \in [Servers -> {"none", "open", "closed"}]
  BY DEF LifecycleInv, Types, ServerTypes
<1>5. /\ listener' \in [Servers -> {"none", "open", "closed"}]
      /\ at = "listen" => listener'[s] = "open"
      /\ \A r \in Servers : r # s => listener'[r] = listener[r]
  BY <1>1, <1>4
<1>6. Types'
  BY <1>1, <1>3, <1>5 DEF LifecycleInv, Types, ServerTypes, AcceptTypes
<1>7. StageInv'
  BY <1>1, <1>3, <1>5 DEF LifecycleInv, StageInv, Opening, Ending
<1> QED
  BY <1>3, <1>6, <1>7 DEF LifecycleInv

LEMMA StartPoolKeeps ==
  ASSUME LifecycleInv, NEW s \in Servers, StartPool(s)
  PROVE  LifecycleInv'
<1>1. /\ apc[s] = "listen" /\ ~Busy(s) /\ AcceptorGoes(s, "loop")
      /\ started' = [started EXCEPT ![s] = TRUE]
      /\ UNCHANGED <<stopRequested, stopCompleted, listener, accepted, queue, report,
                     connVars, callVars>>
  BY DEF StartPool, AcceptorAt
<1>2. started \in [Servers -> BOOLEAN] /\ "loop" \in AcceptorPlaces
  BY DEF LifecycleInv, Types, ServerTypes, AcceptorPlaces
<1>3. /\ started' \in [Servers -> BOOLEAN] /\ started'[s]
      /\ \A r \in Servers : r # s => started'[r] = started[r]
  BY <1>1, <1>2
<1>4. \A r \in Servers : /\ started[r] => started'[r]
                         /\ stopRequested[r] => stopRequested'[r]
  BY <1>1, <1>3
<1>5. /\ apc' \in [Servers -> AcceptorPlaces] /\ apc'[s] = "loop"
      /\ \A r \in Servers : r # s => apc'[r] = apc[r]
      /\ ConnTypes' /\ CallTypes'
      /\ CallInv' /\ HandInv' /\ LineInv' /\ CountInv' /\ ServedInv' /\ QuietInv'
  BY <1>1, <1>2, <1>4, AcceptorMoves
<1>6. Types'
  BY <1>1, <1>3, <1>5 DEF LifecycleInv, Types, ServerTypes, AcceptTypes
<1>7. StageInv'
  BY <1>1, <1>3, <1>5 DEF LifecycleInv, StageInv, Opening, Ending
<1> QED
  BY <1>5, <1>6, <1>7 DEF LifecycleInv

LEMMA CompleteKeeps ==
  ASSUME LifecycleInv, NEW s \in Servers, Complete(s)
  PROVE  LifecycleInv'
<1>1. /\ apc[s] = "complete" /\ ~Busy(s) /\ AcceptorGoes(s, "join")
      /\ stopCompleted' = [stopCompleted EXCEPT ![s] = TRUE]
      /\ UNCHANGED <<started, stopRequested, listener, accepted, queue, report,
                     connVars, callVars>>
  BY DEF Complete, AcceptorAt
<1>2. stopCompleted \in [Servers -> BOOLEAN] /\ "join" \in AcceptorPlaces
  BY DEF LifecycleInv, Types, ServerTypes, AcceptorPlaces
<1>3. /\ stopCompleted' \in [Servers -> BOOLEAN] /\ stopCompleted'[s]
      /\ \A r \in Servers : r # s => stopCompleted'[r] = stopCompleted[r]
  BY <1>1, <1>2
<1>4. /\ apc' \in [Servers -> AcceptorPlaces] /\ apc'[s] = "join"
      /\ \A r \in Servers : r # s => apc'[r] = apc[r]
      /\ ConnTypes' /\ CallTypes'
      /\ CallInv' /\ HandInv' /\ LineInv' /\ CountInv' /\ ServedInv' /\ QuietInv'
  BY <1>1, <1>2, AcceptorMoves
<1>5. Types'
  BY <1>1, <1>3, <1>4 DEF LifecycleInv, Types, ServerTypes, AcceptTypes
<1>6. StageInv'
  BY <1>1, <1>3, <1>4 DEF LifecycleInv, StageInv, Opening, Ending
<1> QED
  BY <1>4, <1>5, <1>6 DEF LifecycleInv

\* The pool's shutdown returns with the acceptor's hands, the line and the
\* workers empty.
LEMMA NothingKept ==
  ASSUME LifecycleInv, NEW s \in Servers, apc[s] # "submit", queue[s] = <<>>,
         Of(s, InWork) = {}
  PROVE  Of(s, Kept) = {}
<1>1. Len(queue[s]) = 0
  BY EmptySeq
<1>2. ASSUME NEW c \in Conns, home[c] = s PROVE conn[c] \notin Kept
  <2>1. conn[c] # "accepted"
    BY <1>2 DEF LifecycleInv, HandInv
  <2>2. conn[c] # "queued"
    BY <1>1, <1>2 DEF LifecycleInv, LineInv
  <2>3. conn[c] \notin InWork
    BY <1>2 DEF Of
  <2> QED
    BY <2>1, <2>2, <2>3 DEF Kept
<1> QED
  BY <1>2 DEF Of

LEMMA PoolShutdownKeeps ==
  ASSUME LifecycleInv, NEW s \in Servers, PoolShutdown(s)
  PROVE  LifecycleInv'
<1>1. /\ apc[s] = "join" /\ ~Busy(s) /\ AcceptorGoes(s, "done")
      /\ queue[s] = <<>> /\ Of(s, InWork) = {}
      /\ UNCHANGED <<serverVars, accepted, queue, report, connVars, callVars>>
  BY DEF PoolShutdown, AcceptorAt
<1>2. Of(s, Kept) = {}
  BY <1>1, NothingKept
<1>3. report' \in [Servers -> {"none", "finished", "forced"}] /\ "done" \in AcceptorPlaces
  BY <1>1 DEF LifecycleInv, Types, AcceptTypes, AcceptorPlaces
<1> QED
  BY <1>1, <1>2, <1>3, AcceptorGoesOn

LEMMA ReportType ==
  ASSUME LifecycleInv
  PROVE  report \in [Servers -> {"none", "finished", "forced"}]
  BY DEF LifecycleInv, Types, AcceptTypes

LEMMA LoopTestKeeps ==
  ASSUME LifecycleInv, NEW s \in Servers, LoopTest(s)
  PROVE  LifecycleInv'
<1>1. /\ apc[s] = "loop" /\ ~Busy(s)
      /\ AcceptorGoes(s, IF stopRequested[s] THEN "drain" ELSE "global")
      /\ UNCHANGED <<serverVars, accepted, queue, report, connVars, callVars>>
  BY DEF LoopTest, AcceptorAt
<1>2. /\ "drain" \in AcceptorPlaces /\ "global" \in AcceptorPlaces
      /\ report' \in [Servers -> {"none", "finished", "forced"}]
  BY <1>1, ReportType DEF AcceptorPlaces
<1>3. CASE stopRequested[s]
  <2>1. AcceptorGoes(s, "drain")
    BY <1>1, <1>3
  <2> QED
    BY <1>1, <1>2, <1>3, <2>1, AcceptorGoesOn
<1>4. CASE ~stopRequested[s]
  <2>1. AcceptorGoes(s, "global")
    BY <1>1, <1>4
  <2> QED
    BY <1>1, <1>2, <2>1, AcceptorGoesOn
<1> QED
  BY <1>3, <1>4

LEMMA AcceptErrorKeeps ==
  ASSUME LifecycleInv, NEW s \in Servers, apc[s] \in {"accept", "blocked"}, ~Busy(s),
         AcceptError(s)
  PROVE  LifecycleInv'
<1>1. /\ AcceptorGoes(s, IF stopRequested[s] THEN "drain" ELSE "loop")
      /\ UNCHANGED <<serverVars, accepted, queue, report, connVars, callVars>>
  BY DEF AcceptError
<1>2. /\ "drain" \in AcceptorPlaces /\ "loop" \in AcceptorPlaces
      /\ report' \in [Servers -> {"none", "finished", "forced"}]
  BY <1>1, ReportType DEF AcceptorPlaces
<1>3. CASE stopRequested[s]
  <2>1. AcceptorGoes(s, "drain")
    BY <1>1, <1>3
  <2> QED
    BY <1>1, <1>2, <1>3, <2>1, AcceptorGoesOn
<1>4. CASE ~stopRequested[s]
  <2>1. AcceptorGoes(s, "loop")
    BY <1>1, <1>4
  <2> QED
    BY <1>1, <1>2, <2>1, AcceptorGoesOn
<1> QED
  BY <1>3, <1>4

LEMMA AcceptKeeps ==
  ASSUME LifecycleInv, NEW s \in Servers, AcceptBlocks(s) \/ AcceptOnClosed(s) \/ AcceptFails(s)
  PROVE  LifecycleInv'
<1>1. CASE AcceptBlocks(s)
  <2>1. /\ apc[s] = "accept" /\ ~Busy(s) /\ AcceptorGoes(s, "blocked")
        /\ UNCHANGED <<serverVars, accepted, queue, report, connVars, callVars>>
    BY <1>1 DEF AcceptBlocks, AcceptorAt
  <2>2. /\ "blocked" \in AcceptorPlaces
        /\ report' \in [Servers -> {"none", "finished", "forced"}]
    BY <2>1, ReportType DEF AcceptorPlaces
  <2> QED
    BY <2>1, <2>2, AcceptorGoesOn
<1>2. CASE AcceptOnClosed(s) \/ AcceptFails(s)
  BY <1>2, AcceptErrorKeeps DEF AcceptOnClosed, AcceptFails, AcceptorAt
<1> QED
  BY <1>1, <1>2

LEMMA DrainKeeps ==
  ASSUME LifecycleInv, NEW s \in Servers, DrainFinishes(s) \/ DrainExpires(s) \/ Report(s)
  PROVE  LifecycleInv'
<1>1. "report" \in AcceptorPlaces /\ "complete" \in AcceptorPlaces
  BY DEF AcceptorPlaces
<1>2. CASE DrainFinishes(s) \/ DrainExpires(s)
  <2>1. /\ apc[s] = "drain" /\ ~Busy(s) /\ AcceptorGoes(s, "report")
        /\ UNCHANGED <<serverVars, accepted, queue, report, connVars, callVars>>
    BY <1>2 DEF DrainFinishes, DrainExpires, AcceptorAt
  <2>2. report' \in [Servers -> {"none", "finished", "forced"}]
    BY <2>1, ReportType
  <2> QED
    BY <1>1, <2>1, <2>2, AcceptorGoesOn
<1>3. CASE Report(s)
  <2>1. /\ apc[s] = "report" /\ ~Busy(s) /\ AcceptorGoes(s, "complete")
        /\ report' = [report EXCEPT ![s] =
                        IF activeConnections[s] = 0 THEN "finished" ELSE "forced"]
        /\ UNCHANGED <<serverVars, accepted, queue, connVars, callVars>>
    BY <1>3 DEF Report, AcceptorAt
  <2>2. report' \in [Servers -> {"none", "finished", "forced"}]
    BY <2>1, ReportType
  <2> QED
    BY <1>1, <2>1, <2>2, AcceptorGoesOn
<1> QED
  BY <1>2, <1>3

\* The acceptor calls shutdown() for itself.
LEMMA GlobalTestKeeps ==
  ASSUME LifecycleInv, NEW s \in Servers, GlobalTest(s)
  PROVE  LifecycleInv'
<1>1. /\ apc[s] = "global" /\ ~Busy(s)
      /\ UNCHANGED <<serverVars, accepted, queue, report, connVars, glob, rest,
                     globalShutdownRequested>>
  BY DEF GlobalTest, AcceptorAt
<1>2. CASE globalShutdownRequested /\ ~stopRequested[s]
  <2>1. /\ sd' = [sd EXCEPT ![s] = "store"] /\ target' = [target EXCEPT ![s] = s]
        /\ UNCHANGED apc
    BY <1>2 DEF GlobalTest
  <2>2. UNCHANGED <<started, stopRequested, stopCompleted, listener, conn, home, served,
                    activeConnections>>
    BY <1>1 DEF serverVars, connVars
  <2>3. sd \in [Threads -> CallPlaces] /\ target \in [Threads -> Servers] /\ s \in Threads
    BY ServersAreThreads DEF LifecycleInv, Types, CallTypes
  <2>4. /\ sd' \in [Threads -> CallPlaces] /\ target' \in [Threads -> Servers]
        /\ sd'[s] = "store" /\ target'[s] = s
        /\ \A t \in Threads : t # s => sd'[t] = sd[t] /\ target'[t] = target[t]
    BY <2>1, <2>3 DEF CallPlaces
  <2>5. Types'
    BY <1>1, <2>1, <2>2, <2>4
    DEF LifecycleInv, Types, ServerTypes, AcceptTypes, ConnTypes, CallTypes
  <2>6. started[s]
    BY <1>1 DEF LifecycleInv, StageInv, Opening
  <2>7. CallInv'
    <3>1. \A t \in Threads : /\ sd'[t] # "out" => started'[target'[t]]
                             /\ sd'[t] \in {"close", "wait"} => stopRequested'[target'[t]]
      BY <2>2, <2>4, <2>6 DEF LifecycleInv, CallInv
    <3>2. \A r \in Servers : sd'[r] # "out" /\ ~glob'[r] => apc'[r] = "global" /\ target'[r] = r
      BY <1>1, <2>1, <2>4, ServersAreThreads DEF LifecycleInv, CallInv
    <3> QED
      BY <3>1, <3>2 DEF CallInv
  <2>8. StageInv'
    BY <2>1, <2>2 DEF LifecycleInv, StageInv
  <2>9. HandInv' /\ LineInv' /\ CountInv' /\ ServedInv' /\ QuietInv'
    BY <1>1, <2>1, <2>2, HandKept, LineKept, CountKept, ServedKept, QuietKept
  <2> QED
    BY <2>5, <2>7, <2>8, <2>9 DEF LifecycleInv
<1>3. CASE ~(globalShutdownRequested /\ ~stopRequested[s])
  <2>1. PICK at \in {"drain", "accept"} :
          AcceptorGoes(s, at) /\ (at = "drain" => stopRequested[s])
    BY <1>3 DEF GlobalTest
  <2>2. UNCHANGED callVars
    BY <1>1, <1>3 DEF GlobalTest, callVars
  <2>3. at \in AcceptorPlaces /\ report' \in [Servers -> {"none", "finished", "forced"}]
    BY <1>1, ReportType DEF AcceptorPlaces
  <2> QED
    BY <1>1, <2>1, <2>2, <2>3, AcceptorGoesOn
<1> QED
  BY <1>2, <1>3

-----------------------------------------------------------------------------
(* From the backlog to a worker.                                           *)

LEMMA AcceptReturnsFacts ==
  ASSUME LifecycleInv, NEW s \in Servers, NEW c \in Conns, AcceptReturns(s, c)
  PROVE  /\ apc[s] \in {"accept", "blocked"} /\ ~Busy(s)
         /\ home[c] = s /\ conn[c] = "backlog"
         /\ apc' \in [Servers -> AcceptorPlaces] /\ apc'[s] = "submit"
         /\ \A r \in Servers : r # s => apc'[r] = apc[r]
         /\ accepted' \in [Servers -> Conns \cup {NoConn}] /\ accepted'[s] = c
         /\ \A r \in Servers : r # s => accepted'[r] = accepted[r]
         /\ conn' \in [Conns -> ConnPlaces] /\ conn'[c] = "accepted"
         /\ \A d \in Conns : d # c =>
              conn'[d] = conn[d] \/ (conn[d] = "backlog" /\ conn'[d] = "reset")
         /\ UNCHANGED <<started, stopRequested, stopCompleted, listener, queue, report, home,
                        served, activeConnections, callVars>>
<1>1. /\ AcceptorAt(s, "accept") \/ AcceptorAt(s, "blocked")
      /\ c \in Of(s, {"backlog"})
      /\ accepted' = [accepted EXCEPT ![s] = c]
      /\ conn' = [d \in Conns |->
                    IF d = c THEN "accepted"
                    ELSE IF d \in Of(s, {"backlog"}) /\ listener[s] = "closed" THEN "reset"
                    ELSE conn[d]]
      /\ AcceptorGoes(s, "submit")
      /\ UNCHANGED <<serverVars, queue, report, home, served, activeConnections, callVars>>
  BY DEF AcceptReturns, Backlog
<1>2. /\ apc \in [Servers -> AcceptorPlaces] /\ conn \in [Conns -> ConnPlaces]
      /\ accepted \in [Servers -> Conns \cup {NoConn}]
  BY DEF LifecycleInv, Types, AcceptTypes, ConnTypes
<1>3. apc[s] \in {"accept", "blocked"} /\ ~Busy(s)
  BY <1>1 DEF AcceptorAt
<1>4. home[c] = s /\ conn[c] = "backlog"
  BY <1>1 DEF Of
<1>5. "submit" \in AcceptorPlaces /\ "accepted" \in ConnPlaces /\ "reset" \in ConnPlaces
  BY DEF AcceptorPlaces, ConnPlaces
<1>6. /\ apc' \in [Servers -> AcceptorPlaces] /\ apc'[s] = "submit"
      /\ \A r \in Servers : r # s => apc'[r] = apc[r]
  BY <1>1, <1>2, <1>5 DEF AcceptorGoes
<1>7. /\ accepted' \in [Servers -> Conns \cup {NoConn}] /\ accepted'[s] = c
      /\ \A r \in Servers : r # s => accepted'[r] = accepted[r]
  BY <1>1, <1>2
<1>8. conn' \in [Conns -> ConnPlaces] /\ conn'[c] = "accepted"
  BY <1>1, <1>2, <1>5
<1>9. ASSUME NEW d \in Conns, d # c
      PROVE  conn'[d] = conn[d] \/ (conn[d] = "backlog" /\ conn'[d] = "reset")
  BY <1>1, <1>9 DEF Of
<1>10. UNCHANGED <<started, stopRequested, stopCompleted, listener, queue, report, home,
                   served, activeConnections, callVars>>
  BY <1>1 DEF serverVars
<1> QED
  BY <1>3, <1>4, <1>6, <1>7, <1>8, <1>9, <1>10

LEMMA AcceptReturnsKeeps ==
  ASSUME LifecycleInv, NEW s \in Servers, NEW c \in Conns, AcceptReturns(s, c)
  PROVE  LifecycleInv'
<1>1. /\ apc[s] \in {"accept", "blocked"} /\ ~Busy(s)
      /\ home[c] = s /\ conn[c] = "backlog"
      /\ apc' \in [Servers -> AcceptorPlaces] /\ apc'[s] = "submit"
      /\ \A r \in Servers : r # s => apc'[r] = apc[r]
      /\ accepted' \in [Servers -> Conns \cup {NoConn}] /\ accepted'[s] = c
      /\ \A r \in Servers : r # s => accepted'[r] = accepted[r]
      /\ conn' \in [Conns -> ConnPlaces] /\ conn'[c] = "accepted"
      /\ \A d \in Conns : d # c =>
           conn'[d] = conn[d] \/ (conn[d] = "backlog" /\ conn'[d] = "reset")
      /\ UNCHANGED <<started, stopRequested, stopCompleted, listener, queue, report, home,
                     served, activeConnections, callVars>>
  BY AcceptReturnsFacts
<1>2. UNCHANGED <<sd, target, glob, rest, globalShutdownRequested>>
  BY <1>1 DEF callVars
<1>3. home \in [Conns -> Servers]
  BY DEF LifecycleInv, Types, ConnTypes
<1>4. Types'
  BY <1>1, <1>2 DEF LifecycleInv, Types, ServerTypes, AcceptTypes, ConnTypes, CallTypes
<1>5. StageInv'
  BY <1>1 DEF LifecycleInv, StageInv, Opening, Ending
<1>6. CallInv'
  BY <1>1, <1>2, CallKept
<1>7. HandInv'
  BY <1>1, <1>3 DEF LifecycleInv, HandInv
<1>8. LineInv'
  BY <1>1, LineKept
<1>9. CountInv' /\ ServedInv'
  BY <1>1, CountKept, ServedKept DEF Counted, OnceCounted, Early
<1>10. QuietInv'
  BY <1>1, <1>3, QuietKept DEF Kept, InWork
<1> QED
  BY <1>4, <1>5, <1>6, <1>7, <1>8, <1>9, <1>10 DEF LifecycleInv

LEMMA SubmitKeeps ==
  ASSUME LifecycleInv, NEW s \in Servers, Submit(s)
  PROVE  LifecycleInv'
<1>1. /\ apc[s] = "submit" /\ ~Busy(s)
      /\ queue' = [queue EXCEPT ![s] = Append(queue[s], accepted[s])]
      /\ conn' = [conn EXCEPT ![accepted[s]] = "queued"]
      /\ accepted' = [accepted EXCEPT ![s] = NoConn]
      /\ AcceptorGoes(s, "loop")
      /\ UNCHANGED <<serverVars, report, home, served, activeConnections, callVars>>
  BY DEF Submit, AcceptorAt
<1>2. PICK c \in Conns : accepted[s] = c /\ conn[c] = "accepted" /\ home[c] = s
  BY <1>1 DEF LifecycleInv, HandInv
<1>3. /\ apc \in [Servers -> AcceptorPlaces] /\ conn \in [Conns -> ConnPlaces]
      /\ accepted \in [Servers -> Conns \cup {NoConn}] /\ queue \in [Servers -> Seq(Conns)]
      /\ home \in [Conns -> Servers]
  BY DEF LifecycleInv, Types, AcceptTypes, ConnTypes
<1>4. UNCHANGED <<started, stopRequested, stopCompleted, listener, sd, target, glob, rest,
                  globalShutdownRequested>>
  BY <1>1 DEF serverVars, callVars
<1>5. "loop" \in AcceptorPlaces /\ "queued" \in ConnPlaces
  BY DEF AcceptorPlaces, ConnPlaces
<1>6. /\ apc' \in [Servers -> AcceptorPlaces] /\ apc'[s] = "loop"
      /\ \A r \in Servers : r # s => apc'[r] = apc[r]
  BY <1>1, <1>3, <1>5 DEF AcceptorGoes
<1>7. /\ accepted' \in [Servers -> Conns \cup {NoConn}] /\ accepted'[s] = NoConn
      /\ \A r \in Servers : r # s => accepted'[r] = accepted[r]
  BY <1>1, <1>3
<1>8. /\ conn' \in [Conns -> ConnPlaces] /\ conn'[c] = "queued"
      /\ \A d \in Conns : d # c => conn'[d] = conn[d]
  BY <1>1, <1>2, <1>3, <1>5
<1>9. /\ Append(queue[s], c) \in Seq(Conns)
      /\ Len(Append(queue[s], c)) = Len(queue[s]) + 1
      /\ \A i \in 1 .. Len(queue[s]) : Append(queue[s], c)[i] = queue[s][i]
      /\ Append(queue[s], c)[Len(queue[s]) + 1] = c
  BY <1>3, AppendProperties
<1>10. /\ queue' \in [Servers -> Seq(Conns)] /\ queue'[s] = Append(queue[s], c)
       /\ \A r \in Servers : r # s => queue'[r] = queue[r]
  BY <1>1, <1>2, <1>3, <1>9
<1>11. Types'
  BY <1>1, <1>4, <1>6, <1>7, <1>8, <1>10
  DEF LifecycleInv, Types, ServerTypes, AcceptTypes, ConnTypes, CallTypes
<1>12. StageInv'
  BY <1>1, <1>4, <1>6 DEF LifecycleInv, StageInv, Opening, Ending
<1>13. CallInv'
  BY <1>1, <1>4, <1>6, CallKept
<1>14. HandInv'
  BY <1>1, <1>2, <1>3, <1>6, <1>7, <1>8 DEF LifecycleInv, HandInv
<1>15. CountInv' /\ ServedInv'
  BY <1>1, <1>2, <1>8, CountKept, ServedKept DEF Counted, OnceCounted, Early
<1>16. QuietInv'
  BY <1>1, <1>2, <1>3, <1>6, <1>8, QuietKept
<1>17. Len(queue[s]) \in Nat /\ \A r \in Servers : \A i \in 1 .. Len(queue[r]) : queue[r][i] \in Conns
  BY <1>3, ElementOfSeq, LenProperties
<1>18. ASSUME NEW r \in Servers, NEW i \in Nat, i \in 1 .. Len(queue'[r])
       PROVE  /\ conn'[queue'[r][i]] = "queued" /\ home'[queue'[r][i]] = r
              /\ r # s => i \in 1 .. Len(queue[r]) /\ queue'[r][i] = queue[r][i] /\ queue[r][i] # c
              /\ r = s => \/ i \in 1 .. Len(queue[s]) /\ queue'[s][i] = queue[s][i] /\ queue[s][i] # c
                          \/ i = Len(queue[s]) + 1 /\ queue'[s][i] = c
  <2>1. CASE r = s /\ i = Len(queue[s]) + 1
    BY <1>1, <1>2, <1>8, <1>9, <1>10, <2>1
  <2>2. CASE i \in 1 .. Len(queue[r])
    <3>1. queue'[r][i] = queue[r][i]
      BY <1>9, <1>10, <2>2
    <3>2. queue[r][i] \in Conns /\ conn[queue[r][i]] = "queued" /\ home[queue[r][i]] = r
      BY <1>17, <2>2 DEF LifecycleInv, LineInv
    <3>3. queue[r][i] # c
      BY <1>2, <3>2
    <3>4. conn'[queue'[r][i]] = "queued" /\ home'[queue'[r][i]] = r
      BY <1>1, <1>8, <3>1, <3>2, <3>3
    <3> QED
      BY <2>2, <3>1, <3>3, <3>4
  <2>3. r # s => i \in 1 .. Len(queue[r])
    BY <1>10, <1>18
  <2>4. r = s => i \in 1 .. Len(queue[s]) \/ i = Len(queue[s]) + 1
    BY <1>9, <1>10, <1>17, <1>18
  <2> QED
    BY <2>1, <2>2, <2>3, <2>4
<1>19. ASSUME NEW r \in Servers, NEW i \in Nat, NEW j \in Nat, i \in 1 .. Len(queue'[r]),
              j \in 1 .. Len(queue'[r]), queue'[r][i] = queue'[r][j]
       PROVE  i = j
  <2>1. CASE r # s
    BY <1>18, <1>19, <2>1 DEF LifecycleInv, LineInv
  <2>2. CASE r = s
    BY <1>18, <1>19, <2>2 DEF LifecycleInv, LineInv
  <2> QED
    BY <2>1, <2>2
<1>20. ASSUME NEW d \in Conns, conn'[d] = "queued"
       PROVE  \E i \in 1 .. Len(queue'[home'[d]]) : queue'[home'[d]][i] = d
  <2>1. CASE d = c
    <3>1. /\ Len(queue[s]) + 1 \in 1 .. Len(queue'[s])
          /\ queue'[s][Len(queue[s]) + 1] = c
      BY <1>9, <1>10, <1>17
    <3> QED
      BY <1>1, <1>2, <2>1, <3>1
  <2>2. CASE d # c
    <3>1. PICK i \in 1 .. Len(queue[home[d]]) : queue[home[d]][i] = d
      BY <1>8, <1>20, <2>2 DEF LifecycleInv, LineInv
    <3>2. i \in 1 .. Len(queue'[home[d]]) /\ queue'[home[d]][i] = d
      <4>1. CASE home[d] = s
        <5>1. i \in 1 .. Len(queue[s]) /\ i \in 1 .. Len(queue[s]) + 1
          BY <1>17, <3>1, <4>1
        <5> QED
          BY <1>9, <1>10, <3>1, <4>1, <5>1
      <4>2. CASE home[d] # s
        BY <1>3, <1>10, <3>1, <4>2
      <4> QED
        BY <4>1, <4>2
    <3> QED
      BY <1>1, <3>2
  <2> QED
    BY <2>1, <2>2
<1>21. LineInv'
  BY <1>18, <1>19, <1>20 DEF LineInv
<1> QED
  BY <1>11, <1>12, <1>13, <1>14, <1>15, <1>16, <1>21 DEF LifecycleInv

\* A free worker takes the head of the line.
LEMMA PoolTakeKeeps ==
  ASSUME LifecycleInv, NEW c \in Conns, PoolTake(c)
  PROVE  LifecycleInv'
<1> DEFINE s == home[c]
<1>1. /\ queue[s] # <<>> /\ c = Head(queue[s])
      /\ queue' = [queue EXCEPT ![s] = Tail(queue[s])]
      /\ ConnGoes(c, "taken")
      /\ UNCHANGED <<serverVars, apc, accepted, report, home, served, activeConnections,
                     callVars>>
  BY DEF PoolTake
<1>2. /\ conn \in [Conns -> ConnPlaces] /\ queue \in [Servers -> Seq(Conns)]
      /\ home \in [Conns -> Servers] /\ s \in Servers
  BY DEF LifecycleInv, Types, AcceptTypes, ConnTypes
<1> HIDE DEF s
<1>3. UNCHANGED <<started, stopRequested, stopCompleted, listener, sd, target, glob, rest,
                  globalShutdownRequested>>
  BY <1>1 DEF serverVars, callVars
<1>4. "taken" \in ConnPlaces
  BY DEF ConnPlaces, InWork
<1>5. /\ conn' \in [Conns -> ConnPlaces] /\ conn'[c] = "taken"
      /\ \A d \in Conns : d # c => conn'[d] = conn[d]
  BY <1>1, <1>2, <1>4 DEF ConnGoes
<1>6. queue[s] \in Seq(Conns) /\ Len(queue[s]) \in Nat
  BY <1>2, LenProperties
<1>7. /\ Tail(queue[s]) \in Seq(Conns) /\ Len(Tail(queue[s])) = Len(queue[s]) - 1
      /\ \A i \in 1 .. Len(Tail(queue[s])) : Tail(queue[s])[i] = queue[s][i + 1]
      /\ Len(queue[s]) > 0 /\ queue[s][1] = c
  BY <1>1, <1>6, HeadTailProperties, EmptySeq
<1>8. /\ queue' \in [Servers -> Seq(Conns)] /\ queue'[s] = Tail(queue[s])
      /\ \A r \in Servers : r # s => queue'[r] = queue[r]
  BY <1>1, <1>2, <1>7
<1>9. conn[c] = "queued" /\ home[c] = s
  <2>1. 1 \in 1 .. Len(queue[s])
    BY <1>6, <1>7
  <2> QED
    BY <1>2, <1>7, <2>1 DEF LifecycleInv, LineInv
<1>10. Types'
  BY <1>1, <1>3, <1>5, <1>8 DEF LifecycleInv, Types, ServerTypes, AcceptTypes, ConnTypes, CallTypes
<1>11. StageInv'
  BY <1>1, <1>3 DEF LifecycleInv, StageInv
<1>12. CallInv'
  BY <1>1, <1>3, CallKept
<1>13. HandInv'
  BY <1>1, <1>5, <1>9, HandKept
<1>14. CountInv' /\ ServedInv'
  BY <1>1, <1>5, <1>9, CountKept, ServedKept DEF Counted, OnceCounted, Early
<1>15. QuietInv'
  BY <1>1, <1>5, <1>9, QuietKept DEF Kept
<1>16. \A r \in Servers : \A i \in 1 .. Len(queue[r]) : queue[r][i] \in Conns
  BY <1>2, ElementOfSeq
<1>17. ASSUME NEW r \in Servers, NEW i \in Nat, i \in 1 .. Len(queue'[r])
       PROVE  \E k \in 1 .. Len(queue[r]) :
                /\ queue'[r][i] = queue[r][k] /\ queue[r][k] # c
                /\ k = IF r = s THEN i + 1 ELSE i
  <2>1. CASE r = s
    <3>1. /\ i + 1 \in 1 .. Len(queue[r]) /\ queue'[r][i] = queue[r][i + 1]
          /\ 1 \in 1 .. Len(queue[r]) /\ i + 1 # 1
      BY <1>6, <1>7, <1>8, <1>17, <2>1
    <3>2. queue[r][i + 1] # c
      BY <1>7, <2>1, <3>1 DEF LifecycleInv, LineInv
    <3> QED
      BY <2>1, <3>1, <3>2
  <2>2. CASE r # s
    <3>1. i \in 1 .. Len(queue[r]) /\ queue'[r][i] = queue[r][i]
      BY <1>8, <1>17, <2>2
    <3>2. home[queue[r][i]] = r
      BY <3>1 DEF LifecycleInv, LineInv
    <3> QED
      BY <1>9, <2>2, <3>1, <3>2
  <2> QED
    BY <2>1, <2>2
<1>18. ASSUME NEW r \in Servers, NEW i \in Nat, i \in 1 .. Len(queue'[r])
       PROVE  conn'[queue'[r][i]] = "queued" /\ home'[queue'[r][i]] = r
  <2>1. PICK k \in 1 .. Len(queue[r]) : queue'[r][i] = queue[r][k] /\ queue[r][k] # c
    BY <1>17, <1>18
  <2>2. conn[queue[r][k]] = "queued" /\ home[queue[r][k]] = r /\ queue[r][k] \in Conns
    BY <1>16, <2>1 DEF LifecycleInv, LineInv
  <2> QED
    BY <1>1, <1>5, <2>1, <2>2
<1>19. ASSUME NEW r \in Servers, NEW i \in Nat, NEW j \in Nat, i \in 1 .. Len(queue'[r]),
              j \in 1 .. Len(queue'[r]), queue'[r][i] = queue'[r][j]
       PROVE  i = j
  <2>1. PICK k \in 1 .. Len(queue[r]) :
          queue'[r][i] = queue[r][k] /\ k = IF r = s THEN i + 1 ELSE i
    BY <1>17, <1>19
  <2>2. PICK l \in 1 .. Len(queue[r]) :
          queue'[r][j] = queue[r][l] /\ l = IF r = s THEN j + 1 ELSE j
    BY <1>17, <1>19
  <2>3. k = l
    <3>1. queue[r][k] = queue[r][l]
      BY <1>19, <2>1, <2>2, Zenon
    <3>2. k \in Nat /\ l \in Nat
      OBVIOUS
    <3> QED
      BY <3>1, <3>2 DEF LifecycleInv, LineInv
  <2> QED
    BY <2>1, <2>2, <2>3
<1>20. ASSUME NEW d \in Conns, conn'[d] = "queued"
       PROVE  \E i \in 1 .. Len(queue'[home'[d]]) : queue'[home'[d]][i] = d
  <2>1. d # c /\ conn[d] = "queued"
    BY <1>5, <1>20
  <2>2. PICK i \in 1 .. Len(queue[home[d]]) : queue[home[d]][i] = d
    BY <2>1 DEF LifecycleInv, LineInv
  <2>3. CASE home[d] = s
    <3>1. i # 1
      BY <1>7, <2>1, <2>2, <2>3
    <3>2. i - 1 \in 1 .. Len(queue'[s]) /\ queue'[s][i - 1] = d
      BY <1>6, <1>7, <1>8, <2>2, <2>3, <3>1
    <3> QED
      BY <1>1, <2>3, <3>2
  <2>4. CASE home[d] # s
    BY <1>1, <1>2, <1>8, <2>2, <2>4
  <2> QED
    BY <2>3, <2>4
<1>21. LineInv'
  BY <1>18, <1>19, <1>20 DEF LineInv
<1> QED
  BY <1>10, <1>11, <1>12, <1>13, <1>14, <1>15, <1>21 DEF LifecycleInv

-----------------------------------------------------------------------------
(* handleClient.                                                           *)

\* How the sets of connections change with one connection's place.
LEMMA OfMoves ==
  ASSUME ConnTypes, NEW c \in Conns, NEW at, ConnGoes(c, at), UNCHANGED home, NEW P
  PROVE  /\ \A r \in Servers : r # home[c] => Of(r, P)' = Of(r, P)
         /\ conn[c] \in P /\ at \in P => Of(home[c], P)' = Of(home[c], P)
         /\ conn[c] \notin P /\ at \notin P => Of(home[c], P)' = Of(home[c], P)
         /\ conn[c] \notin P /\ at \in P =>
              Cardinality(Of(home[c], P)') = Cardinality(Of(home[c], P)) + 1
         /\ conn[c] \in P /\ at \notin P =>
              Cardinality(Of(home[c], P)') = Cardinality(Of(home[c], P)) - 1
<1>1. /\ conn \in [Conns -> ConnPlaces] /\ home' = home
      /\ conn'[c] = at /\ \A d \in Conns : d # c => conn'[d] = conn[d]
  BY DEF ConnTypes, ConnGoes
<1>2. \A r \in Servers : r # home[c] => Of(r, P)' = Of(r, P)
  BY <1>1 DEF Of
<1>3. ASSUME conn[c] \in P <=> at \in P PROVE Of(home[c], P)' = Of(home[c], P)
  BY <1>1, <1>3 DEF Of
<1>4. ASSUME conn[c] \notin P, at \in P
      PROVE  Cardinality(Of(home[c], P)') = Cardinality(Of(home[c], P)) + 1
  <2>1. Of(home[c], P)' = Of(home[c], P) \cup {c} /\ c \notin Of(home[c], P)
    BY <1>1, <1>4 DEF Of
  <2> QED
    BY <2>1, OfFinite, FS_AddElement
<1>5. ASSUME conn[c] \in P, at \notin P
      PROVE  Cardinality(Of(home[c], P)') = Cardinality(Of(home[c], P)) - 1
  <2>1. Of(home[c], P)' = Of(home[c], P) \ {c} /\ c \in Of(home[c], P)
    BY <1>1, <1>5 DEF Of
  <2> QED
    BY <2>1, OfFinite, FS_RemoveElement
<1> QED
  BY <1>2, <1>3, <1>4, <1>5

\* A connection moves outside of the acceptor's hands and the pool's line.
LEMMA ConnMoves ==
  ASSUME LifecycleInv, NEW c \in Conns, NEW at \in ConnPlaces \ {"accepted", "queued"},
         ConnGoes(c, at), conn[c] \notin {"accepted", "queued"},
         at \in Kept => conn[c] \in Kept,
         served' \in [Conns -> Nat], activeConnections' \in [Servers -> Nat],
         UNCHANGED <<serverVars, acceptVars, home, callVars>>
  PROVE  /\ conn'[c] = at /\ \A d \in Conns : d # c => conn'[d] = conn[d]
         /\ Types' /\ StageInv' /\ CallInv' /\ HandInv' /\ LineInv' /\ QuietInv'
<1>1. conn \in [Conns -> ConnPlaces] /\ home \in [Conns -> Servers]
  BY DEF LifecycleInv, Types, ConnTypes
<1>2. UNCHANGED <<started, stopRequested, stopCompleted, listener, apc, accepted, queue, report,
                  home, sd, target, glob, rest, globalShutdownRequested>>
  BY DEF serverVars, acceptVars, callVars
<1>3. /\ conn' \in [Conns -> ConnPlaces] /\ conn'[c] = at
      /\ \A d \in Conns : d # c => conn'[d] = conn[d]
  BY <1>1 DEF ConnGoes
<1>4. Types'
  BY <1>2, <1>3 DEF LifecycleInv, Types, ServerTypes, AcceptTypes, ConnTypes, CallTypes
<1>5. StageInv'
  BY <1>2 DEF LifecycleInv, StageInv
<1>6. CallInv'
  BY <1>2, CallKept
<1>7. HandInv' /\ LineInv'
  BY <1>2, <1>3, HandKept, LineKept
<1>8. QuietInv'
  BY <1>2, <1>3, QuietKept
<1> QED
  BY <1>3, <1>4, <1>5, <1>6, <1>7, <1>8

LEMMA CountersTyped ==
  ASSUME LifecycleInv
  PROVE  /\ conn \in [Conns -> ConnPlaces] /\ home \in [Conns -> Servers]
         /\ served \in [Conns -> Nat] /\ activeConnections \in [Servers -> Nat]
  BY DEF LifecycleInv, Types, ConnTypes

\* Steps that do not touch the counter, and count nobody.
LEMMA WorkerMoves ==
  ASSUME LifecycleInv, NEW c \in Conns, NEW at,
         \/ conn[c] = "new" /\ at = "backlog"
         \/ conn[c] = "top" /\ at \in {"leave", "recv"}
         \/ conn[c] = "recv" /\ at = "closed"
         \/ conn[c] = "handle" /\ at \in {"top", "leave"}
              /\ (at = "top" => served[c] < MaxRequests),
         ConnGoes(c, at),
         UNCHANGED <<serverVars, acceptVars, home, served, activeConnections, callVars>>
  PROVE  LifecycleInv'
<1>1. /\ at \in ConnPlaces \ {"accepted", "queued"} /\ conn[c] \notin {"accepted", "queued"}
      /\ at \in Kept => conn[c] \in Kept
  BY DEF ConnPlaces, InWork, Kept
<1>2. /\ conn'[c] = at /\ \A d \in Conns : d # c => conn'[d] = conn[d]
      /\ Types' /\ StageInv' /\ CallInv' /\ HandInv' /\ LineInv' /\ QuietInv'
  BY <1>1, CountersTyped, ConnMoves
<1>3. CountInv'
  BY <1>2, CountKept DEF Counted, OnceCounted
<1>4. at \in Early => conn[c] \in Early \/ served[c] <= MaxRequests
  BY CountersTyped, LifecycleAssumption DEF Early
<1>5. ServedInv'
  BY <1>2, <1>4, ServedKept
<1> QED
  BY <1>2, <1>3, <1>5 DEF LifecycleInv

LEMMA ConnectKeeps ==
  ASSUME LifecycleInv, NEW c \in Conns, Connect(c)
  PROVE  LifecycleInv'
  BY WorkerMoves DEF Connect

LEMMA LoopTopKeeps ==
  ASSUME LifecycleInv, NEW c \in Conns, LoopTop(c) \/ EarlyReturn(c)
  PROVE  LifecycleInv'
  BY WorkerMoves DEF LoopTop, EarlyReturn, WorkerAt

LEMMA RespondKeeps ==
  ASSUME LifecycleInv, NEW c \in Conns, Respond(c)
  PROVE  LifecycleInv'
<1>1. PICK keepAlive \in BOOLEAN :
        /\ served[c] >= MaxRequests => ~keepAlive
        /\ ConnGoes(c, IF keepAlive THEN "top" ELSE "leave")
  BY DEF Respond
<1>2. /\ conn[c] = "handle" /\ served[c] \in Nat /\ MaxRequests \in Nat
      /\ UNCHANGED <<serverVars, acceptVars, home, served, activeConnections, callVars>>
  BY CountersTyped, LifecycleAssumption DEF Respond, WorkerAt
<1>3. CASE keepAlive
  <2>1. ConnGoes(c, "top") /\ served[c] < MaxRequests
    BY <1>1, <1>2, <1>3
  <2> QED
    BY <1>2, <2>1, WorkerMoves
<1>4. CASE ~keepAlive
  <2>1. ConnGoes(c, "leave")
    BY <1>1, <1>4
  <2> QED
    BY <1>2, <2>1, WorkerMoves
<1> QED
  BY <1>3, <1>4

LEMMA ReceiveKeeps ==
  ASSUME LifecycleInv, NEW c \in Conns, Receive(c)
  PROVE  LifecycleInv'
<1>1. /\ conn[c] = "recv" /\ served' = [served EXCEPT ![c] = served[c] + 1]
      /\ ConnGoes(c, "handle")
      /\ UNCHANGED <<serverVars, acceptVars, home, activeConnections, callVars>>
  BY DEF Receive, WorkerAt
<1>2. /\ served' \in [Conns -> Nat] /\ served'[c] = served[c] + 1
      /\ \A d \in Conns : d # c => served'[d] = served[d]
      /\ activeConnections' \in [Servers -> Nat]
  BY <1>1, CountersTyped
<1>3. /\ "handle" \in ConnPlaces \ {"accepted", "queued"} /\ conn[c] \notin {"accepted", "queued"}
      /\ "handle" \in Kept => conn[c] \in Kept
  BY <1>1 DEF ConnPlaces, InWork, Kept
<1>4. /\ conn'[c] = "handle" /\ \A d \in Conns : d # c => conn'[d] = conn[d]
      /\ Types' /\ StageInv' /\ CallInv' /\ HandInv' /\ LineInv' /\ QuietInv'
  BY <1>1, <1>2, <1>3, ConnMoves
<1>5. CountInv'
  BY <1>1, <1>4, CountKept DEF Counted, OnceCounted
<1>6. /\ served[c] <= MaxRequests /\ served[c] \in Nat /\ MaxRequests \in Nat
      /\ "handle" \notin Early
  BY <1>1, CountersTyped, LifecycleAssumption DEF LifecycleInv, ServedInv, Early
<1>7. ServedInv'
  BY <1>2, <1>4, <1>6 DEF LifecycleInv, ServedInv
<1> QED
  BY <1>4, <1>5, <1>7 DEF LifecycleInv

\* The counter changes with a worker's place.
LEMMA CountInKeeps ==
  ASSUME LifecycleInv, NEW c \in Conns, CountIn(c)
  PROVE  LifecycleInv'
<1>1. /\ conn[c] = "taken" /\ ConnGoes(c, "top")
      /\ activeConnections' =
           [activeConnections EXCEPT ![home[c]] = activeConnections[home[c]] + 1]
      /\ UNCHANGED <<serverVars, acceptVars, home, served, callVars>>
  BY DEF CountIn, WorkerAt
<1>2. /\ activeConnections' \in [Servers -> Nat] /\ served' \in [Conns -> Nat]
      /\ activeConnections'[home[c]] = activeConnections[home[c]] + 1
      /\ \A r \in Servers : r # home[c] => activeConnections'[r] = activeConnections[r]
      /\ home[c] \in Servers
  BY <1>1, CountersTyped
<1>3. /\ "top" \in ConnPlaces \ {"accepted", "queued"} /\ conn[c] \notin {"accepted", "queued"}
      /\ "top" \in Kept => conn[c] \in Kept
  BY <1>1 DEF ConnPlaces, InWork, Kept
<1>4. /\ conn'[c] = "top" /\ \A d \in Conns : d # c => conn'[d] = conn[d]
      /\ Types' /\ StageInv' /\ CallInv' /\ HandInv' /\ LineInv' /\ QuietInv'
  BY <1>1, <1>2, <1>3, ConnMoves
<1>5. ServedInv'
  BY <1>1, <1>4, ServedKept DEF Early
<1>6. ASSUME NEW r \in Servers
      PROVE  /\ Cardinality(Of(r, Counted)') <= activeConnections'[r]
             /\ activeConnections'[r] <= Cardinality(Of(r, OnceCounted)')
  <2>1. ConnTypes /\ UNCHANGED home
    BY <1>1 DEF LifecycleInv, Types
  <2>2. /\ conn[c] \notin Counted /\ "top" \in Counted
        /\ conn[c] \notin OnceCounted /\ "top" \in OnceCounted
    BY <1>1 DEF Counted, OnceCounted
  <2>3. /\ activeConnections[r] \in Nat
        /\ Cardinality(Of(r, Counted)) <= activeConnections[r]
        /\ activeConnections[r] <= Cardinality(Of(r, OnceCounted))
    BY CountersTyped DEF LifecycleInv, CountInv
  <2>4. Cardinality(Of(r, Counted)) \in Nat /\ Cardinality(Of(r, OnceCounted)) \in Nat
    BY OfFinite
  <2>5. CASE r = home[c]
    <3>1. Cardinality(Of(r, Counted)') = Cardinality(Of(r, Counted)) + 1
      BY <1>1, <2>1, <2>2, <2>5, OfMoves
    <3>2. Cardinality(Of(r, OnceCounted)') = Cardinality(Of(r, OnceCounted)) + 1
      BY <1>1, <2>1, <2>2, <2>5, OfMoves
    <3>3. activeConnections'[r] = activeConnections[r] + 1
      BY <1>2, <2>5
    <3> QED
      BY <2>3, <2>4, <3>1, <3>2, <3>3
  <2>6. CASE r # home[c]
    <3>1. Of(r, Counted)' = Of(r, Counted) /\ Of(r, OnceCounted)' = Of(r, OnceCounted)
      BY <1>1, <2>1, <2>6, OfMoves
    <3>2. activeConnections'[r] = activeConnections[r]
      BY <1>2, <2>6
    <3> QED
      BY <2>3, <3>1, <3>2
  <2> QED
    BY <2>5, <2>6
<1>7. CountInv'
  BY <1>6 DEF CountInv
<1> QED
  BY <1>4, <1>5, <1>7 DEF LifecycleInv

LEMMA LeaveKeeps ==
  ASSUME LifecycleInv, NEW c \in Conns, Leave(c)
  PROVE  LifecycleInv'
<1>1. /\ conn[c] = "leave" /\ ConnGoes(c, "closed")
      /\ activeConnections' =
           [activeConnections EXCEPT ![home[c]] = activeConnections[home[c]] - 1]
      /\ UNCHANGED <<serverVars, acceptVars, home, served, callVars>>
  BY DEF Leave, WorkerAt
<1>2. /\ home[c] \in Servers /\ ConnTypes /\ UNCHANGED home
      /\ conn[c] \in Counted /\ "closed" \notin Counted
      /\ conn[c] \in OnceCounted /\ "closed" \in OnceCounted
  BY <1>1, CountersTyped DEF LifecycleInv, Types, Counted, OnceCounted
<1>3. Cardinality(Of(home[c], Counted)') = Cardinality(Of(home[c], Counted)) - 1
  BY <1>1, <1>2, OfMoves
<1>4. \A r \in Servers : r # home[c] => Of(r, Counted)' = Of(r, Counted)
  BY <1>1, <1>2, OfMoves
<1>5. \A r \in Servers : Of(r, OnceCounted)' = Of(r, OnceCounted)
  BY <1>1, <1>2, OfMoves
<1>6. /\ Cardinality(Of(home[c], Counted)) \in Nat \ {0}
      /\ activeConnections[home[c]] \in Nat
      /\ Cardinality(Of(home[c], Counted)) <= activeConnections[home[c]]
  <2>1. c \in Of(home[c], Counted)
    BY <1>2 DEF Of
  <2>2. Cardinality(Of(home[c], Counted)) # 0
    BY <2>1, OfFinite, FS_EmptySet
  <2> QED
    BY <1>2, <2>2, OfFinite, CountersTyped DEF LifecycleInv, CountInv
<1>7. activeConnections[home[c]] - 1 \in Nat
  BY <1>6
<1>8. /\ activeConnections' \in [Servers -> Nat] /\ served' \in [Conns -> Nat]
      /\ activeConnections'[home[c]] = activeConnections[home[c]] - 1
      /\ \A r \in Servers : r # home[c] => activeConnections'[r] = activeConnections[r]
  BY <1>1, <1>2, <1>7, CountersTyped
<1>9. /\ "closed" \in ConnPlaces \ {"accepted", "queued"}
      /\ conn[c] \notin {"accepted", "queued"}
      /\ "closed" \in Kept => conn[c] \in Kept
  BY <1>1 DEF ConnPlaces, InWork, Kept
<1>10. /\ conn'[c] = "closed" /\ \A d \in Conns : d # c => conn'[d] = conn[d]
       /\ Types' /\ StageInv' /\ CallInv' /\ HandInv' /\ LineInv' /\ QuietInv'
  BY <1>1, <1>8, <1>9, ConnMoves
<1>11. ServedInv'
  BY <1>1, <1>10, ServedKept DEF Early
<1>12. ASSUME NEW r \in Servers
       PROVE  /\ Cardinality(Of(r, Counted)') <= activeConnections'[r]
              /\ activeConnections'[r] <= Cardinality(Of(r, OnceCounted)')
  <2>1. /\ activeConnections[r] \in Nat
        /\ Cardinality(Of(r, Counted)) <= activeConnections[r]
        /\ activeConnections[r] <= Cardinality(Of(r, OnceCounted))
        /\ Cardinality(Of(r, OnceCounted)) \in Nat
    BY CountersTyped, OfFinite DEF LifecycleInv, CountInv
  <2>2. CASE r = home[c]
    <3>1. Cardinality(Of(r, Counted)') = Cardinality(Of(r, Counted)) - 1
      BY <1>2, <1>3, <2>2
    <3>2. Of(r, OnceCounted)' = Of(r, OnceCounted)
      BY <1>5
    <3>3. /\ activeConnections'[r] = activeConnections[r] - 1
          /\ Cardinality(Of(r, Counted)) \in Nat
      BY <1>6, <1>8, <2>2
    <3> QED
      BY <2>1, <3>1, <3>2, <3>3
  <2>3. CASE r # home[c]
    BY <1>4, <1>5, <1>8, <2>1, <2>3
  <2> QED
    BY <2>2, <2>3
<1>13. CountInv'
  BY <1>12 DEF CountInv
<1> QED
  BY <1>10, <1>11, <1>13 DEF LifecycleInv

-----------------------------------------------------------------------------
(* shutdown() and requestGlobalShutdown().                                 *)

LEMMA CallsTyped ==
  ASSUME LifecycleInv
  PROVE  /\ sd \in [Threads -> CallPlaces] /\ target \in [Threads -> Servers]
         /\ glob \in [Threads -> BOOLEAN] /\ rest \in [Threads -> SUBSET Servers]
         /\ globalShutdownRequested \in BOOLEAN
  BY DEF LifecycleInv, Types, CallTypes

\* Steps that change nothing but who is in which call.
LEMMA CallMoves ==
  ASSUME LifecycleInv, CallTypes', CallInv', UNCHANGED <<serverVars, acceptVars, connVars>>
  PROVE  LifecycleInv'
<1>1. UNCHANGED <<started, stopRequested, stopCompleted, listener, apc, accepted, queue, report,
                  conn, home, served, activeConnections>>
  BY DEF serverVars, acceptVars, connVars
<1>2. Types'
  BY <1>1 DEF LifecycleInv, Types, ServerTypes, AcceptTypes, ConnTypes
<1>3. StageInv'
  BY <1>1 DEF LifecycleInv, StageInv
<1>4. HandInv' /\ LineInv' /\ CountInv' /\ ServedInv' /\ QuietInv'
  BY <1>1, HandKept, LineKept, CountKept, ServedKept, QuietKept
<1> QED
  BY <1>2, <1>3, <1>4 DEF LifecycleInv

LEMMA CallShutdownKeeps ==
  ASSUME LifecycleInv, NEW t \in Stoppers, NEW s \in Servers, CallShutdown(t, s)
  PROVE  LifecycleInv'
<1>1. /\ started[s] /\ sd' = [sd EXCEPT ![t] = "store"]
      /\ target' = [target EXCEPT ![t] = s]
      /\ UNCHANGED <<serverVars, acceptVars, connVars, glob, rest, globalShutdownRequested>>
  BY DEF CallShutdown, ShutdownPasses
<1>2. t \in Threads /\ t \notin Servers /\ "store" \in CallPlaces
  BY ServersAreThreads DEF CallPlaces
<1>3. /\ sd' \in [Threads -> CallPlaces] /\ target' \in [Threads -> Servers]
      /\ sd'[t] = "store" /\ target'[t] = s
      /\ \A u \in Threads : u # t => sd'[u] = sd[u] /\ target'[u] = target[u]
  BY <1>1, <1>2, CallsTyped
<1>4. CallTypes'
  BY <1>1, <1>3, CallsTyped DEF CallTypes
<1>5. UNCHANGED <<started, stopRequested, apc>>
  BY <1>1 DEF serverVars, acceptVars
<1>6. CallInv'
  <2>1. \A u \in Threads : /\ sd'[u] # "out" => started'[target'[u]]
                           /\ sd'[u] \in {"close", "wait"} => stopRequested'[target'[u]]
    BY <1>1, <1>3, <1>5 DEF LifecycleInv, CallInv
  <2>2. \A r \in Servers : sd'[r] = sd[r] /\ target'[r] = target[r]
    BY <1>2, <1>3, ServersAreThreads
  <2>3. \A r \in Servers : sd'[r] # "out" /\ ~glob'[r] => apc'[r] = "global" /\ target'[r] = r
    BY <1>1, <1>5, <2>2 DEF LifecycleInv, CallInv
  <2> QED
    BY <2>1, <2>3 DEF CallInv
<1> QED
  BY <1>1, <1>4, <1>6, CallMoves

LEMMA ShutdownStoreKeeps ==
  ASSUME LifecycleInv, NEW t \in Threads, ShutdownStore(t)
  PROVE  LifecycleInv'
<1> DEFINE s == target[t]
<1>1. /\ sd[t] = "store" /\ sd' = [sd EXCEPT ![t] = "close"]
      /\ stopRequested' = [stopRequested EXCEPT ![s] = TRUE]
      /\ UNCHANGED <<started, stopCompleted, listener, acceptVars, connVars, target, glob, rest,
                     globalShutdownRequested>>
  BY DEF ShutdownStore
<1>2. s \in Servers /\ stopRequested \in [Servers -> BOOLEAN] /\ started[s]
  BY <1>1, CallsTyped DEF LifecycleInv, Types, ServerTypes, CallInv
<1> HIDE DEF s
<1>3. /\ stopRequested' \in [Servers -> BOOLEAN] /\ stopRequested'[s]
      /\ \A r \in Servers : r # s => stopRequested'[r] = stopRequested[r]
  BY <1>1, <1>2
<1>4. /\ sd' \in [Threads -> CallPlaces] /\ sd'[t] = "close"
      /\ \A u \in Threads : u # t => sd'[u] = sd[u]
  BY <1>1, CallsTyped DEF CallPlaces
<1>5. UNCHANGED <<apc, accepted, queue, report, conn, home, served, activeConnections>>
  BY <1>1 DEF acceptVars, connVars
<1>6. Types'
  BY <1>1, <1>3, <1>4, <1>5
  DEF LifecycleInv, Types, ServerTypes, AcceptTypes, ConnTypes, CallTypes
<1>7. StageInv'
  BY <1>1, <1>2, <1>3, <1>5 DEF LifecycleInv, StageInv
<1>8. target[t] = s
  BY DEF s
<1>9. CallInv'
  <2>1. \A u \in Threads : /\ sd'[u] # "out" => started'[target'[u]]
                           /\ sd'[u] \in {"close", "wait"} => stopRequested'[target'[u]]
    BY <1>1, <1>2, <1>3, <1>4, <1>8, CallsTyped DEF LifecycleInv, CallInv
  <2>2. \A r \in Servers : sd'[r] # "out" /\ ~glob'[r] => apc'[r] = "global" /\ target'[r] = r
    BY <1>1, <1>4, <1>5, ServersAreThreads DEF LifecycleInv, CallInv
  <2> QED
    BY <2>1, <2>2 DEF CallInv
<1>10. HandInv' /\ LineInv' /\ CountInv' /\ ServedInv' /\ QuietInv'
  BY <1>5, HandKept, LineKept, CountKept, ServedKept, QuietKept
<1> QED
  BY <1>6, <1>7, <1>9, <1>10 DEF LifecycleInv

LEMMA ShutdownCloseKeeps ==
  ASSUME LifecycleInv, NEW t \in Threads, ShutdownClose(t)
  PROVE  LifecycleInv'
<1> DEFINE s == target[t]
<1>1. /\ sd[t] = "close" /\ sd' = [sd EXCEPT ![t] = "wait"]
      /\ listener' = [listener EXCEPT ![s] = "closed"]
      /\ conn' = [c \in Conns |->
                    IF c \in Backlog(s) /\ (apc[s] # "blocked" \/ CloseWakesAccept)
                      THEN "reset" ELSE conn[c]]
      /\ UNCHANGED <<started, stopRequested, stopCompleted, acceptVars, home, served,
                     activeConnections, target, glob, rest, globalShutdownRequested>>
  BY DEF ShutdownClose
<1>2. s \in Servers /\ started[s]
  BY <1>1, CallsTyped DEF LifecycleInv, CallInv
<1> HIDE DEF s
<1>3. /\ listener \in [Servers -> {"none", "open", "closed"}]
      /\ conn \in [Conns -> ConnPlaces] /\ "reset" \in ConnPlaces
  BY DEF LifecycleInv, Types, ServerTypes, ConnTypes, ConnPlaces
<1>4. /\ listener' \in [Servers -> {"none", "open", "closed"}]
      /\ \A r \in Servers : r # s => listener'[r] = listener[r]
  BY <1>1, <1>2, <1>3
<1>5. conn' \in [Conns -> ConnPlaces]
  BY <1>1, <1>3
<1>6. \A c \in Conns : conn'[c] = conn[c] \/ (conn[c] = "backlog" /\ conn'[c] = "reset")
  BY <1>1 DEF Backlog, Of
<1>7. /\ sd' \in [Threads -> CallPlaces] /\ sd'[t] = "wait"
      /\ \A u \in Threads : u # t => sd'[u] = sd[u]
  BY <1>1, CallsTyped DEF CallPlaces
<1>8. UNCHANGED <<apc, accepted, queue, report>>
  BY <1>1 DEF acceptVars
<1>9. Types'
  BY <1>1, <1>4, <1>5, <1>7, <1>8
  DEF LifecycleInv, Types, ServerTypes, AcceptTypes, ConnTypes, CallTypes
<1>10. StageInv'
  BY <1>1, <1>2, <1>4, <1>8 DEF LifecycleInv, StageInv, Opening
<1>11. CallInv'
  <2>1. \A u \in Threads : /\ sd'[u] # "out" => started'[target'[u]]
                           /\ sd'[u] \in {"close", "wait"} => stopRequested'[target'[u]]
    BY <1>1, <1>7 DEF LifecycleInv, CallInv
  <2>2. \A r \in Servers : sd'[r] # "out" /\ ~glob'[r] => apc'[r] = "global" /\ target'[r] = r
    BY <1>1, <1>7, <1>8, ServersAreThreads DEF LifecycleInv, CallInv
  <2> QED
    BY <2>1, <2>2 DEF CallInv
<1>12. HandInv' /\ LineInv'
  BY <1>1, <1>6, <1>8, HandKept, LineKept
<1>13. CountInv' /\ ServedInv'
  BY <1>1, <1>6, CountKept, ServedKept DEF Counted, OnceCounted, Early
<1>14. QuietInv'
  BY <1>1, <1>6, <1>8, QuietKept DEF Kept, InWork
<1> QED
  BY <1>9, <1>10, <1>11, <1>12, <1>13, <1>14 DEF LifecycleInv

\* The acceptor never gets past its own wait: it alone could end it.
LEMMA NoSelfReturn ==
  ASSUME LifecycleInv, NEW t \in Servers, sd[t] = "wait", stopCompleted[target[t]]
  PROVE  glob[t]
<1>1. ASSUME ~glob[t] PROVE FALSE
  <2>1. apc[t] = "global" /\ target[t] = t
    BY <1>1 DEF LifecycleInv, CallInv
  <2> QED
    BY <2>1 DEF LifecycleInv, StageInv
<1> QED
  BY <1>1

LEMMA ShutdownWaitKeeps ==
  ASSUME LifecycleInv, NEW t \in Threads, ShutdownWait(t)
  PROVE  LifecycleInv' /\ UNCHANGED <<serverVars, acceptVars, connVars>>
<1>1. /\ sd[t] = "wait" /\ stopCompleted[target[t]] /\ sd' = [sd EXCEPT ![t] = "out"]
      /\ UNCHANGED <<serverVars, accepted, queue, report, connVars, target, glob, rest,
                     globalShutdownRequested>>
  BY DEF ShutdownWait
<1>2. UNCHANGED apc
  BY <1>1, NoSelfReturn DEF ShutdownWait
<1>3. UNCHANGED acceptVars
  BY <1>1, <1>2 DEF acceptVars
<1>4. /\ sd' \in [Threads -> CallPlaces] /\ sd'[t] = "out"
      /\ \A u \in Threads : u # t => sd'[u] = sd[u]
  BY <1>1, CallsTyped DEF CallPlaces
<1>5. CallTypes'
  BY <1>1, <1>4, CallsTyped DEF CallTypes
<1>6. UNCHANGED <<started, stopRequested>>
  BY <1>1 DEF serverVars
<1>7. CallInv'
  <2>1. \A u \in Threads : /\ sd'[u] # "out" => started'[target'[u]]
                           /\ sd'[u] \in {"close", "wait"} => stopRequested'[target'[u]]
    BY <1>1, <1>4, <1>6 DEF LifecycleInv, CallInv
  <2>2. \A r \in Servers : sd'[r] # "out" /\ ~glob'[r] => apc'[r] = "global" /\ target'[r] = r
    BY <1>1, <1>2, <1>4, ServersAreThreads DEF LifecycleInv, CallInv
  <2> QED
    BY <2>1, <2>2 DEF CallInv
<1> QED
  BY <1>1, <1>3, <1>5, <1>7, CallMoves

LEMMA RequestGlobalKeeps ==
  ASSUME LifecycleInv, NEW t \in Threads, RequestGlobalShutdown(t)
  PROVE  LifecycleInv'
<1>1. /\ sd[t] = "out" /\ globalShutdownRequested' = TRUE
      /\ glob' = [glob EXCEPT ![t] = TRUE] /\ rest' = [rest EXCEPT ![t] = Servers]
      /\ UNCHANGED <<serverVars, acceptVars, connVars, sd, target>>
  BY DEF RequestGlobalShutdown, Busy
<1>2. /\ glob' \in [Threads -> BOOLEAN]
      /\ \A u \in Threads : u # t => glob'[u] = glob[u]
  BY <1>1, CallsTyped
<1>3. rest' \in [Threads -> SUBSET Servers]
  BY <1>1, CallsTyped
<1>4. CallTypes'
  BY <1>1, <1>2, <1>3, CallsTyped DEF CallTypes
<1>5. UNCHANGED <<started, stopRequested, apc>>
  BY <1>1 DEF serverVars, acceptVars
<1>6. CallInv'
  BY <1>1, <1>2, <1>5, ServersAreThreads DEF LifecycleInv, CallInv
<1> QED
  BY <1>1, <1>4, <1>6, CallMoves

LEMMA GlobalLoopKeeps ==
  ASSUME LifecycleInv, NEW t \in Threads, GlobalLoop(t)
  PROVE  LifecycleInv'
<1>1. /\ glob[t] /\ sd[t] = "out"
      /\ UNCHANGED <<serverVars, acceptVars, connVars, glob, globalShutdownRequested>>
  BY DEF GlobalLoop
<1>2. PICK s \in rest[t] :
        /\ rest' = [rest EXCEPT ![t] = rest[t] \ {s}]
        /\ target' = [target EXCEPT ![t] = s]
        /\ sd' = [sd EXCEPT ![t] = IF ShutdownPasses(s) THEN "store" ELSE "out"]
  BY DEF GlobalLoop
<1>3. rest[t] \subseteq Servers /\ s \in Servers
  BY CallsTyped
<1>4. rest' \in [Threads -> SUBSET Servers]
  BY <1>2, <1>3, CallsTyped
<1>5. /\ target' \in [Threads -> Servers] /\ target'[t] = s
      /\ \A u \in Threads : u # t => target'[u] = target[u]
  BY <1>2, <1>3, CallsTyped
<1>6. /\ sd' \in [Threads -> CallPlaces]
      /\ sd'[t] = "out" \/ (sd'[t] = "store" /\ started[s])
      /\ \A u \in Threads : u # t => sd'[u] = sd[u]
  BY <1>2, CallsTyped DEF CallPlaces, ShutdownPasses
<1>7. CallTypes'
  BY <1>1, <1>4, <1>5, <1>6, CallsTyped DEF CallTypes
<1>8. UNCHANGED <<started, stopRequested, apc>>
  BY <1>1 DEF serverVars, acceptVars
<1>9. CallInv'
  <2>1. \A u \in Threads : /\ sd'[u] # "out" => started'[target'[u]]
                           /\ sd'[u] \in {"close", "wait"} => stopRequested'[target'[u]]
    BY <1>5, <1>6, <1>8 DEF LifecycleInv, CallInv
  <2>2. \A r \in Servers : sd'[r] # "out" /\ ~glob'[r] => apc'[r] = "global" /\ target'[r] = r
    BY <1>1, <1>5, <1>6, <1>8, ServersAreThreads DEF LifecycleInv, CallInv
  <2> QED
    BY <2>1, <2>2 DEF CallInv
<1> QED
  BY <1>1, <1>7, <1>9, CallMoves

LEMMA GlobalReturnsKeeps ==
  ASSUME LifecycleInv, NEW t \in Threads, GlobalReturns(t)
  PROVE  LifecycleInv'
<1>1. /\ sd[t] = "out" /\ glob' = [glob EXCEPT ![t] = FALSE]
      /\ UNCHANGED <<serverVars, acceptVars, connVars, sd, target, rest,
                     globalShutdownRequested>>
  BY DEF GlobalReturns
<1>2. /\ glob' \in [Threads -> BOOLEAN]
      /\ \A u \in Threads : u # t => glob'[u] = glob[u]
  BY <1>1, CallsTyped
<1>3. CallTypes'
  BY <1>1, <1>2, CallsTyped DEF CallTypes
<1>4. UNCHANGED <<started, stopRequested, apc>>
  BY <1>1 DEF serverVars, acceptVars
<1>5. CallInv'
  BY <1>1, <1>2, <1>4, ServersAreThreads DEF LifecycleInv, CallInv
<1> QED
  BY <1>1, <1>3, <1>5, CallMoves

-----------------------------------------------------------------------------
(* The invariant.                                                          *)

LEMMA LifecycleInvInit == Init => LifecycleInv
<1> SUFFICES ASSUME Init PROVE LifecycleInv
  OBVIOUS
<1>1. ServerTypes
  BY DEF Init, ServerTypes
<1>2. AcceptTypes
  <2>1. queue \in [Servers -> Seq(Conns)]
    BY EmptySeq DEF Init
  <2> QED
    BY <2>1 DEF Init, AcceptTypes, AcceptorPlaces
<1>3. ConnTypes
  BY DEF Init, ConnTypes, ConnPlaces
<1>4. CallTypes
  <2>1. (CHOOSE s \in Servers : TRUE) \in Servers
    BY LifecycleAssumption
  <2> QED
    BY <2>1 DEF Init, CallTypes, CallPlaces
<1>5. StageInv
  BY DEF Init, StageInv, Opening, Ending
<1>6. CallInv
  BY ServersAreThreads DEF Init, CallInv
<1>7. HandInv
  BY DEF Init, HandInv
<1>8. LineInv
  BY EmptySeq DEF Init, LineInv
<1>9. CountInv
  <2>1. ASSUME NEW s \in Servers
        PROVE  Of(s, Counted) = {} /\ Of(s, OnceCounted) = {} /\ activeConnections[s] = 0
    BY DEF Init, Of, Counted, OnceCounted
  <2>2. Cardinality({}) = 0
    BY FS_EmptySet
  <2> QED
    BY <2>1, <2>2 DEF CountInv
<1>10. ServedInv
  BY LifecycleAssumption DEF Init, ServedInv
<1>11. QuietInv
  BY DEF Init, QuietInv, Kept, InWork
<1> QED
  BY <1>1, <1>2, <1>3, <1>4, <1>5, <1>6, <1>7, <1>8, <1>9, <1>10, <1>11 DEF LifecycleInv, Types

LEMMA LifecycleInvStutters == LifecycleInv /\ UNCHANGED vars => LifecycleInv'
<1> SUFFICES ASSUME LifecycleInv, UNCHANGED vars PROVE LifecycleInv'
  OBVIOUS
<1>1. UNCHANGED <<serverVars, acceptVars, connVars>>
  BY DEF vars
<1>2. UNCHANGED <<sd, target, glob, rest, globalShutdownRequested, started, stopRequested, apc>>
  BY DEF vars, callVars, serverVars, acceptVars
<1>3. CallTypes' /\ CallInv'
  BY <1>2, CallKept, CallsTyped DEF CallTypes
<1> QED
  BY <1>1, <1>3, CallMoves

LEMMA AcceptorKeeps ==
  ASSUME LifecycleInv, NEW s \in Servers,
         AcceptorStep(s) \/ StartListen(s) \/ StartFails(s) \/ AcceptFails(s)
  PROVE  LifecycleInv'
  BY StartListenKeeps, StartPoolKeeps, LoopTestKeeps, GlobalTestKeeps, AcceptReturnsKeeps,
     AcceptKeeps, SubmitKeeps, DrainKeeps, CompleteKeeps, PoolShutdownKeeps DEF AcceptorStep

LEMMA WorkerKeeps ==
  ASSUME LifecycleInv, NEW c \in Conns, WorkerStep(c) \/ PoolTake(c) \/ Connect(c)
  PROVE  LifecycleInv'
  BY CountInKeeps, LoopTopKeeps, ReceiveKeeps, RespondKeeps, LeaveKeeps, PoolTakeKeeps,
     ConnectKeeps DEF WorkerStep

LEMMA CallKeeps ==
  ASSUME LifecycleInv, NEW t \in Threads, CallStep(t)
  PROVE  LifecycleInv'
  BY ShutdownStoreKeeps, ShutdownCloseKeeps, ShutdownWaitKeeps, GlobalLoopKeeps,
     GlobalReturnsKeeps DEF CallStep

LEMMA LifecycleInvNext == LifecycleInv /\ [Next]_vars => LifecycleInv'
  BY LifecycleInvStutters, AcceptorKeeps, WorkerKeeps, CallKeeps, CallShutdownKeeps,
     RequestGlobalKeeps, ServersAreThreads DEF Next

LEMMA LifecycleInvariant == Spec => []LifecycleInv
  BY LifecycleInvInit, LifecycleInvNext, PTL DEF Spec, Safety

\* For any number of servers, clients and threads: the flags, the socket, the
\* hands and the line hold what they may, the counter of active connections
\* stays between 0 and the number of connections, and no connection is served
\* more than one request past its limit.
THEOREM LifecycleTypeOK == Spec => []TypeOK
<1>1. ASSUME LifecycleInv PROVE TypeOK
  <2>1. \A s \in Servers : activeConnections[s] \in 0 .. Cardinality(Conns)
    <3> SUFFICES ASSUME NEW s \in Servers
                 PROVE  activeConnections[s] \in 0 .. Cardinality(Conns)
      OBVIOUS
    <3>1. activeConnections[s] \in Nat /\ activeConnections[s] <= Cardinality(Of(s, OnceCounted))
      BY <1>1, CountersTyped DEF LifecycleInv, CountInv
    <3>2. /\ Cardinality(Of(s, OnceCounted)) \in Nat /\ Cardinality(Conns) \in Nat
          /\ Cardinality(Of(s, OnceCounted)) <= Cardinality(Conns)
      BY OfFinite, LifecycleAssumption, FS_CardinalityType
    <3> QED
      BY <3>1, <3>2
  <2>2. \A c \in Conns : served[c] \in 0 .. MaxRequests + 1
    BY <1>1, CountersTyped, LifecycleAssumption DEF LifecycleInv, ServedInv
  <2>3. /\ activeConnections \in [Servers -> 0 .. Cardinality(Conns)]
        /\ served \in [Conns -> 0 .. MaxRequests + 1]
    BY <1>1, <2>1, <2>2, CountersTyped
  <2> QED
    BY <1>1, <2>3 DEF LifecycleInv, Types, ServerTypes, AcceptTypes, ConnTypes, CallTypes, TypeOK,
       AcceptorPlaces, ConnPlaces, CallPlaces
<1> QED
  BY <1>1, LifecycleInvariant, PTL

\* For any number of clients, however their connections end: the counter that
\* the drain waits on never falls below the handlers that run.
THEOREM LifecycleNoUndercount == Spec => []NoUndercount
<1>1. LifecycleInv => NoUndercount
  BY DEF LifecycleInv, CountInv, NoUndercount
<1> QED
  BY <1>1, LifecycleInvariant, PTL

\* When start() returns nothing it accepted is left in its hands, in the pool's
\* line or with a worker.
THEOREM LifecycleDoneIsQuiet == Spec => []DoneIsQuiet
<1>1. ASSUME LifecycleInv, NEW s \in Servers, apc[s] = "done"
      PROVE  /\ accepted[s] = NoConn /\ queue[s] = <<>>
             /\ Of(s, {"accepted", "queued"} \cup InWork) = {}
  <2>1. accepted[s] = NoConn
    BY <1>1 DEF LifecycleInv, HandInv
  <2>2. Of(s, {"accepted", "queued"} \cup InWork) = {}
    BY <1>1 DEF LifecycleInv, QuietInv, Kept, Of
  <2>3. queue[s] \in Seq(Conns) /\ Len(queue[s]) \in Nat
    BY <1>1, LenProperties DEF LifecycleInv, Types, AcceptTypes
  <2>4. Len(queue[s]) = 0
    <3>1. ASSUME Len(queue[s]) > 0 PROVE FALSE
      <4>1. 1 \in 1 .. Len(queue[s])
        BY <2>3, <3>1
      <4>2. /\ queue[s][1] \in Conns /\ conn[queue[s][1]] = "queued"
            /\ home[queue[s][1]] = s
        BY <1>1, <2>3, <4>1, ElementOfSeq DEF LifecycleInv, LineInv
      <4> QED
        BY <1>1, <4>2 DEF LifecycleInv, QuietInv, Kept
    <3> QED
      BY <2>3, <3>1
  <2> QED
    BY <2>1, <2>2, <2>3, <2>4, EmptySeq
<1>2. LifecycleInv => DoneIsQuiet
  BY <1>1 DEF DoneIsQuiet
<1> QED
  BY <1>2, LifecycleInvariant, PTL

-----------------------------------------------------------------------------
(* Reports.                                                                *)

LEMMA OnlyReportReports == Next => UNCHANGED report \/ \E s \in Servers : Report(s)
<1> SUFFICES ASSUME Next PROVE UNCHANGED report \/ \E s \in Servers : Report(s)
  OBVIOUS
<1>1. ASSUME NEW s \in Servers, AcceptorStep(s) PROVE UNCHANGED report \/ Report(s)
  <2>1. CASE StartPool(s) \/ LoopTest(s) \/ GlobalTest(s) \/ AcceptBlocks(s) \/ AcceptOnClosed(s)
             \/ Submit(s) \/ DrainFinishes(s) \/ DrainExpires(s) \/ Complete(s) \/ PoolShutdown(s)
    BY <2>1 DEF StartPool, LoopTest, GlobalTest, AcceptBlocks, AcceptOnClosed, AcceptError, Submit,
       DrainFinishes, DrainExpires, Complete, PoolShutdown
  <2>2. CASE \E c \in Conns : AcceptReturns(s, c)
    BY <2>2 DEF AcceptReturns
  <2> QED
    BY <1>1, <2>1, <2>2 DEF AcceptorStep
<1>2. ASSUME NEW s \in Servers, StartListen(s) \/ StartFails(s) \/ AcceptFails(s)
      PROVE  UNCHANGED report
  BY <1>2 DEF StartListen, StartFails, AcceptFails, AcceptError
<1>3. ASSUME NEW c \in Conns, WorkerStep(c) \/ PoolTake(c) \/ Connect(c) PROVE UNCHANGED report
  BY <1>3 DEF WorkerStep, CountIn, LoopTop, Receive, EarlyReturn, Respond, Leave, PoolTake,
     Connect, acceptVars
<1>4. ASSUME NEW t \in Threads, CallStep(t) PROVE UNCHANGED report
  BY <1>4 DEF CallStep, ShutdownStore, ShutdownClose, ShutdownWait, GlobalLoop, GlobalReturns,
     acceptVars
<1>5. ASSUME NEW t \in Stoppers, NEW s \in Servers, CallShutdown(t, s) PROVE UNCHANGED report
  BY <1>5 DEF CallShutdown, acceptVars
<1>6. ASSUME NEW t \in SignalThreads, RequestGlobalShutdown(t) PROVE UNCHANGED report
  BY <1>6 DEF RequestGlobalShutdown, acceptVars
<1> QED
  BY <1>1, <1>2, <1>3, <1>4, <1>5, <1>6 DEF Next

\* "All requests finished" is said only when no handler is running, although
\* the counter is read once more after the drain has read it.
THEOREM LifecycleFinishedMeansIdle == Spec => FinishedMeansIdle
<1>1. ASSUME LifecycleInv, [Next]_vars, NEW s \in Servers, report'[s] = "finished",
             report[s] = "none"
      PROVE  Of(s, Counted) = {}
  <2>1. ~UNCHANGED report
    BY <1>1
  <2>2. PICK r \in Servers : Report(r)
    BY <1>1, <2>1, OnlyReportReports DEF vars, acceptVars
  <2>3. report' = [report EXCEPT ![r] =
                     IF activeConnections[r] = 0 THEN "finished" ELSE "forced"]
    BY <2>2 DEF Report
  <2>4. r = s /\ activeConnections[s] = 0
    BY <1>1, <2>3, ReportType
  <2>5. Cardinality(Of(s, Counted)) \in Nat /\ Cardinality(Of(s, Counted)) <= 0
    BY <1>1, <2>4, OfFinite DEF LifecycleInv, CountInv
  <2> QED
    BY <2>5, OfFinite, FS_EmptySet
<1>2. LifecycleInv /\ [Next]_vars =>
        [\A s \in Servers :
           report'[s] = "finished" /\ report[s] = "none" => Of(s, Counted) = {}]_vars
  BY <1>1
<1> QED
  BY <1>2, LifecycleInvariant, PTL DEF Spec, Safety, FinishedMeansIdle

-----------------------------------------------------------------------------
(* Every server is a graceful one.                                         *)

\* Where the accept loop has passed its test of stopRequested.
Passed == {"global", "accept", "blocked"}

LEMMA GracefulStays ==
  ASSUME NEW r \in Servers, started'[r] = started[r], stopRequested'[r] = stopRequested[r],
         stopCompleted'[r] = stopCompleted[r], apc'[r] = apc[r],
         listener'[r] = "open" <=> listener[r] = "open", Of(r, Kept)' = Of(r, Kept)
  PROVE  [Graceful(r)!Next]_(Graceful(r)!vars)
<1>1. Phase(r)' = Phase(r)
  BY DEF Phase
<1>2. Admitting(r)' = Admitting(r)
  BY DEF Admitting
<1>3. (listener[r] = "open")' = (listener[r] = "open")
  OBVIOUS
<1>4. UNCHANGED Graceful(r)!vars
  BY <1>1, <1>2, <1>3 DEF Graceful!vars, Kept
<1> QED
  BY <1>4

LEMMA KeptStays ==
  ASSUME NEW r, UNCHANGED home, \A c \in Conns : conn'[c] \in Kept <=> conn[c] \in Kept
  PROVE  Of(r, Kept)' = Of(r, Kept)
  BY DEF Of

\* The loop goes round: the server may settle.
LEMMA GracefulTurns ==
  ASSUME LifecycleInv, NEW r \in Servers, UNCHANGED serverVars,
         apc[r] \notin {"idle", "listen", "failed", "join", "done"},
         apc'[r] \notin {"failed", "done"},
         stopRequested[r] /\ apc'[r] \in Passed => apc[r] \in Passed, Of(r, Kept)' = Of(r, Kept)
  PROVE  [Graceful(r)!Next]_(Graceful(r)!vars)
<1>1. UNCHANGED <<started, stopRequested, stopCompleted, listener>>
  BY DEF serverVars
<1>2. started[r] /\ ~stopCompleted[r]
  BY DEF LifecycleInv, StageInv, Opening
<1>3. Phase(r)' = Phase(r)
  BY <1>1 DEF Phase
<1>4. (listener[r] = "open")' = (listener[r] = "open")
  BY <1>1
<1>5. CASE stopRequested[r] /\ apc[r] \in Passed /\ apc'[r] \notin Passed
  <2>1. Phase(r) = "stopping" /\ Admitting(r) /\ Admitting(r)' = FALSE
    BY <1>1, <1>2, <1>5 DEF Phase, Admitting, Passed
  <2>2. Graceful(r)!Settle
    BY <1>3, <1>4, <2>1 DEF Graceful!Settle, Kept
  <2> QED
    BY <2>2 DEF Graceful!Next
<1>6. CASE ~(stopRequested[r] /\ apc[r] \in Passed /\ apc'[r] \notin Passed)
  <2>1. Admitting(r)' = Admitting(r)
    BY <1>1, <1>2, <1>6 DEF Admitting, Passed
  <2> QED
    BY <1>3, <1>4, <2>1 DEF Graceful!vars, Kept
<1> QED
  BY <1>5, <1>6

\* What start() does outside of its loop, one abstract step each.
LEMMA GracefulStarts ==
  ASSUME LifecycleInv, NEW s \in Servers, StartListen(s) \/ StartFails(s) \/ StartPool(s)
  PROVE  Graceful(s)!Next
<1>1. /\ apc \in [Servers -> AcceptorPlaces] /\ started \in [Servers -> BOOLEAN]
      /\ listener \in [Servers -> {"none", "open", "closed"}]
  BY DEF LifecycleInv, Types, ServerTypes, AcceptTypes
<1>2. /\ UNCHANGED <<conn, home, stopRequested, stopCompleted>>
  BY DEF StartListen, StartFails, StartPool, connVars
<1>3. Of(s, Kept)' = Of(s, Kept)
  BY <1>2, KeptStays
<1>4. ~started[s] /\ ~stopRequested[s]
  BY DEF LifecycleInv, StageInv, Opening, StartListen, StartFails, StartPool, AcceptorAt
<1>5. CASE StartListen(s)
  <2>1. /\ apc[s] = "idle" /\ apc'[s] = "listen" /\ listener'[s] = "open"
        /\ started' = started
    BY <1>1, <1>5 DEF StartListen, AcceptorGoes
  <2>2. listener[s] = "none"
    BY <2>1 DEF LifecycleInv, StageInv
  <2>3. Phase(s) = "idle" /\ Phase(s)' = "idle" /\ Admitting(s)' = Admitting(s)
    BY <1>2, <1>4, <2>1 DEF Phase, Admitting
  <2>4. Graceful(s)!Listen
    BY <1>3, <2>1, <2>2, <2>3 DEF Graceful!Listen, Kept
  <2> QED
    BY <2>4 DEF Graceful!Next
<1>6. CASE StartFails(s)
  <2>1. /\ apc[s] = "idle" /\ apc'[s] = "failed" /\ listener'[s] = "closed"
        /\ started' = started
    BY <1>1, <1>6 DEF StartFails, AcceptorGoes
  <2>2. Phase(s) = "idle" /\ Phase(s)' = "failed" /\ Admitting(s)' = Admitting(s)
    BY <1>2, <1>4, <2>1 DEF Phase, Admitting
  <2>3. Graceful(s)!Fail
    BY <1>3, <2>1, <2>2 DEF Graceful!Fail, Kept
  <2> QED
    BY <2>3 DEF Graceful!Next
<1>7. CASE StartPool(s)
  <2>1. /\ apc[s] = "listen" /\ apc'[s] = "loop" /\ listener' = listener /\ started'[s]
    BY <1>1, <1>7 DEF StartPool, AcceptorAt, AcceptorGoes
  <2>2. listener[s] = "open"
    BY <2>1 DEF LifecycleInv, StageInv
  <2>3. Phase(s) = "idle" /\ Phase(s)' = "open" /\ Admitting(s)' = TRUE
    BY <1>2, <1>4, <2>1 DEF Phase, Admitting
  <2>4. Graceful(s)!Open
    BY <1>3, <2>1, <2>2, <2>3 DEF Graceful!Open, Kept
  <2> QED
    BY <2>4 DEF Graceful!Next
<1> QED
  BY <1>5, <1>6, <1>7

LEMMA GracefulEnds ==
  ASSUME LifecycleInv, NEW s \in Servers, Complete(s) \/ PoolShutdown(s)
  PROVE  Graceful(s)!Next
<1>1. apc \in [Servers -> AcceptorPlaces] /\ stopCompleted \in [Servers -> BOOLEAN]
  BY DEF LifecycleInv, Types, ServerTypes, AcceptTypes
<1>2. UNCHANGED <<conn, home, started, stopRequested, listener>>
  BY DEF Complete, PoolShutdown, connVars, serverVars
<1>3. Of(s, Kept)' = Of(s, Kept)
  BY <1>2, KeptStays
<1>4. CASE Complete(s)
  <2>1. apc[s] = "complete" /\ apc'[s] = "join" /\ stopCompleted'[s]
    BY <1>1, <1>4 DEF Complete, AcceptorAt, AcceptorGoes
  <2>2. started[s] /\ stopRequested[s] /\ ~stopCompleted[s]
    BY <2>1 DEF LifecycleInv, StageInv, Opening, Ending
  <2>3. /\ Phase(s) = "stopping" /\ Phase(s)' = "complete"
        /\ Admitting(s) = FALSE /\ Admitting(s)' = FALSE
    BY <1>2, <2>1, <2>2 DEF Phase, Admitting
  <2>4. Graceful(s)!Complete
    BY <1>2, <1>3, <2>3 DEF Graceful!Complete, Kept
  <2> QED
    BY <2>4 DEF Graceful!Next
<1>5. CASE PoolShutdown(s)
  <2>1. /\ apc[s] = "join" /\ apc'[s] = "done" /\ stopCompleted' = stopCompleted
        /\ queue[s] = <<>> /\ Of(s, InWork) = {}
    BY <1>1, <1>5 DEF PoolShutdown, AcceptorAt, AcceptorGoes, serverVars
  <2>2. started[s] /\ stopRequested[s] /\ stopCompleted[s]
    BY <2>1 DEF LifecycleInv, StageInv, Opening, Ending
  <2>3. /\ Phase(s) = "complete" /\ Phase(s)' = "down"
        /\ Admitting(s) = FALSE /\ Admitting(s)' = FALSE
    BY <1>2, <2>1, <2>2 DEF Phase, Admitting
  <2>4. Of(s, Kept) = {}
    BY <2>1, NothingKept
  <2>5. Graceful(s)!GoDown
    BY <1>2, <1>3, <2>3, <2>4 DEF Graceful!GoDown, Kept
  <2> QED
    BY <2>5 DEF Graceful!Next
<1> QED
  BY <1>4, <1>5

LEMMA GracefulAdmits ==
  ASSUME LifecycleInv, NEW s \in Servers, NEW c \in Conns, AcceptReturns(s, c)
  PROVE  Graceful(s)!Next
<1>1. /\ apc[s] \in {"accept", "blocked"} /\ ~Busy(s)
      /\ home[c] = s /\ conn[c] = "backlog"
      /\ apc'[s] = "submit" /\ conn'[c] = "accepted"
      /\ \A d \in Conns : d # c =>
           conn'[d] = conn[d] \/ (conn[d] = "backlog" /\ conn'[d] = "reset")
      /\ UNCHANGED <<started, stopRequested, stopCompleted, listener, home>>
  BY AcceptReturnsFacts
<1>2. started[s] /\ ~stopCompleted[s]
  BY <1>1 DEF LifecycleInv, StageInv, Opening
<1>3. Admitting(s) = TRUE /\ Admitting(s)' = (Phase(s) = "open") /\ Phase(s)' = Phase(s)
  BY <1>1, <1>2 DEF Phase, Admitting
<1>4. c \notin Of(s, Kept)
  BY <1>1 DEF Of, Kept, InWork
<1>5. Of(s, Kept)' = Of(s, Kept) \cup {c}
  <2>1. "accepted" \in Kept /\ "backlog" \notin Kept /\ "reset" \notin Kept
    BY DEF Kept, InWork
  <2> QED
    BY <1>1, <2>1 DEF Of
<1>6. Graceful(s)!Admit(c)
  BY <1>1, <1>3, <1>4, <1>5 DEF Graceful!Admit, Kept
<1> QED
  BY <1>6 DEF Graceful!Next

\* For the other servers the steps of s are none.
LEMMA GracefulAcceptor ==
  ASSUME LifecycleInv, NEW s \in Servers, NEW r \in Servers,
         AcceptorStep(s) \/ StartListen(s) \/ StartFails(s) \/ AcceptFails(s)
  PROVE  [Graceful(r)!Next]_(Graceful(r)!vars)
<1>1. /\ apc \in [Servers -> AcceptorPlaces] /\ started \in [Servers -> BOOLEAN]
      /\ stopCompleted \in [Servers -> BOOLEAN] /\ conn \in [Conns -> ConnPlaces]
      /\ listener \in [Servers -> {"none", "open", "closed"}]
  BY DEF LifecycleInv, Types, ServerTypes, AcceptTypes, ConnTypes
<1>2. CASE StartListen(s) \/ StartFails(s) \/ StartPool(s)
  <2>1. CASE r # s
    <3>1. /\ UNCHANGED <<conn, home, stopRequested, stopCompleted>>
          /\ apc'[r] = apc[r] /\ started'[r] = started[r] /\ listener'[r] = listener[r]
      BY <1>1, <1>2, <2>1 DEF StartListen, StartFails, StartPool, AcceptorGoes, connVars
    <3> QED
      BY <3>1, GracefulStays, KeptStays
  <2> QED
    BY <1>2, <2>1, GracefulStarts
<1>3. CASE Complete(s) \/ PoolShutdown(s)
  <2>1. CASE r # s
    <3>1. /\ UNCHANGED <<conn, home, started, stopRequested, listener>>
          /\ apc'[r] = apc[r] /\ stopCompleted'[r] = stopCompleted[r]
      BY <1>1, <1>3, <2>1 DEF Complete, PoolShutdown, AcceptorGoes, connVars, serverVars
    <3> QED
      BY <3>1, GracefulStays, KeptStays
  <2> QED
    BY <1>3, <2>1, GracefulEnds
<1>4. ASSUME NEW c \in Conns, AcceptReturns(s, c)
      PROVE  [Graceful(r)!Next]_(Graceful(r)!vars)
  <2>1. CASE r # s
    <3>1. /\ UNCHANGED <<started, stopRequested, stopCompleted, listener, home>>
          /\ apc'[r] = apc[r] /\ home[c] = s
          /\ conn[c] = "backlog" /\ conn'[c] = "accepted"
          /\ \A d \in Conns : d # c =>
               conn'[d] = conn[d] \/ (conn[d] = "backlog" /\ conn'[d] = "reset")
      BY <1>4, <2>1, AcceptReturnsFacts
    <3>2. Of(r, Kept)' = Of(r, Kept)
      BY <2>1, <3>1 DEF Of, Kept, InWork
    <3> QED
      BY <3>1, <3>2, GracefulStays
  <2> QED
    BY <1>4, <2>1, GracefulAdmits
<1>5. CASE Submit(s)
  <2>1. /\ apc[s] = "submit" /\ AcceptorGoes(s, "loop")
        /\ conn' = [conn EXCEPT ![accepted[s]] = "queued"] /\ UNCHANGED <<serverVars, home>>
    BY <1>5 DEF Submit, AcceptorAt
  <2>2. accepted[s] \in Conns /\ conn[accepted[s]] = "accepted"
    BY <2>1 DEF LifecycleInv, HandInv
  <2>3. Of(r, Kept)' = Of(r, Kept)
    BY <1>1, <2>1, <2>2, KeptStays DEF Kept
  <2>4. CASE r = s
    <3>1. apc[r] = "submit" /\ apc'[r] = "loop"
      BY <1>1, <2>1, <2>4 DEF AcceptorGoes
    <3> QED
      BY <2>1, <2>3, <3>1, GracefulTurns DEF Passed
  <2>5. CASE r # s
    <3>1. apc'[r] = apc[r] /\ UNCHANGED <<started, stopRequested, stopCompleted, listener>>
      BY <1>1, <2>1, <2>5 DEF AcceptorGoes, serverVars
    <3> QED
      BY <2>3, <3>1, GracefulStays
  <2> QED
    BY <2>4, <2>5
<1>6. CASE LoopTest(s) \/ GlobalTest(s) \/ AcceptBlocks(s) \/ AcceptOnClosed(s) \/ AcceptFails(s)
           \/ DrainFinishes(s) \/ DrainExpires(s) \/ Report(s)
  <2>1. /\ UNCHANGED <<serverVars, connVars>>
        /\ apc[s] \in {"loop", "global", "accept", "blocked", "drain", "report"}
        /\ \/ UNCHANGED apc
           \/ \E at \in {"drain", "report", "complete"} : AcceptorGoes(s, at)
           \/ apc[s] \in Passed /\ \E at \in {"accept", "blocked", "loop"} : AcceptorGoes(s, at)
           \/ ~stopRequested[s] /\ \E at \in {"global", "loop"} : AcceptorGoes(s, at)
    BY <1>6 DEF LoopTest, GlobalTest, AcceptBlocks, AcceptOnClosed, AcceptFails, AcceptError,
       DrainFinishes, DrainExpires, Report, AcceptorAt, Passed
  <2>2. UNCHANGED <<started, stopRequested, stopCompleted, listener, conn, home>>
    BY <2>1 DEF serverVars, connVars
  <2>3. Of(r, Kept)' = Of(r, Kept)
    BY <2>2, KeptStays
  <2>4. CASE r = s
    <3>1. /\ apc'[r] \notin {"failed", "done"}
          /\ stopRequested[r] /\ apc'[r] \in Passed => apc[r] \in Passed
      BY <1>1, <2>1, <2>4 DEF AcceptorGoes, Passed
    <3> QED
      BY <2>1, <2>3, <2>4, <3>1, GracefulTurns
  <2>5. CASE r # s
    <3>1. apc'[r] = apc[r]
      BY <1>1, <2>1, <2>5 DEF AcceptorGoes
    <3> QED
      BY <2>2, <2>3, <3>1, GracefulStays
  <2> QED
    BY <2>4, <2>5
<1> QED
  BY <1>2, <1>3, <1>4, <1>5, <1>6 DEF AcceptorStep

LEMMA GracefulWorker ==
  ASSUME LifecycleInv, NEW c \in Conns, NEW r \in Servers,
         WorkerStep(c) \/ PoolTake(c) \/ Connect(c)
  PROVE  [Graceful(r)!Next]_(Graceful(r)!vars)
<1>1. conn \in [Conns -> ConnPlaces] /\ home \in [Conns -> Servers]
  BY DEF LifecycleInv, Types, ConnTypes
<1>2. UNCHANGED <<started, stopRequested, stopCompleted, listener, apc, home>>
  BY DEF WorkerStep, CountIn, LoopTop, Receive, EarlyReturn, Respond, Leave, PoolTake, Connect,
     serverVars, acceptVars
<1>3. CASE CountIn(c) \/ LoopTop(c) \/ Receive(c) \/ Respond(c)
  <2>1. conn[c] \in InWork /\ \E at \in InWork : ConnGoes(c, at)
    BY <1>3 DEF CountIn, LoopTop, Receive, Respond, WorkerAt, InWork
  <2>2. Of(r, Kept)' = Of(r, Kept)
    BY <1>1, <1>2, <2>1, KeptStays DEF ConnGoes, Kept
  <2> QED
    BY <1>2, <2>2, GracefulStays
<1>4. CASE PoolTake(c)
  <2>1. ConnGoes(c, "taken") /\ queue[home[c]] # <<>> /\ c = Head(queue[home[c]])
    BY <1>4 DEF PoolTake
  <2>2. conn[c] = "queued"
    <3>1. queue[home[c]] \in Seq(Conns) /\ Len(queue[home[c]]) \in Nat
      BY <1>1, LenProperties DEF LifecycleInv, Types, AcceptTypes
    <3>2. 1 \in 1 .. Len(queue[home[c]]) /\ queue[home[c]][1] = c
      BY <2>1, <3>1, EmptySeq, HeadTailProperties
    <3> QED
      BY <1>1, <3>2 DEF LifecycleInv, LineInv
  <2>3. Of(r, Kept)' = Of(r, Kept)
    BY <1>1, <1>2, <2>1, <2>2, KeptStays DEF ConnGoes, Kept, InWork
  <2> QED
    BY <1>2, <2>3, GracefulStays
<1>5. CASE Connect(c)
  <2>1. conn[c] = "new" /\ ConnGoes(c, "backlog")
    BY <1>5 DEF Connect
  <2>2. Of(r, Kept)' = Of(r, Kept)
    BY <1>1, <1>2, <2>1, KeptStays DEF ConnGoes, Kept, InWork
  <2> QED
    BY <1>2, <2>2, GracefulStays
<1>6. CASE EarlyReturn(c) \/ Leave(c)
  <2>1. conn[c] \in InWork /\ conn'[c] = "closed" /\ \A d \in Conns : d # c => conn'[d] = conn[d]
    BY <1>1, <1>6 DEF EarlyReturn, Leave, WorkerAt, ConnGoes, InWork
  <2>2. CASE r = home[c]
    <3>1. c \in Of(r, Kept) /\ Of(r, Kept)' = Of(r, Kept) \ {c}
      BY <1>2, <2>1, <2>2 DEF Of, Kept, InWork
    <3>2. Phase(r)' = Phase(r) /\ Admitting(r)' = Admitting(r)
      BY <1>2 DEF Phase, Admitting
    <3>3. Graceful(r)!LetGo(c)
      BY <1>2, <3>1, <3>2 DEF Graceful!LetGo, Kept
    <3> QED
      BY <3>3 DEF Graceful!Next
  <2>3. CASE r # home[c]
    <3>1. Of(r, Kept)' = Of(r, Kept)
      BY <1>2, <2>1, <2>3 DEF Of
    <3> QED
      BY <1>2, <3>1, GracefulStays
  <2> QED
    BY <2>2, <2>3
<1> QED
  BY <1>3, <1>4, <1>5, <1>6 DEF WorkerStep

LEMMA GracefulCall ==
  ASSUME LifecycleInv, NEW t \in Threads, NEW r \in Servers, CallStep(t)
  PROVE  [Graceful(r)!Next]_(Graceful(r)!vars)
<1>1. target \in [Threads -> Servers] /\ target[t] \in Servers
  BY CallsTyped
<1>2. CASE ShutdownStore(t)
  <2>1. /\ sd[t] = "store" /\ stopRequested' = [stopRequested EXCEPT ![target[t]] = TRUE]
        /\ UNCHANGED <<started, stopCompleted, listener, apc, conn, home>>
    BY <1>2 DEF ShutdownStore, acceptVars, connVars
  <2>2. Of(r, Kept)' = Of(r, Kept)
    BY <2>1, KeptStays
  <2>3. stopRequested \in [Servers -> BOOLEAN]
    BY DEF LifecycleInv, Types, ServerTypes
  <2>4. CASE r # target[t] \/ stopRequested[r]
    <3>1. stopRequested'[r] = stopRequested[r]
      BY <1>1, <2>1, <2>3, <2>4
    <3> QED
      BY <2>1, <2>2, <3>1, GracefulStays
  <2>5. CASE r = target[t] /\ ~stopRequested[r]
    <3>1. started[r]
      BY <2>1, <2>5 DEF LifecycleInv, CallInv
    <3>2. apc[r] \notin Opening /\ apc[r] \notin Ending /\ ~stopCompleted[r]
      BY <2>5, <3>1 DEF LifecycleInv, StageInv, Ending
    <3>3. stopRequested'[r]
      BY <1>1, <2>1, <2>3, <2>5
    <3>4. Phase(r) = "open" /\ Phase(r)' = "stopping"
      BY <2>1, <2>5, <3>1, <3>2, <3>3 DEF Phase, Opening
    <3>5. Admitting(r)' \in BOOLEAN
      <4>1. Admitting(r)' = (apc[r] \in Passed)
        BY <2>1, <3>1, <3>3 DEF Admitting, Passed
      <4> QED
        BY <4>1
    <3>6. Graceful(r)!Stop
      BY <2>1, <2>2, <3>4, <3>5 DEF Graceful!Stop, Kept
    <3> QED
      BY <3>6 DEF Graceful!Next
  <2> QED
    BY <2>4, <2>5
<1>3. CASE ShutdownClose(t)
  <2>1. /\ sd[t] = "close" /\ listener' = [listener EXCEPT ![target[t]] = "closed"]
        /\ UNCHANGED <<started, stopRequested, stopCompleted, apc, home>>
    BY <1>3 DEF ShutdownClose, acceptVars
  <2>2. \A c \in Conns : conn'[c] = conn[c] \/ (conn[c] = "backlog" /\ conn'[c] = "reset")
    BY <1>3 DEF ShutdownClose, Backlog, Of
  <2>3. Of(r, Kept)' = Of(r, Kept)
    BY <2>1, <2>2, KeptStays DEF Kept, InWork
  <2>4. listener \in [Servers -> {"none", "open", "closed"}]
    BY DEF LifecycleInv, Types, ServerTypes
  <2>5. CASE r = target[t] /\ listener[r] = "open"
    <3>1. listener'[r] = "closed" /\ started[r] /\ stopRequested[r]
      BY <2>1, <2>4, <2>5 DEF LifecycleInv, CallInv
    <3>2. apc[r] # "failed"
      BY <3>1 DEF LifecycleInv, StageInv, Opening
    <3>3. Phase(r) \in {"stopping", "complete", "down"}
      BY <3>1, <3>2 DEF Phase
    <3>4. Phase(r)' = Phase(r) /\ Admitting(r)' = Admitting(r)
      BY <2>1 DEF Phase, Admitting
    <3>5. Graceful(r)!Shut
      BY <2>3, <2>5, <3>1, <3>3, <3>4 DEF Graceful!Shut, Kept
    <3> QED
      BY <3>5 DEF Graceful!Next
  <2>6. CASE ~(r = target[t] /\ listener[r] = "open")
    <3>1. listener'[r] = "open" <=> listener[r] = "open"
      BY <1>1, <2>1, <2>4, <2>6
    <3> QED
      BY <2>1, <2>3, <3>1, GracefulStays
  <2> QED
    BY <2>5, <2>6
<1>4. CASE ShutdownWait(t) \/ GlobalLoop(t) \/ GlobalReturns(t)
  <2>1. UNCHANGED <<serverVars, acceptVars, connVars>>
    BY <1>4, ShutdownWaitKeeps DEF GlobalLoop, GlobalReturns
  <2>2. UNCHANGED <<started, stopRequested, stopCompleted, listener, apc, conn, home>>
    BY <2>1 DEF serverVars, acceptVars, connVars
  <2> QED
    BY <2>2, KeptStays, GracefulStays
<1> QED
  BY <1>2, <1>3, <1>4 DEF CallStep

LEMMA GracefulNext ==
  ASSUME LifecycleInv, NEW r \in Servers, [Next]_vars
  PROVE  [Graceful(r)!Next]_(Graceful(r)!vars)
<1>1. CASE /\ UNCHANGED <<started, stopRequested, stopCompleted, listener, apc, conn, home>>
  BY <1>1, KeptStays, GracefulStays
<1>2. ASSUME UNCHANGED vars
      PROVE  UNCHANGED <<started, stopRequested, stopCompleted, listener, apc, conn, home>>
  BY <1>2 DEF vars, serverVars, acceptVars, connVars
<1>3. ASSUME NEW t \in Stoppers, NEW s \in Servers, CallShutdown(t, s)
      PROVE  UNCHANGED <<started, stopRequested, stopCompleted, listener, apc, conn, home>>
  BY <1>3 DEF CallShutdown, serverVars, acceptVars, connVars
<1>4. ASSUME NEW t \in SignalThreads, RequestGlobalShutdown(t)
      PROVE  UNCHANGED <<started, stopRequested, stopCompleted, listener, apc, conn, home>>
  BY <1>4 DEF RequestGlobalShutdown, serverVars, acceptVars, connVars
<1> QED
  BY <1>1, <1>2, <1>3, <1>4, GracefulAcceptor, GracefulWorker, GracefulCall DEF Next

LEMMA GracefulInit ==
  ASSUME Init, NEW r \in Servers
  PROVE  Graceful(r)!Init
<1>1. /\ apc[r] = "idle" /\ ~started[r] /\ listener[r] = "none"
      /\ \A c \in Conns : conn[c] = "new"
  BY DEF Init
<1>2. Phase(r) = "idle" /\ Admitting(r) = FALSE
  BY <1>1 DEF Phase, Admitting
<1>3. Of(r, Kept) = {}
  BY <1>1 DEF Of, Kept, InWork
<1> QED
  BY <1>1, <1>2, <1>3 DEF Graceful!Init, Kept

\* Every server is a GracefulServer, whatever threads and signals do: the
\* initial states map to its initial states and every step to a step of it or
\* to none.
THEOREM LifecycleImplementsGraceful == Spec => ImplementsGraceful
<1>1. Init => \A s \in Servers : Graceful(s)!Init
  BY GracefulInit
<1>2. LifecycleInv /\ [Next]_vars =>
        [\A s \in Servers : [Graceful(s)!Next]_(Graceful(s)!vars)]_vars
  BY GracefulNext
<1> QED
  BY <1>1, <1>2, LifecycleInvariant, PTL DEF Spec, Safety, ImplementsGraceful

===============================================================================
