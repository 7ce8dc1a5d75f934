------------------------------- MODULE Ratelimit -------------------------------
(***************************************************************************)
(* Ratelimit.h: allowRequest and cleanup on one shared table, called from  *)
(* many workers.  Both read the clock before they take the mutex, so the   *)
(* table is updated with stamps that may be old and out of order.          *)
(*                                                                         *)
(* Time is counted in seconds: the code compares whole seconds, rounded    *)
(* down, with whole seconds.                                               *)
(***************************************************************************)
EXTENDS Integers, Sequences, FiniteSets

CONSTANTS
  Callers,      \* threads that run the middleware
  Keys,         \* client addresses
  maxRequests,  \* requests allowed in a window
  timePeriod,   \* seconds a window lasts
  Ttl,          \* ttlSeconds the program passes to cleanup
  MaxStall,     \* bound: seconds a thread may wait for the mutex
  MaxTime       \* bound: seconds the clock runs

ASSUME RatelimitAssumption ==
  /\ maxRequests \in Nat /\ timePeriod \in Nat \ {0} /\ Ttl \in Nat \ {0}
  /\ MaxStall \in Nat /\ MaxTime \in Nat
  /\ Keys # {}

VARIABLES
  clock,   \* steady_clock
  data,    \* state->data, a function of the keys that have an entry
  pc,      \* pc[t]: "idle", or "lock" between the clock and the mutex
  key,     \* key[t]: the key t asks for
  now,     \* now[t]: the time t has read
  sweep,   \* the same for the thread in cleanup: its stamp, or -1
  grants,  \* history: grants[k]: when requests of k were allowed, in which window
  refused  \* history: the last refusal, a set of at most one record

vars == <<clock, data, pc, key, now, sweep, grants, refused>>

Entry == [requestCount : 0 .. maxRequests, windowStart : 0 .. MaxTime, lastSeen : 0 .. MaxTime]

TypeOK ==
  /\ clock \in 0 .. MaxTime
  /\ DOMAIN data \subseteq Keys /\ \A k \in DOMAIN data : data[k] \in Entry
  /\ pc \in [Callers -> {"idle", "lock"}]
  /\ key \in [Callers -> Keys]
  /\ now \in [Callers -> 0 .. MaxTime]
  /\ sweep \in -1 .. MaxTime
  /\ grants \in [Keys -> Seq([at : 0 .. MaxTime, window : 0 .. MaxTime])]
  /\ refused \subseteq [key : Keys, now : 0 .. MaxTime, windowStart : 0 .. MaxTime]

Init ==
  /\ clock = 0
  /\ data = [k \in {} |-> 0]
  /\ pc = [t \in Callers |-> "idle"]
  /\ key \in [Callers -> {CHOOSE k \in Keys : TRUE}]
  /\ now = [t \in Callers |-> 0]
  /\ sweep = -1
  /\ grants = [k \in Keys |-> <<>>]
  /\ refused = {}

\* Time passes, but for nobody waiting for the mutex longer than MaxStall.
Tick ==
  /\ clock < MaxTime
  /\ \A t \in Callers : pc[t] = "lock" => clock < now[t] + MaxStall
  /\ sweep # -1 => clock < sweep + MaxStall
  /\ clock' = clock + 1
  /\ UNCHANGED <<data, pc, key, now, sweep, grants, refused>>

\* operator() has found the client's address; allowRequest reads the clock.
ReadClock(t, k) ==
  /\ pc[t] = "idle"
  /\ pc' = [pc EXCEPT ![t] = "lock"]
  /\ key' = [key EXCEPT ![t] = k]
  /\ now' = [now EXCEPT ![t] = clock]
  /\ UNCHANGED <<clock, data, sweep, grants, refused>>

\* data[key]: a new entry's window starts at the time of its construction.
Found(k) ==
  IF k \in DOMAIN data
    THEN data[k]
    ELSE [requestCount |-> 0, windowStart |-> clock, lastSeen |-> clock]

\* A plausible slip: a new window starts, and the count goes on.
MutTouched(e, n) ==
  IF n - e.windowStart >= timePeriod
    THEN [e EXCEPT !.windowStart = n, !.lastSeen = n]
    ELSE [e EXCEPT !.lastSeen = n]

\* lastSeen is set, and the window is restarted when it has run out.
Touched(e, n) ==
  IF n - e.windowStart >= timePeriod
    THEN [requestCount |-> 0, windowStart |-> n, lastSeen |-> n]
    ELSE [e EXCEPT !.lastSeen = n]

Put(k, e) == data' = [j \in DOMAIN data \cup {k} |-> IF j = k THEN e ELSE data[j]]

Grant(k, e) ==
  grants' = [grants EXCEPT ![k] = Append(grants[k], [at |-> clock, window |-> e.windowStart])]

\* A plausible slip: the window's first request is not counted.
MutAllow(t) ==
  LET k == key[t]
      e == Touched(Found(k), now[t]) IN
  /\ pc[t] = "lock"
  /\ e.requestCount < maxRequests
  /\ Put(k, IF e.windowStart = now[t] THEN e
                                      ELSE [e EXCEPT !.requestCount = e.requestCount + 1])
  /\ Grant(k, e)
  /\ pc' = [pc EXCEPT ![t] = "idle"]
  /\ UNCHANGED <<clock, key, now, sweep, refused>>

\* A plausible slip: one request too many.
MutAllowOneMore(t) ==
  LET k == key[t]
      e == Touched(Found(k), now[t]) IN
  /\ pc[t] = "lock"
  /\ e.requestCount <= maxRequests
  /\ Put(k, [e EXCEPT !.requestCount = e.requestCount + 1])
  /\ Grant(k, e)
  /\ pc' = [pc EXCEPT ![t] = "idle"]
  /\ UNCHANGED <<clock, key, now, sweep, refused>>

Allow(t) ==
  LET k == key[t]
      e == Touched(Found(k), now[t]) IN
  /\ pc[t] = "lock"
  /\ e.requestCount < maxRequests
  /\ Put(k, [e EXCEPT !.requestCount = e.requestCount + 1])
  /\ Grant(k, e)
  /\ pc' = [pc EXCEPT ![t] = "idle"]
  /\ UNCHANGED <<clock, key, now, sweep, refused>>

\* 429: the entry is kept as touched.
Refuse(t) ==
  LET k == key[t]
      e == Touched(Found(k), now[t]) IN
  /\ pc[t] = "lock"
  /\ e.requestCount >= maxRequests
  /\ Put(k, e)
  /\ refused' = {[key |-> k, now |-> now[t], windowStart |-> e.windowStart]}
  /\ pc' = [pc EXCEPT ![t] = "idle"]
  /\ UNCHANGED <<clock, key, now, sweep, grants>>

CleanupReadClock ==
  /\ sweep = -1
  /\ sweep' = clock
  /\ UNCHANGED <<clock, data, pc, key, now, grants, refused>>

\* A plausible slip: the comparison is the wrong way round.
MutCleanup ==
  /\ sweep # -1
  /\ data' = [k \in { j \in DOMAIN data : sweep - data[j].lastSeen >= Ttl } |-> data[k]]
  /\ sweep' = -1
  /\ UNCHANGED <<clock, pc, key, now, grants, refused>>

\* Entries not seen for Ttl seconds are erased.
Cleanup ==
  /\ sweep # -1
  /\ data' = [k \in { j \in DOMAIN data : sweep - data[j].lastSeen < Ttl } |-> data[k]]
  /\ sweep' = -1
  /\ UNCHANGED <<clock, pc, key, now, grants, refused>>

Next ==
  \/ Tick
  \/ \E t \in Callers : Allow(t) \/ Refuse(t) \/ \E k \in Keys : ReadClock(t, k)
  \/ CleanupReadClock \/ Cleanup

Spec == Init /\ [][Next]_vars

-----------------------------------------------------------------------------
(* Properties.                                                             *)

\* Grants to k from second "from" on, for "long" seconds.
GrantsIn(k, from, long) ==
  { i \in DOMAIN grants[k] : from <= grants[k][i].at /\ grants[k][i].at < from + long }

\* In no timePeriod, less what a thread may stall before the mutex, does a
\* client get more than two windows' worth of requests: stamps that come late or
\* out of order hand out no third one, nor does cleanup when it is told to forget
\* clients after a window and a stall.
RateBound ==
  Ttl >= timePeriod + MaxStall =>
    \A k \in Keys, from \in 0 .. clock :
      Cardinality(GrantsIn(k, from, timePeriod - MaxStall)) <= 2 * maxRequests

\* A client is refused only after maxRequests grants in a window that began
\* less than timePeriod before its request came.
RefusedOnlyWhenFull ==
  \A r \in refused :
    /\ r.now < r.windowStart + timePeriod
    /\ Cardinality({ i \in DOMAIN grants[r.key] : r.windowStart <= grants[r.key][i].at })
         >= maxRequests

\* cleanup, told to forget clients after a window and a stall, forgets nobody
\* whose window still runs, and so gives no client a second quota in it.
CleanupKeepsWindows ==
  [][Ttl >= timePeriod + MaxStall =>
       \A k \in DOMAIN data : k \notin DOMAIN data' =>
         clock >= data[k].windowStart + timePeriod]_vars

=============================================================================
