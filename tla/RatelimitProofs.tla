---------------------------- MODULE RatelimitProofs ----------------------------
(***************************************************************************)
(* What Ratelimit.tla guarantees for any number of threads and clients,    *)
(* any limit and any period.  A stamp is at most MaxStall old when it is   *)
(* used, hence a window never starts in the future and never much after    *)
(* its entry was last seen; an entry's count is the number of grants of    *)
(* its window; and the windows of a client lie at least a period apart.    *)
(***************************************************************************)
EXTENDS Ratelimit, TLAPS, FiniteSetTheorems, SequenceTheorems

Grants == [at : 0 .. MaxTime, window : 0 .. MaxTime]

\* The entry as allowRequest finds it for t, past lastSeen and the window's end.
Current(t) == Touched(Found(key[t]), now[t])

InWindow(k, w) == { i \in DOMAIN grants[k] : grants[k][i].window = w }
Since(k, w) == { i \in DOMAIN grants[k] : w <= grants[k][i].at }

\* Stamps are from the past, and from the last MaxStall seconds.
StampInv ==
  /\ \A t \in Callers : pc[t] = "lock" => now[t] <= clock /\ clock <= now[t] + MaxStall
  /\ sweep <= clock

\* An entry counts no request that was not granted since its window started.
Honest(k, e) ==
  /\ e.windowStart <= clock
  /\ e.windowStart <= e.lastSeen + MaxStall
  /\ e.requestCount <= Cardinality(Since(k, e.windowStart))

EntryInv == \A k \in DOMAIN data : Honest(k, data[k])

\* e is the latest window of k, and has counted all of its grants.
Latest(k, e) ==
  /\ \A i \in DOMAIN grants[k] :
       \/ grants[k][i].window = e.windowStart
       \/ grants[k][i].window + timePeriod <= e.windowStart
  /\ Cardinality(InWindow(k, e.windowStart)) <= e.requestCount

\* Windows lie timePeriod apart, hold maxRequests grants each, none of which
\* comes later than a stall after its end; and a forgotten one has ended.
Windows(k) ==
  /\ \A i \in DOMAIN grants[k] :
       /\ grants[k][i].window <= grants[k][i].at
       /\ grants[k][i].at < grants[k][i].window + timePeriod + MaxStall
  /\ \A i, j \in DOMAIN grants[k] :
       \/ grants[k][i].window = grants[k][j].window
       \/ grants[k][i].window + timePeriod <= grants[k][j].window
       \/ grants[k][j].window + timePeriod <= grants[k][i].window
  /\ \A w \in 0 .. MaxTime : Cardinality(InWindow(k, w)) <= maxRequests
  /\ k \in DOMAIN data => Latest(k, data[k])
  /\ k \notin DOMAIN data =>
       \A i \in DOMAIN grants[k] : grants[k][i].window + timePeriod <= clock

WindowInv == Ttl >= timePeriod + MaxStall => \A k \in Keys : Windows(k)

-----------------------------------------------------------------------------
(* The sequences of grants and the table.                                  *)

LEMMA GrantsFinite ==
  ASSUME TypeOK, NEW k \in Keys
  PROVE  /\ grants[k] \in Seq(Grants)
         /\ Len(grants[k]) \in Nat /\ DOMAIN grants[k] = 1 .. Len(grants[k])
         /\ \A i \in DOMAIN grants[k] : grants[k][i] \in Grants
         /\ \A S \in SUBSET DOMAIN grants[k] : IsFiniteSet(S) /\ Cardinality(S) \in Nat
<1>1. grants[k] \in Seq(Grants)
  BY DEF TypeOK, Grants
<1>2. Len(grants[k]) \in Nat /\ DOMAIN grants[k] = 1 .. Len(grants[k])
  BY <1>1, LenProperties
<1>3. \A i \in DOMAIN grants[k] : grants[k][i] \in Grants
  BY <1>1, <1>2, ElementOfSeq
<1>4. ASSUME NEW S \in SUBSET DOMAIN grants[k]
      PROVE  IsFiniteSet(S) /\ Cardinality(S) \in Nat
  <2>1. IsFiniteSet(DOMAIN grants[k])
    BY <1>2, FS_Interval
  <2>2. IsFiniteSet(S)
    BY <2>1, FS_Subset
  <2> QED
    BY <2>2, FS_CardinalityType
<1> QED
  BY <1>1, <1>2, <1>3, <1>4

LEMMA GrantFields ==
  ASSUME NEW g \in Grants
  PROVE  g.at \in 0 .. MaxTime /\ g.window \in 0 .. MaxTime
  BY DEF Grants

LEMMA EntryFields ==
  ASSUME NEW e \in Entry
  PROVE  /\ e.requestCount \in 0 .. maxRequests
         /\ e.windowStart \in 0 .. MaxTime /\ e.lastSeen \in 0 .. MaxTime
  BY DEF Entry

\* One more grant for k.
LEMMA GrantAppended ==
  ASSUME TypeOK, NEW k \in Keys, NEW e \in Entry, Grant(k, e)
  PROVE  LET n == Len(grants[k]) + 1
             g == [at |-> clock, window |-> e.windowStart] IN
         /\ grants' \in [Keys -> Seq(Grants)]
         /\ \A j \in Keys : j # k => grants'[j] = grants[j]
         /\ DOMAIN grants'[k] = DOMAIN grants[k] \cup {n} /\ n \notin DOMAIN grants[k]
         /\ \A i \in DOMAIN grants[k] : grants'[k][i] = grants[k][i]
         /\ grants'[k][n] = g /\ g \in Grants
<1> DEFINE n == Len(grants[k]) + 1
           g == [at |-> clock, window |-> e.windowStart]
<1>1. g \in Grants
  <2>1. clock \in 0 .. MaxTime /\ e.windowStart \in 0 .. MaxTime
    BY EntryFields DEF TypeOK
  <2> QED
    BY <2>1 DEF Grants
<1>2. grants \in [Keys -> Seq(Grants)]
  BY DEF TypeOK, Grants
<1>3. grants' = [grants EXCEPT ![k] = Append(grants[k], g)]
  BY DEF Grant
<1> HIDE DEF g
<1>4. /\ Append(grants[k], g) \in Seq(Grants)
      /\ Len(Append(grants[k], g)) = n
      /\ \A i \in 1 .. Len(grants[k]) : Append(grants[k], g)[i] = grants[k][i]
      /\ Append(grants[k], g)[n] = g
  BY <1>1, <1>2, AppendProperties
<1>5. grants'[k] = Append(grants[k], g) /\ \A j \in Keys : j # k => grants'[j] = grants[j]
  BY <1>2, <1>3
<1>6. grants' \in [Keys -> Seq(Grants)]
  BY <1>2, <1>3, <1>4
<1>7. Len(grants[k]) \in Nat /\ DOMAIN grants[k] = 1 .. Len(grants[k])
  BY <1>2, LenProperties
<1>8. DOMAIN grants'[k] = 1 .. n
  BY <1>4, <1>5, LenProperties
<1>9. DOMAIN grants'[k] = DOMAIN grants[k] \cup {n} /\ n \notin DOMAIN grants[k]
  BY <1>7, <1>8
<1> QED
  BY <1>1, <1>4, <1>5, <1>6, <1>7, <1>9 DEF g

LEMMA PutEntry ==
  ASSUME TypeOK, NEW k \in Keys, NEW e \in Entry, Put(k, e)
  PROVE  /\ DOMAIN data' = DOMAIN data \cup {k} /\ DOMAIN data' \subseteq Keys
         /\ data'[k] = e
         /\ \A j \in DOMAIN data : j # k => data'[j] = data[j]
         /\ \A j \in DOMAIN data' : data'[j] \in Entry
<1>1. DOMAIN data \subseteq Keys /\ \A j \in DOMAIN data : data[j] \in Entry
  BY DEF TypeOK
<1> QED
  BY <1>1 DEF Put

\* The entry is the one found, a window started anew, or a new one.
LEMMA CurrentForms ==
  ASSUME TypeOK, StampInv, NEW t \in Callers, pc[t] = "lock"
  PROVE  LET k == key[t]
             e == Current(t) IN
         /\ k \in Keys /\ now[t] \in 0 .. MaxTime /\ clock \in 0 .. MaxTime
         /\ e \in Entry /\ e.lastSeen = now[t]
         /\ \/ /\ k \in DOMAIN data /\ now[t] < data[k].windowStart + timePeriod
               /\ e.windowStart = data[k].windowStart /\ e.requestCount = data[k].requestCount
            \/ /\ k \in DOMAIN data /\ now[t] >= data[k].windowStart + timePeriod
               /\ e.windowStart = now[t] /\ e.requestCount = 0
            \/ /\ k \notin DOMAIN data
               /\ e.windowStart = clock /\ e.requestCount = 0
<1> DEFINE k == key[t]
           n == now[t]
           e == Current(t)
<1>1. /\ k \in Keys /\ n \in 0 .. MaxTime /\ clock \in 0 .. MaxTime
      /\ n <= clock
  BY DEF TypeOK, StampInv
<1>2. CASE k \in DOMAIN data
  <2>1. data[k] \in Entry
    BY <1>2 DEF TypeOK
  <2>2. data[k].windowStart \in 0 .. MaxTime
    BY <2>1, EntryFields
  <2>3. CASE n - data[k].windowStart >= timePeriod
    <3>1. e = [requestCount |-> 0, windowStart |-> n, lastSeen |-> n]
      BY <1>2, <2>3 DEF Current, Touched, Found
    <3>2. e \in Entry
      BY <3>1, <1>1, RatelimitAssumption DEF Entry
    <3>3. n >= data[k].windowStart + timePeriod
      BY <2>2, <2>3, <1>1, RatelimitAssumption
    <3> QED
      BY <1>1, <1>2, <3>1, <3>2, <3>3
  <2>4. CASE ~(n - data[k].windowStart >= timePeriod)
    <3>1. e = [data[k] EXCEPT !.lastSeen = n]
      BY <1>2, <2>4 DEF Current, Touched, Found
    <3>2. /\ e \in Entry /\ e.lastSeen = n
          /\ e.windowStart = data[k].windowStart /\ e.requestCount = data[k].requestCount
      BY <3>1, <2>1, <1>1 DEF Entry
    <3>3. n < data[k].windowStart + timePeriod
      BY <2>2, <2>4, <1>1, RatelimitAssumption
    <3> QED
      BY <1>1, <1>2, <3>2, <3>3
  <2> QED
    BY <2>3, <2>4
<1>3. CASE k \notin DOMAIN data
  <2>1. Found(k) = [requestCount |-> 0, windowStart |-> clock, lastSeen |-> clock]
    BY <1>3 DEF Found
  <2>2. ~(n - clock >= timePeriod)
    BY <1>1, RatelimitAssumption
  <2>3. e = [Found(k) EXCEPT !.lastSeen = n]
    BY <2>1, <2>2 DEF Current, Touched
  <2>4. e = [requestCount |-> 0, windowStart |-> clock, lastSeen |-> n]
    BY <2>1, <2>3
  <2>5. e \in Entry
    BY <2>4, <1>1, RatelimitAssumption DEF Entry
  <2> QED
    BY <1>1, <1>3, <2>4, <2>5
<1> QED
  BY <1>2, <1>3

\* The entry that Allow leaves behind.
Counted(t) == [Current(t) EXCEPT !.requestCount = Current(t).requestCount + 1]

LEMMA AllowMeans ==
  ASSUME NEW t \in Callers, Allow(t)
  PROVE  /\ pc[t] = "lock" /\ Current(t).requestCount < maxRequests
         /\ Put(key[t], Counted(t)) /\ Grant(key[t], Current(t))
         /\ pc' = [pc EXCEPT ![t] = "idle"]
         /\ UNCHANGED <<clock, key, now, sweep, refused>>
  BY DEF Allow, Current, Counted

LEMMA RefuseMeans ==
  ASSUME NEW t \in Callers, Refuse(t)
  PROVE  /\ pc[t] = "lock" /\ Current(t).requestCount >= maxRequests
         /\ Put(key[t], Current(t))
         /\ refused' = {[key |-> key[t], now |-> now[t], windowStart |-> Current(t).windowStart]}
         /\ pc' = [pc EXCEPT ![t] = "idle"]
         /\ UNCHANGED <<clock, key, now, sweep, grants>>
  BY DEF Refuse, Current

LEMMA CountedEntry ==
  ASSUME NEW t \in Callers, Current(t) \in Entry, Current(t).requestCount < maxRequests
  PROVE  /\ Counted(t) \in Entry
         /\ Counted(t).requestCount = Current(t).requestCount + 1
         /\ Counted(t).windowStart = Current(t).windowStart
         /\ Counted(t).lastSeen = Current(t).lastSeen
<1> DEFINE e == Current(t)
<1>1. e.requestCount + 1 \in 0 .. maxRequests
  BY EntryFields, RatelimitAssumption
<1> HIDE DEF e
<1>2. Counted(t) = [e EXCEPT !.requestCount = e.requestCount + 1]
  BY DEF Counted, e
<1>3. e \in Entry
  BY DEF e
<1>4. /\ Counted(t) \in Entry
      /\ Counted(t).requestCount = e.requestCount + 1
      /\ Counted(t).windowStart = e.windowStart
      /\ Counted(t).lastSeen = e.lastSeen
  BY <1>1, <1>2, <1>3 DEF Entry
<1> QED
  BY <1>4 DEF e

LEMMA CleanupMeans ==
  ASSUME TypeOK, Cleanup
  PROVE  /\ DOMAIN data' \subseteq DOMAIN data
         /\ \A k \in DOMAIN data' : data'[k] = data[k]
         /\ \A k \in DOMAIN data : k \notin DOMAIN data' => ~(sweep - data[k].lastSeen < Ttl)
         /\ sweep \in 0 .. MaxTime /\ sweep' = -1
  BY DEF Cleanup, TypeOK

-----------------------------------------------------------------------------
(* Types and stamps.                                                       *)

LEMMA TypeInit == Init => TypeOK /\ StampInv
<1> SUFFICES ASSUME Init PROVE TypeOK /\ StampInv
  OBVIOUS
<1>1. key \in [Callers -> Keys]
  <2>1. (CHOOSE k \in Keys : TRUE) \in Keys
    BY RatelimitAssumption
  <2> QED
    BY <2>1 DEF Init
<1>2. 0 \in 0 .. MaxTime
  BY RatelimitAssumption
<1>3. grants \in [Keys -> Seq(Grants)]
  <2>1. <<>> \in Seq(Grants)
    BY EmptySeq
  <2> QED
    BY <2>1 DEF Init
<1>4. StampInv
  BY DEF Init, StampInv
<1>5. DOMAIN data = {} /\ clock = 0 /\ sweep = -1 /\ refused = {}
      /\ pc = [t \in Callers |-> "idle"] /\ now = [t \in Callers |-> 0]
  BY DEF Init
<1>6. pc \in [Callers -> {"idle", "lock"}] /\ now \in [Callers -> 0 .. MaxTime]
      /\ sweep \in -1 .. MaxTime
  BY <1>2, <1>5, RatelimitAssumption
<1>7. DOMAIN data \subseteq Keys /\ \A k \in DOMAIN data : data[k] \in Entry
  BY <1>5
<1> QED
  BY <1>1, <1>2, <1>3, <1>4, <1>5, <1>6, <1>7 DEF TypeOK, Grants

LEMMA TypeNext == TypeOK /\ StampInv /\ [Next]_vars => TypeOK' /\ StampInv'
<1> SUFFICES ASSUME TypeOK, StampInv, [Next]_vars PROVE TypeOK' /\ StampInv'
  OBVIOUS
<1>1. /\ clock \in 0 .. MaxTime
      /\ pc \in [Callers -> {"idle", "lock"}] /\ key \in [Callers -> Keys]
      /\ now \in [Callers -> 0 .. MaxTime] /\ sweep \in -1 .. MaxTime
      /\ MaxTime \in Nat /\ MaxStall \in Nat
  BY RatelimitAssumption DEF TypeOK
<1>2. ASSUME Tick PROVE TypeOK' /\ StampInv'
  <2>1. clock' \in 0 .. MaxTime
    BY <1>1, <1>2 DEF Tick
  <2>2. TypeOK'
    BY <1>2, <2>1 DEF TypeOK, Tick
  <2>3. ASSUME NEW t \in Callers, pc'[t] = "lock"
        PROVE  now'[t] <= clock' /\ clock' <= now'[t] + MaxStall
    <3>1. pc[t] = "lock" /\ now'[t] = now[t] /\ clock' = clock + 1 /\ clock < now[t] + MaxStall
      BY <1>2, <2>3 DEF Tick
    <3>2. now[t] \in 0 .. MaxTime /\ now[t] <= clock
      BY <1>1, <3>1 DEF StampInv
    <3> QED
      BY <1>1, <3>1, <3>2
  <2>4. sweep' <= clock'
    BY <1>1, <1>2 DEF Tick, StampInv
  <2> QED
    BY <2>2, <2>3, <2>4 DEF StampInv
<1>3. ASSUME NEW t \in Callers, NEW k \in Keys, ReadClock(t, k) PROVE TypeOK' /\ StampInv'
  <2>1. pc' \in [Callers -> {"idle", "lock"}] /\ key' \in [Callers -> Keys]
        /\ now' \in [Callers -> 0 .. MaxTime]
    BY <1>1, <1>3 DEF ReadClock
  <2>2. TypeOK'
    BY <1>3, <2>1 DEF TypeOK, ReadClock
  <2>3. ASSUME NEW u \in Callers, pc'[u] = "lock"
        PROVE  now'[u] <= clock' /\ clock' <= now'[u] + MaxStall
    <3>1. CASE u = t
      <4>1. now'[u] = clock /\ clock' = clock
        BY <1>1, <1>3, <3>1 DEF ReadClock
      <4> QED
        BY <1>1, <4>1
    <3>2. CASE u # t
      <4>1. now'[u] = now[u] /\ clock' = clock /\ pc[u] = "lock"
        BY <1>1, <1>3, <2>3, <3>2 DEF ReadClock
      <4> QED
        BY <4>1 DEF StampInv
    <3> QED
      BY <3>1, <3>2
  <2> QED
    BY <1>3, <2>2, <2>3 DEF StampInv, ReadClock
<1>4. ASSUME NEW t \in Callers, Allow(t) PROVE TypeOK' /\ StampInv'
  <2> USE <1>4
  <2>1. /\ pc[t] = "lock" /\ key[t] \in Keys
        /\ Current(t) \in Entry /\ Counted(t) \in Entry
    BY AllowMeans, CurrentForms, CountedEntry
  <2>2. DOMAIN data' \subseteq Keys /\ \A j \in DOMAIN data' : data'[j] \in Entry
    BY <2>1, AllowMeans, PutEntry
  <2>3. grants' \in [Keys -> Seq(Grants)]
    BY <2>1, AllowMeans, GrantAppended
  <2>4. pc' = [pc EXCEPT ![t] = "idle"] /\ UNCHANGED <<clock, key, now, sweep, refused>>
    BY AllowMeans
  <2>5. pc' \in [Callers -> {"idle", "lock"}] /\ \A u \in Callers : pc'[u] = "lock" => pc[u] = "lock"
    BY <1>1, <2>4
  <2>6. TypeOK'
    BY <2>2, <2>3, <2>4, <2>5 DEF TypeOK, Grants
  <2> QED
    BY <2>4, <2>5, <2>6 DEF StampInv
<1>5. ASSUME NEW t \in Callers, Refuse(t) PROVE TypeOK' /\ StampInv'
  <2> USE <1>5
  <2>1. /\ pc[t] = "lock" /\ key[t] \in Keys /\ now[t] \in 0 .. MaxTime
        /\ Current(t) \in Entry
    BY RefuseMeans, CurrentForms
  <2>2. DOMAIN data' \subseteq Keys /\ \A j \in DOMAIN data' : data'[j] \in Entry
    BY <2>1, RefuseMeans, PutEntry
  <2>3. refused' \subseteq [key : Keys, now : 0 .. MaxTime, windowStart : 0 .. MaxTime]
    <3>1. Current(t).windowStart \in 0 .. MaxTime
      BY <2>1, EntryFields
    <3> QED
      BY <2>1, <3>1, RefuseMeans
  <2>4. pc' = [pc EXCEPT ![t] = "idle"] /\ UNCHANGED <<clock, key, now, sweep, grants>>
    BY RefuseMeans
  <2>5. pc' \in [Callers -> {"idle", "lock"}] /\ \A u \in Callers : pc'[u] = "lock" => pc[u] = "lock"
    BY <1>1, <2>4
  <2>6. TypeOK'
    BY <2>2, <2>3, <2>4, <2>5 DEF TypeOK
  <2> QED
    BY <2>4, <2>5, <2>6 DEF StampInv
<1>6. ASSUME CleanupReadClock PROVE TypeOK' /\ StampInv'
  <2>1. sweep' = clock /\ UNCHANGED <<clock, data, pc, key, now, grants, refused>>
    BY <1>6 DEF CleanupReadClock
  <2>2. sweep' \in -1 .. MaxTime /\ sweep' <= clock'
    BY <1>1, <2>1
  <2> QED
    BY <2>1, <2>2 DEF TypeOK, StampInv
<1>7. ASSUME Cleanup PROVE TypeOK' /\ StampInv'
  <2>1. UNCHANGED <<clock, pc, key, now, grants, refused>>
    BY <1>7 DEF Cleanup
  <2>2. DOMAIN data' \subseteq Keys /\ \A j \in DOMAIN data' : data'[j] \in Entry
    BY <1>7, CleanupMeans DEF TypeOK
  <2>3. sweep' = -1 /\ sweep' \in -1 .. MaxTime /\ sweep' <= clock'
    BY <1>1, <1>7, <2>1, CleanupMeans
  <2> QED
    BY <2>1, <2>2, <2>3 DEF TypeOK, StampInv
<1>8. CASE UNCHANGED vars
  BY <1>8 DEF vars, TypeOK, StampInv
<1> QED
  BY <1>2, <1>3, <1>4, <1>5, <1>6, <1>7, <1>8 DEF Next

\* The table holds well-formed entries and no count is above the limit, for
\* any number of threads.
THEOREM RatelimitTypeOK == Spec => []TypeOK
  BY TypeInit, TypeNext, PTL DEF Spec

-----------------------------------------------------------------------------
(* What an entry says of the grants.                                       *)

\* A step that does not touch grants keeps every count.
LEMMA SinceKept ==
  ASSUME UNCHANGED grants
  PROVE  \A k, w : Since(k, w)' = Since(k, w) /\ InWindow(k, w)' = InWindow(k, w)
  BY DEF Since, InWindow

\* A grant is counted in its window, and takes nothing from any other count.
LEMMA GrantCounts ==
  ASSUME TypeOK, NEW k \in Keys, NEW e \in Entry, Grant(k, e)
  PROVE  /\ \A j \in Keys : \A w : Cardinality(Since(j, w)) <= Cardinality(Since(j, w)')
         /\ \A w : w <= clock =>
              Cardinality(Since(k, w)') = Cardinality(Since(k, w)) + 1
         /\ \A j \in Keys : \A w : j # k \/ w # e.windowStart => InWindow(j, w)' = InWindow(j, w)
         /\ Cardinality(InWindow(k, e.windowStart)') = Cardinality(InWindow(k, e.windowStart)) + 1
<1> DEFINE n == Len(grants[k]) + 1
<1>1. /\ \A j \in Keys : j # k => grants'[j] = grants[j]
      /\ DOMAIN grants'[k] = DOMAIN grants[k] \cup {n} /\ n \notin DOMAIN grants[k]
      /\ \A i \in DOMAIN grants[k] : grants'[k][i] = grants[k][i]
      /\ grants'[k][n] = [at |-> clock, window |-> e.windowStart]
  BY GrantAppended, Zenon
<1> HIDE DEF n
<1>2. ASSUME NEW j \in Keys, NEW w
      PROVE  /\ IsFiniteSet(Since(j, w)) /\ Cardinality(Since(j, w)) \in Nat
             /\ IsFiniteSet(InWindow(j, w)) /\ Cardinality(InWindow(j, w)) \in Nat
  BY GrantsFinite DEF Since, InWindow
<1>3. ASSUME NEW j \in Keys, j # k, NEW w
      PROVE  Since(j, w)' = Since(j, w) /\ InWindow(j, w)' = InWindow(j, w)
  BY <1>1, <1>3 DEF Since, InWindow
<1>4. ASSUME NEW w, w <= clock PROVE Since(k, w)' = Since(k, w) \cup {n}
  BY <1>1, <1>4 DEF Since
<1>5. ASSUME NEW w, ~(w <= clock) PROVE Since(k, w)' = Since(k, w)
  BY <1>1, <1>5 DEF Since
<1>6. ASSUME NEW w, w <= clock
      PROVE  Cardinality(Since(k, w)') = Cardinality(Since(k, w)) + 1
  <2>1. n \notin Since(k, w)
    BY <1>1 DEF Since
  <2> QED
    BY <1>2, <1>4, <1>6, <2>1, FS_AddElement
<1>7. ASSUME NEW j \in Keys, NEW w
      PROVE  Cardinality(Since(j, w)) <= Cardinality(Since(j, w)')
  <2>1. CASE j # k
    <3>1. Cardinality(Since(j, w)') = Cardinality(Since(j, w))
      BY <1>3, <2>1
    <3> QED
      BY <1>2, <3>1
  <2>2. CASE j = k /\ w <= clock
    <3>1. Cardinality(Since(j, w)') = Cardinality(Since(j, w)) + 1
      BY <1>6, <2>2
    <3> QED
      BY <1>2, <3>1
  <2>3. CASE j = k /\ ~(w <= clock)
    <3>1. Cardinality(Since(j, w)') = Cardinality(Since(j, w))
      BY <1>5, <2>3
    <3> QED
      BY <1>2, <3>1
  <2> QED
    BY <2>1, <2>2, <2>3
<1>8. ASSUME NEW w, w # e.windowStart PROVE InWindow(k, w)' = InWindow(k, w)
  BY <1>1, <1>8 DEF InWindow
<1>9. Cardinality(InWindow(k, e.windowStart)') = Cardinality(InWindow(k, e.windowStart)) + 1
  <2>1. InWindow(k, e.windowStart)' = InWindow(k, e.windowStart) \cup {n}
    <3> DEFINE w == e.windowStart
    <3>1. { i \in DOMAIN grants'[k] : grants'[k][i].window = w } = InWindow(k, w) \cup {n}
      BY <1>1 DEF InWindow
    <3> QED
      BY <3>1 DEF InWindow
  <2>2. n \notin InWindow(k, e.windowStart)
    BY <1>1 DEF InWindow
  <2> QED
    BY <1>2, <2>1, <2>2, FS_AddElement
<1> QED
  BY <1>3, <1>6, <1>7, <1>8, <1>9

LEMMA CurrentHonest ==
  ASSUME TypeOK, StampInv, EntryInv, NEW t \in Callers, pc[t] = "lock"
  PROVE  Honest(key[t], Current(t)) /\ now[t] < Current(t).windowStart + timePeriod
<1> DEFINE k == key[t]
           n == now[t]
           e == Current(t)
<1>1. /\ k \in Keys /\ n \in 0 .. MaxTime /\ clock \in 0 .. MaxTime
      /\ e \in Entry /\ e.lastSeen = n
  BY CurrentForms
<1>2. /\ e.windowStart \in 0 .. MaxTime /\ e.requestCount \in 0 .. maxRequests
      /\ Cardinality(Since(k, e.windowStart)) \in Nat
  BY <1>1, EntryFields, GrantsFinite DEF Since
<1>3. n <= clock /\ clock <= n + MaxStall
  BY DEF StampInv
<1>4. CASE /\ k \in DOMAIN data /\ n < data[k].windowStart + timePeriod
           /\ e.windowStart = data[k].windowStart /\ e.requestCount = data[k].requestCount
  <2>1. e.windowStart <= clock /\ e.requestCount <= Cardinality(Since(k, e.windowStart))
    BY <1>4 DEF EntryInv, Honest
  <2>2. e.windowStart <= n + MaxStall
    BY <1>1, <1>2, <1>3, <2>1, RatelimitAssumption
  <2> QED
    BY <1>1, <1>4, <2>1, <2>2 DEF Honest
<1>5. CASE e.windowStart = n /\ e.requestCount = 0
  <2>1. e.windowStart <= clock /\ e.windowStart <= n + MaxStall /\ n < e.windowStart + timePeriod
    BY <1>1, <1>3, <1>5, RatelimitAssumption
  <2>2. e.requestCount <= Cardinality(Since(k, e.windowStart))
    BY <1>2, <1>5
  <2> QED
    BY <1>1, <2>1, <2>2 DEF Honest
<1>6. CASE e.windowStart = clock /\ e.requestCount = 0
  <2>1. e.windowStart <= clock /\ e.windowStart <= n + MaxStall /\ n < e.windowStart + timePeriod
    BY <1>1, <1>3, <1>6, RatelimitAssumption
  <2>2. e.requestCount <= Cardinality(Since(k, e.windowStart))
    BY <1>2, <1>6
  <2> QED
    BY <1>1, <2>1, <2>2 DEF Honest
<1> QED
  BY <1>4, <1>5, <1>6, CurrentForms

CountsNat == \A k \in Keys : \A w : Cardinality(Since(k, w)) \in Nat

LEMMA CountsNatNow == TypeOK => CountsNat
  BY GrantsFinite DEF CountsNat, Since

LEMMA CountsNatNext == TypeOK' => CountsNat'
  BY CountsNatNow, PTL

\* The counts never fall.
Monotone == \A j \in Keys : \A w : Cardinality(Since(j, w)) <= Cardinality(Since(j, w)')

LEMMA MonotoneSame == ASSUME TypeOK, UNCHANGED grants PROVE Monotone
<1> SUFFICES ASSUME NEW j \in Keys, NEW w
             PROVE  Cardinality(Since(j, w)) <= Cardinality(Since(j, w)')
  BY DEF Monotone
<1>1. Cardinality(Since(j, w)) \in Nat
  BY GrantsFinite DEF Since
<1>2. Since(j, w)' = Since(j, w)
  BY DEF Since
<1> QED
  BY <1>1, <1>2

LEMMA HonestStays ==
  ASSUME TypeOK, TypeOK', Monotone, clock' \in {clock, clock + 1},
         NEW j \in Keys, NEW e \in Entry, Honest(j, e)
  PROVE  Honest(j, e)'
<1>1. /\ e.windowStart \in 0 .. MaxTime /\ e.requestCount \in 0 .. maxRequests
      /\ clock \in 0 .. MaxTime
  BY EntryFields DEF TypeOK
<1>2. e.windowStart <= clock'
  BY <1>1 DEF Honest
<1>3. Cardinality(Since(j, e.windowStart)) \in Nat
      /\ Cardinality(Since(j, e.windowStart)') \in Nat
  BY CountsNatNow, CountsNatNext DEF CountsNat
<1>4. e.requestCount <= Cardinality(Since(j, e.windowStart)')
  BY <1>1, <1>3 DEF Honest, Monotone
<1> QED
  BY <1>2, <1>4 DEF Honest

\* The count of the entry that a grant leaves behind is still covered.
LEMMA HonestCounted ==
  ASSUME TypeOK, NEW k \in Keys, NEW e \in Entry, NEW c \in Entry, Honest(k, e), Grant(k, e),
         clock' = clock, c.requestCount = e.requestCount + 1, c.windowStart = e.windowStart,
         c.lastSeen = e.lastSeen
  PROVE  Honest(k, c)'
<1>1. e.windowStart <= clock /\ e.requestCount <= Cardinality(Since(k, e.windowStart))
      /\ e.windowStart <= e.lastSeen + MaxStall
  BY DEF Honest
<1>2. Cardinality(Since(k, e.windowStart)') = Cardinality(Since(k, e.windowStart)) + 1
  BY <1>1, GrantCounts
<1>3. Cardinality(Since(k, e.windowStart)) \in Nat /\ e.requestCount \in 0 .. maxRequests
  BY GrantsFinite, EntryFields DEF Since
<1>4. e.requestCount + 1 <= Cardinality(Since(k, e.windowStart)')
  BY <1>1, <1>2, <1>3
<1> QED
  BY <1>1, <1>4 DEF Honest

LEMMA EntryStays ==
  ASSUME TypeOK, TypeOK', EntryInv, Monotone, clock' \in {clock, clock + 1},
         DOMAIN data' \subseteq DOMAIN data, \A k \in DOMAIN data' : data'[k] = data[k]
  PROVE  EntryInv'
<1> SUFFICES ASSUME NEW k \in DOMAIN data' PROVE Honest(k, data[k])'
  BY DEF EntryInv
<1>1. PICK e \in Entry : e = data[k] /\ k \in Keys /\ Honest(k, e)
  BY DEF TypeOK, EntryInv
<1>2. Honest(k, e)'
  BY <1>1, HonestStays
<1>3. data'[k] = e
  BY <1>1
<1> QED
  BY <1>2, <1>3 DEF Honest, Since

LEMMA EntryPut ==
  ASSUME TypeOK, TypeOK', EntryInv, Monotone, clock' = clock,
         NEW k \in Keys, NEW c \in Entry, Put(k, c), Honest(k, c)'
  PROVE  EntryInv'
<1> SUFFICES ASSUME NEW j \in DOMAIN data' PROVE Honest(j, data[j])'
  BY DEF EntryInv
<1>1. /\ DOMAIN data' = DOMAIN data \cup {k} /\ data'[k] = c
      /\ \A i \in DOMAIN data : i # k => data'[i] = data[i]
  BY PutEntry
<1>2. CASE j = k
  BY <1>1, <1>2 DEF Honest, Since
<1>3. CASE j # k
  <2>1. PICK e \in Entry : e = data[j] /\ j \in Keys /\ Honest(j, e)
    BY <1>1, <1>3 DEF TypeOK, EntryInv
  <2>2. Honest(j, e)'
    BY <2>1, HonestStays
  <2>3. data'[j] = e
    BY <1>1, <1>3, <2>1
  <2> QED
    BY <2>2, <2>3 DEF Honest, Since
<1> QED
  BY <1>2, <1>3

LEMMA RefusedStays ==
  ASSUME TypeOK, TypeOK', RefusedOnlyWhenFull, Monotone, refused' = refused
  PROVE  RefusedOnlyWhenFull'
<1> SUFFICES ASSUME NEW r \in refused
             PROVE  /\ r.now < r.windowStart + timePeriod
                    /\ Cardinality(Since(r.key, r.windowStart)') >= maxRequests
  BY DEF RefusedOnlyWhenFull, Since
<1>1. r.now < r.windowStart + timePeriod /\ Cardinality(Since(r.key, r.windowStart)) >= maxRequests
  BY DEF RefusedOnlyWhenFull, Since
<1>2. r.key \in Keys
  <2>1. r \in [key : Keys, now : 0 .. MaxTime, windowStart : 0 .. MaxTime]
    BY DEF TypeOK
  <2> QED
    BY <2>1
<1>3. Cardinality(Since(r.key, r.windowStart)) \in Nat
      /\ Cardinality(Since(r.key, r.windowStart)') \in Nat
  BY <1>2, CountsNatNow, CountsNatNext DEF CountsNat
<1>4. Cardinality(Since(r.key, r.windowStart)) <= Cardinality(Since(r.key, r.windowStart)')
  BY <1>2 DEF Monotone
<1> QED
  BY <1>1, <1>3, <1>4, RatelimitAssumption

LEMMA EntryNext ==
  ASSUME TypeOK, StampInv, EntryInv, RefusedOnlyWhenFull, [Next]_vars
  PROVE  EntryInv' /\ RefusedOnlyWhenFull'
<1>1. TypeOK'
  BY TypeNext
<1>2. ASSUME NEW t \in Callers, Allow(t) PROVE EntryInv' /\ RefusedOnlyWhenFull'
  <2>1. /\ pc[t] = "lock" /\ Current(t).requestCount < maxRequests
        /\ Put(key[t], Counted(t)) /\ Grant(key[t], Current(t))
        /\ clock' = clock /\ refused' = refused
    BY <1>2, AllowMeans
  <2>2. key[t] \in Keys /\ Current(t) \in Entry /\ Honest(key[t], Current(t))
    BY <2>1, CurrentForms, CurrentHonest
  <2>3. /\ Counted(t) \in Entry
        /\ Counted(t).requestCount = Current(t).requestCount + 1
        /\ Counted(t).windowStart = Current(t).windowStart
        /\ Counted(t).lastSeen = Current(t).lastSeen
    BY <2>1, <2>2, CountedEntry
  <2>4. PICK k \in Keys, e \in Entry, c \in Entry :
          /\ Put(k, c) /\ Grant(k, e) /\ Honest(k, e)
          /\ c.requestCount = e.requestCount + 1
          /\ c.windowStart = e.windowStart /\ c.lastSeen = e.lastSeen
    BY <2>1, <2>2, <2>3
  <2>5. Monotone
    BY <2>4, GrantCounts DEF Monotone
  <2>6. Honest(k, c)'
    BY <2>1, <2>4, HonestCounted
  <2> QED
    BY <1>1, <2>1, <2>4, <2>5, <2>6, EntryPut, RefusedStays
<1>3. ASSUME NEW t \in Callers, Refuse(t) PROVE EntryInv' /\ RefusedOnlyWhenFull'
  <2>1. /\ pc[t] = "lock" /\ Current(t).requestCount >= maxRequests
        /\ Put(key[t], Current(t)) /\ UNCHANGED <<clock, grants>>
        /\ refused' = {[key |-> key[t], now |-> now[t], windowStart |-> Current(t).windowStart]}
    BY <1>3, RefuseMeans
  <2>2. /\ key[t] \in Keys /\ Current(t) \in Entry
        /\ Honest(key[t], Current(t)) /\ now[t] < Current(t).windowStart + timePeriod
    BY <2>1, CurrentForms, CurrentHonest
  <2>3. PICK k, e, n :
          /\ k \in Keys /\ e \in Entry
          /\ Put(k, e) /\ Honest(k, e) /\ e.requestCount >= maxRequests
          /\ refused' = {[key |-> k, now |-> n, windowStart |-> e.windowStart]}
          /\ n < e.windowStart + timePeriod
    BY <2>1, <2>2
  <2>4. Monotone
    BY <2>1, MonotoneSame
  <2>5. Honest(k, e)'
    BY <1>1, <2>1, <2>3, <2>4, HonestStays
  <2>6. Cardinality(Since(k, e.windowStart)') >= maxRequests
    <3>1. e.requestCount <= Cardinality(Since(k, e.windowStart)')
      BY <2>5 DEF Honest
    <3>2. e.requestCount \in 0 .. maxRequests /\ Cardinality(Since(k, e.windowStart)') \in Nat
      BY <1>1, <2>3, EntryFields, CountsNatNext DEF CountsNat
    <3> QED
      BY <2>3, <3>1, <3>2, RatelimitAssumption
  <2>7. RefusedOnlyWhenFull'
    <3> SUFFICES ASSUME NEW r \in refused'
                 PROVE  /\ r.now < r.windowStart + timePeriod
                        /\ Cardinality(Since(r.key, r.windowStart)') >= maxRequests
      BY DEF RefusedOnlyWhenFull, Since
    <3>1. r.key = k /\ r.now = n /\ r.windowStart = e.windowStart
      BY <2>3
    <3> QED
      BY <2>3, <2>6, <3>1
  <2> QED
    BY <1>1, <2>1, <2>3, <2>4, <2>5, <2>7, EntryPut
<1>4. ASSUME Cleanup PROVE EntryInv' /\ RefusedOnlyWhenFull'
  <2>1. UNCHANGED <<clock, grants, refused>>
    BY <1>4 DEF Cleanup
  <2> QED
    BY <1>1, <1>4, <2>1, CleanupMeans, MonotoneSame, EntryStays, RefusedStays
<1>5. ASSUME \/ Tick \/ CleanupReadClock \/ UNCHANGED vars
             \/ \E t \in Callers, k \in Keys : ReadClock(t, k)
      PROVE  EntryInv' /\ RefusedOnlyWhenFull'
  <2>1. UNCHANGED <<grants, data, refused>> /\ clock' \in {clock, clock + 1}
    BY <1>5 DEF Tick, CleanupReadClock, vars, ReadClock
  <2>2. Monotone
    BY <2>1, MonotoneSame
  <2>3. DOMAIN data' \subseteq DOMAIN data /\ \A k \in DOMAIN data' : data'[k] = data[k]
    BY <2>1
  <2> QED
    BY <1>1, <2>1, <2>2, <2>3, EntryStays, RefusedStays
<1> QED
  BY <1>2, <1>3, <1>4, <1>5 DEF Next

LEMMA RateInvariant == Spec => [](TypeOK /\ StampInv /\ EntryInv /\ RefusedOnlyWhenFull)
<1>1. Init => EntryInv /\ RefusedOnlyWhenFull
  BY DEF Init, EntryInv, RefusedOnlyWhenFull
<1> QED
  BY <1>1, TypeInit, TypeNext, EntryNext, PTL DEF Spec

\* Whatever the order in which threads get the mutex, and whatever cleanup
\* erases: nobody is refused before its window was used up.
THEOREM RatelimitRefusedOnlyWhenFull == Spec => []RefusedOnlyWhenFull
  BY RateInvariant, PTL

\* Told to forget clients after a window and a stall, cleanup forgets nobody
\* whose window still runs.
THEOREM RatelimitCleanupKeepsWindows == Spec => CleanupKeepsWindows
<1>1. ASSUME TypeOK, StampInv, EntryInv, Next, Ttl >= timePeriod + MaxStall,
             NEW k \in DOMAIN data, k \notin DOMAIN data'
      PROVE  clock >= data[k].windowStart + timePeriod
  <2>1. Cleanup
    <3>1. ASSUME NEW t \in Callers, Allow(t) \/ Refuse(t) PROVE FALSE
      <4>1. DOMAIN data \subseteq DOMAIN data'
        BY <3>1 DEF Allow, Refuse, Put
      <4> QED
        BY <1>1, <4>1
    <3> QED
      BY <1>1, <3>1 DEF Next, Tick, ReadClock, CleanupReadClock
  <2>2. ~(sweep - data[k].lastSeen < Ttl) /\ sweep \in 0 .. MaxTime
    BY <1>1, <2>1, CleanupMeans
  <2>3. data[k].windowStart <= data[k].lastSeen + MaxStall
    BY <1>1 DEF EntryInv, Honest
  <2>4. sweep <= clock /\ clock \in 0 .. MaxTime
    BY <1>1 DEF StampInv, TypeOK
  <2>5. data[k].windowStart \in 0 .. MaxTime /\ data[k].lastSeen \in 0 .. MaxTime
    BY <1>1, EntryFields DEF TypeOK
  <2> QED
    BY <1>1, <2>2, <2>3, <2>4, <2>5, RatelimitAssumption
<1>2. ASSUME TypeOK, StampInv, EntryInv, [Next]_vars
      PROVE  [Ttl >= timePeriod + MaxStall =>
                \A k \in DOMAIN data : k \notin DOMAIN data' =>
                  clock >= data[k].windowStart + timePeriod]_vars
  BY <1>1, <1>2
<1> QED
  BY <1>2, RateInvariant, PTL DEF Spec, CleanupKeepsWindows

-----------------------------------------------------------------------------
(* The windows of a client.                                                *)

\* The window into which t's request falls is the latest of its client.
LEMMA CurrentLatest ==
  ASSUME TypeOK, StampInv, NEW t \in Callers, pc[t] = "lock", Windows(key[t])
  PROVE  Latest(key[t], Current(t))
<1> DEFINE k == key[t]
           e == Current(t)
<1>1. k \in Keys /\ now[t] \in 0 .. MaxTime /\ clock \in 0 .. MaxTime /\ e \in Entry
  BY CurrentForms
<1>2. CASE /\ k \in DOMAIN data
           /\ e.windowStart = data[k].windowStart /\ e.requestCount = data[k].requestCount
  BY <1>2 DEF Windows, Latest
<1>3. ASSUME NEW w \in 0 .. MaxTime, e.windowStart = w, e.requestCount = 0,
             \A i \in DOMAIN grants[k] : grants[k][i].window + timePeriod <= w
      PROVE  Latest(k, e)
  <2>1. \A i \in DOMAIN grants[k] : grants[k][i].window # w
    <3> SUFFICES ASSUME NEW i \in DOMAIN grants[k] PROVE grants[k][i].window # w
      OBVIOUS
    <3>1. grants[k][i].window \in 0 .. MaxTime
      BY <1>1, GrantsFinite, GrantFields
    <3> QED
      BY <1>3, <3>1, RatelimitAssumption
  <2>2. InWindow(k, w) = {}
    BY <2>1 DEF InWindow
  <2>3. Cardinality(InWindow(k, w)) = 0
    BY <2>2, FS_EmptySet
  <2>4. Cardinality(InWindow(k, e.windowStart)) <= e.requestCount
    BY <1>3, <2>3
  <2> QED
    BY <1>3, <2>4 DEF Latest
<1>4. CASE /\ k \in DOMAIN data /\ now[t] >= data[k].windowStart + timePeriod
           /\ e.windowStart = now[t] /\ e.requestCount = 0
  <2>1. data[k].windowStart \in 0 .. MaxTime
    BY <1>4, EntryFields DEF TypeOK
  <2>2. ASSUME NEW i \in DOMAIN grants[k] PROVE grants[k][i].window + timePeriod <= now[t]
    <3>1. grants[k][i].window \in 0 .. MaxTime
      BY <1>1, GrantsFinite, GrantFields
    <3>2. \/ grants[k][i].window = data[k].windowStart
          \/ grants[k][i].window + timePeriod <= data[k].windowStart
      BY <1>4 DEF Windows, Latest
    <3> QED
      BY <1>1, <1>4, <2>1, <3>1, <3>2, RatelimitAssumption
  <2> QED
    BY <1>1, <1>3, <1>4, <2>2
<1>5. CASE k \notin DOMAIN data /\ e.windowStart = clock /\ e.requestCount = 0
  <2>1. \A i \in DOMAIN grants[k] : grants[k][i].window + timePeriod <= clock
    BY <1>5 DEF Windows
  <2> QED
    BY <1>1, <1>3, <1>5, <2>1
<1> QED
  BY <1>2, <1>4, <1>5, CurrentForms

\* What a step that leaves the grants of k alone has to show of its entry.
LEMMA WindowsKept ==
  ASSUME NEW k, Windows(k), grants'[k] = grants[k],
         k \in DOMAIN data' => \E e : data'[k] = e /\ Latest(k, e),
         k \notin DOMAIN data' =>
           \A i \in DOMAIN grants[k] : grants[k][i].window + timePeriod <= clock'
  PROVE  Windows(k)'
<1>1. \A w : InWindow(k, w)' = InWindow(k, w)
  BY DEF InWindow
<1>2. k \in DOMAIN data' => Latest(k, data[k])'
  <2> SUFFICES ASSUME NEW e, data'[k] = e, Latest(k, e) PROVE Latest(k, data[k])'
    OBVIOUS
  <2> QED
    BY <1>1 DEF Latest, InWindow
<1>3. \A w \in 0 .. MaxTime : Cardinality(InWindow(k, w)') <= maxRequests
  BY <1>1 DEF Windows
<1> QED
  BY <1>2, <1>3 DEF Windows

\* The grant of a request that falls into the latest window.
LEMMA WindowsGranted ==
  ASSUME TypeOK, NEW k \in Keys, NEW e \in Entry, NEW c \in Entry, Windows(k), Latest(k, e),
         Grant(k, e), Put(k, c), e.requestCount < maxRequests,
         c.requestCount = e.requestCount + 1, c.windowStart = e.windowStart,
         e.windowStart <= clock, clock < e.windowStart + timePeriod + MaxStall
  PROVE  Windows(k)'
<1> DEFINE n == Len(grants[k]) + 1
           S == DOMAIN grants[k]
           W(i) == grants[k][i].window
<1>1. /\ DOMAIN grants'[k] = S \cup {n} /\ n \notin S
      /\ \A i \in S : grants'[k][i] = grants[k][i]
      /\ grants'[k][n] = [at |-> clock, window |-> e.windowStart]
  BY GrantAppended, Zenon
<1>2. grants'[k][n].at = clock /\ grants'[k][n].window = e.windowStart
  BY <1>1
<1>3. k \in DOMAIN data' /\ data'[k] = c
  BY PutEntry
<1>4. /\ e.windowStart \in 0 .. MaxTime /\ e.requestCount \in 0 .. maxRequests
      /\ Cardinality(InWindow(k, e.windowStart)) \in Nat
  BY EntryFields, GrantsFinite DEF InWindow
<1>5. \A i \in S : W(i) = e.windowStart \/ W(i) + timePeriod <= e.windowStart
  BY DEF Latest
<1> HIDE DEF n
<1>6. ASSUME NEW i \in DOMAIN grants'[k]
      PROVE  /\ grants'[k][i].window <= grants'[k][i].at
             /\ grants'[k][i].at < grants'[k][i].window + timePeriod + MaxStall
  BY <1>1, <1>2 DEF Windows
<1>7. ASSUME NEW i \in DOMAIN grants'[k], NEW j \in DOMAIN grants'[k]
      PROVE  \/ grants'[k][i].window = grants'[k][j].window
             \/ grants'[k][i].window + timePeriod <= grants'[k][j].window
             \/ grants'[k][j].window + timePeriod <= grants'[k][i].window
  <2>1. CASE i \in S /\ j \in S
    BY <1>1, <2>1 DEF Windows
  <2>2. CASE i = n \/ j = n
    BY <1>1, <1>2, <1>5, <2>2
  <2> QED
    BY <1>1, <2>1, <2>2
<1>8. /\ \A w : w # e.windowStart => InWindow(k, w)' = InWindow(k, w)
      /\ Cardinality(InWindow(k, e.windowStart)') = Cardinality(InWindow(k, e.windowStart)) + 1
  BY GrantCounts
<1>9. Cardinality(InWindow(k, e.windowStart)) <= e.requestCount
  BY DEF Latest
<1>10. /\ Cardinality(InWindow(k, e.windowStart)') <= e.requestCount + 1
       /\ Cardinality(InWindow(k, e.windowStart)') <= maxRequests
  BY <1>4, <1>8, <1>9, RatelimitAssumption
<1>11. ASSUME NEW w \in 0 .. MaxTime PROVE Cardinality(InWindow(k, w)') <= maxRequests
  <2>1. CASE w = e.windowStart
    BY <1>10, <2>1
  <2>2. CASE w # e.windowStart
    <3>1. Cardinality(InWindow(k, w)') = Cardinality(InWindow(k, w))
      BY <1>8, <2>2
    <3> QED
      BY <3>1 DEF Windows
  <2> QED
    BY <2>1, <2>2
<1>12. Latest(k, data[k])'
  <2>1. ASSUME NEW i \in DOMAIN grants'[k]
        PROVE  \/ grants'[k][i].window = c.windowStart
               \/ grants'[k][i].window + timePeriod <= c.windowStart
    BY <1>1, <1>2, <1>5
  <2>2. Cardinality(InWindow(k, c.windowStart)') <= c.requestCount
    BY <1>10
  <2>3. Latest(k, c)'
    BY <2>1, <2>2 DEF Latest
  <2> QED
    BY <1>3, <2>3 DEF Latest, InWindow
<1> QED
  BY <1>3, <1>6, <1>7, <1>11, <1>12 DEF Windows

LEMMA WindowNext ==
  ASSUME TypeOK, StampInv, EntryInv, WindowInv, [Next]_vars
  PROVE  WindowInv'
<1> SUFFICES ASSUME Ttl >= timePeriod + MaxStall, NEW j \in Keys PROVE Windows(j)'
  BY DEF WindowInv
<1>1. \A i \in Keys : Windows(i)
  BY DEF WindowInv
<1>2. ASSUME grants'[j] = grants[j], j \in DOMAIN data, j \in DOMAIN data', data'[j] = data[j]
      PROVE  Windows(j)'
  <2>1. Latest(j, data[j])
    BY <1>1, <1>2 DEF Windows
  <2> QED
    BY <1>1, <1>2, <2>1, WindowsKept
<1>3. ASSUME grants'[j] = grants[j], j \notin DOMAIN data, j \notin DOMAIN data',
             clock' \in {clock, clock + 1}
      PROVE  Windows(j)'
  <2>1. ASSUME NEW i \in DOMAIN grants[j] PROVE grants[j][i].window + timePeriod <= clock'
    <3>1. grants[j][i].window + timePeriod <= clock
      BY <1>1, <1>3 DEF Windows
    <3>2. grants[j][i].window \in 0 .. MaxTime /\ clock \in 0 .. MaxTime
      BY GrantsFinite, GrantFields DEF TypeOK
    <3> QED
      BY <1>3, <3>1, <3>2, RatelimitAssumption
  <2> QED
    BY <1>1, <1>3, <2>1, WindowsKept
<1>4. ASSUME NEW t \in Callers, Allow(t) PROVE Windows(j)'
  <2>1. /\ pc[t] = "lock" /\ Current(t).requestCount < maxRequests
        /\ Put(key[t], Counted(t)) /\ Grant(key[t], Current(t)) /\ clock' = clock
    BY <1>4, AllowMeans
  <2>2. /\ key[t] \in Keys /\ Current(t) \in Entry /\ Honest(key[t], Current(t))
        /\ now[t] < Current(t).windowStart + timePeriod
        /\ now[t] \in 0 .. MaxTime /\ clock \in 0 .. MaxTime
    BY <2>1, CurrentForms, CurrentHonest
  <2>3. /\ Counted(t) \in Entry
        /\ Counted(t).requestCount = Current(t).requestCount + 1
        /\ Counted(t).windowStart = Current(t).windowStart
    BY <2>1, <2>2, CountedEntry
  <2>4. Current(t).windowStart <= clock
        /\ clock < Current(t).windowStart + timePeriod + MaxStall
    <3>1. clock <= now[t] + MaxStall
      BY <2>1 DEF StampInv
    <3>2. Current(t).windowStart \in 0 .. MaxTime
      BY <2>2, EntryFields
    <3> QED
      BY <2>2, <3>1, <3>2, RatelimitAssumption DEF Honest
  <2>5. Latest(key[t], Current(t))
    BY <1>1, <2>1, <2>2, CurrentLatest
  <2>6. PICK k \in Keys, e \in Entry, c \in Entry :
          /\ Put(k, c) /\ Grant(k, e) /\ Latest(k, e) /\ e.requestCount < maxRequests
          /\ c.requestCount = e.requestCount + 1 /\ c.windowStart = e.windowStart
          /\ e.windowStart <= clock /\ clock < e.windowStart + timePeriod + MaxStall
    BY <2>1, <2>2, <2>3, <2>4, <2>5
  <2>7. CASE j = k
    BY <1>1, <2>6, <2>7, WindowsGranted
  <2>8. CASE j # k
    <3>1. grants'[j] = grants[j]
      BY <2>6, <2>8, GrantAppended
    <3>2. /\ DOMAIN data' = DOMAIN data \cup {k}
          /\ \A i \in DOMAIN data : i # k => data'[i] = data[i]
      BY <2>6, PutEntry
    <3> QED
      BY <1>2, <1>3, <2>1, <2>8, <3>1, <3>2
  <2> QED
    BY <2>7, <2>8
<1>5. ASSUME NEW t \in Callers, Refuse(t) PROVE Windows(j)'
  <2>1. /\ pc[t] = "lock" /\ Put(key[t], Current(t)) /\ UNCHANGED <<clock, grants>>
    BY <1>5, RefuseMeans
  <2>2. key[t] \in Keys /\ Current(t) \in Entry
    BY <2>1, CurrentForms
  <2>3. Latest(key[t], Current(t))
    BY <1>1, <2>1, <2>2, CurrentLatest
  <2>4. PICK k \in Keys, e \in Entry : Put(k, e) /\ Latest(k, e)
    BY <2>1, <2>2, <2>3
  <2>5. /\ DOMAIN data' = DOMAIN data \cup {k} /\ data'[k] = e
        /\ \A i \in DOMAIN data : i # k => data'[i] = data[i]
    BY <2>4, PutEntry
  <2>6. CASE j = k
    BY <1>1, <2>1, <2>4, <2>5, <2>6, WindowsKept
  <2>7. CASE j # k
    BY <1>2, <1>3, <2>1, <2>5, <2>7
  <2> QED
    BY <2>6, <2>7
<1>6. ASSUME Cleanup PROVE Windows(j)'
  <2>1. UNCHANGED <<clock, grants>>
    BY <1>6 DEF Cleanup
  <2>2. /\ DOMAIN data' \subseteq DOMAIN data
        /\ \A k \in DOMAIN data' : data'[k] = data[k]
        /\ \A k \in DOMAIN data : k \notin DOMAIN data' => ~(sweep - data[k].lastSeen < Ttl)
        /\ sweep \in 0 .. MaxTime
    BY <1>6, CleanupMeans
  <2>3. CASE j \in DOMAIN data /\ j \notin DOMAIN data'
    <3>1. ~(sweep - data[j].lastSeen < Ttl) /\ sweep <= clock /\ clock \in 0 .. MaxTime
      BY <2>2, <2>3 DEF StampInv, TypeOK
    <3>2. /\ data[j].windowStart <= data[j].lastSeen + MaxStall
          /\ data[j].windowStart \in 0 .. MaxTime /\ data[j].lastSeen \in 0 .. MaxTime
      BY <2>3, EntryFields DEF EntryInv, Honest, TypeOK
    <3>3. data[j].windowStart + timePeriod <= clock
      BY <2>2, <3>1, <3>2, RatelimitAssumption
    <3>4. ASSUME NEW i \in DOMAIN grants[j] PROVE grants[j][i].window + timePeriod <= clock
      <4>1. \/ grants[j][i].window = data[j].windowStart
            \/ grants[j][i].window + timePeriod <= data[j].windowStart
        BY <1>1, <2>3 DEF Windows, Latest
      <4>2. grants[j][i].window \in 0 .. MaxTime
        BY GrantsFinite, GrantFields
      <4> QED
        BY <3>1, <3>2, <3>3, <4>1, <4>2, RatelimitAssumption
    <3> QED
      BY <1>1, <2>1, <2>3, <3>4, WindowsKept
  <2>4. CASE j \in DOMAIN data'
    BY <1>2, <2>1, <2>2, <2>4
  <2>5. CASE j \notin DOMAIN data
    BY <1>3, <2>1, <2>2, <2>5
  <2> QED
    BY <2>3, <2>4, <2>5
<1>7. ASSUME \/ Tick \/ CleanupReadClock \/ UNCHANGED vars
             \/ \E t \in Callers, k \in Keys : ReadClock(t, k)
      PROVE  Windows(j)'
  <2>1. UNCHANGED <<grants, data>> /\ clock' \in {clock, clock + 1}
    BY <1>7 DEF Tick, CleanupReadClock, vars, ReadClock
  <2> QED
    BY <1>2, <1>3, <2>1
<1> QED
  BY <1>4, <1>5, <1>6, <1>7 DEF Next

\* Two windows at most reach into a stretch of timePeriod - MaxStall seconds.
LEMMA TwoWindows ==
  ASSUME TypeOK, WindowInv
  PROVE  RateBound
<1> SUFFICES ASSUME Ttl >= timePeriod + MaxStall, NEW k \in Keys, NEW from \in 0 .. clock
             PROVE  Cardinality(GrantsIn(k, from, timePeriod - MaxStall)) <= 2 * maxRequests
  BY DEF RateBound
<1> DEFINE G == GrantsIn(k, from, timePeriod - MaxStall)
           S == DOMAIN grants[k]
           W(i) == grants[k][i].window
<1>1. Windows(k)
  BY DEF WindowInv
<1>2. /\ from \in Nat /\ timePeriod \in Nat /\ MaxStall \in Nat /\ maxRequests \in Nat
      /\ timePeriod > 0
  BY RatelimitAssumption DEF TypeOK
<1>3. G \subseteq S /\ IsFiniteSet(G) /\ Cardinality(G) \in Nat
  BY GrantsFinite DEF GrantsIn
<1>4. ASSUME NEW i \in G
      PROVE  /\ W(i) \in 0 .. MaxTime
             /\ W(i) < from + timePeriod - MaxStall /\ from < W(i) + timePeriod + MaxStall
  <2>1. i \in S /\ from <= grants[k][i].at /\ grants[k][i].at < from + (timePeriod - MaxStall)
    BY DEF GrantsIn
  <2>2. W(i) <= grants[k][i].at /\ grants[k][i].at < W(i) + timePeriod + MaxStall
    BY <1>1, <2>1 DEF Windows
  <2>3. W(i) \in 0 .. MaxTime /\ grants[k][i].at \in 0 .. MaxTime
    BY <2>1, GrantsFinite, GrantFields
  <2> QED
    BY <1>2, <2>1, <2>2, <2>3, RatelimitAssumption
<1>5. ASSUME NEW i \in G, NEW j \in G
      PROVE  W(i) = W(j) \/ W(i) + timePeriod <= W(j) \/ W(j) + timePeriod <= W(i)
  BY <1>1, <1>3 DEF Windows
<1>6. ASSUME NEW w \in 0 .. MaxTime
      PROVE  /\ IsFiniteSet(InWindow(k, w)) /\ Cardinality(InWindow(k, w)) \in Nat
             /\ Cardinality(InWindow(k, w)) <= maxRequests
  BY <1>1, GrantsFinite DEF InWindow, Windows
<1> HIDE DEF G
<1>7. CASE G = {}
  BY <1>2, <1>7, FS_EmptySet DEF G
<1>8. ASSUME NEW a \in G PROVE Cardinality(G) <= 2 * maxRequests
  <2>1. CASE \A i \in G : W(i) = W(a)
    <3>1. G \subseteq InWindow(k, W(a))
      BY <1>3, <2>1 DEF InWindow
    <3>2. W(a) \in 0 .. MaxTime
      BY <1>4
    <3>3. Cardinality(G) <= Cardinality(InWindow(k, W(a)))
      BY <1>6, <3>1, <3>2, FS_Subset
    <3> QED
      BY <1>2, <1>3, <1>6, <3>2, <3>3
  <2>2. ASSUME NEW b \in G, W(b) # W(a) PROVE Cardinality(G) <= 2 * maxRequests
    <3> DEFINE A == InWindow(k, W(a))
               B == InWindow(k, W(b))
    <3>1. ASSUME NEW i \in G PROVE W(i) = W(a) \/ W(i) = W(b)
      <4>1. /\ W(i) \in 0 .. MaxTime /\ W(a) \in 0 .. MaxTime /\ W(b) \in 0 .. MaxTime
            /\ W(i) < from + timePeriod - MaxStall /\ from < W(i) + timePeriod + MaxStall
            /\ W(a) < from + timePeriod - MaxStall /\ from < W(a) + timePeriod + MaxStall
            /\ W(b) < from + timePeriod - MaxStall /\ from < W(b) + timePeriod + MaxStall
        BY <1>4
      <4>2. /\ W(i) = W(a) \/ W(i) + timePeriod <= W(a) \/ W(a) + timePeriod <= W(i)
            /\ W(i) = W(b) \/ W(i) + timePeriod <= W(b) \/ W(b) + timePeriod <= W(i)
            /\ W(a) + timePeriod <= W(b) \/ W(b) + timePeriod <= W(a)
        BY <1>5, <2>2
      <4> HIDE DEF W
      <4> QED
        BY <1>2, <2>2, <4>1, <4>2, RatelimitAssumption
    <3>2. G \subseteq A \cup B
      BY <1>3, <3>1 DEF InWindow
    <3>3. W(a) \in 0 .. MaxTime /\ W(b) \in 0 .. MaxTime
      BY <1>4
    <3>4. /\ IsFiniteSet(A) /\ Cardinality(A) \in Nat /\ Cardinality(A) <= maxRequests
          /\ IsFiniteSet(B) /\ Cardinality(B) \in Nat /\ Cardinality(B) <= maxRequests
      BY <1>6, <3>3
    <3> HIDE DEF A, B
    <3>5. /\ IsFiniteSet(A \cup B)
          /\ Cardinality(A \cup B) = Cardinality(A) + Cardinality(B) - Cardinality(A \cap B)
      BY <3>4, FS_Union
    <3>6. Cardinality(A \cap B) \in Nat
      BY <3>4, FS_Intersection, FS_CardinalityType
    <3>7. Cardinality(G) <= Cardinality(A \cup B)
      BY <3>2, <3>5, FS_Subset
    <3> QED
      BY <1>2, <1>3, <3>4, <3>5, <3>6, <3>7
  <2> QED
    BY <2>1, <2>2
<1> QED
  BY <1>7, <1>8 DEF G

\* Provided that cleanup is told to forget clients no sooner than after a window
\* and a stall, no client ever gets a third window's worth of requests in a
\* period, less the stall, for any limit, period and number of threads.
THEOREM RatelimitRateBound == Spec => []RateBound
<1>1. Init => WindowInv
  <2> SUFFICES ASSUME Init, NEW k \in Keys PROVE Windows(k)
    BY DEF WindowInv
  <2>1. grants[k] = <<>> /\ DOMAIN data = {} /\ DOMAIN grants[k] = {}
    BY DEF Init
  <2>2. \A w : Cardinality(InWindow(k, w)) = 0
    <3>1. \A w : InWindow(k, w) = {}
      BY <2>1 DEF InWindow
    <3> QED
      BY <3>1, FS_EmptySet
  <2> QED
    BY <2>1, <2>2, RatelimitAssumption DEF Windows
<1>2. TypeOK /\ WindowInv => RateBound
  BY TwoWindows
<1> QED
  BY <1>1, <1>2, RateInvariant, WindowNext, PTL DEF Spec

=============================================================================
