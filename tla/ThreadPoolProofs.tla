-------------------------- MODULE ThreadPoolProofs --------------------------
(***************************************************************************)
(* What ThreadPool.tla guarantees for any number of workers, callers and   *)
(* tasks.  The invariants are proved one on top of the other: the types    *)
(* with the program counters that explain who holds a task (TypeInv), the  *)
(* uniqueness of every task (UniqueInv), the two facts about a stopped     *)
(* pool, and the counting argument behind WorkConserving.  The last        *)
(* theorem maps every step of the pool to a step of the abstract executor. *)
(***************************************************************************)
EXTENDS ThreadPool, TLAPS, FiniteSetTheorems

-----------------------------------------------------------------------------
(* Types.                                                                  *)

\* Who holds a task: a worker while it runs one, a caller between its test of
\* "running" and its push.
HoldersInv ==
  /\ \A w \in Workers : wpc[w] = "run" <=> current[w] # NoTask
  /\ \A c \in Callers : cpc[c] = "enqueue" <=> arg[c] # NoTask

TypeInv == TypeOK /\ HoldersInv

LEMMA TypeInvInit == Init => TypeInv
  BY PoolAssumption DEF Init, TypeInv, TypeOK, HoldersInv

LEMMA TypeInvNext == TypeInv /\ [Next]_vars => TypeInv'
<1> SUFFICES ASSUME TypeInv, [Next]_vars PROVE TypeInv'
  OBVIOUS
<1> USE PoolAssumption DEF TypeInv, TypeOK, HoldersInv
<1>1. ASSUME NEW w \in Workers, Take(w) PROVE TypeInv'
  <2>1. Head(taskQueue) \in Tasks /\ Tail(taskQueue) \in Seq(Tasks)
    BY <1>1 DEF Take
  <2> QED
    BY <1>1, <2>1 DEF Take
<1>2. ASSUME NEW w \in Workers, Return(w) PROVE TypeInv'
  BY <1>2 DEF Return
<1>3. ASSUME NEW w \in Workers, Sleep(w) PROVE TypeInv'
  BY <1>3 DEF Sleep
<1>4. ASSUME NEW w \in Workers, Finish(w) PROVE TypeInv'
  BY <1>4 DEF Finish
<1>5. ASSUME NEW w \in Workers, SpuriousWake(w) PROVE TypeInv'
  BY <1>5 DEF SpuriousWake
<1>6. ASSUME NEW c \in Callers, NEW t \in Tasks, SubmitCheck(c, t) PROVE TypeInv'
  BY <1>6 DEF SubmitCheck
<1>7. ASSUME NEW c \in Callers, SubmitEnqueue(c) PROVE TypeInv'
  <2>1. arg[c] \in Tasks
    BY <1>7 DEF SubmitEnqueue
  <2>2. taskQueue' \in Seq(Tasks)
    BY <1>7, <2>1 DEF SubmitEnqueue
  <2>3. late' \subseteq Tasks
    BY <1>7, <2>1 DEF SubmitEnqueue
  <2> QED
    BY <1>7, <2>2, <2>3 DEF SubmitEnqueue
<1>8. ASSUME NEW c \in Callers, SubmitNotify(c) PROVE TypeInv'
  BY <1>8 DEF SubmitNotify, In
<1>9. ASSUME NEW c \in Callers, ShutdownStop(c) PROVE TypeInv'
  BY <1>9 DEF ShutdownStop
<1>10. ASSUME NEW c \in Callers, ShutdownNotifyAll(c) PROVE TypeInv'
  BY <1>10 DEF ShutdownNotifyAll
<1>11. ASSUME NEW c \in Callers, ShutdownJoin(c) PROVE TypeInv'
  BY <1>11 DEF ShutdownJoin
<1>12. CASE UNCHANGED vars
  BY <1>12 DEF vars
<1> QED
  BY <1>1, <1>2, <1>3, <1>4, <1>5, <1>6, <1>7, <1>8, <1>9, <1>10, <1>11, <1>12
     DEF Next, WorkerStep, CallerStep

LEMMA TypeInvariant == Spec => []TypeInv
  BY TypeInvInit, TypeInvNext, PTL DEF Spec, Safety

\* Every reachable state of the pool is well typed; in particular the queue
\* holds tasks only, never what an idle caller or worker has in its hands.
THEOREM PoolTypeOK == Spec => []TypeOK
<1>1. TypeInv => TypeOK
  BY DEF TypeInv
<1> QED
  BY <1>1, TypeInvariant, PTL

-----------------------------------------------------------------------------
(* The stopped pool.                                                       *)

LEMMA NoSleeperNext ==
  TypeInv /\ NoSleeperAfterStop /\ [Next]_vars => NoSleeperAfterStop'
<1> SUFFICES ASSUME TypeInv, NoSleeperAfterStop, [Next]_vars
             PROVE  NoSleeperAfterStop'
  OBVIOUS
<1> USE DEF TypeInv, TypeOK, NoSleeperAfterStop, In
<1>1. ASSUME NEW w \in Workers, WorkerStep(w) \/ SpuriousWake(w)
      PROVE  NoSleeperAfterStop'
  BY <1>1 DEF WorkerStep, Take, Return, Sleep, Finish, SpuriousWake
<1>2. ASSUME NEW c \in Callers, NEW t \in Tasks, SubmitCheck(c, t)
      PROVE  NoSleeperAfterStop'
  BY <1>2 DEF SubmitCheck
<1>3. ASSUME NEW c \in Callers, SubmitEnqueue(c) PROVE NoSleeperAfterStop'
  BY <1>3 DEF SubmitEnqueue
<1>4. ASSUME NEW c \in Callers, SubmitNotify(c) PROVE NoSleeperAfterStop'
  BY <1>4 DEF SubmitNotify
<1>5. ASSUME NEW c \in Callers, ShutdownStop(c) PROVE NoSleeperAfterStop'
  <2>1. c \in In(cpc, "notifyAll")'
    BY <1>5 DEF ShutdownStop
  <2> QED
    BY <2>1
<1>6. ASSUME NEW c \in Callers, ShutdownNotifyAll(c) PROVE NoSleeperAfterStop'
  <2>1. In(wpc, "asleep")' = {}
    BY <1>6 DEF ShutdownNotifyAll
  <2> QED
    BY <2>1
<1>7. ASSUME NEW c \in Callers, ShutdownJoin(c) PROVE NoSleeperAfterStop'
  BY <1>7 DEF ShutdownJoin
<1>8. CASE UNCHANGED vars
  BY <1>8 DEF vars
<1> QED
  BY <1>1, <1>2, <1>3, <1>4, <1>5, <1>6, <1>7, <1>8 DEF Next, CallerStep

\* However shutdown interleaves with workers about to sleep, once its
\* notify_all is out no worker is asleep, so that every join can return.
THEOREM PoolWakesForStop == Spec => []NoSleeperAfterStop
<1>1. Init => NoSleeperAfterStop
  BY DEF Init, NoSleeperAfterStop
<1> QED
  BY <1>1, TypeInvariant, NoSleeperNext, PTL DEF Spec, Safety

LEMMA NothingLeftNext ==
  TypeInv /\ NothingLeftBehind /\ [Next]_vars => NothingLeftBehind'
<1> SUFFICES ASSUME TypeInv, NothingLeftBehind, [Next]_vars
             PROVE  NothingLeftBehind'
  OBVIOUS
<1> USE DEF TypeInv, TypeOK, NothingLeftBehind, In
<1>1. ASSUME NEW w \in Workers, Take(w) PROVE NothingLeftBehind'
  <2>1. Queued' \subseteq Queued
    BY <1>1 DEF Take, Queued
  <2> QED
    BY <1>1, <2>1 DEF Take
<1>2. ASSUME NEW w \in Workers, Return(w) PROVE NothingLeftBehind'
  <2>1. Queued' = {}
    BY <1>2 DEF Return, Queued
  <2> QED
    BY <1>2, <2>1 DEF Return
<1>3. ASSUME NEW w \in Workers, Sleep(w) \/ Finish(w) \/ SpuriousWake(w)
      PROVE  NothingLeftBehind'
  BY <1>3 DEF Sleep, Finish, SpuriousWake, Queued
<1>4. ASSUME NEW c \in Callers, NEW t \in Tasks, SubmitCheck(c, t)
      PROVE  NothingLeftBehind'
  BY <1>4 DEF SubmitCheck, Queued
<1>5. ASSUME NEW c \in Callers, SubmitEnqueue(c) PROVE NothingLeftBehind'
  <2>1. Queued' \subseteq Queued \cup {arg[c]}
    BY <1>5 DEF SubmitEnqueue, Queued
  <2> QED
    BY <1>5, <2>1 DEF SubmitEnqueue
<1>6. ASSUME NEW c \in Callers, SubmitNotify(c) PROVE NothingLeftBehind'
  <2>1. In(wpc, "returned")' = In(wpc, "returned") /\ Queued' = Queued
    BY <1>6 DEF SubmitNotify, Queued
  <2> QED
    BY <1>6, <2>1 DEF SubmitNotify
<1>7. ASSUME NEW c \in Callers, ShutdownStop(c) PROVE NothingLeftBehind'
  BY <1>7 DEF ShutdownStop, Queued
<1>8. ASSUME NEW c \in Callers, ShutdownNotifyAll(c) PROVE NothingLeftBehind'
  <2>1. In(wpc, "returned")' = In(wpc, "returned") /\ Queued' = Queued
    BY <1>8 DEF ShutdownNotifyAll, Queued
  <2> QED
    BY <1>8, <2>1 DEF ShutdownNotifyAll
<1>9. ASSUME NEW c \in Callers, ShutdownJoin(c) PROVE NothingLeftBehind'
  BY <1>9 DEF ShutdownJoin, Queued
<1>10. CASE UNCHANGED vars
  BY <1>10 DEF vars, Queued
<1> QED
  BY <1>1, <1>2, <1>3, <1>4, <1>5, <1>6, <1>7, <1>8, <1>9, <1>10
     DEF Next, WorkerStep, CallerStep

\* Graceful drain: a worker leaves behind it only tasks that were pushed after
\* the stop; whatever was accepted before has been taken by some worker.
THEOREM PoolDrains == Spec => []NothingLeftBehind
<1>1. Init => NothingLeftBehind
  BY DEF Init, NothingLeftBehind, In
<1> QED
  BY <1>1, TypeInvariant, NothingLeftNext, PTL DEF Spec, Safety

-----------------------------------------------------------------------------
(* Every task is in one place.                                             *)

\* NoDuplicate is not inductive: a push keeps the queue free of duplicates
\* only because what callers carry is nowhere else.
OfferedInv ==
  /\ \A c, d \in Callers : arg[c] = arg[d] => c = d \/ arg[c] = NoTask
  /\ Offered \cap (Queued \cup Held \cup done) = {}

UniqueInv == NoDuplicate /\ OfferedInv

LEMMA UniqueInit == Init => UniqueInv
  BY DEF Init, UniqueInv, NoDuplicate, OfferedInv, Queued, Held, Offered

LEMMA TakeUnique ==
  ASSUME TypeInv, UniqueInv, NEW w \in Workers, Take(w)
  PROVE  /\ UniqueInv'
         /\ Head(taskQueue) \in Queued
         /\ Held' = Held \cup {Head(taskQueue)}
<1> USE PoolAssumption DEF TypeInv, TypeOK
<1> DEFINE h == Head(taskQueue)
<1>1. /\ h \in Queued /\ h \in Tasks
      /\ Len(taskQueue) \in Nat \ {0}
      /\ h = taskQueue[1]
  BY DEF Take, Queued
<1>2. /\ DOMAIN taskQueue' = 1 .. Len(taskQueue) - 1
      /\ \A i \in 1 .. Len(taskQueue) - 1 : taskQueue'[i] = taskQueue[i + 1]
  BY <1>1 DEF Take
<1>3. Queued' = Queued \ {h}
  <2>1. Queued' \subseteq Queued
    BY <1>1, <1>2 DEF Queued
  <2>2. h \notin Queued'
    <3>1. \A i \in 1 .. Len(taskQueue) - 1 : taskQueue[i + 1] # taskQueue[1]
      BY <1>1 DEF UniqueInv, NoDuplicate
    <3> QED
      BY <1>1, <1>2, <3>1 DEF Queued
  <2>3. ASSUME NEW i \in DOMAIN taskQueue, taskQueue[i] # h
        PROVE  taskQueue[i] \in Queued'
    <3>1. i - 1 \in DOMAIN taskQueue' /\ taskQueue'[i - 1] = taskQueue[i]
      BY <1>1, <1>2, <2>3
    <3> QED
      BY <3>1 DEF Queued
  <2> QED
    BY <2>1, <2>2, <2>3 DEF Queued
<1>4. current[w] = NoTask /\ current' = [current EXCEPT ![w] = h]
  BY DEF Take, HoldersInv
<1>5. Held' = Held \cup {h}
  BY <1>1, <1>4 DEF Held
<1>6. \A i, j \in DOMAIN taskQueue' : taskQueue'[i] = taskQueue'[j] => i = j
  BY <1>1, <1>2 DEF UniqueInv, NoDuplicate
<1>7. h \notin Held
  BY <1>1 DEF UniqueInv, NoDuplicate
<1>8. \A u, v \in Workers :
        current'[u] = current'[v] => u = v \/ current'[u] = NoTask
  BY <1>4, <1>7, <1>1 DEF Held, UniqueInv, NoDuplicate
<1>9. done' = done /\ arg' = arg /\ Offered' = Offered
  BY DEF Take, Offered
<1>10. UniqueInv'
  BY <1>1, <1>3, <1>5, <1>6, <1>7, <1>8, <1>9
     DEF UniqueInv, NoDuplicate, OfferedInv
<1> QED
  BY <1>1, <1>5, <1>10

LEMMA FinishUnique ==
  ASSUME TypeInv, UniqueInv, NEW w \in Workers, Finish(w)
  PROVE  /\ UniqueInv'
         /\ current[w] \in Held
         /\ Held' = Held \ {current[w]}
<1> USE PoolAssumption DEF TypeInv, TypeOK
<1>1. current[w] # NoTask /\ current' = [current EXCEPT ![w] = NoTask]
  BY DEF Finish, HoldersInv
<1>2. current[w] \in Held
  BY <1>1 DEF Held
<1>3. Held' = Held \ {current[w]}
  BY <1>1 DEF Held, UniqueInv, NoDuplicate
<1>4. \A u, v \in Workers :
        current'[u] = current'[v] => u = v \/ current'[u] = NoTask
  BY <1>1 DEF UniqueInv, NoDuplicate
<1>5. /\ Queued' = Queued /\ Offered' = Offered
      /\ taskQueue' = taskQueue /\ arg' = arg
      /\ done' = done \cup {current[w]}
  BY DEF Finish, Queued, Offered
<1>6. UniqueInv'
  BY <1>2, <1>3, <1>4, <1>5 DEF UniqueInv, NoDuplicate, OfferedInv
<1> QED
  BY <1>2, <1>3, <1>6

LEMMA EnqueueUnique ==
  ASSUME TypeInv, UniqueInv, NEW c \in Callers, SubmitEnqueue(c)
  PROVE  /\ UniqueInv'
         /\ arg[c] \in Tasks /\ arg[c] \in Offered
<1> USE PoolAssumption DEF TypeInv, TypeOK
<1>1. arg[c] # NoTask /\ arg' = [arg EXCEPT ![c] = NoTask]
  BY DEF SubmitEnqueue, HoldersInv
<1>2. arg[c] \in Tasks /\ arg[c] \in Offered
  BY <1>1 DEF Offered
<1>3. /\ DOMAIN taskQueue' = 1 .. Len(taskQueue) + 1
      /\ Len(taskQueue) \in Nat /\ DOMAIN taskQueue = 1 .. Len(taskQueue)
      /\ taskQueue'[Len(taskQueue) + 1] = arg[c]
      /\ \A i \in 1 .. Len(taskQueue) : taskQueue'[i] = taskQueue[i]
  BY <1>2 DEF SubmitEnqueue
<1>4. Queued' = Queued \cup {arg[c]}
  <2>1. Queued' \subseteq Queued \cup {arg[c]}
    BY <1>3 DEF Queued
  <2>2. Queued \subseteq Queued'
    BY <1>3 DEF Queued
  <2>3. arg[c] \in Queued'
    BY <1>3 DEF Queued
  <2> QED
    BY <2>1, <2>2, <2>3
<1>5. arg[c] \notin Queued \cup Held \cup done
  BY <1>2 DEF UniqueInv, OfferedInv
<1>6. \A i, j \in DOMAIN taskQueue' : taskQueue'[i] = taskQueue'[j] => i = j
  BY <1>3, <1>5 DEF UniqueInv, NoDuplicate, Queued
<1>7. Offered' = Offered \ {arg[c]}
  BY <1>1 DEF Offered, UniqueInv, OfferedInv
<1>8. \A d, e \in Callers : arg'[d] = arg'[e] => d = e \/ arg'[d] = NoTask
  BY <1>1 DEF UniqueInv, OfferedInv
<1>9. current' = current /\ Held' = Held /\ done' = done
  BY DEF SubmitEnqueue, Held
<1>10. UniqueInv'
  BY <1>4, <1>5, <1>6, <1>7, <1>8, <1>9 DEF UniqueInv, NoDuplicate, OfferedInv
<1> QED
  BY <1>2, <1>10

LEMMA CheckUnique ==
  ASSUME TypeInv, UniqueInv, NEW c \in Callers, NEW t \in Tasks, SubmitCheck(c, t)
  PROVE  UniqueInv'
<1> USE PoolAssumption DEF TypeInv, TypeOK
<1>1. arg[c] = NoTask /\ arg' = [arg EXCEPT ![c] = t]
  BY DEF SubmitCheck, HoldersInv
<1>2. t \notin Queued \cup Held \cup Offered \cup done /\ t # NoTask
  BY DEF SubmitCheck, Fresh
<1>3. Offered' = Offered \cup {t}
  BY <1>1, <1>2 DEF Offered
<1>4. \A d, e \in Callers : arg'[d] = arg'[e] => d = e \/ arg'[d] = NoTask
  BY <1>1, <1>2 DEF UniqueInv, OfferedInv, Offered
<1>5. /\ Queued' = Queued /\ Held' = Held /\ done' = done
      /\ taskQueue' = taskQueue /\ current' = current
  BY DEF SubmitCheck, Queued, Held
<1> QED
  BY <1>2, <1>3, <1>4, <1>5 DEF UniqueInv, NoDuplicate, OfferedInv

LEMMA UniqueNext == TypeInv /\ UniqueInv /\ [Next]_vars => UniqueInv'
<1> SUFFICES ASSUME TypeInv, UniqueInv, [Next]_vars PROVE UniqueInv'
  OBVIOUS
<1> DEFINE same == UNCHANGED <<taskQueue, current, arg, done>>
<1>1. same => UniqueInv'
  BY DEF UniqueInv, NoDuplicate, OfferedInv, Queued, Held, Offered
<1>2. ASSUME NEW w \in Workers, WorkerStep(w) \/ SpuriousWake(w)
      PROVE  UniqueInv'
  <2>1. Return(w) \/ Sleep(w) \/ SpuriousWake(w) => same
    BY DEF Return, Sleep, SpuriousWake
  <2> QED
    BY <1>1, <1>2, <2>1, TakeUnique, FinishUnique DEF WorkerStep
<1>3. ASSUME NEW c \in Callers, CallerStep(c) \/ ShutdownStop(c)
      PROVE  UniqueInv'
  <2>1. SubmitNotify(c) \/ ShutdownStop(c) \/ ShutdownNotifyAll(c) \/ ShutdownJoin(c)
          => same
    BY DEF SubmitNotify, ShutdownStop, ShutdownNotifyAll, ShutdownJoin
  <2> QED
    BY <1>1, <1>3, <2>1, EnqueueUnique DEF CallerStep
<1>4. UNCHANGED vars => same
  BY DEF vars
<1> QED
  BY <1>1, <1>2, <1>3, <1>4, CheckUnique DEF Next

LEMMA UniqueInvariant == Spec => []UniqueInv
  BY TypeInvariant, UniqueInit, UniqueNext, PTL DEF Spec, Safety

\* No task is ever held by two workers, queued twice, or queued or held again
\* once it has run: a worker's front() and pop() are one step under the mutex.
THEOREM PoolNoDuplicate == Spec => []NoDuplicate
<1>1. UniqueInv => NoDuplicate
  BY DEF UniqueInv
<1> QED
  BY <1>1, UniqueInvariant, PTL

-----------------------------------------------------------------------------
(* No lost wake-up.                                                        *)

LEMMA CountIn ==
  ASSUME NEW D, IsFiniteSet(D), NEW V, NEW pc \in [D -> V], NEW at
  PROVE  IsFiniteSet(In(pc, at)) /\ Cardinality(In(pc, at)) \in Nat
<1>1. In(pc, at) \subseteq D
  BY DEF In
<1> QED
  BY <1>1, FS_Subset, FS_CardinalityType

\* One more thread at a place, or one less, changes the count by one.
LEMMA CountStep ==
  ASSUME NEW S, IsFiniteSet(S), NEW x
  PROVE  /\ x \notin S => Cardinality(S \cup {x}) = Cardinality(S) + 1
         /\ x \in S => Cardinality(S \ {x}) = Cardinality(S) - 1
  BY FS_AddElement, FS_RemoveElement

LEMMA WorkConservingNext ==
  TypeInv /\ WorkConserving /\ [Next]_vars => WorkConserving'
<1> SUFFICES ASSUME TypeInv, WorkConserving, [Next]_vars PROVE WorkConserving'
  OBVIOUS
<1> DEFINE asleep == In(wpc, "asleep")
           locking == In(wpc, "lock")
           notifying == In(cpc, "notifyOne")
<1> USE DEF TypeInv, TypeOK
<1>1. /\ IsFiniteSet(locking) /\ Cardinality(locking) \in Nat
      /\ IsFiniteSet(notifying) /\ Cardinality(notifying) \in Nat
      /\ Len(taskQueue) \in Nat
  <2>1. wpc \in [Workers -> {"lock", "asleep", "run", "returned"}]
    OBVIOUS
  <2>2. cpc \in [Callers -> {"idle", "enqueue", "notifyOne", "notifyAll", "join"}]
    OBVIOUS
  <2>3. IsFiniteSet(locking) /\ Cardinality(locking) \in Nat
    BY ONLY <2>1, CountIn, PoolAssumption
  <2>4. IsFiniteSet(notifying) /\ Cardinality(notifying) \in Nat
    BY ONLY <2>2, CountIn, PoolAssumption
  <2> QED
    BY <2>3, <2>4
<1>2. TypeInv'
  BY TypeInvNext
<1>3. /\ Cardinality(locking') \in Nat
      /\ Cardinality(notifying') \in Nat
      /\ Len(taskQueue') \in Nat
  <2>1. wpc' \in [Workers -> {"lock", "asleep", "run", "returned"}]
    BY <1>2
  <2>2. cpc' \in [Callers -> {"idle", "enqueue", "notifyOne", "notifyAll", "join"}]
    BY <1>2
  <2>3. Cardinality(In(wpc', "lock")) \in Nat
    BY ONLY <2>1, CountIn, PoolAssumption
  <2>4. Cardinality(In(cpc', "notifyOne")) \in Nat
    BY ONLY <2>2, CountIn, PoolAssumption
  <2>5. locking' = In(wpc', "lock") /\ notifying' = In(cpc', "notifyOne")
    BY DEF In
  <2> QED
    BY <1>2, <2>3, <2>4, <2>5
<1>4. asleep' = {} \/ Len(taskQueue') = 0 => WorkConserving'
  BY <1>3 DEF WorkConserving
<1>5. ASSUME NEW w \in Workers, Take(w) PROVE WorkConserving'
  <2>1. /\ locking' = locking \ {w} /\ w \in locking
        /\ asleep' = asleep /\ notifying' = notifying
    BY <1>5 DEF Take, In
  <2>2. Len(taskQueue') = Len(taskQueue) - 1
    BY <1>5 DEF Take
  <2> QED
    BY <1>1, <2>1, <2>2, CountStep DEF WorkConserving
<1>6. ASSUME NEW w \in Workers, Return(w) \/ Sleep(w) PROVE WorkConserving'
  BY <1>4, <1>6 DEF Return, Sleep
<1>7. ASSUME NEW w \in Workers, Finish(w) \/ SpuriousWake(w)
      PROVE  WorkConserving'
  <2>1. /\ locking' = locking \cup {w} /\ w \notin locking
        /\ asleep' \subseteq asleep /\ notifying' = notifying
        /\ taskQueue' = taskQueue
    BY <1>7 DEF Finish, SpuriousWake, In
  <2> QED
    BY <1>1, <2>1, CountStep DEF WorkConserving
<1>8. ASSUME NEW c \in Callers, SubmitEnqueue(c) PROVE WorkConserving'
  <2>1. /\ notifying' = notifying \cup {c} /\ c \notin notifying
        /\ asleep' = asleep /\ locking' = locking
    BY <1>8 DEF SubmitEnqueue, In
  <2>2. arg[c] \in Tasks
    BY <1>8, PoolAssumption DEF SubmitEnqueue, HoldersInv
  <2>3. Len(taskQueue') = Len(taskQueue) + 1
    BY <1>8, <2>2 DEF SubmitEnqueue
  <2> QED
    BY <1>1, <2>1, <2>3, CountStep DEF WorkConserving
<1>9. ASSUME NEW c \in Callers, SubmitNotify(c) PROVE WorkConserving'
  <2>1. CASE asleep = {}
    BY <1>4, <1>9, <2>1 DEF SubmitNotify
  <2>2. CASE asleep # {}
    <3>1. /\ notifying' = notifying \ {c} /\ c \in notifying
          /\ taskQueue' = taskQueue
      BY <1>9 DEF SubmitNotify, In
    <3>2. PICK w \in asleep : wpc' = [wpc EXCEPT ![w] = "lock"]
      BY <1>9, <2>2 DEF SubmitNotify
    <3>3. locking' = locking \cup {w} /\ w \notin locking
      BY <3>2 DEF In
    <3> QED
      BY <1>1, <2>2, <3>1, <3>3, CountStep DEF WorkConserving
  <2> QED
    BY <2>1, <2>2
<1>10. ASSUME NEW c \in Callers, ShutdownNotifyAll(c) PROVE WorkConserving'
  <2>1. asleep' = {}
    BY <1>10 DEF ShutdownNotifyAll, In
  <2> QED
    BY <1>4, <2>1
<1>11. ASSUME /\ notifying' = notifying
              /\ UNCHANGED <<taskQueue, wpc>>
       PROVE  WorkConserving'
  BY <1>11 DEF WorkConserving
<1>12. ASSUME NEW c \in Callers, NEW t \in Tasks, SubmitCheck(c, t)
       PROVE  WorkConserving'
  BY <1>11, <1>12 DEF SubmitCheck, In
<1>13. ASSUME NEW c \in Callers, ShutdownStop(c) \/ ShutdownJoin(c)
       PROVE  WorkConserving'
  BY <1>11, <1>13 DEF ShutdownStop, ShutdownJoin, In
<1>14. CASE UNCHANGED vars
  BY <1>11, <1>14 DEF vars
<1> QED
  BY <1>5, <1>6, <1>7, <1>8, <1>9, <1>10, <1>12, <1>13, <1>14
     DEF Next, WorkerStep, CallerStep

\* Notifying after the unlock loses no wake-up, for any number of workers and
\* submitters: tasks never pile up behind sleeping workers.
THEOREM PoolWorkConserving == Spec => []WorkConserving
<1>1. Init => WorkConserving
  BY DEF Init, WorkConserving, In
<1> QED
  BY <1>1, TypeInvariant, WorkConservingNext, PTL DEF Spec, Safety

-----------------------------------------------------------------------------
(* The pool implements the executor.                                       *)

\* A worker at the lock leaves a slot free: the tasks in hand are in the hands
\* of the others.
LEMMA FreeSlot ==
  ASSUME TypeInv, NEW w \in Workers, wpc[w] = "lock"
  PROVE  Cardinality(Held) < Cardinality(Workers)
<1> DEFINE others == { v \in Workers \ {w} : current[v] # NoTask }
<1> USE DEF TypeInv, TypeOK
<1>1. current[w] = NoTask
  BY DEF HoldersInv
<1>2. others \subseteq Workers \ {w}
  OBVIOUS
<1>3. /\ IsFiniteSet(Workers \ {w})
      /\ Cardinality(Workers \ {w}) = Cardinality(Workers) - 1
      /\ Cardinality(Workers) \in Nat
  BY PoolAssumption, FS_RemoveElement, FS_CardinalityType
<1>4. IsFiniteSet(others) /\ Cardinality(others) <= Cardinality(Workers) - 1
  BY <1>2, <1>3, FS_Subset
<1>5. Held = { current[v] : v \in others }
  BY <1>1 DEF Held
<1> DEFINE f == [v \in others |-> current[v]]
<1>6. f \in Surjection(others, Held)
  BY <1>5 DEF Surjection
<1>7. IsFiniteSet(Held) /\ Cardinality(Held) <= Cardinality(others)
  BY <1>4, <1>6, FS_Surjection
<1>8. Cardinality(Held) \in Nat /\ Cardinality(others) \in Nat
  BY <1>4, <1>7, FS_CardinalityType
<1> QED
  BY <1>3, <1>4, <1>7, <1>8

LEMMA RefinesInit == Init => Executor!Init
  BY PoolAssumption DEF Init, Executor!Init, Held, Phase

LEMMA RefinesNext ==
  ASSUME TypeInv, UniqueInv, NothingLeftBehind, NothingLeftBehind', [Next]_vars
  PROVE  [Executor!Next]_(Executor!vars)
<1> USE PoolAssumption DEF TypeInv, TypeOK
<1> DEFINE back == In(wpc, "returned")
           hidden == /\ UNCHANGED <<taskQueue, current, done, late, running>>
                     /\ back' = back
<1>1. hidden => UNCHANGED Executor!vars
  BY DEF Executor!vars, Held, Phase
<1>2. ASSUME NEW w \in Workers, Take(w) PROVE Executor!Next
  <2>1. /\ taskQueue # <<>> /\ taskQueue' = Tail(taskQueue)
        /\ Held' = Held \cup {Head(taskQueue)}
        /\ Cardinality(Held) < Cardinality(Workers)
    BY <1>2, TakeUnique, FreeSlot DEF Take
  <2>2. back # Workers /\ back' = back
    BY <1>2 DEF Take, In
  <2>3. Phase # "closed" /\ Phase' = Phase
    BY <1>2, <2>2 DEF Phase, Take
  <2>4. UNCHANGED <<done, late>>
    BY <1>2 DEF Take
  <2>5. Executor!Cardinality(Held) = Cardinality(Held)
    BY DEF Executor!Cardinality, Cardinality
  <2>6. Executor!Start
    BY <2>1, <2>3, <2>4, <2>5 DEF Executor!Start
  <2> QED
    BY <2>6 DEF Executor!Next
<1>3. ASSUME NEW w \in Workers, Finish(w) PROVE Executor!Next
  <2>1. current[w] \in Held /\ Held' = Held \ {current[w]}
    BY <1>3, FinishUnique
  <2>2. current[w] \in Tasks
    BY <1>3 DEF Finish, HoldersInv
  <2>3. Phase' = Phase
    BY <1>3 DEF Phase, Finish, In
  <2>4. done' = done \cup {current[w]} /\ UNCHANGED <<taskQueue, late>>
    BY <1>3 DEF Finish
  <2>5. Executor!Complete(current[w])
    BY <2>1, <2>3, <2>4 DEF Executor!Complete
  <2> QED
    BY <2>2, <2>5 DEF Executor!Next
<1>4. ASSUME NEW w \in Workers, Return(w)
      PROVE  Executor!Next \/ UNCHANGED Executor!vars
  <2>1. /\ ~running /\ taskQueue = <<>> /\ back # Workers
        /\ UNCHANGED <<taskQueue, running, current, done, late>>
    BY <1>4 DEF Return, In
  <2>2. Held' = Held
    BY <2>1 DEF Held
  <2>3. CASE back' # Workers
    BY <2>1, <2>2, <2>3 DEF Phase, Executor!vars
  <2>4. CASE back' = Workers
    <3>1. \A v \in Workers : wpc'[v] = "returned"
      BY <2>4, <1>4 DEF Return, In
    <3>2. \A v \in Workers : wpc[v] # "run"
      BY <3>1, <1>4 DEF Return
    <3>3. Held = {}
      BY <3>2 DEF Held, HoldersInv
    <3>4. Executor!Waiting = {}
      BY <2>1 DEF Executor!Waiting
    <3>5. Phase = "stopping" /\ Phase' = "closed"
      BY <2>1, <2>4 DEF Phase
    <3>6. Executor!Close
      BY <2>1, <2>2, <3>3, <3>4, <3>5 DEF Executor!Close
    <3> QED
      BY <3>6 DEF Executor!Next
  <2> QED
    BY <2>3, <2>4
<1>5. ASSUME NEW w \in Workers, Sleep(w) \/ SpuriousWake(w) PROVE hidden
  BY <1>5 DEF Sleep, SpuriousWake, In
<1>6. ASSUME NEW c \in Callers, SubmitEnqueue(c) PROVE Executor!Next
  <2>1. arg[c] \in Tasks /\ arg[c] \notin Queued \cup Held \cup done
    BY <1>6, EnqueueUnique DEF UniqueInv, OfferedInv
  <2>2. Executor!Waiting = Queued
    BY DEF Executor!Waiting, Queued
  <2>3. Phase' = Phase /\ Held' = Held /\ done' = done
    BY <1>6 DEF SubmitEnqueue, Phase, Held
  <2>4. late' = IF Phase = "open" THEN late ELSE late \cup {arg[c]}
    BY <1>6 DEF SubmitEnqueue, Phase
  <2>5. taskQueue' = Append(taskQueue, arg[c])
    BY <1>6 DEF SubmitEnqueue
  <2>6. Executor!Accept(arg[c])
    BY <2>1, <2>2, <2>3, <2>4, <2>5 DEF Executor!Accept
  <2> QED
    BY <2>1, <2>6 DEF Executor!Next
<1>7. ASSUME NEW c \in Callers, ShutdownStop(c) PROVE Executor!Next
  <2>1. back = {} /\ back' = {}
    BY <1>7 DEF ShutdownStop, NothingLeftBehind
  <2>2. Phase = "open" /\ Phase' = "stopping"
    BY <1>7, <2>1 DEF ShutdownStop, Phase
  <2>3. Held' = Held /\ UNCHANGED <<taskQueue, done, late>>
    BY <1>7 DEF ShutdownStop, Held
  <2>4. Executor!Stop
    BY <2>2, <2>3 DEF Executor!Stop
  <2> QED
    BY <2>4 DEF Executor!Next
<1>8. ASSUME NEW c \in Callers,
             SubmitNotify(c) \/ ShutdownNotifyAll(c) \/ ShutdownJoin(c)
      PROVE  hidden
  <2>1. back' = back
    BY <1>8 DEF SubmitNotify, ShutdownNotifyAll, ShutdownJoin, In
  <2> QED
    BY <1>8, <2>1 DEF SubmitNotify, ShutdownNotifyAll, ShutdownJoin
<1>9. ASSUME NEW c \in Callers, NEW t \in Tasks, SubmitCheck(c, t) PROVE hidden
  BY <1>9 DEF SubmitCheck
<1>10. UNCHANGED vars => hidden
  BY DEF vars
<1> QED
  BY <1>1, <1>2, <1>3, <1>4, <1>5, <1>6, <1>7, <1>8, <1>9, <1>10
     DEF Next, WorkerStep, CallerStep

\* Every behaviour of the pool is, seen through the queue and the tasks in
\* hand, a behaviour of the abstract executor: tasks start first in first out,
\* at most one per worker, run once, and the pool closes only when drained.
THEOREM PoolRefinesExecutor == Spec => Executor!Safety
<1>1. TypeInv /\ UniqueInv /\ NothingLeftBehind /\ NothingLeftBehind' /\ [Next]_vars
        => [Executor!Next]_(Executor!vars)
  BY RefinesNext
<1> QED
  BY <1>1, RefinesInit, TypeInvariant, UniqueInvariant, PoolDrains, PTL
     DEF Spec, Safety, Executor!Safety

=============================================================================
