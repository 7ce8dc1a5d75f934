----------------------------- MODULE ThreadPool -----------------------------
(***************************************************************************)
(* ThreadPool.h: a fixed set of worker threads around one queue, one       *)
(* mutex, one condition variable and the atomic flag "running".            *)
(*                                                                         *)
(* A block of code under queueMutex is one action, since nobody sees its   *)
(* middle.  What the code does outside the lock is an action of its own:   *)
(* the unlocked test of "running" at the top of submit, the notify calls   *)
(* after the unlock, the task itself, the joins.  A worker asleep in       *)
(* cv.wait has program counter "asleep"; it re-acquires the mutex and      *)
(* re-evaluates the wait predicate ("lock") when it is notified or wakes   *)
(* spuriously.                                                             *)
(***************************************************************************)
EXTENDS Naturals, Sequences, FiniteSets

CONSTANTS
  Workers,  \* the worker threads: numThreads of them
  Callers,  \* the threads that call submit and shutdown
  Tasks,    \* the tasks they submit, each a function object of its own
  NoTask    \* no task

\* The constructor throws std::invalid_argument on a pool of no thread.
ASSUME PoolAssumption ==
  /\ Workers # {} /\ IsFiniteSet(Workers)
  /\ IsFiniteSet(Callers)
  /\ NoTask \notin Tasks

VARIABLES
  taskQueue,  \* std::queue of the tasks no worker has taken
  running,    \* std::atomic<bool> running
  wpc,        \* wpc[w]: where worker w is in its loop
  current,    \* current[w]: the task worker w holds
  cpc,        \* cpc[c]: where caller c is in submit or shutdown
  arg,        \* arg[c]: the task caller c is submitting
  done,       \* history: the tasks that have run to their end
  late        \* history: the tasks put in the queue after running became false

vars == <<taskQueue, running, wpc, current, cpc, arg, done, late>>

-----------------------------------------------------------------------------

In(pc, at) == { x \in DOMAIN pc : pc[x] = at }
Queued == { taskQueue[i] : i \in DOMAIN taskQueue }
Held == { current[w] : w \in Workers } \ {NoTask}
Offered == { arg[c] : c \in Callers } \ {NoTask}

\* Every std::function is its own object: one is not submitted twice.
Fresh(t) == t \notin Queued \cup Held \cup Offered \cup done

TypeOK ==
  /\ taskQueue \in Seq(Tasks)
  /\ running \in BOOLEAN
  /\ wpc \in [Workers -> {"lock", "asleep", "run", "returned"}]
  /\ current \in [Workers -> Tasks \cup {NoTask}]
  /\ cpc \in [Callers -> {"idle", "enqueue", "notifyOne", "notifyAll", "join"}]
  /\ arg \in [Callers -> Tasks \cup {NoTask}]
  /\ done \subseteq Tasks
  /\ late \subseteq Tasks

Init ==
  /\ taskQueue = <<>>
  /\ running = TRUE
  /\ wpc = [w \in Workers |-> "lock"]
  /\ current = [w \in Workers |-> NoTask]
  /\ cpc = [c \in Callers |-> "idle"]
  /\ arg = [c \in Callers |-> NoTask]
  /\ done = {}
  /\ late = {}

-----------------------------------------------------------------------------
(* The worker loop.                                                        *)

\* A plausible slip: the task is moved out of front() and never popped.
MutTakeNoPop(w) ==
  /\ wpc[w] = "lock"
  /\ taskQueue # <<>>
  /\ current' = [current EXCEPT ![w] = Head(taskQueue)]
  /\ wpc' = [wpc EXCEPT ![w] = "run"]
  /\ UNCHANGED <<taskQueue, running, cpc, arg, done, late>>

\* A plausible slip: the newest task is taken instead of the oldest.
MutTakeBack(w) ==
  /\ wpc[w] = "lock"
  /\ taskQueue # <<>>
  /\ current' = [current EXCEPT ![w] = taskQueue[Len(taskQueue)]]
  /\ taskQueue' = SubSeq(taskQueue, 1, Len(taskQueue) - 1)
  /\ wpc' = [wpc EXCEPT ![w] = "run"]
  /\ UNCHANGED <<running, cpc, arg, done, late>>

\* The wait predicate holds: the queue has a task, running or not.
Take(w) ==
  /\ wpc[w] = "lock"
  /\ taskQueue # <<>>
  /\ current' = [current EXCEPT ![w] = Head(taskQueue)]
  /\ taskQueue' = Tail(taskQueue)
  /\ wpc' = [wpc EXCEPT ![w] = "run"]
  /\ UNCHANGED <<running, cpc, arg, done, late>>

\* A plausible slip: a stopped worker leaves without draining the queue.
MutReturnUndrained(w) ==
  /\ wpc[w] = "lock"
  /\ ~running
  /\ wpc' = [wpc EXCEPT ![w] = "returned"]
  /\ UNCHANGED <<taskQueue, running, current, cpc, arg, done, late>>

\* The thread function returns only on an empty queue of a stopped pool.
Return(w) ==
  /\ wpc[w] = "lock"
  /\ taskQueue = <<>>
  /\ ~running
  /\ wpc' = [wpc EXCEPT ![w] = "returned"]
  /\ UNCHANGED <<taskQueue, running, current, cpc, arg, done, late>>

\* A plausible slip: the wait predicate forgets the stop flag.
MutSleepStopped(w) ==
  /\ wpc[w] = "lock"
  /\ taskQueue = <<>>
  /\ wpc' = [wpc EXCEPT ![w] = "asleep"]
  /\ UNCHANGED <<taskQueue, running, current, cpc, arg, done, late>>

\* The predicate fails: cv.wait sleeps and gives the mutex back in one step.
Sleep(w) ==
  /\ wpc[w] = "lock"
  /\ taskQueue = <<>>
  /\ running
  /\ wpc' = [wpc EXCEPT ![w] = "asleep"]
  /\ UNCHANGED <<taskQueue, running, current, cpc, arg, done, late>>

\* std::condition_variable may wake a waiter nobody notified.
SpuriousWake(w) ==
  /\ wpc[w] = "asleep"
  /\ wpc' = [wpc EXCEPT ![w] = "lock"]
  /\ UNCHANGED <<taskQueue, running, current, cpc, arg, done, late>>

\* task() comes back, outside the lock; the loop goes round.
Finish(w) ==
  /\ wpc[w] = "run"
  /\ done' = done \cup {current[w]}
  /\ current' = [current EXCEPT ![w] = NoTask]
  /\ wpc' = [wpc EXCEPT ![w] = "lock"]
  /\ UNCHANGED <<taskQueue, running, cpc, arg, late>>

-----------------------------------------------------------------------------
(* submit: test running without the lock, enqueue under it, notify after.  *)

\* A plausible slip: the wrapper does not capture the function it is given.
MutSubmitEmpty(c, t) ==
  /\ cpc[c] = "idle"
  /\ running
  /\ Fresh(t)
  /\ cpc' = [cpc EXCEPT ![c] = "enqueue"]
  /\ UNCHANGED <<taskQueue, running, wpc, current, arg, done, late>>

SubmitCheck(c, t) ==
  /\ cpc[c] = "idle"
  /\ running                       \* otherwise submit throws, nothing changes
  /\ Fresh(t)
  /\ cpc' = [cpc EXCEPT ![c] = "enqueue"]
  /\ arg' = [arg EXCEPT ![c] = t]
  /\ UNCHANGED <<taskQueue, running, wpc, current, done, late>>

SubmitEnqueue(c) ==
  /\ cpc[c] = "enqueue"
  /\ taskQueue' = Append(taskQueue, arg[c])
  /\ late' = IF running THEN late ELSE late \cup {arg[c]}
  /\ arg' = [arg EXCEPT ![c] = NoTask]
  /\ cpc' = [cpc EXCEPT ![c] = "notifyOne"]
  /\ UNCHANGED <<running, wpc, current, done>>

\* A plausible slip: the task is pushed and nobody is notified.
MutSubmitNoNotify(c) ==
  /\ cpc[c] = "notifyOne"
  /\ cpc' = [cpc EXCEPT ![c] = "idle"]
  /\ UNCHANGED <<taskQueue, running, wpc, current, arg, done, late>>

\* notify_one wakes one sleeper, any of them, or is lost when none sleeps.
SubmitNotify(c) ==
  /\ cpc[c] = "notifyOne"
  /\ IF In(wpc, "asleep") = {}
       THEN UNCHANGED wpc
       ELSE \E w \in In(wpc, "asleep") : wpc' = [wpc EXCEPT ![w] = "lock"]
  /\ cpc' = [cpc EXCEPT ![c] = "idle"]
  /\ UNCHANGED <<taskQueue, running, current, arg, done, late>>

-----------------------------------------------------------------------------
(* shutdown: clear running under the lock, notify all, join every worker.  *)

\* A second caller finds running false and returns at once, joining nobody.
ShutdownStop(c) ==
  /\ cpc[c] = "idle"
  /\ running
  /\ running' = FALSE
  /\ cpc' = [cpc EXCEPT ![c] = "notifyAll"]
  /\ UNCHANGED <<taskQueue, wpc, current, arg, done, late>>

\* A plausible slip: notify_one where every sleeper has to hear of the stop.
MutShutdownNotifyOne(c) ==
  /\ cpc[c] = "notifyAll"
  /\ IF In(wpc, "asleep") = {}
       THEN UNCHANGED wpc
       ELSE \E w \in In(wpc, "asleep") : wpc' = [wpc EXCEPT ![w] = "lock"]
  /\ cpc' = [cpc EXCEPT ![c] = "join"]
  /\ UNCHANGED <<taskQueue, running, current, arg, done, late>>

ShutdownNotifyAll(c) ==
  /\ cpc[c] = "notifyAll"
  /\ wpc' = [w \in Workers |-> IF wpc[w] = "asleep" THEN "lock" ELSE wpc[w]]
  /\ cpc' = [cpc EXCEPT ![c] = "join"]
  /\ UNCHANGED <<taskQueue, running, current, arg, done, late>>

\* t.join() on every worker: done when all have returned.
ShutdownJoin(c) ==
  /\ cpc[c] = "join"
  /\ In(wpc, "returned") = Workers
  /\ cpc' = [cpc EXCEPT ![c] = "idle"]
  /\ UNCHANGED <<taskQueue, running, wpc, current, arg, done, late>>

-----------------------------------------------------------------------------

WorkerStep(w) == Take(w) \/ Return(w) \/ Sleep(w) \/ Finish(w)

CallerStep(c) ==
  SubmitEnqueue(c) \/ SubmitNotify(c) \/ ShutdownNotifyAll(c) \/ ShutdownJoin(c)

Next ==
  \/ \E w \in Workers : WorkerStep(w) \/ SpuriousWake(w)
  \/ \E c \in Callers :
       \/ CallerStep(c)
       \/ ShutdownStop(c)
       \/ \E t \in Tasks : SubmitCheck(c, t)

Safety == Init /\ [][Next]_vars

(***************************************************************************)
(* A thread that can run is scheduled, a lock that is free is granted, and *)
(* every task ends.  Nobody has to call submit or shutdown, and no wake-up *)
(* has to be spurious.                                                     *)
(***************************************************************************)
Fairness ==
  /\ \A w \in Workers : WF_vars(WorkerStep(w))
  /\ \A c \in Callers : WF_vars(CallerStep(c))

Spec == Safety /\ Fairness

-----------------------------------------------------------------------------
(* Properties.                                                             *)

(***************************************************************************)
(* No wake-up is lost: while a worker sleeps, every queued task already    *)
(* has a worker on its way to the queue or a notify_one still to come.     *)
(* This is what notifying outside the lock must not break.                 *)
(***************************************************************************)
WorkConserving ==
  In(wpc, "asleep") # {} =>
    Len(taskQueue) <=
      Cardinality(In(wpc, "lock")) + Cardinality(In(cpc, "notifyOne"))

\* After the stop nobody sleeps, except until the stopping caller's notify_all.
NoSleeperAfterStop ==
  ~running /\ In(cpc, "notifyAll") = {} => In(wpc, "asleep") = {}

(***************************************************************************)
(* A worker leaves only a drained queue: what is left behind it was put    *)
(* there after the stop.  So when shutdown has joined the workers, every   *)
(* task submitted before the stop has run.                                 *)
(***************************************************************************)
NothingLeftBehind ==
  In(wpc, "returned") # {} => ~running /\ Queued \subseteq late

\* Among all places a task can be, each task is in one only: no task is lost
\* from two workers' hands, run twice, or queued again after it was taken.
NoDuplicate ==
  /\ \A v, w \in Workers : current[v] = current[w] => v = w \/ current[v] = NoTask
  /\ \A i, j \in DOMAIN taskQueue : taskQueue[i] = taskQueue[j] => i = j
  /\ Queued \cap Held = {}
  /\ done \cap (Queued \cup Held) = {}

\* The phase a caller sees of the pool: closed once every worker is joinable.
Phase ==
  CASE running -> "open"
    [] ~running /\ In(wpc, "returned") # Workers -> "stopping"
    [] OTHER -> "closed"

Executor ==
  INSTANCE TaskExecutor
    WITH N <- Cardinality(Workers),
         pending <- taskQueue,
         active <- Held,
         completed <- done,
         straggler <- late,
         phase <- Phase

\* The pool implements the executor: first in first out, each task once, no
\* more at a time than there are workers, closed only when drained, and all of
\* it eventually.
ImplementsExecutor == Executor!Spec

\* The shutdown that stopped the pool eventually returns.
ShutdownReturns ==
  \A c \in Callers : (cpc[c] = "notifyAll") ~> (cpc[c] = "idle")

=============================================================================
