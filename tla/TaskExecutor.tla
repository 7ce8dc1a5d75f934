---------------------------- MODULE TaskExecutor ----------------------------
(***************************************************************************)
(* What a thread pool promises to its callers, with no thread, lock or     *)
(* condition variable in sight.  Accepted tasks wait in one line; the head *)
(* of the line is started whenever one of the N slots is free; a started   *)
(* task runs once, to its end.  Once the executor has been told to stop it *)
(* works off every task accepted before, and only then is it closed.       *)
(*                                                                         *)
(* A task that is handed over while the executor is stopping (a straggler) *)
(* may be run or may be left in the line for good.                         *)
(***************************************************************************)
EXTENDS Naturals, Sequences, FiniteSets

CONSTANTS
  Tasks,  \* the tasks that may be handed over
  N       \* the number of slots

VARIABLES
  pending,    \* the line: tasks accepted and not started
  active,     \* tasks being run
  completed,  \* tasks that have run
  straggler,  \* tasks accepted after the stop
  phase       \* "open", "stopping" or "closed"

vars == <<pending, active, completed, straggler, phase>>

Waiting == { pending[i] : i \in DOMAIN pending }

Init ==
  /\ pending = <<>>
  /\ active = {}
  /\ completed = {}
  /\ straggler = {}
  /\ phase = "open"

Accept(t) ==
  /\ t \notin Waiting \cup active \cup completed
  /\ pending' = Append(pending, t)
  /\ straggler' = IF phase = "open" THEN straggler ELSE straggler \cup {t}
  /\ UNCHANGED <<active, completed, phase>>

Start ==
  /\ phase # "closed"
  /\ pending # <<>>
  /\ Cardinality(active) < N
  /\ active' = active \cup {Head(pending)}
  /\ pending' = Tail(pending)
  /\ UNCHANGED <<completed, straggler, phase>>

Complete(t) ==
  /\ t \in active
  /\ active' = active \ {t}
  /\ completed' = completed \cup {t}
  /\ UNCHANGED <<pending, straggler, phase>>

Stop ==
  /\ phase = "open"
  /\ phase' = "stopping"
  /\ UNCHANGED <<pending, active, completed, straggler>>

Close ==
  /\ phase = "stopping"
  /\ active = {}
  /\ Waiting \subseteq straggler
  /\ phase' = "closed"
  /\ UNCHANGED <<pending, active, completed, straggler>>

Next ==
  \/ \E t \in Tasks : Accept(t) \/ Complete(t)
  \/ Start
  \/ Stop
  \/ Close

Safety == Init /\ [][Next]_vars

Fairness ==
  /\ WF_vars(Start)
  /\ \A t \in Tasks : WF_vars(Complete(t))
  /\ WF_vars(Close)

Spec == Safety /\ Fairness

=============================================================================
