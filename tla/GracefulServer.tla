---------------------------- MODULE GracefulServer ----------------------------
(***************************************************************************)
(* What a Server promises to those who start and stop it, threads, flags   *)
(* and sockets left out: it opens once, admits clients, and when it is     *)
(* told to stop it admits at most the one client it was about to accept,   *)
(* says that it is complete, and is down when every client it ever         *)
(* admitted has been let go.                                               *)
(***************************************************************************)
CONSTANTS
  Conns  \* the connections of clients

VARIABLES
  phase,      \* "idle", "failed", "open", "stopping", "complete" or "down"
  listening,  \* the server has its socket open
  admitting,  \* a client may still be admitted
  clients     \* admitted and not yet let go

vars == <<phase, listening, admitting, clients>>

Init ==
  /\ phase = "idle"
  /\ listening = FALSE /\ admitting = FALSE
  /\ clients = {}

Listen ==
  /\ phase = "idle" /\ ~listening
  /\ listening' = TRUE
  /\ UNCHANGED <<phase, admitting, clients>>

Fail ==
  /\ phase = "idle"
  /\ phase' = "failed"
  /\ listening' = FALSE
  /\ UNCHANGED <<admitting, clients>>

Open ==
  /\ phase = "idle" /\ listening
  /\ phase' = "open"
  /\ admitting' = TRUE
  /\ UNCHANGED <<listening, clients>>

\* After the stop the first client admitted is the last.
Admit(c) ==
  /\ admitting /\ c \notin clients
  /\ clients' = clients \cup {c}
  /\ admitting' = (phase = "open")
  /\ UNCHANGED <<phase, listening>>

LetGo(c) ==
  /\ c \in clients
  /\ clients' = clients \ {c}
  /\ UNCHANGED <<phase, listening, admitting>>

\* The stop may or may not find the server with one foot in accept().
Stop ==
  /\ phase = "open"
  /\ phase' = "stopping"
  /\ admitting' \in BOOLEAN
  /\ UNCHANGED <<listening, clients>>

\* No client came to be the last.
Settle ==
  /\ phase = "stopping" /\ admitting
  /\ admitting' = FALSE
  /\ UNCHANGED <<phase, listening, clients>>

\* The door is shut by the caller of the stop, who may be late.
Shut ==
  /\ phase \in {"stopping", "complete", "down"} /\ listening
  /\ listening' = FALSE
  /\ UNCHANGED <<phase, admitting, clients>>

\* What shutdown() waits for: clients may still be there.
Complete ==
  /\ phase = "stopping" /\ ~admitting
  /\ phase' = "complete"
  /\ UNCHANGED <<listening, admitting, clients>>

\* What start() returns with: nobody is there.
GoDown ==
  /\ phase = "complete" /\ clients = {}
  /\ phase' = "down"
  /\ UNCHANGED <<listening, admitting, clients>>

Next ==
  \/ Listen \/ Fail \/ Open \/ Stop \/ Settle \/ Shut \/ Complete \/ GoDown
  \/ \E c \in Conns : Admit(c) \/ LetGo(c)

Safety == Init /\ [][Next]_vars

=============================================================================
