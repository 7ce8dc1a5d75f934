------------------------------- MODULE Exchange -------------------------------
(***************************************************************************)
(* What a client sees of its connection, bytes and buffers left out: its   *)
(* requests are answered one by one in the order it sent them, up to a     *)
(* limit; an answer is the last one exactly when it says so; the server    *)
(* may refuse to read on with one more answer, or hang up; and once it has *)
(* been told to stop it answers once more at most.                         *)
(***************************************************************************)
EXTENDS Naturals, Sequences

CONSTANTS
  MaxRequests  \* requests a connection may make; the first is always free

VARIABLES
  answers,   \* [to, final] of each answer: the request it is for, 0 for none
  open,      \* the connection may bring more answers
  stopping,  \* the server has been told to stop
  grace      \* requests that may still be answered when it has

vars == <<answers, open, stopping, grace>>

Init ==
  /\ answers = <<>>
  /\ open = TRUE /\ stopping = FALSE /\ grace = 1

Say(to, final) ==
  /\ open
  /\ stopping => grace > 0
  /\ answers' = Append(answers, [to |-> to, final |-> final])
  /\ open' = ~final
  /\ UNCHANGED stopping

Answer(final) ==
  /\ Len(answers) + 1 >= MaxRequests => final
  /\ Say(Len(answers) + 1, final)
  /\ grace' = IF stopping THEN grace - 1 ELSE grace

\* A refusal is for no request in particular, and the end.
Refuse == Say(0, TRUE) /\ UNCHANGED grace

HangUp ==
  /\ open
  /\ open' = FALSE
  /\ UNCHANGED <<answers, stopping, grace>>

Stop ==
  /\ ~stopping
  /\ stopping' = TRUE
  /\ UNCHANGED <<answers, open, grace>>

Next == (\E final \in BOOLEAN : Answer(final)) \/ Refuse \/ HangUp \/ Stop

Safety == Init /\ [][Next]_vars

=============================================================================
