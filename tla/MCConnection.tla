---------------------------- MODULE MCConnection ----------------------------
(***************************************************************************)
(* Clients for Connection.tla: each stream is one way in which a request   *)
(* meets the framing loop.  Heads are two or three bytes, bodies up to     *)
(* four, and the limit of six bytes lies between the sizes.                *)
(***************************************************************************)
EXTENDS Connection

Get(close) ==
  [head |-> 2, body |-> 0, spelling |-> "absent", number |-> TRUE, length |-> 0, valid |-> TRUE,
   close |-> close]
Post(spelling, length, body) ==
  [head |-> 3, body |-> body, spelling |-> spelling, number |-> TRUE, length |-> length, valid |-> TRUE,
   close |-> FALSE]
NotANumber(request) == [request EXCEPT !.number = FALSE]
Garbled == [Get(FALSE) EXCEPT !.valid = FALSE]

\* Clients whose requests are framed as they say.
GoodStreams ==
  { <<Post("exact", 2, 2), Get(FALSE), Post("lower", 3, 3), Get(FALSE)>>,
    <<Get(FALSE), Post("lower", 1, 1), Get(TRUE), Get(FALSE)>>,
    <<Get(FALSE), Garbled, Get(FALSE)>>,
    <<Get(FALSE), Post("exact", 4, 4), Get(FALSE)>> }

\* Clients whose requests are not: a body nobody announces, or announced in
\* the spelling only the parser reads; a bad length; one that is too short, too
\* long, or wraps around.
OddStreams ==
  { <<Post("absent", 0, 2), Get(FALSE)>>,
    <<Post("tight", 2, 2), Get(FALSE)>>,
    <<Get(FALSE), NotANumber(Post("exact", 0, 0))>>,
    <<NotANumber(Post("tight", 0, 0)), Get(FALSE)>>,
    <<Post("exact", 1, 3), Get(FALSE)>>,
    <<Post("exact", 3, 1), Get(FALSE)>>,
    <<Post("lower", 15, 0), Get(FALSE)>> }

MCStreams == GoodStreams \cup OddStreams

\* A client that sends one well-formed request with a body.
LowerCaseStreams == { <<Post(spelling, 2, 2)>> : spelling \in {"exact", "lower"} }

=============================================================================
