------------------------------- MODULE Dispatch -------------------------------
(***************************************************************************)
(* What handleClient does with one parsed request, and what it lets user   *)
(* code do to the Response meanwhile: the choice of the route, the chain   *)
(* of middleware with the handler at its end, exceptions, static files,    *)
(* and the bytes that go out.                                              *)
(*                                                                         *)
(* Middleware and handlers are user code: at each turn the code on top of  *)
(* the call stack does any one thing Response lets it do, calls next() if  *)
(* it is a middleware, returns, or throws.  A body is known by who wrote   *)
(* it, and Content-Length by the body it was computed from, or as "other"  *)
(* when user code wrote the number itself.                                 *)
(***************************************************************************)
EXTENDS Naturals, Sequences, FiniteSets

CONSTANTS
  ChainLength,    \* global and route middleware together
  MaxHandlerRuns  \* bound: how often next() may reach the handler

ASSUME DispatchAssumption == ChainLength \in Nat /\ MaxHandlerRuns \in Nat \ {0}

Methods == {"GET", "HEAD", "OPTIONS"}
Handler == ChainLength + 1  \* the place after the last middleware

VARIABLES
  method,        \* the request's method
  valid,         \* request.getIsValid()
  routes,        \* the methods that have a route for the request's path
  static,        \* a static file for the path: "none", "file", or "error"
  pc,            \* where handleClient is
  fallback,      \* request.getIsHEADFallback()
  index,         \* middleware of the chain begun so far
  stack,         \* user code being run, innermost last: its place in the
                 \*   chain, and whether it has called next() yet
  begun,         \* history: the places of the user code run, in order
  again,         \* history: some middleware has called next() twice
  status, body, contentLength, finalized, hasSent,  \* the Response
  marks,         \* the places whose headers and cookies it carries
  value,         \* who gave the header "Server" its value: a place, or the
                 \*   constructor (0)
  late,          \* history: what user code did to it when it was finalized
  wire           \* history: the responses handed to the socket, and where
                 \*   each of them was cut

request == <<method, valid, routes, static>>
response == <<status, body, contentLength, finalized, hasSent, marks, value, late>>
callStack == <<index, stack, begun, again>>
vars == <<request, pc, fallback, callStack, response, wire>>

HandlerRuns(places) == Cardinality({ k \in DOMAIN places : places[k] = Handler })

Bodies == {"empty", "user", "file", "error"}
Lengths == Bodies \cup {"other"}

\* The operations of Response without finalizedCheck.
Unchecked == {"emptyBody", "setValue"}

\* Within the head, maybe before its first byte; within the body; not at all.
Cuts == {"head", "body", "none"}

TypeOK ==
  /\ method \in Methods /\ valid \in BOOLEAN /\ routes \subseteq Methods
  /\ static \in {"none", "file", "error"}
  /\ pc \in {"lookup", "chain", "catch", "static", "invalid", "send", "sent", "terminated"}
  /\ fallback \in BOOLEAN
  /\ index \in 0 .. ChainLength
  /\ stack \in Seq([at : 1 .. Handler, called : BOOLEAN]) /\ Len(stack) <= Handler
  /\ begun \in Seq(1 .. Handler) /\ HandlerRuns(begun) <= MaxHandlerRuns
  /\ again \in BOOLEAN
  /\ marks \subseteq 1 .. Handler
  /\ status \in {200, 204, 302, 400, 404, 429, 500}
  /\ body \in Bodies /\ contentLength \in Lengths
  /\ finalized \in BOOLEAN /\ hasSent \in BOOLEAN
  /\ value \in 0 .. Handler /\ late \subseteq Unchecked
  /\ wire \in Seq([status : Nat, length : Lengths, body : Bodies,
                   marks : SUBSET (1 .. Handler), value : 0 .. Handler, cut : Cuts])

Init ==
  /\ method \in Methods /\ valid \in BOOLEAN /\ routes \in SUBSET Methods
  /\ static \in {"none", "file", "error"}
  /\ pc = "lookup"
  /\ fallback = FALSE
  /\ index = 0 /\ stack = <<>> /\ begun = <<>> /\ again = FALSE
  /\ status = 200 /\ body = "empty" /\ contentLength = "empty"
  /\ finalized = FALSE /\ hasSent = FALSE
  /\ marks = {} /\ value = 0 /\ late = {}
  /\ wire = <<>>

-----------------------------------------------------------------------------
(* The Response's own operations, called on a response not finalized.      *)

SetStatus(code) == status' = code

Send(content) ==
  /\ finalized' = TRUE
  /\ body' = content
  /\ contentLength' = content
  /\ UNCHANGED <<marks, value, late>>

\* std::terminate: an exception leaves handleClient, and with it the worker.
Terminate ==
  /\ pc' = "terminated"
  /\ stack' = <<>>
  /\ UNCHANGED <<request, fallback, index, begun, again, response, wire>>

-----------------------------------------------------------------------------
(* Choosing what runs.                                                     *)

\* The parser gave up: straight to the 400.
LookupInvalid ==
  /\ pc = "lookup" /\ ~valid
  /\ pc' = "invalid"
  /\ UNCHANGED <<request, fallback, callStack, response, wire>>

\* handleOptions answers 204 as soon as any route matches the path, and leaves
\* a 404 behind when none does.
LookupOptions ==
  /\ pc = "lookup" /\ valid /\ method = "OPTIONS"
  /\ IF routes = {}
       THEN /\ SetStatus(404) /\ pc' = "static"
            /\ UNCHANGED <<body, contentLength, marks, value, late, finalized>>
       ELSE /\ SetStatus(204) /\ Send("empty") /\ pc' = "send"
  /\ UNCHANGED <<request, fallback, callStack, hasSent, wire>>

\* HEAD is served by the GET route when it has none of its own.
LookupRoute ==
  /\ pc = "lookup" /\ valid /\ method # "OPTIONS"
  /\ fallback' = (method = "HEAD" /\ "HEAD" \notin routes /\ "GET" \in routes)
  /\ pc' = IF method \in routes \/ fallback' THEN "chain" ELSE "static"
  /\ UNCHANGED <<request, callStack, response, wire>>

\* The code at place p is called, by the code on top of the stack if any.
Begin(p) ==
  /\ stack' = Append([k \in DOMAIN stack |->
                        IF k = Len(stack) THEN [stack[k] EXCEPT !.called = TRUE] ELSE stack[k]],
                     [at |-> p, called |-> FALSE])
  /\ begun' = Append(begun, p)
  /\ again' = (again \/ (stack # <<>> /\ stack[Len(stack)].called))
  /\ HandlerRuns(begun') <= MaxHandlerRuns

\* A plausible slip: off by one at the end of the chain.
MutRunNext ==
  /\ index' = IF index <= ChainLength THEN index + 1 ELSE index
  /\ Begin(IF index <= ChainLength THEN index + 1 ELSE Handler)

\* A plausible slip: the index starts anew with every call of next().
MutRunNextAnew ==
  /\ index' = 1
  /\ Begin(IF ChainLength > 0 THEN 1 ELSE Handler)

\* next(): the next middleware of the chain, or the handler behind the last.
RunNext ==
  /\ index' = IF index < ChainLength THEN index + 1 ELSE index
  /\ Begin(IF index < ChainLength THEN index + 1 ELSE Handler)

EnterChain ==
  /\ pc = "chain" /\ begun = <<>>
  /\ RunNext
  /\ UNCHANGED <<request, pc, fallback, response, wire>>

-----------------------------------------------------------------------------
(* User code.                                                              *)

UserRuns == pc = "chain" /\ stack # <<>>

\* The place in the chain of the code that is running.
Running == stack[Len(stack)].at

UserSetsStatus ==
  /\ UserRuns /\ ~finalized
  /\ SetStatus(429)
  /\ UNCHANGED <<request, pc, fallback, callStack, body, contentLength, marks, value, late,
                 finalized, hasSent, wire>>

\* setHeader and setCookie, with a name and a value that pass the validation.
UserSetsHeader ==
  /\ UserRuns /\ ~finalized
  /\ marks' = marks \cup {Running}
  /\ UNCHANGED <<request, pc, fallback, callStack, status, body, contentLength, value, late,
                 finalized, hasSent, wire>>

\* What the history keeps of an operation without finalizedCheck.
Notes(operation) == late' = IF finalized THEN late \cup {operation} ELSE late

\* getHeader(name)->setValue(v): any value of a header that is there, finalized
\* or not.  Before that, setHeader with its name has the same effect.
UserChangesHeader ==
  /\ UserRuns
  /\ value' = Running
  /\ Notes("setValue")
  /\ UNCHANGED <<request, pc, fallback, callStack, status, body, contentLength, marks,
                 finalized, hasSent, wire>>

\* The same with Content-Length, which the library sets again when it sends.
UserChangesLength ==
  /\ UserRuns
  /\ contentLength' = "other"
  /\ Notes("setValue")
  /\ UNCHANGED <<request, pc, fallback, callStack, status, body, marks, value, finalized,
                 hasSent, wire>>

\* emptyBody() is public, and leaves Content-Length as it is.
UserEmptiesBody ==
  /\ UserRuns
  /\ body' = "empty"
  /\ Notes("emptyBody")
  /\ UNCHANGED <<request, pc, fallback, callStack, status, contentLength, marks, value,
                 finalized, hasSent, wire>>

\* send and sendJson.
UserSends ==
  /\ UserRuns /\ ~finalized
  /\ Send("user")
  /\ UNCHANGED <<request, pc, fallback, callStack, status, hasSent, wire>>

\* A plausible slip: redirect does not look whether the response is final.
MutUserRedirects ==
  /\ UserRuns
  /\ SetStatus(302) /\ finalized' = TRUE
  /\ UNCHANGED <<request, pc, fallback, callStack, body, contentLength, marks, value, late,
                 hasSent, wire>>

UserRedirects ==
  /\ UserRuns /\ ~finalized
  /\ SetStatus(302) /\ finalized' = TRUE
  /\ UNCHANGED <<request, pc, fallback, callStack, body, contentLength, marks, value, late,
                 hasSent, wire>>

\* sendFile of a file that fits in memory, or for a HEAD served by GET.
UserSendsFile ==
  /\ UserRuns /\ ~finalized
  /\ Send("file")
  /\ UNCHANGED <<request, pc, fallback, callStack, status, hasSent, wire>>

\* sendFile of a file that cannot be opened.
UserSendsNoFile ==
  /\ UserRuns /\ ~finalized
  /\ SetStatus(500) /\ Send("error")
  /\ UNCHANGED <<request, pc, fallback, callStack, hasSent, wire>>

\* A plausible slip: the stream's own header block forgets the cookies.
MutStreamWrites(cut) ==
  /\ contentLength' = "file"
  /\ hasSent' = (hasSent \/ cut # "head")
  /\ wire' = Append(wire, [status |-> status, length |-> "file", body |-> "file",
                           marks |-> {}, value |-> value, cut |-> cut])

\* What reaches the socket of a streamed file.  hasSent is set between the head
\* and the chunks.
StreamWrites(cut) ==
  /\ contentLength' = "file"
  /\ hasSent' = (hasSent \/ cut # "head")
  /\ wire' = Append(wire, [status |-> status, length |-> "file", body |-> "file",
                           marks |-> marks, value |-> value, cut |-> cut])

\* sendFile of a large file: headers and chunks go out at once.  A file that
\* has become shorter since its size was taken ends the loop like a whole one.
UserStreams ==
  /\ UserRuns /\ ~finalized /\ ~fallback
  /\ \E cut \in {"body", "none"} : StreamWrites(cut)
  /\ finalized' = TRUE
  /\ UNCHANGED <<request, pc, fallback, callStack, status, body, marks, value, late>>

\* The socket takes no more, before the response is marked final.
StreamBreaks(cut) ==
  /\ UserRuns /\ ~finalized /\ ~fallback
  /\ StreamWrites(cut)
  /\ stack' = <<>>
  /\ UNCHANGED <<request, fallback, index, begun, again, status, body, marks, value, late,
                 finalized>>

\* A chunk cannot be sent: an exception.
UserStreamBreaks == StreamBreaks("body") /\ pc' = "catch"

\* The head cannot be sent, or only a part of it: an exception too, and as
\* hasSent is not set yet, what is answered to it follows that part.
UserStreamFails == StreamBreaks("head") /\ pc' = "catch"

\* The client has reset the connection: send() raises SIGPIPE, which no handler
\* of the library catches and no flag suppresses, and the process ends.
UserStreamKills == \E cut \in {"head", "body"} : StreamBreaks(cut) /\ pc' = "terminated"

\* A middleware calls next(), for the first time or once more.
UserCallsNext ==
  /\ UserRuns /\ Running # Handler
  /\ RunNext
  /\ UNCHANGED <<request, pc, fallback, response, wire>>

\* User code throws a std::exception, or calls an operation of Response that
\* does: every one of them does so on a finalized response.
UserThrows ==
  /\ UserRuns
  /\ pc' = "catch" /\ stack' = <<>>
  /\ UNCHANGED <<request, fallback, index, begun, again, response, wire>>

\* User code throws something else, which nobody catches.
UserThrowsOther == UserRuns /\ Terminate

-----------------------------------------------------------------------------
(* After the chain.                                                        *)

\* A plausible slip: emptyBody() only after a chain that did not throw.
MutAfterChain(content) ==
  /\ pc' = "send"
  /\ body' = IF pc = "catch" \/ ~fallback THEN content ELSE "empty"

\* emptyBody() for a HEAD served by GET, after the try block and its catch.
AfterChain(content) == pc' = "send" /\ body' = IF fallback THEN "empty" ELSE content

UserReturns ==
  /\ UserRuns
  /\ stack' = SubSeq(stack, 1, Len(stack) - 1)
  /\ IF Len(stack) = 1 THEN AfterChain(body) ELSE UNCHANGED <<pc, body>>
  /\ UNCHANGED <<request, fallback, index, begun, again, status, contentLength, marks,
                 value, late, finalized, hasSent, wire>>

\* The catch block: setStatus(500) and send().
Catch ==
  /\ pc = "catch" /\ ~finalized
  /\ SetStatus(500)
  /\ finalized' = TRUE /\ contentLength' = "error"
  /\ AfterChain("error")
  /\ UNCHANGED <<request, fallback, callStack, marks, value, late, hasSent, wire>>

\* On a finalized response setStatus throws out of the catch block.
CatchThrows == pc = "catch" /\ finalized /\ Terminate

-----------------------------------------------------------------------------
(* No route.                                                               *)

\* The same for GET and HEAD: no fallback, so that a HEAD has its body too.
StaticFile ==
  /\ pc = "static" /\ static = "file"
  /\ SetStatus(200) /\ Send("file") /\ pc' = "send"
  /\ UNCHANGED <<request, fallback, callStack, hasSent, wire>>

StaticMissing ==
  /\ pc = "static" /\ static = "none"
  /\ SetStatus(404) /\ Send("error") /\ pc' = "send"
  /\ UNCHANGED <<request, fallback, callStack, hasSent, wire>>

\* substr(1) of an empty path, or the file system, throws: outside any try.
StaticThrows == pc = "static" /\ static = "error" /\ Terminate

AnswerInvalid ==
  /\ pc = "invalid"
  /\ SetStatus(400) /\ Send("error") /\ pc' = "send"
  /\ UNCHANGED <<request, fallback, callStack, hasSent, wire>>

-----------------------------------------------------------------------------
(* The bytes.                                                              *)

\* toRawResponse(), or as much of it as sendAll gets out.
Emit(cut) ==
  wire' = Append(wire, [status |-> status, length |-> contentLength, body |-> body,
                        marks |-> marks, value |-> value, cut |-> cut])

\* A plausible slip: a streamed response is sent again.
MutWrite ==
  /\ pc = "send"
  /\ \E cut \in Cuts : Emit(cut)
  /\ pc' = "sent"
  /\ UNCHANGED <<request, fallback, callStack, response>>

\* Unless the response was streamed.  Nobody looks at the result of sendAll.
Write ==
  /\ pc = "send"
  /\ IF hasSent THEN UNCHANGED wire ELSE \E cut \in Cuts : Emit(cut)
  /\ pc' = "sent"
  /\ UNCHANGED <<request, fallback, callStack, response>>

\* SIGPIPE again.
WriteKills ==
  /\ pc = "send" /\ ~hasSent
  /\ \E cut \in {"head", "body"} : Emit(cut)
  /\ pc' = "terminated"
  /\ UNCHANGED <<request, fallback, callStack, response>>

-----------------------------------------------------------------------------

Next ==
  \/ LookupInvalid \/ LookupOptions \/ LookupRoute \/ EnterChain
  \/ UserSetsStatus \/ UserSetsHeader \/ UserSends \/ UserRedirects
  \/ UserChangesHeader \/ UserChangesLength \/ UserEmptiesBody
  \/ UserSendsFile \/ UserSendsNoFile
  \/ UserStreams \/ UserStreamBreaks \/ UserStreamFails \/ UserStreamKills
  \/ UserCallsNext \/ UserThrows \/ UserThrowsOther
  \/ UserReturns \/ Catch \/ CatchThrows
  \/ StaticFile \/ StaticMissing \/ StaticThrows \/ AnswerInvalid
  \/ Write \/ WriteKills

Spec == Init /\ [][Next]_vars

-----------------------------------------------------------------------------
(* Properties.                                                             *)

\* A request that is answered is answered by one response, streamed or written
\* at the end: what has got its head out is never followed by another.  Only a
\* stream cut within its head is, by the 500 for it, which the client then takes
\* for the rest of that head unless none of it had got out.
OneResponse ==
  /\ pc = "sent" => wire # <<>>
  /\ Len(wire) <= 2
  /\ Len(wire) = 2 => wire[1].cut = "head" /\ wire[2].status = 500

\* A HEAD served by a GET route sends no body, whatever that route did: sent,
\* sent a file of any size, or threw.
FallbackHasNoBody == fallback => \A k \in DOMAIN wire : wire[k].body = "empty"

\* Whichever of its two ways a response takes to the socket, streamed from
\* within sendFile or written after the chain, also after an exception: it
\* carries every header and cookie that user code has set, with the value it
\* has (or had, if user code changed it after the stream), the status as it
\* stands if it went out whole, and the length of the body that follows.  Only
\* two things that user code may do break the last: to write a length itself,
\* and to empty a body that has been sent, which keeps its length.
WireIsResponse ==
  \A k \in DOMAIN wire :
    /\ wire[k].marks = marks
    /\ wire[k].value = value \/ (hasSent /\ "setValue" \in late)
    /\ wire[k].cut = "none" => wire[k].status = status
    /\ ~fallback => \/ wire[k].length \in {wire[k].body, "other"}
                    \/ wire[k].body = "empty" /\ "emptyBody" \in late

\* While nobody calls next() twice, the middleware and the handler behind them
\* run in the order they were added, each once, and each within the call of
\* next() of the one before: no handler runs past a middleware that has
\* answered by itself.  (A second next() starts what is left of the chain, and
\* then the handler again.)
ChainInOrder ==
  ~again =>
    /\ \A k \in DOMAIN begun : begun[k] = k
    /\ \A k \in DOMAIN stack : stack[k].at = k /\ (k < Len(stack) => stack[k].called)

\* Once finalized a response keeps its status, its cookies and its set of
\* headers, however many middleware and handlers still come back to it.  The
\* value of a header and Content-Length change only by setValue, which does not
\* look whether the response is final, and the body only by emptyBody(), called
\* by user code or for a HEAD served by GET.
FinalizedIsFinal ==
  [][finalized => /\ finalized' /\ status' = status /\ marks' = marks
                  /\ value' # value => UserChangesHeader
                  /\ contentLength' # contentLength => UserChangesLength
                  /\ body' # body => body' = "empty" /\ (fallback \/ UserEmptiesBody)]_vars

\* An exception of user code becomes an "Internal Server Error" response: the
\* catch block is left towards the send.
ExceptionIsAnswered == [][pc = "catch" => pc' = "send"]_vars

=============================================================================
