------------------------------ MODULE Connection ------------------------------
(***************************************************************************)
(* handleClient in Server.cpp: one client's connection, from the first     *)
(* byte to close().  Bytes arrive in pieces of any size up to ChunkSize;   *)
(* the worker cuts requests out of pendingData, hands each one on,         *)
(* answers it, and decides whether the connection lives on.                *)
(*                                                                         *)
(* Bytes have no content here but their place: the i-th request of the     *)
(* client is "head" bytes, the last of which completes the blank line that *)
(* ends a header block, then "body" bytes.  How the request's headers      *)
(* spell Content-Length decides who finds it: the framing loop looks for   *)
(* "content-length: " in any case, the parser for the exact name with or   *)
(* without the blank.                                                      *)
(***************************************************************************)
EXTENDS Naturals, Sequences, SequencesExt

CONSTANTS
  Streams,         \* what the client may send: sequences of requests
  ChunkSize,       \* config.requestChunkSize
  MaxRequestSize,  \* config.maxRequestSize
  MaxRequests,     \* config.maxRequestsPerConnection
  SizeModulus      \* 2^w for a size_t of w bits

\* length: the value of Content-Length, when it is a number; valid: the request
\* line and headers parse; close: "Connection: close".
RequestType ==
  [head : Nat, body : Nat, spelling : {"absent", "exact", "lower", "tight"},
   number : BOOLEAN, length : Nat, valid : BOOLEAN, close : BOOLEAN]

ASSUME ConnectionAssumption ==
  /\ \A rs \in Streams : rs \in Seq(RequestType) /\ \A i \in DOMAIN rs : rs[i].head > 0
  /\ ChunkSize \in Nat \ {0}
  /\ MaxRequestSize \in Nat /\ MaxRequests \in Nat
  /\ SizeModulus \in Nat \ {0} /\ MaxRequestSize < SizeModulus

VARIABLES
  stream,            \* what the client sends in this behaviour
  arrived,           \* how many of its bytes recv() has returned
  pendingData,       \* bytes received and not cut out yet
  pc,                \* where handleClient is
  rawRequest,        \* the request being served
  requestsReceived,
  keepAlive,
  stopRequested,     \* the server's flag, set by another thread
  handled,           \* history: [raw, valid, body] of each request served
  responses,         \* history: [status, keepAlive] of each response sent; 200
                     \*   stands for whatever the handler answers
  handledAtStop      \* history: requests served when stopRequested was set

vars == <<stream, arrived, pendingData, pc, rawRequest, requestsReceived, keepAlive,
          stopRequested, handled, responses, handledAtStop>>

-----------------------------------------------------------------------------
(* Bytes.                                                                  *)

\* Byte k of request i; it ends the header block when k is "head".
RequestBytes(rs, i) ==
  [k \in 1 .. rs[i].head + rs[i].body |->
     [req |-> i, at |-> k, ends |-> k = rs[i].head]]

Wire(rs) == FlattenSeq([i \in DOMAIN rs |-> RequestBytes(rs, i)])

\* The places in pendingData at which a header block ends.
HeaderEnds == { k \in DOMAIN pendingData : pendingData[k].ends }
HeaderEnd == CHOOSE k \in HeaderEnds : \A j \in HeaderEnds : k <= j

\* findHeader(headerBlock, "Content-Length"), for the block that ends at k.
FramingSees(k) == stream[pendingData[k].req].spelling \in {"exact", "lower"}
Framed(k) == stream[pendingData[k].req].length
FramingFails(k) == FramingSees(k) /\ ~stream[pendingData[k].req].number

\* headerEnd + 4 plus the length found, in size_t.
RequestLength(k) == IF FramingSees(k) THEN (k + Framed(k)) % SizeModulus ELSE k

\* A request that was cut out where it begins, with the whole of its head.
StartsWell(raw) == raw # <<>> /\ raw[1].at = 1 /\ stream[raw[1].req].head <= Len(raw)

\* parseRequest: bytes that begin inside another request, or end within the head
\* of their own, may or may not parse; std::stoul throws on a bad length, and the
\* request stays invalid.
ParserSees(r) == r.spelling \in {"exact", "tight"}
Parses(raw, v) ==
  IF StartsWell(raw)
    THEN LET r == stream[raw[1].req] IN v = (r.valid /\ ~(ParserSees(r) /\ ~r.number))
    ELSE v \in BOOLEAN

\* The body given to the handler: of the length the parser sees, or nothing.
ParsedBody(raw) ==
  LET r == stream[raw[1].req] IN
  IF StartsWell(raw) /\ ParserSees(r) /\ r.number /\ r.head + r.length <= Len(raw)
    THEN r.length ELSE 0

-----------------------------------------------------------------------------

Bytes == { Wire(stream)[k] : k \in 1 .. Len(Wire(stream)) }
Ways == {"top", "frame", "recv", "serve", "leave", "closed"}

TypeOK ==
  /\ stream \in Streams
  /\ arrived \in 0 .. Len(Wire(stream))
  /\ pendingData \in Seq(Bytes)
  /\ pc \in Ways
  /\ rawRequest \in Seq(Bytes)
  /\ requestsReceived \in Nat
  /\ keepAlive \in BOOLEAN /\ stopRequested \in BOOLEAN
  /\ handled \in Seq([raw : Seq(Bytes), valid : BOOLEAN, body : Nat])
  /\ responses \in Seq([status : {200, 400, 408, 413}, keepAlive : BOOLEAN])
  /\ handledAtStop \in Nat

Init ==
  /\ stream \in Streams
  /\ arrived = 0
  /\ pendingData = <<>>
  /\ pc = "top"
  /\ rawRequest = <<>>
  /\ requestsReceived = 0
  /\ keepAlive = TRUE
  /\ stopRequested = FALSE
  /\ handled = <<>>
  /\ responses = <<>>
  /\ handledAtStop = 0

\* A plausible slip: a running connection does not hear of the stop.
MutLoopTop ==
  /\ pc = "top"
  /\ pc' = IF keepAlive THEN "frame" ELSE "leave"
  /\ UNCHANGED <<stream, arrived, pendingData, rawRequest, requestsReceived, keepAlive,
                 stopRequested, handled, responses, handledAtStop>>

\* while (keepAlive && !stopRequested.load())
LoopTop ==
  /\ pc = "top"
  /\ pc' = IF keepAlive /\ ~stopRequested THEN "frame" ELSE "leave"
  /\ UNCHANGED <<stream, arrived, pendingData, rawRequest, requestsReceived, keepAlive,
                 stopRequested, handled, responses, handledAtStop>>

\* sendErrorAndClose: a bare response without a Connection header, then close.
Refuse(status) ==
  /\ responses' = Append(responses, [status |-> status, keepAlive |-> FALSE])
  /\ pc' = "closed"
  /\ UNCHANGED <<stream, rawRequest, requestsReceived, keepAlive, stopRequested, handled,
                 handledAtStop>>

\* No header block has ended, or the body is not complete: more bytes, please.
FrameMore ==
  /\ pc = "frame"
  /\ HeaderEnds # {} =>
       /\ ~FramingFails(HeaderEnd)
       /\ Len(pendingData) < RequestLength(HeaderEnd)
       /\ RequestLength(HeaderEnd) <= MaxRequestSize
  /\ pc' = "recv"
  /\ UNCHANGED <<stream, arrived, pendingData, rawRequest, requestsReceived, keepAlive,
                 stopRequested, handled, responses, handledAtStop>>

FrameBad ==
  /\ pc = "frame" /\ HeaderEnds # {}
  /\ FramingFails(HeaderEnd)
  /\ Refuse(400)
  /\ UNCHANGED <<arrived, pendingData>>

\* A plausible slip: the wrong status.
MutFrameTooLarge ==
  /\ pc = "frame" /\ HeaderEnds # {}
  /\ ~FramingFails(HeaderEnd)
  /\ RequestLength(HeaderEnd) > MaxRequestSize
  /\ Refuse(414)
  /\ UNCHANGED <<arrived, pendingData>>

FrameTooLarge ==
  /\ pc = "frame" /\ HeaderEnds # {}
  /\ ~FramingFails(HeaderEnd)
  /\ RequestLength(HeaderEnd) > MaxRequestSize
  /\ Refuse(413)
  /\ UNCHANGED <<arrived, pendingData>>

\* A plausible slip: what follows the request in the buffer is thrown away.
MutFrameTake ==
  /\ pc = "frame" /\ HeaderEnds # {}
  /\ ~FramingFails(HeaderEnd)
  /\ RequestLength(HeaderEnd) <= MaxRequestSize
  /\ RequestLength(HeaderEnd) <= Len(pendingData)
  /\ rawRequest' = SubSeq(pendingData, 1, RequestLength(HeaderEnd))
  /\ pendingData' = <<>>
  /\ pc' = "serve"
  /\ UNCHANGED <<stream, arrived, requestsReceived, keepAlive, stopRequested, handled,
                 responses, handledAtStop>>

\* A whole request is there: it is cut out, the rest stays for the next turn.
FrameTake ==
  /\ pc = "frame" /\ HeaderEnds # {}
  /\ ~FramingFails(HeaderEnd)
  /\ RequestLength(HeaderEnd) <= MaxRequestSize
  /\ RequestLength(HeaderEnd) <= Len(pendingData)
  /\ rawRequest' = SubSeq(pendingData, 1, RequestLength(HeaderEnd))
  /\ pendingData' = SubSeq(pendingData, RequestLength(HeaderEnd) + 1, Len(pendingData))
  /\ pc' = "serve"
  /\ UNCHANGED <<stream, arrived, requestsReceived, keepAlive, stopRequested, handled,
                 responses, handledAtStop>>

-----------------------------------------------------------------------------
(* recv().                                                                 *)

\* A plausible slip: the buffer may grow without limit.
MutReceive ==
  /\ pc = "recv"
  /\ \E n \in 1 .. ChunkSize :
       LET pending == pendingData \o SubSeq(Wire(stream), arrived + 1, arrived + n) IN
       /\ arrived + n <= Len(Wire(stream))
       /\ arrived' = arrived + n
       /\ pendingData' = pending
       /\ pc' = "frame"
  /\ UNCHANGED <<stream, rawRequest, requestsReceived, keepAlive,
                 stopRequested, handled, responses, handledAtStop>>

\* Between one byte and ChunkSize of them; too many in the buffer are refused.
Receive ==
  /\ pc = "recv"
  /\ \E n \in 1 .. ChunkSize :
       LET pending == pendingData \o SubSeq(Wire(stream), arrived + 1, arrived + n) IN
       /\ arrived + n <= Len(Wire(stream))
       /\ arrived' = arrived + n
       /\ pendingData' = pending
       /\ IF Len(pending) > MaxRequestSize
            THEN Refuse(413)
            ELSE /\ pc' = "frame"
                 /\ UNCHANGED <<stream, rawRequest, requestsReceived, keepAlive,
                                stopRequested, handled, responses, handledAtStop>>

\* A plausible slip: a timed out recv() is tried again.
MutReceiveTimeout ==
  /\ pc = "recv"
  /\ pc' = "frame"
  /\ UNCHANGED <<stream, arrived, pendingData, rawRequest, requestsReceived, keepAlive,
                 stopRequested, handled, responses, handledAtStop>>

\* config.timeout seconds without a byte: 408, idle connections included.
ReceiveTimeout ==
  /\ pc = "recv"
  /\ Refuse(408)
  /\ UNCHANGED <<arrived, pendingData>>

\* The client closed its end, or the connection failed.
ReceiveEnd ==
  /\ pc = "recv"
  /\ pc' = "closed"
  /\ UNCHANGED <<stream, arrived, pendingData, rawRequest, requestsReceived, keepAlive,
                 stopRequested, handled, responses, handledAtStop>>

-----------------------------------------------------------------------------
(* One request.                                                            *)

\* isKeepAlive(rawRequest), for a request that parsed.
AsksKeepAlive(raw, v) ==
  IF StartsWell(raw) THEN v = ~stream[raw[1].req].close ELSE v \in BOOLEAN

\* keepAlive after this request, which is number requestsReceived + 1.
AnswerKeepAlive(valid, asked) ==
  valid /\ asked /\ requestsReceived + 1 < MaxRequests

\* Parse, run middleware and handler or answer 400, and send the response.
Serve ==
  /\ pc = "serve"
  /\ \E valid, asked \in BOOLEAN :
       /\ Parses(rawRequest, valid)
       /\ AsksKeepAlive(rawRequest, asked)
       /\ keepAlive' = AnswerKeepAlive(valid, asked)
       /\ handled' = Append(handled, [raw |-> rawRequest, valid |-> valid,
                                      body |-> IF valid THEN ParsedBody(rawRequest) ELSE 0])
       /\ responses' = Append(responses,
                              [status |-> IF valid THEN 200 ELSE 400,
                               keepAlive |-> AnswerKeepAlive(valid, asked)])
       /\ requestsReceived' = requestsReceived + 1
       /\ pc' = IF AnswerKeepAlive(valid, asked) THEN "top" ELSE "leave"
  /\ UNCHANGED <<stream, arrived, pendingData, rawRequest, stopRequested, handledAtStop>>

\* closeSocket() and fetch_sub, after the loop.
Leave ==
  /\ pc = "leave"
  /\ pc' = "closed"
  /\ UNCHANGED <<stream, arrived, pendingData, rawRequest, requestsReceived, keepAlive,
                 stopRequested, handled, responses, handledAtStop>>

\* Another thread is in shutdown().
StopRequest ==
  /\ ~stopRequested
  /\ stopRequested' = TRUE
  /\ handledAtStop' = Len(handled)
  /\ UNCHANGED <<stream, arrived, pendingData, pc, rawRequest, requestsReceived, keepAlive,
                 handled, responses>>

-----------------------------------------------------------------------------

Next ==
  \/ LoopTop \/ FrameMore \/ FrameBad \/ FrameTooLarge \/ FrameTake
  \/ Receive \/ ReceiveTimeout \/ ReceiveEnd
  \/ Serve \/ Leave \/ StopRequest

\* The worker is scheduled and the handler returns; a recv() to which nothing
\* comes times out.  The client need neither send nor close.
Fairness ==
  WF_vars(\/ LoopTop \/ FrameMore \/ FrameBad \/ FrameTooLarge \/ FrameTake
          \/ ReceiveTimeout \/ Serve \/ Leave)

Spec == Init /\ [][Next]_vars /\ Fairness

-----------------------------------------------------------------------------
(* Properties.                                                             *)

\* The client states the length of each body in a way the framing loop sees,
\* and no request is longer than a size_t can tell.
WellFramed ==
  \A i \in DOMAIN stream :
    LET r == stream[i] IN
    /\ \/ r.spelling \in {"exact", "lower"} /\ r.length = r.body
       \/ r.spelling = "absent" /\ r.body = 0
    /\ r.head + r.body < SizeModulus

\* However the bytes are cut up on their way, and however many requests share
\* a buffer, the requests served are the client's, whole, once and in order.
InOrder ==
  WellFramed =>
    \A k \in DOMAIN handled :
      k \in DOMAIN stream /\ handled[k].raw = RequestBytes(stream, k)

\* A connection keeps at most one request's worth of bytes while it is served.
BufferBounded ==
  /\ pc # "closed" => Len(pendingData) <= MaxRequestSize
  /\ Len(rawRequest) <= MaxRequestSize

\* The request a response belongs to, as far as the client can tell: it knows
\* where its requests begin only if it framed them as it said.
AnswerTo(k) ==
  IF k > Len(handled) THEN 0
  ELSE IF WellFramed THEN handled[k].raw[1].req ELSE k

\* Requests answered since the stop.
AnsweredSinceStop == IF stopRequested THEN Len(handled) - handledAtStop ELSE 0

\* The client's view: the answers so far, whether there may be more, and how
\* many requests will still be served after a stop.
Answers ==
  [k \in DOMAIN responses |-> [to |-> AnswerTo(k), final |-> ~responses[k].keepAlive]]
Open == pc \notin {"leave", "closed"}
Grace == 1 - AnsweredSinceStop

TheExchange ==
  INSTANCE Exchange
    WITH answers <- Answers, open <- Open, stopping <- stopRequested, grace <- Grace

\* Whatever the bytes do, the client sees an orderly exchange: its requests
\* answered in order and within the limit, "close" said once and meant, and
\* after a stop one more answer at most, however many requests wait in the
\* buffer.
ImplementsExchange == TheExchange!Safety

\* No client can hold a worker for ever.
ConnectionCloses == <>(pc = "closed")

\* The name of a header has no case: findHeader compares in lower case, and a
\* body announced by "content-length" is a body for the handler as well.
HandlerSeesBody ==
  WellFramed =>
    \A k \in DOMAIN handled : handled[k].valid => handled[k].body = stream[k].body

=============================================================================
