------------------------------ MODULE MCParsing ------------------------------
(***************************************************************************)
(* The pure parts of the server put to the question: each state after the  *)
(* first asks one thing (a path of a route table, a query, a request, a    *)
(* form, the calls of a handler), and the invariants compare what the code *)
(* answers with what the asker meant.  The asker works on structured       *)
(* values, writes them as text the way a client or a reader would, and     *)
(* knows nothing of how the code takes texts apart.                        *)
(***************************************************************************)
EXTENDS Routing, MultipartParser, ResponseText

VARIABLE asked

Lists(S, low, high) == UNION {[1..n -> S] : n \in low..high}
Joined(texts, between) ==
  FlattenSeq([i \in DOMAIN texts |-> IF i = 1 THEN texts[i] ELSE between \o texts[i]])

-----------------------------------------------------------------------------
(* Routes.  A part of a pattern is a literal or a parameter.               *)

Literal(t) == [parameter |-> FALSE, text |-> t]
Parameter(name) == [parameter |-> TRUE, text |-> name]
PatternText(parts) ==
  LET PartText(p) == IF p.parameter THEN <<"{">> \o p.text \o <<"}">> ELSE p.text
  IN  <<"/">> \o Joined([i \in DOMAIN parts |-> PartText(parts[i])], <<"/">>)

DeclaredRoutes ==
  { [method |-> "GET",     parts |-> <<Literal(<<"A">>)>>],
    [method |-> "GET",     parts |-> <<Parameter(<<"C">>)>>],
    [method |-> "HEAD",    parts |-> <<Parameter(<<"c">>)>>],
    [method |-> "POST",    parts |-> <<Parameter(<<"A">>), Parameter(<<"b">>)>>],
    [method |-> "GET",     parts |-> <<Literal(<<"a">>), Parameter(<<>>)>>],
    [method |-> "POST",    parts |-> <<Literal(<<"{">>), Literal(<<"b">>)>>],
    [method |-> "OPTIONS", parts |-> <<Literal(<<"a">>)>>],
    [method |-> "PUT",     parts |-> <<>>] }

Segments == {<<"a">>, <<"A">>, <<"b", "C">>, <<"{">>, <<"{", "a">>}

\* A path, with or without slashes that name nothing.
PathText(segments, spare) ==
  IF spare THEN <<"/", "/">> \o Joined(segments, <<"/", "/">>) \o <<"/">>
  ELSE <<"/">> \o Joined(segments, <<"/">>)

RouteQuestions ==
  [kind : {"route"}, table : Lists(DeclaredRoutes, 1, 3), segments : Lists(Segments, 0, 2),
   spare : BOOLEAN]

\* The path is an instance of the pattern.
InstanceOf(segments, parts) ==
  /\ Len(segments) = Len(parts)
  /\ \A i \in DOMAIN parts : parts[i].parameter \/ toLower(parts[i].text) = toLower(segments[i])

Table(q) ==
  FoldLeft(LAMBDA routes, r : addRoute(routes, FALSE, r.method, PatternText(r.parts)), <<>>, q.table)
Hits(q, method) ==
  {i \in DOMAIN q.table : q.table[i].method = method /\ InstanceOf(q.segments, q.table[i].parts)}

\* Every request goes to the route declared first among those of its method
\* that its path is an instance of (to a GET route when HEAD has none), and the
\* handler gets the segments that stand for the parameters, as the client wrote
\* them: Server.cpp:287-302 and Helpers.h:99-125.
MatchesInstances ==
  asked.kind = "route" =>
    \A method \in Methods :
      LET path == PathText(asked.segments, asked.spare)
          hits == IF method = "HEAD" /\ Hits(asked, "HEAD") = {} THEN Hits(asked, "GET")
                  ELSE Hits(asked, method)
          served == RouteServing(Table(asked), method, path)
          parts == asked.table[served].parts
          params == RouteParams(Table(asked)[served].path, path)
      IN  IF hits = {} THEN served = 0
          ELSE /\ served \in hits
               /\ \A i \in hits : served <= i
               /\ DOMAIN params = {toLower(parts[i].text) : i \in {j \in DOMAIN parts : parts[j].parameter}}
               /\ \A i \in DOMAIN parts :
                    parts[i].parameter => params[toLower(parts[i].text)] = asked.segments[i]

\* Allow, as OPTIONS answers it, lists just the methods a request for that path
\* would be served for, and OPTIONS: handleOptions and the choice of the route
\* in handleClient are two pieces of code that must agree (Server.cpp:117-142).
AllowIsHonest ==
  asked.kind = "route" =>
    LET path == PathText(asked.segments, asked.spare)
        served == {m \in Methods : RouteServing(Table(asked), m, path) # 0}
    IN  Allow(Table(asked), path) = IF served = {} THEN {} ELSE served \cup {"OPTIONS"}

-----------------------------------------------------------------------------
(* Queries.                                                                *)

Escape(c, digits) ==
  LET digit(d) == CHOOSE h \in digits : HexDigit[h] = d
  IN  <<"%", digit(Code[c] \div 16), digit(Code[c] % 16)>>
UpperDigits == DOMAIN HexDigit \ {"a", "b", "c", "d", "e", "f"}
LowerDigits == DOMAIN HexDigit \ {"A", "B", "C", "D", "E", "F"}

\* How a client may encode a text: what must be escaped, in either spelling,
\* with "+" for a blank; or everything that can be.
Encoded(t, style) ==
  LET Symbol(c) ==
        IF style = "all" /\ c \in DOMAIN Code THEN Escape(c, LowerDigits)
        ELSE IF c = " " /\ style = "plus" THEN <<"+">>
        ELSE IF c \in {" ", "%", "&", "+", "="} THEN Escape(c, UpperDigits)
        ELSE <<c>>
  IN  FlattenSeq([i \in DOMAIN t |-> Symbol(t[i])])

QueryText(pairs, style) ==
  Joined([i \in DOMAIN pairs |-> Encoded(pairs[i].key, style) \o <<"=">> \o Encoded(pairs[i].value, style)],
         <<"&">>)

Keys == {<<>>, <<"a">>, <<"A">>, <<"=", "a">>}
Values == Lists({"a", " ", "%", "&", "=", "+"}, 0, 2) \cup {<<"%", "4", "1">>, <<"a", "+", "%">>}
QueryQuestions ==
  {[kind |-> "query", pairs |-> <<first>> \o others, style |-> style] :
     first \in [key : Keys, value : Values], style \in {"all", "plus", "plain"},
     others \in {<<>>} \cup {<<p>> : p \in [key : Keys, value : {<<>>, <<"b">>}]}}

SameName(a, b) == toLower(a) = toLower(b)

\* Whatever legal way a client escapes them, the handler reads the keys and
\* values the client meant, the last value of a repeated key, and for two keys
\* that differ in case only one of their values: Request.cpp:46-59,
\* Helpers.h:159-178 and the list built from the map.
QueryRead ==
  asked.kind = "query" =>
    LET pairs == asked.pairs
        last(k) == pairs[Max({i \in DOMAIN pairs : pairs[i].key = k})].value
        keys == {pairs[i].key : i \in DOMAIN pairs}
        params == parseQueryString(QueryText(pairs, asked.style))
    IN  /\ params = [k \in keys |-> last(k)]
        /\ \A list \in KVLists(params), k \in keys :
             \E j \in keys : SameName(j, k) /\ get(list, k) = {last(j)}

-----------------------------------------------------------------------------
(* Requests.                                                               *)

CookiesSent == << [key |-> <<"A">>, value |-> <<"1">>], [key |-> <<"b">>, value |-> <<>>],
                  [key |-> <<"a">>, value |-> <<"b", "=", "c">>] >>
CookieText == Joined([i \in DOMAIN CookiesSent |->
                        CookiesSent[i].key \o <<"=">> \o CookiesSent[i].value], <<";", " ">>)

Header(name, value) == [name |-> name, value |-> value]
HeadersSent ==
  { Header(<<"Host">>, <<"a", ":", "1">>), Header(<<"host">>, <<"b">>), Header(<<"Host">>, <<>>),
    Header(<<"Connection">>, <<"Close">>), Header(<<"X-", "Connection">>, <<"a">>),
    Header(<<"X-", "Content-Length">>, <<"1">>),
    Header(<<"Cookie">>, CookieText),
    Header(<<"X-", "Forwarded-For">>, <<"a", "b", " ", ",", " ", "c">>) }

Bodies == {<<>>, <<"b">>, <<"b", CRLF, CRLF, "c">>}
Follower == <<"GET", " ", "/", " ", "HTTP/1.1", CRLF, CRLF>>

\* All but the body's length is chosen here; that goes first or last.
RequestQuestions ==
  {[kind |-> "request", method |-> IF body = <<>> THEN "GET" ELSE "POST", body |-> body,
    headers |-> IF body = <<>> THEN others
                ELSE IF first THEN <<Header(<<"Content-Length">>, to_string(Len(body)))>> \o others
                ELSE Append(others, Header(<<"Content-Length">>, to_string(Len(body))))] :
     body \in Bodies, first \in BOOLEAN,
     others \in {s \in Lists(HeadersSent, 0, 3) : \A i, j \in DOMAIN s : i # j => s[i] # s[j]}}

RequestText(q) ==
  LET Line(h) == h.name \o <<":", " ">> \o h.value \o <<CRLF>>
  IN  <<q.method, " ", "/", "a", "?", "b", "=", "%", "2", "6", " ", "HTTP/1.1", CRLF>>
      \o FlattenSeq([i \in DOMAIN q.headers |-> Line(q.headers[i])]) \o <<CRLF>> \o q.body

\* The first header whose name ends in this one is that header itself.
Unshadowed(headers, name) ==
  LET ends == {i \in DOMAIN headers : Last(headers[i].name) = name}
  IN  ends = {} \/ headers[Min(ends)].name = <<name>>

\* handleClient cuts exactly the request out of what the client sent, whatever
\* follows it on the connection, and knows whether the client wants to go on,
\* unless the name it looks for first ends some other header's name: it reads
\* the head by searching, not by lines (Server.cpp:83-105 and 195-219).
FramesWhole ==
  asked.kind = "request" =>
    LET text == RequestText(asked)
        closes == \E i \in DOMAIN asked.headers : asked.headers[i] = Header(<<"Connection">>, <<"Close">>)
    IN  /\ Unshadowed(asked.headers, "Content-Length") =>
             /\ RawRequest(text) = text
             /\ RawRequest(text \o Follower) = text
             /\ \A n \in 1..(Len(text) - 1) : RawRequest(SubSeq(text, 1, n)) = <<>>
        /\ Unshadowed(asked.headers, "Connection") => isKeepAlive(text) = ~closes

\* What the client put in a request is what the handler and the rate limiter
\* read: method, path, query and body; every header, asked for in either case,
\* with a value that was sent under that name, the last if it was spelled alike
\* throughout; the cookies, one per name without case, with the last value; and
\* the first address of the proxies' list (Request.cpp:109-182, Request.h:53-135,
\* Ratelimit.h:57-79).
RequestRead ==
  asked.kind = "request" =>
    LET headers == asked.headers
        sent(name) == {i \in DOMAIN headers : SameName(headers[i].name, name)}
        alike(name) == \A i, j \in sent(name) : headers[i].name = headers[j].name
        cookie(name) == {i \in DOMAIN CookiesSent : SameName(CookiesSent[i].key, name)}
        proxied == <<"X-", "Forwarded-For">>
    IN  \A r \in parseRequest(RequestText(asked)) :
          /\ r.valid
          /\ r.method = asked.method
          /\ r.path = <<"/", "a">>
          /\ r.body = asked.body
          /\ getQuery(r, <<"B">>) = {<<"&">>}
          /\ \A i \in DOMAIN headers :
               LET name == headers[i].name
                   got == getHeader(r, toLower(name))
               IN  /\ \E j \in sent(name) : got = {headers[j].value}
                   /\ alike(name) => got = {headers[Max(sent(name))].value}
          /\ sent(<<"Cookie">>) # {} =>
               \A i \in DOMAIN CookiesSent :
                 LET name == CookiesSent[i].key
                 IN  getCookie(r, name) = {CookiesSent[Max(cookie(name))].value}
          /\ RateKey(FALSE, <<"c">>, r, proxied) = <<"c">>
          /\ RateKey(TRUE, <<"c">>, r, proxied) = IF sent(proxied) = {} THEN <<>> ELSE <<"a", "b">>

-----------------------------------------------------------------------------
(* Forms.                                                                  *)

Occurs(t, s) == \E i \in 1..Len(s) : IsPrefix(t, SubSeq(s, i, Len(s)))

FormQuestions ==
  {q \in [kind : {"form"}, boundary : {<<"b">>, <<"-", "b">>}, quoted : BOOLEAN, preamble : BOOLEAN,
          contents : Lists(Lists({"b", "-", CRLF}, 0, 3), 1, 1)
                     \cup ({<<"-", "-">>, <<"b", CRLF, CRLF>>, <<CRLF, "a">>} \X {<<>>, <<"c", CRLF>>})] :
     \A i \in DOMAIN q.contents : ~Occurs(<<"-", "-">> \o q.boundary, q.contents[i])}

FormType(q) ==
  <<"multipart/form-data", ";", " ", "boundary=">>
  \o (IF q.quoted THEN <<"\"">> \o q.boundary \o <<"\"">> ELSE q.boundary)

FormText(q) ==
  LET opening == <<"-", "-">> \o q.boundary
      Field(i) == opening \o <<CRLF, "name", ":", " ">> \o to_string(i)
                  \o <<CRLF, "Content-Type", ":", " ", "a", ":", "b", CRLF, CRLF>>
                  \o q.contents[i] \o <<CRLF>>
  IN  (IF q.preamble THEN <<"a", CRLF>> ELSE <<>>)
      \o FlattenSeq([i \in DOMAIN q.contents |-> Field(i)]) \o opening \o <<"-", "-", CRLF>>

\* got is content without the line ends it ends in.
LessLineEnds(got, content) ==
  /\ IsPrefix(got, content)
  /\ got = <<>> \/ Last(got) # CRLF
  /\ \A i \in (Len(got) + 1)..Len(content) : content[i] = CRLF

\* Every field of a form arrives, in order, with its headers and its content;
\* only line ends at the very end of a content are lost (MultipartParser.cpp).
FormRead ==
  asked.kind = "form" =>
    LET request == MakeRequest("POST", <<"/">>, FormText(asked),
                               set(NoPairs, <<"content-type">>, FormType(asked)), NoPairs)
    IN  \E fields \in parse(request) :
          /\ Len(fields) = Len(asked.contents)
          /\ \A i \in DOMAIN fields :
               /\ fields[i].headers = [name \in {<<"name">>, <<"Content-Type">>} |->
                                       IF name = <<"name">> THEN to_string(i) ELSE <<"a", ":", "b">>]
               /\ LessLineEnds(fields[i].content, asked.contents[i])

-----------------------------------------------------------------------------
(* Responses.                                                              *)

Bare == [domain |-> <<>>, path |-> <<"/">>, expires |-> <<>>, maxAge |-> -1, secure |-> FALSE,
         httpOnly |-> FALSE, sameSite |-> <<>>, partitioned |-> FALSE]
Dressed == [Bare EXCEPT !.domain = <<"a">>, !.maxAge = 10, !.secure = TRUE, !.sameSite = <<"Lax">>]

HeaderCall(name, value, legal) == [call |-> "header", name |-> name, value |-> value, legal |-> legal]
CookieCall(value, opts, legal) == [call |-> "cookie", value |-> value, opts |-> opts, legal |-> legal]
FinalCall(call, text, legal) == [call |-> call, text |-> text, legal |-> legal]

\* What a handler may call, and whether that is legal before the response is
\* final: an illegal call throws.
Calls ==
  { HeaderCall(<<"A">>, <<"b", ":", " ", "c">>, TRUE), HeaderCall(<<"a">>, <<"1">>, TRUE),
    HeaderCall(<<"content-length">>, <<"9">>, TRUE),
    HeaderCall(<<"A">>, <<"b", CRLF, "B", ":", " ", "c">>, FALSE),
    HeaderCall(<<"a", ":", "b">>, <<"1">>, FALSE), HeaderCall(<<>>, <<"1">>, FALSE),
    CookieCall(<<"1">>, Bare, TRUE), CookieCall(<<"2">>, Dressed, TRUE),
    CookieCall(<<"1">>, [Bare EXCEPT !.sameSite = <<CRLF, "B">>], FALSE), CookieCall(<<>>, Bare, FALSE),
    FinalCall("send", <<"b", CRLF, CRLF, "c">>, TRUE), FinalCall("send", <<>>, TRUE),
    FinalCall("redirect", <<"/", "a">>, TRUE), FinalCall("redirect", <<"/", CRLF, CRLF>>, FALSE) }

ResponseQuestions == [kind : {"response"}, calls : Lists(Calls, 0, 3)]

Make(r, c) ==
  CASE c.call = "header" -> setHeader(r, c.name, c.value)
    [] c.call = "cookie" -> setCookie(r, <<"c">>, c.value, c.opts)
    [] c.call = "send" -> send(r, c.text)
    [] c.call = "redirect" -> redirect(r, c.text, FALSE)
Made(calls) == FoldLeft(Make, NewResponse, calls)

\* The calls that take effect: the legal ones up to the first final one.
Final(c) == c.legal /\ c.call \in {"send", "redirect"}
InEffect(calls) == {i \in DOMAIN calls : calls[i].legal /\ \A j \in 1..(i - 1) : ~Final(calls[j])}

\* The header a call sets, if it sets one, and what to.
Naming(c) ==
  CASE c.call = "header" -> {c.name}
    [] c.call = "send" -> {<<"Content-Length">>}
    [] c.call = "redirect" -> {<<"Location">>}
    [] OTHER -> {}
Sets(c, name) == \E given \in Naming(c) : SameName(given, name)
SetTo(c) ==
  CASE c.call = "header" -> c.value
    [] c.call = "send" -> to_string(Len(c.text))
    [] c.call = "redirect" -> c.text

\* What a response says if no call of the handler says otherwise.
Defaults == {KVPair(<<"Content-Type">>, <<"text/html">>), KVPair(<<"Content-Length">>, <<"0">>)}

\* The line a browser must find for a cookie.
CookieWanted(c) ==
  <<"c", "=">> \o c.value
  \o (IF c.opts = Bare THEN <<";", " ", "Path", "=", "/">>
      ELSE <<";", " ", "Domain", "=", "a">> \o <<";", " ", "Path", "=", "/">>
           \o <<";", " ", "Max-Age", "=", "1", "0">> \o <<";", " ", "Secure">>
           \o <<";", " ", "SameSite", "=", "Lax">>)

LineName(line) == SubSeq(line, 1, find(line, <<":">>, 1) - 1)
LineValue(line) == SubSeq(line, find(line, <<":">>, 1) + 2, Len(line))
IsCookie(line) == LineName(line) = <<"Set-Cookie">>

\* A client that knows nothing of the handler, and reads the head line by line
\* up to the blank one, finds one line for each header, ignoring case, with the
\* value set last or the default, and a line for every header that was set; the
\* cookies in the order they were set; and behind the blank line the body that
\* was sent, if one was (Response.cpp:45-71, 177-218, 309-365; KVList.h:91-109).
ResponseReads ==
  asked.kind = "response" =>
    LET calls == asked.calls
        effective == InEffect(calls)
        setting(name) == {i \in effective : Sets(calls[i], name)}
        baked == FlattenSeq([i \in DOMAIN calls |->
                   IF i \in effective /\ calls[i].call = "cookie" THEN <<CookieWanted(calls[i])>> ELSE <<>>])
    IN  \A text \in toRawResponse(Made(calls)) :
          LET blank == find(text, <<CRLF, CRLF>>, 1)
              lines == Tail(split(SubSeq(text, 1, blank - 1), CRLF))
              headers == {i \in DOMAIN lines : ~IsCookie(lines[i])}
              cookies == FlattenSeq([i \in DOMAIN lines |->
                           IF IsCookie(lines[i]) THEN <<LineValue(lines[i])>> ELSE <<>>])
              body == SubSeq(text, blank + 2, Len(text))
          IN  /\ \A i, j \in headers : SameName(LineName(lines[i]), LineName(lines[j])) => i = j
              /\ \A i \in headers :
                   LET name == LineName(lines[i])
                       value == LineValue(lines[i])
                   IN  IF setting(name) = {} THEN KVPair(name, value) \in Defaults
                       ELSE value = SetTo(calls[Max(setting(name))])
              /\ \A name \in (UNION {Naming(calls[i]) : i \in effective}) \cup {d.key : d \in Defaults} :
                   \E i \in headers : SameName(LineName(lines[i]), name)
              /\ cookies = baked
              /\ \A i \in effective : calls[i].call = "send" => body = calls[i].text
              /\ (\A i \in effective : calls[i].call # "send") => body = <<>>

-----------------------------------------------------------------------------
Init == asked = [kind |-> "nothing"]

Ask(questions) == asked.kind = "nothing" /\ asked' \in questions

AskRoute == Ask(RouteQuestions)
AskQuery == Ask(QueryQuestions)
AskRequest == Ask(RequestQuestions)
AskForm == Ask(FormQuestions)
AskResponse == Ask(ResponseQuestions)

Next == AskRoute \/ AskQuery \/ AskRequest \/ AskForm \/ AskResponse
Spec == Init /\ [][Next]_asked

=============================================================================
