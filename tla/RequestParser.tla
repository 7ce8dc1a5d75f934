---------------------------- MODULE RequestParser ----------------------------
(***************************************************************************)
(* From the bytes of one request to what a handler asks of it: the reading *)
(* handleClient does itself to cut requests out of the connection          *)
(* (Server.cpp), RequestParser (Request.cpp), the cookies and look-ups of  *)
(* Request (Request.h), and the key the rate limiter takes from it.        *)
(*                                                                         *)
(* KVList's constructor leaves open which of two spellings of one name     *)
(* stays, so parseRequest is the set of requests it may return.            *)
(***************************************************************************)
EXTENDS KVList

Methods == {"GET", "HEAD", "POST", "PUT", "DELETE", "CONNECT", "OPTIONS", "TRACE", "PATCH"}

parseRequestMethod(t) == IF \E m \in Methods : t = <<m>> THEN t[1] ELSE "UNKNOWN"

\* A mutant: emplace, which keeps what is there.
MutAssigned(pairs) ==
  [k \in {pairs[i].key : i \in DOMAIN pairs} |->
     pairs[Min({i \in DOMAIN pairs : pairs[i].key = k})].value]

\* An unordered_map after map[key] = value for each pair in turn.
Assigned(pairs) ==
  [k \in {pairs[i].key : i \in DOMAIN pairs} |->
     pairs[Max({i \in DOMAIN pairs : pairs[i].key = k})].value]

\* std::stoul, but for a sign: the number, or nothing when it throws.
stoul(t) ==
  LET s == trim(t)
      digits == {n \in 1..Len(s) : \A i \in 1..n : s[i] \in DOMAIN Digit}
      value[n \in 0..Len(s)] == IF n = 0 THEN 0 ELSE 10 * value[n - 1] + Digit[s[n]]
  IN  IF digits = {} THEN {} ELSE {value[Max(digits)]}

-----------------------------------------------------------------------------
(* What handleClient reads for itself.                                     *)

\* The first place where the name and ": " stand, in whatever line; empty if
\* there is none.
findHeader(raw, headerName) ==
  LET pos == find(toLower(raw), toLower(headerName) \o <<":", " ">>, 1)
      valueStart == pos + Len(headerName) + 2
      valueEnd == find(raw, <<CRLF>>, valueStart)
  IN  IF pos = 0 \/ valueEnd = 0 THEN <<>> ELSE SubSeq(raw, valueStart, valueEnd - 1)

\* A mutant: the value is compared as it was sent.
MutIsKeepAlive(rawRequest) == findHeader(rawRequest, <<"Connection">>) # <<"close">>

isKeepAlive(rawRequest) == toLower(findHeader(rawRequest, <<"Connection">>)) # <<"close">>

\* The first request in pendingData, cut after the body its head announces;
\* empty while it is not all there, or when its length is not a number.
RawRequest(pendingData) ==
  LET headerEnd == find(pendingData, <<CRLF, CRLF>>, 1)
      header == SubSeq(pendingData, 1, headerEnd + 1)
      announced == findHeader(header, <<"Content-Length">>)
      body == IF announced = <<>> THEN {0} ELSE stoul(announced)
  IN  IF headerEnd # 0 /\ \E n \in body : headerEnd + 1 + n <= Len(pendingData)
      THEN SubSeq(pendingData, 1, headerEnd + 1 + CHOOSE n \in body : TRUE)
      ELSE <<>>

-----------------------------------------------------------------------------
(* RequestParser.                                                          *)

\* What stands behind a second '=' of a pair is lost.
parseQueryString(query) ==
  LET pairs == NonEmpty(getlines(query, "&"))
      KeyAndValue(kv) ==
        [key |-> urlDecode(kv[1]), value |-> IF Len(kv) > 1 THEN urlDecode(kv[2]) ELSE <<>>]
  IN  Assigned([i \in DOMAIN pairs |-> KeyAndValue(getlines(pairs[i], "="))])

UpToBlank(lines) ==
  LET blank == {i \in DOMAIN lines : lines[i] = <<>>}
  IN  IF blank = {} THEN lines ELSE SubSeq(lines, 1, Min(blank) - 1)

\* The header lines of a request, or of a part of a form.  A line with no ':'
\* or with nothing behind it is dropped; a later line replaces an earlier one
\* with exactly the same key.
HeaderMap(lines) ==
  LET headers == UpToBlank(lines)
      KeyAndValue(line) ==
        LET key == getlines(line, ":")[1]
            value == From(line, Len(key) + 2)
        IN  [key |-> key, value |-> IF value # <<>> /\ value[1] = " " THEN Tail(value) ELSE value]
      Read(line) == IF Len(getlines(line, ":")) >= 2 THEN <<KeyAndValue(line)>> ELSE <<>>
  IN  Assigned(FlattenSeq([i \in DOMAIN headers |-> Read(headers[i])]))

\* The cookies of Request's constructor: one per name without case.
Cookies(headers) ==
  LET Add(list, item) ==
        LET sep == find(item, <<"=">>, 1)
        IN  IF sep = 0 THEN list
            ELSE set(list, trim(SubSeq(item, 1, sep - 1)), trim(From(item, sep + 1)))
      items(value) == getlines(value, ";")
  IN  IF get(headers, <<"Cookie">>) = {} THEN NoPairs
      ELSE FoldLeft(Add, NoPairs, items(CHOOSE v \in get(headers, <<"Cookie">>) : TRUE))

MakeRequest(method, path, body, headers, query) ==
  [valid |-> TRUE, method |-> method, path |-> path, body |-> body, headers |-> headers,
   query |-> query, cookies |-> Cookies(headers)]

\* Request{}: getIsValid() is false.
Invalid == [valid |-> FALSE]

\* fullPath up to the '?', and what stands behind it.
PathOf(fullPath) == split(fullPath, "?")[1]
QueryOf(fullPath) == From(fullPath, Len(PathOf(fullPath)) + 2)

parseRequest(data) ==
  LET lines == split(data, CRLF)
      firstLine == getlines(lines[1], " ")
      method == parseRequestMethod(firstLine[1])
      headerMap == HeaderMap(Tail(lines))
      contentLength ==
        IF <<"Content-Length">> \in DOMAIN headerMap THEN stoul(headerMap[<<"Content-Length">>])
        ELSE {0}
      bodyStart == find(data, <<CRLF, CRLF>>, 1) + 2
      body(n) == IF bodyStart > 2 /\ bodyStart + n - 1 <= Len(data)
                 THEN SubSeq(data, bodyStart, bodyStart + n - 1) ELSE <<>>
  IN  IF Len(firstLine) # 3 \/ method = "UNKNOWN" \/ contentLength = {} THEN {Invalid}
      ELSE {MakeRequest(method, PathOf(firstLine[2]), body(c.length), c.headers, c.query) :
              c \in [length : contentLength, headers : KVLists(headerMap),
                     query : KVLists(parseQueryString(QueryOf(firstLine[2])))]}

getHeader(request, name) == get(request.headers, name)
getQuery(request, name) == get(request.query, name)
getCookie(request, name) == get(request.cookies, name)

\* The key Ratelimit counts a request under, from the peer's address (empty when
\* it is not known); empty where it answers 400 instead.
RateKey(trustProxy, peer, request, ipHeader) ==
  IF peer = <<>> \/ ~trustProxy THEN peer
  ELSE IF getHeader(request, ipHeader) = {} THEN <<>>
  ELSE extractClientIPFromXFF(CHOOSE v \in getHeader(request, ipHeader) : TRUE)

=============================================================================
