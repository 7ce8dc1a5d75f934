----------------------------- MODULE ResponseText -----------------------------
(***************************************************************************)
(* Response.cpp: what a handler may put in a response, and the text it is  *)
(* sent as.  A call that throws leaves the response as it was.             *)
(***************************************************************************)
EXTENDS KVList

NewLines == {CRLF, "\r", "\n"}
containsNewlines(value) == \E i \in DOMAIN value : value[i] \in NewLines

\* The symbols std::isprint refuses, and ':'.
validHeaderName(header) ==
  header # <<>> /\ \A i \in DOMAIN header : header[i] \notin NewLines \cup {":", "\t", OtherByte}
\* A mutant: only names are looked at.
MutValidHeaderValue(value) == TRUE

validHeaderValue(value) == ~containsNewlines(value)

validCookieToken(value) == value # <<>> /\ ~containsNewlines(value)

to_string(n) ==
  LET digit(d) == CHOOSE c \in DOMAIN Digit : Digit[c] = d
      decimal[i \in 0..n] ==
        IF i < 10 THEN <<digit(i)>> ELSE decimal[i \div 10] \o <<digit(i % 10)>>
  IN  decimal[n]

\* Response().  Of the fixed headers one stands for them all.
NewResponse ==
  [statusCode |-> 200, rawBody |-> <<>>, setCookieHeaders |-> <<>>, finalized |-> FALSE,
   headers |-> set(set(NoPairs, <<"Content-Type">>, <<"text/html">>), <<"Content-Length">>, <<"0">>)]

setHeader(r, header, value) ==
  IF r.finalized \/ ~validHeaderName(header) \/ ~validHeaderValue(value) THEN r
  ELSE [r EXCEPT !.headers = set(@, header, value)]

\* The Set-Cookie line.  expires is the date put_time writes, or empty.
CookieLine(name, value, opts) ==
  LET Option(given, words) == IF given THEN <<";", " ">> \o words ELSE <<>>
  IN  name \o <<"=">> \o value
      \o Option(opts.domain # <<>>, <<"Domain", "=">> \o opts.domain)
      \o Option(opts.path # <<>>, <<"Path", "=">> \o opts.path)
      \o Option(opts.expires # <<>>, <<"Expires", "=">> \o opts.expires)
      \o Option(opts.maxAge >= 0, <<"Max-Age", "=">> \o to_string(Max({0, opts.maxAge})))
      \o Option(opts.secure, <<"Secure">>)
      \o Option(opts.httpOnly, <<"HttpOnly">>)
      \o Option(opts.sameSite # <<>>, <<"SameSite", "=">> \o opts.sameSite)
      \o Option(opts.partitioned, <<"Partitioned">>)

setCookie(r, name, value, opts) ==
  IF \/ r.finalized
     \/ ~validCookieToken(name)
     \/ ~validCookieToken(value)
     \/ \E v \in {opts.domain, opts.path, opts.sameSite} : ~validHeaderValue(v)
  THEN r
  ELSE [r EXCEPT !.setCookieHeaders = Append(@, CookieLine(name, value, opts))]

send(r, content) ==
  IF r.finalized THEN r
  ELSE [r EXCEPT !.finalized = TRUE, !.rawBody = content,
                 !.headers = set(@, <<"Content-Length">>, to_string(Len(content)))]

redirect(r, url, perm) ==
  IF r.finalized \/ ~validHeaderValue(url) THEN r
  ELSE [r EXCEPT !.finalized = TRUE, !.statusCode = IF perm THEN 301 ELSE 302,
                 !.headers = set(@, <<"Location">>, url)]

\* The text of a response: one for every order getAll may list the headers in.
HeaderText(pair) == pair.key \o <<":", " ">> \o pair.value \o <<CRLF>>
toRawResponse(r) ==
  { <<"HTTP/1.1", " ">> \o to_string(r.statusCode) \o <<" ", "reason", CRLF>>
      \o FlattenSeq([i \in DOMAIN pairs |-> HeaderText(pairs[i])])
      \o FlattenSeq([i \in DOMAIN r.setCookieHeaders |->
                       HeaderText(KVPair(<<"Set-Cookie">>, r.setCookieHeaders[i]))])
      \o <<CRLF>> \o r.rawBody : pairs \in getAll(r.headers) }

=============================================================================
