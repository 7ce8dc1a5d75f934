-------------------------------- MODULE Text --------------------------------
(***************************************************************************)
(* The string helpers of src/src/Joseph/Helpers.h.                         *)
(*                                                                         *)
(* A text is a sequence of symbols.  A symbol is one character, or a word  *)
(* no helper ever looks into ("Content-Length", "multipart/form-data"), or *)
(* the pair "\r\n", which the code only ever searches for as a pair.       *)
(* Lengths count symbols.                                                  *)
(***************************************************************************)
EXTENDS Integers, Sequences, FiniteSets, SequencesExt

CRLF == "\r\n"

\* The function a table of pairs writes down.
Lookup(table) == [c \in {pair[1] : pair \in table} |-> (CHOOSE pair \in table : pair[1] = c)[2]]

-----------------------------------------------------------------------------
\* std::tolower in the C locale, on the letters and words the inputs use.
Capitals ==
  { <<"A", "a">>, <<"B", "b">>, <<"C", "c">>, <<"X-", "x-">>, <<"Host", "host">>, <<"Cookie", "cookie">>,
    <<"Connection", "connection">>, <<"Content-Length", "content-length">>, <<"Close", "close">>,
    <<"Content-Type", "content-type">> }
Small == Lookup(Capitals)

toLower(s) == [i \in DOMAIN s |-> IF s[i] \in DOMAIN Small THEN Small[s[i]] ELSE s[i]]

\* std::string::find: where t first occurs in s at or after from; 0 is npos.
find(s, t, from) ==
  LET at == {i \in from..(Len(s) - Len(t) + 1) : SubSeq(s, i, i + Len(t) - 1) = t}
  IN  IF at = {} THEN 0 ELSE Min(at)

From(s, i) == SubSeq(s, i, Len(s))

\* The overload that searches for a delimiter: every piece, empty ones too.
split(s, delimiter) ==
  LET pieces[n \in 0..Len(s)] ==
        IF n = 0 THEN << <<>> >>
        ELSE LET earlier == pieces[n - 1]
             IN  IF s[n] = delimiter THEN Append(earlier, <<>>)
                 ELSE [earlier EXCEPT ![Len(earlier)] = Append(@, s[n])]
  IN  pieces[Len(s)]

\* The overload that reads with getline: nothing comes after a last delimiter.
getlines(s, delimiter) ==
  LET pieces == split(s, delimiter)
  IN  IF Last(pieces) = <<>> THEN Front(pieces) ELSE pieces

\* What a loop that skips empty pieces pushes.
NonEmpty(pieces) ==
  FlattenSeq([i \in DOMAIN pieces |-> IF pieces[i] = <<>> THEN <<>> ELSE <<pieces[i]>>])

splitPath(path) == NonEmpty(getlines(path, "/"))

trim(s) ==
  LET solid == {i \in DOMAIN s : s[i] \notin {" ", "\t", CRLF}}
  IN  IF solid = {} THEN <<>> ELSE SubSeq(s, Min(solid), Max(solid))

extractClientIPFromXFF(xff) == trim(split(xff, ",")[1])

-----------------------------------------------------------------------------
Digits == { <<"0", 0>>, <<"1", 1>>, <<"2", 2>>, <<"3", 3>>, <<"4", 4>>, <<"5", 5>>, <<"6", 6>>, <<"7", 7>>,
            <<"8", 8>>, <<"9", 9>> }
Digit == Lookup(Digits)

HexDigits == Digits \cup
  { <<"A", 10>>, <<"B", 11>>, <<"C", 12>>, <<"D", 13>>, <<"E", 14>>, <<"F", 15>>,
    <<"a", 10>>, <<"b", 11>>, <<"c", 12>>, <<"d", 13>>, <<"e", 14>>, <<"f", 15>> }
HexDigit == Lookup(HexDigits)

\* The codes of the characters the inputs escape; every other byte is one symbol.
Codes == { <<" ", 32>>, <<"%", 37>>, <<"&", 38>>, <<"+", 43>>, <<"=", 61>>, <<"A", 65>>, <<"a", 97>> }
Code == Lookup(Codes)
OtherByte == "other"

Byte(code) == IF \E c \in DOMAIN Code : Code[c] = code THEN CHOOSE c \in DOMAIN Code : Code[c] = code
              ELSE OtherByte

\* What operator>> with std::hex reads from the two symbols after a '%': the
\* set of its value, or empty when the extraction fails.  It takes one digit if
\* no second follows, skips a leading blank, and obeys a sign.
HexValue(a, b) ==
  CASE a \in DOMAIN HexDigit /\ b \in DOMAIN HexDigit -> {16 * HexDigit[a] + HexDigit[b]}
    [] a \in DOMAIN HexDigit /\ b \notin DOMAIN HexDigit /\ <<a, b>> \notin {<<"0", "x">>, <<"0", "X">>}
         -> {HexDigit[a]}
    [] a \in {" ", "+"} /\ b \in DOMAIN HexDigit -> {HexDigit[b]}
    [] a = "-" /\ b \in DOMAIN HexDigit -> {(256 - HexDigit[b]) % 256}
    [] OTHER -> {}

\* An escape that does not parse loses its '%' and nothing else; one that is cut
\* off by the end of the text is copied.
urlDecode(s) ==
  LET rest[i \in 1..(Len(s) + 1)] ==
        IF i > Len(s) THEN <<>>
        ELSE IF s[i] = "%" /\ i + 2 <= Len(s)
        THEN LET value == HexValue(s[i + 1], s[i + 2])
             IN  IF value = {} THEN rest[i + 1]
                 ELSE <<Byte(CHOOSE v \in value : TRUE)>> \o rest[i + 3]
        ELSE <<IF s[i] = "+" THEN " " ELSE s[i]>> \o rest[i + 1]
  IN  rest[1]

=============================================================================
