--------------------------- MODULE ConnectionProofs ---------------------------
(***************************************************************************)
(* What Connection.tla guarantees for every client, however long, and      *)
(* however its bytes are cut up: the buffer is bounded, requests that say  *)
(* where they end are served whole, once and in order, and the client sees *)
(* the orderly exchange of Exchange.tla.                                   *)
(*                                                                         *)
(* The wire is a flattened sequence, defined by recursion; what it looks   *)
(* like is proved by induction (TextLemmas).                           *)
(***************************************************************************)
EXTENDS Connection, TextLemmas

-----------------------------------------------------------------------------
(* The wire.                                                               *)

ByteOf(rs) == [req : 1 .. Len(rs), at : Nat \ {0}, ends : BOOLEAN]
Size(rs, i) == rs[i].head + rs[i].body

\* start[i] is the place of the last byte before request i.
Layout(rs, start) ==
  /\ start[1] = 0 /\ start[Len(rs) + 1] = Len(Wire(rs))
  /\ \A i \in 1 .. Len(rs) : start[i + 1] = start[i] + Size(rs, i)
  /\ \A i \in 1 .. Len(rs), k \in Nat :
       k \in 1 .. Size(rs, i) => /\ start[i] + k <= Len(Wire(rs))
                                 /\ Wire(rs)[start[i] + k] = RequestBytes(rs, i)[k]

LEMMA StreamTypes ==
  ASSUME NEW rs \in Streams
  PROVE  /\ rs \in Seq(RequestType) /\ Len(rs) \in Nat /\ DOMAIN rs = 1 .. Len(rs)
         /\ \A i \in 1 .. Len(rs) :
              /\ rs[i] \in RequestType /\ rs[i].head \in Nat \ {0} /\ rs[i].body \in Nat
              /\ rs[i].length \in Nat /\ Size(rs, i) \in Nat \ {0}
<1>1. rs \in Seq(RequestType) /\ \A i \in DOMAIN rs : rs[i].head > 0
  BY ConnectionAssumption
<1>2. Len(rs) \in Nat /\ DOMAIN rs = 1 .. Len(rs)
  BY <1>1, LenProperties
<1>3. \A i \in 1 .. Len(rs) : rs[i] \in RequestType
  BY <1>1, ElementOfSeq
<1>4. \A i \in 1 .. Len(rs) : /\ rs[i].head \in Nat /\ rs[i].body \in Nat
                              /\ rs[i].length \in Nat
  BY <1>3 DEF RequestType
<1>5. \A i \in 1 .. Len(rs) : rs[i].head \in Nat \ {0}
  BY <1>1, <1>2, <1>4
<1>6. \A i \in 1 .. Len(rs) : Size(rs, i) \in Nat \ {0}
  BY <1>4, <1>5 DEF Size
<1> QED
  BY <1>1, <1>2, <1>3, <1>4, <1>5, <1>6

LEMMA RequestBytesTypes ==
  ASSUME NEW rs \in Streams, NEW i \in 1 .. Len(rs)
  PROVE  /\ RequestBytes(rs, i) \in Seq(ByteOf(rs))
         /\ Len(RequestBytes(rs, i)) = Size(rs, i)
         /\ \A k \in 1 .. Size(rs, i) :
              RequestBytes(rs, i)[k] = [req |-> i, at |-> k, ends |-> k = rs[i].head]
<1>1. Size(rs, i) \in Nat
  BY StreamTypes
<1>2. \A k \in 1 .. Size(rs, i) : /\ [req |-> i, at |-> k, ends |-> k = rs[i].head] \in ByteOf(rs)
                                  /\ RequestBytes(rs, i)[k] = [req |-> i, at |-> k, ends |-> k = rs[i].head]
  BY <1>1 DEF ByteOf, RequestBytes, Size
<1>3. RequestBytes(rs, i) \in [1 .. Size(rs, i) -> ByteOf(rs)]
  BY <1>2 DEF RequestBytes, Size
<1>4. RequestBytes(rs, i) \in Seq(ByteOf(rs)) /\ Len(RequestBytes(rs, i)) = Size(rs, i)
  BY <1>1, <1>3, FunctionIsSeq, Zenon
<1>5. \A k \in 1 .. Size(rs, i) :
        RequestBytes(rs, i)[k] = [req |-> i, at |-> k, ends |-> k = rs[i].head]
  BY <1>2
<1> QED
  BY <1>4, <1>5

\* The requests of a stream, one after the other, fill the wire.
Starts(rs) == CHOOSE start \in [1 .. Len(rs) + 1 -> Nat] : Layout(rs, start)
Before(rs, n) == Starts(rs)[n]

LEMMA EmptyLayout ==
  ASSUME NEW rs \in Streams, Len(rs) = 0
  PROVE  Wire(rs) \in Seq(ByteOf(rs)) /\ \E start \in [1 .. Len(rs) + 1 -> Nat] : Layout(rs, start)
<1> DEFINE seqs == [i \in DOMAIN rs |-> RequestBytes(rs, i)]
           start == [i \in 1 .. Len(rs) + 1 |-> 0]
<1>1. DOMAIN rs = 1 .. 0
  BY StreamTypes
<1>2. seqs \in [1 .. 0 -> ByteOf(rs)]
  BY <1>1
<1>3. seqs \in Seq(ByteOf(rs)) /\ Len(seqs) = 0
  BY <1>2, FunctionIsSeq, Zenon, 0 \in Nat
<1>4. Wire(rs) = FlattenSeq(seqs)
  BY DEF Wire
<1> HIDE DEF seqs
<1>5. FlattenSeq(seqs) = seqs
  BY <1>3, Zenon DEF FlattenSeq
<1>6. Wire(rs) \in Seq(ByteOf(rs)) /\ Len(Wire(rs)) = 0
  BY <1>3, <1>4, <1>5
<1>7. start[1] = 0 /\ start[Len(rs) + 1] = 0 /\ start \in [1 .. Len(rs) + 1 -> Nat]
  OBVIOUS
<1> HIDE DEF start
<1>8. Layout(rs, start)
  BY <1>6, <1>7 DEF Layout
<1> QED
  BY <1>6, <1>7, <1>8

LEMMA WireLayout ==
  ASSUME NEW rs \in Streams
  PROVE  /\ Wire(rs) \in Seq(ByteOf(rs))
         /\ \E start \in [1 .. Len(rs) + 1 -> Nat] : Layout(rs, start)
<1>1. CASE Len(rs) = 0
  BY <1>1, EmptyLayout
<1>2. CASE Len(rs) # 0
  <2> DEFINE seqs == [i \in DOMAIN rs |-> RequestBytes(rs, i)]
             S == ByteOf(rs)
             N == Len(rs)
  <2>1. N \in Nat /\ N # 0 /\ DOMAIN rs = 1 .. N
    BY <1>2, StreamTypes
  <2>2. \A i \in 1 .. N : /\ RequestBytes(rs, i) \in Seq(S)
                          /\ Len(RequestBytes(rs, i)) = Size(rs, i)
                          /\ Size(rs, i) \in Nat \ {0}
    BY RequestBytesTypes, StreamTypes
  <2>3. /\ seqs \in [1 .. N -> Seq(S)]
        /\ \A i \in 1 .. N : seqs[i] = RequestBytes(rs, i)
    BY <2>1, <2>2
  <2>4. Wire(rs) = FlattenSeq(seqs)
    BY DEF Wire
  <2> HIDE DEF seqs, S, N
  <2>5. seqs \in Seq(Seq(S)) /\ Len(seqs) = N
    BY <2>1, <2>3, FunctionIsSeq
  <2>6. PICK flat \in [1 .. N -> Seq(S)] :
          /\ flat[1] = seqs[1]
          /\ \A i \in 2 .. N : flat[i] = flat[i - 1] \o seqs[i]
          /\ FlattenSeq(seqs) = flat[N]
    BY <2>1, <2>5, Flattens
  <2> DEFINE start == [i \in 1 .. N + 1 |-> IF i = 1 THEN 0 ELSE Len(flat[i - 1])]
  <2>7. ASSUME NEW i \in 1 .. N PROVE flat[i] \in Seq(S) /\ Len(flat[i]) \in Nat
    BY <2>6, LenProperties
  <2>8. start \in [1 .. N + 1 -> Nat]
    <3>1. ASSUME NEW i \in 1 .. N + 1, i # 1 PROVE Len(flat[i - 1]) \in Nat
      <4>1. i - 1 \in 1 .. N
        BY <2>1, <3>1
      <4> QED
        BY <2>7, <4>1
    <3> QED
      BY <3>1
  <2>9. start[1] = 0 /\ 1 \in 1 .. N /\ 1 \in 1 .. N + 1
    BY <2>1
  <2>10. ASSUME NEW i \in 1 .. N PROVE start[i + 1] = Len(flat[i])
    <3>1. i + 1 \in 1 .. N + 1 /\ i + 1 # 1 /\ (i + 1) - 1 = i
      BY <2>1
    <3>2. start[i + 1] = Len(flat[(i + 1) - 1])
      BY <3>1, Zenon
    <3> QED
      BY <3>1, <3>2
  <2> HIDE DEF start
  <2>11. ASSUME NEW i \in 1 .. N PROVE start[i + 1] = start[i] + Size(rs, i)
    <3>1. CASE i = 1
      BY <2>2, <2>3, <2>6, <2>9, <2>10, <3>1
    <3>2. CASE i # 1
      <4>1. i \in 2 .. N /\ i - 1 \in 1 .. N /\ (i - 1) + 1 = i
        BY <2>1, <3>2
      <4>2. flat[i] = flat[i - 1] \o seqs[i] /\ flat[i - 1] \in Seq(S) /\ seqs[i] \in Seq(S)
        BY <2>2, <2>3, <2>6, <4>1
      <4>3. Len(flat[i]) = Len(flat[i - 1]) + Len(seqs[i])
        BY <4>2, ConcatProperties
      <4>4. start[i] = Len(flat[i - 1])
        BY <2>10, <4>1
      <4> QED
        BY <2>2, <2>3, <2>10, <4>3, <4>4
    <3> QED
      BY <3>1, <3>2
  <2> DEFINE Placed(m) ==
               \A i \in 1 .. m, k \in Nat :
                 k \in 1 .. Size(rs, i) => /\ start[i] + k <= Len(flat[m])
                                           /\ flat[m][start[i] + k] = RequestBytes(rs, i)[k]
             T == {m \in Nat : m + 1 \in 1 .. N => Placed(m + 1)}
  <2>12. Placed(1)
    BY <2>2, <2>3, <2>6, <2>9
  <2>13. ASSUME NEW m \in 1 .. N, m + 1 \in 1 .. N, Placed(m) PROVE Placed(m + 1)
    <3>1. flat[m + 1] = flat[m] \o seqs[m + 1]
      <4>1. m + 1 \in 2 .. N /\ (m + 1) - 1 = m
        BY <2>1, <2>13
      <4> QED
        BY <2>6, <4>1
    <3>2. /\ flat[m] \in Seq(S) /\ seqs[m + 1] \in Seq(S)
          /\ Len(seqs[m + 1]) = Size(rs, m + 1) /\ seqs[m + 1] = RequestBytes(rs, m + 1)
          /\ Size(rs, m + 1) \in Nat /\ Len(flat[m]) \in Nat
      BY <2>2, <2>3, <2>7, <2>13
    <3>3. /\ Len(flat[m + 1]) = Len(flat[m]) + Size(rs, m + 1)
          /\ \A p \in 1 .. Len(flat[m]) + Size(rs, m + 1) :
               flat[m + 1][p] = IF p <= Len(flat[m]) THEN flat[m][p]
                                ELSE RequestBytes(rs, m + 1)[p - Len(flat[m])]
      <4> DEFINE a == flat[m]
                 b == RequestBytes(rs, m + 1)
      <4>1. a \in Seq(S) /\ b \in Seq(S) /\ Len(b) = Size(rs, m + 1)
        BY <3>2
      <4>2. flat[m + 1] = a \o b
        BY <3>1, <3>2
      <4> HIDE DEF a, b
      <4>3. /\ Len(a \o b) = Len(a) + Len(b)
            /\ \A p \in 1 .. Len(a) + Len(b) :
                 (a \o b)[p] = IF p <= Len(a) THEN a[p] ELSE b[p - Len(a)]
        BY <4>1, ConcatProperties
      <4>4. /\ Len(flat[m + 1]) = Len(a) + Size(rs, m + 1)
            /\ \A p \in 1 .. Len(a) + Size(rs, m + 1) :
                 flat[m + 1][p] = IF p <= Len(a) THEN a[p] ELSE b[p - Len(a)]
        BY <4>1, <4>2, <4>3, Zenon
      <4> QED
        BY <4>4 DEF a, b
    <3> TAKE i \in 1 .. m + 1, k \in Nat
    <3> HAVE k \in 1 .. Size(rs, i)
    <3>4. i \in 1 .. N /\ start[i] \in Nat
      BY <2>1, <2>8, <2>13
    <3>5. CASE i = m + 1
      <4>1. start[i] = Len(flat[m])
        BY <2>10, <3>5
      <4>2. /\ start[i] + k \in 1 .. Len(flat[m]) + Size(rs, m + 1)
            /\ ~(start[i] + k <= Len(flat[m])) /\ (start[i] + k) - Len(flat[m]) = k
        BY <3>2, <3>5, <4>1
      <4>3. flat[m + 1][start[i] + k] = RequestBytes(rs, m + 1)[(start[i] + k) - Len(flat[m])]
        BY <3>3, <4>2, Zenon
      <4>4. start[i] + k <= Len(flat[m + 1])
        BY <3>2, <3>3, <4>2
      <4> QED
        BY <3>5, <4>2, <4>3, <4>4
    <3>6. CASE i # m + 1
      <4>1. i \in 1 .. m
        BY <3>6
      <4>2. /\ start[i] + k <= Len(flat[m])
            /\ flat[m][start[i] + k] = RequestBytes(rs, i)[k]
        BY <2>13, <4>1
      <4>3. start[i] + k \in 1 .. Len(flat[m]) + Size(rs, m + 1)
        BY <3>2, <3>4, <4>2
      <4>4. flat[m + 1][start[i] + k] = flat[m][start[i] + k]
        BY <3>3, <4>2, <4>3, Zenon
      <4>5. start[i] + k <= Len(flat[m + 1])
        BY <3>2, <3>3, <4>3
      <4> QED
        BY <4>2, <4>4, <4>5, Zenon
    <3> QED
      BY <3>5, <3>6
  <2> HIDE DEF Placed
  <2>14. 0 \in T
    BY <2>12
  <2>15. ASSUME NEW m \in Nat, m \in T PROVE m + 1 \in T
    <3> SUFFICES ASSUME (m + 1) + 1 \in 1 .. N PROVE Placed((m + 1) + 1)
      OBVIOUS
    <3>1. m + 1 \in 1 .. N
      BY <2>1
    <3> QED
      BY <2>13, <2>15, <3>1
  <2> HIDE DEF T
  <2>16. N - 1 \in Nat /\ (N - 1) + 1 = N /\ N \in 1 .. N
    BY <2>1
  <2>17. N - 1 \in T
    BY <2>14, <2>15, <2>16, Induct
  <2>18. Placed(N)
    BY <2>16, <2>17 DEF T
  <2>19. Wire(rs) = flat[N] /\ Wire(rs) \in Seq(S)
    BY <2>4, <2>6, <2>7, <2>16
  <2>20. start[N + 1] = Len(Wire(rs))
    BY <2>10, <2>16, <2>19
  <2>21. \A i \in 1 .. N, k \in Nat :
           k \in 1 .. Size(rs, i) => /\ start[i] + k <= Len(Wire(rs))
                                     /\ Wire(rs)[start[i] + k] = RequestBytes(rs, i)[k]
    BY <2>18, <2>19 DEF Placed
  <2>22. Layout(rs, start)
    BY <2>9, <2>11, <2>20, <2>21 DEF Layout, N
  <2> QED
    BY <2>8, <2>19, <2>22 DEF N, S
<1> QED
  BY <1>1, <1>2

-----------------------------------------------------------------------------
(* Types, and the bound on the buffer.                                     *)

\* The named parts of TypeOK, its sets of sequences out of sight.
ByteSeqs == Seq(Bytes)
HandledSeqs == Seq([raw : ByteSeqs, valid : BOOLEAN, body : Nat])
ResponseSeqs == Seq([status : {200, 400, 408, 413}, keepAlive : BOOLEAN])

Types ==
  /\ stream \in Streams /\ arrived \in 0 .. Len(Wire(stream))
  /\ pendingData \in ByteSeqs /\ rawRequest \in ByteSeqs
  /\ pc \in Ways /\ requestsReceived \in Nat
  /\ keepAlive \in BOOLEAN /\ stopRequested \in BOOLEAN
  /\ handled \in HandledSeqs /\ responses \in ResponseSeqs
  /\ handledAtStop \in Nat

LEMMA TypesIsTypeOK == Types <=> TypeOK
BY DEF Types, TypeOK, ByteSeqs, HandledSeqs, ResponseSeqs

LEMMA Remainder ==
  ASSUME NEW x \in Nat, NEW m \in Nat \ {0}
  PROVE  x % m \in Nat /\ (x < m => x % m = x)
OBVIOUS

LEMMA WireTypes ==
  ASSUME stream \in Streams
  PROVE  /\ Len(Wire(stream)) \in Nat /\ Bytes \subseteq ByteOf(stream)
         /\ \A k \in 1 .. Len(Wire(stream)) : Wire(stream)[k] \in Bytes
<1>1. Wire(stream) \in Seq(ByteOf(stream))
  BY WireLayout
<1>2. Len(Wire(stream)) \in Nat
  BY <1>1, LenProperties
<1>3. \A k \in 1 .. Len(Wire(stream)) : Wire(stream)[k] \in ByteOf(stream)
  BY <1>1, ElementOfSeq
<1> QED
  BY <1>2, <1>3 DEF Bytes

LEMMA BytesFacts ==
  ASSUME stream \in Streams, NEW s \in ByteSeqs
  PROVE  /\ Len(s) \in Nat /\ DOMAIN s = 1 .. Len(s)
         /\ \A k \in 1 .. Len(s) :
              /\ s[k] \in Bytes
              /\ s[k].req \in 1 .. Len(stream) /\ s[k].at \in Nat \ {0} /\ s[k].ends \in BOOLEAN
<1>1. Len(s) \in Nat /\ DOMAIN s = 1 .. Len(s)
  BY LenProperties DEF ByteSeqs
<1>2. \A k \in 1 .. Len(s) : s[k] \in Bytes
  BY ElementOfSeq DEF ByteSeqs
<1>3. \A b \in ByteOf(stream) :
        b.req \in 1 .. Len(stream) /\ b.at \in Nat \ {0} /\ b.ends \in BOOLEAN
  BY DEF ByteOf
<1> QED
  BY <1>1, <1>2, <1>3, WireTypes

LEMMA FirstHeaderEnd ==
  ASSUME Types, HeaderEnds # {}
  PROVE  /\ HeaderEnd \in HeaderEnds /\ HeaderEnd \in 1 .. Len(pendingData)
         /\ \A j \in HeaderEnds : HeaderEnd <= j
<1>1. pendingData \in ByteSeqs /\ stream \in Streams
  BY DEF Types
<1>2. HeaderEnds \subseteq 1 .. Len(pendingData) /\ Len(pendingData) \in Nat
  BY <1>1, BytesFacts DEF HeaderEnds
<1>3. HeaderEnds \subseteq Nat
  BY <1>2
<1> HIDE DEF HeaderEnds
<1>4. \E m \in HeaderEnds : \A j \in HeaderEnds : m <= j
  BY <1>3, Least
<1>5. HeaderEnd \in HeaderEnds /\ \A j \in HeaderEnds : HeaderEnd <= j
  BY <1>4 DEF HeaderEnd
<1> QED
  BY <1>2, <1>5

LEMMA RequestLengthType ==
  ASSUME Types, HeaderEnds # {}
  PROVE  RequestLength(HeaderEnd) \in Nat
<1> DEFINE h == HeaderEnd
<1>1. h \in 1 .. Len(pendingData) /\ Len(pendingData) \in Nat
  BY FirstHeaderEnd, BytesFacts DEF Types
<1> HIDE DEF h
<1>2. pendingData[h].req \in 1 .. Len(stream)
  BY <1>1, BytesFacts DEF Types
<1>3. Framed(h) \in Nat
  BY <1>2, StreamTypes DEF Framed, Types
<1>4. (h + Framed(h)) % SizeModulus \in Nat
  BY <1>1, <1>3, Remainder, ConnectionAssumption
<1>5. RequestLength(h) \in Nat
  BY <1>1, <1>4 DEF RequestLength
<1> QED
  BY <1>5 DEF h

\* What is cut out, and what is left.
LEMMA Cuts ==
  ASSUME stream \in Streams, NEW s \in ByteSeqs, NEW n \in 0 .. Len(s)
  PROVE  /\ SubSeq(s, 1, n) \in ByteSeqs /\ Len(SubSeq(s, 1, n)) = n
         /\ \A k \in 1 .. n : SubSeq(s, 1, n)[k] = s[k]
         /\ SubSeq(s, n + 1, Len(s)) \in ByteSeqs
         /\ Len(SubSeq(s, n + 1, Len(s))) = Len(s) - n
         /\ \A k \in 1 .. Len(s) - n : SubSeq(s, n + 1, Len(s))[k] = s[n + k]
<1>1. Len(s) \in Nat /\ \A k \in 1 .. Len(s) : s[k] \in Bytes
  BY BytesFacts
<1>2. /\ SubSeq(s, 1, n) \in ByteSeqs
      /\ Len(SubSeq(s, 1, n)) = IF 1 <= n THEN n - 1 + 1 ELSE 0
      /\ \A k \in 1 .. n - 1 + 1 : SubSeq(s, 1, n)[k] = s[1 + k - 1]
  <2>1. \A k \in 1 .. n : s[k] \in Bytes
    BY <1>1
  <2>2. n \in Int /\ 1 \in Int
    BY <1>1
  <2> QED
    BY <2>1, <2>2, SubSeqProperties DEF ByteSeqs
<1>3. /\ SubSeq(s, n + 1, Len(s)) \in ByteSeqs
      /\ Len(SubSeq(s, n + 1, Len(s))) = IF n + 1 <= Len(s) THEN Len(s) - (n + 1) + 1 ELSE 0
      /\ \A k \in 1 .. Len(s) - (n + 1) + 1 : SubSeq(s, n + 1, Len(s))[k] = s[(n + 1) + k - 1]
  <2>1. \A k \in n + 1 .. Len(s) : s[k] \in Bytes
    BY <1>1
  <2>2. n + 1 \in Int /\ Len(s) \in Int
    BY <1>1
  <2> QED
    BY <2>1, <2>2, SubSeqProperties DEF ByteSeqs
<1>4. /\ Len(SubSeq(s, 1, n)) = n
      /\ \A k \in 1 .. n : k \in 1 .. n - 1 + 1 /\ 1 + k - 1 = k
  BY <1>1, <1>2
<1>5. /\ Len(SubSeq(s, n + 1, Len(s))) = Len(s) - n
      /\ \A k \in 1 .. Len(s) - n : k \in 1 .. Len(s) - (n + 1) + 1 /\ (n + 1) + k - 1 = n + k
  BY <1>1, <1>3
<1> QED
  BY <1>2, <1>3, <1>4, <1>5

\* What recv() adds to the buffer.
LEMMA Grows ==
  ASSUME stream \in Streams, NEW s \in ByteSeqs, NEW a \in Nat, NEW n \in Nat \ {0},
         a + n <= Len(Wire(stream))
  PROVE  LET grown == s \o SubSeq(Wire(stream), a + 1, a + n) IN
         /\ grown \in ByteSeqs /\ Len(grown) = Len(s) + n
         /\ \A k \in 1 .. Len(s) : grown[k] = s[k]
         /\ \A k \in 1 .. n : grown[Len(s) + k] = Wire(stream)[a + k]
<1> DEFINE t == SubSeq(Wire(stream), a + 1, a + n)
<1>1. Len(s) \in Nat /\ Len(Wire(stream)) \in Nat
  BY BytesFacts, WireTypes
<1>2. /\ t \in ByteSeqs /\ Len(t) = IF a + 1 <= a + n THEN a + n - (a + 1) + 1 ELSE 0
      /\ \A k \in 1 .. a + n - (a + 1) + 1 : t[k] = Wire(stream)[(a + 1) + k - 1]
  <2>1. \A k \in a + 1 .. a + n : Wire(stream)[k] \in Bytes
    <3>1. \A k \in a + 1 .. a + n : k \in 1 .. Len(Wire(stream))
      BY <1>1
    <3> QED
      BY <3>1, WireTypes
  <2>2. a + 1 \in Int /\ a + n \in Int
    OBVIOUS
  <2> QED
    BY <2>1, <2>2, SubSeqProperties DEF ByteSeqs
<1> HIDE DEF t
<1>3. /\ a + n - (a + 1) + 1 = n /\ a + 1 <= a + n
      /\ \A k \in 1 .. n : (a + 1) + k - 1 = a + k
  OBVIOUS
<1>4. Len(t) = n /\ \A k \in 1 .. n : t[k] = Wire(stream)[a + k]
  <2>1. Len(t) = n
    BY <1>2, <1>3
  <2>2. \A k \in 1 .. n : t[k] = Wire(stream)[(a + 1) + k - 1]
    BY <1>2, <1>3, Zenon
  <2> QED
    BY <1>3, <2>1, <2>2
<1>5. t \in ByteSeqs
  BY <1>2
<1>6. /\ s \o t \in ByteSeqs /\ Len(s \o t) = Len(s) + Len(t)
      /\ \A i \in 1 .. Len(s) + Len(t) :
           (s \o t)[i] = IF i <= Len(s) THEN s[i] ELSE t[i - Len(s)]
  BY <1>5, ConcatProperties DEF ByteSeqs
<1>7. \A k \in 1 .. Len(s) : k \in 1 .. Len(s) + Len(t) /\ k <= Len(s)
  BY <1>1, <1>4
<1>8. \A k \in 1 .. n : /\ Len(s) + k \in 1 .. Len(s) + Len(t) /\ ~(Len(s) + k <= Len(s))
                        /\ (Len(s) + k) - Len(s) = k
  BY <1>1, <1>4
<1>9. \A k \in 1 .. Len(s) : (s \o t)[k] = s[k]
  BY <1>6, <1>7
<1>10. \A k \in 1 .. n : (s \o t)[Len(s) + k] = t[k]
  BY <1>6, <1>8
<1> QED
  BY <1>4, <1>6, <1>9, <1>10 DEF t

LEMMA TypesInit == Init => Types
<1> SUFFICES ASSUME Init PROVE Types
  OBVIOUS
<1>1. <<>> \in ByteSeqs /\ <<>> \in HandledSeqs /\ <<>> \in ResponseSeqs
  BY EmptySeq DEF ByteSeqs, HandledSeqs, ResponseSeqs
<1>2. stream \in Streams
  BY DEF Init
<1>3. arrived \in 0 .. Len(Wire(stream))
  BY <1>2, WireTypes DEF Init
<1>4. /\ pendingData \in ByteSeqs /\ rawRequest \in ByteSeqs
      /\ handled \in HandledSeqs /\ responses \in ResponseSeqs
  BY <1>1 DEF Init
<1>5. /\ pc \in Ways /\ requestsReceived \in Nat /\ handledAtStop \in Nat
      /\ keepAlive \in BOOLEAN /\ stopRequested \in BOOLEAN
  BY DEF Init, Ways
<1> QED
  BY <1>2, <1>3, <1>4, <1>5 DEF Types

LEMMA StreamStays ==
  ASSUME [Next]_vars
  PROVE  /\ stream' = stream
         /\ Bytes' = Bytes /\ ByteSeqs' = ByteSeqs /\ HandledSeqs' = HandledSeqs
<1>1. stream' = stream
  BY DEF Next, vars, LoopTop, FrameMore, FrameBad, FrameTooLarge, FrameTake, Receive,
         ReceiveTimeout, ReceiveEnd, Serve, Leave, StopRequest, Refuse
<1>2. Bytes' = Bytes
  BY <1>1 DEF Bytes
<1>3. ByteSeqs' = ByteSeqs
  BY <1>2 DEF ByteSeqs
<1>4. HandledSeqs' = HandledSeqs
  BY <1>3 DEF HandledSeqs
<1> QED
  BY <1>1, <1>2, <1>3, <1>4

LEMMA RefuseTypes ==
  ASSUME Types, NEW status \in {400, 408, 413}, Refuse(status)
  PROVE  /\ responses' \in ResponseSeqs /\ pc' \in Ways
         /\ Len(responses') = Len(responses) + 1 /\ Len(responses) \in Nat
         /\ DOMAIN responses = 1 .. Len(responses)
         /\ DOMAIN responses' = 1 .. Len(responses) + 1
         /\ \A k \in 1 .. Len(responses) : responses'[k] = responses[k]
         /\ responses'[Len(responses) + 1].keepAlive = FALSE
<1> DEFINE r == [status |-> status, keepAlive |-> FALSE]
           R == [status : {200, 400, 408, 413}, keepAlive : BOOLEAN]
<1>1. r \in R /\ responses \in Seq(R) /\ responses' = Append(responses, r)
  BY DEF Types, ResponseSeqs, Refuse
<1>2. r.keepAlive = FALSE
  OBVIOUS
<1>3. pc' \in Ways
  BY DEF Refuse, Ways
<1>4. ResponseSeqs = Seq(R)
  BY DEF ResponseSeqs
<1> HIDE DEF r, R
<1>5. /\ responses' \in Seq(R) /\ Len(responses') = Len(responses) + 1
      /\ \A k \in 1 .. Len(responses) : responses'[k] = responses[k]
      /\ responses'[Len(responses) + 1] = r
  BY <1>1, AppendProperties
<1>6. /\ Len(responses) \in Nat /\ DOMAIN responses = 1 .. Len(responses)
      /\ DOMAIN responses' = 1 .. Len(responses')
  BY <1>1, <1>5, LenProperties
<1> QED
  BY <1>2, <1>3, <1>4, <1>5, <1>6

\* What Serve appends to the two histories.
LEMMA ServeAppends ==
  ASSUME Types, Serve
  PROVE  \E valid, asked \in BOOLEAN :
           LET going == AnswerKeepAlive(valid, asked) IN
           /\ going \in BOOLEAN
           /\ keepAlive' = going
           /\ pc' = IF going THEN "top" ELSE "leave"
           /\ responses' \in ResponseSeqs /\ handled' \in HandledSeqs
           /\ Len(responses) \in Nat /\ Len(handled) \in Nat
           /\ Len(responses') = Len(responses) + 1 /\ Len(handled') = Len(handled) + 1
           /\ DOMAIN responses = 1 .. Len(responses)
           /\ DOMAIN responses' = 1 .. Len(responses) + 1
           /\ \A k \in 1 .. Len(responses) : responses'[k] = responses[k]
           /\ \A k \in 1 .. Len(handled) : handled'[k] = handled[k]
           /\ responses'[Len(responses) + 1].keepAlive = going
           /\ handled'[Len(handled) + 1].raw = rawRequest
<1> DEFINE R == [status : {200, 400, 408, 413}, keepAlive : BOOLEAN]
           H == [raw : ByteSeqs, valid : BOOLEAN, body : Nat]
<1>1. PICK valid, asked \in BOOLEAN :
        /\ Parses(rawRequest, valid)
        /\ AsksKeepAlive(rawRequest, asked)
        /\ keepAlive' = AnswerKeepAlive(valid, asked)
        /\ handled' = Append(handled, [raw |-> rawRequest, valid |-> valid,
                                       body |-> IF valid THEN ParsedBody(rawRequest) ELSE 0])
        /\ responses' = Append(responses,
                               [status |-> IF valid THEN 200 ELSE 400,
                                keepAlive |-> AnswerKeepAlive(valid, asked)])
        /\ requestsReceived' = requestsReceived + 1
        /\ pc' = IF AnswerKeepAlive(valid, asked) THEN "top" ELSE "leave"
  BY Zenon DEF Serve
<1> DEFINE r == [status |-> IF valid THEN 200 ELSE 400,
                 keepAlive |-> AnswerKeepAlive(valid, asked)]
           h == [raw |-> rawRequest, valid |-> valid,
                 body |-> IF valid THEN ParsedBody(rawRequest) ELSE 0]
<1>2. AnswerKeepAlive(valid, asked) \in BOOLEAN
  BY Zenon DEF AnswerKeepAlive
<1>3. ParsedBody(rawRequest) \in Nat
  <2> DEFINE q == stream[rawRequest[1].req]
  <2>1. rawRequest # <<>> => q.length \in Nat
    <3>1. ASSUME rawRequest # <<>> PROVE 1 \in 1 .. Len(rawRequest)
      BY <3>1, EmptySeq DEF Types, ByteSeqs
    <3>2. rawRequest # <<>> => rawRequest[1].req \in 1 .. Len(stream)
      BY <3>1, BytesFacts DEF Types
    <3> QED
      BY <3>2, StreamTypes DEF Types
  <2> QED
    BY <2>1, Zenon, 0 \in Nat DEF ParsedBody, StartsWell
<1>4. h \in H /\ h.raw = rawRequest
  BY <1>3 DEF Types
<1>5. r \in R /\ r.keepAlive = AnswerKeepAlive(valid, asked)
  BY <1>2
<1>6. ResponseSeqs = Seq(R) /\ HandledSeqs = Seq(H)
  BY DEF ResponseSeqs, HandledSeqs
<1>7. handled' = Append(handled, h) /\ responses' = Append(responses, r)
  BY <1>1
<1> HIDE DEF r, h, R, H
<1>8. responses \in Seq(R) /\ handled \in Seq(H)
  BY <1>6 DEF Types
<1>9. /\ responses' \in Seq(R) /\ Len(responses') = Len(responses) + 1
      /\ \A k \in 1 .. Len(responses) : responses'[k] = responses[k]
      /\ responses'[Len(responses) + 1] = r
  BY <1>5, <1>7, <1>8, AppendProperties
<1>10. /\ handled' \in Seq(H) /\ Len(handled') = Len(handled) + 1
       /\ \A k \in 1 .. Len(handled) : handled'[k] = handled[k]
       /\ handled'[Len(handled) + 1] = h
  BY <1>4, <1>7, <1>8, AppendProperties
<1>11. /\ Len(responses) \in Nat /\ Len(handled) \in Nat
       /\ DOMAIN responses = 1 .. Len(responses)
       /\ DOMAIN responses' = 1 .. Len(responses) + 1
  BY <1>8, <1>9, LenProperties
<1>12. /\ keepAlive' = AnswerKeepAlive(valid, asked)
       /\ pc' = IF AnswerKeepAlive(valid, asked) THEN "top" ELSE "leave"
  BY <1>1
<1> QED
  BY <1>2, <1>4, <1>5, <1>6, <1>9, <1>10, <1>11, <1>12, Zenon

LEMMA TypesNext == Types /\ [Next]_vars => Types'
<1> SUFFICES ASSUME Types, [Next]_vars PROVE Types'
  OBVIOUS
<1>0. /\ stream' \in Streams /\ Len(Wire(stream))' = Len(Wire(stream))
      /\ ByteSeqs' = ByteSeqs /\ HandledSeqs' = HandledSeqs /\ ResponseSeqs' = ResponseSeqs
  BY StreamStays DEF Types, ResponseSeqs
<1> USE DEF Types
<1>1. CASE UNCHANGED vars
  BY <1>0, <1>1 DEF vars
<1>2. CASE LoopTop \/ FrameMore \/ ReceiveEnd \/ Leave \/ StopRequest
  <2>1. Len(handled) \in Nat
    BY LenProperties DEF HandledSeqs
  <2> QED
    BY <1>0, <1>2, <2>1 DEF LoopTop, FrameMore, ReceiveEnd, Leave, StopRequest, Ways
<1>3. CASE FrameBad \/ FrameTooLarge \/ ReceiveTimeout
  <2>1. PICK status \in {400, 408, 413} :
          Refuse(status) /\ UNCHANGED <<arrived, pendingData>>
    BY <1>3 DEF FrameBad, FrameTooLarge, ReceiveTimeout
  <2>2. responses' \in ResponseSeqs /\ pc' \in Ways
    BY <2>1, RefuseTypes
  <2> QED
    BY <1>0, <2>1, <2>2 DEF Refuse
<1>4. CASE FrameTake
  <2> DEFINE n == RequestLength(HeaderEnd)
  <2>1. n \in Nat /\ n <= Len(pendingData) /\ Len(pendingData) \in Nat
    BY <1>4, RequestLengthType, BytesFacts DEF FrameTake
  <2>2. /\ rawRequest' = SubSeq(pendingData, 1, n)
        /\ pendingData' = SubSeq(pendingData, n + 1, Len(pendingData))
    BY <1>4 DEF FrameTake
  <2> HIDE DEF n
  <2>3. n \in 0 .. Len(pendingData)
    BY <2>1
  <2>4. rawRequest' \in ByteSeqs /\ pendingData' \in ByteSeqs
    BY <2>2, <2>3, Cuts
  <2> QED
    BY <1>0, <1>4, <2>4 DEF FrameTake, Ways
<1>5. CASE Receive
  <2>1. PICK n \in 1 .. ChunkSize :
          /\ arrived + n <= Len(Wire(stream)) /\ arrived' = arrived + n
          /\ pendingData' = pendingData \o SubSeq(Wire(stream), arrived + 1, arrived + n)
          /\ \/ Refuse(413)
             \/ /\ pc' = "frame"
                /\ UNCHANGED <<rawRequest, requestsReceived, keepAlive, stopRequested,
                               handled, responses, handledAtStop>>
    BY <1>5, Zenon DEF Receive
  <2>2. n \in Nat \ {0} /\ arrived \in Nat /\ Len(Wire(stream)) \in Nat
    BY WireTypes, ConnectionAssumption
  <2>3. pendingData' \in ByteSeqs
    BY <2>1, <2>2, Grows, Zenon DEF Types
  <2>4. arrived' \in 0 .. Len(Wire(stream))
    BY <2>1, <2>2
  <2>5. CASE Refuse(413)
    <3>1. responses' \in ResponseSeqs /\ pc' \in Ways
      BY <2>5, RefuseTypes
    <3> QED
      BY <1>0, <2>3, <2>4, <2>5, <3>1 DEF Refuse
  <2>6. CASE ~Refuse(413)
    BY <1>0, <2>1, <2>3, <2>4, <2>6 DEF Ways
  <2> QED
    BY <2>5, <2>6
<1>6. CASE Serve
  <2>1. /\ keepAlive' \in BOOLEAN /\ pc' \in {"top", "leave"}
        /\ responses' \in ResponseSeqs /\ handled' \in HandledSeqs
    BY <1>6, ServeAppends, Zenon
  <2>2. requestsReceived' = requestsReceived + 1
    BY <1>6 DEF Serve
  <2> QED
    BY <1>0, <1>6, <2>1, <2>2 DEF Serve, Ways
<1> QED
  BY <1>1, <1>2, <1>3, <1>4, <1>5, <1>6 DEF Next

LEMMA FrameTakeCuts ==
  ASSUME Types, FrameTake
  PROVE  LET n == RequestLength(HeaderEnd) IN
         /\ n \in 0 .. Len(pendingData) /\ n <= MaxRequestSize /\ Len(pendingData) \in Nat
         /\ Len(rawRequest') = n /\ Len(pendingData') = Len(pendingData) - n
         /\ \A k \in 1 .. n : rawRequest'[k] = pendingData[k]
         /\ \A k \in 1 .. Len(pendingData) - n : pendingData'[k] = pendingData[n + k]
<1> DEFINE n == RequestLength(HeaderEnd)
<1>1. n \in Nat /\ n <= Len(pendingData) /\ n <= MaxRequestSize /\ Len(pendingData) \in Nat
  BY RequestLengthType, BytesFacts DEF FrameTake, Types
<1>2. /\ rawRequest' = SubSeq(pendingData, 1, n)
      /\ pendingData' = SubSeq(pendingData, n + 1, Len(pendingData))
  BY DEF FrameTake
<1> HIDE DEF n
<1>3. n \in 0 .. Len(pendingData)
  BY <1>1
<1>4. stream \in Streams /\ pendingData \in ByteSeqs
  BY DEF Types
<1> QED
  BY <1>1, <1>2, <1>3, <1>4, Cuts DEF n

\* The guard of Receive, and what it leaves in the buffer.
LEMMA ReceiveGrows ==
  ASSUME Types, Receive
  PROVE  \E n \in Nat \ {0} :
           /\ arrived + n <= Len(Wire(stream)) /\ arrived' = arrived + n
           /\ Len(pendingData) \in Nat /\ Len(pendingData') = Len(pendingData) + n
           /\ \A k \in 1 .. Len(pendingData) : pendingData'[k] = pendingData[k]
           /\ \A k \in 1 .. n : pendingData'[Len(pendingData) + k] = Wire(stream)[arrived + k]
           /\ UNCHANGED rawRequest
           /\ \/ Refuse(413)
              \/ /\ Len(pendingData') <= MaxRequestSize
                 /\ pc' = "frame"
                 /\ UNCHANGED <<requestsReceived, keepAlive, stopRequested,
                                handled, responses, handledAtStop>>
<1>1. PICK n \in 1 .. ChunkSize :
        /\ arrived + n <= Len(Wire(stream)) /\ arrived' = arrived + n
        /\ pendingData' = pendingData \o SubSeq(Wire(stream), arrived + 1, arrived + n)
        /\ IF Len(pendingData \o SubSeq(Wire(stream), arrived + 1, arrived + n)) > MaxRequestSize
             THEN Refuse(413)
             ELSE /\ pc' = "frame"
                  /\ UNCHANGED <<stream, rawRequest, requestsReceived, keepAlive,
                                 stopRequested, handled, responses, handledAtStop>>
  BY Zenon DEF Receive
<1>2. n \in Nat \ {0} /\ arrived \in Nat
  BY WireTypes, ConnectionAssumption DEF Types
<1>3. stream \in Streams /\ pendingData \in ByteSeqs /\ Len(pendingData) \in Nat
  BY BytesFacts DEF Types
<1>4. /\ Len(pendingData') = Len(pendingData) + n
      /\ \A k \in 1 .. Len(pendingData) : pendingData'[k] = pendingData[k]
      /\ \A k \in 1 .. n : pendingData'[Len(pendingData) + k] = Wire(stream)[arrived + k]
  BY <1>1, <1>2, <1>3, Grows, Zenon
<1>5. \/ Refuse(413)
      \/ /\ ~(Len(pendingData') > MaxRequestSize)
         /\ pc' = "frame"
         /\ UNCHANGED <<rawRequest, requestsReceived, keepAlive, stopRequested,
                        handled, responses, handledAtStop>>
  BY <1>1, Zenon
<1>6. UNCHANGED rawRequest
  BY <1>5 DEF Refuse
<1>7. ~(Len(pendingData') > MaxRequestSize) => Len(pendingData') <= MaxRequestSize
  BY <1>2, <1>3, <1>4, ConnectionAssumption
<1> QED
  BY <1>1, <1>2, <1>3, <1>4, <1>5, <1>6, <1>7

\* The bound: only Receive adds to the buffer, and it looks at the length.
LEMMA BoundNext == Types /\ BufferBounded /\ [Next]_vars => BufferBounded'
<1> SUFFICES ASSUME Types, BufferBounded, [Next]_vars PROVE BufferBounded'
  OBVIOUS
<1>1. CASE \/ LoopTop \/ FrameMore \/ ReceiveEnd \/ Leave \/ StopRequest \/ Serve
           \/ UNCHANGED vars
  <2>1. UNCHANGED <<pendingData, rawRequest>> /\ (pc = "closed" => pc' = "closed")
    BY <1>1 DEF LoopTop, FrameMore, ReceiveEnd, Leave, StopRequest, Serve, vars
  <2> QED
    BY <2>1 DEF BufferBounded
<1>2. CASE FrameBad \/ FrameTooLarge \/ ReceiveTimeout
  <2>1. pc' = "closed" /\ UNCHANGED rawRequest
    BY <1>2 DEF FrameBad, FrameTooLarge, ReceiveTimeout, Refuse
  <2> QED
    BY <2>1 DEF BufferBounded
<1>3. CASE FrameTake
  <2>1. pc = "frame"
    BY <1>3 DEF FrameTake
  <2> DEFINE n == RequestLength(HeaderEnd)
  <2>2. /\ n \in 0 .. Len(pendingData) /\ n <= MaxRequestSize /\ Len(pendingData) \in Nat
        /\ Len(rawRequest') = n /\ Len(pendingData') = Len(pendingData) - n
    BY <1>3, FrameTakeCuts, Zenon
  <2> HIDE DEF n
  <2> QED
    BY <2>1, <2>2, ConnectionAssumption DEF BufferBounded
<1>4. CASE Receive
  <2>1. /\ UNCHANGED rawRequest
        /\ Refuse(413) \/ Len(pendingData') <= MaxRequestSize
    BY <1>4, ReceiveGrows
  <2>2. Refuse(413) => pc' = "closed"
    BY DEF Refuse
  <2> QED
    BY <2>1, <2>2 DEF BufferBounded
<1> QED
  BY <1>1, <1>2, <1>3, <1>4 DEF Next

-----------------------------------------------------------------------------
(* The flow: how many requests, how many answers, and what a stop allows.  *)

FlowInv ==
  /\ requestsReceived = Len(handled)
  /\ pc # "closed" => Len(responses) = Len(handled)
  /\ Len(responses) \in Len(handled) .. Len(handled) + 1
  /\ stopRequested => Len(handled) \in handledAtStop .. handledAtStop + 1
  /\ stopRequested /\ pc \in {"frame", "recv", "serve"} => Len(handled) = handledAtStop

LEMMA HistoryLengths ==
  ASSUME Types
  PROVE  /\ Len(handled) \in Nat /\ DOMAIN handled = 1 .. Len(handled)
         /\ Len(responses) \in Nat /\ DOMAIN responses = 1 .. Len(responses)
BY LenProperties DEF Types, HandledSeqs, ResponseSeqs

LEMMA FlowNext == Types /\ FlowInv /\ [Next]_vars => FlowInv'
<1> SUFFICES ASSUME Types, FlowInv, [Next]_vars PROVE FlowInv'
  OBVIOUS
<1>0. Len(handled) \in Nat /\ Len(responses) \in Nat /\ handledAtStop \in Nat
  BY HistoryLengths DEF Types
<1> USE DEF FlowInv
<1>1. CASE LoopTop \/ FrameMore \/ ReceiveEnd \/ Leave \/ FrameTake \/ UNCHANGED vars
  <2>1. UNCHANGED <<requestsReceived, stopRequested, handled, responses, handledAtStop>>
    BY <1>1 DEF LoopTop, FrameMore, ReceiveEnd, Leave, FrameTake, vars
  <2>2. pc = "closed" => pc' = "closed"
    BY <1>1 DEF LoopTop, FrameMore, ReceiveEnd, Leave, FrameTake, vars
  <2>3. stopRequested /\ pc' \in {"frame", "recv", "serve"} => pc \in {"frame", "recv", "serve"}
    BY <1>1 DEF LoopTop, FrameMore, ReceiveEnd, Leave, FrameTake, vars
  <2> QED
    BY <1>0, <2>1, <2>2, <2>3
<1>2. ASSUME NEW status \in {400, 408, 413}, Refuse(status), pc \in {"frame", "recv"}
      PROVE  FlowInv'
  <2>1. /\ Len(responses') = Len(responses) + 1 /\ pc' = "closed"
        /\ UNCHANGED <<requestsReceived, stopRequested, handled, handledAtStop>>
    BY <1>2, RefuseTypes DEF Refuse
  <2> QED
    BY <1>0, <1>2, <2>1
<1>3. CASE FrameBad \/ FrameTooLarge \/ ReceiveTimeout
  BY <1>2, <1>3 DEF FrameBad, FrameTooLarge, ReceiveTimeout
<1>4. CASE Receive
  <2>1. pc = "recv"
    BY <1>4 DEF Receive
  <2>2. \/ Refuse(413)
        \/ /\ pc' = "frame"
           /\ UNCHANGED <<requestsReceived, stopRequested, handled, responses, handledAtStop>>
    BY <1>4, ReceiveGrows
  <2>3. CASE Refuse(413)
    BY <1>2, <2>1, <2>3
  <2>4. CASE ~Refuse(413)
    BY <1>0, <2>1, <2>2, <2>4
  <2> QED
    BY <2>3, <2>4
<1>5. CASE Serve
  <2>1. /\ Len(responses') = Len(responses) + 1 /\ Len(handled') = Len(handled) + 1
        /\ pc' \in {"top", "leave"}
    BY <1>5, ServeAppends, Zenon
  <2>2. /\ pc = "serve" /\ requestsReceived' = requestsReceived + 1
        /\ UNCHANGED <<stopRequested, handledAtStop>>
    BY <1>5 DEF Serve
  <2> QED
    BY <1>0, <2>1, <2>2
<1>6. CASE StopRequest
  BY <1>0, <1>6 DEF StopRequest
<1> QED
  BY <1>1, <1>3, <1>4, <1>5, <1>6 DEF Next

-----------------------------------------------------------------------------
(* The cuts: between two requests, what has arrived and was not cut out    *)
(* begins where the next request begins.                                   *)

Placement(n) ==
  /\ n \in 0 .. Len(stream)
  /\ Before(stream, n + 1) + Len(pendingData) = arrived
  /\ \A k \in 1 .. Len(pendingData) :
       pendingData[k] = Wire(stream)[Before(stream, n + 1) + k]

\* Requests cut out, the one being served included.
CutOut == Len(handled) + IF pc = "serve" THEN 1 ELSE 0

CutInv ==
  WellFramed =>
    /\ Placement(CutOut)
    /\ pc = "serve" => rawRequest = RequestBytes(stream, CutOut)
    /\ \A k \in 1 .. Len(handled) : handled[k].raw = RequestBytes(stream, k)

LEMMA Borders ==
  ASSUME NEW rs \in Streams
  PROVE  /\ \A n \in 1 .. Len(rs) + 1 : Before(rs, n) \in Nat
         /\ Before(rs, 1) = 0 /\ Before(rs, Len(rs) + 1) = Len(Wire(rs))
         /\ \A i \in 1 .. Len(rs) : Before(rs, i + 1) = Before(rs, i) + Size(rs, i)
         /\ \A i \in 1 .. Len(rs), k \in Nat :
              k \in 1 .. Size(rs, i) =>
                Wire(rs)[Before(rs, i) + k] = [req |-> i, at |-> k, ends |-> k = rs[i].head]
<1> DEFINE start == Starts(rs)
<1>1. start \in [1 .. Len(rs) + 1 -> Nat] /\ Layout(rs, start)
  BY WireLayout DEF Starts
<1> HIDE DEF start
<1>2. \A n : Before(rs, n) = start[n]
  BY DEF Before, start
<1>3. \A n \in 1 .. Len(rs) + 1 : Before(rs, n) \in Nat
  BY <1>1, <1>2
<1>4. /\ Before(rs, 1) = 0 /\ Before(rs, Len(rs) + 1) = Len(Wire(rs))
      /\ \A i \in 1 .. Len(rs) : Before(rs, i + 1) = Before(rs, i) + Size(rs, i)
  BY <1>1, <1>2 DEF Layout
<1>5. ASSUME NEW i \in 1 .. Len(rs), NEW k \in 1 .. Size(rs, i), k \in Nat
      PROVE  Wire(rs)[Before(rs, i) + k] = [req |-> i, at |-> k, ends |-> k = rs[i].head]
  <2>1. Wire(rs)[Before(rs, i) + k] = RequestBytes(rs, i)[k]
    BY <1>1, <1>2, <1>5 DEF Layout
  <2>2. RequestBytes(rs, i)[k] = [req |-> i, at |-> k, ends |-> k = rs[i].head]
    BY RequestBytesTypes
  <2> QED
    BY <2>1, <2>2
<1> QED
  BY <1>3, <1>4, <1>5

\* The first header block that ends in the buffer is the next request's.
LEMMA NextHeader ==
  ASSUME Types, NEW n \in Nat, Placement(n), HeaderEnds # {}
  PROVE  /\ n + 1 \in 1 .. Len(stream)
         /\ HeaderEnd = stream[n + 1].head /\ HeaderEnd <= Len(pendingData)
         /\ pendingData[HeaderEnd].req = n + 1
<1> DEFINE B == Before(stream, n + 1)
           L == Len(pendingData)
           head == stream[n + 1].head
<1>1. stream \in Streams /\ Len(stream) \in Nat /\ n \in 0 .. Len(stream)
  BY StreamTypes DEF Types, Placement
<1>2. L \in Nat /\ DOMAIN pendingData = 1 .. L
  BY BytesFacts DEF Types
<1>3. HeaderEnd \in HeaderEnds /\ HeaderEnd \in 1 .. L /\ \A j \in HeaderEnds : HeaderEnd <= j
  BY FirstHeaderEnd
<1>4. /\ HeaderEnds = {k \in 1 .. L : pendingData[k].ends}
      /\ B + L = arrived
      /\ \A k \in 1 .. L : pendingData[k] = Wire(stream)[B + k]
  BY <1>2 DEF HeaderEnds, Placement
<1>5. B \in Nat /\ arrived <= Len(Wire(stream)) /\ Len(Wire(stream)) \in Nat
  BY <1>1, Borders, WireTypes DEF Types
<1>6. n # Len(stream)
  <2> SUFFICES ASSUME n = Len(stream) PROVE FALSE
    OBVIOUS
  <2>1. B = Len(Wire(stream))
    BY <1>1, Borders
  <2> HIDE DEF B, L
  <2> QED
    BY <1>2, <1>3, <1>4, <1>5, <2>1
<1>7. n + 1 \in 1 .. Len(stream)
  BY <1>1, <1>6
<1>8. head \in Nat \ {0} /\ Size(stream, n + 1) \in Nat /\ head <= Size(stream, n + 1)
  BY <1>1, <1>7, StreamTypes DEF Size
<1>9. ASSUME NEW k \in 1 .. L, k <= Size(stream, n + 1)
      PROVE  pendingData[k] = [req |-> n + 1, at |-> k, ends |-> k = head]
  <2>1. k \in Nat /\ k \in 1 .. Size(stream, n + 1)
    BY <1>8, <1>9
  <2>2. Wire(stream)[B + k] = [req |-> n + 1, at |-> k, ends |-> k = head]
    BY <1>1, <1>7, <2>1, Borders
  <2> QED
    BY <1>4, <2>2, Zenon
<1> HIDE DEF B, L, head, HeaderEnds, HeaderEnd
<1>10. head <= HeaderEnd
  <2> SUFFICES ASSUME ~(head <= HeaderEnd) PROVE FALSE
    OBVIOUS
  <2>1. HeaderEnd <= Size(stream, n + 1) /\ HeaderEnd # head
    BY <1>3, <1>8
  <2> DEFINE b == pendingData[HeaderEnd]
  <2>2. b = [req |-> n + 1, at |-> HeaderEnd, ends |-> HeaderEnd = head]
    BY <1>3, <1>9, <2>1, Zenon
  <2>3. HeaderEnd \in HeaderEnds => b.ends
    BY <1>4
  <2> HIDE DEF b
  <2>4. b.ends = (HeaderEnd = head)
    BY <2>2, Zenon
  <2> QED
    BY <1>3, <2>1, <2>3, <2>4, Zenon
<1>11. head \in 1 .. L
  BY <1>2, <1>3, <1>8, <1>10
<1> DEFINE b == pendingData[head]
<1>12. b = [req |-> n + 1, at |-> head, ends |-> head = head]
  BY <1>8, <1>9, <1>11, Zenon
<1>13. b.req = n + 1 /\ b.ends
  <2> HIDE DEF b
  <2>1. b.req = n + 1 /\ b.ends = (head = head)
    BY <1>12, Zenon
  <2> QED
    BY <2>1, Zenon
<1>14. head \in HeaderEnds
  BY <1>4, <1>11, <1>13
<1>15. HeaderEnd = head
  BY <1>3, <1>8, <1>10, <1>14
<1> QED
  BY <1>7, <1>11, <1>13, <1>15 DEF L, head

\* The length the framing loop works out is the length of the request.
LEMMA NextLength ==
  ASSUME Types, WellFramed, NEW n \in Nat, Placement(n), HeaderEnds # {}
  PROVE  n + 1 \in 1 .. Len(stream) /\ RequestLength(HeaderEnd) = Size(stream, n + 1)
<1> DEFINE q == stream[n + 1]
<1>1. /\ n + 1 \in 1 .. Len(stream) /\ HeaderEnd = q.head
      /\ pendingData[HeaderEnd].req = n + 1
  BY NextHeader
<1>2. /\ DOMAIN stream = 1 .. Len(stream)
      /\ q.head \in Nat /\ q.body \in Nat /\ q.length \in Nat
  BY <1>1, StreamTypes DEF Types
<1>3. /\ \/ q.spelling \in {"exact", "lower"} /\ q.length = q.body
         \/ q.spelling = "absent" /\ q.body = 0
      /\ q.head + q.body < SizeModulus
  BY <1>1, <1>2 DEF WellFramed
<1>4. /\ FramingSees(HeaderEnd) <=> q.spelling \in {"exact", "lower"}
      /\ Framed(HeaderEnd) = q.length
  BY <1>1 DEF FramingSees, Framed
<1>5. (q.head + q.body) % SizeModulus = q.head + q.body
  <2> DEFINE z == q.head + q.body
  <2>1. z \in Nat /\ z < SizeModulus /\ SizeModulus \in Nat \ {0}
    BY <1>2, <1>3, ConnectionAssumption
  <2> HIDE DEF z
  <2>2. z % SizeModulus = z
    BY <2>1, Remainder
  <2> QED
    BY <2>2 DEF z
<1>6. RequestLength(HeaderEnd) =
        IF q.spelling \in {"exact", "lower"} THEN (q.head + q.length) % SizeModulus ELSE q.head
  BY <1>1, <1>4, Zenon DEF RequestLength
<1>7. Size(stream, n + 1) = q.head + q.body
  BY DEF Size
<1> HIDE DEF q
<1>8. CASE q.spelling \in {"exact", "lower"}
  <2>1. q.length = q.body
    BY <1>3, <1>8
  <2> QED
    BY <1>1, <1>5, <1>6, <1>7, <1>8, <2>1
<1>9. CASE q.spelling \notin {"exact", "lower"}
  BY <1>1, <1>2, <1>3, <1>6, <1>7, <1>9
<1> QED
  BY <1>8, <1>9

\* Serving is cutting: the request leaves the buffer whole.
LEMMA TakeKeepsPlace ==
  ASSUME Types, WellFramed, NEW n \in Nat, Placement(n), FrameTake, Types'
  PROVE  Placement(n + 1)' /\ rawRequest' = RequestBytes(stream, n + 1)
<1> DEFINE z == Size(stream, n + 1)
           B == Before(stream, n + 1)
           C == Before(stream, (n + 1) + 1)
<1>1. n + 1 \in 1 .. Len(stream) /\ RequestLength(HeaderEnd) = z
  BY NextLength DEF FrameTake
<1>2. /\ z \in 0 .. Len(pendingData) /\ Len(pendingData) \in Nat
      /\ Len(rawRequest') = z /\ Len(pendingData') = Len(pendingData) - z
      /\ \A k \in 1 .. z : rawRequest'[k] = pendingData[k]
      /\ \A k \in 1 .. Len(pendingData) - z : pendingData'[k] = pendingData[z + k]
  BY <1>1, FrameTakeCuts
<1>3. stream \in Streams /\ stream' = stream /\ arrived' = arrived /\ arrived \in Nat
  BY WireTypes DEF FrameTake, Types
<1>4. B \in Nat /\ C = B + z /\ z \in Nat /\ Len(stream) \in Nat
  <2>1. n + 1 \in 1 .. Len(stream) + 1 /\ Len(stream) \in Nat
    BY <1>1, <1>3, StreamTypes
  <2> QED
    BY <1>1, <1>2, <1>3, <2>1, Borders
<1>5. /\ B + Len(pendingData) = arrived
      /\ \A k \in 1 .. Len(pendingData) : pendingData[k] = Wire(stream)[B + k]
  BY DEF Placement
<1>6. \A k \in 1 .. z : Wire(stream)[B + k] = RequestBytes(stream, n + 1)[k]
  <2> TAKE k \in 1 .. z
  <2>1. k \in Nat /\ k \in 1 .. Size(stream, n + 1)
    BY <1>4
  <2>2. Wire(stream)[B + k] = [req |-> n + 1, at |-> k, ends |-> k = stream[n + 1].head]
    BY <1>1, <1>3, <2>1, Borders
  <2>3. RequestBytes(stream, n + 1)[k] = [req |-> n + 1, at |-> k, ends |-> k = stream[n + 1].head]
    BY <1>1, <1>3, <2>1, RequestBytesTypes
  <2> QED
    BY <2>2, <2>3
<1> DEFINE bytes == RequestBytes(stream, n + 1)
<1>7. bytes \in Seq(ByteOf(stream)) /\ Len(bytes) = z
  BY <1>1, <1>3, RequestBytesTypes
<1>8. rawRequest' \in Seq(ByteOf(stream))
  <2>1. Bytes' = Bytes /\ Bytes \subseteq ByteOf(stream)
    BY <1>3, WireTypes DEF Bytes
  <2>2. \A k \in 1 .. z : rawRequest'[k] \in ByteOf(stream)
    <3>1. \A k \in 1 .. z : k \in 1 .. Len(pendingData)
      BY <1>2
    <3>2. \A k \in 1 .. Len(pendingData) : pendingData[k] \in Bytes
      BY <1>3, BytesFacts DEF Types
    <3> QED
      BY <1>2, <2>1, <3>1, <3>2
  <2>3. rawRequest' \in Seq(Bytes')
    BY DEF Types, ByteSeqs
  <2>4. rawRequest' \in [1 .. Len(rawRequest') -> Bytes']
    BY <2>3, LenProperties
  <2>5. rawRequest' \in [1 .. z -> ByteOf(stream)]
    BY <1>2, <2>1, <2>4
  <2> QED
    BY <1>4, <2>5, FunctionIsSeq
<1> HIDE DEF z, B, C, bytes
<1>9. rawRequest' = bytes
  <2>1. \A k \in 1 .. z : rawRequest'[k] = bytes[k]
    <3>1. \A k \in 1 .. z : k \in 1 .. Len(pendingData)
      BY <1>2
    <3>2. \A k \in 1 .. z : Wire(stream)[B + k] = bytes[k]
      BY <1>6 DEF bytes
    <3> QED
      BY <1>2, <1>5, <3>1, <3>2
  <2> QED
    BY <1>2, <1>7, <1>8, <2>1, SeqEqual
<1>10. C + Len(pendingData') = arrived'
  BY <1>2, <1>3, <1>4, <1>5
<1>11. \A k \in 1 .. Len(pendingData') : pendingData'[k] = Wire(stream)[C + k]
  <2> TAKE k \in 1 .. Len(pendingData')
  <2>1. /\ k \in 1 .. Len(pendingData) - z /\ z + k \in 1 .. Len(pendingData)
        /\ B + (z + k) = C + k
    BY <1>2, <1>4
  <2>2. pendingData'[k] = pendingData[z + k] /\ pendingData[z + k] = Wire(stream)[B + (z + k)]
    BY <1>2, <1>5, <2>1
  <2> QED
    BY <2>1, <2>2
<1>12. n + 1 \in 0 .. Len(stream)
  BY <1>1, <1>4
<1>13. Placement(n + 1)'
  BY <1>3, <1>10, <1>11, <1>12 DEF Placement, C
<1> QED
  BY <1>9, <1>13 DEF bytes

LEMMA ReceiveKeepsPlace ==
  ASSUME Types, NEW n \in Nat, Placement(n), Receive
  PROVE  Placement(n)'
<1> DEFINE B == Before(stream, n + 1)
           L == Len(pendingData)
<1>1. PICK m \in Nat \ {0} :
        /\ arrived' = arrived + m /\ L \in Nat /\ Len(pendingData') = L + m
        /\ \A k \in 1 .. L : pendingData'[k] = pendingData[k]
        /\ \A k \in 1 .. m : pendingData'[L + k] = Wire(stream)[arrived + k]
  BY ReceiveGrows
<1>2. /\ stream' = stream /\ B + L = arrived /\ n \in 0 .. Len(stream)
      /\ \A k \in 1 .. L : pendingData[k] = Wire(stream)[B + k]
  BY StreamStays DEF Next, Placement
<1>3. B \in Nat
  <2>1. stream \in Streams /\ n + 1 \in 1 .. Len(stream) + 1
    BY <1>2, StreamTypes DEF Types
  <2> QED
    BY <2>1, Borders
<1> HIDE DEF B, L
<1>4. B + Len(pendingData') = arrived'
  BY <1>1, <1>2, <1>3
<1>5. \A k \in 1 .. Len(pendingData') : pendingData'[k] = Wire(stream)[B + k]
  <2> TAKE k \in 1 .. Len(pendingData')
  <2>1. CASE k <= L
    <3>1. k \in 1 .. L
      BY <1>1, <2>1
    <3> QED
      BY <1>1, <1>2, <3>1
  <2>2. CASE ~(k <= L)
    <3>1. k - L \in 1 .. m /\ L + (k - L) = k /\ arrived + (k - L) = B + k
      BY <1>1, <1>2, <1>3, <2>2
    <3>2. pendingData'[L + (k - L)] = Wire(stream)[arrived + (k - L)]
      BY <1>1, <3>1, Zenon
    <3> QED
      BY <3>1, <3>2
  <2> QED
    BY <2>1, <2>2
<1> QED
  BY <1>2, <1>4, <1>5 DEF Placement, B

LEMMA CutInit == Init => CutInv
<1> SUFFICES ASSUME Init PROVE CutInv
  OBVIOUS
<1>1. /\ stream \in Streams /\ arrived = 0 /\ pendingData = <<>> /\ handled = <<>>
      /\ pc # "serve" /\ Len(handled) = 0 /\ Len(pendingData) = 0
  BY DEF Init
<1>2. CutOut = 0
  BY <1>1 DEF CutOut
<1>3. Placement(0)
  <2>1. Before(stream, 0 + 1) = 0 /\ Len(stream) \in Nat
    BY <1>1, Borders, StreamTypes
  <2> QED
    BY <1>1, <2>1 DEF Placement
<1> QED
  BY <1>1, <1>2, <1>3 DEF CutInv

LEMMA CutNext == Types /\ CutInv /\ [Next]_vars => CutInv'
<1> SUFFICES ASSUME Types, CutInv, [Next]_vars, WellFramed' PROVE CutInv'
  BY DEF CutInv
<1>1. /\ stream' = stream /\ stream \in Streams /\ WellFramed
      /\ \A k : RequestBytes(stream, k)' = RequestBytes(stream, k)
  <2>1. stream' = stream
    BY StreamStays
  <2> QED
    BY <2>1 DEF Types, WellFramed
<1>2. Types'
  BY TypesNext
<1>3. /\ Len(handled) \in Nat /\ CutOut \in Nat
      /\ CutOut = IF pc = "serve" THEN Len(handled) + 1 ELSE Len(handled)
  BY HistoryLengths DEF CutOut
<1>4. /\ Placement(CutOut)
      /\ pc = "serve" => rawRequest = RequestBytes(stream, CutOut)
      /\ \A k \in 1 .. Len(handled) : handled[k].raw = RequestBytes(stream, k)
  BY <1>1 DEF CutInv
<1>5. ASSUME NEW n \in Nat, n = CutOut', Placement(n)',
             pc' = "serve" => rawRequest' = RequestBytes(stream, n),
             \A k \in 1 .. Len(handled') : handled'[k].raw = RequestBytes(stream, k)
      PROVE  CutInv'
  <2>1. Placement(CutOut)'
    BY <1>5 DEF Placement
  <2>2. pc' = "serve" => rawRequest' = RequestBytes(stream, CutOut)'
    BY <1>1, <1>5 DEF RequestBytes
  <2>3. \A k \in 1 .. Len(handled') : handled'[k].raw = RequestBytes(stream, k)'
    BY <1>1, <1>5
  <2> QED
    BY <2>1, <2>2, <2>3 DEF CutInv
<1>6. ASSUME UNCHANGED <<arrived, pendingData>>, NEW n \in Nat, Placement(n)
      PROVE  Placement(n)'
  BY <1>1, <1>6 DEF Placement
<1>7. ASSUME UNCHANGED <<rawRequest, handled>>, Placement(CutOut)',
             pc' = "serve" <=> pc = "serve"
      PROVE  CutInv'
  <2>1. CutOut' = CutOut
    BY <1>7 DEF CutOut
  <2>2. rawRequest' = rawRequest /\ handled' = handled
    BY <1>7
  <2>3. pc' = "serve" => rawRequest' = RequestBytes(stream, CutOut)'
    <3>1. RequestBytes(stream, CutOut)' = RequestBytes(stream, CutOut)
      BY <1>1, <2>1 DEF RequestBytes
    <3> QED
      BY <1>4, <1>7, <2>2, <3>1
  <2>4. \A k \in 1 .. Len(handled') : handled'[k].raw = RequestBytes(stream, k)'
    BY <1>1, <1>4, <2>2
  <2> QED
    BY <1>7, <2>3, <2>4 DEF CutInv
<1>8. ASSUME UNCHANGED <<arrived, pendingData>> , CutOut' = CutOut PROVE Placement(CutOut)'
  BY <1>1, <1>4, <1>8 DEF Placement
<1>9. CASE LoopTop \/ FrameMore \/ ReceiveEnd \/ Leave \/ StopRequest \/ UNCHANGED vars
           \/ FrameBad \/ FrameTooLarge \/ ReceiveTimeout
  <2>1. /\ UNCHANGED <<rawRequest, handled, arrived, pendingData>>
        /\ pc' = "serve" <=> pc = "serve"
    BY <1>9 DEF LoopTop, FrameMore, ReceiveEnd, Leave, StopRequest, vars, FrameBad,
                FrameTooLarge, ReceiveTimeout, Refuse
  <2>2. CutOut' = CutOut
    BY <2>1 DEF CutOut
  <2> QED
    BY <1>7, <1>8, <2>1, <2>2
<1>10. CASE FrameTake
  <2>1. pc = "frame" /\ pc' = "serve" /\ handled' = handled
    BY <1>10 DEF FrameTake
  <2> PICK n \in Nat : n = CutOut
    BY <1>3
  <2>2. n + 1 \in Nat /\ n + 1 = CutOut'
    BY <1>3, <2>1 DEF CutOut
  <2>3. Placement(n)
    BY <1>4
  <2>4. Placement(n + 1)' /\ rawRequest' = RequestBytes(stream, n + 1)
    BY <1>1, <1>2, <1>10, <2>2, <2>3, TakeKeepsPlace
  <2>5. \A k \in 1 .. Len(handled') : handled'[k].raw = RequestBytes(stream, k)
    BY <1>4, <2>1
  <2> QED
    BY <1>5, <2>2, <2>4, <2>5
<1>11. CASE Receive
  <2>1. /\ UNCHANGED <<rawRequest, handled>>
        /\ pc = "recv" /\ pc' # "serve"
    BY <1>11, ReceiveGrows DEF Receive, Refuse
  <2>2. CutOut' = CutOut
    BY <2>1 DEF CutOut
  <2> PICK n \in Nat : n = CutOut
    BY <1>3
  <2>3. Placement(n)
    BY <1>4
  <2>4. Placement(n)'
    BY <1>11, <2>3, ReceiveKeepsPlace
  <2>5. Placement(CutOut)'
    BY <2>2, <2>4 DEF Placement
  <2> QED
    BY <1>7, <2>1, <2>5
<1>12. CASE Serve
  <2>1. /\ pc = "serve" /\ UNCHANGED <<arrived, pendingData>>
    BY <1>12 DEF Serve
  <2>2. /\ pc' # "serve" /\ Len(handled') = Len(handled) + 1
        /\ \A k \in 1 .. Len(handled) : handled'[k] = handled[k]
        /\ handled'[Len(handled) + 1].raw = rawRequest
    <3>1. /\ pc' \in {"top", "leave"} /\ Len(handled') = Len(handled) + 1
          /\ \A k \in 1 .. Len(handled) : handled'[k] = handled[k]
          /\ handled'[Len(handled) + 1].raw = rawRequest
      BY <1>12, ServeAppends, Zenon
    <3> QED
      BY <3>1
  <2>3. CutOut' = CutOut /\ CutOut = Len(handled) + 1
    BY <1>3, <2>1, <2>2 DEF CutOut
  <2>4. Placement(CutOut)'
    BY <1>8, <2>1, <2>3
  <2>5. ASSUME NEW k \in 1 .. Len(handled') PROVE handled'[k].raw = RequestBytes(stream, k)'
    <3>1. CASE k = Len(handled) + 1
      <4>1. rawRequest = RequestBytes(stream, k)
        BY <1>4, <2>1, <2>3, <3>1
      <4> QED
        BY <1>1, <2>2, <3>1, <4>1
    <3>2. CASE k # Len(handled) + 1
      <4>1. k \in 1 .. Len(handled)
        BY <1>3, <2>2, <3>2
      <4> QED
        BY <1>1, <1>4, <2>2, <4>1
    <3> QED
      BY <3>1, <3>2
  <2> QED
    BY <2>2, <2>4, <2>5 DEF CutInv
<1> QED
  BY <1>9, <1>10, <1>11, <1>12 DEF Next

-----------------------------------------------------------------------------
(* The invariant, and what it gives.                                       *)

ConnectionInv == Types /\ BufferBounded /\ FlowInv /\ CutInv

LEMMA InvInit == Init => ConnectionInv
<1> SUFFICES ASSUME Init PROVE ConnectionInv
  OBVIOUS
<1>1. Types /\ CutInv
  BY TypesInit, CutInit
<1>2. Len(pendingData) = 0 /\ Len(rawRequest) = 0 /\ Len(handled) = 0 /\ Len(responses) = 0
  BY DEF Init
<1>3. BufferBounded
  BY <1>2, ConnectionAssumption DEF BufferBounded
<1>4. FlowInv
  BY <1>2 DEF FlowInv, Init
<1> QED
  BY <1>1, <1>3, <1>4 DEF ConnectionInv

LEMMA InvNext == ConnectionInv /\ [Next]_vars => ConnectionInv'
BY TypesNext, BoundNext, FlowNext, CutNext DEF ConnectionInv

LEMMA Invariance == Spec => []ConnectionInv
BY InvInit, InvNext, PTL DEF Spec

\* Every variable keeps to its type: the request cut out, and each one handed
\* on, consists of bytes of the wire, and each response has one of the four
\* statuses.
THEOREM ConnectionTypeOK == Spec => []TypeOK
<1>1. ConnectionInv => TypeOK
  BY TypesIsTypeOK DEF ConnectionInv
<1> QED
  BY <1>1, Invariance, PTL

\* The buffer of a connection that is open, and the request cut out of it,
\* never exceed maxRequestSize (recv loop and framing in handleClient).
THEOREM ConnectionBufferBounded == Spec => []BufferBounded
<1>1. ConnectionInv => BufferBounded
  BY DEF ConnectionInv
<1> QED
  BY <1>1, Invariance, PTL

\* A client that says where its requests end has them served whole, once and
\* in order, whatever pieces they arrive in (framing in handleClient).
THEOREM ConnectionInOrder == Spec => []InOrder
<1>1. ConnectionInv => InOrder
  <2> SUFFICES ASSUME ConnectionInv, WellFramed, NEW k \in DOMAIN handled
               PROVE  k \in DOMAIN stream /\ handled[k].raw = RequestBytes(stream, k)
    BY DEF InOrder
  <2>1. DOMAIN handled = 1 .. Len(handled) /\ Len(handled) \in Nat
    BY HistoryLengths DEF ConnectionInv
  <2>2. Len(handled) <= CutOut /\ CutOut \in 0 .. Len(stream)
    BY <2>1 DEF ConnectionInv, CutInv, CutOut, Placement
  <2>3. DOMAIN stream = 1 .. Len(stream) /\ Len(stream) \in Nat
    BY StreamTypes DEF ConnectionInv, Types
  <2>4. handled[k].raw = RequestBytes(stream, k)
    BY <2>1 DEF ConnectionInv, CutInv
  <2> QED
    BY <2>1, <2>2, <2>3, <2>4
<1> QED
  BY <1>1, Invariance, PTL

-----------------------------------------------------------------------------
(* What the client sees.                                                   *)

AnswerType == [to : Nat, final : BOOLEAN]

LEMMA AnAnswer ==
  ASSUME NEW to \in Nat, NEW x
  PROVE  [to |-> to, final |-> ~x] \in AnswerType
<1> DEFINE final == ~x
<1>1. final \in BOOLEAN
  OBVIOUS
<1> HIDE DEF final
<1>2. [to |-> to, final |-> final] \in AnswerType
  BY <1>1 DEF AnswerType
<1> QED
  BY <1>2 DEF final

LEMMA HandledLength == Types => Len(handled) \in Nat
BY HistoryLengths

\* A response is for the request of its number, and a refusal for none.
LEMMA AnswersAre ==
  ConnectionInv =>
    /\ Answers \in Seq(AnswerType) /\ Len(Answers) = Len(responses)
    /\ \A k \in 1 .. Len(responses) :
         Answers[k] = [to |-> IF k > Len(handled) THEN 0 ELSE k,
                       final |-> ~responses[k].keepAlive]
<1> SUFFICES ASSUME ConnectionInv
             PROVE  /\ Answers \in Seq(AnswerType) /\ Len(Answers) = Len(responses)
                    /\ \A k \in 1 .. Len(responses) :
                         Answers[k] = [to |-> IF k > Len(handled) THEN 0 ELSE k,
                                       final |-> ~responses[k].keepAlive]
  OBVIOUS
<1>1. /\ Len(handled) \in Nat
      /\ Len(responses) \in Nat /\ DOMAIN responses = 1 .. Len(responses)
  BY HistoryLengths DEF ConnectionInv
<1>2. ASSUME NEW k \in 1 .. Len(responses)
      PROVE  AnswerTo(k) = IF k > Len(handled) THEN 0 ELSE k
  <2>1. ASSUME k <= Len(handled), WellFramed PROVE handled[k].raw[1].req = k
    <3>1. /\ k \in 1 .. Len(handled) /\ CutOut \in 0 .. Len(stream) /\ Len(handled) <= CutOut
          /\ stream \in Streams
      BY <1>1, <2>1 DEF ConnectionInv, CutInv, Placement, CutOut, Types
    <3>2. handled[k].raw = RequestBytes(stream, k)
      BY <2>1, <3>1 DEF ConnectionInv, CutInv
    <3>3. k \in 1 .. Len(stream)
      BY <1>1, <3>1, StreamTypes
    <3>4. 1 \in 1 .. Size(stream, k)
      BY <3>1, <3>3, StreamTypes
    <3> DEFINE b == RequestBytes(stream, k)[1]
    <3>5. b = [req |-> k, at |-> 1, ends |-> 1 = stream[k].head]
      BY <3>1, <3>3, <3>4, RequestBytesTypes
    <3> HIDE DEF b
    <3>6. b.req = k
      BY <3>5, Zenon
    <3> QED
      BY <3>2, <3>6 DEF b
  <2> QED
    BY <1>1, <2>1 DEF AnswerTo
<1>3. ASSUME NEW k \in 1 .. Len(responses)
      PROVE  /\ Answers[k] = [to |-> IF k > Len(handled) THEN 0 ELSE k,
                              final |-> ~responses[k].keepAlive]
             /\ Answers[k] \in AnswerType
  <2> DEFINE to == IF k > Len(handled) THEN 0 ELSE k
  <2>1. AnswerTo(k) = to /\ to \in Nat
    BY <1>1, <1>2
  <2>2. Answers[k] = [to |-> AnswerTo(k), final |-> ~responses[k].keepAlive]
    BY <1>1 DEF Answers
  <2> HIDE DEF to
  <2>4. Answers[k] = [to |-> to, final |-> ~responses[k].keepAlive]
    BY <2>1, <2>2, Zenon
  <2>5. Answers[k] \in AnswerType
    BY <2>1, <2>4, AnAnswer
  <2> QED
    BY <2>4, <2>5 DEF to
<1>4. Answers \in [1 .. Len(responses) -> AnswerType]
  <2>1. DOMAIN Answers = 1 .. Len(responses) /\ Answers = [k \in DOMAIN Answers |-> Answers[k]]
    BY <1>1 DEF Answers
  <2> QED
    BY <1>3, <2>1
<1>5. Answers \in Seq(AnswerType) /\ Len(Answers) = Len(responses)
  BY <1>1, <1>4, FunctionIsSeq
<1> QED
  BY <1>3, <1>5

\* One more response is one more answer.
LEMMA AnswersGrow ==
  ASSUME ConnectionInv, ConnectionInv', NEW to \in Nat, NEW final \in BOOLEAN,
         Len(responses') = Len(responses) + 1,
         \A k \in 1 .. Len(responses) : responses'[k] = responses[k],
         Len(responses) = Len(handled), Len(handled') >= Len(handled),
         to = (IF Len(responses) + 1 > Len(handled') THEN 0 ELSE Len(responses) + 1),
         final = ~responses'[Len(responses) + 1].keepAlive
  PROVE  Answers' = Append(Answers, [to |-> to, final |-> final])
<1> DEFINE n == Len(responses)
           e == [to |-> to, final |-> final]
<1>1. n \in Nat /\ Len(handled) \in Nat /\ Len(handled') \in Nat
  <2>1. Types /\ Types'
    BY DEF ConnectionInv
  <2>2. n \in Nat /\ Len(handled) \in Nat
    BY <2>1, HistoryLengths
  <2>3. (Types => Len(handled) \in Nat)'
    BY HandledLength, PTL
  <2> QED
    BY <2>1, <2>2, <2>3
<1>2. /\ Answers \in Seq(AnswerType) /\ Len(Answers) = n
      /\ \A k \in 1 .. n :
           Answers[k] = [to |-> IF k > Len(handled) THEN 0 ELSE k,
                         final |-> ~responses[k].keepAlive]
  BY AnswersAre
<1>3. /\ Answers' \in Seq(AnswerType) /\ Len(Answers') = n + 1
      /\ \A k \in 1 .. n + 1 :
           Answers'[k] = [to |-> IF k > Len(handled') THEN 0 ELSE k,
                          final |-> ~responses'[k].keepAlive]
  <2>1. (/\ Answers \in Seq(AnswerType) /\ Len(Answers) = Len(responses)
         /\ \A k \in 1 .. Len(responses) :
              Answers[k] = [to |-> IF k > Len(handled) THEN 0 ELSE k,
                            final |-> ~responses[k].keepAlive])'
    BY AnswersAre, PTL
  <2> QED
    BY <2>1 DEF AnswerType
<1>4. e \in AnswerType
  BY DEF AnswerType
<1>5. \A k \in 1 .. n : Answers'[k] = Answers[k]
  <2> TAKE k \in 1 .. n
  <2>1. k \in 1 .. n + 1 /\ ~(k > Len(handled)) /\ ~(k > Len(handled'))
    BY <1>1
  <2>2. Answers'[k] = [to |-> k, final |-> ~responses'[k].keepAlive]
    BY <1>3, <2>1, Zenon
  <2>3. Answers[k] = [to |-> k, final |-> ~responses[k].keepAlive]
    BY <1>2, <2>1, Zenon
  <2>4. responses'[k] = responses[k]
    OBVIOUS
  <2> QED
    BY <2>2, <2>3, <2>4, Zenon
<1>6. Answers'[n + 1] = e
  <2>1. n + 1 \in 1 .. n + 1
    BY <1>1
  <2>2. Answers'[n + 1] = [to |-> IF n + 1 > Len(handled') THEN 0 ELSE n + 1,
                           final |-> ~responses'[n + 1].keepAlive]
    BY <1>3, <2>1, Zenon
  <2> QED
    BY <2>2, Zenon
<1> HIDE DEF n, e
<1>7. Answers' = Append(Answers, e)
  BY <1>2, <1>3, <1>4, <1>5, <1>6, Extends
<1> QED
  BY <1>7 DEF e

LEMMA ExchangeInit == Init => TheExchange!Init
<1> SUFFICES ASSUME Init PROVE TheExchange!Init
  OBVIOUS
<1>1. responses = <<>> /\ pc = "top" /\ stopRequested = FALSE
  BY DEF Init
<1>2. Answers = <<>>
  <2>1. Answers \in Seq(AnswerType) /\ Len(Answers) = Len(responses) /\ Len(responses) = 0
    BY <1>1, InvInit, AnswersAre
  <2> QED
    BY <2>1, EmptySeq
<1>3. Open = TRUE
  BY <1>1 DEF Open
<1>4. Grace = 1
  BY <1>1 DEF Grace, AnsweredSinceStop
<1> QED
  BY <1>1, <1>2, <1>3, <1>4 DEF TheExchange!Init

\* A refusal is the one answer that is for no request.
LEMMA RefuseIsRefuse ==
  ASSUME ConnectionInv, ConnectionInv', pc \in {"frame", "recv"},
         NEW status \in {400, 408, 413}, Refuse(status)
  PROVE  TheExchange!Refuse
<1>1. Types /\ FlowInv
  BY DEF ConnectionInv
<1>2. /\ Len(responses) \in Nat /\ Len(responses') = Len(responses) + 1
      /\ \A k \in 1 .. Len(responses) : responses'[k] = responses[k]
      /\ responses'[Len(responses) + 1].keepAlive = FALSE
  BY <1>1, RefuseTypes DEF Refuse
<1>3. /\ pc' = "closed"
      /\ UNCHANGED <<stopRequested, handled, handledAtStop>>
  BY DEF Refuse
<1>4. Len(responses) = Len(handled)
  BY <1>1 DEF FlowInv
<1>5. Answers' = Append(Answers, [to |-> 0, final |-> TRUE])
  <2>1. 0 = (IF Len(responses) + 1 > Len(handled') THEN 0 ELSE Len(responses) + 1)
    BY <1>2, <1>3, <1>4
  <2>2. TRUE = ~responses'[Len(responses) + 1].keepAlive
    BY <1>2, Zenon
  <2>3. Len(handled') >= Len(handled)
    BY <1>2, <1>3, <1>4
  <2>4. 0 \in Nat /\ TRUE \in BOOLEAN
    OBVIOUS
  <2> QED
    BY <1>2, <1>4, <2>1, <2>2, <2>3, <2>4, AnswersGrow, Zenon
<1>6. Open = TRUE /\ Open' = FALSE
  BY <1>3 DEF Open
<1>7. Grace' = Grace
  BY <1>3 DEF Grace, AnsweredSinceStop
<1>8. stopRequested => Grace > 0
  <2> SUFFICES ASSUME stopRequested PROVE Grace > 0
    OBVIOUS
  <2>1. Len(handled) = handledAtStop
    BY <1>1 DEF FlowInv
  <2> QED
    BY <1>2, <1>4, <2>1 DEF Grace, AnsweredSinceStop
<1>9. Open' = ~TRUE
  BY <1>6
<1> QED
  BY <1>3, <1>5, <1>6, <1>7, <1>8, <1>9, Zenon DEF TheExchange!Refuse, TheExchange!Say

\* Serving a request is the answer to it, and the last one if it ends keep-alive.
LEMMA ServeIsAnswer ==
  ASSUME ConnectionInv, ConnectionInv', Serve
  PROVE  \E final \in BOOLEAN : TheExchange!Answer(final)
<1>1. Types /\ FlowInv /\ pc = "serve" /\ UNCHANGED <<stopRequested, handledAtStop>>
  BY DEF ConnectionInv, Serve
<1>2. PICK valid, asked \in BOOLEAN :
        LET going == AnswerKeepAlive(valid, asked) IN
        /\ going \in BOOLEAN
        /\ pc' = IF going THEN "top" ELSE "leave"
        /\ Len(responses) \in Nat /\ Len(handled) \in Nat
        /\ Len(responses') = Len(responses) + 1 /\ Len(handled') = Len(handled) + 1
        /\ \A k \in 1 .. Len(responses) : responses'[k] = responses[k]
        /\ responses'[Len(responses) + 1].keepAlive = going
  BY <1>1, ServeAppends, Zenon
<1> DEFINE going == AnswerKeepAlive(valid, asked)
           final == ~going
<1>3. going => ~(requestsReceived + 1 >= MaxRequests)
  <2>1. going => requestsReceived + 1 < MaxRequests
    BY Zenon DEF AnswerKeepAlive
  <2> HIDE DEF going
  <2>2. requestsReceived \in Nat /\ MaxRequests \in Nat
    BY <1>1, ConnectionAssumption DEF Types
  <2> QED
    BY <2>1, <2>2
<1> HIDE DEF going
<1>4. /\ going \in BOOLEAN /\ pc' = (IF going THEN "top" ELSE "leave")
      /\ Len(responses) \in Nat /\ Len(handled) \in Nat
      /\ Len(responses') = Len(responses) + 1 /\ Len(handled') = Len(handled) + 1
      /\ \A k \in 1 .. Len(responses) : responses'[k] = responses[k]
      /\ responses'[Len(responses) + 1].keepAlive = going
  BY <1>2, Zenon DEF going
<1>5. final \in BOOLEAN
  OBVIOUS
<1> DEFINE n == Len(responses)
<1>6. n = Len(handled) /\ requestsReceived = n /\ n \in Nat
  BY <1>1, <1>4 DEF FlowInv
<1>7. final = ~responses'[n + 1].keepAlive
  BY <1>4, Zenon
<1> HIDE DEF final
<1>8. Answers' = Append(Answers, [to |-> n + 1, final |-> final])
  <2>1. n + 1 \in Nat /\ Len(handled') >= Len(handled)
        /\ n + 1 = (IF Len(responses) + 1 > Len(handled') THEN 0 ELSE Len(responses) + 1)
    BY <1>4, <1>6
  <2> QED
    BY <1>4, <1>5, <1>6, <1>7, <2>1, AnswersGrow, Zenon
<1>9. Len(Answers) = n
  BY AnswersAre
<1>10. Open = TRUE
  BY <1>1 DEF Open
<1>11. Open' = ~final
  <2>1. CASE going
    <3>1. pc' = "top" /\ final = FALSE
      BY <1>4, <2>1 DEF final
    <3> QED
      BY <3>1 DEF Open
  <2>2. CASE ~going
    <3>1. pc' = "leave" /\ final = TRUE
      BY <1>4, <2>2 DEF final
    <3> QED
      BY <3>1 DEF Open
  <2> QED
    BY <2>1, <2>2
<1>12. /\ stopRequested => Grace > 0
       /\ Grace' = IF stopRequested THEN Grace - 1 ELSE Grace
  <2>1. CASE stopRequested
    <3>1. Len(handled) = handledAtStop
      BY <1>1, <2>1 DEF FlowInv
    <3> QED
      BY <1>1, <1>4, <2>1, <3>1 DEF Grace, AnsweredSinceStop
  <2>2. CASE ~stopRequested
    BY <1>1, <2>2 DEF Grace, AnsweredSinceStop
  <2> QED
    BY <2>1, <2>2
<1>13. n + 1 >= MaxRequests => final
  BY <1>3, <1>6, Zenon DEF final
<1> HIDE DEF n
<1>14. TheExchange!Say(Len(Answers) + 1, final)
  BY <1>1, <1>8, <1>9, <1>10, <1>11, <1>12, Zenon DEF TheExchange!Say
<1>15. Len(Answers) + 1 >= MaxRequests => final
  BY <1>9, <1>13, Zenon
<1>16. TheExchange!Answer(final)
  BY <1>12, <1>14, <1>15, Zenon DEF TheExchange!Answer
<1> QED
  BY <1>5, <1>16

LEMMA ExchangeStep ==
  ConnectionInv /\ ConnectionInv' /\ [Next]_vars => [TheExchange!Next]_(TheExchange!vars)
<1> SUFFICES ASSUME ConnectionInv, ConnectionInv', [Next]_vars
             PROVE  TheExchange!Next \/ UNCHANGED TheExchange!vars
  OBVIOUS
<1>1. Types /\ FlowInv
  BY DEF ConnectionInv
<1>2. ASSUME UNCHANGED <<stream, handled, responses>> PROVE UNCHANGED Answers
  <2>1. \A k : RequestBytes(stream, k)' = RequestBytes(stream, k)
    BY <1>2
  <2>2. WellFramed' = WellFramed
    BY <1>2 DEF WellFramed
  <2>3. \A k : AnswerTo(k)' = AnswerTo(k)
    BY <1>2, <2>2 DEF AnswerTo
  <2> QED
    BY <1>2, <2>3 DEF Answers
<1>3. ASSUME UNCHANGED <<stream, handled, responses, stopRequested, handledAtStop>>,
             Open' = Open
      PROVE  UNCHANGED TheExchange!vars
  <2>1. UNCHANGED Grace
    BY <1>3 DEF Grace, AnsweredSinceStop
  <2> QED
    BY <1>2, <1>3, <2>1 DEF TheExchange!vars
<1>4. ASSUME UNCHANGED <<stream, handled, responses, stopRequested, handledAtStop>>,
             Open, Open' = FALSE
      PROVE  TheExchange!Next
  <2>1. UNCHANGED Grace
    BY <1>4 DEF Grace, AnsweredSinceStop
  <2>2. TheExchange!HangUp
    BY <1>2, <1>4, <2>1 DEF TheExchange!HangUp
  <2> QED
    BY <2>2 DEF TheExchange!Next
<1>5. ASSUME NEW status \in {400, 408, 413}, Refuse(status), pc \in {"frame", "recv"}
      PROVE  TheExchange!Next
  BY <1>5, RefuseIsRefuse DEF TheExchange!Next
<1>6. CASE LoopTop
  <2>1. /\ UNCHANGED <<stream, handled, responses, stopRequested, handledAtStop>>
        /\ pc = "top" /\ pc' \in {"frame", "leave"}
    BY <1>6 DEF LoopTop
  <2>2. CASE pc' = "leave"
    BY <1>4, <2>1, <2>2 DEF Open
  <2>3. CASE pc' = "frame"
    BY <1>3, <2>1, <2>3 DEF Open
  <2> QED
    BY <2>1, <2>2, <2>3
<1>7. CASE ReceiveEnd
  BY <1>4, <1>7 DEF ReceiveEnd, Open
<1>8. CASE FrameMore \/ FrameTake \/ Leave \/ UNCHANGED vars
  <2>1. /\ UNCHANGED <<stream, handled, responses, stopRequested, handledAtStop>>
        /\ \/ pc' = pc
           \/ pc = "frame" /\ pc' \in {"recv", "serve"}
           \/ pc = "leave" /\ pc' = "closed"
    BY <1>8 DEF FrameMore, FrameTake, Leave, vars
  <2>2. Open' = Open
    BY <2>1 DEF Open
  <2> QED
    BY <1>3, <2>1, <2>2
<1>9. CASE FrameBad \/ FrameTooLarge \/ ReceiveTimeout
  BY <1>5, <1>9 DEF FrameBad, FrameTooLarge, ReceiveTimeout
<1>10. CASE Receive
  <2>1. pc = "recv" /\ stream' = stream
    BY <1>10, StreamStays DEF Receive
  <2>2. \/ Refuse(413)
        \/ /\ pc' = "frame"
           /\ UNCHANGED <<stopRequested, handled, responses, handledAtStop>>
    BY <1>1, <1>10, ReceiveGrows
  <2>3. CASE Refuse(413)
    BY <1>5, <2>1, <2>3
  <2>4. CASE ~Refuse(413)
    BY <1>3, <2>1, <2>2, <2>4 DEF Open
  <2> QED
    BY <2>3, <2>4
<1>11. CASE Serve
  BY <1>11, ServeIsAnswer DEF TheExchange!Next
<1>12. CASE StopRequest
  <2>1. /\ UNCHANGED <<stream, handled, responses, pc>>
        /\ ~stopRequested /\ stopRequested' = TRUE /\ handledAtStop' = Len(handled)
    BY <1>12 DEF StopRequest
  <2>2. UNCHANGED <<Answers, Open>>
    BY <1>2, <2>1 DEF Open
  <2>3. UNCHANGED Grace
    <3>1. Len(handled) \in Nat
      BY <1>1, HistoryLengths
    <3> QED
      BY <2>1, <3>1 DEF Grace, AnsweredSinceStop
  <2>4. TheExchange!Stop
    BY <2>1, <2>2, <2>3 DEF TheExchange!Stop
  <2> QED
    BY <2>4 DEF TheExchange!Next
<1> QED
  BY <1>6, <1>7, <1>8, <1>9, <1>10, <1>11, <1>12 DEF Next

\* The client sees the exchange of Exchange.tla: answers in the order of the
\* requests and within the limit, "close" said once and meant, one more answer
\* at most after a stop (handleClient).
THEOREM ConnectionImplementsExchange == Spec => ImplementsExchange
<1>1. ConnectionInv /\ ConnectionInv' /\ [Next]_vars
        => [TheExchange!Next]_(TheExchange!vars)
  BY ExchangeStep
<1> QED
  BY <1>1, ExchangeInit, Invariance, PTL
     DEF Spec, ImplementsExchange, TheExchange!Safety

===============================================================================
