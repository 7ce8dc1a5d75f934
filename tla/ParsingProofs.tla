---------------------------- MODULE ParsingProofs ----------------------------
(***************************************************************************)
(* What the pure code promises for every input, where MCParsing asks it a  *)
(* bounded set of questions.                                               *)
(***************************************************************************)
EXTENDS MCParsing, TextLemmas, FiniteSetTheorems, FunctionTheorems

-----------------------------------------------------------------------------
(* Joined.                                                                 *)

LEMMA JoinedIs == ASSUME NEW texts, NEW b PROVE Joined(texts, b) = FlattenSeq(JoinedWith(texts, b))
BY DEF Joined, JoinedWith, Behind

LEMMA JoinedAppend ==
  ASSUME NEW A, NEW b \in Seq(A), NEW T \in Seq(Seq(A)), NEW e \in Seq(A)
  PROVE  /\ Joined(T, b) \in Seq(A)
         /\ Joined(Append(T, e), b) = Joined(T, b) \o More(T, e, b)
<1> DEFINE W == Append(T, e)
           more == More(T, e, b)
           f == JoinedWith(T, b)
           g == JoinedWith(W, b)
<1>0. PICK n \in Nat : n = Len(T)
  BY LenProperties
<1>1. /\ DOMAIN T = 1 .. n /\ DOMAIN W = 1 .. n + 1 /\ W[n + 1] = e
      /\ \A i \in 1 .. n : W[i] = T[i] /\ T[i] \in Seq(A)
      /\ \A i \in 1 .. n + 1 : W[i] \in Seq(A)
  <2>1. W \in Seq(Seq(A)) /\ Len(W) = n + 1 /\ W[n + 1] = e /\ \A i \in 1 .. n : W[i] = T[i]
    BY <1>0, AppendProperties
  <2> HIDE DEF W
  <2> QED
    BY <1>0, <2>1, LenProperties, ElementOfSeq
<1>2. \A i, t : t \in Seq(A) => Behind(i, t, b) \in Seq(A)
  BY ConcatProperties DEF Behind
<1>3. n = 0 <=> T = <<>>
  BY <1>0, EmptySeq
<1> HIDE DEF W
<1>4. f \in [1 .. n -> Seq(A)] /\ \A i \in 1 .. n : f[i] = Behind(i, T[i], b)
  BY <1>1, <1>2 DEF JoinedWith
<1>5. /\ g \in [1 .. n + 1 -> Seq(A)]
      /\ \A i \in 1 .. n + 1 : g[i] = Behind(i, W[i], b)
  BY <1>1, <1>2 DEF JoinedWith
<1> HIDE DEF f, g
<1>6. \A i \in 1 .. n : g[i] = f[i]
  BY <1>1, <1>4, <1>5
<1>7. f \in Seq(Seq(A)) /\ g[n + 1] \in Seq(A) /\ g = Append(f, g[n + 1])
  BY <1>4, <1>5, <1>6, OneMore
<1>8. g[n + 1] = more
  <2>1. g[n + 1] = Behind(n + 1, e, b)
    BY <1>1, <1>5
  <2>2. n + 1 = 1 <=> T = <<>>
    BY <1>3
  <2> QED
    BY <2>1, <2>2, Zenon DEF Behind, More
<1> HIDE DEF more
<1>9. FlattenSeq(f) \in Seq(A) /\ FlattenSeq(Append(f, more)) = FlattenSeq(f) \o more
  BY <1>7, <1>8, FlattenAppend
<1>10. Joined(T, b) = FlattenSeq(f) /\ Joined(W, b) = FlattenSeq(g)
  BY JoinedIs DEF f, g
<1> QED
  BY <1>7, <1>8, <1>9, <1>10, Zenon DEF W, more

LEMMA JoinedType ==
  ASSUME NEW A, NEW b \in Seq(A), NEW T \in Seq(Seq(A))
  PROVE  Joined(T, b) \in Seq(A)
<1>1. PICK e : e \in Seq(A)
  OBVIOUS
<1> QED
  BY <1>1, JoinedAppend

LEMMA JoinedNone == ASSUME NEW b PROVE Joined(<<>>, b) = <<>>
<1>1. JoinedWith(<<>>, b) = <<>>
  BY DEF JoinedWith
<1> QED
  BY <1>1, JoinedIs, FlattenEmpty

\* Texts that are joined by one or two slashes come apart again.
LEMMA SplitJoined ==
  ASSUME NEW A, "/" \in A, NEW b \in {<<"/">>, <<"/", "/">>}, NEW T \in Seq(Segs(A))
  PROVE  b \o Joined(T, b) \in Seq(A) /\ splitPath(b \o Joined(T, b)) = T
<1>1. /\ <<>> \in Seq(A) /\ <<>> \in Seq(A \ {"/"})
      /\ <<"/">> \in Seq(A) /\ <<"/">> \o <<>> = <<"/">> /\ <<>> \o <<"/">> = <<"/">>
      /\ <<"/", "/">> = <<"/">> \o <<"/">>
  BY One, EmptySeq, ConcatEmptySeq
<1>2. b \in Seq(A)
  BY <1>1, ConcatProperties
<1>3. ASSUME NEW s \in Seq(A), NEW e \in Seq(A \ {"/"})
      PROVE  splitPath(s \o (b \o e)) = IF e = <<>> THEN splitPath(s) ELSE Append(splitPath(s), e)
  <2>1. CASE b = <<"/">>
    BY <2>1, SplitPathMore
  <2>2. CASE b = <<"/", "/">>
    <3> DEFINE r == s \o (<<"/">> \o <<>>)
    <3>1. r = s \o <<"/">> /\ r \in Seq(A) /\ e \in Seq(A) /\ <<"/">> \o e \in Seq(A)
      BY <1>1, ConcatProperties, SeqMonotonic
    <3>2. splitPath(r) = splitPath(s)
      BY <1>1, SplitPathMore
    <3>3. s \o (b \o e) = r \o (<<"/">> \o e)
      <4>1. b \o e = <<"/">> \o (<<"/">> \o e)
        BY <1>1, <2>2, <3>1, ConcatAssociative
      <4>2. (s \o <<"/">>) \o (<<"/">> \o e) = s \o (<<"/">> \o (<<"/">> \o e))
        BY <1>1, <3>1, ConcatAssociative
      <4> QED
        BY <3>1, <4>1, <4>2
    <3> HIDE DEF r
    <3>4. splitPath(r \o (<<"/">> \o e)) = IF e = <<>> THEN splitPath(r) ELSE Append(splitPath(r), e)
      BY <3>1, SplitPathMore
    <3> QED
      BY <3>2, <3>3, <3>4
  <2> QED
    BY <2>1, <2>2
<1> DEFINE P == {U \in Seq(Segs(A)) : /\ b \o Joined(U, b) \in Seq(A)
                                      /\ splitPath(b \o Joined(U, b)) = U}
<1>4. <<>> \in P
  <2>1. b \o Joined(<<>>, b) = b /\ <<>> \in Seq(Segs(A))
    BY <1>2, JoinedNone, ConcatEmptySeq, EmptySeq
  <2>2. splitPath(<<>> \o (b \o <<>>)) = splitPath(<<>>)
    BY <1>1, <1>3
  <2>3. <<>> \o (b \o <<>>) = b
    BY <1>2, ConcatEmptySeq
  <2> QED
    BY <1>2, <2>1, <2>2, <2>3, SplitPathNone
<1>5. ASSUME NEW U \in Seq(Segs(A)), NEW e \in Segs(A), U \in P PROVE Append(U, e) \in P
  <2> DEFINE s == IF U = <<>> THEN <<>> ELSE b \o Joined(U, b)
             w == b \o Joined(Append(U, e), b)
  <2>1. e \in Seq(A \ {"/"}) /\ e # <<>> /\ e \in Seq(A)
    BY SeqMonotonic DEF Segs
  <2>2. U \in Seq(Seq(A))
    <3>1. Segs(A) \subseteq Seq(A)
      BY SeqMonotonic DEF Segs
    <3> QED
      BY <3>1, SeqMonotonic
  <2>3. /\ Joined(U, b) \in Seq(A)
        /\ Joined(Append(U, e), b) = Joined(U, b) \o More(U, e, b)
    BY <1>2, <2>1, <2>2, JoinedAppend
  <2>4. s \in Seq(A) /\ splitPath(s) = U
    BY <1>1, <1>5, SplitPathNone
  <2>5. w = s \o (b \o e)
    <3>1. b \o e \in Seq(A)
      BY <1>2, <2>1, ConcatProperties
    <3>2. CASE U = <<>>
      <4>1. Joined(U, b) = <<>> /\ <<>> \o e = e /\ <<>> \o (b \o e) = b \o e
        BY <2>1, <3>1, <3>2, JoinedNone, ConcatEmptySeq
      <4>2. More(U, e, b) = e
        BY <3>2 DEF More
      <4> QED
        BY <2>3, <3>2, <4>1, <4>2
    <3>3. CASE U # <<>>
      <4> DEFINE J == Joined(U, b)
                 be == b \o e
      <4>1. J \in Seq(A) /\ be \in Seq(A)
        BY <2>3, <3>1
      <4> HIDE DEF J, be
      <4>2. (b \o J) \o be = b \o (J \o be)
        <5>1. Associate(b, J, be)
          BY <1>2, <4>1, Associates
        <5> QED
          BY <5>1, Zenon DEF Associate
      <4>3. More(U, e, b) = be
        BY <3>3 DEF More, be
      <4> QED
        BY <2>3, <3>3, <4>2, <4>3 DEF J, be
    <3> QED
      BY <3>2, <3>3
  <2> HIDE DEF s, w
  <2>6. w \in Seq(A)
    BY <1>2, <2>1, <2>4, <2>5, ConcatProperties
  <2>7. splitPath(w) = Append(U, e)
    BY <1>3, <2>1, <2>4, <2>5
  <2>8. Append(U, e) \in Seq(Segs(A))
    BY AppendProperties
  <2> QED
    BY <2>6, <2>7, <2>8 DEF w
<1> HIDE DEF P
<1>6. T \in P
  BY <1>4, <1>5, SeqInduct
<1> QED
  BY <1>6 DEF P

\* A path is taken apart into the segments the client wrote.
LEMMA PathTextSplits ==
  ASSUME NEW A, "/" \in A, NEW segments \in Seq(Segs(A)), NEW spare \in BOOLEAN
  PROVE  splitPath(PathText(segments, spare)) = segments
<1>1. CASE ~spare
  <2>1. PathText(segments, spare) = <<"/">> \o Joined(segments, <<"/">>)
    BY <1>1 DEF PathText
  <2> QED
    BY <2>1, SplitJoined
<1>2. CASE spare
  <2> DEFINE s == <<"/", "/">> \o Joined(segments, <<"/", "/">>)
  <2>1. PathText(segments, spare) = s \o <<"/">>
    BY <1>2 DEF PathText
  <2>2. s \in Seq(A) /\ splitPath(s) = segments
    BY SplitJoined
  <2> HIDE DEF s
  <2>3. <<>> \in Seq(A \ {"/"}) /\ <<"/">> \in Seq(A) /\ <<"/">> \o <<>> = <<"/">>
    BY One, EmptySeq, ConcatEmptySeq
  <2>4. splitPath(s \o (<<"/">> \o <<>>)) = splitPath(s)
    BY <2>2, <2>3, SplitPathMore
  <2> QED
    BY <2>1, <2>2, <2>3, <2>4
<1> QED
  BY <1>1, <1>2

-----------------------------------------------------------------------------
(* toLower.                                                                *)

\* Joining and folding commute.
LEMMA LowerJoined ==
  ASSUME NEW A, Closed(A), NEW b \in Seq(A), toLower(b) = b, NEW T \in Seq(Seq(A))
  PROVE  Lowers(T) \in Seq(Seq(A)) /\ toLower(Joined(T, b)) = Joined(Lowers(T), b)
<1> DEFINE P == {U \in Seq(Seq(A)) : /\ Lowers(U) \in Seq(Seq(A))
                                     /\ toLower(Joined(U, b)) = Joined(Lowers(U), b)}
<1>1. <<>> \in P
  <2>1. Lowers(<<>>) = <<>> /\ <<>> \in Seq(Seq(A))
    BY EmptySeq DEF Lowers
  <2> QED
    BY <2>1, JoinedNone, LowerNone
<1>2. ASSUME NEW U \in Seq(Seq(A)), NEW e \in Seq(A), U \in P PROVE Append(U, e) \in P
  <2> DEFINE J == Joined(U, b)
             K == Joined(Lowers(U), b)
             L == Lowers(U)
             m == More(U, e, b)
             l == toLower(e)
  <2>1. L \in Seq(Seq(A)) /\ toLower(J) = K
    BY <1>2
  <2>2. l \in Seq(A) /\ Lowers(Append(U, e)) = Append(L, l)
    BY LowersAppend
  <2>3. J \in Seq(A) /\ Joined(Append(U, e), b) = J \o m
    BY JoinedAppend
  <2>4. K \in Seq(A) /\ Joined(Append(L, l), b) = K \o More(L, l, b)
    <3> HIDE DEF l, L
    <3> QED
      BY <2>1, <2>2, JoinedAppend DEF L
  <2>5. m \in Seq(A)
    BY ConcatProperties DEF More
  <2>6. toLower(J \o m) = toLower(J) \o toLower(m)
    <3> HIDE DEF J, m
    <3> QED
      BY <2>3, <2>5, LowerConcat
  <2>7. U = <<>> <=> L = <<>>
    <3>1. DOMAIN U = DOMAIN L
      BY DEF Lowers
    <3>2. Len(U) = Len(L)
      <4> HIDE DEF L
      <4> QED
        BY <2>1, <3>1, LenProperties
    <3> HIDE DEF L
    <3> QED
      BY <2>1, <3>2, EmptySeq
  <2>8. toLower(m) = More(L, l, b)
    <3>1. CASE U = <<>>
      BY <2>7, <3>1 DEF More
    <3>2. CASE U # <<>>
      <4>1. m = b \o e /\ More(L, l, b) = b \o l
        BY <2>7, <3>2 DEF More
      <4>2. toLower(b \o e) = toLower(b) \o toLower(e)
        BY LowerConcat
      <4> QED
        BY <4>1, <4>2
    <3> QED
      BY <3>1, <3>2
  <2>9. Append(U, e) \in Seq(Seq(A)) /\ Append(L, l) \in Seq(Seq(A))
    BY <2>1, <2>2, AppendProperties
  <2>10. toLower(Joined(Append(U, e), b)) = Joined(Lowers(Append(U, e)), b)
    <3> HIDE DEF J, K, L, m, l
    <3> QED
      BY <2>1, <2>2, <2>3, <2>4, <2>6, <2>8
  <2> QED
    BY <2>2, <2>9, <2>10
<1> HIDE DEF P
<1>3. T \in P
  BY <1>1, <1>2, SeqInduct
<1> QED
  BY <1>3 DEF P

-----------------------------------------------------------------------------
(* Patterns.                                                               *)

\* A part of a pattern, as a reader of it means it: a literal does not look
\* like a parameter.
Parts(A) == {p \in [parameter : BOOLEAN, text : Words(A)] :
               p.parameter \/ (p.text # <<>> /\ ~IsParameter(p.text))}

LEMMA BracedIsParameter ==
  ASSUME NEW A, Braces(A), NEW w \in Seq(A)
  PROVE  /\ IsParameter(Braced(w)) /\ ParameterName(Braced(w)) = w
         /\ Braced(w) \in Seq(A) /\ Braced(w) # <<>>
<1>1. "{" \in A /\ "}" \in A
  BY Zenon DEF Braces
<1> QED
  <2> DEFINE open == "{"
             close == "}"
             p == <<open>> \o w \o <<close>>
  <2>1. open \in A /\ close \in A
    BY <1>1, Zenon
  <2>2. IsParameter(p) <=> Len(p) >= 2 /\ p[1] = open /\ p[Len(p)] = close
    BY Zenon DEF IsParameter, Last
  <2>3. ParameterName(p) = SubSeq(p, 2, Len(p) - 1)
    BY Zenon DEF ParameterName
  <2> HIDE DEF open, close
  <2>4. /\ Len(p) >= 2 /\ p[1] = open /\ p[Len(p)] = close
        /\ p \in Seq(A) /\ p # <<>>
        /\ SubSeq(p, 2, Len(p) - 1) = w
    BY <2>1, Inside
  <2>5. IsParameter(p) /\ ParameterName(p) = w /\ p \in Seq(A) /\ p # <<>>
    BY <2>2, <2>3, <2>4, Zenon
  <2> QED
    BY <2>5, Zenon DEF open, close, Braced

LEMMA LowerKeepsForm ==
  ASSUME NEW A, Closed(A), NEW s \in Seq(A)
  PROVE  IsParameter(toLower(s)) <=> IsParameter(s)
<1> DEFINE open == "{"
           close == "}"
           u == toLower(s)
<1>1. u \in Seq(A) /\ Len(u) = Len(s) /\ \A i \in 1 .. Len(s) : u[i] = Lowered(s[i])
  BY LowerType
<1>2. \A c : (Lowered(c) = open <=> c = open) /\ (Lowered(c) = close <=> c = close)
  BY LoweredIs, Zenon
<1>3. \A p : IsParameter(p) <=> Len(p) >= 2 /\ p[1] = open /\ p[Len(p)] = close
  BY Zenon DEF IsParameter, Last
<1> HIDE DEF open, close, u
<1>4. CASE Len(s) >= 2
  <2>1. 1 \in 1 .. Len(s) /\ Len(s) \in 1 .. Len(s)
    BY <1>4, LenProperties
  <2>2. u[1] = Lowered(s[1]) /\ u[Len(u)] = Lowered(s[Len(s)])
    BY <1>1, <2>1
  <2>3. (u[1] = open <=> s[1] = open) /\ (u[Len(u)] = close <=> s[Len(s)] = close)
    BY <1>2, <2>2
  <2>4. IsParameter(u) <=> IsParameter(s)
    BY <1>1, <1>3, <2>3
  <2> QED
    BY <2>4 DEF u
<1>5. CASE ~(Len(s) >= 2)
  <2>1. ~IsParameter(u) /\ ~IsParameter(s)
    BY <1>1, <1>3, <1>5
  <2> QED
    BY <2>1 DEF u
<1> QED
  BY <1>4, <1>5

\* What addRoute stores of a part, and what matchRoute and RouteParams make of it.
LEMMA PartLowered ==
  ASSUME NEW A, Alphabet(A), NEW p \in Parts(A)
  PROVE  /\ PartText(p) \in Segs(A) /\ toLower(PartText(p)) \in Segs(A)
         /\ IsParameter(toLower(PartText(p))) <=> p.parameter
         /\ p.parameter => ParameterName(toLower(PartText(p))) = toLower(p.text)
         /\ ~p.parameter => toLower(PartText(p)) = toLower(p.text)
<1> DEFINE w == p.text
<1>1. w \in Words(A) /\ p.parameter \in BOOLEAN /\ (~p.parameter => w # <<>> /\ ~IsParameter(w))
  BY DEF Parts
<1>2. /\ Closed(A) /\ Closed(A \ {"/"}) /\ Braces(A \ {"/"})
      /\ w \in Seq(A \ {"/"}) /\ toLower(w) \in Seq(A \ {"/"})
  BY <1>1, AlphabetLess, LowerWord DEF Words
<1>3. CASE p.parameter
  <2>1. PartText(p) = Braced(w)
    BY <1>3 DEF PartText
  <2>2. toLower(PartText(p)) = Braced(toLower(w))
    BY <1>2, <2>1, LowerBraced
  <2>3. Braced(w) \in Segs(A)
    BY <1>2, BracedIsParameter DEF Segs
  <2>4. /\ Braced(toLower(w)) \in Segs(A)
        /\ IsParameter(Braced(toLower(w))) /\ ParameterName(Braced(toLower(w))) = toLower(w)
    BY <1>2, BracedIsParameter DEF Segs
  <2> QED
    BY <1>3, <2>1, <2>2, <2>3, <2>4
<1>4. CASE ~p.parameter
  <2>1. PartText(p) = w
    BY <1>4 DEF PartText
  <2>2. w \in Segs(A) /\ toLower(w) \in Segs(A)
    BY <1>1, <1>4, LowerWord, WordsAre
  <2>3. ~IsParameter(toLower(w))
    BY <1>1, <1>2, <1>4, LowerKeepsForm
  <2> QED
    BY <1>4, <2>1, <2>2, <2>3
<1> QED
  BY <1>1, <1>3, <1>4

\* What splitPath finds in a stored pattern.
LEMMA PatternSplits ==
  ASSUME NEW A, Alphabet(A), NEW parts \in Seq(Parts(A))
  PROVE  splitPath(toLower(toLower(PatternText(parts)))) = Lowers(PartTexts(parts))
<1> DEFINE T == PartTexts(parts)
           L == Lowers(T)
           b == <<"/">>
           J == Joined(T, b)
<1>0. PICK n \in Nat : n = Len(parts)
  BY LenProperties
<1>1. T \in [1 .. n -> Segs(A)] /\ \A i \in 1 .. n : toLower(T[i]) \in Segs(A)
  <2>1. DOMAIN parts = 1 .. n /\ \A i \in 1 .. n : parts[i] \in Parts(A)
    BY <1>0, LenProperties, ElementOfSeq
  <2>2. \A p \in Parts(A) : PartText(p) \in Segs(A) /\ toLower(PartText(p)) \in Segs(A)
    BY PartLowered
  <2> QED
    BY <2>1, <2>2 DEF PartTexts
<1>2. PatternText(parts) = b \o J
  BY DEF PatternText, PartTexts, PartText, Braced
<1> HIDE DEF T
<1>3. L \in [1 .. n -> Segs(A)]
  BY <1>1 DEF Lowers
<1>4. T \in Seq(Segs(A)) /\ L \in Seq(Segs(A)) /\ T \in Seq(Seq(A))
  <2>1. T \in [1 .. n -> Seq(A)]
    BY <1>1, WordsAre
  <2> HIDE DEF L
  <2> QED
    BY <1>1, <1>3, <2>1, FunctionIsSeq
<1>5. Closed(A) /\ "/" \in A /\ b \in Seq(A) /\ toLower(b) = b
  <2>1. Closed(A) /\ "/" \in A
    BY DEF Alphabet
  <2>2. toLower(b) = b
    BY LowerOne, LoweredIs
  <2> QED
    BY <2>1, <2>2, One
<1>6. J \in Seq(A) /\ toLower(J) = Joined(L, b)
  <2> HIDE DEF b
  <2>1. toLower(J) = Joined(L, b)
    BY <1>4, <1>5, LowerJoined
  <2>2. J \in Seq(A)
    BY <1>4, <1>5, JoinedType
  <2> QED
    BY <2>1, <2>2
<1>7. b \o J \in Seq(A) /\ toLower(b \o J) = b \o Joined(L, b)
  <2> HIDE DEF b, J
  <2>1. b \o J \in Seq(A)
    BY <1>5, <1>6, ConcatProperties
  <2>2. toLower(b \o J) = toLower(b) \o toLower(J)
    BY <1>5, <1>6, LowerConcat
  <2> QED
    BY <1>5, <1>6, <2>1, <2>2, Zenon
<1>8. toLower(toLower(b \o J)) = b \o Joined(L, b)
  <2>1. toLower(toLower(b \o J)) = toLower(b \o J)
    BY <1>5, <1>7, LowerTwice
  <2> QED
    BY <1>7, <2>1, Zenon
<1>9. splitPath(b \o Joined(L, b)) = L
  BY <1>4, <1>5, SplitJoined
<1> QED
  BY <1>2, <1>8, <1>9, Zenon DEF T

-----------------------------------------------------------------------------
(* Tables.  A table is what addRoute makes of the declarations, in order.  *)

Entered(routes, r) == addRoute(routes, FALSE, r.method, PatternText(r.parts))

\* f is the recursive function inside FoldLeft, for the sets below n.
Folds(f, n, t) ==
  f = [s \in SUBSET (1 .. n) |-> IF s = {} THEN <<>> ELSE Entered(f[s \ {Max(s)}], t[Max(s)])]

FoldsEach(f, n, t) ==
  \A s \in SUBSET (1 .. n) : f[s] = IF s = {} THEN <<>> ELSE Entered(f[s \ {Max(s)}], t[Max(s)])

LEMMA FoldsAt == ASSUME NEW f, NEW n, NEW t, Folds(f, n, t) PROVE FoldsEach(f, n, t)
<1> DEFINE g == [s \in SUBSET (1 .. n) |-> IF s = {} THEN <<>> ELSE Entered(f[s \ {Max(s)}], t[Max(s)])]
<1>1. f = g
  BY DEF Folds
<1> QED
  BY <1>1, Zenon DEF FoldsEach

LEMMA FoldsGrow ==
  ASSUME NEW f, NEW n \in Nat, NEW t, Folds(f, n, t)
  PROVE  \E g : Folds(g, n + 1, t)
<1> DEFINE F(s, earlier) == IF s = {} THEN <<>> ELSE Entered(earlier, t[Max(s)])
           g == [s \in SUBSET (1 .. n + 1) |-> F(s, f[s \ {Max(s)}])]
<1>1. \A s \in SUBSET (1 .. n) : g[s] = f[s]
  <2> TAKE s \in SUBSET (1 .. n)
  <2>1. f[s] = F(s, f[s \ {Max(s)}])
    <3>1. FoldsEach(f, n, t)
      BY FoldsAt
    <3> QED
      BY <3>1, Zenon DEF FoldsEach
  <2>2. s \in SUBSET (1 .. n + 1)
    OBVIOUS
  <2> HIDE DEF F
  <2>3. g[s] = F(s, f[s \ {Max(s)}])
    BY <2>2
  <2> HIDE DEF g
  <2> QED
    BY <2>1, <2>3
<1>2. \A s \in SUBSET (1 .. n + 1) : F(s, f[s \ {Max(s)}]) = F(s, g[s \ {Max(s)}])
  <2> TAKE s \in SUBSET (1 .. n + 1)
  <2>1. CASE s = {}
    BY <2>1
  <2>2. CASE s # {}
    <3>0. n + 1 \in Nat /\ s \subseteq 1 .. n + 1
      OBVIOUS
    <3> DEFINE x == Max(s)
    <3>1. x \in s /\ \A y \in s : y <= x
      <4> HIDE DEF F
      <4> QED
        BY <2>2, <3>0, Greatest
    <3> HIDE DEF x
    <3>2. s \ {x} \subseteq 1 .. n
      BY <3>1
    <3>3. g[s \ {x}] = f[s \ {x}]
      <4> HIDE DEF g
      <4> QED
        BY <1>1, <3>2
    <3> HIDE DEF g, F
    <3> QED
      BY <3>3 DEF x
  <2> QED
    BY <2>1, <2>2
<1>3. g = [s \in SUBSET (1 .. n + 1) |-> F(s, g[s \ {Max(s)}])]
  <2> HIDE DEF F
  <2> QED
    BY <1>2
<1> HIDE DEF g
<1> QED
  BY <1>3 DEF Folds

LEMMA TableFolds ==
  ASSUME NEW B, NEW q, q.table \in Seq(B)
  PROVE  \E f : Folds(f, Len(q.table), q.table) /\ Table(q) = f[1 .. Len(q.table)]
<1> DEFINE t == q.table
           n == Len(t)
           U == {k \in Nat : \E f : Folds(f, k, t)}
<1>1. n \in Nat /\ DOMAIN t = 1 .. n
  BY LenProperties
<1> HIDE DEF n
<1>2. 0 \in U
  <2> DEFINE g == [s \in {{}} |-> <<>>]
  <2>1. SUBSET (1 .. 0) = {{}} /\ g[{}] = <<>>
    OBVIOUS
  <2>2. g = [s \in SUBSET (1 .. 0) |-> IF s = {} THEN <<>> ELSE Entered(g[s \ {Max(s)}], t[Max(s)])]
    BY <2>1
  <2> HIDE DEF g
  <2>3. Folds(g, 0, t)
    BY <2>2 DEF Folds
  <2> QED
    BY <2>3
<1>3. ASSUME NEW k \in Nat, k \in U PROVE k + 1 \in U
  BY <1>3, FoldsGrow
<1> HIDE DEF U
<1>4. n \in U
  BY <1>1, <1>2, <1>3, Induct
<1> DEFINE f == CHOOSE f : Folds(f, n, t)
<1>5. Folds(f, n, t)
  BY <1>4 DEF U
<1>6. Table(q) = f[DOMAIN t]
  <2>1. Table(q) = (CHOOSE h : h = [s \in SUBSET (DOMAIN t) |->
                      IF s = {} THEN <<>> ELSE Entered(h[s \ {Max(s)}], t[Max(s)])])[DOMAIN t]
    BY Zenon DEF Table, FoldLeft, MapThenFoldSet, Entered
  <2> QED
    BY <1>1, <2>1, Zenon DEF Folds
<1> HIDE DEF f
<1> QED
  BY <1>1, <1>5, <1>6 DEF n

\* The route addRoute stores for a declaration.
Stored(r) == [method |-> r.method, path |-> toLower(PatternText(r.parts))]

LEMMA EnteredIs == ASSUME NEW routes, NEW r PROVE Entered(routes, r) = Append(routes, Stored(r))
BY DEF Entered, addRoute, Stored

LEMMA TableIs ==
  ASSUME NEW B, NEW q, q.table \in Seq(B)
  PROVE  /\ DOMAIN Table(q) = DOMAIN q.table
         /\ \A i \in DOMAIN q.table : Table(q)[i] = Stored(q.table[i])
<1> DEFINE t == q.table
           n == Len(t)
           S == {Stored(t[i]) : i \in 1 .. n}
           G(k) == [i \in 1 .. k |-> Stored(t[i])]
<1>1. n \in Nat /\ DOMAIN t = 1 .. n
  BY LenProperties
<1>2. PICK f : Folds(f, n, t) /\ Table(q) = f[1 .. n]
  BY TableFolds
<1>3. FoldsEach(f, n, t)
  BY <1>2, FoldsAt
<1> HIDE DEF t, n
<1> DEFINE U == {k \in Nat : k <= n => f[1 .. k] = G(k)}
<1>4. 0 \in U
  <2>1. 1 .. 0 = {} /\ 1 .. 0 \in SUBSET (1 .. n)
    OBVIOUS
  <2>2. f[1 .. 0] = <<>>
    BY <1>3, <2>1, Zenon DEF FoldsEach
  <2>3. G(0) = <<>>
    BY <2>1
  <2> QED
    BY <2>2, <2>3
<1>5. ASSUME NEW k \in Nat, k \in U PROVE k + 1 \in U
  <2> SUFFICES ASSUME k + 1 <= n PROVE f[1 .. k + 1] = G(k + 1)
    OBVIOUS
  <2> DEFINE s == 1 .. k + 1
             e == Stored(t[k + 1])
  <2>1. s \in SUBSET (1 .. n) /\ s # {} /\ s \subseteq 1 .. k + 1 /\ k + 1 \in Nat /\ k + 1 \in s
    <3>1. k + 1 \in Nat /\ k + 1 \in s
      OBVIOUS
    <3>2. \A i \in s : i \in 1 .. n
      BY <1>1
    <3> HIDE DEF s
    <3>3. s # {} /\ s \in SUBSET (1 .. n)
      BY <3>1, <3>2
    <3> QED
      BY <3>1, <3>3 DEF s
  <2>2. Max(s) = k + 1
    <3> DEFINE x == Max(s)
    <3>1. x \in s /\ \A y \in s : y <= x
      BY <2>1, Greatest
    <3> HIDE DEF x
    <3>2. x = k + 1
      BY <2>1, <3>1
    <3> QED
      BY <3>2 DEF x
  <2>3. s \ {k + 1} = 1 .. k
    OBVIOUS
  <2>4. f[s] = Entered(f[s \ {Max(s)}], t[Max(s)])
    <3> HIDE DEF s
    <3> QED
      BY <1>3, <2>1, Zenon DEF FoldsEach
  <2>5. f[s] = Append(f[1 .. k], e)
    <3> HIDE DEF s
    <3> QED
      BY <2>2, <2>3, <2>4, EnteredIs
  <2>6. f[1 .. k] = G(k)
    <3>1. k <= n
      BY <1>1
    <3> HIDE DEF G
    <3> QED
      BY <1>5, <3>1
  <2>7. G(k + 1) = Append(G(k), e)
    <3> DEFINE g == G(k)
               h == G(k + 1)
    <3>1. k + 1 \in 1 .. k + 1 /\ \A i \in 1 .. k + 1 : i \in 1 .. n
      BY <1>1
    <3>2. /\ g \in [1 .. k -> S] /\ h \in [1 .. k + 1 -> S]
          /\ \A i \in 1 .. k : h[i] = g[i]
          /\ h[k + 1] = e
      BY <3>1
    <3> HIDE DEF S, g, h, e
    <3>3. h = Append(g, h[k + 1])
      BY <3>2, OneMore
    <3>4. h = Append(g, e)
      BY <3>2, <3>3
    <3> QED
      BY <3>4 DEF g, h
  <2> HIDE DEF G, e
  <2> QED
    BY <2>5, <2>6, <2>7
<1> HIDE DEF U
<1>6. n \in U
  BY <1>1, <1>4, <1>5, Induct
<1>7. Table(q) = G(n)
  BY <1>1, <1>2, <1>6 DEF U
<1> QED
  BY <1>1, <1>7 DEF t

\* The parts of a pattern have names of their own.
NamesDiffer(parts) ==
  \A i, j \in DOMAIN parts :
    parts[i].parameter /\ parts[j].parameter /\ toLower(parts[i].text) = toLower(parts[j].text) => i = j

Patterns(A) == {parts \in Seq(Parts(A)) : NamesDiffer(parts)}

\* Every table a program may declare and every path a client may ask for.
AnyRoutes(A) ==
  [kind : {"route"}, table : Seq([method : Methods, parts : Patterns(A)]), segments : Seq(Segs(A)),
   spare : BOOLEAN]

\* matchRoute and RouteParams on a stored pattern.
LEMMA StoredParts ==
  ASSUME NEW A, Alphabet(A), NEW parts \in Seq(Parts(A))
  PROVE  LET P == splitPath(toLower(toLower(PatternText(parts))))
         IN  /\ DOMAIN P = DOMAIN parts /\ Len(P) = Len(parts)
             /\ \A i \in DOMAIN parts :
                  /\ IsParameter(P[i]) <=> parts[i].parameter
                  /\ parts[i].parameter => ParameterName(P[i]) = toLower(parts[i].text)
                  /\ ~parts[i].parameter => P[i] = toLower(parts[i].text)
<1> DEFINE T == PartTexts(parts)
           P == Lowers(T)
<1>0. PICK n \in Nat : n = Len(parts)
  BY LenProperties
<1>1. DOMAIN parts = 1 .. n /\ \A i \in 1 .. n : parts[i] \in Parts(A)
  BY <1>0, LenProperties, ElementOfSeq
<1>2. DOMAIN T = 1 .. n /\ \A i \in 1 .. n : T[i] = PartText(parts[i])
  BY <1>1 DEF PartTexts
<1> HIDE DEF T
<1>3. P \in [1 .. n -> Segs(A)] /\ \A i \in 1 .. n : P[i] = toLower(PartText(parts[i]))
  <2>1. \A p \in Parts(A) : toLower(PartText(p)) \in Segs(A)
    BY PartLowered
  <2> QED
    BY <1>1, <1>2, <2>1 DEF Lowers
<1>4. splitPath(toLower(toLower(PatternText(parts)))) = P
  BY PatternSplits DEF T
<1> HIDE DEF P
<1>5. DOMAIN P = 1 .. n /\ Len(P) = n
  BY <1>3, FunctionIsSeq
<1>6. ASSUME NEW i \in 1 .. n
      PROVE  /\ IsParameter(P[i]) <=> parts[i].parameter
             /\ parts[i].parameter => ParameterName(P[i]) = toLower(parts[i].text)
             /\ ~parts[i].parameter => P[i] = toLower(parts[i].text)
  <2>1. P[i] = toLower(PartText(parts[i])) /\ parts[i] \in Parts(A)
    BY <1>1, <1>3
  <2> QED
    BY <2>1, PartLowered, Zenon
<1> QED
  BY <1>0, <1>1, <1>4, <1>5, <1>6, Zenon

LEMMA MatchIsInstance ==
  ASSUME NEW A, Alphabet(A), NEW parts \in Seq(Parts(A)), NEW segments \in Seq(Segs(A)),
         NEW spare \in BOOLEAN
  PROVE  matchRoute(toLower(PatternText(parts)), PathText(segments, spare)) <=> InstanceOf(segments, parts)
<1> DEFINE P == splitPath(toLower(toLower(PatternText(parts))))
           path == PathText(segments, spare)
<1>1. "/" \in A
  BY DEF Alphabet
<1>2. splitPath(path) = segments
  BY <1>1, PathTextSplits
<1>3. /\ DOMAIN P = DOMAIN parts /\ Len(P) = Len(parts)
      /\ \A i \in DOMAIN parts :
           /\ IsParameter(P[i]) <=> parts[i].parameter
           /\ parts[i].parameter => ParameterName(P[i]) = toLower(parts[i].text)
           /\ ~parts[i].parameter => P[i] = toLower(parts[i].text)
  BY StoredParts, Zenon
<1>4. matchRoute(toLower(PatternText(parts)), path) <=>
        /\ Len(P) = Len(segments)
        /\ \A i \in DOMAIN P : IsParameter(P[i]) \/ P[i] = toLower(segments[i])
  BY <1>2, Zenon DEF matchRoute
<1> HIDE DEF P, path
<1>5. \A i \in DOMAIN parts : (IsParameter(P[i]) \/ P[i] = toLower(segments[i]))
                              <=> (parts[i].parameter \/ toLower(parts[i].text) = toLower(segments[i]))
  BY <1>3, Zenon
<1>6. (Len(P) = Len(segments)) <=> (Len(segments) = Len(parts))
  BY <1>3
<1>7. matchRoute(toLower(PatternText(parts)), path) <=> InstanceOf(segments, parts)
  BY <1>3, <1>4, <1>5, <1>6, Zenon DEF InstanceOf
<1> QED
  BY <1>7 DEF path

LEMMA ParamsAre ==
  ASSUME NEW A, Alphabet(A), NEW parts \in Patterns(A), NEW segments \in Seq(Segs(A)), NEW spare \in BOOLEAN
  PROVE  Bound(RouteParams(toLower(PatternText(parts)), PathText(segments, spare)), parts, segments)
<1> DEFINE P == splitPath(toLower(toLower(PatternText(parts))))
           path == PathText(segments, spare)
           places == {i \in DOMAIN P : IsParameter(P[i])}
           params == [n \in {ParameterName(P[i]) : i \in places} |->
                        segments[Max({i \in places : ParameterName(P[i]) = n})]]
           Q == {j \in DOMAIN parts : parts[j].parameter}
<1>1. parts \in Seq(Parts(A)) /\ NamesDiffer(parts) /\ "/" \in A
  BY DEF Patterns, Alphabet
<1>2. splitPath(path) = segments
  BY <1>1, PathTextSplits
<1>3. /\ DOMAIN P = DOMAIN parts /\ Len(P) = Len(parts)
      /\ \A i \in DOMAIN parts :
           /\ IsParameter(P[i]) <=> parts[i].parameter
           /\ parts[i].parameter => ParameterName(P[i]) = toLower(parts[i].text)
           /\ ~parts[i].parameter => P[i] = toLower(parts[i].text)
  BY <1>1, StoredParts, Zenon
<1>4. RouteParams(toLower(PatternText(parts)), path) = params
  BY <1>2, Zenon DEF RouteParams
<1> HIDE DEF P, path
<1>5. places = Q /\ \A i \in Q : ParameterName(P[i]) = toLower(parts[i].text)
  BY <1>3
<1> HIDE DEF places
<1>6. DOMAIN params = {toLower(parts[i].text) : i \in Q}
  BY <1>5
<1>7. ASSUME NEW i \in Q PROVE params[toLower(parts[i].text)] = segments[i]
  <2> DEFINE name == toLower(parts[i].text)
             S == {j \in places : ParameterName(P[j]) = name}
  <2>1. \A j \in Q : toLower(parts[j].text) = toLower(parts[i].text) => j = i
    BY <1>1 DEF NamesDiffer
  <2>2. S = {i}
    BY <1>5, <2>1
  <2>3. name \in {ParameterName(P[j]) : j \in places}
    BY <1>5
  <2>4. params[name] = segments[Max(S)]
    <3> HIDE DEF name, S
    <3> QED
      BY <2>3, Zenon DEF S
  <2>5. Max({i}) = i
    <3>1. i \in Nat
      BY <1>1, LenProperties
    <3> DEFINE x == Max({i})
    <3>2. x \in {i}
      <4>1. {i} \subseteq 1 .. i
        <5>1. i # 0
          BY <1>1, LenProperties
        <5> QED
          BY <3>1, <5>1
      <4> QED
        BY <3>1, <4>1, Greatest
    <3> HIDE DEF x
    <3>3. x = i
      BY <3>2
    <3> QED
      BY <3>3 DEF x
  <2> HIDE DEF params, S
  <2> QED
    BY <2>2, <2>4, <2>5
<1> HIDE DEF params
<1>8. Bound(params, parts, segments)
  BY <1>6, <1>7 DEF Bound
<1> QED
  BY <1>4, <1>8, Zenon DEF path

-----------------------------------------------------------------------------
(* Which route is found.                                                   *)

Fits(routes, method, path) ==
  {i \in DOMAIN routes : routes[i].method = method /\ matchRoute(routes[i].path, path)}

LEMMA FoundFirst ==
  ASSUME NEW n \in Nat, NEW routes, DOMAIN routes = 1 .. n, NEW method, NEW path
  PROVE  /\ FirstOf(findRoute(routes, method, path), Fits(routes, method, path))
         /\ findRoute(routes, method, path) = 0 <=> Fits(routes, method, path) = {}
<1> DEFINE fits == Fits(routes, method, path)
           found == findRoute(routes, method, path)
<1>1. fits \subseteq 1 .. n
  BY DEF Fits
<1>2. found = IF fits = {} THEN 0 ELSE Min(fits)
  BY Zenon DEF findRoute, Fits
<1> HIDE DEF fits, found
<1>3. CASE fits = {}
  <2>1. FirstOf(found, fits) /\ found = 0
    BY <1>2, <1>3 DEF FirstOf
  <2> QED
    BY <1>3, <2>1 DEF fits, found
<1>4. CASE fits # {}
  <2>1. fits \subseteq Nat
    BY <1>1
  <2> DEFINE m == Min(fits)
  <2>2. m \in fits /\ \A i \in fits : m <= i
    BY <1>4, <2>1, Smallest
  <2>3. found = m
    BY <1>2, <1>4
  <2> HIDE DEF m
  <2>4. FirstOf(found, fits) /\ found # 0
    BY <1>1, <1>4, <2>2, <2>3 DEF FirstOf
  <2> QED
    BY <1>4, <2>4 DEF fits, found
<1> QED
  BY <1>3, <1>4

LEMMA ServedFirst ==
  ASSUME NEW n \in Nat, NEW routes, DOMAIN routes = 1 .. n, NEW method, NEW path
  PROVE  LET hits == IF method = "HEAD" /\ Fits(routes, "HEAD", path) = {} THEN Fits(routes, "GET", path)
                     ELSE Fits(routes, method, path)
         IN  /\ FirstOf(RouteServing(routes, method, path), hits)
             /\ RouteServing(routes, method, path) = 0 <=> hits = {}
<1>1. findRoute(routes, "HEAD", path) = 0 <=> Fits(routes, "HEAD", path) = {}
  BY FoundFirst
<1>2. CASE method = "HEAD" /\ Fits(routes, "HEAD", path) = {}
  <2>1. RouteServing(routes, method, path) = findRoute(routes, "GET", path)
    BY <1>1, <1>2, Zenon DEF RouteServing
  <2>2. /\ FirstOf(findRoute(routes, "GET", path), Fits(routes, "GET", path))
        /\ findRoute(routes, "GET", path) = 0 <=> Fits(routes, "GET", path) = {}
    BY FoundFirst
  <2> QED
    BY <1>2, <2>1, <2>2, Zenon
<1>3. CASE ~(method = "HEAD" /\ Fits(routes, "HEAD", path) = {})
  <2>1. RouteServing(routes, method, path) = findRoute(routes, method, path)
    BY <1>1, <1>3, Zenon DEF RouteServing
  <2>2. /\ FirstOf(findRoute(routes, method, path), Fits(routes, method, path))
        /\ findRoute(routes, method, path) = 0 <=> Fits(routes, method, path) = {}
    BY FoundFirst
  <2> QED
    BY <1>3, <2>1, <2>2, Zenon
<1> QED
  BY <1>2, <1>3

-----------------------------------------------------------------------------
(* The answers of the router.                                              *)

\* Allow names the methods some route of the path has, and what comes with them.
Honest(routes, path) ==
  LET served == {m \in Methods : RouteServing(routes, m, path) # 0}
  IN  Allow(routes, path) = IF served = {} THEN {} ELSE served \cup {"OPTIONS"}

LEMMA AllowIs ==
  ASSUME NEW n \in Nat, NEW routes, DOMAIN routes = 1 .. n, NEW path,
         \A i \in 1 .. n : routes[i].method \in Methods
  PROVE  Honest(routes, path)
<1> DEFINE served == {m \in Methods : RouteServing(routes, m, path) # 0}
           fitting == {routes[i].method : i \in {j \in DOMAIN routes : matchRoute(routes[j].path, path)}}
<1>1. Allow(routes, path) = fitting \cup (IF "GET" \in fitting THEN {"HEAD"} ELSE {})
                                    \cup (IF fitting # {} THEN {"OPTIONS"} ELSE {})
  BY Zenon DEF Allow
<1>2. \A m : m \in fitting <=> Fits(routes, m, path) # {}
  BY DEF Fits
<1>3. fitting \subseteq Methods
  OBVIOUS
<1>4. "HEAD" \in Methods /\ "GET" \in Methods
  BY DEF Methods
<1>5. ASSUME NEW m
      PROVE  RouteServing(routes, m, path) # 0 <=> m \in fitting \/ (m = "HEAD" /\ "GET" \in fitting)
  <2> HIDE DEF fitting
  <2> DEFINE hits == IF m = "HEAD" /\ Fits(routes, "HEAD", path) = {} THEN Fits(routes, "GET", path)
                     ELSE Fits(routes, m, path)
  <2>1. RouteServing(routes, m, path) = 0 <=> hits = {}
    BY ServedFirst, Zenon
  <2>2. hits # {} <=> m \in fitting \/ (m = "HEAD" /\ "GET" \in fitting)
    BY <1>2
  <2> QED
    BY <2>1, <2>2, Zenon
<1> HIDE DEF fitting
<1>6. \A m : m \in served <=> m \in fitting \/ (m = "HEAD" /\ "GET" \in fitting)
  BY <1>3, <1>4, <1>5
<1> HIDE DEF served
<1>7. served = {} <=> fitting = {}
  BY <1>6
<1>8. \A m : m \in Allow(routes, path) <=>
               m \in fitting \/ (m = "HEAD" /\ "GET" \in fitting) \/ (m = "OPTIONS" /\ fitting # {})
  BY <1>1
<1> DEFINE meant == IF served = {} THEN {} ELSE served \cup {"OPTIONS"}
<1>9. \A m : m \in Allow(routes, path) <=> m \in meant
  BY <1>6, <1>7, <1>8
<1> HIDE DEF meant
<1>10. Allow(routes, path) = meant
  BY <1>9
<1> QED
  BY <1>10, Zenon DEF meant, served, Honest

\* For every route table and every path, OPTIONS lists just the methods that
\* handleClient would serve there (Server.cpp:117-142 and 287-302).
THEOREM AllowAgrees ==
  ASSUME NEW B, \A r \in B : r.method \in Methods, asked.kind = "route" => asked.table \in Seq(B)
  PROVE  AllowIsHonest
<1> SUFFICES ASSUME asked.kind = "route"
             PROVE  Honest(Table(asked), PathText(asked.segments, asked.spare))
  BY Zenon DEF AllowIsHonest, Honest
<1>1. PICK n \in Nat : DOMAIN asked.table = 1 .. n
  BY LenProperties
<1>2. /\ DOMAIN Table(asked) = DOMAIN asked.table
      /\ \A i \in DOMAIN asked.table : Table(asked)[i] = Stored(asked.table[i])
  BY TableIs, Zenon
<1>3. \A i \in 1 .. n : asked.table[i] \in B
  BY <1>1, ElementOfSeq, LenProperties
<1>4. \A r : Stored(r).method = r.method
  BY DEF Stored
<1>5. DOMAIN Table(asked) = 1 .. n /\ \A i \in 1 .. n : Table(asked)[i].method \in Methods
  BY <1>1, <1>2, <1>3, <1>4
<1> QED
  BY <1>5, AllowIs

\* A request for any path, made under any route table, goes to the route
\* declared first among those it is an instance of, and the handler gets what
\* the client wrote for each parameter (Server.cpp:287-302, Helpers.h:77-125).
\* The alphabet is any set of symbols closed under toLower; a literal is not
\* empty, holds no slash and does not look like a parameter, and two parameters
\* of one pattern differ by more than case.
THEOREM RequestsFindTheirRoute ==
  ASSUME NEW A, Alphabet(A), asked.kind = "route" => asked \in AnyRoutes(A)
  PROVE  MatchesInstances
<1> DEFINE T == Table(asked)
           t == asked.table
           path == PathText(asked.segments, asked.spare)
<1> SUFFICES ASSUME asked.kind = "route", NEW method \in Methods
             PROVE  LET hits == IF method = "HEAD" /\ Hits(asked, "HEAD") = {} THEN Hits(asked, "GET")
                                ELSE Hits(asked, method)
                        served == RouteServing(T, method, path)
                        parts == t[served].parts
                        params == RouteParams(T[served].path, path)
                    IN  IF hits = {} THEN served = 0
                        ELSE /\ served \in hits
                             /\ \A i \in hits : served <= i
                             /\ DOMAIN params = {toLower(parts[i].text) : i \in {j \in DOMAIN parts : parts[j].parameter}}
                             /\ \A i \in DOMAIN parts :
                                  parts[i].parameter => params[toLower(parts[i].text)] = asked.segments[i]
  BY Zenon DEF MatchesInstances
<1>1. /\ t \in Seq([method : Methods, parts : Patterns(A)])
      /\ asked.segments \in Seq(Segs(A)) /\ asked.spare \in BOOLEAN
  BY DEF AnyRoutes
<1>2. PICK n \in Nat : DOMAIN t = 1 .. n /\ \A i \in 1 .. n : t[i].parts \in Patterns(A)
  <2> DEFINE D == [method : Methods, parts : Patterns(A)]
  <2>1. PICK n \in Nat : DOMAIN t = 1 .. n /\ \A i \in 1 .. n : t[i] \in D
    <3> HIDE DEF D
    <3> QED
      BY <1>1, ElementOfSeq, LenProperties DEF D
  <2> QED
    BY <2>1
<1>3. DOMAIN T = 1 .. n /\ \A i \in 1 .. n : T[i] = Stored(t[i])
  <2>1. DOMAIN T = DOMAIN t /\ \A i \in DOMAIN t : T[i] = Stored(t[i])
    BY <1>1, TableIs, Zenon
  <2> QED
    BY <1>2, <2>1
<1>4. \A r : Stored(r).method = r.method /\ Stored(r).path = toLower(PatternText(r.parts))
  BY DEF Stored
<1>5. \A i \in 1 .. n : T[i].method = t[i].method /\ T[i].path = toLower(PatternText(t[i].parts))
  BY <1>3, <1>4
<1>6. \A i \in 1 .. n : matchRoute(T[i].path, path) <=> InstanceOf(asked.segments, t[i].parts)
  <2> TAKE i \in 1 .. n
  <2>1. t[i].parts \in Seq(Parts(A))
    BY <1>2 DEF Patterns
  <2>2. matchRoute(toLower(PatternText(t[i].parts)), path) <=> InstanceOf(asked.segments, t[i].parts)
    BY <1>1, <2>1, MatchIsInstance, Zenon
  <2> QED
    BY <1>5, <2>2, Zenon
<1> HIDE DEF T, path
<1>7. \A m : Fits(T, m, path) = Hits(asked, m)
  BY <1>2, <1>3, <1>5, <1>6 DEF Fits, Hits
<1> DEFINE hits == IF method = "HEAD" /\ Hits(asked, "HEAD") = {} THEN Hits(asked, "GET")
                   ELSE Hits(asked, method)
           served == RouteServing(T, method, path)
<1>8. FirstOf(served, hits)
  <2> DEFINE fits == IF method = "HEAD" /\ Fits(T, "HEAD", path) = {} THEN Fits(T, "GET", path)
                     ELSE Fits(T, method, path)
  <2>1. FirstOf(served, fits)
    BY <1>3, ServedFirst, Zenon
  <2>2. fits = hits
    BY <1>7
  <2> HIDE DEF fits, hits, served
  <2> QED
    BY <2>1, <2>2, Zenon
<1>9. hits \subseteq 1 .. n
  BY <1>2 DEF Hits
<1> HIDE DEF hits, served
<1>10. CASE hits = {}
  <2>1. served = 0
    BY <1>8, <1>10 DEF FirstOf
  <2> QED
    BY <1>10, <2>1, Zenon DEF hits, served
<1>11. CASE hits # {}
  <2> DEFINE parts == t[served].parts
             params == RouteParams(T[served].path, path)
  <2>1. served \in hits /\ \A i \in hits : served <= i
    BY <1>8, <1>11 DEF FirstOf
  <2>2. parts \in Patterns(A) /\ T[served].path = toLower(PatternText(parts))
    BY <1>2, <1>5, <1>9, <2>1
  <2>3. Bound(params, parts, asked.segments)
    <3> HIDE DEF parts
    <3>1. params = RouteParams(toLower(PatternText(parts)), PathText(asked.segments, asked.spare))
      BY <2>2, Zenon DEF path
    <3> HIDE DEF params
    <3> QED
      BY <1>1, <2>2, <3>1, ParamsAre
  <2> QED
    BY <1>11, <2>1, <2>3, Zenon DEF hits, served, Bound
<1> QED
  BY <1>10, <1>11

-----------------------------------------------------------------------------
(* The questions MCParsing asks of the router are among these.             *)

Symbols == {"/", "{", "}", "a", "A", "b", "B", "c", "C"}

Letters == Symbols \cup {Lowered(c) : c \in Symbols}

LEMMA LettersAre == Alphabet(Letters) /\ Symbols \subseteq Letters
<1>1. Closed(Letters)
  <2>1. ASSUME NEW c \in Letters PROVE Lowered(c) \in Letters
    <3>1. CASE c \in Symbols
      BY <3>1, Zenon DEF Letters
    <3>2. CASE c \in {Lowered(d) : d \in Symbols}
      <4>1. PICK d \in Symbols : c = Lowered(d)
        BY <3>2, Zenon
      <4>2. Lowered(c) = c
        BY <4>1, LoweredIs, Zenon
      <4> QED
        BY <4>2, Zenon
    <3> QED
      BY <2>1, <3>1, <3>2, Zenon DEF Letters
  <2> QED
    BY <2>1, Zenon DEF Closed
<1>2. Symbols \subseteq Letters
  BY DEF Letters
<1>3. "/" \in Symbols /\ "{" \in Symbols /\ "}" \in Symbols
  BY Zenon DEF Symbols
<1> QED
  BY <1>1, <1>2, <1>3, Zenon DEF Alphabet, Braces

LEMMA ShortWords ==
  ASSUME NEW A, NEW c \in A, NEW d \in A, c # "/", d # "/"
  PROVE  /\ <<>> \in Words(A)
         /\ <<c>> \in Words(A) /\ <<c>> # <<>> /\ ~IsParameter(<<c>>)
         /\ <<c>> \in Segs(A) /\ <<c, d>> \in Segs(A)
<1> DEFINE B == A \ {"/"}
<1>1. c \in B /\ d \in B
  OBVIOUS
<1> HIDE DEF B
<1>2. <<c>> \in Seq(B) /\ <<c, d>> \in Seq(B) /\ <<>> \in Seq(B) /\ <<c>> # <<>> /\ <<c, d>> # <<>>
  BY <1>1
<1>3. Len(<<c>>) = 1 /\ ~(1 >= 2)
  OBVIOUS
<1>4. ~IsParameter(<<c>>)
  BY <1>3, Zenon DEF IsParameter
<1> QED
  BY <1>2, <1>4, Zenon DEF Words, Segs, B

LEMMA PartKinds ==
  ASSUME NEW A, NEW w \in Words(A)
  PROVE  /\ Parameter(w) \in Parts(A)
         /\ w # <<>> /\ ~IsParameter(w) => Literal(w) \in Parts(A)
         /\ Parameter(w).parameter /\ Parameter(w).text = w
         /\ ~Literal(w).parameter
BY DEF Parts, Parameter, Literal

LEMMA ShortPatterns ==
  ASSUME NEW A, NEW p \in Parts(A), NEW r \in Parts(A),
         ~p.parameter \/ ~r.parameter \/ toLower(p.text) # toLower(r.text)
  PROVE  <<>> \in Patterns(A) /\ <<p>> \in Patterns(A) /\ <<p, r>> \in Patterns(A)
<1> DEFINE P == Parts(A)
<1> HIDE DEF P
<1>1. p \in P /\ r \in P
  BY DEF P
<1>2. <<>> \in Seq(P) /\ <<p>> \in Seq(P) /\ <<p, r>> \in Seq(P)
  BY <1>1
<1>3. NamesDiffer(<<>>) /\ NamesDiffer(<<p>>)
  BY DEF NamesDiffer
<1>4. NamesDiffer(<<p, r>>)
  <2>1. DOMAIN <<p, r>> = {1, 2} /\ <<p, r>>[1] = p /\ <<p, r>>[2] = r
    OBVIOUS
  <2> DEFINE s == <<p, r>>
  <2> HIDE DEF s
  <2>2. DOMAIN s = {1, 2} /\ s[1] = p /\ s[2] = r
    BY <2>1 DEF s
  <2>3. NamesDiffer(s)
    BY <2>2 DEF NamesDiffer
  <2> QED
    BY <2>3 DEF s
<1> QED
  BY <1>2, <1>3, <1>4, Zenon DEF Patterns, P

LEMMA DeclaredLegal == DeclaredRoutes \subseteq [method : Methods, parts : Patterns(Letters)]
<1> DEFINE A == Letters
           open == "{"
           D(m, P) == [method |-> m, parts |-> P]
           p1 == Literal(<<"A">>)
           p2 == Parameter(<<"C">>)
           p3 == Parameter(<<"c">>)
           p4 == Parameter(<<"A">>)
           p5 == Parameter(<<"b">>)
           p6 == Literal(<<"a">>)
           p7 == Parameter(<<>>)
           p8 == Literal(<<open>>)
           p9 == Literal(<<"b">>)
<1>1. open \in A /\ open # "/" /\ "a" \in A /\ "A" \in A /\ "b" \in A /\ "c" \in A /\ "C" \in A
  <2>1. open \in Symbols /\ open # "/" /\ "a" \in Symbols /\ "A" \in Symbols /\ "b" \in Symbols
        /\ "c" \in Symbols /\ "C" \in Symbols
    BY Zenon DEF Symbols
  <2> QED
    BY <2>1, LettersAre, Zenon
<1>2. DeclaredRoutes = {D("GET", <<p1>>), D("GET", <<p2>>), D("HEAD", <<p3>>), D("POST", <<p4, p5>>),
                        D("GET", <<p6, p7>>), D("POST", <<p8, p9>>), D("OPTIONS", <<p6>>), D("PUT", <<>>)}
  BY Zenon DEF DeclaredRoutes
<1> HIDE DEF open
<1>3. /\ p1 \in Parts(A) /\ p6 \in Parts(A) /\ p9 \in Parts(A)
      /\ p2 \in Parts(A) /\ p3 \in Parts(A) /\ p4 \in Parts(A) /\ p5 \in Parts(A) /\ p7 \in Parts(A)
  <2> HIDE DEF A
  <2> QED
    BY <1>1, ShortWords, PartKinds
<1>4. p8 \in Parts(A) /\ ~p8.parameter /\ ~p6.parameter
  <2> HIDE DEF A
  <2>1. <<open>> \in Words(A) /\ <<open>> # <<>> /\ ~IsParameter(<<open>>) /\ <<"a">> \in Words(A)
    BY <1>1, ShortWords
  <2> DEFINE v == <<open>>
             w == <<"a">>
  <2> HIDE DEF v, w
  <2>2. v \in Words(A) /\ v # <<>> /\ ~IsParameter(v) /\ w \in Words(A)
    BY <2>1 DEF v, w
  <2>3. Literal(v) \in Parts(A) /\ ~Literal(v).parameter /\ ~Literal(w).parameter
    BY <2>2, PartKinds
  <2> QED
    BY <2>3 DEF v, w
<1>5. toLower(p4.text) # toLower(p5.text)
  <2>1. Lowered("b") # Lowered("A")
    <3>1. "A" \in DOMAIN Small /\ "b" \notin DOMAIN Small
      BY DEF Small, Lookup, Capitals
    <3>2. Small["A"] # "b"
      <4>1. \E pair \in Capitals : pair[1] = "A" /\ Small["A"] = pair[2]
        BY <3>1 DEF Small, Lookup
      <4>2. \A pair \in Capitals : pair[1] = "A" => pair[2] # "b"
        BY DEF Capitals
      <4> QED
        BY <4>1, <4>2, Zenon
    <3> QED
      BY <3>1, <3>2 DEF Lowered
  <2>2. toLower(<<"A">>) = <<Lowered("A")>> /\ toLower(<<"b">>) = <<Lowered("b")>>
    BY LowerOne
  <2>3. <<Lowered("A")>> # <<Lowered("b")>>
    <3> DEFINE x == Lowered("A")
               y == Lowered("b")
    <3> HIDE DEF x, y
    <3>1. x # y
      BY <2>1 DEF x, y
    <3>2. <<x>> # <<y>>
      BY <3>1
    <3> QED
      BY <3>2 DEF x, y
  <2>4. p4.text = <<"A">> /\ p5.text = <<"b">>
    BY DEF Parameter
  <2> QED
    BY <2>2, <2>3, <2>4, Zenon
<1> HIDE DEF p1, p2, p3, p4, p5, p6, p7, p8, p9, A
<1>6. /\ <<p1>> \in Patterns(A) /\ <<p2>> \in Patterns(A) /\ <<p3>> \in Patterns(A)
      /\ <<p6>> \in Patterns(A) /\ <<>> \in Patterns(A)
      /\ <<p4, p5>> \in Patterns(A) /\ <<p6, p7>> \in Patterns(A) /\ <<p8, p9>> \in Patterns(A)
  <2>1. \A p \in Parts(A) : ~p8.parameter => <<p8, p>> \in Patterns(A)
    BY <1>4, ShortPatterns
  <2>2. <<p4, p5>> \in Patterns(A)
    BY <1>3, <1>5, ShortPatterns
  <2>3. <<p6, p7>> \in Patterns(A) /\ <<p8, p9>> \in Patterns(A)
    BY <1>3, <1>4, ShortPatterns
  <2>4. \A p \in Parts(A) : <<p>> \in Patterns(A) /\ <<>> \in Patterns(A)
    BY <1>4, ShortPatterns
  <2> QED
    BY <1>3, <2>2, <2>3, <2>4, Zenon
<1>7. \A m \in Methods, P \in Patterns(A) : D(m, P) \in [method : Methods, parts : Patterns(A)]
  OBVIOUS
<1>8. "GET" \in Methods /\ "HEAD" \in Methods /\ "POST" \in Methods /\ "OPTIONS" \in Methods /\ "PUT" \in Methods
  BY DEF Methods
<1> DEFINE L == [method : Methods, parts : Patterns(A)]
<1> HIDE DEF D, L
<1>9. /\ D("GET", <<p1>>) \in L /\ D("GET", <<p2>>) \in L /\ D("HEAD", <<p3>>) \in L
      /\ D("POST", <<p4, p5>>) \in L /\ D("GET", <<p6, p7>>) \in L /\ D("POST", <<p8, p9>>) \in L
      /\ D("OPTIONS", <<p6>>) \in L /\ D("PUT", <<>>) \in L
  BY <1>6, <1>7, <1>8, Zenon DEF L
<1>10. DeclaredRoutes \subseteq L
  BY <1>2, <1>9, Zenon
<1> QED
  BY <1>10 DEF L, A

LEMMA ListsAre == ASSUME NEW S, NEW low \in Nat, NEW high \in Nat PROVE Lists(S, low, high) \subseteq Seq(S)
<1>1. ASSUME NEW l \in Lists(S, low, high) PROVE l \in Seq(S)
  <2>1. PICK n \in low .. high : l \in [1 .. n -> S]
    BY DEF Lists
  <2>2. n \in Nat
    OBVIOUS
  <2> QED
    BY <2>1, <2>2, FunctionIsSeq
<1> QED
  BY <1>1

LEMMA QuestionsLegal == RouteQuestions \subseteq AnyRoutes(Letters)
<1> DEFINE A == Letters
           L == [method : Methods, parts : Patterns(A)]
           open == "{"
           G == Segs(A)
<1>1. DeclaredRoutes \subseteq L
  BY DeclaredLegal
<1>2. /\ open \in A /\ open # "/" /\ "a" \in A /\ "A" \in A /\ "b" \in A /\ "C" \in A
      /\ Segments = {<<"a">>, <<"A">>, <<"b", "C">>, <<open>>, <<open, "a">>}
  <2>1. /\ open \in Symbols /\ open # "/" /\ "a" \in Symbols /\ "A" \in Symbols /\ "b" \in Symbols
        /\ "C" \in Symbols /\ Segments = {<<"a">>, <<"A">>, <<"b", "C">>, <<open>>, <<open, "a">>}
    BY Zenon DEF Symbols, Segments
  <2> QED
    BY <2>1, LettersAre, Zenon
<1> HIDE DEF A, open
<1>3. Segments \subseteq G
  <2>1. <<"a">> \in G /\ <<"A">> \in G /\ <<"b", "C">> \in G /\ <<open>> \in G /\ <<open, "a">> \in G
    BY <1>2, ShortWords
  <2> HIDE DEF G
  <2> QED
    BY <1>2, <2>1, Zenon
<1> HIDE DEF G, L
<1>4. Seq(DeclaredRoutes) \subseteq Seq(L) /\ Seq(Segments) \subseteq Seq(G)
  <2> DEFINE D == DeclaredRoutes
             S == Segments
  <2>1. D \subseteq L /\ S \subseteq G
    BY <1>1, <1>3
  <2> HIDE DEF D, S
  <2>2. Seq(D) \subseteq Seq(L) /\ Seq(S) \subseteq Seq(G)
    BY <2>1, SeqMonotonic
  <2> QED
    BY <2>2 DEF D, S
<1>5. Lists(DeclaredRoutes, 1, 3) \subseteq Seq(L) /\ Lists(Segments, 0, 2) \subseteq Seq(G)
  <2>1. \A S : Lists(S, 1, 3) \subseteq Seq(S) /\ Lists(S, 0, 2) \subseteq Seq(S)
    BY ListsAre
  <2> QED
    BY <1>4, <2>1, Zenon
<1> DEFINE X == Lists(DeclaredRoutes, 1, 3)
           Y == Lists(Segments, 0, 2)
           U == Seq(L)
           V == Seq(G)
<1>6. X \subseteq U /\ Y \subseteq V
  BY <1>5
<1>7. /\ RouteQuestions = [kind : {"route"}, table : X, segments : Y, spare : BOOLEAN]
      /\ AnyRoutes(Letters) = [kind : {"route"}, table : U, segments : V, spare : BOOLEAN]
  BY Zenon DEF RouteQuestions, AnyRoutes, G, L, A
<1> HIDE DEF X, Y, U, V
<1> QED
  BY <1>6, <1>7

\* The questions about other things are told apart by their kind.
Routed == asked.kind = "route" => asked \in AnyRoutes(Letters)

LEMMA OtherKinds ==
  /\ \A q \in QueryQuestions : q.kind = "query"
  /\ \A q \in RequestQuestions : q.kind = "request"
  /\ \A q \in FormQuestions : q.kind = "form"
  /\ \A q \in ResponseQuestions : q.kind = "response"
<1>1. \A q \in QueryQuestions : q.kind = "query"
  <2> DEFINE F == [key : Keys, value : Values]
             S == {"all", "plus", "plain"}
             O == {<<>>} \cup {<<p>> : p \in [key : Keys, value : {<<>>, <<"b">>}]}
             E(first, style, others) == [kind |-> "query", pairs |-> <<first>> \o others, style |-> style]
             Q == {E(first, style, others) : first \in F, style \in S, others \in O}
  <2>1. QueryQuestions = Q
    BY DEF QueryQuestions
  <2>2. \A first, style, others : E(first, style, others).kind = "query"
    OBVIOUS
  <2> HIDE DEF F, S, O, E
  <2>3. \A q \in Q : q.kind = "query"
    BY <2>2
  <2> QED
    BY <2>1, <2>3
<1>2. \A q \in RequestQuestions : q.kind = "request"
  <2> DEFINE O == {s \in Lists(HeadersSent, 0, 3) : \A i, j \in DOMAIN s : i # j => s[i] # s[j]}
             E(body, first, others) ==
               [kind |-> "request", method |-> IF body = <<>> THEN "GET" ELSE "POST", body |-> body,
                headers |-> IF body = <<>> THEN others
                            ELSE IF first
                            THEN <<Header(<<"Content-Length">>, to_string(Len(body)))>> \o others
                            ELSE Append(others, Header(<<"Content-Length">>, to_string(Len(body))))]
             Q == {E(body, first, others) : body \in Bodies, first \in BOOLEAN, others \in O}
  <2>1. RequestQuestions = Q
    BY DEF RequestQuestions
  <2>2. \A body, first, others : E(body, first, others).kind = "request"
    OBVIOUS
  <2> HIDE DEF O, E
  <2>3. \A q \in Q : q.kind = "request"
    BY <2>2
  <2> QED
    BY <2>1, <2>3
<1>3. \A q \in FormQuestions : q.kind = "form"
  <2> DEFINE Boundaries == {<<"b">>, <<"-", "b">>}
             Contents == Lists(Lists({"b", "-", CRLF}, 0, 3), 1, 1)
                         \cup ({<<"-", "-">>, <<"b", CRLF, CRLF>>, <<CRLF, "a">>} \X {<<>>, <<"c", CRLF>>})
  <2>1. FormQuestions \subseteq [kind : {"form"}, boundary : Boundaries, quoted : BOOLEAN,
                                 preamble : BOOLEAN, contents : Contents]
    BY Zenon DEF FormQuestions
  <2> HIDE DEF Boundaries, Contents
  <2> QED
    BY <2>1
<1>4. \A q \in ResponseQuestions : q.kind = "response"
  <2> DEFINE C == Lists(Calls, 0, 3)
  <2>1. ResponseQuestions = [kind : {"response"}, calls : C]
    BY Zenon DEF ResponseQuestions
  <2> HIDE DEF C
  <2> QED
    BY <2>1
<1> QED
  BY <1>1, <1>2, <1>3, <1>4

LEMMA StaysRouted == Spec => []Routed
<1>1. Init => Routed
  BY DEF Init, Routed
<1>2. Routed /\ [Next]_asked => Routed'
  <2> SUFFICES ASSUME Routed, [Next]_asked PROVE Routed'
    OBVIOUS
  <2>1. CASE AskRoute
    BY <2>1, QuestionsLegal DEF AskRoute, Ask, Routed
  <2>2. CASE AskQuery \/ AskRequest \/ AskForm \/ AskResponse
    BY <2>2, OtherKinds DEF AskQuery, AskRequest, AskForm, AskResponse, Ask, Routed
  <2>3. CASE UNCHANGED asked
    BY <2>3 DEF Routed
  <2> QED
    BY <2>1, <2>2, <2>3 DEF Next
<1> QED
  BY <1>1, <1>2, PTL DEF Spec

\* Every answer about a route MCParsing sees is right (Server.cpp:287-302).
THEOREM RoutesAnswered == Spec => []MatchesInstances
<1>1. Routed => MatchesInstances
  BY LettersAre, RequestsFindTheirRoute DEF Routed
<1> QED
  BY <1>1, StaysRouted, PTL

\* And every list of Allow MCParsing sees is right (Server.cpp:117-142).
THEOREM OptionsAnswered == Spec => []AllowIsHonest
<1> DEFINE B == [method : Methods, parts : Patterns(Letters)]
<1>1. Routed => AllowIsHonest
  <2> SUFFICES ASSUME Routed PROVE AllowIsHonest
    OBVIOUS
  <2>1. asked.kind = "route" => asked.table \in Seq(B)
    BY DEF Routed, AnyRoutes
  <2>2. \A r \in B : r.method \in Methods
    OBVIOUS
  <2> HIDE DEF B
  <2> QED
    BY <2>1, <2>2, AllowAgrees
<1> QED
  BY <1>1, StaysRouted, PTL

-----------------------------------------------------------------------------
(* Escapes, as a client writes them.                                       *)

LEMMA DigitsSpell == Spells(UpperDigits) /\ Spells(LowerDigits)
<1>1. ASSUME NEW p \in HexDigits PROVE p[1] \in DOMAIN HexDigit /\ HexDigit[p[1]] = p[2]
  BY HexDigitsNamed, LookupNames DEF HexDigit, Named
<1>2. ASSUME NEW d \in 0 .. 15 PROVE \E h \in UpperDigits : HexDigit[h] = d
  <2>1. \E p \in HexDigits : p[2] = d /\ p[1] \notin {"a", "b", "c", "d", "e", "f"}
    BY DEF HexDigits, Digits
  <2> QED
    BY <1>1, <2>1 DEF UpperDigits
<1>3. ASSUME NEW d \in 0 .. 15 PROVE \E h \in LowerDigits : HexDigit[h] = d
  <2>1. \E p \in HexDigits : p[2] = d /\ p[1] \notin {"A", "B", "C", "D", "E", "F"}
    BY DEF HexDigits, Digits
  <2> QED
    BY <1>1, <2>1 DEF LowerDigits
<1>4. UpperDigits \subseteq DOMAIN HexDigit /\ LowerDigits \subseteq DOMAIN HexDigit
  BY DEF UpperDigits, LowerDigits
<1> QED
  BY <1>2, <1>3, <1>4 DEF Spells

\* What a query over A is written in, and what stands in a key or a value of it.
Wire(A) == A \cup Hex \cup {"%", "&", "=", "+"}

Within(A) == Wire(A) \ {"&", "="}

\* The symbols that stand for c.
Symbol(c, style) ==
  IF style = "all" /\ c \in DOMAIN Code THEN Escape(c, LowerDigits)
  ELSE IF c = " " /\ style = "plus" THEN <<"+">>
  ELSE IF c \in {" ", "%", "&", "+", "="} THEN Escape(c, UpperDigits)
  ELSE <<c>>

\* w is read as c, whatever follows.
StandsFor(A, w, c) == w \in Seq(Within(A)) /\ \A s \in Seq(Wire(A)) : DecodesTo(w \o s, <<c>>, s)

LEMMA WireHas ==
  ASSUME NEW A
  PROVE  /\ Within(A) \subseteq Wire(A) /\ A \subseteq Wire(A)
         /\ "&" \in Wire(A) /\ "=" \in Wire(A)
         /\ "%" \in Within(A) /\ "+" \in Within(A)
         /\ \A h \in Hex : h \in Within(A)
<1>1. \A h \in Hex : h # "&" /\ h # "="
  BY HexIs
<1> QED
  BY <1>1 DEF Wire, Within

LEMMA EscapeStands ==
  ASSUME NEW A, NEW c \in DOMAIN Code, NEW digits, Spells(digits)
  PROVE  StandsFor(A, Escape(c, digits), c)
<1> DEFINE high == Code[c] \div 16
           low == Code[c] % 16
           a == CHOOSE h \in digits : HexDigit[h] = high
           b == CHOOSE h \in digits : HexDigit[h] = low
           p == "%"
           w == <<p, a, b>>
<1>1. Code[c] \in 0 .. 255
  BY CodeIs
<1>2. high \in 0 .. 15 /\ low \in 0 .. 15 /\ 16 * high + low = Code[c]
  BY <1>1
<1>3. Escape(c, digits) = <<"%", a, b>>
  BY Zenon DEF Escape
<1> HIDE DEF high, low
<1>4. a \in digits /\ HexDigit[a] = high /\ b \in digits /\ HexDigit[b] = low
  BY <1>2 DEF Spells
<1> HIDE DEF a, b
<1>5. a \in DOMAIN HexDigit /\ b \in DOMAIN HexDigit
  BY <1>4 DEF Spells
<1>6. HexValue(a, b) = {Code[c]}
  BY <1>2, <1>4, <1>5, HexPair
<1>7. a \in Within(A) /\ b \in Within(A) /\ p \in Within(A)
  BY <1>5, HexDigitIs, WireHas
<1>8. a \in Wire(A) /\ b \in Wire(A) /\ "%" \in Wire(A)
  BY <1>7, WireHas
<1> HIDE DEF p
<1>9. w \in Seq(Within(A))
  BY <1>7
<1>10. ASSUME NEW s \in Seq(Wire(A)) PROVE DecodesTo(w \o s, <<c>>, s)
  <2>1. DecodesTo(<<"%", a, b>> \o s, <<Byte(Code[c])>>, s)
    BY <1>6, <1>8, DecodeEscape
  <2>2. Byte(Code[c]) = c
    BY ByteOfCode
  <2> QED
    BY <2>1, <2>2, Zenon DEF p
<1> QED
  BY <1>3, <1>9, <1>10, Zenon DEF StandsFor, p

LEMMA CodeHas == {" ", "%", "&", "+", "="} \subseteq DOMAIN Code
<1>1. DOMAIN Code = {pair[1] : pair \in Codes}
  BY Zenon DEF Code, Lookup
<1>2. PICK blank : /\ blank = " "
                   /\ Codes = { <<blank, 32>>, <<"%", 37>>, <<"&", 38>>, <<"+", 43>>, <<"=", 61>>,
                                <<"A", 65>>, <<"a", 97>> }
  BY Zenon DEF Codes
<1>3. {blank, "%", "&", "+", "="} \subseteq DOMAIN Code
  BY <1>1, <1>2
<1> QED
  BY <1>2, <1>3, Zenon

LEMMA SymbolStands ==
  ASSUME NEW A, NEW c \in A, NEW style
  PROVE  StandsFor(A, Symbol(c, style), c)
<1> DEFINE special == {" ", "%", "&", "+", "="}
<1>1. CASE style = "all" /\ c \in DOMAIN Code
  <2>1. Symbol(c, style) = Escape(c, LowerDigits)
    BY <1>1, Zenon DEF Symbol
  <2> QED
    BY <1>1, <2>1, EscapeStands, DigitsSpell
<1>2. CASE ~(style = "all" /\ c \in DOMAIN Code) /\ c = " " /\ style = "plus"
  <2>1. Symbol(c, style) = <<"+">>
    BY <1>2, Zenon DEF Symbol
  <2>2. Spoken("+") = c
    BY <1>2, Zenon DEF Spoken
  <2>3. "+" \in Within(A) /\ "+" \in Wire(A) /\ "+" # "%"
    BY WireHas
  <2>4. <<"+">> \in Seq(Within(A))
    BY <2>3
  <2>5. ASSUME NEW s \in Seq(Wire(A)) PROVE DecodesTo(<<"+">> \o s, <<c>>, s)
    <3>1. DecodesTo(<<"+">> \o s, <<Spoken("+")>>, s)
      BY <2>3, DecodeOne
    <3> QED
      BY <2>2, <3>1, Zenon
  <2> QED
    BY <2>1, <2>4, <2>5, Zenon DEF StandsFor
<1>3. CASE ~(style = "all" /\ c \in DOMAIN Code) /\ ~(c = " " /\ style = "plus") /\ c \in special
  <2>1. Symbol(c, style) = Escape(c, UpperDigits)
    BY <1>3, Zenon DEF Symbol
  <2>2. c \in DOMAIN Code
    BY <1>3, CodeHas, Zenon
  <2> HIDE DEF special
  <2> QED
    BY <2>1, <2>2, EscapeStands, DigitsSpell
<1>4. CASE ~(style = "all" /\ c \in DOMAIN Code) /\ c \notin special
  <2>1. c # " " /\ c # "%" /\ c # "&" /\ c # "+" /\ c # "="
    BY <1>4, Zenon
  <2>2. Symbol(c, style) = <<c>>
    BY <1>4, <2>1, Zenon DEF Symbol
  <2>3. Spoken(c) = c
    BY <2>1, Zenon DEF Spoken
  <2>4. c # "%" /\ c # "&" /\ c # "="
    BY <2>1, Zenon
  <2> HIDE DEF special
  <2>5. c \in Within(A) /\ c \in Wire(A)
    BY <2>4 DEF Within, Wire
  <2>6. <<c>> \in Seq(Within(A))
    BY <2>5
  <2>7. ASSUME NEW s \in Seq(Wire(A)) PROVE DecodesTo(<<c>> \o s, <<c>>, s)
    <3>1. DecodesTo(<<c>> \o s, <<Spoken(c)>>, s)
      BY <2>4, <2>5, DecodeOne
    <3> QED
      BY <2>3, <3>1, Zenon
  <2> QED
    BY <2>2, <2>6, <2>7, Zenon DEF StandsFor
<1> QED
  BY <1>1, <1>2, <1>3, <1>4, Zenon

-----------------------------------------------------------------------------
(* Texts: what is encoded is decoded again.                                *)

EachSymbol(t, style) == [i \in DOMAIN t |-> Symbol(t[i], style)]

LEMMA EncodedIs == ASSUME NEW t, NEW style PROVE Encoded(t, style) = FlattenSeq(EachSymbol(t, style))
BY Zenon DEF Encoded, EachSymbol, Symbol

LEMMA SymbolsAppend ==
  ASSUME NEW A, NEW t \in Seq(A), NEW c \in A, NEW style
  PROVE  /\ EachSymbol(t, style) \in Seq(Seq(Within(A)))
         /\ EachSymbol(Append(t, c), style) = Append(EachSymbol(t, style), Symbol(c, style))
<1> DEFINE w == Append(t, c)
           B == Seq(Within(A))
           f == EachSymbol(t, style)
           g == EachSymbol(w, style)
<1>0. PICK n \in Nat : n = Len(t)
  BY LenProperties
<1>1. /\ DOMAIN t = 1 .. n /\ DOMAIN w = 1 .. n + 1 /\ w[n + 1] = c
      /\ \A i \in 1 .. n : w[i] = t[i] /\ t[i] \in A
      /\ \A i \in 1 .. n + 1 : w[i] \in A
  <2>1. w \in Seq(A) /\ Len(w) = n + 1 /\ w[n + 1] = c /\ \A i \in 1 .. n : w[i] = t[i]
    BY <1>0, AppendProperties
  <2> HIDE DEF w
  <2> QED
    BY <1>0, <2>1, LenProperties, ElementOfSeq
<1> HIDE DEF w
<1>2. \A e \in A : Symbol(e, style) \in B
  BY SymbolStands DEF StandsFor
<1> HIDE DEF B
<1>3. f \in [1 .. n -> B] /\ \A i \in 1 .. n : f[i] = Symbol(t[i], style)
  BY <1>1, <1>2 DEF EachSymbol
<1>4. g \in [1 .. n + 1 -> B] /\ \A i \in 1 .. n + 1 : g[i] = Symbol(w[i], style)
  BY <1>1, <1>2 DEF EachSymbol
<1> HIDE DEF f, g
<1>5. \A i \in 1 .. n : g[i] = f[i]
  BY <1>1, <1>3, <1>4
<1>6. f \in Seq(B) /\ g = Append(f, g[n + 1])
  BY <1>3, <1>4, <1>5, OneMore
<1>7. g[n + 1] = Symbol(c, style)
  BY <1>1, <1>4
<1> QED
  BY <1>6, <1>7 DEF w, f, g, B

LEMMA EncodedNone == ASSUME NEW style PROVE Encoded(<<>>, style) = <<>>
<1>1. EachSymbol(<<>>, style) = <<>>
  BY DEF EachSymbol
<1> QED
  BY <1>1, EncodedIs, FlattenEmpty

EncodedMore(t, c, style) == Encoded(Append(t, c), style) = Encoded(t, style) \o Symbol(c, style)

LEMMA EncodedAppend ==
  ASSUME NEW A, NEW t \in Seq(A), NEW c \in A, NEW style
  PROVE  Encoded(t, style) \in Seq(Within(A)) /\ EncodedMore(t, c, style)
<1> DEFINE f == EachSymbol(t, style)
           e == Symbol(c, style)
           B == Within(A)
<1>1. f \in Seq(Seq(B)) /\ EachSymbol(Append(t, c), style) = Append(f, e)
  BY SymbolsAppend
<1>2. e \in Seq(B)
  BY SymbolStands DEF StandsFor
<1> HIDE DEF f, e, B
<1>3. FlattenSeq(f) \in Seq(B) /\ FlattenSeq(Append(f, e)) = FlattenSeq(f) \o e
  BY <1>1, <1>2, FlattenAppend
<1>4. Encoded(t, style) = FlattenSeq(f) /\ Encoded(Append(t, c), style) = FlattenSeq(Append(f, e))
  BY <1>1, EncodedIs DEF f
<1> QED
  BY <1>3, <1>4 DEF B, e, EncodedMore

LEMMA EncodedType ==
  ASSUME NEW A, NEW t \in Seq(A), NEW style
  PROVE  Encoded(t, style) \in Seq(Within(A))
<1>1. CASE t = <<>>
  BY <1>1, EncodedNone, EmptySeq
<1>2. CASE t # <<>>
  <2>1. \E c : c \in A
    BY <1>2
  <2> QED
    BY <2>1, EncodedAppend
<1> QED
  BY <1>1, <1>2

\* urlDecode is the inverse of every encoding a client may choose, whatever
\* symbols the text has (Helpers.h:159-178).
THEOREM DecodeEncoded ==
  ASSUME NEW A, NEW t \in Seq(A), NEW style
  PROVE  urlDecode(Encoded(t, style)) = t
<1> DEFINE Decodes(u, w, v) == urlDecode(w) = v => urlDecode(Encoded(u, style) \o w) = u \o v
           T == {u \in Seq(A) : \A v \in Seq(A), w \in Seq(Wire(A)) : Decodes(u, w, v)}
<1>1. <<>> \in T
  <2>1. <<>> \in Seq(A)
    BY EmptySeq
  <2>2. ASSUME NEW v \in Seq(A), NEW w \in Seq(Wire(A)) PROVE Decodes(<<>>, w, v)
    <3>1. Encoded(<<>>, style) \o w = w /\ <<>> \o v = v
      BY EncodedNone, ConcatEmptySeq
    <3> QED
      BY <3>1, Zenon
  <2> HIDE DEF Decodes
  <2> QED
    BY <2>1, <2>2
<1>2. ASSUME NEW u \in Seq(A), NEW c \in A, u \in T PROVE Append(u, c) \in T
  <2>1. Append(u, c) \in Seq(A)
    BY AppendProperties
  <2>2. ASSUME NEW v \in Seq(A), NEW w \in Seq(Wire(A)) PROVE Decodes(Append(u, c), w, v)
    <3> SUFFICES ASSUME urlDecode(w) = v PROVE urlDecode(Encoded(Append(u, c), style) \o w) = Append(u, c) \o v
      BY Zenon
    <3> DEFINE x == Symbol(c, style)
               e == Encoded(u, style)
    <3>1. x \in Seq(Within(A)) /\ DecodesTo(x \o w, <<c>>, w)
      BY SymbolStands DEF StandsFor
    <3>2. e \in Seq(Within(A)) /\ EncodedMore(u, c, style)
      BY EncodedAppend
    <3>3. Encoded(Append(u, c), style) = e \o x
      BY <3>2, Zenon DEF EncodedMore
    <3> HIDE DEF x, e
    <3>4. x \in Seq(Wire(A)) /\ e \in Seq(Wire(A))
      BY <3>1, <3>2, WireHas, SeqMonotonic
    <3>5. Associate(e, x, w)
      BY <3>4, Associates
    <3>6. x \o w \in Seq(Wire(A))
      BY <3>4, ConcatProperties
    <3>7. <<c>> \in Seq(A) /\ <<c>> \o v \in Seq(A)
      BY One, ConcatProperties
    <3>8. urlDecode(x \o w) = <<c>> \o v
      BY <3>1, Zenon DEF DecodesTo
    <3>9. Decodes(u, x \o w, <<c>> \o v)
      <4> HIDE DEF Decodes
      <4> QED
        BY <1>2, <3>6, <3>7
    <3>10. urlDecode(e \o (x \o w)) = u \o (<<c>> \o v)
      BY <3>8, <3>9, Zenon DEF e
    <3>11. Append(u, c) = u \o <<c>>
      BY AppendIsConcat
    <3>12. Associate(u, <<c>>, v)
      BY <3>7, Associates
    <3> QED
      BY <3>3, <3>5, <3>10, <3>11, <3>12, Zenon DEF Associate
  <2> HIDE DEF Decodes
  <2> QED
    BY <2>1, <2>2
<1> HIDE DEF T
<1>3. t \in T
  BY <1>1, <1>2, SeqInduct
<1>4. <<>> \in Seq(A) /\ <<>> \in Seq(Wire(A))
  BY EmptySeq
<1>5. Decodes(t, <<>>, <<>>)
  BY <1>3, <1>4, Zenon DEF T
<1>6. Encoded(t, style) \o <<>> = Encoded(t, style) /\ t \o <<>> = t
  BY EncodedType, ConcatEmptySeq
<1> QED
  BY <1>5, <1>6, DecodeNone, Zenon

-----------------------------------------------------------------------------
(* A query comes apart into the pairs it was made of.                      *)

LEMMA SplitJoin ==
  ASSUME NEW A, NEW d \in A, NEW P \in Seq(Seq(A \ {d})), P # <<>>
  PROVE  SplitsInto(Joined(P, <<d>>), d, P)
<1> DEFINE b == <<d>>
           W == Seq(A \ {d})
           T == {Q \in Seq(W) : Q # <<>> => SplitsInto(Joined(Q, b), d, Q)}
<1>1. b \in Seq(A) /\ W \subseteq Seq(A)
  BY One, SeqMonotonic
<1>2. <<>> \in T
  BY EmptySeq
<1>3. ASSUME NEW Q \in Seq(W), NEW e \in W, Q \in T PROVE Append(Q, e) \in T
  <2> HIDE DEF b
  <2>1. Q \in Seq(Seq(A)) /\ e \in Seq(A)
    BY <1>1, SeqMonotonic
  <2>2. Joined(Q, b) \in Seq(A) /\ Joined(Append(Q, e), b) = Joined(Q, b) \o More(Q, e, b)
    BY <1>1, <2>1, JoinedAppend
  <2>3. SplitsInto(Joined(Append(Q, e), b), d, Append(Q, e))
    <3>1. CASE Q = <<>>
      <4>1. Joined(Append(Q, e), b) = e
        <5>1. More(Q, e, b) = e /\ Joined(Q, b) = <<>>
          BY <3>1, JoinedNone DEF More
        <5> QED
          BY <2>1, <2>2, <5>1, ConcatEmptySeq
      <4>2. EndsIn(e, d, Q, e)
        BY <3>1, SplitOnce
      <4> QED
        BY <4>1, <4>2, Zenon DEF EndsIn, SplitsInto
    <3>2. CASE Q # <<>>
      <4>1. split(Joined(Q, b), d) = Q
        BY <1>3, <3>2 DEF SplitsInto
      <4>2. Joined(Append(Q, e), b) = Joined(Q, b) \o (<<d>> \o e)
        BY <2>2, <3>2, Zenon DEF More, b
      <4> DEFINE j == Joined(Q, b)
      <4>3. j \in Seq(A)
        BY <2>2
      <4> HIDE DEF j
      <4>4. split(j \o (<<d>> \o e), d) = Append(split(j, d), e)
        BY <4>3, SplitMore
      <4> QED
        BY <4>1, <4>2, <4>4, Zenon DEF SplitsInto, j
    <3> QED
      BY <3>1, <3>2
  <2> HIDE DEF W
  <2> QED
    BY <2>3, AppendProperties
<1> HIDE DEF T, W
<1>4. P \in T
  BY <1>2, <1>3, SeqInduct DEF W
<1> QED
  BY <1>4 DEF T

\* Pieces that hold something and no delimiter are found again.
PiecesFound(P, d) == NonEmpty(getlines(Joined(P, <<d>>), d)) = P

LEMMA PiecesBack ==
  ASSUME NEW A, NEW d \in A, NEW P \in Seq(Seq(A \ {d}) \ {<<>>})
  PROVE  PiecesFound(P, d)
<1> DEFINE B == Seq(A \ {d}) \ {<<>>}
           j == Joined(P, <<d>>)
<1>1. P \in Seq(Seq(A \ {d})) /\ P \in Seq(Seq(A)) /\ P \in Seq(B) /\ <<>> \notin B
  <2>1. B \subseteq Seq(A \ {d}) /\ B \subseteq Seq(A)
    BY SeqMonotonic
  <2>2. P \in Seq(B) /\ <<>> \notin B
    OBVIOUS
  <2> HIDE DEF B
  <2> QED
    BY <2>1, <2>2, SeqMonotonic
<1>2. j \in Seq(A)
  BY <1>1, One, JoinedType
<1>3. SkipsAlike(j, d)
  BY <1>2, LinesSkipped
<1>4. CASE P = <<>>
  <2>1. j = <<>>
    BY <1>4, JoinedNone
  <2>2. split(<<>>, d) = Append(<<>>, <<>>)
    BY SplitEmpty
  <2>3. NonEmpty(Append(<<>>, <<>>)) = <<>>
    <3>1. <<>> \in Seq({<<>>}) /\ <<>> \in {<<>>}
      BY EmptySeq
    <3> DEFINE none == <<>>
    <3> HIDE DEF none
    <3>2. none \in Seq({<<>>}) => NonEmpty(Append(none, <<>>)) = NonEmpty(none)
      BY <3>1, NonEmptyAppend
    <3> QED
      BY <3>1, <3>2, NonEmptyNone DEF none
  <2> QED
    BY <1>3, <1>4, <2>1, <2>2, <2>3, Zenon DEF SkipsAlike, PiecesFound
<1>5. CASE P # <<>>
  <2>1. SplitsInto(j, d, P)
    BY <1>1, <1>5, SplitJoin
  <2> HIDE DEF B
  <2>2. NonEmpty(P) = P
    BY <1>1, NothingSkipped
  <2> QED
    BY <1>3, <2>1, <2>2, Zenon DEF SkipsAlike, SplitsInto, PiecesFound
<1> QED
  BY <1>4, <1>5

\* A pair as a client writes it, and what the code makes of a piece.
PairText(p, style) == Encoded(p.key, style) \o <<"=">> \o Encoded(p.value, style)

PairTexts(pairs, style) == [i \in DOMAIN pairs |-> PairText(pairs[i], style)]

PairFrom(kv) == [key |-> urlDecode(kv[1]), value |-> IF Len(kv) > 1 THEN urlDecode(kv[2]) ELSE <<>>]

PairRead(p, style) == PairFrom(getlines(PairText(p, style), "=")) = p

LEMMA PairIsRead ==
  ASSUME NEW A, NEW p \in KeyValues(A), NEW style
  PROVE  PairText(p, style) \in Seq(Wire(A) \ {"&"}) \ {<<>>} /\ PairRead(p, style)
<1> DEFINE k == Encoded(p.key, style)
           v == Encoded(p.value, style)
           w == PairText(p, style)
           d == "="
           B == Wire(A) \ {"&"}
<1>1. p.key \in Seq(A) /\ p.value \in Seq(A) /\ p = [key |-> p.key, value |-> p.value]
  BY DEF KeyValues
<1>2. k \in Seq(Within(A)) /\ v \in Seq(Within(A))
  BY <1>1, EncodedType
<1>3. d \in B /\ Within(A) = B \ {d}
  BY DEF Within, Wire
<1>4. urlDecode(k) = p.key /\ urlDecode(v) = p.value
  BY <1>1, DecodeEncoded
<1>5. w = k \o <<d>> \o v
  BY Zenon DEF PairText
<1> HIDE DEF k, v, w, d, B
<1>6. k \in Seq(B \ {d}) /\ v \in Seq(B \ {d})
  BY <1>2, <1>3
<1>7. w \in Seq(B) /\ w # <<>> /\ LinesAre(w, d, <<k>>, v)
  BY <1>3, <1>5, <1>6, SidesOf
<1>8. PairFrom(getlines(w, d)) = p
  <2>1. CASE v = <<>>
    <3>1. getlines(w, d) = <<k>> /\ p.value = <<>>
      BY <1>4, <1>7, <2>1, DecodeNone DEF LinesAre
    <3>2. PairFrom(<<k>>) = [key |-> urlDecode(k), value |-> <<>>]
      <4>1. <<k>>[1] = k /\ ~(Len(<<k>>) > 1)
        OBVIOUS
      <4> QED
        BY <4>1, Zenon DEF PairFrom
    <3> QED
      BY <1>1, <1>4, <3>1, <3>2, Zenon
  <2>2. CASE v # <<>>
    <3>1. getlines(w, d) = <<k, v>>
      <4>1. Append(<<k>>, v) = <<k, v>>
        BY <1>6, Both
      <4> QED
        BY <1>7, <2>2, <4>1, Zenon DEF LinesAre
    <3>2. PairFrom(<<k, v>>) = [key |-> urlDecode(k), value |-> urlDecode(v)]
      <4>1. <<k, v>>[1] = k /\ <<k, v>>[2] = v /\ Len(<<k, v>>) > 1
        OBVIOUS
      <4> QED
        BY <4>1, Zenon DEF PairFrom
    <3> QED
      BY <1>1, <1>4, <3>1, <3>2, Zenon
  <2> QED
    BY <2>1, <2>2
<1> QED
  BY <1>7, <1>8, Zenon DEF w, d, B, PairRead

\* The pairs the code assigns are the pairs the client meant.
QueryIs(pairs, style) == parseQueryString(QueryText(pairs, style)) = Assigned(pairs)

LEMMA QueryParses ==
  ASSUME NEW A, NEW pairs \in Seq(KeyValues(A)), NEW style
  PROVE  QueryIs(pairs, style)
<1> DEFINE P == PairTexts(pairs, style)
           B == Seq(Wire(A) \ {"&"}) \ {<<>>}
           d == "&"
<1>0. PICK n \in Nat : n = Len(pairs)
  BY LenProperties
<1>1. DOMAIN pairs = 1 .. n /\ \A i \in 1 .. n : pairs[i] \in KeyValues(A)
  BY <1>0, LenProperties, ElementOfSeq
<1>2. \A i \in 1 .. n : PairText(pairs[i], style) \in B /\ PairRead(pairs[i], style)
  BY <1>1, PairIsRead
<1>3. QueryText(pairs, style) = Joined(P, <<"&">>)
  BY Zenon DEF QueryText, PairTexts, PairText
<1> HIDE DEF B
<1>4. P \in [1 .. n -> B] /\ \A i \in 1 .. n : P[i] = PairText(pairs[i], style)
  BY <1>1, <1>2 DEF PairTexts
<1> HIDE DEF P
<1>5. P \in Seq(B) /\ DOMAIN P = 1 .. n
  BY <1>4, FunctionIsSeq
<1>6. PiecesFound(P, d)
  <2>1. d \in Wire(A)
    BY WireHas
  <2> QED
    BY <1>5, <2>1, PiecesBack DEF B
<1>7. NonEmpty(getlines(QueryText(pairs, style), "&")) = P
  BY <1>3, <1>6, Zenon DEF PiecesFound
<1>8. [i \in DOMAIN P |-> PairFrom(getlines(P[i], "="))] = pairs
  <2> DEFINE E(w) == PairFrom(getlines(w, "="))
             f == [i \in DOMAIN P |-> E(P[i])]
  <2>1. \A i \in 1 .. n : E(P[i]) = pairs[i]
    BY <1>2, <1>4, Zenon DEF PairRead
  <2> HIDE DEF E
  <2>2. DOMAIN f = 1 .. n /\ \A i \in 1 .. n : f[i] = pairs[i]
    BY <1>5, <2>1
  <2>3. f = [i \in 1 .. n |-> pairs[i]]
    BY <1>5, <2>2
  <2>4. pairs = [i \in 1 .. n |-> pairs[i]]
    BY <1>0
  <2> QED
    BY <2>3, <2>4 DEF E
<1>9. parseQueryString(QueryText(pairs, style)) = Assigned([i \in DOMAIN P |-> PairFrom(getlines(P[i], "="))])
  <2> DEFINE q == QueryText(pairs, style)
  <2> HIDE DEF q
  <2>1. parseQueryString(q) =
          Assigned([i \in DOMAIN NonEmpty(getlines(q, "&")) |->
                      PairFrom(getlines(NonEmpty(getlines(q, "&"))[i], "="))])
    BY Zenon DEF parseQueryString, PairFrom
  <2> QED
    BY <1>7, <2>1, Zenon DEF q
<1> QED
  BY <1>8, <1>9, Zenon DEF QueryIs

\* Every list the constructor may build from a map has, for each key of it, the
\* value of a key that differs in case only.
ListHonest(map, list) ==
  \A k \in DOMAIN map : \E j \in DOMAIN map : SameName(j, k) /\ get(list, k) = {map[j]}

LEMMA ListsHonest ==
  ASSUME NEW map, NEW list \in KVLists(map)
  PROVE  ListHonest(map, list)
<1> DEFINE names == {Folded(k) : k \in DOMAIN map}
           choices == {pick \in [names -> DOMAIN map] : \A n \in names : Folded(pick[n]) = n}
           L(pick) == [n \in names |-> KVPair(pick[n], map[pick[n]])]
<1>1. PICK pick \in choices : list = L(pick)
  BY Zenon DEF KVLists
<1>2. ASSUME NEW k \in DOMAIN map
      PROVE  \E j \in DOMAIN map : SameName(j, k) /\ get(list, k) = {map[j]}
  <2> DEFINE n == Folded(k)
             j == pick[n]
  <2>1. n \in names
    OBVIOUS
  <2>2. j \in DOMAIN map /\ Folded(j) = n
    BY <2>1
  <2>3. n \in DOMAIN list /\ list[n] = KVPair(j, map[j])
    BY <1>1, <2>1
  <2>4. KVPair(j, map[j]).value = map[j]
    BY DEF KVPair
  <2>5. get(list, k) = {list[n].value}
    BY <2>3, Zenon DEF get
  <2>6. SameName(j, k)
    BY <2>2, Zenon DEF SameName, Folded
  <2> HIDE DEF n, j, names
  <2> QED
    BY <2>2, <2>3, <2>4, <2>5, <2>6, Zenon
<1> HIDE DEF names, choices, L
<1> QED
  BY <1>2, Zenon DEF ListHonest

\* For every list of pairs over any alphabet, and every legal way to escape
\* them, the handler reads what the client meant (Request.cpp:46-59,
\* Helpers.h:159-178): the last value of each key, and of keys that differ in
\* case only the value of one.
THEOREM QueriesMeanWhatTheySay ==
  ASSUME NEW A, asked.kind = "query" => asked.pairs \in Seq(KeyValues(A))
  PROVE  QueryRead
<1> DEFINE pairs == asked.pairs
           last(k) == pairs[Max({i \in DOMAIN pairs : pairs[i].key = k})].value
           keys == {pairs[i].key : i \in DOMAIN pairs}
           params == parseQueryString(QueryText(pairs, asked.style))
<1> SUFFICES ASSUME asked.kind = "query"
             PROVE  /\ params = [k \in keys |-> last(k)]
                    /\ \A list \in KVLists(params), k \in keys :
                         \E j \in keys : SameName(j, k) /\ get(list, k) = {last(j)}
  BY Zenon DEF QueryRead
<1>1. QueryIs(pairs, asked.style)
  BY QueryParses
<1>2. params = [k \in keys |-> last(k)]
  BY <1>1, Zenon DEF QueryIs, Assigned
<1> HIDE DEF params
<1>3. ASSUME NEW list \in KVLists(params), NEW k \in keys
      PROVE  \E j \in keys : SameName(j, k) /\ get(list, k) = {last(j)}
  <2>1. ListHonest(params, list)
    BY ListsHonest
  <2> HIDE DEF keys, last
  <2>2. DOMAIN params = keys
    BY <1>2
  <2>3. PICK j \in keys : SameName(j, k) /\ get(list, k) = {params[j]}
    BY <2>1, <2>2 DEF ListHonest
  <2>4. params[j] = last(j)
    BY <1>2
  <2> QED
    BY <2>3, <2>4
<1> QED
  BY <1>2, <1>3

\* The queries MCParsing asks about are lists of pairs over this alphabet.
Tricky == {"a", " ", "%", "&", "=", "+"}

QuerySymbols == Tricky \cup {"a", "A", "b", "=", "%", "4", "1", "+"}

QueryAsked == asked.kind = "query" => asked.pairs \in Seq(KeyValues(QuerySymbols))

LEMMA QueriesLegal == \A q \in QueryQuestions : q.pairs \in Seq(KeyValues(QuerySymbols))
<1> DEFINE F == [key : Keys, value : Values]
           G == [key : Keys, value : {<<>>, <<"b">>}]
           S == {"all", "plus", "plain"}
           O == {<<>>} \cup {<<p>> : p \in G}
           E(first, style, others) == [kind |-> "query", pairs |-> <<first>> \o others, style |-> style]
           Q == {E(first, style, others) : first \in F, style \in S, others \in O}
           A == QuerySymbols
           P == KeyValues(A)
<1>1. QueryQuestions = Q
  BY DEF QueryQuestions
<1>2. Values = Lists(Tricky, 0, 2) \cup {<<"%", "4", "1">>, <<"a", "+", "%">>}
  BY Zenon DEF Values, Tricky
<1>3. "a" \in A /\ "A" \in A /\ "b" \in A /\ "=" \in A /\ "%" \in A /\ "4" \in A /\ "1" \in A /\ "+" \in A
  BY DEF QuerySymbols
<1>4. Tricky \subseteq A
  BY DEF QuerySymbols
<1> HIDE DEF A
<1>5. Lists(Tricky, 0, 2) \subseteq Seq(A)
  BY <1>4, ListsAre, SeqMonotonic
<1>6. <<"%", "4", "1">> \in Seq(A) /\ <<"a", "+", "%">> \in Seq(A)
  BY <1>3
<1>7. Keys \subseteq Seq(A) /\ {<<>>, <<"b">>} \subseteq Seq(A)
  <2>1. <<>> \in Seq(A) /\ <<"a">> \in Seq(A) /\ <<"A">> \in Seq(A) /\ <<"=", "a">> \in Seq(A)
        /\ <<"b">> \in Seq(A)
    BY <1>3, EmptySeq, One
  <2> QED
    BY <2>1, Zenon DEF Keys
<1>8. Values \subseteq Seq(A)
  BY <1>2, <1>5, <1>6
<1>9. F \subseteq P /\ G \subseteq P
  BY <1>7, <1>8 DEF KeyValues
<1> HIDE DEF F, G, P
<1>10. ASSUME NEW first \in F, NEW others \in O PROVE <<first>> \o others \in Seq(P)
  <2>1. others \in Seq(P)
    BY <1>9, EmptySeq, One
  <2>2. <<first>> \in Seq(P)
    BY <1>9, One
  <2> QED
    BY <2>1, <2>2, ConcatProperties
<1>11. \A first, style, others : E(first, style, others).pairs = <<first>> \o others
  OBVIOUS
<1> HIDE DEF E, O, S
<1>12. ASSUME NEW q \in Q PROVE q.pairs \in Seq(P)
  <2>1. PICK first \in F, style \in S, others \in O : q = E(first, style, others)
    OBVIOUS
  <2>2. q.pairs = <<first>> \o others
    BY <1>11, <2>1
  <2>3. <<first>> \o others \in Seq(P)
    BY <1>10
  <2> QED
    BY <2>2, <2>3
<1> QED
  BY <1>1, <1>12 DEF P, A

LEMMA StaysQueryAsked == Spec => []QueryAsked
<1>1. Init => QueryAsked
  BY DEF Init, QueryAsked
<1>2. QueryAsked /\ [Next]_asked => QueryAsked'
  <2> SUFFICES ASSUME QueryAsked, [Next]_asked PROVE QueryAsked'
    OBVIOUS
  <2>1. CASE AskRoute
    <3> DEFINE X == Lists(DeclaredRoutes, 1, 3)
               Y == Lists(Segments, 0, 2)
    <3>1. RouteQuestions = [kind : {"route"}, table : X, segments : Y, spare : BOOLEAN]
      BY Zenon DEF RouteQuestions
    <3> HIDE DEF X, Y
    <3>2. \A q \in RouteQuestions : q.kind = "route"
      BY <3>1
    <3> QED
      BY <2>1, <3>2 DEF AskRoute, Ask, QueryAsked
  <2>2. CASE AskQuery
    BY <2>2, QueriesLegal DEF AskQuery, Ask, QueryAsked
  <2>3. CASE AskRequest \/ AskForm \/ AskResponse
    BY <2>3, OtherKinds DEF AskRequest, AskForm, AskResponse, Ask, QueryAsked
  <2>4. CASE UNCHANGED asked
    BY <2>4 DEF QueryAsked
  <2> QED
    BY <2>1, <2>2, <2>3, <2>4 DEF Next
<1> QED
  BY <1>1, <1>2, PTL DEF Spec

\* Every query MCParsing asks about is read as it was meant (Request.cpp:46-59,
\* Helpers.h:159-178).
THEOREM QueriesAnswered == Spec => []QueryRead
<1>1. QueryAsked => QueryRead
  BY QueriesMeanWhatTheySay DEF QueryAsked
<1> QED
  BY <1>1, StaysQueryAsked, PTL

-----------------------------------------------------------------------------
(* KVList: what get finds after set.                                       *)

\* set stores the value under every spelling of the key, keeps the spelling of
\* the first, and leaves all other keys as they were (KVList.h:81-98).
THEOREM GetAfterSet ==
  ASSUME NEW list, NEW key, NEW value, NEW other
  PROVE  /\ SameName(other, key) => get(set(list, key, value), other) = {value}
         /\ ~SameName(other, key) => get(set(list, key, value), other) = get(list, other)
         /\ Folded(key) \in DOMAIN list =>
              set(list, key, value)[Folded(key)].key = list[Folded(key)].key
<1> DEFINE name == Folded(key)
           n == Folded(other)
           spelling == IF name \in DOMAIN list THEN list[name].key ELSE key
           more == set(list, key, value)
<1>1. more = [m \in DOMAIN list \cup {name} |-> IF m = name THEN KVPair(spelling, value) ELSE list[m]]
  BY Zenon DEF set
<1>2. SameName(other, key) <=> n = name
  BY Zenon DEF SameName, Folded
<1>3. get(more, other) = IF n \in DOMAIN more THEN {more[n].value} ELSE {}
  BY Zenon DEF get
<1>4. get(list, other) = IF n \in DOMAIN list THEN {list[n].value} ELSE {}
  BY Zenon DEF get
<1>5. KVPair(spelling, value).value = value /\ KVPair(spelling, value).key = spelling
  BY DEF KVPair
<1> HIDE DEF name, n, more
<1>6. name \in DOMAIN more /\ more[name] = KVPair(spelling, value)
  BY <1>1
<1>7. n # name => (n \in DOMAIN more <=> n \in DOMAIN list) /\ (n \in DOMAIN list => more[n] = list[n])
  BY <1>1
<1>8. SameName(other, key) => get(more, other) = {value}
  BY <1>2, <1>3, <1>5, <1>6
<1>9. ~SameName(other, key) => get(more, other) = get(list, other)
  BY <1>2, <1>3, <1>4, <1>7
<1>10. name \in DOMAIN list => more[name].key = list[name].key
  BY <1>5, <1>6
<1> QED
  BY <1>8, <1>9, <1>10 DEF more, name

-----------------------------------------------------------------------------
(* Numbers.                                                                *)

\* g is the recursive function inside stoul, up to n.
Reading(g, n, s) == g = [k \in 0 .. n |-> IF k = 0 THEN 0 ELSE 10 * g[k - 1] + Digit[s[k]]]

LEMMA ReadingAt ==
  ASSUME NEW g, NEW n, NEW s, Reading(g, n, s)
  PROVE  \A k \in 0 .. n : g[k] = IF k = 0 THEN 0 ELSE 10 * g[k - 1] + Digit[s[k]]
<1> DEFINE h == [k \in 0 .. n |-> IF k = 0 THEN 0 ELSE 10 * g[k - 1] + Digit[s[k]]]
<1>1. g = h
  BY DEF Reading
<1> QED
  BY <1>1, Zenon

LEMMA ReadingGrows ==
  ASSUME NEW f, NEW n \in Nat, NEW s, Reading(f, n, s)
  PROVE  \E g : Reading(g, n + 1, s)
<1> DEFINE F(k, earlier) == IF k = 0 THEN 0 ELSE 10 * earlier + Digit[s[k]]
           g == [k \in 0 .. n + 1 |-> F(k, f[k - 1])]
<1>1. \A k \in 0 .. n : g[k] = f[k]
  <2> TAKE k \in 0 .. n
  <2>1. f[k] = F(k, f[k - 1])
    BY ReadingAt
  <2>2. k \in 0 .. n + 1
    OBVIOUS
  <2> HIDE DEF F
  <2>3. g[k] = F(k, f[k - 1])
    BY <2>2
  <2> HIDE DEF g
  <2> QED
    BY <2>1, <2>3
<1>2. \A k \in 0 .. n + 1 : F(k, f[k - 1]) = F(k, g[k - 1])
  <2> TAKE k \in 0 .. n + 1
  <2>1. CASE k = 0
    BY <2>1
  <2>2. CASE k # 0
    <3>1. k - 1 \in 0 .. n
      BY <2>2
    <3> HIDE DEF F, g
    <3> QED
      BY <1>1, <3>1
  <2> QED
    BY <2>1, <2>2
<1>3. g = [k \in 0 .. n + 1 |-> F(k, g[k - 1])]
  <2> HIDE DEF F
  <2> QED
    BY <1>2
<1> HIDE DEF g
<1> QED
  BY <1>3 DEF Reading

LEMMA StoulReads ==
  ASSUME NEW s \in Figures
  PROVE  \E g : Reading(g, Len(s), s) /\ stoul(s) = {g[Len(s)]}
<1>1. s \in Seq(DOMAIN Digit) /\ Len(s) # 0 /\ Len(s) \in Nat
  BY LenProperties DEF Figures
<1>2. \A i \in 1 .. Len(s) : s[i] \in DOMAIN Digit
  BY <1>1, ElementOfSeq
<1>3. trim(s) = s
  BY <1>1, <1>2, DigitIs, TenIs, TrimSolid
<1> DEFINE T == {n \in Nat : \E f : Reading(f, n, s)}
<1>4. 0 \in T
  <2> DEFINE g == [k \in 0 .. 0 |-> 0]
  <2>1. g = [k \in 0 .. 0 |-> IF k = 0 THEN 0 ELSE 10 * g[k - 1] + Digit[s[k]]]
    OBVIOUS
  <2> HIDE DEF g
  <2>2. Reading(g, 0, s)
    BY <2>1 DEF Reading
  <2> QED
    BY <2>2
<1>5. ASSUME NEW n \in Nat, n \in T PROVE n + 1 \in T
  BY <1>5, ReadingGrows
<1> HIDE DEF T
<1>6. Len(s) \in T
  BY <1>1, <1>4, <1>5, Induct
<1> DEFINE w == trim(s)
           value == CHOOSE f : Reading(f, Len(w), w)
           digits == {n \in 1 .. Len(w) : \A i \in 1 .. n : w[i] \in DOMAIN Digit}
<1>7. stoul(s) = IF digits = {} THEN {} ELSE {value[Max(digits)]}
  BY Zenon DEF stoul, Reading
<1>8. \E f : Reading(f, Len(w), w)
  BY <1>3, <1>6 DEF T
<1>9. Reading(value, Len(w), w)
  BY <1>8
<1>10. digits = 1 .. Len(s)
  <2> HIDE DEF value
  <2> QED
    BY <1>1, <1>2, <1>3
<1> HIDE DEF w, value, digits
<1>11. w = s
  BY <1>3 DEF w
<1>12. digits \subseteq 1 .. Len(s) /\ digits # {}
  <2>1. 1 \in 1 .. Len(s)
    BY <1>1
  <2> QED
    BY <1>10, <2>1, Zenon
<1>13. Max(digits) \in digits /\ \A x \in digits : x <= Max(digits)
  BY <1>1, <1>12, Greatest
<1>14. Max(digits) = Len(s)
  BY <1>1, <1>10, <1>13
<1> QED
  BY <1>7, <1>9, <1>11, <1>12, <1>14

Numeral(s, v) == s \in Figures /\ stoul(s) = {v}

LEMMA NumeralOne ==
  ASSUME NEW d \in DOMAIN Digit
  PROVE  Numeral(<<d>>, Digit[d])
<1> DEFINE s == <<d>>
<1>1. s \in Seq(DOMAIN Digit) /\ Len(s) = 1 /\ s[1] = d
  BY One
<1> HIDE DEF s
<1>2. s \in Figures
  BY <1>1 DEF Figures
<1>3. PICK g : Reading(g, Len(s), s) /\ stoul(s) = {g[Len(s)]}
  BY <1>2, StoulReads
<1>4. g[0] = 0 /\ g[1] = 10 * g[0] + Digit[s[1]]
  <2>1. /\ 0 \in 0 .. Len(s) /\ 1 \in 0 .. Len(s) /\ 1 - 1 = 0 /\ 1 # 0
    BY <1>1
  <2>2. \A k \in 0 .. Len(s) : g[k] = IF k = 0 THEN 0 ELSE 10 * g[k - 1] + Digit[s[k]]
    BY <1>3, ReadingAt
  <2> QED
    BY <2>1, <2>2
<1>5. Digit[d] \in 0 .. 9
  BY DigitIs
<1>6. g[1] = Digit[d]
  BY <1>1, <1>4, <1>5
<1> QED
  BY <1>1, <1>2, <1>3, <1>6 DEF Numeral, s

\* One more digit: ten times as much, and the digit.
LEMMA NumeralMore ==
  ASSUME NEW s, NEW v \in Nat, Numeral(s, v), NEW d \in DOMAIN Digit
  PROVE  Numeral(Append(s, d), 10 * v + Digit[d])
<1> DEFINE t == Append(s, d)
<1>1. PICK n \in Nat : n = Len(s) /\ n # 0 /\ s \in Seq(DOMAIN Digit) /\ s \in Figures
  BY LenProperties DEF Numeral, Figures
<1>2. /\ t \in Seq(DOMAIN Digit) /\ Len(t) = n + 1
      /\ \A k \in 1 .. n : t[k] = s[k]
      /\ t[n + 1] = d
  BY <1>1, AppendProperties
<1> HIDE DEF t
<1>3. t \in Figures
  BY <1>2 DEF Figures
<1>4. PICK f : Reading(f, n, s) /\ stoul(s) = {f[n]}
  BY <1>1, StoulReads
<1>5. PICK g : Reading(g, n + 1, t) /\ stoul(t) = {g[n + 1]}
  BY <1>2, <1>3, StoulReads
<1> DEFINE T == {k \in Nat : k \in 0 .. n => f[k] = g[k]}
<1>6. 0 \in T
  BY <1>4, <1>5, ReadingAt
<1>7. ASSUME NEW k \in Nat, k \in T PROVE k + 1 \in T
  <2> SUFFICES ASSUME k + 1 \in 0 .. n PROVE f[k + 1] = g[k + 1]
    OBVIOUS
  <2>1. /\ k + 1 \in 0 .. n + 1 /\ k + 1 \in 1 .. n /\ k \in 0 .. n
        /\ k + 1 # 0 /\ (k + 1) - 1 = k
    OBVIOUS
  <2>2. f[k + 1] = 10 * f[k] + Digit[s[k + 1]]
    BY <1>4, <2>1, ReadingAt
  <2>3. g[k + 1] = 10 * g[k] + Digit[t[k + 1]]
    BY <1>5, <2>1, ReadingAt
  <2>4. f[k] = g[k] /\ t[k + 1] = s[k + 1]
    BY <1>2, <1>7, <2>1
  <2> QED
    BY <2>2, <2>3, <2>4
<1> HIDE DEF T
<1>8. f[n] = g[n]
  <2>1. \A k \in Nat : k \in T
    BY <1>6, <1>7, Induct
  <2> QED
    BY <2>1 DEF T
<1>9. g[n + 1] = 10 * g[n] + Digit[t[n + 1]]
  <2>1. n + 1 \in 0 .. n + 1 /\ n + 1 # 0 /\ (n + 1) - 1 = n
    OBVIOUS
  <2> QED
    BY <1>5, <2>1, ReadingAt
<1>10. f[n] = v
  BY <1>4 DEF Numeral
<1> QED
  BY <1>2, <1>3, <1>5, <1>8, <1>9, <1>10 DEF Numeral, t

\* f is the recursive function inside to_string, up to n.
Decimal(f, n) ==
  f = [i \in 0 .. n |-> IF i < 10 THEN <<Figure(i)>> ELSE f[i \div 10] \o <<Figure(i % 10)>>]

LEMMA DecimalAt ==
  ASSUME NEW f, NEW n, Decimal(f, n)
  PROVE  \A i \in 0 .. n : f[i] = IF i < 10 THEN <<Figure(i)>> ELSE f[i \div 10] \o <<Figure(i % 10)>>
<1> DEFINE h == [i \in 0 .. n |-> IF i < 10 THEN <<Figure(i)>> ELSE f[i \div 10] \o <<Figure(i % 10)>>]
<1>1. f = h
  BY DEF Decimal
<1> QED
  BY <1>1, Zenon

LEMMA DecimalGrows ==
  ASSUME NEW f, NEW n \in Nat, Decimal(f, n)
  PROVE  \E g : Decimal(g, n + 1)
<1> DEFINE F(i, earlier) == IF i < 10 THEN <<Figure(i)>> ELSE earlier \o <<Figure(i % 10)>>
           g == [i \in 0 .. n + 1 |-> F(i, f[i \div 10])]
<1>1. \A i \in 0 .. n : g[i] = f[i]
  <2> TAKE i \in 0 .. n
  <2>1. f[i] = F(i, f[i \div 10])
    BY DecimalAt, Zenon
  <2>2. i \in 0 .. n + 1
    OBVIOUS
  <2> HIDE DEF F
  <2>3. g[i] = F(i, f[i \div 10])
    BY <2>2, Zenon
  <2> HIDE DEF g
  <2> QED
    BY <2>1, <2>3
<1>2. \A i \in 0 .. n + 1 : F(i, f[i \div 10]) = F(i, g[i \div 10])
  <2> TAKE i \in 0 .. n + 1
  <2>1. CASE i < 10
    BY <2>1, Zenon
  <2>2. CASE ~(i < 10)
    <3>1. i \in Nat /\ i <= n + 1
      OBVIOUS
    <3>2. i \div 10 \in Nat /\ i \div 10 < i
      BY <2>2, <3>1, Tenth
    <3> DEFINE k == i \div 10
    <3>3. k \in Nat /\ k < i
      BY <3>2
    <3> HIDE DEF k, F, g
    <3>4. k \in 0 .. n
      BY <3>1, <3>3
    <3>5. g[k] = f[k]
      BY <1>1, <3>4
    <3> QED
      BY <3>5 DEF k
  <2> QED
    BY <2>1, <2>2
<1>3. g = [i \in 0 .. n + 1 |-> F(i, g[i \div 10])]
  <2> HIDE DEF F
  <2> QED
    BY <1>2, Zenon
<1> HIDE DEF g
<1> QED
  BY <1>3, Zenon DEF Decimal

LEMMA DecimalIs ==
  ASSUME NEW n \in Nat
  PROVE  \E f : Decimal(f, n) /\ to_string(n) = f[n]
<1> DEFINE T == {k \in Nat : \E f : Decimal(f, k)}
<1>1. 0 \in T
  <2> DEFINE g == [i \in 0 .. 0 |-> <<Figure(0)>>]
  <2>1. g = [i \in 0 .. 0 |-> IF i < 10 THEN <<Figure(i)>> ELSE g[i \div 10] \o <<Figure(i % 10)>>]
    <3>1. \A i \in 0 .. 0 : i = 0 /\ i < 10
      OBVIOUS
    <3> QED
      BY <3>1, Zenon
  <2> HIDE DEF g
  <2>2. Decimal(g, 0)
    BY <2>1 DEF Decimal
  <2> QED
    BY <2>2
<1>2. ASSUME NEW k \in Nat, k \in T PROVE k + 1 \in T
  BY <1>2, DecimalGrows
<1> HIDE DEF T
<1>3. n \in T
  BY <1>1, <1>2, Induct
<1> DEFINE decimal == CHOOSE f : Decimal(f, n)
<1>4. Decimal(decimal, n)
  BY <1>3 DEF T
<1>5. to_string(n) = decimal[n]
  BY Zenon DEF to_string, Decimal, Figure
<1> HIDE DEF decimal
<1> QED
  BY <1>4, <1>5

\* A length the server writes is the length it reads: to_string and stoul are
\* inverse on every number (Response.cpp:309-365, Server.cpp:207-214).
THEOREM NumbersReadBack == \A n \in Nat : Numeral(to_string(n), n)
<1> SUFFICES ASSUME NEW n \in Nat PROVE Numeral(to_string(n), n)
  OBVIOUS
<1>1. PICK f : Decimal(f, n) /\ to_string(n) = f[n]
  BY DecimalIs
<1> DEFINE R == {i \in 0 .. n : ~Numeral(f[i], i)}
<1>2. R = {}
  <2> SUFFICES ASSUME R # {} PROVE FALSE
    OBVIOUS
  <2>1. R \subseteq Nat
    OBVIOUS
  <2>2. PICK i \in R : \A k \in R : i <= k
    BY <2>1, Least
  <2>3. i \in 0 .. n /\ i \in Nat /\ ~Numeral(f[i], i)
    OBVIOUS
  <2>4. \A k \in Nat : k < i => k \in 0 .. n
    BY <2>3
  <2>5. \A k \in 0 .. n : k < i => Numeral(f[k], k)
    BY <2>2, <2>3
  <2> HIDE DEF R
  <2>6. CASE i < 10
    <3>1. i \in 0 .. 9
      BY <2>3, <2>6
    <3>2. f[i] = <<Figure(i)>>
      BY <1>1, <2>3, <2>6, DecimalAt
    <3>3. Numeral(<<Figure(i)>>, Digit[Figure(i)])
      BY <3>1, FigureIs, NumeralOne
    <3>4. Digit[Figure(i)] = i
      BY <3>1, FigureIs
    <3> QED
      BY <2>3, <3>2, <3>3, <3>4
  <2>7. CASE ~(i < 10)
    <3> DEFINE k == i \div 10
               d == i % 10
    <3>1. k \in Nat /\ k < i /\ d \in 0 .. 9 /\ 10 * k + d = i
      BY <2>3, <2>7, Tenth
    <3>2. f[i] = f[k] \o <<Figure(d)>>
      <4>1. \A j \in 0 .. n : f[j] = IF j < 10 THEN <<Figure(j)>> ELSE f[j \div 10] \o <<Figure(j % 10)>>
        BY <1>1, DecimalAt
      <4> QED
        BY <2>3, <2>7, <4>1, Zenon
    <3> HIDE DEF k, d
    <3>3. Numeral(f[k], k)
      BY <2>4, <2>5, <3>1
    <3>4. Figure(d) \in DOMAIN Digit /\ Digit[Figure(d)] = d
      BY <3>1, FigureIs
    <3>5. Numeral(Append(f[k], Figure(d)), 10 * k + Digit[Figure(d)])
      BY <3>1, <3>3, <3>4, NumeralMore
    <3>6. f[k] \in Seq(DOMAIN Digit)
      BY <3>3 DEF Numeral, Figures
    <3>7. Append(f[k], Figure(d)) = f[k] \o <<Figure(d)>>
      BY <3>4, <3>6, AppendIsConcat
    <3> QED
      BY <2>3, <3>1, <3>2, <3>4, <3>5, <3>7
  <2> QED
    BY <2>6, <2>7
<1>3. n \in 0 .. n
  OBVIOUS
<1> QED
  BY <1>1, <1>2, <1>3

-----------------------------------------------------------------------------
(* Headers: the separators, and where a name is found.                     *)

\* What findHeader searches for in the small form of the text.
Target(w) == <<w, Colon, Blank>>

LEMMA TargetIs ==
  ASSUME NEW A, Closed(A), NEW x \in A, NEW w, Spelled(x, w), Colon \in A, Blank \in A
  PROVE  toLower(<<x>>) \o <<":", " ">> = Target(w) /\ Target(w) \in Seq(A) /\ Len(Target(w)) = 3
<1> DEFINE y == Lowered(x)
           t == <<y, Colon, Blank>>
           a == <<y>>
           b == <<Colon, Blank>>
           u == a \o b
<1>1. y = w /\ y \in A
  BY DEF Spelled, Closed
<1>2. toLower(<<x>>) = a
  BY LowerOne
<1> HIDE DEF y
<1>3. /\ a \in Seq(A) /\ Len(a) = 1 /\ a[1] = y
      /\ b \in Seq(A) /\ Len(b) = 2 /\ b[1] = Colon /\ b[2] = Blank
      /\ t \in Seq(A) /\ Len(t) = 3 /\ t[1] = y /\ t[2] = Colon /\ t[3] = Blank
  BY <1>1
<1> HIDE DEF a, b, t
<1>4. u \in Seq(A) /\ Len(u) = 3 /\ \A i \in 1 .. 3 : u[i] = IF i <= 1 THEN a[i] ELSE b[i - 1]
  <2>1. /\ u \in Seq(A) /\ Len(u) = Len(a) + Len(b)
        /\ \A i \in 1 .. Len(a) + Len(b) : u[i] = IF i <= Len(a) THEN a[i] ELSE b[i - Len(a)]
    BY <1>3, ConcatProperties
  <2>2. 1 + 2 = 3
    OBVIOUS
  <2> QED
    BY <1>3, <2>1, <2>2
<1> HIDE DEF u
<1>5. u[1] = y /\ u[2] = Colon /\ u[3] = Blank
  BY <1>3, <1>4
<1>6. \A i \in 1 .. 3 : i = 1 \/ i = 2 \/ i = 3
  OBVIOUS
<1>7. u = t
  BY <1>3, <1>4, <1>5, <1>6, SeqEqual
<1>8. toLower(<<x>>) \o <<":", " ">> = u
  BY <1>2, Zenon DEF u, b, Colon, Blank
<1>9. t = Target(w)
  BY <1>1 DEF t, Target
<1> QED
  BY <1>3, <1>7, <1>8, <1>9

LEMMA MarksAt ==
  ASSUME NEW A, Closed(A), NEW s \in Seq(A), NEW w, NEW i \in 1 .. (Len(s) - 2)
  PROVE  At(toLower(s), Target(w), i) <=> Mark(s, w, i)
<1> DEFINE l == toLower(s)
<1>1. PICK n \in Nat : n = Len(s)
  BY LenProperties
<1>2. l \in Seq(A) /\ Len(l) = n /\ \A k \in 1 .. n : l[k] = Lowered(s[k])
  BY <1>1, LowerType
<1> HIDE DEF l
<1>3. /\ i \in Nat /\ i \in 1 .. n /\ i + 1 \in 1 .. n /\ i + 2 \in 1 .. n
  BY <1>1
<1>4. At(l, <<w, Colon, Blank>>, i) <=> l[i] = w /\ l[i + 1] = Colon /\ l[i + 2] = Blank
  BY <1>3, AtThree
<1>5. l[i] = Lowered(s[i]) /\ l[i + 1] = Lowered(s[i + 1]) /\ l[i + 2] = Lowered(s[i + 2])
  BY <1>2, <1>3
<1>6. (l[i + 1] = Colon <=> s[i + 1] = Colon) /\ (l[i + 2] = Blank <=> s[i + 2] = Blank)
  BY <1>5, LoweredFixed
<1>7. i + 2 <= Len(s)
  BY <1>1, <1>3
<1> QED
  BY <1>4, <1>5, <1>6, <1>7 DEF Target, Mark, l

\* findHeader, with its two searches named.
Found(raw, pos, end, n) == IF pos = 0 \/ end = 0 THEN <<>> ELSE SubSeq(raw, pos + n + 2, end - 1)

LEMMA FindHeaderIs ==
  ASSUME NEW A, Closed(A), NEW x \in A, NEW w, Spelled(x, w), Colon \in A, Blank \in A, NEW raw
  PROVE  findHeader(raw, <<x>>) =
           LET pos == find(toLower(raw), Target(w), 1)
           IN  Found(raw, pos, find(raw, <<CRLF>>, pos + 1 + 2), 1)
<1>1. toLower(<<x>>) \o <<":", " ">> = Target(w)
  BY TargetIs
<1>2. Len(<<x>>) = 1
  OBVIOUS
<1> DEFINE pos == find(toLower(raw), toLower(<<x>>) \o <<":", " ">>, 1)
           n == Len(<<x>>)
           end == find(raw, <<CRLF>>, pos + n + 2)
<1>3. findHeader(raw, <<x>>) = Found(raw, pos, end, n)
  BY Zenon DEF findHeader, Found
<1> HIDE DEF n
<1>4. n = 1
  BY <1>2 DEF n
<1> QED
  BY <1>1, <1>3, <1>4

\* Without a mark there is no header of that name.
LEMMA HeaderMissing ==
  ASSUME NEW A, Closed(A), NEW x \in A, NEW w, Spelled(x, w), Colon \in A, Blank \in A,
         NEW raw \in Seq(A), Unmarked(raw, w)
  PROVE  findHeader(raw, <<x>>) = <<>>
<1> DEFINE l == toLower(raw)
           t == Target(w)
<1>0. PICK n \in Nat : n = Len(raw)
  BY LenProperties
<1>1. l \in Seq(A) /\ Len(l) = n /\ t \in Seq(A) /\ Len(t) = 3
  BY <1>0, LowerType, TargetIs
<1>2. \A i \in 1 .. n - 2 : ~At(l, t, i)
  BY <1>0, MarksAt DEF Unmarked
<1>3. findHeader(raw, <<x>>) = LET pos == find(l, t, 1) IN Found(raw, pos, find(raw, <<CRLF>>, pos + 1 + 2), 1)
  BY FindHeaderIs
<1> HIDE DEF l, t
<1>4. \A i \in 1 .. (Len(l) - Len(t) + 1) : ~At(l, t, i)
  BY <1>1, <1>2
<1>5. find(l, t, 1) = 0
  <2>1. PICK one \in Nat \ {0} : one = 1
    OBVIOUS
  <2>2. \A i \in one .. (Len(l) - Len(t) + 1) : ~At(l, t, i)
    BY <1>4, <2>1
  <2>3. find(l, t, one) = 0
    BY <1>1, <2>2, FindNone
  <2> QED
    BY <2>1, <2>3
<1> QED
  BY <1>3, <1>5 DEF Found

\* The first mark leads to the value.
LEMMA HeaderRead ==
  ASSUME NEW A, Closed(A), NEW x \in A, NEW w, Spelled(x, w), Colon \in A, Blank \in A, CRLF \in A,
         NEW raw \in Seq(A), NEW v \in Seq(A \ {CRLF}), NEW p \in Nat \ {0}, Reads(raw, w, v, p)
  PROVE  findHeader(raw, <<x>>) = v
<1> DEFINE l == toLower(raw)
           t == Target(w)
           e == <<CRLF>>
<1>0. PICK n \in Nat, m \in Nat : n = Len(raw) /\ m = Len(v)
  BY LenProperties
<1>1. l \in Seq(A) /\ Len(l) = n /\ t \in Seq(A) /\ Len(t) = 3
  BY <1>0, LowerType, TargetIs
<1>2. /\ p + 2 <= n /\ p + 3 + m <= n
      /\ \A j \in 1 .. m : raw[p + 2 + j] = v[j]
      /\ raw[p + 3 + m] = CRLF
  BY <1>0 DEF Reads, Mark
<1>3. At(l, t, p) /\ \A i \in 1 .. p - 1 : ~At(l, t, i)
  <2>1. p \in 1 .. n - 2 /\ \A i \in 1 .. p - 1 : i \in 1 .. n - 2
    BY <1>2
  <2>2. Mark(raw, w, p) /\ \A i \in 1 .. p - 1 : ~Mark(raw, w, i)
    BY DEF Reads
  <2> QED
    BY <1>0, <2>1, <2>2, MarksAt
<1>4. findHeader(raw, <<x>>) = LET pos == find(l, t, 1) IN Found(raw, pos, find(raw, e, pos + 1 + 2), 1)
  BY FindHeaderIs
<1> HIDE DEF l, t
<1>5. find(l, t, 1) = p
  <2>1. PICK one \in Nat \ {0} : one = 1
    OBVIOUS
  <2>2. p \in one .. (Len(l) - Len(t) + 1) /\ \A i \in one .. p - 1 : ~At(l, t, i)
    BY <1>1, <1>2, <1>3, <2>1
  <2>3. find(l, t, one) = p
    BY <1>1, <1>3, <2>2, FindFirst
  <2> QED
    BY <2>1, <2>3
<1>6. e \in Seq(A) /\ Len(e) = 1
  BY One
<1>7. \A i \in Nat : At(raw, e, i) <=> raw[i] = CRLF
  BY AtOne
<1> HIDE DEF e
<1>8. \A i \in p + 3 .. p + 2 + m : raw[i] # CRLF
  <2> TAKE i \in p + 3 .. p + 2 + m
  <2> DEFINE j == i - p - 2
  <2>1. j \in 1 .. m /\ p + 2 + j = i
    OBVIOUS
  <2> HIDE DEF j
  <2>2. raw[i] = v[j]
    BY <1>2, <2>1
  <2>3. v[j] \in A \ {CRLF}
    BY <1>0, <2>1, ElementOfSeq
  <2> QED
    BY <2>2, <2>3
<1>9. find(raw, e, p + 3) = p + 3 + m
  <2>1. p + 3 \in Nat \ {0} /\ p + 3 + m \in p + 3 .. (Len(raw) - Len(e) + 1)
    BY <1>0, <1>2, <1>6
  <2>2. At(raw, e, p + 3 + m)
    BY <1>2, <1>7
  <2>3. \A i \in p + 3 .. (p + 3 + m) - 1 : i \in Nat /\ i \in p + 3 .. p + 2 + m
    OBVIOUS
  <2>4. \A i \in p + 3 .. (p + 3 + m) - 1 : ~At(raw, e, i)
    BY <1>7, <1>8, <2>3
  <2> QED
    BY <1>6, <2>1, <2>2, <2>4, FindFirst
<1>10. SubSeq(raw, p + 3, p + 2 + m) = v
  <2> DEFINE a == p + 3
             b == p + 2 + m
             u == SubSeq(raw, a, b)
  <2>1. a \in 1 .. n + 1 /\ b \in a - 1 .. n /\ b - a + 1 = m
    BY <1>2
  <2>2. \A k \in 1 .. m : a + k - 1 = p + 2 + k
    OBVIOUS
  <2> HIDE DEF a, b
  <2>3. u \in Seq(A) /\ Len(u) = b - a + 1 /\ \A k \in 1 .. b - a + 1 : u[k] = raw[a + k - 1]
    BY <1>0, <2>1, SubSeqProperties
  <2> HIDE DEF u
  <2>4. Len(u) = m /\ \A k \in 1 .. m : u[k] = v[k]
    BY <1>2, <2>1, <2>2, <2>3
  <2>5. v \in Seq(A)
    BY SeqMonotonic
  <2>6. u = v
    BY <1>0, <2>3, <2>4, <2>5, SeqEqual
  <2> QED
    BY <2>6 DEF u, a, b
<1>11. Found(raw, p, p + 3 + m, 1) = SubSeq(raw, p + 3, p + 2 + m)
  <2>1. p # 0 /\ p + 3 + m # 0 /\ p + 1 + 2 = p + 3 /\ (p + 3 + m) - 1 = p + 2 + m
    OBVIOUS
  <2> QED
    BY <2>1 DEF Found
<1>12. p + 1 + 2 = p + 3
  OBVIOUS
<1> QED
  BY <1>4, <1>5, <1>9, <1>10, <1>11, <1>12

-----------------------------------------------------------------------------
(* Requests: where handleClient cuts.                                      *)

\* The body's length, as the head announces it.
Announced(header) ==
  LET announced == findHeader(header, <<"Content-Length">>)
  IN  IF announced = <<>> THEN {0} ELSE stoul(announced)

LEMMA RawRequestIs ==
  ASSUME NEW d
  PROVE  LET end == find(d, HeadEnd, 1)
             body == Announced(SubSeq(d, 1, end + 1))
         IN  RawRequest(d) = IF end # 0 /\ \E n \in body : end + 1 + n <= Len(d)
                             THEN SubSeq(d, 1, end + 1 + CHOOSE n \in body : TRUE)
                             ELSE <<>>
BY Zenon DEF RawRequest, Announced, HeadEnd

\* Nothing is cut before the blank line is there.
LEMMA EndMissing ==
  ASSUME NEW A, CRLF \in A, NEW b \in Seq(A), Ended(b),
         NEW d \in Seq(A), Len(d) <= Len(b), \A i \in 1 .. Len(d) : d[i] = b[i]
  PROVE  RawRequest(d) = <<>>
<1>0. PICK m \in Nat, n \in Nat : m = Len(b) /\ n = Len(d) /\ n <= m
  BY LenProperties
<1>1. \A i \in 1 .. m - 1 : ~(b[i] = CRLF /\ b[i + 1] = CRLF)
  BY <1>0 DEF Ended
<1>2. HeadEnd \in Seq(A) /\ Len(HeadEnd) = 2
  BY DEF HeadEnd
<1>3. \A i \in Nat : At(d, HeadEnd, i) <=> d[i] = CRLF /\ d[i + 1] = CRLF
  BY AtTwo DEF HeadEnd
<1>4. \A i \in 1 .. n - 1 : ~At(d, HeadEnd, i)
  <2> TAKE i \in 1 .. n - 1
  <2>1. i \in Nat /\ i \in 1 .. m - 1 /\ i \in 1 .. n /\ i + 1 \in 1 .. n
    BY <1>0
  <2> QED
    BY <1>0, <1>1, <1>3, <2>1
<1>5. PICK one \in Nat \ {0} : one = 1
  OBVIOUS
<1>6. \A i \in one .. (Len(d) - Len(HeadEnd) + 1) : ~At(d, HeadEnd, i)
  BY <1>0, <1>2, <1>4, <1>5
<1>7. find(d, HeadEnd, one) = 0
  BY <1>2, <1>6, FindNone
<1> QED
  BY <1>5, <1>7, RawRequestIs

\* The cut is behind as many symbols as the head announces, once they are there.
LEMMA CutAt ==
  ASSUME NEW A, CRLF \in A, NEW b \in Seq(A), Ended(b), NEW d \in Seq(A), Headed(d, b),
         NEW n \in Nat, Announced(b \o <<CRLF>>) = {n}
  PROVE  RawRequest(d) = IF Len(b) + 1 + n <= Len(d) THEN SubSeq(d, 1, Len(b) + 1 + n) ELSE <<>>
<1>0. PICK m \in Nat : m = Len(b)
  BY LenProperties
<1>1. m # 0 /\ find(d, HeadEnd, 1) = m
  BY <1>0, EndFound DEF Ended
<1> DEFINE h == SubSeq(d, 1, m + 1)
           e == <<CRLF>>
           g == b \o e
<1>2. h = g
  <2>1. m + 1 \in 0 .. Len(d) /\ (\A i \in 1 .. m : d[i] = b[i]) /\ d[m + 1] = CRLF
    <3>1. Len(d) \in Nat
      BY LenProperties
    <3> QED
      BY <1>0, <3>1 DEF Headed
  <2> DEFINE k == m + 1
  <2>2. SubSeq(d, 1, k) \in Seq(A) /\ Len(SubSeq(d, 1, k)) = k /\ \A i \in 1 .. k : SubSeq(d, 1, k)[i] = d[i]
    <3>1. k \in 0 .. Len(d)
      BY <2>1
    <3> HIDE DEF k
    <3> QED
      BY <3>1, PrefixIs
  <2>3. h \in Seq(A) /\ Len(h) = m + 1 /\ \A i \in 1 .. m + 1 : h[i] = d[i]
    BY <2>2
  <2>4. e \in Seq(A) /\ Len(e) = 1 /\ e[1] = CRLF
    OBVIOUS
  <2> HIDE DEF e, h
  <2>5. g \in Seq(A) /\ Joins(g, b, e)
    BY <2>4, JoinsConcat
  <2> HIDE DEF g
  <2>6. Len(g) = m + 1 /\ (\A i \in 1 .. m : g[i] = b[i]) /\ g[m + 1] = CRLF
    BY <1>0, <2>4, <2>5 DEF Joins
  <2>7. \A i \in 1 .. m + 1 : i \in 1 .. m \/ i = m + 1
    OBVIOUS
  <2>8. \A i \in 1 .. m + 1 : h[i] = g[i]
    BY <2>1, <2>3, <2>6, <2>7
  <2> QED
    BY <2>3, <2>5, <2>6, <2>8, SeqEqual
<1>3. Announced(h) = {n}
  BY <1>2
<1>4. (CHOOSE k \in {n} : TRUE) = n
  OBVIOUS
<1>5. RawRequest(d) = IF m # 0 /\ \E k \in Announced(h) : m + 1 + k <= Len(d)
                      THEN SubSeq(d, 1, m + 1 + CHOOSE k \in Announced(h) : TRUE)
                      ELSE <<>>
  <2> DEFINE end == find(d, HeadEnd, 1)
             body == Announced(SubSeq(d, 1, end + 1))
  <2>1. RawRequest(d) = IF end # 0 /\ \E k \in body : end + 1 + k <= Len(d)
                        THEN SubSeq(d, 1, end + 1 + CHOOSE k \in body : TRUE)
                        ELSE <<>>
    BY RawRequestIs, Zenon
  <2>2. end = m
    BY <1>1
  <2> HIDE DEF end
  <2>3. body = Announced(h)
    BY <2>2
  <2> HIDE DEF body, h
  <2> QED
    BY <2>1, <2>2, <2>3
<1> HIDE DEF h
<1>6. RawRequest(d) = IF m + 1 + n <= Len(d) THEN SubSeq(d, 1, m + 1 + n) ELSE <<>>
  BY <1>1, <1>3, <1>4, <1>5
<1> QED
  BY <1>0, <1>6

-----------------------------------------------------------------------------
(* Requests: as a client writes them.                                      *)

RequestSymbols ==
  Methods \cup {"Content-Length", "Connection", ":", " ", "/", "a", "?", "b", "=", "%", "2", "6",
                "HTTP/1.1", CRLF}

RequestAlphabet(A) == Closed(A) /\ RequestSymbols \subseteq A

FirstLine(method) == <<method, " ", "/", "a", "?", "b", "=", "%", "2", "6", " ", "HTTP/1.1", CRLF>>

LEMMA RequestTextIs ==
  ASSUME NEW q
  PROVE  RequestText(q) = (Block(FirstLine(q.method), q.headers) \o <<CRLF>>) \o q.body
BY Zenon DEF RequestText, Block, FirstLine, HeaderLines, HeaderLine

LEMMA AlphabetHas ==
  ASSUME NEW A, RequestAlphabet(A)
  PROVE  /\ Closed(A) /\ Methods \subseteq A /\ Colon \in A /\ Blank \in A /\ CRLF \in A
         /\ "Content-Length" \in A /\ "Connection" \in A
         /\ {"/", "a", "?", "b", "=", "%", "2", "6", "HTTP/1.1"} \subseteq A
<1>1. \A c \in RequestSymbols : c \in A
  BY DEF RequestAlphabet
<1>2. /\ Methods \subseteq RequestSymbols /\ Colon \in RequestSymbols /\ Blank \in RequestSymbols
      /\ CRLF \in RequestSymbols /\ "Content-Length" \in RequestSymbols /\ "Connection" \in RequestSymbols
      /\ {"/", "a", "?", "b", "=", "%", "2", "6", "HTTP/1.1"} \subseteq RequestSymbols
  BY Zenon DEF RequestSymbols, Colon, Blank
<1>3. Closed(A)
  BY DEF RequestAlphabet
<1> QED
  BY <1>1, <1>2, <1>3, Zenon

\* A line that holds no ':'.
LEMMA PlainLine ==
  ASSUME NEW A, CRLF \in A, NEW B, B = A \ {CRLF, Colon},
         NEW c1 \in B, NEW c2 \in B, NEW c3 \in B, NEW c4 \in B, NEW c5 \in B, NEW c6 \in B,
         NEW c7 \in B, NEW c8 \in B, NEW c9 \in B, NEW c10 \in B, NEW c11 \in B, NEW c12 \in B
  PROVE  LET s == <<c1, c2, c3, c4, c5, c6, c7, c8, c9, c10, c11, c12, CRLF>>
         IN  s \in Seq(A) /\ Ended(s) /\ \A w : Unmarked(s, w)
<1> DEFINE s == <<c1, c2, c3, c4, c5, c6, c7, c8, c9, c10, c11, c12, CRLF>>
<1>1. s \in Seq(A) /\ Len(s) = 13 /\ s[13] = CRLF
  OBVIOUS
<1>2. \A i \in 1 .. 12 : s[i] \in B
  OBVIOUS
<1> HIDE DEF s
<1>3. \A i \in 1 .. 12 : s[i] # CRLF /\ s[i] # Colon
  BY <1>2
<1>4. Ended(s)
  BY <1>1, <1>3 DEF Ended
<1>5. \A i \in 1 .. 13 : s[i] # Colon
  BY <1>1, <1>3, SeparatorsDiffer
<1>6. ASSUME NEW w PROVE Unmarked(s, w)
  BY <1>1, <1>5 DEF Unmarked, Mark
<1> QED
  BY <1>1, <1>4, <1>6 DEF s

LEMMA FirstIs ==
  ASSUME NEW A, RequestAlphabet(A), NEW method \in Methods
  PROVE  FirstLine(method) \in Seq(A) /\ Ended(FirstLine(method)) /\ \A w : Unmarked(FirstLine(method), w)
<1> DEFINE B == A \ {CRLF, Colon}
<1>1. method # CRLF /\ method # Colon
  BY Zenon DEF Methods, CRLF, Colon
<1>2. \A c \in {"/", "a", "?", "b", "=", "%", "2", "6", "HTTP/1.1"} : c # CRLF /\ c # Colon
  BY Zenon DEF CRLF, Colon
<1>3. Blank # CRLF /\ Blank # Colon
  BY SeparatorsDiffer
<1>4. CRLF \in A /\ method \in A /\ Blank \in A
  BY AlphabetHas
<1>5. \A c \in {"/", "a", "?", "b", "=", "%", "2", "6", "HTTP/1.1"} : c \in A
  BY AlphabetHas
<1>6. \A c \in A : c # CRLF /\ c # Colon => c \in B
  OBVIOUS
<1>7. method \in B /\ Blank \in B
  BY <1>1, <1>3, <1>4
<1>8. \A c \in {"/", "a", "?", "b", "=", "%", "2", "6", "HTTP/1.1"} : c \in B
  BY <1>2, <1>5, <1>6, Zenon
<1>9. /\ "/" \in B /\ "a" \in B /\ "?" \in B /\ "b" \in B /\ "=" \in B /\ "%" \in B /\ "2" \in B
      /\ "6" \in B /\ "HTTP/1.1" \in B
  BY <1>8, Zenon
<1>10. B = A \ {CRLF, Colon}
  OBVIOUS
<1> HIDE DEF B
<1> DEFINE s == <<method, Blank, "/", "a", "?", "b", "=", "%", "2", "6", Blank, "HTTP/1.1", CRLF>>
<1>11. s \in Seq(A) /\ Ended(s) /\ \A w : Unmarked(s, w)
  BY <1>4, <1>7, <1>9, <1>10, PlainLine, Zenon
<1> QED
  BY <1>11, Zenon DEF FirstLine, Blank

\* The headers of a request handleClient can read: no value holds a mark, and no
\* name ends in the small form of one that is searched for.
Headers(A) == HeadersWithout(A, "content-length") \cap HeadersWithout(A, "connection")

\* The body's length is announced, and rightly.
Announces(headers, body) ==
  /\ \A i \in DOMAIN headers :
       headers[i].name = <<"Content-Length">> => headers[i].value = to_string(Len(body))
  /\ body # <<>> => \E i \in DOMAIN headers : headers[i].name = <<"Content-Length">>

\* The client says once whether it wants to go on.
Decided(headers) ==
  \A i \in DOMAIN headers :
    headers[i].name = <<"Connection">> =>
      /\ toLower(headers[i].value) = <<"close">> => headers[i].value = <<"Close">>
      /\ \A j \in DOMAIN headers : headers[j].name = <<"Connection">> => headers[j].value = headers[i].value

\* The legal requests over A.  isKeepAlive searches the body too.
AnyRequests(A) ==
  {q \in [kind : {"request"}, method : Methods, headers : Seq(Headers(A)), body : Seq(A)] :
     /\ Announces(q.headers, q.body)
     /\ Decided(q.headers)
     /\ Unmarked(q.body, "connection")}

HeadOf(q) == Block(FirstLine(q.method), q.headers)

LEMMA RequestParts ==
  ASSUME NEW A, NEW q \in AnyRequests(A)
  PROVE  /\ q.method \in Methods /\ q.headers \in Seq(Headers(A)) /\ q.body \in Seq(A)
         /\ Announces(q.headers, q.body) /\ Decided(q.headers) /\ Unmarked(q.body, "connection")
BY DEF AnyRequests

LEMMA HeadIs ==
  ASSUME NEW A, RequestAlphabet(A), NEW q \in AnyRequests(A)
  PROVE  /\ HeadOf(q) \in Seq(A) /\ Ended(HeadOf(q))
         /\ Outcome(q.headers, HeadOf(q), "Content-Length", "content-length")
         /\ Outcome(q.headers, HeadOf(q), "Connection", "connection")
<1> DEFINE f == FirstLine(q.method)
           hs == q.headers
<1>1. q.method \in Methods /\ hs \in Seq(Headers(A))
  BY RequestParts
<1>2. f \in Seq(A) /\ Ended(f) /\ \A w : Unmarked(f, w)
  BY <1>1, FirstIs
<1>3. Colon \in A /\ Blank \in A /\ CRLF \in A
  BY AlphabetHas
<1>4. hs \in Seq(HeadersWithout(A, "content-length")) /\ hs \in Seq(HeadersWithout(A, "connection"))
  <2>1. Headers(A) \subseteq HeadersWithout(A, "content-length") /\ Headers(A) \subseteq HeadersWithout(A, "connection")
    BY DEF Headers
  <2> QED
    BY <1>1, <2>1, SeqMonotonic
<1> HIDE DEF f, hs
<1>5. Block(f, hs) \in Seq(A) /\ Ended(Block(f, hs)) /\ Outcome(hs, Block(f, hs), "Content-Length", "content-length")
  BY <1>2, <1>3, <1>4, SoughtSpelled, BlockOutcome
<1>6. Outcome(hs, Block(f, hs), "Connection", "connection")
  BY <1>2, <1>3, <1>4, SoughtSpelled, BlockOutcome
<1> QED
  BY <1>5, <1>6 DEF HeadOf, f, hs

\* The header the search comes to, unless the name is shadowed.
LEMMA FirstNamed ==
  ASSUME NEW A, NEW hs \in Seq(HeaderOf(A)), NEW x, Unshadowed(hs, x), Ending(hs, x) # {}
  PROVE  /\ Min(Ending(hs, x)) \in DOMAIN hs /\ hs[Min(Ending(hs, x))].name = <<x>>
         /\ hs[Min(Ending(hs, x))].value \in Seq(A \ {CRLF})
<1> DEFINE E == Ending(hs, x)
<1>1. E = {} \/ hs[Min(E)].name = <<x>>
  BY Zenon DEF Unshadowed, Ending
<1>2. E \subseteq DOMAIN hs /\ DOMAIN hs \subseteq Nat
  BY LenProperties DEF Ending
<1> HIDE DEF E
<1>3. E # {}
  BY DEF E
<1>4. Min(E) \in E
  BY <1>2, <1>3, Smallest
<1>5. Min(E) \in DOMAIN hs
  BY <1>2, <1>4
<1>6. hs[Min(E)] \in HeaderOf(A)
  BY <1>5, ElementOfSeq, LenProperties
<1>7. hs[Min(E)].value \in Seq(A \ {CRLF})
  BY <1>6 DEF HeaderOf
<1> QED
  BY <1>1, <1>3, <1>5, <1>7 DEF E

\* A header with just this name is one of those whose name ends in it.
LEMMA NamedEnds == ASSUME NEW hs, NEW x, NEW i \in DOMAIN hs, hs[i].name = <<x>> PROVE i \in Ending(hs, x)
<1>1. Last(<<x>>) = x
  BY DEF Last
<1> QED
  BY <1>1 DEF Ending

LEMMA AnnouncesLength ==
  ASSUME NEW A, RequestAlphabet(A), NEW q \in AnyRequests(A), Unshadowed(q.headers, "Content-Length")
  PROVE  Announced(HeadOf(q) \o <<CRLF>>) = {Len(q.body)} /\ Len(q.body) \in Nat
<1> DEFINE b == HeadOf(q)
           e == <<CRLF>>
           g == b \o e
           hs == q.headers
           n == Len(q.body)
           x == "Content-Length"
           w == "content-length"
           E == Ending(hs, x)
<1>1. Closed(A) /\ Colon \in A /\ Blank \in A /\ CRLF \in A /\ x \in A
  BY AlphabetHas
<1>2. b \in Seq(A) /\ Ended(b) /\ Outcome(hs, b, x, w)
  BY HeadIs
<1>3. e \in Seq(A) /\ Len(e) = 1 /\ Unmarked(e, w)
  BY <1>1, LineEndUnmarked
<1>4. q.body \in Seq(A) /\ n \in Nat
  BY RequestParts, LenProperties
<1>5. Announces(hs, q.body)
  BY RequestParts
<1>6. hs \in Seq(HeaderOf(A))
  <2>1. hs \in Seq(Headers(A)) /\ Headers(A) \subseteq HeaderOf(A)
    BY RequestParts DEF Headers, HeadersWithout
  <2> QED
    BY <2>1, SeqMonotonic
<1>7. Spelled(x, w) /\ Fixed(w)
  BY SoughtSpelled DEF Spelled
<1>8. Unshadowed(hs, x)
  OBVIOUS
<1> HIDE DEF b, e, x, w
<1>9. g \in Seq(A) /\ Joins(g, b, e)
  BY <1>2, <1>3, JoinsConcat
<1>10. Len(b) # 0 /\ b[Len(b)] = CRLF
  BY <1>2 DEF Ended
<1> HIDE DEF g
<1>11. Announced(g) = IF findHeader(g, <<x>>) = <<>> THEN {0} ELSE stoul(findHeader(g, <<x>>))
  BY Zenon DEF Announced, x
<1>12. CASE E = {}
  <2>1. Unmarked(b, w)
    BY <1>2, <1>12 DEF Outcome
  <2>2. Unmarked(g, w)
    BY <1>2, <1>3, <1>7, <1>9, <1>10, <2>1, UnmarkedJoins
  <2>3. findHeader(g, <<x>>) = <<>>
    BY <1>1, <1>7, <1>9, <2>2, HeaderMissing
  <2>4. n = 0
    <3>1. \A i \in DOMAIN hs : hs[i].name # <<x>>
      BY <1>12, NamedEnds
    <3>2. q.body = <<>>
      BY <1>5, <3>1 DEF Announces, x
    <3> QED
      BY <3>2, EmptySeq
  <2> QED
    BY <1>4, <1>11, <2>3, <2>4 DEF g, b, e
<1>13. CASE E # {}
  <2> DEFINE i == Min(E)
             v == hs[i].value
  <2>1. PICK p \in Nat \ {0} : Reads(b, w, v, p)
    BY <1>2, <1>13 DEF Outcome
  <2>2. i \in DOMAIN hs /\ hs[i].name = <<x>> /\ v \in Seq(A \ {CRLF})
    BY <1>6, <1>8, <1>13, FirstNamed
  <2>3. v = to_string(n)
    BY <1>5, <2>2 DEF Announces, x
  <2>4. v \in Figures /\ stoul(v) = {n}
    BY <1>4, <2>3, NumbersReadBack DEF Numeral
  <2>5. v \in Seq(A)
    <3>1. A \ {CRLF} \subseteq A
      OBVIOUS
    <3> QED
      BY <2>2, <3>1, SeqMonotonic
  <2>6. v # <<>>
    BY <2>4, EmptySeq DEF Figures
  <2> HIDE DEF i, v
  <2>7. Reads(g, w, v, p)
    BY <1>2, <1>3, <1>7, <1>9, <1>10, <2>1, <2>5, ReadsJoins
  <2>8. findHeader(g, <<x>>) = v
    BY <1>1, <1>7, <1>9, <2>2, <2>7, HeaderRead
  <2> QED
    BY <1>4, <1>11, <2>4, <2>6, <2>8 DEF g, b, e
<1> QED
  BY <1>12, <1>13

\* What stands where in the text of a request, and in what follows it.
TextShape(d, q) ==
  /\ Headed(d, HeadOf(q))
  /\ Len(HeadOf(q)) + 1 + Len(q.body) <= Len(d)

LEMMA TextIs ==
  ASSUME NEW A, RequestAlphabet(A), NEW q \in AnyRequests(A)
  PROVE  /\ RequestText(q) \in Seq(A) /\ TextShape(RequestText(q), q)
         /\ Len(RequestText(q)) = Len(HeadOf(q)) + 1 + Len(q.body)
<1> DEFINE b == HeadOf(q)
           e == <<CRLF>>
           c == q.body
           g == b \o e
           d == g \o c
<1>1. RequestText(q) = d
  BY RequestTextIs DEF HeadOf
<1>2. b \in Seq(A) /\ CRLF \in A
  BY HeadIs, AlphabetHas
<1>3. e \in Seq(A) /\ Len(e) = 1 /\ e[1] = CRLF
  BY <1>2, LineEndUnmarked
<1>4. c \in Seq(A)
  BY RequestParts
<1> HIDE DEF b, e, c
<1>5. g \in Seq(A) /\ Joins(g, b, e)
  BY <1>2, <1>3, JoinsConcat
<1> HIDE DEF g
<1>6. d \in Seq(A) /\ Joins(d, g, c)
  BY <1>4, <1>5, JoinsConcat
<1> HIDE DEF d
<1>7. PICK m \in Nat, n \in Nat : m = Len(b) /\ n = Len(c)
  BY <1>2, <1>4, LenProperties
<1>8. Len(g) = m + 1 /\ (\A i \in 1 .. m : g[i] = b[i]) /\ g[m + 1] = CRLF
  BY <1>3, <1>5, <1>7 DEF Joins
<1>9. Len(d) = m + 1 + n /\ \A i \in 1 .. m + 1 : d[i] = g[i]
  BY <1>6, <1>7, <1>8 DEF Joins
<1>10. (\A i \in 1 .. m : d[i] = b[i]) /\ d[m + 1] = CRLF
  <2>1. m + 1 \in 1 .. m + 1 /\ \A i \in 1 .. m : i \in 1 .. m + 1
    OBVIOUS
  <2> QED
    BY <1>8, <1>9, <2>1
<1>11. TextShape(d, q)
  <2>1. b = HeadOf(q) /\ c = q.body
    BY DEF b, c
  <2>2. m + 1 <= m + 1 + n /\ m + 1 + n <= m + 1 + n
    OBVIOUS
  <2>3. Headed(d, b)
    BY <1>7, <1>9, <1>10, <2>2 DEF Headed
  <2>4. Len(b) + 1 + Len(c) <= Len(d)
    BY <1>7, <1>9, <2>2
  <2> QED
    BY <2>1, <2>3, <2>4, Zenon DEF TextShape
<1> QED
  BY <1>1, <1>6, <1>7, <1>9, <1>11 DEF b, c

\* Whatever a legal request is followed by, handleClient cuts off just the
\* request, and nothing before all of it is there; unless another header's name
\* ends in "Content-Length" and comes first (Server.cpp:195-219).
THEOREM RequestsCutWhole ==
  ASSUME NEW A, RequestAlphabet(A), NEW q \in AnyRequests(A), Unshadowed(q.headers, "Content-Length")
  PROVE  /\ \A rest \in Seq(A) : RawRequest(RequestText(q) \o rest) = RequestText(q)
         /\ \A n \in 0 .. Len(RequestText(q)) - 1 : RawRequest(SubSeq(RequestText(q), 1, n)) = <<>>
<1> DEFINE b == HeadOf(q)
           t == RequestText(q)
           k == Len(q.body)
<1>1. CRLF \in A /\ b \in Seq(A) /\ Ended(b)
  BY AlphabetHas, HeadIs
<1>2. Announced(b \o <<CRLF>>) = {k} /\ k \in Nat
  BY AnnouncesLength
<1>3. t \in Seq(A) /\ Headed(t, b) /\ Len(t) = Len(b) + 1 + k
  BY TextIs DEF TextShape
<1>4. PICK m \in Nat : m = Len(b)
  BY <1>1, LenProperties
<1> HIDE DEF b, t, k
<1>5. Len(t) = m + 1 + k /\ (\A i \in 1 .. m : t[i] = b[i]) /\ t[m + 1] = CRLF
  BY <1>3, <1>4 DEF Headed
<1>6. ASSUME NEW rest \in Seq(A) PROVE RawRequest(t \o rest) = t
  <2> DEFINE d == t \o rest
  <2>1. d \in Seq(A) /\ Joins(d, t, rest)
    BY <1>3, JoinsConcat
  <2> HIDE DEF d
  <2>2. PICK r \in Nat : r = Len(rest)
    BY LenProperties
  <2>3. Len(d) = m + 1 + k + r /\ \A i \in 1 .. m + 1 + k : d[i] = t[i]
    BY <1>5, <2>1, <2>2 DEF Joins
  <2>4. Headed(d, b)
    <3>1. m + 1 \in 1 .. m + 1 + k /\ (\A i \in 1 .. m : i \in 1 .. m + 1 + k) /\ m + 1 <= m + 1 + k + r
      BY <1>2
    <3> QED
      BY <1>4, <1>5, <2>3, <3>1 DEF Headed
  <2>5. RawRequest(d) = IF Len(b) + 1 + k <= Len(d) THEN SubSeq(d, 1, Len(b) + 1 + k) ELSE <<>>
    BY <1>1, <1>2, <2>1, <2>4, CutAt
  <2>6. m + 1 + k <= Len(d)
    BY <1>2, <2>3
  <2>7. RawRequest(d) = SubSeq(d, 1, m + 1 + k)
    BY <1>4, <2>5, <2>6
  <2> DEFINE l == m + 1 + k
             p == SubSeq(d, 1, l)
  <2>8. l \in 0 .. Len(d) /\ Len(t) = l /\ \A i \in 1 .. l : d[i] = t[i]
    BY <1>2, <1>5, <2>3
  <2> HIDE DEF l
  <2>9. p \in Seq(A) /\ Len(p) = l /\ \A i \in 1 .. l : p[i] = d[i]
    BY <2>1, <2>8, PrefixIs
  <2> HIDE DEF p
  <2>10. p = t
    BY <1>3, <2>8, <2>9, SeqEqual
  <2> QED
    BY <2>7, <2>10 DEF d, p, l
<1>7. ASSUME NEW n \in 0 .. Len(t) - 1 PROVE RawRequest(SubSeq(t, 1, n)) = <<>>
  <2> DEFINE d == SubSeq(t, 1, n)
  <2>1. n \in 0 .. Len(t) /\ n \in Nat /\ n < m + 1 + k
    BY <1>2, <1>5
  <2>2. d \in Seq(A) /\ Len(d) = n /\ \A i \in 1 .. n : d[i] = t[i]
    BY <1>3, <2>1, PrefixIs
  <2> HIDE DEF d
  <2>3. CASE n <= m
    <3>1. Len(d) <= Len(b) /\ \A i \in 1 .. Len(d) : d[i] = b[i]
      <4>1. \A i \in 1 .. n : i \in 1 .. m
        BY <2>1, <2>3
      <4> QED
        BY <1>4, <1>5, <2>2, <2>3, <4>1
    <3>2. RawRequest(d) = <<>>
      BY <1>1, <2>2, <3>1, EndMissing
    <3> QED
      BY <3>2 DEF d
  <2>4. CASE ~(n <= m)
    <3>1. Headed(d, b)
      <4>1. m + 1 \in 1 .. n /\ (\A i \in 1 .. m : i \in 1 .. n) /\ m + 1 <= n
        BY <2>1, <2>4
      <4> QED
        BY <1>4, <1>5, <2>2, <4>1 DEF Headed
    <3>2. RawRequest(d) = IF Len(b) + 1 + k <= Len(d) THEN SubSeq(d, 1, Len(b) + 1 + k) ELSE <<>>
      BY <1>1, <1>2, <2>2, <3>1, CutAt
    <3>3. ~(m + 1 + k <= n)
      BY <1>2, <2>1
    <3> QED
      BY <1>4, <2>2, <3>2, <3>3 DEF d
  <2> QED
    BY <2>3, <2>4
<1> QED
  BY <1>6, <1>7 DEF t

Closes(q) == \E i \in DOMAIN q.headers : q.headers[i] = Header(<<"Connection">>, <<"Close">>)

LEMMA CloseFolds == toLower(<<"Close">>) = <<"close">>
<1>1. Lowered("Close") = "close"
  BY SoughtSpelled DEF Spelled
<1> QED
  BY <1>1, LowerOne

\* From the whole request isKeepAlive reads what the client meant, unless another
\* header's name ends in "Connection" and comes first (Server.cpp:83-105).
THEOREM KeepAliveMeant ==
  ASSUME NEW A, RequestAlphabet(A), NEW q \in AnyRequests(A), Unshadowed(q.headers, "Connection")
  PROVE  isKeepAlive(RequestText(q)) = ~Closes(q)
<1> DEFINE b == HeadOf(q)
           e == <<CRLF>>
           c == q.body
           r == e \o c
           t == RequestText(q)
           hs == q.headers
           x == "Connection"
           w == "connection"
           E == Ending(hs, x)
           closing == <<"close">>
<1>1. Closed(A) /\ Colon \in A /\ Blank \in A /\ CRLF \in A /\ x \in A
  BY AlphabetHas
<1>2. b \in Seq(A) /\ Ended(b) /\ Outcome(hs, b, x, w)
  BY HeadIs
<1>3. e \in Seq(A) /\ Len(e) = 1 /\ e[1] = CRLF /\ Unmarked(e, w)
  BY <1>1, LineEndUnmarked
<1>4. c \in Seq(A) /\ Unmarked(c, w) /\ Decided(hs)
  BY RequestParts
<1>5. hs \in Seq(HeaderOf(A))
  <2>1. hs \in Seq(Headers(A)) /\ Headers(A) \subseteq HeaderOf(A)
    BY RequestParts DEF Headers, HeadersWithout
  <2> QED
    BY <2>1, SeqMonotonic
<1>6. Spelled(x, w) /\ Fixed(w)
  BY SoughtSpelled DEF Spelled
<1>7. Unshadowed(hs, x)
  OBVIOUS
<1>8. t = b \o r
  <2>1. t = (b \o e) \o c
    BY RequestTextIs DEF HeadOf
  <2> HIDE DEF b, e, c, t
  <2>2. (b \o e) \o c = b \o (e \o c)
    BY <1>2, <1>3, <1>4, ConcatAssociative
  <2> QED
    BY <2>1, <2>2
<1>9. isKeepAlive(t) <=> toLower(findHeader(t, <<x>>)) # closing
  BY Zenon DEF isKeepAlive
<1>10. isKeepAlive(t) \in BOOLEAN
  BY Zenon DEF isKeepAlive
<1>11. Closes(q) <=> \E i \in DOMAIN hs : hs[i] = Header(<<x>>, <<"Close">>)
  BY Zenon DEF Closes
<1> HIDE DEF b, e, c, x, w, t
<1>12. r \in Seq(A) /\ Joins(r, e, c)
  BY <1>3, <1>4, JoinsConcat
<1> HIDE DEF r
<1>13. Unmarked(r, w)
  <2>1. Len(e) # 0 /\ e[Len(e)] = CRLF
    BY <1>3
  <2> QED
    BY <1>3, <1>4, <1>6, <1>12, <2>1, UnmarkedJoins
<1>14. t \in Seq(A) /\ Joins(t, b, r)
  BY <1>2, <1>8, <1>12, JoinsConcat
<1>15. Len(b) # 0 /\ b[Len(b)] = CRLF
  BY <1>2 DEF Ended
<1>16. CASE E = {}
  <2>1. Unmarked(t, w)
    BY <1>2, <1>6, <1>12, <1>13, <1>14, <1>15, <1>16, UnmarkedJoins DEF Outcome
  <2>2. findHeader(t, <<x>>) = <<>>
    BY <1>1, <1>6, <1>14, <2>1, HeaderMissing
  <2>3. toLower(findHeader(t, <<x>>)) # closing
    <3>1. toLower(<<>>) # closing
      BY LowerNone
    <3> QED
      BY <2>2, <3>1
  <2>4. ~Closes(q)
    <3>1. \A i \in DOMAIN hs : hs[i].name # <<x>>
      BY <1>16, NamedEnds
    <3>2. \A v : Header(<<x>>, v).name = <<x>>
      BY DEF Header
    <3> QED
      BY <1>11, <3>1, <3>2
  <2> QED
    BY <1>9, <1>10, <2>3, <2>4 DEF t
<1>17. CASE E # {}
  <2> DEFINE i == Min(E)
             v == hs[i].value
  <2>1. PICK p \in Nat \ {0} : Reads(b, w, v, p)
    BY <1>2, <1>17 DEF Outcome
  <2>2. i \in DOMAIN hs /\ hs[i].name = <<x>> /\ v \in Seq(A \ {CRLF})
    BY <1>5, <1>7, <1>17, FirstNamed
  <2>3. v \in Seq(A)
    <3>1. A \ {CRLF} \subseteq A
      OBVIOUS
    <3> QED
      BY <2>2, <3>1, SeqMonotonic
  <2>4. /\ toLower(v) = closing => v = <<"Close">>
        /\ \A j \in DOMAIN hs : hs[j].name = <<x>> => hs[j].value = v
    BY <1>4, <2>2 DEF Decided, x
  <2> HIDE DEF i
  <2>5. hs[i] = Header(<<x>>, v)
    <3>1. hs[i] \in HeaderOf(A)
      BY <1>5, <2>2, ElementOfSeq, LenProperties
    <3>2. hs[i] = [name |-> hs[i].name, value |-> hs[i].value]
      BY <3>1 DEF HeaderOf
    <3> QED
      BY <2>2, <3>2 DEF Header
  <2> HIDE DEF v
  <2>6. Reads(t, w, v, p)
    BY <1>2, <1>6, <1>12, <1>14, <1>15, <2>1, <2>3, ReadsJoins
  <2>7. findHeader(t, <<x>>) = v
    BY <1>1, <1>6, <1>14, <2>2, <2>6, HeaderRead
  <2>8. Closes(q) <=> v = <<"Close">>
    <3>1. ASSUME NEW j \in DOMAIN hs, hs[j] = Header(<<x>>, <<"Close">>) PROVE v = <<"Close">>
      <4>1. hs[j].name = <<x>> /\ hs[j].value = <<"Close">>
        BY <3>1 DEF Header
      <4> QED
        BY <2>4, <4>1
    <3>2. v = <<"Close">> => hs[i] = Header(<<x>>, <<"Close">>)
      BY <2>5
    <3> QED
      BY <1>11, <2>2, <3>1, <3>2
  <2>9. toLower(v) = closing <=> v = <<"Close">>
    BY <2>4, CloseFolds
  <2> QED
    BY <1>9, <1>10, <2>7, <2>8, <2>9 DEF t
<1> QED
  BY <1>16, <1>17

\* Requests handleClient can be sent are cut and kept as they were meant.
THEOREM RequestsFramed ==
  ASSUME NEW A, RequestAlphabet(A), asked.kind = "request" => asked \in AnyRequests(A)
  PROVE  FramesWhole
<1> DEFINE t == RequestText(asked)
<1> SUFFICES ASSUME asked.kind = "request"
             PROVE  /\ Unshadowed(asked.headers, "Content-Length") =>
                         /\ RawRequest(t) = t
                         /\ RawRequest(t \o Follower) = t
                         /\ \A n \in 1 .. (Len(t) - 1) : RawRequest(SubSeq(t, 1, n)) = <<>>
                    /\ Unshadowed(asked.headers, "Connection") => isKeepAlive(t) = ~Closes(asked)
  BY Zenon DEF FramesWhole, Closes
<1>1. asked \in AnyRequests(A)
  OBVIOUS
<1>2. t \in Seq(A)
  BY <1>1, TextIs
<1>3. Follower \in Seq(A)
  <2> DEFINE f == <<"GET", Blank, "/", Blank, "HTTP/1.1", CRLF, CRLF>>
  <2>1. "GET" \in A /\ "/" \in A /\ "HTTP/1.1" \in A /\ Blank \in A /\ CRLF \in A
    <3>1. "GET" \in Methods
      BY DEF Methods
    <3>2. \A c \in {"/", "a", "?", "b", "=", "%", "2", "6", "HTTP/1.1"} : c \in A
      BY AlphabetHas
    <3>3. "/" \in A /\ "HTTP/1.1" \in A
      BY <3>2, Zenon
    <3> QED
      BY <3>1, <3>3, AlphabetHas
  <2>2. f \in Seq(A)
    BY <2>1
  <2> QED
    BY <2>2, Zenon DEF Follower, Blank
<1>4. t \o <<>> = t /\ <<>> \in Seq(A)
  BY <1>2, ConcatEmptySeq, EmptySeq
<1> HIDE DEF t
<1>5. ASSUME Unshadowed(asked.headers, "Content-Length")
      PROVE  /\ RawRequest(t) = t
             /\ RawRequest(t \o Follower) = t
             /\ \A n \in 1 .. (Len(t) - 1) : RawRequest(SubSeq(t, 1, n)) = <<>>
  <2>1. /\ \A rest \in Seq(A) : RawRequest(t \o rest) = t
        /\ \A n \in 0 .. Len(t) - 1 : RawRequest(SubSeq(t, 1, n)) = <<>>
    BY <1>1, <1>5, RequestsCutWhole DEF t
  <2>2. RawRequest(t \o <<>>) = t
    BY <1>4, <2>1
  <2>3. \A n \in 1 .. Len(t) - 1 : n \in 0 .. Len(t) - 1
    OBVIOUS
  <2> QED
    BY <1>3, <1>4, <2>1, <2>2, <2>3
<1>6. Unshadowed(asked.headers, "Connection") => isKeepAlive(t) = ~Closes(asked)
  BY <1>1, KeepAliveMeant DEF t
<1> QED
  BY <1>5, <1>6

-----------------------------------------------------------------------------
(* The requests MCParsing asks about are among these.                      *)

SentSymbols ==
  RequestSymbols \cup Ten
  \cup {"Host", "host", "Close", "X-", "Cookie", "Forwarded-For", "A", "c", ";", ","}

SentLetters == SentSymbols \cup {Lowered(c) : c \in SentSymbols}

\* What stands in no separator.
WordsOf(A) == A \ {CRLF, Colon}

LEMMA SentLettersAre == RequestAlphabet(SentLetters) /\ SentSymbols \subseteq SentLetters
<1>1. Closed(SentLetters)
  <2>1. ASSUME NEW c \in SentLetters PROVE Lowered(c) \in SentLetters
    <3>1. CASE c \in SentSymbols
      BY <3>1, Zenon DEF SentLetters
    <3>2. CASE c \in {Lowered(d) : d \in SentSymbols}
      <4>1. PICK d \in SentSymbols : c = Lowered(d)
        BY <3>2, Zenon
      <4>2. Lowered(c) = c
        BY <4>1, LoweredIs, Zenon
      <4> QED
        BY <4>2, Zenon
    <3> QED
      BY <2>1, <3>1, <3>2, Zenon DEF SentLetters
  <2> QED
    BY <2>1, Zenon DEF Closed
<1>2. SentSymbols \subseteq SentLetters /\ RequestSymbols \subseteq SentSymbols
  BY DEF SentLetters, SentSymbols
<1> QED
  BY <1>1, <1>2 DEF RequestAlphabet

LEMMA SentWords ==
  ASSUME NEW A, A = SentLetters
  PROVE  /\ {"Host", "host", "Close", "X-", "Cookie", "Forwarded-For", "A", "c", ";", ",", "a", "b", "="}
              \subseteq WordsOf(A)
         /\ {"Connection", "Content-Length"} \subseteq WordsOf(A)
         /\ Blank \in WordsOf(A) /\ Ten \subseteq WordsOf(A)
         /\ Colon \in A /\ Colon # CRLF /\ CRLF \in A
<1> DEFINE L == {"Host", "host", "Close", "X-", "Cookie", "Forwarded-For", "A", "c", ";", ",", "a", "b", "="}
           M == {"Connection", "Content-Length"}
<1>1. \A c \in L \cup M : c # CRLF /\ c # Colon
  BY Zenon DEF CRLF, Colon
<1>2. \A c \in L \cup M : c \in SentSymbols
  BY Zenon DEF SentSymbols, RequestSymbols
<1>3. SentSymbols \subseteq A /\ RequestAlphabet(A)
  BY SentLettersAre
<1>4. Colon \in A /\ Blank \in A /\ CRLF \in A
  BY <1>3, AlphabetHas
<1>5. Ten \subseteq A
  BY <1>3 DEF SentSymbols
<1> HIDE DEF L, M
<1>6. L \subseteq WordsOf(A) /\ M \subseteq WordsOf(A)
  BY <1>1, <1>2, <1>3 DEF WordsOf
<1>7. Blank \in WordsOf(A) /\ Colon # CRLF
  BY <1>4, SeparatorsDiffer DEF WordsOf
<1>8. \A c \in Ten : c # Colon /\ c # CRLF
  BY TenIs DEF Colon
<1>9. Ten \subseteq WordsOf(A)
  BY <1>5, <1>8 DEF WordsOf
<1> QED
  BY <1>4, <1>6, <1>7, <1>9 DEF L, M

\* Without a ':' there is no mark.
LEMMA NoColonUnmarked ==
  ASSUME NEW B, Colon \notin B, NEW v \in Seq(B), NEW w
  PROVE  Unmarked(v, w)
<1>1. PICK n \in Nat : n = Len(v)
  BY LenProperties
<1>2. \A i \in 1 .. n : v[i] # Colon
  BY <1>1, ElementOfSeq
<1>3. ASSUME NEW i \in 1 .. n PROVE ~Mark(v, w, i)
  <2> SUFFICES ASSUME i + 2 <= n PROVE v[i + 1] # Colon
    BY <1>1 DEF Mark
  <2>1. i + 1 \in 1 .. n
    OBVIOUS
  <2> QED
    BY <1>2, <2>1
<1> QED
  BY <1>1, <1>3 DEF Unmarked

\* Where names and values are as they must be.
Clear(A, v) == v \in Seq(A \ {CRLF}) /\ \A w : Fixed(w) => Unmarked(v, w)

Small2(c) == c = "content-length" \/ c = "connection"

LEMMA HeaderLegal ==
  ASSUME NEW A, NEW name \in Seq(WordsOf(A)), name # <<>>, ~Small2(Last(name)), NEW v, Clear(A, v)
  PROVE  Header(name, v) \in Headers(A)
<1> DEFINE h == Header(name, v)
<1>1. h = [name |-> name, value |-> v]
  BY DEF Header
<1>2. h.name = name /\ h.value = v
  BY <1>1
<1>3. h \in HeaderOf(A)
  BY <1>1 DEF HeaderOf, Clear, WordsOf
<1> HIDE DEF h
<1>4. Last(h.name) # "content-length" /\ Last(h.name) # "connection"
  BY <1>2 DEF Small2
<1>5. Fixed("content-length") /\ Fixed("connection")
  BY SoughtSpelled DEF Spelled
<1>6. Unmarked(h.value, "content-length") /\ Unmarked(h.value, "connection")
  BY <1>2, <1>5 DEF Clear
<1>7. h \in HeadersWithout(A, "content-length") /\ h \in HeadersWithout(A, "connection")
  BY <1>3, <1>4, <1>6 DEF HeadersWithout
<1> QED
  BY <1>7 DEF Headers, h

LEMMA NameOne ==
  ASSUME NEW A, NEW c \in WordsOf(A), ~Small2(c)
  PROVE  <<c>> \in Seq(WordsOf(A)) /\ <<c>> # <<>> /\ ~Small2(Last(<<c>>))
<1>1. <<c>> \in Seq(WordsOf(A)) /\ <<c>> # <<>> /\ Last(<<c>>) = c
  BY DEF Last
<1> QED
  BY <1>1

LEMMA NameTwo ==
  ASSUME NEW A, NEW b \in WordsOf(A), NEW c \in WordsOf(A), ~Small2(c)
  PROVE  <<b, c>> \in Seq(WordsOf(A)) /\ <<b, c>> # <<>> /\ ~Small2(Last(<<b, c>>))
<1>1. <<b, c>> \in Seq(WordsOf(A)) /\ <<b, c>> # <<>> /\ Last(<<b, c>>) = c
  BY DEF Last
<1> QED
  BY <1>1

LEMMA CookieTextIs ==
  ASSUME NEW A, A = SentLetters
  PROVE  CookieText \in Seq(WordsOf(A))
<1> DEFINE W == WordsOf(A)
           semicolon == ";"
           b == <<semicolon, Blank>>
           C == CookiesSent
           T == [i \in DOMAIN C |-> C[i].key \o <<"=">> \o C[i].value]
<1>1. "A" \in W /\ "c" \in W /\ semicolon \in W /\ "a" \in W /\ "b" \in W /\ "=" \in W
      /\ Blank \in W /\ "1" \in W
  <2>1. "1" \in Ten
    BY DEF Ten
  <2>2. \A c \in {"Host", "host", "Close", "X-", "Cookie", "Forwarded-For", "A", "c", ";", ",", "a", "b", "="} : c \in W
    BY SentWords, Zenon
  <2>3. Blank \in W /\ Ten \subseteq W
    BY SentWords, Zenon
  <2>4. "1" \in W
    BY <2>1, <2>3
  <2> QED
    BY <2>2, <2>3, <2>4, Zenon
<1>2. CookieText = Joined(T, b)
  BY Zenon DEF CookieText, Blank
<1> HIDE DEF W, semicolon
<1>3. b \in Seq(W)
  BY <1>1
<1>4. C \in [1 .. 3 -> [key : Seq(W), value : Seq(W)]]
  <2>1. <<"A">> \in Seq(W) /\ <<"b">> \in Seq(W) /\ <<"a">> \in Seq(W) /\ <<"1">> \in Seq(W) /\ <<>> \in Seq(W)
    BY <1>1
  <2>2. <<"b", "=", "c">> \in Seq(W)
    BY <1>1
  <2> DEFINE R == [key : Seq(W), value : Seq(W)]
             r1 == [key |-> <<"A">>, value |-> <<"1">>]
             r2 == [key |-> <<"b">>, value |-> <<>>]
             r3 == [key |-> <<"a">>, value |-> <<"b", "=", "c">>]
  <2>3. r1 \in R /\ r2 \in R /\ r3 \in R
    BY <2>1, <2>2
  <2>4. C = <<r1, r2, r3>>
    BY DEF CookiesSent
  <2> HIDE DEF r1, r2, r3, R
  <2>5. <<r1, r2, r3>> \in [1 .. 3 -> R]
    BY <2>3
  <2> QED
    BY <2>4, <2>5 DEF R
<1> HIDE DEF b, C
<1>5. \A i \in 1 .. 3 : C[i].key \o <<"=">> \o C[i].value \in Seq(W)
  <2> TAKE i \in 1 .. 3
  <2> DEFINE k == C[i].key
             v == C[i].value
             e == <<"=">>
  <2>1. k \in Seq(W) /\ v \in Seq(W) /\ e \in Seq(W)
    BY <1>1, <1>4
  <2> HIDE DEF k, v, e
  <2>2. k \o e \in Seq(W)
    BY <2>1, ConcatProperties
  <2>3. (k \o e) \o v \in Seq(W)
    BY <2>1, <2>2, ConcatProperties
  <2> QED
    BY <2>3 DEF k, v, e
<1>6. T \in [1 .. 3 -> Seq(W)]
  <2>1. DOMAIN C = 1 .. 3
    BY <1>4
  <2> DEFINE F(i) == C[i].key \o <<"=">> \o C[i].value
  <2>2. \A i \in 1 .. 3 : F(i) \in Seq(W)
    BY <1>5
  <2>3. T = [i \in 1 .. 3 |-> F(i)]
    BY <2>1
  <2> HIDE DEF F
  <2>4. [i \in 1 .. 3 |-> F(i)] \in [1 .. 3 -> Seq(W)]
    BY <2>2
  <2> QED
    BY <2>3, <2>4
<1> HIDE DEF T
<1>7. T \in Seq(Seq(W))
  BY <1>6, FunctionIsSeq
<1>8. Joined(T, b) \in Seq(W)
  BY <1>3, <1>7, JoinedType
<1> QED
  BY <1>2, <1>8 DEF W

LEMMA WordsClear == ASSUME NEW A, NEW v \in Seq(WordsOf(A)) PROVE Clear(A, v)
<1>1. WordsOf(A) \subseteq A \ {CRLF} /\ Colon \notin WordsOf(A)
  BY DEF WordsOf
<1>2. v \in Seq(A \ {CRLF})
  BY <1>1, SeqMonotonic
<1>3. ASSUME NEW w PROVE Unmarked(v, w)
  BY <1>1, NoColonUnmarked
<1> QED
  BY <1>2, <1>3 DEF Clear

\* A ':' that no blank follows is no mark.
LEMMA ColonClear ==
  ASSUME NEW A, Colon \in A \ {CRLF}, NEW b \in WordsOf(A), NEW c \in WordsOf(A), c # Blank
  PROVE  Clear(A, <<b, Colon, c>>)
<1> DEFINE v == <<b, Colon, c>>
<1>1. v \in Seq(A \ {CRLF}) /\ Len(v) = 3 /\ v[3] = c
  BY DEF WordsOf
<1> HIDE DEF v
<1>2. ASSUME NEW w, NEW i \in 1 .. 3 PROVE ~Mark(v, w, i)
  <2>1. i + 2 <= 3 => i + 2 = 3
    OBVIOUS
  <2> QED
    BY <1>1, <2>1 DEF Mark
<1>3. \A w : Unmarked(v, w)
  BY <1>1, <1>2 DEF Unmarked
<1> QED
  BY <1>1, <1>3 DEF Clear, v

\* What MCParsing sends beside the length.
Proper(A, h) ==
  /\ h \in Headers(A) /\ h.name # <<"Content-Length">>
  /\ h.name = <<"Connection">> => h.value = <<"Close">>

LEMMA ProperOne ==
  ASSUME NEW A, NEW c \in WordsOf(A), ~Small2(c), c # "Content-Length", NEW v, Clear(A, v),
         c = "Connection" => v = <<"Close">>
  PROVE  Proper(A, Header(<<c>>, v))
<1>1. Header(<<c>>, v) \in Headers(A)
  BY NameOne, HeaderLegal
<1>2. Header(<<c>>, v).name = <<c>> /\ Header(<<c>>, v).value = v
  BY DEF Header
<1>3. \A d : <<c>> = <<d>> => c = d
  OBVIOUS
<1> QED
  BY <1>1, <1>2, <1>3 DEF Proper

LEMMA ProperTwo ==
  ASSUME NEW A, NEW b \in WordsOf(A), NEW c \in WordsOf(A), ~Small2(c), NEW v, Clear(A, v)
  PROVE  Proper(A, Header(<<b, c>>, v))
<1>1. Header(<<b, c>>, v) \in Headers(A)
  BY NameTwo, HeaderLegal
<1>2. Header(<<b, c>>, v).name = <<b, c>>
  BY DEF Header
<1>3. \A d : <<b, c>> # <<d>>
  <2> TAKE d
  <2>1. Len(<<b, c>>) = 2 /\ Len(<<d>>) = 1
    OBVIOUS
  <2> QED
    BY <2>1
<1> QED
  BY <1>1, <1>2, <1>3 DEF Proper

LEMMA SentProper == ASSUME NEW A, A = SentLetters PROVE \A h \in HeadersSent : Proper(A, h)
<1> DEFINE W == WordsOf(A)
           comma == ","
<1>1. /\ "Host" \in W /\ "host" \in W /\ "Connection" \in W /\ "Content-Length" \in W /\ "Cookie" \in W
      /\ "X-" \in W /\ "Forwarded-For" \in W
      /\ "a" \in W /\ "b" \in W /\ "c" \in W /\ "Close" \in W /\ comma \in W /\ Blank \in W
  <2>1. \A c \in {"Host", "host", "Close", "X-", "Cookie", "Forwarded-For", "A", "c", ";", ",", "a", "b", "="} : c \in W
    BY SentWords, Zenon
  <2>2. \A c \in {"Connection", "Content-Length"} : c \in W
    BY SentWords, Zenon
  <2>3. Blank \in W
    BY SentWords, Zenon
  <2> QED
    BY <2>1, <2>2, <2>3, Zenon
<1>2. "1" \in W /\ "1" # Blank
  <2>1. "1" \in Ten
    BY DEF Ten
  <2>2. "1" # Blank
    BY Zenon DEF Blank
  <2> QED
    BY <2>1, <2>2, SentWords, Zenon
<1>3. /\ ~Small2("Host") /\ ~Small2("host") /\ ~Small2("Connection") /\ ~Small2("Content-Length")
      /\ ~Small2("Cookie") /\ ~Small2("Forwarded-For")
  BY DEF Small2
<1>4. CookieText \in Seq(W)
  BY CookieTextIs
<1>5. Colon \in A \ {CRLF}
  BY SentWords
<1> HIDE DEF W, comma
<1>6. /\ <<"b">> \in Seq(W) /\ <<>> \in Seq(W) /\ <<"Close">> \in Seq(W) /\ <<"a">> \in Seq(W)
      /\ <<"1">> \in Seq(W)
  BY <1>1, <1>2
<1>7. <<"a", "b", Blank, comma, Blank, "c">> \in Seq(W)
  BY <1>1
<1>8. /\ Clear(A, <<"b">>) /\ Clear(A, <<>>) /\ Clear(A, <<"Close">>) /\ Clear(A, <<"a">>)
      /\ Clear(A, <<"1">>) /\ Clear(A, CookieText)
  BY <1>4, <1>6, WordsClear DEF W
<1>9. Clear(A, <<"a", "b", Blank, comma, Blank, "c">>)
  BY <1>7, WordsClear DEF W
<1>10. Clear(A, <<"a", Colon, "1">>)
  BY <1>1, <1>2, <1>5, ColonClear DEF W
<1>11. /\ Proper(A, Header(<<"Host">>, <<"a", Colon, "1">>))
       /\ Proper(A, Header(<<"host">>, <<"b">>))
       /\ Proper(A, Header(<<"Host">>, <<>>))
       /\ Proper(A, Header(<<"Connection">>, <<"Close">>))
       /\ Proper(A, Header(<<"Cookie">>, CookieText))
  <2>1. /\ "Host" # "Content-Length" /\ "host" # "Content-Length" /\ "Connection" # "Content-Length"
        /\ "Cookie" # "Content-Length" /\ "Host" # "Connection" /\ "host" # "Connection"
        /\ "Cookie" # "Connection"
    OBVIOUS
  <2>2. Proper(A, Header(<<"Host">>, <<"a", Colon, "1">>))
    BY <1>1, <1>3, <1>10, <2>1, ProperOne DEF W
  <2>3. Proper(A, Header(<<"host">>, <<"b">>))
    BY <1>1, <1>3, <1>8, <2>1, ProperOne DEF W
  <2>4. Proper(A, Header(<<"Host">>, <<>>))
    BY <1>1, <1>3, <1>8, <2>1, ProperOne DEF W
  <2>5. Proper(A, Header(<<"Connection">>, <<"Close">>))
    BY <1>1, <1>3, <1>8, <2>1, ProperOne DEF W
  <2>6. Proper(A, Header(<<"Cookie">>, CookieText))
    BY <1>1, <1>3, <1>8, <2>1, ProperOne DEF W
  <2> QED
    BY <2>2, <2>3, <2>4, <2>5, <2>6
<1>12. /\ Proper(A, Header(<<"X-", "Connection">>, <<"a">>))
       /\ Proper(A, Header(<<"X-", "Content-Length">>, <<"1">>))
       /\ Proper(A, Header(<<"X-", "Forwarded-For">>, <<"a", "b", Blank, comma, Blank, "c">>))
  BY <1>1, <1>3, <1>8, <1>9, ProperTwo DEF W
<1>13. HeadersSent =
         { Header(<<"Host">>, <<"a", Colon, "1">>), Header(<<"host">>, <<"b">>), Header(<<"Host">>, <<>>),
           Header(<<"Connection">>, <<"Close">>), Header(<<"X-", "Connection">>, <<"a">>),
           Header(<<"X-", "Content-Length">>, <<"1">>), Header(<<"Cookie">>, CookieText),
           Header(<<"X-", "Forwarded-For">>, <<"a", "b", Blank, comma, Blank, "c">>) }
  BY Zenon DEF HeadersSent, Colon, Blank, comma
<1> QED
  BY <1>11, <1>12, <1>13, Zenon

\* The header that announces n symbols.
LengthHeader(n) == Header(<<"Content-Length">>, to_string(n))

LEMMA LengthLegal ==
  ASSUME NEW A, A = SentLetters, NEW n \in Nat
  PROVE  LengthHeader(n) \in Headers(A)
<1>1. "Content-Length" \in WordsOf(A) /\ Ten \subseteq WordsOf(A)
  <2>1. \A c \in {"Connection", "Content-Length"} : c \in WordsOf(A)
    BY SentWords, Zenon
  <2>2. Ten \subseteq WordsOf(A)
    BY SentWords, Zenon
  <2> QED
    BY <2>1, <2>2, Zenon
<1>2. to_string(n) \in Seq(DOMAIN Digit)
  BY NumbersReadBack DEF Numeral, Figures
<1>3. DOMAIN Digit \subseteq WordsOf(A)
  BY <1>1, DigitIs
<1>4. to_string(n) \in Seq(WordsOf(A))
  BY <1>2, <1>3, SeqMonotonic
<1>5. Clear(A, to_string(n))
  BY <1>4, WordsClear
<1>6. ~Small2("Content-Length")
  BY DEF Small2
<1> QED
  BY <1>1, <1>5, <1>6, NameOne, HeaderLegal DEF LengthHeader

\* Any list of these headers and the one that announces the body is legal.
LEMMA HeadersLegal ==
  ASSUME NEW A, A = SentLetters, NEW n \in Nat, NEW hs \in Seq(HeadersSent \cup {LengthHeader(n)})
  PROVE  /\ hs \in Seq(Headers(A)) /\ Decided(hs)
         /\ \A i \in DOMAIN hs : hs[i].name = <<"Content-Length">> => hs[i].value = to_string(n)
<1> DEFINE l == LengthHeader(n)
           D == HeadersSent
           Good(h) == /\ h \in Headers(A)
                      /\ h.name = <<"Content-Length">> => h.value = to_string(n)
                      /\ h.name = <<"Connection">> => h.value = <<"Close">>
<1>1. l \in Headers(A)
  BY LengthLegal
<1>2. l.name = <<"Content-Length">> /\ l.value = to_string(n)
  BY DEF LengthHeader, Header
<1>3. <<"Content-Length">> # <<"Connection">>
  OBVIOUS
<1>4. \A h \in D : Proper(A, h)
  BY SentProper
<1>5. DOMAIN hs = 1 .. Len(hs)
  BY LenProperties
<1> HIDE DEF l, D
<1>6. Good(l)
  BY <1>1, <1>2, <1>3
<1>7. \A h \in D : Good(h)
  BY <1>4 DEF Proper
<1>8. hs \in Seq(D \cup {l})
  BY DEF D, l
<1>9. \A i \in DOMAIN hs : hs[i] \in D \cup {l}
  BY <1>5, <1>8, ElementOfSeq
<1>10. \A i \in DOMAIN hs : Good(hs[i])
  BY <1>6, <1>7, <1>9
<1>11. D \cup {l} \subseteq Headers(A)
  BY <1>1, <1>7
<1>12. hs \in Seq(Headers(A))
  BY <1>8, <1>11, SeqMonotonic
<1> HIDE DEF Good
<1>13. Decided(hs)
  BY <1>10 DEF Decided, Good
<1> QED
  BY <1>10, <1>12, <1>13 DEF Good

LEMMA BodiesLegal ==
  ASSUME NEW A, A = SentLetters, NEW body \in Bodies
  PROVE  body \in Seq(A) /\ Unmarked(body, "connection")
<1> DEFINE B == A \ {Colon}
<1>1. "b" \in B /\ "c" \in B
  <2>1. \A c \in {"Host", "host", "Close", "X-", "Cookie", "Forwarded-For", "A", "c", ";", ",", "a", "b", "="} :
          c \in WordsOf(A)
    BY SentWords, Zenon
  <2> QED
    BY <2>1, Zenon DEF WordsOf
<1>2. CRLF \in B
  BY SentWords
<1> HIDE DEF B
<1>3. <<>> \in Seq(B) /\ <<"b">> \in Seq(B) /\ <<"b", CRLF, CRLF, "c">> \in Seq(B)
  BY <1>1, <1>2
<1>4. body \in Seq(B)
  BY <1>3, Zenon DEF Bodies
<1>5. B \subseteq A /\ Colon \notin B
  BY DEF B
<1>6. body \in Seq(A)
  BY <1>4, <1>5, SeqMonotonic
<1>7. Unmarked(body, "connection")
  BY <1>4, <1>5, NoColonUnmarked
<1> QED
  BY <1>6, <1>7

LEMMA RequestsLegal == RequestQuestions \subseteq AnyRequests(SentLetters)
<1> DEFINE A == SentLetters
           O == {s \in Lists(HeadersSent, 0, 3) : \A i, j \in DOMAIN s : i # j => s[i] # s[j]}
           HS(body, first, others) ==
             IF body = <<>> THEN others
             ELSE IF first THEN <<Header(<<"Content-Length">>, to_string(Len(body)))>> \o others
             ELSE Append(others, Header(<<"Content-Length">>, to_string(Len(body))))
           M(body) == IF body = <<>> THEN "GET" ELSE "POST"
           E(body, first, others) ==
             [kind |-> "request", method |-> M(body), body |-> body, headers |-> HS(body, first, others)]
           Q == {E(body, first, others) : body \in Bodies, first \in BOOLEAN, others \in O}
<1>1. RequestQuestions = Q
  BY DEF RequestQuestions
<1>2. O \subseteq Seq(HeadersSent)
  BY ListsAre
<1>3. \A body : M(body) \in Methods
  BY DEF Methods
<1>4. A = SentLetters
  OBVIOUS
<1> HIDE DEF O, A, M
<1>5. ASSUME NEW body \in Bodies, NEW first \in BOOLEAN, NEW others \in O
      PROVE  E(body, first, others) \in AnyRequests(A)
  <2>1. body \in Seq(A) /\ Unmarked(body, "connection")
    BY <1>4, BodiesLegal
  <2>2. PICK n \in Nat : n = Len(body)
    BY <2>1, LenProperties
  <2> DEFINE l == LengthHeader(n)
             D == HeadersSent \cup {l}
             hs == HS(body, first, others)
  <2>3. others \in Seq(D)
    <3>1. HeadersSent \subseteq D
      OBVIOUS
    <3> HIDE DEF D
    <3> QED
      BY <1>2, <3>1, SeqMonotonic
  <2>4. l \in D /\ l.name = <<"Content-Length">>
    BY DEF LengthHeader, Header
  <2>5. /\ hs = IF body = <<>> THEN others ELSE IF first THEN <<l>> \o others ELSE Append(others, l)
    BY <2>2 DEF LengthHeader
  <2>6. D = HeadersSent \cup {LengthHeader(n)}
    OBVIOUS
  <2> HIDE DEF l, D, hs
  <2>7. <<l>> \o others \in Seq(D) /\ (<<l>> \o others)[1] = l /\ 1 \in DOMAIN (<<l>> \o others)
    BY <2>3, <2>4
  <2>8. /\ Append(others, l) \in Seq(D)
        /\ Append(others, l)[Len(others) + 1] = l /\ Len(others) + 1 \in DOMAIN Append(others, l)
    BY <2>3, <2>4
  <2>9. hs \in Seq(D)
    BY <2>3, <2>5, <2>7, <2>8
  <2>10. body # <<>> => \E i \in DOMAIN hs : hs[i].name = <<"Content-Length">>
    BY <2>4, <2>5, <2>7, <2>8
  <2>11. /\ hs \in Seq(Headers(A)) /\ Decided(hs)
         /\ \A i \in DOMAIN hs : hs[i].name = <<"Content-Length">> => hs[i].value = to_string(n)
    BY <1>4, <2>6, <2>9, HeadersLegal
  <2>12. Announces(hs, body)
    BY <2>2, <2>10, <2>11 DEF Announces
  <2> DEFINE e == E(body, first, others)
  <2>13. /\ e = [kind |-> "request", method |-> M(body), body |-> body, headers |-> hs]
    BY DEF hs
  <2> HIDE DEF e
  <2>14. /\ e \in [kind : {"request"}, method : Methods, headers : Seq(Headers(A)), body : Seq(A)]
         /\ e.headers = hs /\ e.body = body
    BY <1>3, <2>1, <2>11, <2>13
  <2>15. e \in AnyRequests(A)
    BY <2>1, <2>11, <2>12, <2>14 DEF AnyRequests
  <2> QED
    BY <2>15 DEF e
<1> HIDE DEF E
<1>6. Q \subseteq AnyRequests(A)
  BY <1>5
<1> QED
  BY <1>1, <1>6 DEF A

\* Every request MCParsing sends is one of them.
RequestAsked == asked.kind = "request" => asked \in AnyRequests(SentLetters)

LEMMA StaysRequestAsked == Spec => []RequestAsked
<1>1. Init => RequestAsked
  BY DEF Init, RequestAsked
<1>2. RequestAsked /\ [Next]_asked => RequestAsked'
  <2> SUFFICES ASSUME RequestAsked, [Next]_asked PROVE RequestAsked'
    OBVIOUS
  <2>1. CASE AskRoute
    <3> DEFINE X == Lists(DeclaredRoutes, 1, 3)
               Y == Lists(Segments, 0, 2)
    <3>1. RouteQuestions = [kind : {"route"}, table : X, segments : Y, spare : BOOLEAN]
      BY Zenon DEF RouteQuestions
    <3> HIDE DEF X, Y
    <3>2. \A q \in RouteQuestions : q.kind = "route"
      BY <3>1
    <3> QED
      BY <2>1, <3>2 DEF AskRoute, Ask, RequestAsked
  <2>2. CASE AskRequest
    BY <2>2, RequestsLegal DEF AskRequest, Ask, RequestAsked
  <2>3. CASE AskQuery \/ AskForm \/ AskResponse
    BY <2>3, OtherKinds DEF AskQuery, AskForm, AskResponse, Ask, RequestAsked
  <2>4. CASE UNCHANGED asked
    BY <2>4 DEF RequestAsked
  <2> QED
    BY <2>1, <2>2, <2>3, <2>4 DEF Next
<1> QED
  BY <1>1, <1>2, PTL DEF Spec

\* Every request MCParsing sends is cut and kept as it was meant
\* (Server.cpp:83-105 and 195-219).
THEOREM RequestsAnswered == Spec => []FramesWhole
<1>1. RequestAsked => FramesWhole
  BY SentLettersAre, RequestsFramed DEF RequestAsked
<1> QED
  BY <1>1, StaysRequestAsked, PTL

-----------------------------------------------------------------------------
(* parseRequest: the lines of a request.                                   *)

\* The lines of a request up to the blank one; the body comes behind it.
LEMMA HeadLines ==
  ASSUME NEW A, Colon \in A, Blank \in A, CRLF \in A, NEW first \in Seq(A \ {CRLF}),
         NEW hs \in Seq(HeaderOf(A)), NEW body \in Seq(A)
  PROVE  LET r == split((Block(first \o <<CRLF>>, hs) \o <<CRLF>>) \o body, CRLF)
         IN  r[1] = first /\ UpToBlank(Tail(r)) = Writtens(hs)
<1> DEFINE b == Block(first \o <<CRLF>>, hs)
           w == Writtens(hs)
           l == <<first>> \o w
           e == b \o <<CRLF>>
           r == split(e \o body, CRLF)
           none == <<>>
<1>0. PICK n \in Nat : n = Len(hs)
  BY LenProperties
<1>1. first \in Seq(A) /\ Append(first, CRLF) \in Seq(A) /\ first \o <<CRLF>> = Append(first, CRLF)
  BY SeqMonotonic, AppendIsConcat, AppendProperties
<1>2. b \in Seq(A)
  BY <1>1, BlockAppend, BlockType
<1>3. EndsIn(b, CRLF, l, none)
  BY BlockSplits
<1>4. /\ w \in Seq(Seq(A \ {CRLF}) \ {<<>>}) /\ Len(w) = n
  BY <1>0, WrittensAre
<1>5. w \in Seq(Seq(A)) /\ \A i \in 1 .. n : w[i] # none
  <2>1. \A i \in 1 .. n : w[i] \in Seq(A \ {CRLF}) \ {<<>>}
    BY <1>4, ElementOfSeq
  <2>2. Seq(A \ {CRLF}) \ {<<>>} \subseteq Seq(A)
    BY SeqMonotonic
  <2> HIDE DEF w
  <2>3. w \in Seq(Seq(A))
    BY <1>4, <2>2, SeqMonotonic
  <2> QED
    BY <2>1, <2>3
<1> HIDE DEF b, w
<1>6. /\ l \in Seq(Seq(A)) /\ Len(l) = n + 1 /\ l[1] = first
      /\ \A i \in 1 .. n : l[i + 1] = w[i]
  <2> DEFINE f == <<first>>
  <2>1. f \in Seq(Seq(A)) /\ Len(f) = 1 /\ f[1] = first
    BY <1>1
  <2> HIDE DEF f
  <2>2. f \o w \in Seq(Seq(A)) /\ Joins(f \o w, f, w)
    BY <1>5, <2>1, JoinsConcat
  <2>3. \A i \in 1 .. n : 1 + i = i + 1
    OBVIOUS
  <2> QED
    BY <1>4, <2>1, <2>2, <2>3 DEF Joins, f
<1> HIDE DEF l
<1>7. e = Append(b, CRLF) /\ e \in Seq(A)
  BY <1>2, AppendIsConcat, AppendProperties
<1>8. split(e, CRLF) = Append(Append(l, none), none)
  BY <1>2, <1>3, <1>7, SplitEnd DEF EndsIn
<1> DEFINE p == Append(Append(l, none), none)
<1>9. /\ p \in Seq(Seq(A)) /\ Len(p) = n + 3 /\ p[n + 2] = none
      /\ p[1] = first /\ \A i \in 1 .. n : p[i + 1] = w[i]
  <2> DEFINE m == Append(l, none)
  <2>1. none \in Seq(A)
    BY EmptySeq
  <2> HIDE DEF none
  <2>2. /\ m \in Seq(Seq(A)) /\ Len(m) = n + 2 /\ m[n + 2] = none
        /\ \A i \in 1 .. n + 1 : m[i] = l[i]
    BY <1>6, <2>1, AppendProperties
  <2> HIDE DEF m
  <2>3. /\ Append(m, none) \in Seq(Seq(A)) /\ Len(Append(m, none)) = n + 3
        /\ \A i \in 1 .. n + 2 : Append(m, none)[i] = m[i]
    BY <2>1, <2>2, AppendProperties
  <2>4. /\ 1 \in 1 .. n + 1 /\ 1 \in 1 .. n + 2 /\ n + 2 \in 1 .. n + 2
        /\ \A i \in 1 .. n : i + 1 \in 1 .. n + 1 /\ i + 1 \in 1 .. n + 2
    OBVIOUS
  <2> QED
    BY <1>6, <2>2, <2>3, <2>4 DEF m
<1>10. Splitting(A, r) /\ Keeps(r, p)
  BY <1>7, <1>8, SplitKeeps
<1> HIDE DEF p, r, e
<1>11. /\ r \in Seq(Seq(A)) /\ Len(r) \in Nat /\ Len(r) >= n + 3 /\ r[1] = first /\ r[n + 2] = none
       /\ \A i \in 1 .. n : r[i + 1] = w[i]
  <2>1. r \in Seq(Seq(A)) /\ Len(r) \in Nat
    BY <1>10 DEF Splitting
  <2>2. (n + 3) - 1 = n + 2
    OBVIOUS
  <2>3. Len(r) >= n + 3 /\ \A i \in 1 .. n + 2 : r[i] = p[i]
    BY <1>9, <1>10, <2>2 DEF Keeps
  <2>4. 1 \in 1 .. n + 2 /\ n + 2 \in 1 .. n + 2 /\ \A i \in 1 .. n : i + 1 \in 1 .. n + 2
    OBVIOUS
  <2> QED
    BY <1>9, <2>1, <2>3, <2>4
<1> DEFINE t == Tail(r)
<1>12. /\ t \in Seq(Seq(A)) /\ Len(t) = Len(r) - 1 /\ \A i \in 1 .. Len(t) : t[i] = r[i + 1]
  <2>1. r # <<>>
    BY <1>11, EmptySeq
  <2> QED
    BY <1>11, <2>1, HeadTailProperties
<1> HIDE DEF t
<1>13. DOMAIN t = 1 .. Len(t) /\ n + 1 \in DOMAIN t /\ \A i \in 1 .. n : i \in DOMAIN t
  <2>1. DOMAIN t = 1 .. Len(t)
    BY <1>12, LenProperties
  <2>2. PICK m \in Nat : m = Len(r)
    BY <1>11
  <2>3. Len(t) = m - 1 /\ m >= n + 3
    BY <1>11, <1>12, <2>2
  <2>4. n + 1 \in 1 .. m - 1 /\ \A i \in 1 .. n : i \in 1 .. m - 1
    BY <2>3
  <2> QED
    BY <2>1, <2>3, <2>4
<1>14. t[n + 1] = none /\ \A i \in 1 .. n : t[i] = w[i]
  <2>1. (n + 1) + 1 = n + 2
    OBVIOUS
  <2> QED
    BY <1>11, <1>12, <1>13, <2>1
<1> DEFINE blank == {i \in DOMAIN t : t[i] = none}
<1>15. blank # {} /\ Min(blank) = n + 1
  <2>1. n + 1 \in blank /\ blank \subseteq Nat
    BY <1>13, <1>14
  <2>2. ASSUME NEW i \in blank PROVE i >= n + 1
    <3>1. i \in Nat \ {0} /\ t[i] = none
      BY <1>12, <1>13
    <3>2. i \notin 1 .. n
      BY <1>5, <1>14, <3>1
    <3> QED
      BY <3>1, <3>2
  <2> HIDE DEF blank
  <2>3. Min(blank) \in blank /\ \A x \in blank : Min(blank) <= x
    BY <2>1, Smallest
  <2>4. Min(blank) \in Nat /\ Min(blank) >= n + 1 /\ Min(blank) <= n + 1
    BY <2>1, <2>2, <2>3
  <2> QED
    BY <2>1, <2>4
<1>16. UpToBlank(t) = SubSeq(t, 1, n)
  <2>1. UpToBlank(t) = IF blank = {} THEN t ELSE SubSeq(t, 1, Min(blank) - 1)
    BY Zenon DEF UpToBlank
  <2> HIDE DEF blank
  <2> QED
    BY <1>15, <2>1
<1>17. SubSeq(t, 1, n) = w
  <2>1. n \in 0 .. Len(t)
    <3>1. Len(t) \in Nat /\ n + 1 \in 1 .. Len(t)
      BY <1>12, <1>13, LenProperties
    <3> QED
      BY <3>1
  <2> DEFINE u == SubSeq(t, 1, n)
  <2>2. u \in Seq(Seq(A)) /\ Len(u) = n /\ \A i \in 1 .. n : u[i] = t[i]
    BY <1>12, <2>1, PrefixIs
  <2> HIDE DEF u
  <2>3. \A i \in 1 .. n : u[i] = w[i]
    BY <1>14, <2>2
  <2>4. Len(w) = Len(u) /\ \A i \in 1 .. Len(u) : u[i] = w[i]
    BY <1>4, <2>2, <2>3
  <2>5. u = w
    BY <1>5, <2>2, <2>4, SeqEqual
  <2> QED
    BY <2>5 DEF u
<1>18. r[1] = first /\ UpToBlank(t) = w
  BY <1>11, <1>16, <1>17
<1> QED
  BY <1>18, Zenon DEF t, w, r, e, b

\* What HeaderMap makes of one line.
KeyValue(line) ==
  LET key == getlines(line, ":")[1]
      value == From(line, Len(key) + 2)
  IN  [key |-> key, value |-> IF value # <<>> /\ value[1] = " " THEN Tail(value) ELSE value]

LineRead(line) == IF Len(getlines(line, ":")) >= 2 THEN <<KeyValue(line)>> ELSE <<>>

LinesRead(lines) == [i \in DOMAIN lines |-> LineRead(lines[i])]

LEMMA HeaderMapIs ==
  ASSUME NEW lines
  PROVE  HeaderMap(lines) = Assigned(FlattenSeq(LinesRead(UpToBlank(lines))))
BY Zenon DEF HeaderMap, LinesRead, LineRead, KeyValue

LEMMA LineReadIs ==
  ASSUME NEW A, Colon \in A, Blank \in A, CRLF \in A, NEW h \in HeaderOf(A)
  PROVE  LineRead(Written(h)) = <<HeaderPair(h)>>
<1> DEFINE n == h.name
           v == h.value
           s == n \o <<Colon, Blank>>
           w == Written(h)
           g == getlines(w, Colon)
<1>1. Len(g) >= 2 /\ g[1] = n
  BY LinePieces
<1>2. n \in Seq(A) /\ v \in Seq(A)
  <2>1. n \in Seq(A \ {CRLF, Colon}) /\ v \in Seq(A \ {CRLF})
    BY DEF HeaderOf
  <2>2. A \ {CRLF, Colon} \subseteq A /\ A \ {CRLF} \subseteq A
    OBVIOUS
  <2> QED
    BY <2>1, <2>2, SeqMonotonic
<1>3. PICK k \in Nat, m \in Nat : k = Len(n) /\ m = Len(v)
  BY <1>2, LenProperties
<1> DEFINE b == <<Colon, Blank>>
<1>4. b \in Seq(A) /\ Len(b) = 2 /\ b[2] = Blank
  OBVIOUS
<1>5. w = s \o v
  BY WrittenIs
<1> HIDE DEF n, v, b
<1>6. s = n \o b
  BY DEF b
<1> HIDE DEF s, w
<1>7. s \in Seq(A) /\ Len(s) = k + 2 /\ s[k + 2] = Blank
  <2>1. s \in Seq(A) /\ Joins(s, n, b)
    BY <1>2, <1>4, <1>6, JoinsConcat
  <2> QED
    BY <1>3, <1>4, <2>1 DEF Joins
<1>8. /\ w \in Seq(A) /\ Len(w) = k + 2 + m /\ w[k + 2] = Blank
      /\ \A j \in 1 .. m : w[k + 2 + j] = v[j]
  <2>1. w \in Seq(A) /\ Joins(w, s, v)
    BY <1>2, <1>5, <1>7, JoinsConcat
  <2>2. k + 2 \in 1 .. Len(s)
    BY <1>7
  <2> QED
    BY <1>3, <1>7, <2>1, <2>2 DEF Joins
<1> DEFINE f == From(w, k + 2)
<1>9. /\ f \in Seq(A) /\ Len(f) = m + 1 /\ \A j \in 1 .. m + 1 : f[j] = w[k + 2 + j - 1]
  <2> DEFINE l == k + 2 + m
             i == k + 2
             x == SubSeq(w, i, l)
  <2>1. f = x
    BY <1>8 DEF From
  <2>2. i \in 1 .. Len(w) + 1 /\ l \in i - 1 .. Len(w) /\ l - i + 1 = m + 1
    BY <1>8
  <2> HIDE DEF l, i
  <2>3. x \in Seq(A) /\ Len(x) = l - i + 1 /\ \A j \in 1 .. l - i + 1 : x[j] = w[i + j - 1]
    BY <1>8, <2>2, SubSeqProperties
  <2> HIDE DEF x, f
  <2> QED
    BY <2>1, <2>2, <2>3 DEF i
<1> HIDE DEF f
<1>10. f # <<>> /\ f[1] = Blank
  <2>1. f[1] = w[k + 2 + 1 - 1] /\ k + 2 + 1 - 1 = k + 2
    BY <1>9
  <2> QED
    BY <1>8, <1>9, <2>1, EmptySeq
<1>11. Tail(f) = v
  <2> DEFINE t == Tail(f)
  <2>1. t \in Seq(A) /\ Len(t) = (m + 1) - 1 /\ \A j \in 1 .. (m + 1) - 1 : t[j] = f[j + 1]
    BY <1>9, <1>10, HeadTailProperties
  <2> HIDE DEF t
  <2>2. \A j \in 1 .. m : t[j] = v[j]
    <3> TAKE j \in 1 .. m
    <3>1. j + 1 \in 1 .. m + 1 /\ k + 2 + (j + 1) - 1 = k + 2 + j /\ j \in 1 .. (m + 1) - 1
      OBVIOUS
    <3>2. t[j] = f[j + 1]
      BY <2>1, <3>1
    <3>3. f[j + 1] = w[k + 2 + j]
      BY <1>9, <3>1
    <3> QED
      BY <1>8, <3>2, <3>3
  <2>3. Len(t) = Len(v)
    BY <1>3, <2>1
  <2> QED
    BY <1>2, <1>3, <2>1, <2>2, <2>3, SeqEqual DEF t
<1>12. KeyValue(w) = [key |-> n, value |-> v]
  <2>1. KeyValue(w) = [key |-> g[1], value |-> IF From(w, Len(g[1]) + 2) # <<>> /\ From(w, Len(g[1]) + 2)[1] = Blank
                                              THEN Tail(From(w, Len(g[1]) + 2)) ELSE From(w, Len(g[1]) + 2)]
    BY Zenon DEF KeyValue, Colon, Blank
  <2> HIDE DEF g
  <2>2. From(w, Len(g[1]) + 2) = f
    BY <1>1, <1>3 DEF f
  <2> QED
    BY <1>1, <1>10, <1>11, <2>1, <2>2, Zenon
<1>13. LineRead(w) = <<KeyValue(w)>>
  BY <1>1, Zenon DEF LineRead, Colon
<1> QED
  BY <1>12, <1>13, Zenon DEF w, n, v, HeaderPair

\* The map of the headers of a request is filled with just what was sent.
LEMMA HeadersMapped ==
  ASSUME NEW A, Colon \in A, Blank \in A, CRLF \in A, NEW hs \in Seq(HeaderOf(A)), NEW lines,
         UpToBlank(lines) = Writtens(hs)
  PROVE  HeaderMap(lines) = Assigned(HeaderPairs(hs))
<1> DEFINE w == Writtens(hs)
           P == HeaderPairs(hs)
           K == KeyValues(A)
<1>0. PICK n \in Nat : n = Len(hs)
  BY LenProperties
<1>1. P \in Seq(K) /\ Len(P) = n /\ \A i \in 1 .. n : P[i] = HeaderPair(hs[i])
  BY <1>0, HeaderPairsAre
<1>2. DOMAIN w = 1 .. n /\ \A i \in 1 .. n : w[i] = Written(hs[i])
  <2>1. w \in Seq(Seq(A \ {CRLF}) \ {<<>>}) /\ Len(w) = n /\ \A i \in 1 .. n : w[i] = Written(hs[i])
    BY <1>0, WrittensAre
  <2> HIDE DEF w
  <2> QED
    BY <2>1, LenProperties
<1>3. <<>> \notin K
  <2>1. DOMAIN <<>> = {}
    OBVIOUS
  <2>2. \A p \in K : DOMAIN p = {"key", "value"}
    BY DEF KeyValues
  <2>3. "key" \in {"key", "value"}
    OBVIOUS
  <2> QED
    BY <2>1, <2>2, <2>3
<1>4. \A i \in 1 .. n : hs[i] \in HeaderOf(A)
  BY <1>0, ElementOfSeq
<1>5. \A i \in 1 .. n : LineRead(Written(hs[i])) = <<HeaderPair(hs[i])>>
  BY <1>4, LineReadIs
<1> HIDE DEF w, P, K
<1>6. DOMAIN P = 1 .. n /\ \A i \in 1 .. n : P[i] \in K
  BY <1>1, LenProperties, ElementOfSeq
<1>7. LinesRead(w) = Skips(P)
  <2>1. LinesRead(w) = [i \in 1 .. n |-> LineRead(w[i])]
    BY <1>2 DEF LinesRead
  <2>2. Skips(P) = [i \in 1 .. n |-> Skipped(P[i])]
    BY <1>6 DEF Skips
  <2>3. \A i \in 1 .. n : LineRead(w[i]) = Skipped(P[i])
    <3> TAKE i \in 1 .. n
    <3>1. P[i] # <<>>
      BY <1>3, <1>6
    <3>2. Skipped(P[i]) = <<P[i]>>
      BY <3>1 DEF Skipped
    <3> QED
      BY <1>1, <1>2, <1>5, <3>2
  <2> QED
    BY <2>1, <2>2, <2>3
<1>8. FlattenSeq(Skips(P)) = P
  BY <1>1, <1>3, NothingSkipped, NonEmptySkips
<1>9. HeaderMap(lines) = Assigned(FlattenSeq(LinesRead(w)))
  BY HeaderMapIs, Zenon DEF w
<1> QED
  BY <1>7, <1>8, <1>9 DEF P

-----------------------------------------------------------------------------
(* What get finds in a list built from such a map.                         *)

\* A key that differs from one of the map in case only, or from all of them.
LEMMA ListFinds ==
  ASSUME NEW map, NEW list \in KVLists(map), NEW key
  PROVE  IF \E k \in DOMAIN map : SameName(k, key)
         THEN \E j \in DOMAIN map : SameName(j, key) /\ get(list, key) = {map[j]}
         ELSE get(list, key) = {}
<1> DEFINE names == {Folded(k) : k \in DOMAIN map}
           choices == {pick \in [names -> DOMAIN map] : \A n \in names : Folded(pick[n]) = n}
           L(pick) == [n \in names |-> KVPair(pick[n], map[pick[n]])]
<1>1. PICK pick \in choices : list = L(pick)
  BY Zenon DEF KVLists
<1>2. DOMAIN list = names
  BY <1>1
<1>3. \A n, k : get(list, n) = get(list, k) \/ Folded(n) # Folded(k)
  BY Zenon DEF get
<1>4. \A k : SameName(k, key) <=> Folded(k) = Folded(key)
  BY Zenon DEF SameName, Folded
<1>5. CASE \E k \in DOMAIN map : SameName(k, key)
  <2>1. PICK k \in DOMAIN map : SameName(k, key)
    BY <1>5
  <2>2. PICK j \in DOMAIN map : SameName(j, k) /\ get(list, k) = {map[j]}
    BY ListsHonest DEF ListHonest
  <2>3. Folded(k) = Folded(key) /\ Folded(j) = Folded(k)
    BY <1>4, <2>1, <2>2, Zenon DEF SameName, Folded
  <2>4. SameName(j, key) /\ get(list, key) = {map[j]}
    BY <1>3, <1>4, <2>2, <2>3
  <2> QED
    BY <2>1, <2>4
<1>6. CASE ~\E k \in DOMAIN map : SameName(k, key)
  <2>1. Folded(key) \notin names
    BY <1>4, <1>6
  <2>2. get(list, key) = {}
    BY <1>2, <2>1, Zenon DEF get
  <2> QED
    BY <1>6, <2>2
<1> QED
  BY <1>5, <1>6

\* The places where a name was sent, in whatever case.
SentAs(headers, name) == {i \in DOMAIN headers : SameName(headers[i].name, name)}

\* A value that was sent under that name; the last, if it was spelled alike
\* throughout.
FoundSent(headers, list, name) ==
  LET sent == SentAs(headers, name)
  IN  IF sent = {} THEN get(list, name) = {}
      ELSE /\ \E j \in sent : get(list, name) = {headers[j].value}
           /\ (\A i, j \in sent : headers[i].name = headers[j].name)
                => get(list, name) = {headers[Max(sent)].value}

LEMMA HeadersFound ==
  ASSUME NEW A, NEW hs \in Seq(HeaderOf(A)), NEW list \in KVLists(Assigned(HeaderPairs(hs))), NEW name
  PROVE  FoundSent(hs, list, name)
<1> DEFINE P == HeaderPairs(hs)
           map == Assigned(P)
           sent == SentAs(hs, name)
           at(k) == {i \in DOMAIN P : P[i].key = k}
<1>0. PICK n \in Nat : n = Len(hs)
  BY LenProperties
<1>1. P \in Seq(KeyValues(A)) /\ Len(P) = n /\ \A i \in 1 .. n : P[i] = HeaderPair(hs[i])
  BY <1>0, HeaderPairsAre
<1>2. map = [k \in {P[i].key : i \in DOMAIN P} |-> P[Max(at(k))].value]
  BY Zenon DEF Assigned
<1> HIDE DEF P, map
<1>3. DOMAIN P = 1 .. n /\ DOMAIN hs = 1 .. n
  BY <1>0, <1>1, LenProperties
<1>4. \A i \in 1 .. n : P[i].key = hs[i].name /\ P[i].value = hs[i].value
  BY <1>1 DEF HeaderPair
<1>5. DOMAIN map = {hs[i].name : i \in 1 .. n}
  <2>1. DOMAIN map = {P[i].key : i \in DOMAIN P}
    BY <1>2
  <2> QED
    BY <1>3, <1>4, <2>1
<1>6. \A k \in DOMAIN map : Max(at(k)) \in at(k) /\ map[k] = hs[Max(at(k))].value
  <2> TAKE k \in DOMAIN map
  <2>1. at(k) # {} /\ at(k) \subseteq 1 .. n
    BY <1>3, <1>4, <1>5
  <2>2. map[k] = P[Max(at(k))].value
    BY <1>2
  <2>3. at(k) \subseteq Nat
    BY <2>1
  <2> HIDE DEF at
  <2>4. Max(at(k)) \in at(k)
    BY <2>1, <2>3, Greatest
  <2>5. Max(at(k)) \in 1 .. n
    BY <2>1, <2>4
  <2> QED
    BY <1>4, <2>2, <2>4, <2>5
<1>7. sent = {i \in 1 .. n : SameName(hs[i].name, name)}
  BY <1>3 DEF SentAs
<1>8. CASE sent = {}
  <2>1. ~\E k \in DOMAIN map : SameName(k, name)
    BY <1>5, <1>7, <1>8
  <2>2. get(list, name) = {}
    BY <2>1, ListFinds DEF map, P
  <2> QED
    BY <1>8, <2>2, Zenon DEF FoundSent
<1>9. CASE sent # {}
  <2>1. \E k \in DOMAIN map : SameName(k, name)
    BY <1>5, <1>7, <1>9
  <2>2. PICK k \in DOMAIN map : SameName(k, name) /\ get(list, name) = {map[k]}
    BY <2>1, ListFinds DEF map, P
  <2> DEFINE j == Max(at(k))
  <2>3. j \in at(k) /\ map[k] = hs[j].value
    BY <1>6
  <2>4. j \in 1 .. n /\ hs[j].name = k
    BY <1>3, <1>4, <2>3
  <2>5. j \in sent
    BY <1>7, <2>2, <2>4
  <2>6. ASSUME \A x, y \in sent : hs[x].name = hs[y].name PROVE at(k) = sent
    <3>1. \A x \in sent : hs[x].name = k
      BY <2>4, <2>5, <2>6
    <3>2. \A x \in 1 .. n : x \in at(k) <=> hs[x].name = k
      BY <1>3, <1>4
    <3>3. at(k) \subseteq 1 .. n /\ sent \subseteq 1 .. n
      BY <1>3, <1>7
    <3>4. \A x \in 1 .. n : hs[x].name = k => x \in sent
      BY <1>7, <2>2
    <3> HIDE DEF at, sent
    <3> QED
      BY <3>1, <3>2, <3>3, <3>4
  <2> HIDE DEF sent, at
  <2>7. \E x \in sent : get(list, name) = {hs[x].value}
    BY <2>2, <2>3, <2>5
  <2>8. (\A x, y \in sent : hs[x].name = hs[y].name) => get(list, name) = {hs[Max(sent)].value}
    BY <2>2, <2>3, <2>6
  <2> QED
    BY <1>9, <2>7, <2>8, Zenon DEF FoundSent, sent
<1> QED
  BY <1>8, <1>9

-----------------------------------------------------------------------------
(* The first line of a request.                                            *)

\* The path with its query that the requests ask for.
FullPath == <<"/", "a", "?", "b", "=", "%", "2", "6">>

AskedQuery == <<"b", "=", "%", "2", "6">>

LEMMA FullPathIs == PathOf(FullPath) = <<"/", "a">> /\ QueryOf(FullPath) = AskedQuery
<1> DEFINE A == {"/", "a", "?", "b", "=", "%", "2", "6"}
           d == "?"
           B == A \ {d}
           p == <<"/", "a">>
<1>1. \A c \in {"/", "a", "b", "=", "%", "2", "6"} : c \in A /\ c # d
  BY Zenon
<1>2. d \in A /\ "/" \in B /\ "a" \in B /\ "b" \in A /\ "=" \in A /\ "%" \in A /\ "2" \in A /\ "6" \in A
  BY <1>1, Zenon
<1>3. B = A \ {d}
  OBVIOUS
<1> HIDE DEF A, B, d
<1> DEFINE s == <<"/", "a", d, "b", "=", "%", "2", "6">>
<1>4. split(s, d)[1] = p /\ From(s, 4) = AskedQuery
  <2>1. split(s, d)[1] = <<"/", "a">> /\ From(s, 4) = <<"b", "=", "%", "2", "6">>
    <3>1. PathSplit(s, d, p, <<"b", "=", "%", "2", "6">>)
      BY <1>2, <1>3, PathSplits, Zenon
    <3> QED
      BY <3>1, Zenon DEF PathSplit
  <2> QED
    BY <2>1, Zenon DEF AskedQuery
<1>5. FullPath = s
  BY Zenon DEF FullPath, d
<1> HIDE DEF s
<1>6. PathOf(FullPath) = split(s, d)[1]
  BY <1>5, Zenon DEF PathOf, d
<1>7. Len(p) = 2
  OBVIOUS
<1> HIDE DEF p
<1>8. QueryOf(FullPath) = From(FullPath, 4)
  <2>1. QueryOf(FullPath) = From(FullPath, Len(PathOf(FullPath)) + 2)
    BY Zenon DEF QueryOf
  <2>2. Len(p) + 2 = 4
    BY <1>7
  <2> QED
    BY <1>4, <1>6, <2>1, <2>2, Zenon
<1> QED
  BY <1>4, <1>5, <1>6, <1>8, Zenon DEF p

LEMMA AskedQueryIs ==
  parseQueryString(AskedQuery) = Assigned(<<[key |-> <<"b">>, value |-> <<"&">>]>>)
<1> DEFINE A == {"b", "=", "%", "2", "6"}
           p == [key |-> <<"b">>, value |-> <<"&">>]
           f == <<"b">>
           t == <<"%", "2", "6">>
           q == AskedQuery
           none == <<>>
<1>1. /\ "&" \notin A /\ "=" \in A /\ "b" \in A \ {"="} /\ "%" \in A \ {"="} /\ "2" \in A \ {"="}
      /\ "6" \in A \ {"="}
  <2>1. \A c \in A : c # "&"
    BY Zenon
  <2>2. \A c \in {"b", "%", "2", "6"} : c \in A /\ c # "="
    BY Zenon
  <2> QED
    BY <2>1, <2>2, Zenon
<1>2. "%" \in A /\ "2" \in A /\ "6" \in A /\ "b" \in A /\ "b" # "%" /\ "b" # "+"
  BY <1>1, Zenon
<1> HIDE DEF A
<1>3. NonEmpty(getlines(q, "&")) = <<q>> /\ getlines(q, "=") = <<f, t>>
  BY <1>1, QueryPieces DEF AskedQuery
<1>4. none \in Seq(A) /\ f = <<"b">> \o none /\ t = <<"%", "2", "6">> \o none
  BY <1>2
<1>5. urlDecode(f) = <<"b">>
  <2> HIDE DEF none
  <2>1. DecodesTo(<<"b">> \o none, <<Spoken("b")>>, none)
    BY <1>2, <1>4, DecodeOne
  <2>2. Spoken("b") = "b"
    BY <1>2, Zenon DEF Spoken
  <2>3. urlDecode(none) = none
    BY DecodeNone, Zenon DEF none
  <2>4. urlDecode(<<"b">> \o none) = <<"b">> \o none
    BY <2>1, <2>2, <2>3, Zenon DEF DecodesTo
  <2> QED
    BY <1>4, <2>4, Zenon
<1>6. HexValue("2", "6") = {38}
  <2>1. <<"2", 2>> \in HexDigits /\ <<"6", 6>> \in HexDigits
    BY Zenon DEF HexDigits, Digits
  <2>2. Named(HexDigits, <<"2", 2>>) /\ Named(HexDigits, <<"6", 6>>)
    BY <2>1, HexDigitsNamed, LookupNames
  <2>3. HexDigit["2"] = 2 /\ "2" \in DOMAIN HexDigit /\ HexDigit["6"] = 6 /\ "6" \in DOMAIN HexDigit
    BY <2>2 DEF Named, HexDigit
  <2>4. HexValue("2", "6") = {16 * HexDigit["2"] + HexDigit["6"]}
    BY <2>3, HexPair
  <2> QED
    BY <2>3, <2>4
<1>7. Byte(38) = "&"
  <2>1. "&" \in DOMAIN Code
    BY CodeHas, Zenon
  <2>2. Code["&"] = 38
    <3>1. PICK r \in Codes : r[1] = "&" /\ Code["&"] = r[2]
      BY <2>1, LookupHas DEF Code
    <3>2. PICK blank : blank = " "
      OBVIOUS
    <3>3. r \in {<<blank, 32>>, <<"%", 37>>, <<"&", 38>>, <<"+", 43>>, <<"=", 61>>, <<"A", 65>>, <<"a", 97>>}
      BY <3>1, <3>2, Zenon DEF Codes
    <3>4. blank # "&"
      BY <3>2, Zenon
    <3> HIDE <3>2
    <3> QED
      BY <3>1, <3>3, <3>4
  <2> QED
    BY <2>1, <2>2, ByteOfCode
<1>8. urlDecode(t) = <<"&">>
  <2> HIDE DEF none
  <2>1. DecodesTo(<<"%", "2", "6">> \o none, <<Byte(38)>>, none)
    BY <1>2, <1>4, <1>6, DecodeEscape
  <2>2. urlDecode(none) = none
    BY DecodeNone, Zenon DEF none
  <2>3. urlDecode(t) = <<"&">> \o none
    BY <1>4, <1>7, <2>1, <2>2, Zenon DEF DecodesTo
  <2>4. <<"&">> \o none = <<"&">>
    BY DEF none
  <2> QED
    BY <2>3, <2>4, Zenon
<1>9. PairFrom(<<f, t>>) = p
  <2> HIDE DEF f, t
  <2>1. <<f, t>>[1] = f /\ <<f, t>>[2] = t /\ Len(<<f, t>>) > 1
    OBVIOUS
  <2> QED
    BY <1>5, <1>8, <2>1, Zenon DEF PairFrom
<1>10. parseQueryString(q) = Assigned([i \in DOMAIN <<q>> |-> PairFrom(getlines(<<q>>[i], "="))])
  <2> HIDE DEF q
  <2>1. parseQueryString(q) =
          Assigned([i \in DOMAIN NonEmpty(getlines(q, "&")) |->
                      PairFrom(getlines(NonEmpty(getlines(q, "&"))[i], "="))])
    BY Zenon DEF parseQueryString, PairFrom
  <2> QED
    BY <1>3, <2>1, Zenon
<1>11. [i \in DOMAIN <<q>> |-> PairFrom(getlines(<<q>>[i], "="))] = <<p>>
  <2> DEFINE E(w) == PairFrom(getlines(w, "="))
  <2>1. E(q) = p
    BY <1>3, <1>9, Zenon
  <2> HIDE DEF E, p, q
  <2>2. [i \in DOMAIN <<q>> |-> E(<<q>>[i])] = <<p>>
    BY <2>1
  <2> QED
    BY <2>2 DEF E
<1> QED
  BY <1>10, <1>11, Zenon

-----------------------------------------------------------------------------
(* What parseRequest makes of a request.                                   *)

\* The requests parseRequest can read: it goes by lines, so all it asks of the
\* headers is that a name holds no ':' and nothing holds a line end.
SentRequests(A) ==
  {q \in [kind : {"request"}, method : Methods, headers : Seq(HeaderOf(A)), body : Seq(A)] :
     Announces(q.headers, q.body)}

LEMMA SentParts ==
  ASSUME NEW A, NEW q \in SentRequests(A)
  PROVE  /\ q.method \in Methods /\ q.headers \in Seq(HeaderOf(A)) /\ q.body \in Seq(A)
         /\ Announces(q.headers, q.body)
BY DEF SentRequests

\* What parseRequest finds where in the text of a request.
LEMMA SentText ==
  ASSUME NEW A, RequestAlphabet(A), NEW q \in SentRequests(A)
  PROVE  /\ HeadOf(q) \in Seq(A) /\ Ended(HeadOf(q))
         /\ RequestText(q) \in Seq(A) /\ Headed(RequestText(q), HeadOf(q))
         /\ Len(RequestText(q)) = Len(HeadOf(q)) + 1 + Len(q.body)
         /\ \A j \in 1 .. Len(q.body) : RequestText(q)[Len(HeadOf(q)) + 1 + j] = q.body[j]
<1> DEFINE b == HeadOf(q)
           e == <<CRLF>>
           c == q.body
           g == b \o e
           d == g \o c
<1>1. RequestText(q) = d
  BY RequestTextIs DEF HeadOf
<1>2. CRLF \in A /\ Colon \in A /\ Blank \in A
  BY AlphabetHas
<1>3. b \in Seq(A) /\ Ended(b)
  <2>1. q.method \in Methods /\ q.headers \in Seq(HeaderOf(A))
    BY SentParts
  <2>2. FirstLine(q.method) \in Seq(A) /\ Ended(FirstLine(q.method))
    BY <2>1, FirstIs
  <2> QED
    BY <1>2, <2>1, <2>2, BlockEnded DEF HeadOf
<1>4. e \in Seq(A) /\ Len(e) = 1 /\ e[1] = CRLF
  BY <1>2, LineEndUnmarked
<1>5. c \in Seq(A)
  BY SentParts
<1> HIDE DEF b, e, c
<1>6. g \in Seq(A) /\ Joins(g, b, e)
  BY <1>3, <1>4, JoinsConcat
<1> HIDE DEF g
<1>7. d \in Seq(A) /\ Joins(d, g, c)
  BY <1>5, <1>6, JoinsConcat
<1> HIDE DEF d
<1>8. PICK m \in Nat, n \in Nat : m = Len(b) /\ n = Len(c)
  BY <1>3, <1>5, LenProperties
<1>9. Len(g) = m + 1 /\ (\A i \in 1 .. m : g[i] = b[i]) /\ g[m + 1] = CRLF
  BY <1>4, <1>6, <1>8 DEF Joins
<1>10. /\ Len(d) = m + 1 + n /\ (\A i \in 1 .. m + 1 : d[i] = g[i])
       /\ \A j \in 1 .. n : d[m + 1 + j] = c[j]
  BY <1>7, <1>8, <1>9 DEF Joins
<1>11. (\A i \in 1 .. m : d[i] = b[i]) /\ d[m + 1] = CRLF
  <2>1. m + 1 \in 1 .. m + 1 /\ \A i \in 1 .. m : i \in 1 .. m + 1
    OBVIOUS
  <2> QED
    BY <1>9, <1>10, <2>1
<1>12. Headed(d, b)
  <2>1. m + 1 <= m + 1 + n
    OBVIOUS
  <2> QED
    BY <1>8, <1>10, <1>11, <2>1 DEF Headed
<1>13. Len(d) = Len(b) + 1 + Len(c) /\ \A j \in 1 .. Len(c) : d[Len(b) + 1 + j] = c[j]
  BY <1>8, <1>10
<1> QED
  BY <1>1, <1>3, <1>7, <1>12, <1>13 DEF b, c

\* The last value a key was sent with.
LEMMA AssignedIs ==
  ASSUME NEW A, NEW hs \in Seq(HeaderOf(A)), NEW k
  PROVE  IF \E i \in DOMAIN hs : hs[i].name = k
         THEN /\ k \in DOMAIN Assigned(HeaderPairs(hs))
              /\ \E i \in DOMAIN hs : hs[i].name = k /\ Assigned(HeaderPairs(hs))[k] = hs[i].value
         ELSE k \notin DOMAIN Assigned(HeaderPairs(hs))
<1> DEFINE P == HeaderPairs(hs)
           map == Assigned(P)
           at(x) == {i \in DOMAIN P : P[i].key = x}
<1>0. PICK n \in Nat : n = Len(hs)
  BY LenProperties
<1>1. P \in Seq(KeyValues(A)) /\ Len(P) = n /\ \A i \in 1 .. n : P[i] = HeaderPair(hs[i])
  BY <1>0, HeaderPairsAre
<1>2. map = [x \in {P[i].key : i \in DOMAIN P} |-> P[Max(at(x))].value]
  BY Zenon DEF Assigned
<1> HIDE DEF P, map
<1>3. DOMAIN P = 1 .. n /\ DOMAIN hs = 1 .. n
  BY <1>0, <1>1, LenProperties
<1>4. \A i \in 1 .. n : P[i].key = hs[i].name /\ P[i].value = hs[i].value
  BY <1>1 DEF HeaderPair
<1>5. DOMAIN map = {hs[i].name : i \in 1 .. n}
  <2>1. DOMAIN map = {P[i].key : i \in DOMAIN P}
    BY <1>2
  <2> QED
    BY <1>3, <1>4, <2>1
<1>6. CASE k \in DOMAIN map
  <2>1. at(k) # {} /\ at(k) \subseteq 1 .. n
    BY <1>3, <1>4, <1>5, <1>6
  <2>2. map[k] = P[Max(at(k))].value
    BY <1>2, <1>6
  <2>3. at(k) \subseteq Nat /\ \A x \in at(k) : P[x].key = k
    BY <2>1
  <2> HIDE DEF at
  <2>4. Max(at(k)) \in at(k)
    BY <2>1, <2>3, Greatest
  <2>5. Max(at(k)) \in 1 .. n /\ P[Max(at(k))].key = k
    BY <2>1, <2>3, <2>4
  <2>6. \E i \in DOMAIN hs : hs[i].name = k /\ map[k] = hs[i].value
    BY <1>3, <1>4, <2>2, <2>5
  <2> QED
    BY <1>6, <2>6 DEF map, P
<1>7. CASE k \notin DOMAIN map
  <2>1. ~\E i \in DOMAIN hs : hs[i].name = k
    BY <1>3, <1>5, <1>7
  <2> QED
    BY <1>7, <2>1 DEF map, P
<1> QED
  BY <1>6, <1>7

\* The body's length, as parseRequest reads it.
LengthRead(map) == IF <<"Content-Length">> \in DOMAIN map THEN stoul(map[<<"Content-Length">>]) ELSE {0}

LEMMA LengthMapped ==
  ASSUME NEW A, NEW q \in SentRequests(A)
  PROVE  LengthRead(Assigned(HeaderPairs(q.headers))) = {Len(q.body)} /\ Len(q.body) \in Nat
<1> DEFINE hs == q.headers
           map == Assigned(HeaderPairs(hs))
           k == <<"Content-Length">>
           n == Len(q.body)
<1>1. hs \in Seq(HeaderOf(A)) /\ q.body \in Seq(A) /\ Announces(hs, q.body)
  BY SentParts
<1>2. n \in Nat
  BY <1>1, LenProperties
<1>3. /\ \A i \in DOMAIN hs : hs[i].name = k => hs[i].value = to_string(n)
      /\ q.body # <<>> => \E i \in DOMAIN hs : hs[i].name = k
  BY <1>1 DEF Announces
<1>4. LengthRead(map) = IF k \in DOMAIN map THEN stoul(map[k]) ELSE {0}
  BY Zenon DEF LengthRead
<1> HIDE DEF k
<1>5. IF \E i \in DOMAIN hs : hs[i].name = k
      THEN k \in DOMAIN map /\ \E i \in DOMAIN hs : hs[i].name = k /\ map[k] = hs[i].value
      ELSE k \notin DOMAIN map
  BY <1>1, AssignedIs
<1> HIDE DEF map
<1>6. CASE \E i \in DOMAIN hs : hs[i].name = k
  <2>1. k \in DOMAIN map /\ map[k] = to_string(n)
    BY <1>3, <1>5, <1>6
  <2>2. stoul(to_string(n)) = {n}
    BY <1>2, NumbersReadBack DEF Numeral
  <2> QED
    BY <1>2, <1>4, <2>1, <2>2 DEF map
<1>7. CASE ~\E i \in DOMAIN hs : hs[i].name = k
  <2>1. q.body = <<>> /\ k \notin DOMAIN map
    BY <1>3, <1>5, <1>7
  <2>2. n = 0
    BY <2>1
  <2> QED
    BY <1>2, <1>4, <2>1, <2>2 DEF map
<1> QED
  BY <1>6, <1>7

\* The pieces of parseRequest.
BodyRead(data, n) ==
  LET bodyStart == find(data, <<CRLF, CRLF>>, 1) + 2
  IN  IF bodyStart > 2 /\ bodyStart + n - 1 <= Len(data) THEN SubSeq(data, bodyStart, bodyStart + n - 1) ELSE <<>>

FirstRead(data) == getlines(split(data, CRLF)[1], " ")

MapRead(data) == HeaderMap(Tail(split(data, CRLF)))

Parsed(data, method, fullPath) ==
  {MakeRequest(method, PathOf(fullPath), BodyRead(data, c.length), c.headers, c.query) :
     c \in [length : LengthRead(MapRead(data)), headers : KVLists(MapRead(data)),
            query : KVLists(parseQueryString(QueryOf(fullPath)))]}

LEMMA ParseIs ==
  ASSUME NEW data
  PROVE  LET first == FirstRead(data)
             method == parseRequestMethod(first[1])
         IN  parseRequest(data) =
               IF Len(first) # 3 \/ method = "UNKNOWN" \/ LengthRead(MapRead(data)) = {} THEN {Invalid}
               ELSE Parsed(data, method, first[2])
BY Zenon DEF parseRequest, FirstRead, MapRead, LengthRead, BodyRead, Parsed

LEMMA MethodRead ==
  ASSUME NEW method \in Methods
  PROVE  parseRequestMethod(<<method>>) = method /\ method # "UNKNOWN"
<1>1. \E m \in Methods : <<method>> = <<m>>
  OBVIOUS
<1>2. <<method>>[1] = method
  OBVIOUS
<1>3. method # "UNKNOWN"
  BY Zenon DEF Methods
<1> QED
  BY <1>1, <1>2, <1>3, Zenon DEF parseRequestMethod

\* The three pieces of the first line.
LEMMA FirstPieces ==
  ASSUME NEW A, RequestAlphabet(A), NEW method \in Methods
  PROVE  LET first == <<method, Blank, "/", "a", "?", "b", "=", "%", "2", "6", Blank, "HTTP/1.1">>
         IN  /\ first \in Seq(A \ {CRLF}) /\ FirstLine(method) = first \o <<CRLF>>
             /\ getlines(first, Blank) = << <<method>>, FullPath, <<"HTTP/1.1">> >>
<1> DEFINE first == <<method, Blank, "/", "a", "?", "b", "=", "%", "2", "6", Blank, "HTTP/1.1">>
           C == A \ {CRLF}
           B == C \ {Blank}
           f == <<method>>
           e == <<"HTTP/1.1">>
<1>1. method # CRLF /\ method # Blank
  BY Zenon DEF Methods, CRLF, Blank
<1>2. \A c \in {"/", "a", "?", "b", "=", "%", "2", "6", "HTTP/1.1"} : c # CRLF /\ c # Blank
  BY Zenon DEF CRLF, Blank
<1>3. CRLF \in A /\ method \in A /\ Blank \in C
  BY AlphabetHas, SeparatorsDiffer
<1>4. \A c \in {"/", "a", "?", "b", "=", "%", "2", "6", "HTTP/1.1"} : c \in A
  BY AlphabetHas
<1>5. \A c \in A : c # CRLF /\ c # Blank => c \in B
  OBVIOUS
<1>6. method \in B
  BY <1>1, <1>3
<1>7. B = C \ {Blank}
  OBVIOUS
<1> HIDE DEF B
<1>8. \A c \in {"/", "a", "?", "b", "=", "%", "2", "6", "HTTP/1.1"} : c \in B
  BY <1>2, <1>4, <1>5, Zenon
<1>9. /\ "/" \in B /\ "a" \in B /\ "?" \in B /\ "b" \in B /\ "=" \in B /\ "%" \in B /\ "2" \in B
      /\ "6" \in B /\ "HTTP/1.1" \in B
  BY <1>8, Zenon
<1> HIDE DEF C
<1>10. first \in Seq(C) /\ LinesAre(first, Blank, <<f, <<"/", "a", "?", "b", "=", "%", "2", "6">> >>, e)
  BY <1>3, <1>6, <1>7, <1>9, LineSplits, Zenon
<1>11. getlines(first, Blank) = <<f, FullPath, e>>
  <2> DEFINE p == FullPath
  <2>1. LinesAre(first, Blank, <<f, p>>, e)
    BY <1>10, Zenon DEF FullPath
  <2>2. e # <<>>
    OBVIOUS
  <2> HIDE DEF f, e, p, first
  <2>3. Append(<<f, p>>, e) = <<f, p, e>>
    <3> DEFINE S == {f, p, e}
    <3>1. f \in S /\ p \in S /\ e \in S
      BY Zenon
    <3> HIDE DEF S
    <3> QED
      BY <3>1, AppendsThird, Zenon
  <2> QED
    BY <2>1, <2>2, <2>3, Zenon DEF LinesAre, p
<1>12. FirstLine(method) = first \o <<CRLF>>
  <2> DEFINE s == <<method, Blank, "/", "a", "?", "b", "=", "%", "2", "6", Blank, "HTTP/1.1", CRLF>>
  <2>1. FirstLine(method) = s
    BY Zenon DEF FirstLine, Blank
  <2>2. s \in Seq(A) /\ first \in Seq(A) /\ <<CRLF>> \in Seq(A)
    BY <1>3, <1>4 DEF C
  <2>3. Len(s) = 13 /\ Len(first) = 12 /\ s[13] = CRLF
    OBVIOUS
  <2>4. \A i \in 1 .. 12 : s[i] = first[i]
    OBVIOUS
  <2> HIDE DEF s, first
  <2>5. s = Append(first, CRLF)
    <3>1. Len(s) = Len(first) + 1 /\ s[Len(first) + 1] = CRLF /\ \A k \in 1 .. Len(first) : s[k] = first[k]
      BY <2>3, <2>4
    <3> QED
      BY <1>3, <2>2, <3>1, Extends
  <2>6. Append(first, CRLF) = first \o <<CRLF>>
    BY <1>3, <2>2, AppendIsConcat
  <2> QED
    BY <2>1, <2>5, <2>6
<1> QED
  BY <1>10, <1>11, <1>12, Zenon DEF C, f, e, first

\* The pairs of the query the requests ask with.
AskedPairs == <<[key |-> <<"b">>, value |-> <<"&">>]>>

\* What parseRequest may return: what was sent, with either spelling of a name
\* that was sent in two.
ParsedAs(q, r) ==
  \E h \in KVLists(Assigned(HeaderPairs(q.headers))), p \in KVLists(Assigned(AskedPairs)) :
    r = MakeRequest(q.method, <<"/", "a">>, q.body, h, p)

LEMMA RequestParses ==
  ASSUME NEW A, RequestAlphabet(A), NEW q \in SentRequests(A), NEW r \in parseRequest(RequestText(q))
  PROVE  ParsedAs(q, r)
<1> DEFINE d == RequestText(q)
           first == <<q.method, Blank, "/", "a", "?", "b", "=", "%", "2", "6", Blank, "HTTP/1.1">>
           map == Assigned(HeaderPairs(q.headers))
           p3 == << <<q.method>>, FullPath, <<"HTTP/1.1">> >>
           n == Len(q.body)
<1>1. q.method \in Methods /\ q.headers \in Seq(HeaderOf(A)) /\ q.body \in Seq(A)
  BY SentParts
<1>2. CRLF \in A /\ Colon \in A /\ Blank \in A
  BY AlphabetHas
<1>3. first \in Seq(A \ {CRLF}) /\ FirstLine(q.method) = first \o <<CRLF>> /\ getlines(first, Blank) = p3
  BY <1>1, FirstPieces, Zenon
<1> HIDE DEF first
<1>4. d = (Block(first \o <<CRLF>>, q.headers) \o <<CRLF>>) \o q.body
  BY <1>3, RequestTextIs, Zenon
<1> HIDE DEF d
<1>5. split(d, CRLF)[1] = first /\ UpToBlank(Tail(split(d, CRLF))) = Writtens(q.headers)
  <2> DEFINE hs == q.headers
             c == q.body
             x == (Block(first \o <<CRLF>>, hs) \o <<CRLF>>) \o c
  <2>1. hs \in Seq(HeaderOf(A)) /\ c \in Seq(A)
    BY <1>1
  <2> HIDE DEF hs, c
  <2>2. split(x, CRLF)[1] = first /\ UpToBlank(Tail(split(x, CRLF))) = Writtens(hs)
    BY <1>2, <1>3, <2>1, HeadLines
  <2>3. d = x
    BY <1>4, Zenon DEF hs, c
  <2> HIDE DEF x
  <2> QED
    BY <2>2, <2>3 DEF hs
<1>6. FirstRead(d) = p3
  BY <1>3, <1>5, Zenon DEF FirstRead, Blank
<1>7. MapRead(d) = map
  BY <1>1, <1>2, <1>5, HeadersMapped DEF MapRead
<1>8. LengthRead(map) = {n} /\ n \in Nat
  BY LengthMapped
<1>9. Len(p3) = 3 /\ p3[1] = <<q.method>> /\ p3[2] = FullPath
  OBVIOUS
<1>10. parseRequestMethod(<<q.method>>) = q.method /\ q.method # "UNKNOWN"
  BY <1>1, MethodRead
<1> HIDE DEF p3, map, n
<1>11. parseRequest(d) = Parsed(d, q.method, FullPath)
  <2>1. {n} # {}
    OBVIOUS
  <2>2. ~(Len(FirstRead(d)) # 3 \/ parseRequestMethod(FirstRead(d)[1]) = "UNKNOWN" \/ LengthRead(MapRead(d)) = {})
    BY <1>6, <1>7, <1>8, <1>9, <1>10, <2>1
  <2> QED
    BY <1>6, <1>9, <1>10, <2>2, ParseIs, Zenon
<1>12. r \in Parsed(d, q.method, FullPath)
  BY <1>11 DEF d
<1>13. PICK m \in LengthRead(MapRead(d)), h \in KVLists(MapRead(d)),
            p \in KVLists(parseQueryString(QueryOf(FullPath))) :
         r = MakeRequest(q.method, PathOf(FullPath), BodyRead(d, m), h, p)
  <2> DEFINE N == LengthRead(MapRead(d))
             H == KVLists(MapRead(d))
             Q == KVLists(parseQueryString(QueryOf(FullPath)))
  <2>1. PICK c \in [length : N, headers : H, query : Q] :
          r = MakeRequest(q.method, PathOf(FullPath), BodyRead(d, c.length), c.headers, c.query)
    BY <1>12, Zenon DEF Parsed
  <2> HIDE DEF N, H, Q
  <2>2. c.length \in N /\ c.headers \in H /\ c.query \in Q
    OBVIOUS
  <2> QED
    BY <2>1, <2>2, Zenon DEF N, H, Q
<1>14. m = n /\ h \in KVLists(map) /\ p \in KVLists(Assigned(AskedPairs))
  <2>1. m \in {n}
    BY <1>7, <1>8, <1>13
  <2>2. h \in KVLists(map)
    BY <1>7, <1>13
  <2>3. p \in KVLists(Assigned(AskedPairs))
    BY <1>13, FullPathIs, AskedQueryIs, Zenon DEF AskedPairs
  <2> QED
    BY <2>1, <2>2, <2>3
<1>15. BodyRead(d, n) = q.body
  <2> DEFINE b == HeadOf(q)
             c == q.body
  <2>1. /\ b \in Seq(A) /\ Ended(b) /\ d \in Seq(A) /\ Headed(d, b) /\ Len(d) = Len(b) + 1 + Len(c)
        /\ \A j \in 1 .. Len(c) : d[Len(b) + 1 + j] = c[j]
    BY SentText DEF d
  <2>2. PICK l \in Nat : l = Len(b)
    BY <2>1, LenProperties
  <2>3. c \in Seq(A) /\ Len(c) = n /\ n \in Nat
    BY <1>1, <1>8 DEF n
  <2>4. l # 0
    BY <2>1, <2>2 DEF Ended
  <2>5. find(d, <<CRLF, CRLF>>, 1) = l
    BY <1>2, <2>1, <2>2, EndFound DEF HeadEnd
  <2> HIDE DEF b, c
  <2>6. BodyRead(d, n) = IF l + 2 > 2 /\ (l + 2) + n - 1 <= Len(d) THEN SubSeq(d, l + 2, (l + 2) + n - 1) ELSE <<>>
    BY <2>5, Zenon DEF BodyRead
  <2> DEFINE i == l + 2
             j == (l + 2) + n - 1
             x == SubSeq(d, i, j)
  <2>7. l + 2 > 2 /\ j <= Len(d) /\ i \in 1 .. Len(d) + 1 /\ j \in i - 1 .. Len(d) /\ j - i + 1 = n
    BY <2>1, <2>2, <2>3, <2>4
  <2>8. BodyRead(d, n) = x
    BY <2>6, <2>7
  <2> HIDE DEF j
  <2>9. \A k \in 1 .. n : i + k - 1 = l + 1 + k
    OBVIOUS
  <2> HIDE DEF i
  <2>10. x \in Seq(A) /\ Len(x) = j - i + 1 /\ \A k \in 1 .. j - i + 1 : x[k] = d[i + k - 1]
    BY <2>1, <2>7, SubSeqProperties
  <2> HIDE DEF x
  <2>11. Len(x) = Len(c) /\ \A k \in 1 .. Len(x) : x[k] = c[k]
    BY <2>1, <2>2, <2>3, <2>7, <2>9, <2>10
  <2>12. x = c
    BY <2>3, <2>10, <2>11, SeqEqual
  <2> QED
    BY <2>8, <2>12 DEF c
<1>16. r = MakeRequest(q.method, <<"/", "a">>, q.body, h, p)
  BY <1>13, <1>14, <1>15, FullPathIs, Zenon
<1> QED
  BY <1>14, <1>16, Zenon DEF ParsedAs, map

-----------------------------------------------------------------------------
(* Cookies: the pieces of the header.                                      *)

Semi == ";"

LEMMA SignsDiffer == Semi # Equals /\ Semi # Blank /\ Equals # Blank
BY Zenon DEF Semi, Equals, Blank

Items(A) == Seq(A \ {Semi}) \ {<<>>}

LEMMA PiecesLed == ASSUME NEW A, Blank \in A PROVE \A t \in Items(A) : <<Blank>> \o t \in Items(A)
<1> DEFINE B == A \ {Semi}
<1>1. Blank \in B
  BY SignsDiffer
<1> HIDE DEF B
<1>2. ASSUME NEW t \in Seq(B) PROVE <<Blank>> \o t \in Seq(B) \ {<<>>}
  <2>1. <<Blank>> \in Seq(B) /\ Len(<<Blank>>) = 1
    BY <1>1, One
  <2> DEFINE b == <<Blank>>
             u == b \o t
  <2>2. b \in Seq(B) /\ Len(b) = 1
    BY <2>1
  <2> HIDE DEF b
  <2>3. u \in Seq(B) /\ Len(u) = Len(b) + Len(t)
    BY <2>2, ConcatProperties
  <2> HIDE DEF u
  <2>4. u # <<>>
    BY <2>2, <2>3
  <2> QED
    BY <2>3, <2>4 DEF u, b
<1> QED
  BY <1>2 DEF Items, B

LEMMA ItemsSplit ==
  ASSUME NEW A, Semi \in A, Blank \in A, NEW P \in Seq(Items(A)), P # <<>>
  PROVE  LedItems(P) \in Seq(Items(A)) /\ SplitsInto(Joined(P, <<Semi, Blank>>), Semi, LedItems(P))
<1> DEFINE d == Semi
           b == <<d, Blank>>
           W == Items(A)
           Good(Q) == LedItems(Q) \in Seq(W) /\ split(Joined(Q, b), d) = LedItems(Q)
           T == {Q \in Seq(W) : Q # <<>> => Good(Q)}
<1>1. /\ b \in Seq(A) /\ W \subseteq Seq(A) /\ W \subseteq Seq(A \ {d}) /\ <<>> \notin W
      /\ \A t \in W : <<Blank>> \o t \in W
  <2>1. Seq(A \ {d}) \subseteq Seq(A)
    BY SeqMonotonic
  <2> QED
    BY <2>1, PiecesLed DEF Items
<1>2. \A e \in W : b \o e = <<d>> \o (<<Blank>> \o e) /\ <<Blank>> \o e \in Seq(A \ {d})
  <2> TAKE e \in W
  <2> DEFINE s == <<d>>
             t == <<Blank>>
  <2>1. s \in Seq(A) /\ t \in Seq(A) /\ e \in Seq(A)
    BY <1>1
  <2>4. s \o t = b
    <3>1. Append(s, Blank) = b
      BY Both
    <3>2. Append(s, Blank) = s \o t
      BY <2>1, AppendIsConcat
    <3> QED
      BY <3>1, <3>2
  <2> HIDE DEF s, t, b
  <2>2. Associate(s, t, e)
    BY <2>1, Associates
  <2>3. b \o e = s \o (t \o e)
    BY <2>2, <2>4, Zenon DEF Associate
  <2> QED
    BY <1>1, <2>3 DEF s, t
<1>3. <<>> \in T
  BY EmptySeq
<1> HIDE DEF W, d
<1>4. ASSUME NEW Q \in Seq(W), NEW e \in W, Q \in T PROVE Append(Q, e) \in T
  <2> HIDE DEF b
  <2>1. Q \in Seq(Seq(A)) /\ e \in Seq(A) /\ e \in Seq(A \ {d})
    BY <1>1, SeqMonotonic
  <2>2. Joined(Q, b) \in Seq(A) /\ Joined(Append(Q, e), b) = Joined(Q, b) \o More(Q, e, b)
    BY <1>1, <2>1, JoinedAppend
  <2>3. /\ LedItems(Q) \in Seq(W) /\ LedItems(Append(Q, e)) \in Seq(W)
        /\ LedItems(Append(Q, e)) = Append(LedItems(Q), LedMore(Q, e))
    BY <1>1, LedAppend, Zenon
  <2>4. split(Joined(Append(Q, e), b), d) = LedItems(Append(Q, e))
    <3>1. CASE Q = <<>>
      <4>1. Joined(Append(Q, e), b) = e
        <5>1. More(Q, e, b) = e /\ Joined(Q, b) = <<>>
          BY <3>1, JoinedNone DEF More
        <5> QED
          BY <2>1, <2>2, <5>1, ConcatEmptySeq
      <4>2. EndsIn(e, d, Q, e)
        BY <2>1, <3>1, SplitOnce
      <4>3. LedItems(Q) = Q
        BY <3>1 DEF LedItems
      <4> QED
        BY <2>3, <3>1, <4>1, <4>2, <4>3, Zenon DEF EndsIn, LedMore
    <3>2. CASE Q # <<>>
      <4>1. split(Joined(Q, b), d) = LedItems(Q)
        BY <1>4, <3>2
      <4> DEFINE j == Joined(Q, b)
                 x == <<Blank>> \o e
      <4>2. x \in Seq(A \ {d}) /\ b \o e = <<d>> \o x
        BY <1>2
      <4> HIDE DEF x
      <4>3. Joined(Append(Q, e), b) = j \o (<<d>> \o x)
        BY <2>2, <3>2, <4>2, Zenon DEF More
      <4>4. j \in Seq(A) /\ d \in A
        BY <2>2 DEF d
      <4> HIDE DEF j
      <4>5. split(j \o (<<d>> \o x), d) = Append(split(j, d), x)
        BY <4>2, <4>4, SplitMore
      <4> QED
        BY <2>3, <3>2, <4>1, <4>3, <4>5, Zenon DEF j, x, LedMore
    <3> QED
      BY <3>1, <3>2
  <2>5. Append(Q, e) \in Seq(W)
    BY AppendProperties
  <2> QED
    BY <2>3, <2>4, <2>5
<1> HIDE DEF T, b, Good
<1>5. P \in T
  BY <1>3, <1>4, SeqInduct DEF W
<1> QED
  BY <1>5 DEF T, Good, W, b, d, SplitsInto

\* Reading with getline leaves them as they are.
LEMMA ItemsRead ==
  ASSUME NEW A, Semi \in A, Blank \in A, NEW P \in Seq(Items(A)), P # <<>>
  PROVE  getlines(Joined(P, <<Semi, Blank>>), Semi) = LedItems(P)
<1> DEFINE g == LedItems(P)
           W == Items(A)
           s == Joined(P, <<Semi, Blank>>)
<1>1. g \in Seq(W) /\ split(s, Semi) = g
  BY ItemsSplit DEF SplitsInto
<1>2. <<>> \notin W
  BY DEF Items
<1>3. DOMAIN g = DOMAIN P
  BY DEF LedItems
<1>4. PICK n \in Nat \ {0} : Len(P) = n /\ DOMAIN P = 1 .. n
  <2>1. Len(P) \in Nat /\ DOMAIN P = 1 .. Len(P) /\ Len(P) # 0
    BY LenProperties, EmptySeq
  <2> QED
    BY <2>1
<1> HIDE DEF g, W, s
<1>5. Len(g) = n
  BY <1>1, <1>3, <1>4, LenProperties
<1>6. g[n] \in W
  BY <1>1, <1>5, ElementOfSeq
<1>7. Last(g) # <<>>
  BY <1>2, <1>5, <1>6 DEF Last
<1>8. getlines(s, Semi) = IF Last(g) = <<>> THEN Front(g) ELSE g
  BY <1>1, Zenon DEF getlines
<1> QED
  BY <1>7, <1>8 DEF g, s

\* One cookie, with no blank around its name or its value, and what reading its
\* piece does to the list.
CookieOf(A) ==
  {c \in [key : Seq(A \ {Semi, Equals}), value : Seq(A \ {Semi})] :
     trim(c.key) = c.key /\ trim(c.value) = c.value}

ItemText(c) == c.key \o <<"=">> \o c.value

CookieAdded(list, item) ==
  LET sep == find(item, <<"=">>, 1)
  IN  IF sep = 0 THEN list ELSE set(list, trim(SubSeq(item, 1, sep - 1)), trim(From(item, sep + 1)))

LEMMA CookieParts ==
  ASSUME NEW A, NEW c \in CookieOf(A)
  PROVE  /\ c.key \in Seq((A \ {Semi}) \ {Equals}) /\ c.value \in Seq(A \ {Semi})
         /\ trim(c.key) = c.key /\ trim(c.value) = c.value
<1>1. A \ {Semi, Equals} = (A \ {Semi}) \ {Equals}
  OBVIOUS
<1> QED
  BY <1>1 DEF CookieOf

LEMMA ItemType ==
  ASSUME NEW A, Equals \in A, NEW c \in CookieOf(A)
  PROVE  ItemText(c) \in Items(A)
<1> DEFINE B == A \ {Semi}
           k == c.key
           v == c.value
           e == <<Equals>>
<1>1. k \in Seq(B) /\ v \in Seq(B)
  <2>1. Seq(B \ {Equals}) \subseteq Seq(B)
    BY SeqMonotonic
  <2> QED
    BY <2>1, CookieParts
<1>2. Equals \in B
  BY SignsDiffer
<1> HIDE DEF B, k, v
<1>3. e \in Seq(B) /\ Len(e) = 1
  BY <1>2, One
<1> HIDE DEF e
<1>4. k \o e \o v \in Seq(B) /\ k \o e \o v # <<>>
  BY <1>1, <1>3, Between
<1> QED
  BY <1>4 DEF k, e, v, ItemText, Items, B, Equals

LEMMA ItemAdded ==
  ASSUME NEW A, Equals \in A, Blank \in A, NEW c \in CookieOf(A), NEW list, NEW i
  PROVE  CookieAdded(list, Led(i, ItemText(c))) = set(list, c.key, c.value)
<1> DEFINE B == A \ {Semi}
           k == c.key
           v == c.value
           e == <<Equals>>
           C == B \ {Equals}
           x == IF i = 1 THEN k ELSE <<Blank>> \o k
           y == e \o v
           s == x \o y
           t == Led(i, ItemText(c))
<1>1. k \in Seq(C) /\ v \in Seq(B) /\ trim(k) = k /\ trim(v) = v
  BY CookieParts
<1>2. Equals \in B /\ Blank \in C /\ Blank \in Blanks /\ C = B \ {Equals}
  BY SignsDiffer, Zenon DEF Blanks, Blank
<1> HIDE DEF B, C, k, v
<1>3. x \in Seq(C) /\ trim(x) = k
  <2> DEFINE b == <<Blank>>
  <2>1. b \in Seq(C)
    BY <1>2, One
  <2>2. trim(b \o k) = trim(k)
    BY <1>1, <1>2, TrimLed
  <2> HIDE DEF b
  <2>3. b \o k \in Seq(C)
    BY <1>1, <2>1, ConcatProperties
  <2> QED
    BY <1>1, <2>2, <2>3 DEF b
<1>4. t = s
  <2> DEFINE b == <<Blank>>
             d == k \o e
  <2>1. b \in Seq(B) /\ e \in Seq(B) /\ k \in Seq(B) /\ v \in Seq(B) /\ x \in Seq(B)
    <3>1. C \subseteq B
      BY <1>2
    <3>2. Seq(C) \subseteq Seq(B)
      BY <3>1, SeqMonotonic
    <3>3. b \in Seq(B) /\ e \in Seq(B)
      BY <1>2, <3>1, One
    <3> HIDE DEF b, e, x
    <3> QED
      BY <1>1, <1>3, <3>2, <3>3
  <2>2. ItemText(c) = d \o v
    BY DEF ItemText, k, v, Equals
  <2> HIDE DEF b, e
  <2>3. d \in Seq(B)
    BY <2>1, ConcatProperties
  <2>4. Associate(k, e, v) /\ Associate(b, k, y)
    <3>1. y \in Seq(B)
      BY <2>1, ConcatProperties
    <3> HIDE DEF y
    <3>2. Associate(b, k, y)
      BY <2>1, <3>1, Associates
    <3>3. Associate(k, e, v)
      BY <2>1, Associates
    <3> QED
      BY <3>2, <3>3 DEF y
  <2>5. d \o v = k \o y /\ (b \o k) \o y = b \o (k \o y)
    BY <2>4, Zenon DEF Associate
  <2> HIDE DEF d, y
  <2>6. CASE i = 1
    BY <2>2, <2>5, <2>6 DEF Led
  <2>7. CASE i # 1
    BY <2>2, <2>5, <2>7 DEF Led, b
  <2> QED
    BY <2>6, <2>7
<1> HIDE DEF t
<1>5. x \in Seq(B \ {Equals})
  BY <1>2, <1>3
<1> HIDE DEF x
<1> DEFINE p == find(s, <<Equals>>, 1)
<1>6. p # 0 /\ SubSeq(s, 1, p - 1) = x /\ From(s, p + 1) = v
  <2>1. Divides(s, Equals, x, v)
    BY <1>1, <1>2, <1>5, SignDivides, Zenon
  <2> HIDE DEF s
  <2> QED
    BY <2>1, Zenon DEF Divides
<1> HIDE DEF s, p
<1>7. CookieAdded(list, s) = IF p = 0 THEN list ELSE set(list, trim(SubSeq(s, 1, p - 1)), trim(From(s, p + 1)))
  BY Zenon DEF CookieAdded, p, Equals
<1>8. CookieAdded(list, s) = set(list, k, v)
  BY <1>1, <1>3, <1>6, <1>7
<1> QED
  BY <1>4, <1>8 DEF t, k, v

-----------------------------------------------------------------------------
(* Cookies: the list they make.                                            *)

\* f is the recursive function inside FoldLeft, for the sets below n.
Gathers(f, n, t) ==
  f = [s \in SUBSET (1 .. n) |-> IF s = {} THEN NoPairs ELSE CookieAdded(f[s \ {Max(s)}], t[Max(s)])]

GathersEach(f, n, t) ==
  \A s \in SUBSET (1 .. n) : f[s] = IF s = {} THEN NoPairs ELSE CookieAdded(f[s \ {Max(s)}], t[Max(s)])

LEMMA GathersAt == ASSUME NEW f, NEW n, NEW t, Gathers(f, n, t) PROVE GathersEach(f, n, t)
<1> DEFINE g == [s \in SUBSET (1 .. n) |-> IF s = {} THEN NoPairs ELSE CookieAdded(f[s \ {Max(s)}], t[Max(s)])]
<1>1. f = g
  BY DEF Gathers
<1> QED
  BY <1>1, Zenon DEF GathersEach

LEMMA GathersGrow ==
  ASSUME NEW f, NEW n \in Nat, NEW t, Gathers(f, n, t)
  PROVE  \E g : Gathers(g, n + 1, t)
<1> DEFINE F(s, earlier) == IF s = {} THEN NoPairs ELSE CookieAdded(earlier, t[Max(s)])
           g == [s \in SUBSET (1 .. n + 1) |-> F(s, f[s \ {Max(s)}])]
<1>1. \A s \in SUBSET (1 .. n) : g[s] = f[s]
  <2> TAKE s \in SUBSET (1 .. n)
  <2>1. f[s] = F(s, f[s \ {Max(s)}])
    <3>1. GathersEach(f, n, t)
      BY GathersAt
    <3> QED
      BY <3>1, Zenon DEF GathersEach
  <2>2. s \in SUBSET (1 .. n + 1)
    OBVIOUS
  <2> HIDE DEF F
  <2>3. g[s] = F(s, f[s \ {Max(s)}])
    BY <2>2
  <2> HIDE DEF g
  <2> QED
    BY <2>1, <2>3
<1>2. \A s \in SUBSET (1 .. n + 1) : F(s, f[s \ {Max(s)}]) = F(s, g[s \ {Max(s)}])
  <2> TAKE s \in SUBSET (1 .. n + 1)
  <2>1. CASE s = {}
    BY <2>1
  <2>2. CASE s # {}
    <3>0. n + 1 \in Nat /\ s \subseteq 1 .. n + 1
      OBVIOUS
    <3> DEFINE x == Max(s)
    <3>1. x \in s /\ \A y \in s : y <= x
      <4> HIDE DEF F
      <4> QED
        BY <2>2, <3>0, Greatest
    <3> HIDE DEF x
    <3>2. s \ {x} \subseteq 1 .. n
      BY <3>1
    <3>3. g[s \ {x}] = f[s \ {x}]
      <4> HIDE DEF g
      <4> QED
        BY <1>1, <3>2
    <3> HIDE DEF g, F
    <3> QED
      BY <3>3 DEF x
  <2> QED
    BY <2>1, <2>2
<1>3. g = [s \in SUBSET (1 .. n + 1) |-> F(s, g[s \ {Max(s)}])]
  <2> HIDE DEF F
  <2> QED
    BY <1>2
<1> HIDE DEF g
<1> QED
  BY <1>3 DEF Gathers

Gathered(t) ==
  (CHOOSE h : h = [s \in SUBSET (DOMAIN t) |->
                     IF s = {} THEN NoPairs ELSE CookieAdded(h[s \ {Max(s)}], t[Max(s)])])[DOMAIN t]

LEMMA CookiesIs ==
  ASSUME NEW headers
  PROVE  Cookies(headers) =
           IF get(headers, <<"Cookie">>) = {} THEN NoPairs
           ELSE Gathered(getlines(CHOOSE v \in get(headers, <<"Cookie">>) : TRUE, Semi))
BY Zenon DEF Cookies, FoldLeft, MapThenFoldSet, CookieAdded, Gathered, Semi

LEMMA CookiesGathered ==
  ASSUME NEW headers, NEW v, get(headers, <<"Cookie">>) = {v}, NEW t, t = getlines(v, Semi),
         NEW n \in Nat, DOMAIN t = 1 .. n
  PROVE  \E f : Gathers(f, n, t) /\ Cookies(headers) = f[1 .. n]
<1> DEFINE U == {k \in Nat : \E f : Gathers(f, k, t)}
<1>1. 0 \in U
  <2> DEFINE g == [s \in {{}} |-> NoPairs]
  <2>1. SUBSET (1 .. 0) = {{}} /\ g[{}] = NoPairs
    OBVIOUS
  <2>2. g = [s \in SUBSET (1 .. 0) |-> IF s = {} THEN NoPairs ELSE CookieAdded(g[s \ {Max(s)}], t[Max(s)])]
    BY <2>1
  <2> HIDE DEF g
  <2>3. Gathers(g, 0, t)
    BY <2>2 DEF Gathers
  <2> QED
    BY <2>3
<1>2. ASSUME NEW k \in Nat, k \in U PROVE k + 1 \in U
  BY <1>2, GathersGrow
<1> HIDE DEF U
<1>3. n \in U
  BY <1>1, <1>2, Induct
<1> DEFINE f == CHOOSE f : Gathers(f, n, t)
<1>4. Gathers(f, n, t)
  BY <1>3 DEF U
<1>5. (CHOOSE w \in get(headers, <<"Cookie">>) : TRUE) = v /\ get(headers, <<"Cookie">>) # {}
  OBVIOUS
<1>6. Cookies(headers) = Gathered(t)
  BY <1>5, CookiesIs, Zenon
<1>7. Gathered(t) = f[1 .. n]
  BY Zenon DEF Gathered, Gathers
<1> HIDE DEF f
<1> QED
  BY <1>4, <1>6, <1>7, Zenon

\* The cookies of that name among the first n.
Called(P, n, name) == {i \in 1 .. n : SameName(P[i].key, name)}

\* The list has the last of them.
Answers(list, P, n, name) ==
  get(list, name) = IF Called(P, n, name) = {} THEN {} ELSE {P[Max(Called(P, n, name))].value}

LEMMA AnswersNone == ASSUME NEW P, NEW name PROVE Answers(NoPairs, P, 0, name)
<1>1. 1 .. 0 = {} /\ DOMAIN NoPairs = {}
  BY DEF NoPairs
<1>2. Called(P, 0, name) = {}
  BY <1>1 DEF Called
<1>3. get(NoPairs, name) = {}
  BY <1>1 DEF get
<1> QED
  BY <1>2, <1>3 DEF Answers

LEMMA AnswersMore ==
  ASSUME NEW P, NEW n \in Nat, NEW list, NEW name, Answers(list, P, n, name)
  PROVE  Answers(set(list, P[n + 1].key, P[n + 1].value), P, n + 1, name)
<1> DEFINE k == P[n + 1].key
           v == P[n + 1].value
           S == Called(P, n, name)
           U == Called(P, n + 1, name)
           new == set(list, k, v)
<1>1. SameName(name, k) <=> SameName(k, name)
  BY DEF SameName
<1>2. /\ SameName(name, k) => get(new, name) = {v}
      /\ ~SameName(name, k) => get(new, name) = get(list, name)
  BY GetAfterSet
<1>3. CASE SameName(k, name)
  <2>1. n + 1 \in U /\ U \subseteq 1 .. n + 1 /\ n + 1 \in Nat /\ U # {}
    BY <1>3 DEF Called
  <2> HIDE DEF U
  <2>2. Max(U) \in U /\ \A x \in U : x <= Max(U)
    BY <2>1, Greatest
  <2> DEFINE m == Max(U)
  <2>3. m \in 1 .. n + 1 /\ n + 1 <= m
    BY <2>1, <2>2
  <2> HIDE DEF m
  <2>4. m = n + 1
    BY <2>3
  <2>5. P[m].value = v
    BY <2>4
  <2>6. get(new, name) = {v}
    BY <1>1, <1>2, <1>3
  <2> HIDE DEF v, new
  <2> QED
    BY <2>1, <2>5, <2>6 DEF Answers, U, m, new, k, v
<1>4. CASE ~SameName(k, name)
  <2>1. U = S
    <3>1. \A i \in 1 .. n + 1 : i = n + 1 \/ i \in 1 .. n
      OBVIOUS
    <3>2. \A i \in 1 .. n : i \in 1 .. n + 1
      OBVIOUS
    <3> QED
      BY <1>4, <3>1, <3>2 DEF Called
  <2>2. get(new, name) = get(list, name)
    BY <1>1, <1>2, <1>4
  <2> HIDE DEF new
  <2> QED
    BY <2>1, <2>2 DEF Answers, new
<1> QED
  BY <1>3, <1>4

CookieTextOf(P) == Joined([i \in DOMAIN P |-> ItemText(P[i])], <<";", " ">>)

\* Every cookie the client sends is asked for by its name, in whatever case, and
\* answers with the value that was sent last under it; a value may hold '='
\* (Request.h:103-131, Helpers.h:43-52 and 135-143).
THEOREM CookiesMeanWhatTheySay ==
  ASSUME NEW A, Semi \in A, Equals \in A, Blank \in A, NEW P \in Seq(CookieOf(A)), P # <<>>,
         NEW headers, get(headers, <<"Cookie">>) = {CookieTextOf(P)}, NEW name
  PROVE  Answers(Cookies(headers), P, Len(P), name)
<1> DEFINE T == [i \in DOMAIN P |-> ItemText(P[i])]
           t == LedItems(T)
<1>0. PICK n \in Nat : n = Len(P) /\ DOMAIN P = 1 .. n /\ n # 0
  BY LenProperties, EmptySeq
<1>1. \A i \in 1 .. n : P[i] \in CookieOf(A)
  BY <1>0, ElementOfSeq
<1>2. T \in Seq(Items(A)) /\ Len(T) = n /\ \A i \in 1 .. n : T[i] = ItemText(P[i])
  <2>1. T \in [1 .. n -> Items(A)]
    BY <1>0, <1>1, ItemType
  <2>2. \A i \in 1 .. n : T[i] = ItemText(P[i])
    BY <1>0
  <2> HIDE DEF T
  <2> QED
    BY <2>1, <2>2, FunctionIsSeq
<1>3. CookieTextOf(P) = Joined(T, <<Semi, Blank>>)
  BY Zenon DEF CookieTextOf, Semi, Blank
<1> HIDE DEF T
<1>4. T # <<>> /\ DOMAIN T = 1 .. n
  BY <1>0, <1>2, LenProperties
<1>5. getlines(CookieTextOf(P), Semi) = t
  <2>1. getlines(Joined(T, <<Semi, Blank>>), Semi) = t
    BY <1>2, <1>4, ItemsRead, Zenon
  <2> QED
    BY <1>3, <2>1, Zenon
<1>6. DOMAIN t = 1 .. n /\ \A i \in 1 .. n : t[i] = Led(i, ItemText(P[i]))
  BY <1>2, <1>4 DEF LedItems
<1> HIDE DEF t
<1>7. PICK f : Gathers(f, n, t) /\ Cookies(headers) = f[1 .. n]
  <2>1. DOMAIN t = 1 .. n /\ n \in Nat
    BY <1>6
  <2>2. t = getlines(CookieTextOf(P), Semi)
    BY <1>5
  <2>3. get(headers, <<"Cookie">>) = {CookieTextOf(P)}
    OBVIOUS
  <2> HIDE DEF t
  <2> QED
    BY <2>1, <2>2, <2>3, CookiesGathered, Zenon
<1>8. GathersEach(f, n, t)
  BY <1>7, GathersAt
<1> DEFINE V == {k \in Nat : k <= n => Answers(f[1 .. k], P, k, name)}
<1>9. 0 \in V
  <2>1. 1 .. 0 = {} /\ 1 .. 0 \in SUBSET (1 .. n)
    OBVIOUS
  <2>2. f[1 .. 0] = NoPairs
    BY <1>8, <2>1, Zenon DEF GathersEach
  <2> QED
    BY <2>2, AnswersNone
<1>10. ASSUME NEW k \in Nat, k \in V PROVE k + 1 \in V
  <2> SUFFICES ASSUME k + 1 <= n PROVE Answers(f[1 .. k + 1], P, k + 1, name)
    OBVIOUS
  <2> DEFINE s == 1 .. k + 1
             c == P[k + 1]
  <2>1. s \in SUBSET (1 .. n) /\ s # {} /\ k + 1 \in s /\ k + 1 \in 1 .. n /\ k + 1 \in Nat /\ s \subseteq 1 .. k + 1
    <3>1. k + 1 \in s /\ k + 1 \in 1 .. n /\ k + 1 \in Nat
      OBVIOUS
    <3>2. \A i \in s : i \in 1 .. n
      OBVIOUS
    <3>3. s \subseteq 1 .. k + 1
      OBVIOUS
    <3> HIDE DEF s
    <3> QED
      BY <3>1, <3>2, <3>3
  <2>2. Max(s) = k + 1 /\ s \ {Max(s)} = 1 .. k
    <3> DEFINE x == Max(s)
    <3>1. x \in s /\ \A y \in s : y <= x
      <4> HIDE DEF s
      <4> QED
        BY <2>1, Greatest
    <3> HIDE DEF x
    <3>2. x = k + 1
      BY <3>1
    <3>3. s \ {k + 1} = 1 .. k
      OBVIOUS
    <3> QED
      BY <3>2, <3>3 DEF x
  <2>3. f[s] = CookieAdded(f[1 .. k], t[k + 1])
    <3>1. f[s] = IF s = {} THEN NoPairs ELSE CookieAdded(f[s \ {Max(s)}], t[Max(s)])
      <4> HIDE DEF s
      <4> QED
        BY <1>8, <2>1, Zenon DEF GathersEach
    <3> HIDE DEF s
    <3> QED
      BY <2>1, <2>2, <3>1, Zenon
  <2>4. t[k + 1] = Led(k + 1, ItemText(c)) /\ c \in CookieOf(A)
    BY <1>1, <1>6, <2>1
  <2>5. k <= n
    BY <1>0
  <2>6. Answers(f[1 .. k], P, k, name)
    BY <1>10, <2>5
  <2> HIDE DEF s, V, c
  <2>7. CookieAdded(f[1 .. k], t[k + 1]) = set(f[1 .. k], c.key, c.value)
    BY <2>4, ItemAdded, Zenon
  <2>8. Answers(set(f[1 .. k], c.key, c.value), P, k + 1, name)
    BY <2>6, AnswersMore DEF c
  <2> QED
    BY <2>3, <2>7, <2>8, Zenon DEF s
<1> HIDE DEF V
<1>11. n \in V
  BY <1>9, <1>10, Induct
<1>12. Answers(f[1 .. n], P, n, name)
  BY <1>11 DEF V
<1> QED
  BY <1>0, <1>7, <1>12, Zenon

-----------------------------------------------------------------------------
(* The first address of the proxies' list.                                 *)

Comma == ","

\* The address the list of a proxy starts with is what the limiter counts under,
\* whatever the proxies behind it added (Helpers.h:147-157, Ratelimit.h:57-79).
THEOREM FirstAddressCounts ==
  ASSUME NEW A, Comma \in A, NEW first \in Seq(A \ {Comma}), NEW others \in Seq(A)
  PROVE  extractClientIPFromXFF(first \o (<<Comma>> \o others)) = trim(first)
<1> DEFINE s == first \o (<<Comma>> \o others)
<1>1. split(s, Comma)[1] = first
  BY FirstPiece
<1> HIDE DEF s
<1>2. extractClientIPFromXFF(s) = trim(split(s, Comma)[1])
  BY Zenon DEF extractClientIPFromXFF, Comma
<1> QED
  BY <1>1, <1>2 DEF s

Proxied == <<"X-", "Forwarded-For">>

Proxies == <<"a", "b", " ", ",", " ", "c">>

LEMMA ProxiesCount == extractClientIPFromXFF(Proxies) = <<"a", "b">>
<1> DEFINE A == {"a", "b", "c", Blank, Comma}
           f == <<"a", "b", Blank>>
           e == <<Comma>>
           o == <<Blank, "c">>
           s == <<"a", "b", Blank, Comma, Blank, "c">>
           eo == <<Comma, Blank, "c">>
<1>1. "a" # Comma /\ "b" # Comma /\ Blank # Comma /\ "a" \notin Blanks /\ "b" \notin Blanks /\ Blank \in Blanks
  BY Zenon DEF Comma, Blank, Blanks, CRLF
<1>2. f \in Seq(A \ {Comma}) /\ o \in Seq(A) /\ e \in Seq(A) /\ eo \in Seq(A) /\ s \in Seq(A) /\ f \in Seq(A)
  BY <1>1
<1>3. Len(f) = 3 /\ Len(o) = 2 /\ Len(e) = 1 /\ Len(eo) = 3 /\ Len(s) = 6
  OBVIOUS
<1>4. Joins(eo, e, o)
  <2>1. \A i \in 1 .. 1 : eo[i] = e[i]
    OBVIOUS
  <2>2. \A i \in 1 .. 2 : eo[1 + i] = o[i]
    OBVIOUS
  <2> HIDE DEF eo, e, o
  <2> QED
    BY <1>3, <2>1, <2>2 DEF Joins
<1>5. Joins(s, f, eo)
  <2>1. \A i \in 1 .. 3 : s[i] = f[i]
    OBVIOUS
  <2>2. \A i \in 1 .. 3 : s[3 + i] = eo[i]
    OBVIOUS
  <2> HIDE DEF s, f, eo
  <2> QED
    BY <1>3, <2>1, <2>2 DEF Joins
<1>6. Comma \in A
  OBVIOUS
<1>7. trim(f) = <<"a", "b">>
  BY <1>1, TrimThird
<1>8. Proxies = s
  BY Zenon DEF Proxies, Blank, Comma
<1> HIDE DEF s, f, e, eo, o, A
<1>9. eo = e \o o
  BY <1>2, <1>4, JoinedAre
<1>10. s = f \o eo
  BY <1>2, <1>5, JoinedAre
<1>11. extractClientIPFromXFF(f \o (<<Comma>> \o o)) = trim(f)
  BY <1>2, <1>6, FirstAddressCounts
<1> QED
  BY <1>7, <1>8, <1>9, <1>10, <1>11 DEF e

-----------------------------------------------------------------------------
(* What the handler and the limiter read of a request.                     *)

\* Asked for in small letters, a header is found as it would be by its name.
LEMMA AskedSmall ==
  ASSUME NEW A, Closed(A), NEW hs, NEW name \in Seq(A)
  PROVE  SentAs(hs, toLower(name)) = SentAs(hs, name)
<1>1. toLower(toLower(name)) = toLower(name)
  BY LowerTwice
<1>2. \A x : SameName(x, toLower(name)) <=> SameName(x, name)
  BY <1>1 DEF SameName
<1> QED
  BY <1>2 DEF SentAs

\* What asking for the name of a header that was sent gives.
HeaderAsked(hs, list, i) ==
  LET name == hs[i].name
      sent == SentAs(hs, name)
      got == get(list, toLower(name))
  IN  /\ \E j \in sent : got = {hs[j].value}
      /\ (\A k, j \in sent : hs[k].name = hs[j].name) => got = {hs[Max(sent)].value}

LEMMA HeadersAsked ==
  ASSUME NEW A, Closed(A), NEW hs \in Seq(HeaderOf(A)), NEW list \in KVLists(Assigned(HeaderPairs(hs))),
         NEW i \in DOMAIN hs
  PROVE  HeaderAsked(hs, list, i)
<1> DEFINE name == hs[i].name
           S == SentAs(hs, name)
           small == toLower(name)
<1>1. name \in Seq(A)
  <2>1. hs[i] \in HeaderOf(A)
    BY LenProperties, ElementOfSeq
  <2>2. name \in Seq(A \ {CRLF, Colon})
    BY <2>1 DEF HeaderOf
  <2> QED
    BY <2>2, SeqMonotonic
<1>2. SentAs(hs, small) = S
  BY <1>1, AskedSmall
<1>3. i \in S
  BY DEF SentAs, SameName
<1>4. FoundSent(hs, list, small)
  BY HeadersFound
<1> HIDE DEF S, small
<1>5. S # {}
  BY <1>3
<1>6. /\ \E j \in S : get(list, small) = {hs[j].value}
      /\ (\A k, j \in S : hs[k].name = hs[j].name) => get(list, small) = {hs[Max(S)].value}
  BY <1>2, <1>4, <1>5, Zenon DEF FoundSent
<1> QED
  BY <1>6, Zenon DEF HeaderAsked, S, small

\* The query is asked for by a capital.
LEMMA AskedFound ==
  ASSUME NEW list \in KVLists(Assigned(AskedPairs))
  PROVE  get(list, <<"B">>) = {<<"&">>}
<1> DEFINE P == AskedPairs
           k == <<"b">>
           v == <<"&">>
           map == Assigned(P)
           at(x) == {i \in DOMAIN P : P[i].key = x}
<1>1. DOMAIN P = {1} /\ P[1].key = k /\ P[1].value = v
  BY DEF AskedPairs
<1>2. map = [x \in {P[i].key : i \in DOMAIN P} |-> P[Max(at(x))].value]
  BY Zenon DEF Assigned
<1> HIDE DEF P, k, v, map
<1>3. {P[i].key : i \in DOMAIN P} = {k}
  BY <1>1
<1>4. at(k) = {1}
  BY <1>1
<1>5. Max(at(k)) = 1
  <2>1. at(k) \subseteq 1 .. 1 /\ at(k) # {} /\ 1 \in Nat
    BY <1>4
  <2>2. Max(at(k)) \in at(k)
    BY <2>1, Greatest
  <2> QED
    BY <1>4, <2>2
<1> HIDE DEF at
<1>6. DOMAIN map = {k} /\ map[k] = v
  BY <1>1, <1>2, <1>3, <1>5
<1>7. SameName(k, <<"B">>)
  <2>1. Lowered("b") = "b" /\ Lowered("B") = "b"
    <3>1. <<"B", "b">> \in Capitals
      BY DEF Capitals
    <3>2. Spelled("B", "b")
      BY <3>1, PairSpelled
    <3> QED
      BY <3>2 DEF Spelled
  <2>2. toLower(k) = <<Lowered("b")>> /\ toLower(<<"B">>) = <<Lowered("B")>>
    BY LowerOne DEF k
  <2> QED
    BY <2>1, <2>2 DEF SameName
<1>8. \E j \in DOMAIN map : SameName(j, <<"B">>) /\ get(list, <<"B">>) = {map[j]}
  <2>1. \E x \in DOMAIN map : SameName(x, <<"B">>)
    BY <1>6, <1>7
  <2>2. list \in KVLists(map)
    BY DEF map, P
  <2> QED
    BY <2>1, <2>2, ListFinds
<1>9. get(list, <<"B">>) = {v}
  BY <1>6, <1>8
<1> QED
  BY <1>9, Zenon DEF v

\* The cookies MCParsing's client sends.
LEMMA CookiesSentLegal ==
  LET C == {"A", "b", "a", "1", "c", Semi, Equals, Blank}
  IN  CookiesSent \in Seq(CookieOf(C)) /\ CookiesSent # <<>> /\ DOMAIN CookiesSent = 1 .. 3
<1> DEFINE C == {"A", "b", "a", "1", "c", Semi, Equals, Blank}
           K == C \ {Semi, Equals}
           V == C \ {Semi}
           none == <<>>
           v3 == <<"b", Equals, "c">>
           r1 == [key |-> <<"A">>, value |-> <<"1">>]
           r2 == [key |-> <<"b">>, value |-> none]
           r3 == [key |-> <<"a">>, value |-> v3]
           R == CookieOf(C)
<1>1. \A x \in {"A", "b", "a", "1", "c"} : x # Semi /\ x # Equals /\ x \notin Blanks
  BY Zenon DEF Semi, Equals, Blanks, CRLF
<1>2. Equals \notin Blanks /\ Equals # Semi
  BY Zenon DEF Semi, Equals, Blanks, CRLF
<1>3. \A x \in {"A", "b", "a", "1", "c"} : x \in K /\ x \in V
  BY <1>1
<1>4. Equals \in V
  BY <1>2
<1>5. ASSUME NEW x \in {"A", "b", "a", "1", "c"} PROVE <<x>> \in Seq(K) /\ <<x>> \in Seq(V) /\ trim(<<x>>) = <<x>>
  <2> DEFINE s == <<x>>
  <2>1. s \in Seq(K) /\ s \in Seq(V)
    BY <1>3, <1>5, One
  <2>2. Len(s) = 1 /\ s[1] = x
    OBVIOUS
  <2> HIDE DEF s, K
  <2>3. \A i \in 1 .. Len(s) : s[i] \notin Blanks
    BY <1>1, <1>5, <2>2
  <2>4. Len(s) # 0
    BY <2>2
  <2>5. trim(s) = s
    BY <2>1, <2>3, <2>4, TrimSolid, Zenon
  <2> QED
    BY <2>1, <2>5 DEF s
<1>6. v3 \in Seq(V) /\ trim(v3) = v3
  <2>1. v3 \in Seq(V)
    <3>1. "b" \in V /\ "c" \in V
      BY <1>3
    <3> HIDE DEF V
    <3> QED
      BY <1>4, <3>1
  <2>2. Len(v3) = 3 /\ v3[1] = "b" /\ v3[2] = Equals /\ v3[3] = "c"
    OBVIOUS
  <2>3. "b" \notin Blanks /\ "c" \notin Blanks
    BY <1>1
  <2> HIDE DEF v3, V
  <2>4. \A i \in 1 .. Len(v3) : v3[i] \notin Blanks
    <3>1. \A i \in 1 .. 3 : i = 1 \/ i = 2 \/ i = 3
      OBVIOUS
    <3> QED
      BY <1>2, <2>2, <2>3, <3>1
  <2>5. Len(v3) # 0
    BY <2>2
  <2> QED
    BY <2>1, <2>4, <2>5, TrimSolid, Zenon
<1>7. none \in Seq(V) /\ trim(none) = none
  <2>1. DOMAIN none = {}
    OBVIOUS
  <2>2. {i \in DOMAIN none : none[i] \notin Blanks} = {}
    BY <2>1
  <2>3. trim(none) = <<>>
    BY <2>2, Zenon DEF trim, Blanks
  <2> QED
    BY <2>3, EmptySeq
<1>8. /\ <<"A">> \in Seq(K) /\ trim(<<"A">>) = <<"A">> /\ <<"b">> \in Seq(K) /\ trim(<<"b">>) = <<"b">>
      /\ <<"a">> \in Seq(K) /\ trim(<<"a">>) = <<"a">> /\ <<"1">> \in Seq(V) /\ trim(<<"1">>) = <<"1">>
  BY <1>5
<1> HIDE DEF K, V, none, v3
<1>9. ASSUME NEW k \in Seq(K), NEW v \in Seq(V), trim(k) = k, trim(v) = v
      PROVE  [key |-> k, value |-> v] \in R
  BY <1>9 DEF CookieOf, K, V
<1>10. r1 \in R
  BY <1>8, <1>9
<1>11. r2 \in R
  BY <1>7, <1>8, <1>9
<1>12. r3 \in R
  BY <1>6, <1>8, <1>9
<1>13. CookiesSent = <<r1, r2, r3>>
  BY Zenon DEF CookiesSent, Equals, none, v3
<1> HIDE DEF r1, r2, r3, R
<1>14. <<r1, r2, r3>> \in Seq(R) /\ <<r1, r2, r3>> # <<>> /\ DOMAIN <<r1, r2, r3>> = 1 .. 3
  BY <1>10, <1>11, <1>12
<1> QED
  BY <1>13, <1>14 DEF R

\* A header of that name, in whatever case, says what MCParsing's client says.
Told(hs) ==
  \A i \in DOMAIN hs :
    /\ SameName(hs[i].name, <<"Cookie">>) => hs[i].value = CookieText
    /\ SameName(hs[i].name, Proxied) => hs[i].value = Proxies

LEMMA CookiesTold ==
  ASSUME NEW hs, Told(hs), NEW list, FoundSent(hs, list, <<"Cookie">>), SentAs(hs, <<"Cookie">>) # {},
         NEW i \in DOMAIN CookiesSent
  PROVE  LET name == CookiesSent[i].key
         IN  get(Cookies(list), name)
               = {CookiesSent[Max({j \in DOMAIN CookiesSent : SameName(CookiesSent[j].key, name)})].value}
<1> DEFINE name == CookiesSent[i].key
           P == CookiesSent
           C == {"A", "b", "a", "1", "c", Semi, Equals, Blank}
           S == {j \in DOMAIN P : SameName(P[j].key, name)}
<1>1. P \in Seq(CookieOf(C)) /\ P # <<>> /\ DOMAIN P = 1 .. 3
  BY CookiesSentLegal
<1>2. Semi \in C /\ Equals \in C /\ Blank \in C
  OBVIOUS
<1> HIDE DEF C
<1>3. get(list, <<"Cookie">>) = {CookieTextOf(P)}
  <2>1. PICK j \in SentAs(hs, <<"Cookie">>) : get(list, <<"Cookie">>) = {hs[j].value}
    BY DEF FoundSent
  <2>2. hs[j].value = CookieText
    BY DEF SentAs, Told
  <2>3. CookieText = CookieTextOf(P)
    BY Zenon DEF CookieText, CookieTextOf, ItemText
  <2> QED
    BY <2>1, <2>2, <2>3
<1>4. Answers(Cookies(list), P, Len(P), name)
  <2> HIDE DEF P, name
  <2> QED
    BY <1>1, <1>2, <1>3, CookiesMeanWhatTheySay
<1>5. Called(P, Len(P), name) = S
  <2>1. DOMAIN P = 1 .. Len(P)
    BY <1>1, LenProperties
  <2> QED
    BY <2>1 DEF Called
<1>6. i \in S
  BY DEF SameName
<1> HIDE DEF S, P, name
<1>7. S # {}
  BY <1>6
<1>8. get(Cookies(list), name) = {P[Max(S)].value}
  BY <1>4, <1>5, <1>7 DEF Answers
<1> QED
  BY <1>8 DEF S, P, name

LEMMA LimiterTold ==
  ASSUME NEW hs, Told(hs), NEW r, FoundSent(hs, r.headers, Proxied)
  PROVE  /\ RateKey(FALSE, <<"c">>, r, Proxied) = <<"c">>
         /\ RateKey(TRUE, <<"c">>, r, Proxied) = IF SentAs(hs, Proxied) = {} THEN <<>> ELSE <<"a", "b">>
<1> DEFINE g == getHeader(r, Proxied)
           peer == <<"c">>
<1>1. peer # <<>>
  OBVIOUS
<1>2. g = get(r.headers, Proxied)
  BY DEF getHeader
<1>3. RateKey(FALSE, peer, r, Proxied) = peer
  BY DEF RateKey
<1>4. RateKey(TRUE, peer, r, Proxied) = IF g = {} THEN <<>> ELSE extractClientIPFromXFF(CHOOSE v \in g : TRUE)
  BY <1>1, Zenon DEF RateKey
<1> HIDE DEF g
<1>5. CASE SentAs(hs, Proxied) = {}
  <2>1. g = {}
    BY <1>2, <1>5, Zenon DEF FoundSent
  <2> QED
    BY <1>3, <1>4, <1>5, <2>1 DEF peer
<1>6. CASE SentAs(hs, Proxied) # {}
  <2>1. PICK j \in SentAs(hs, Proxied) : g = {hs[j].value}
    BY <1>2, <1>6 DEF FoundSent
  <2>2. hs[j].value = Proxies
    BY DEF SentAs, Told
  <2>3. g # {} /\ (CHOOSE v \in g : TRUE) = Proxies
    BY <2>1, <2>2
  <2>4. RateKey(TRUE, peer, r, Proxied) = <<"a", "b">>
    BY <1>4, <2>3, ProxiesCount, Zenon
  <2> QED
    BY <1>3, <1>6, <2>4 DEF peer
<1> QED
  BY <1>5, <1>6

\* What the handler and the limiter make of a request.
ReadAs(q, r) ==
  /\ r.valid /\ r.method = q.method /\ r.path = <<"/", "a">> /\ r.body = q.body
  /\ getQuery(r, <<"B">>) = {<<"&">>}
  /\ \A i \in DOMAIN q.headers : HeaderAsked(q.headers, r.headers, i)
  /\ SentAs(q.headers, <<"Cookie">>) # {} =>
       \A i \in DOMAIN CookiesSent :
         LET name == CookiesSent[i].key
         IN  getCookie(r, name)
               = {CookiesSent[Max({j \in DOMAIN CookiesSent : SameName(CookiesSent[j].key, name)})].value}
  /\ RateKey(FALSE, <<"c">>, r, Proxied) = <<"c">>
  /\ RateKey(TRUE, <<"c">>, r, Proxied) = IF SentAs(q.headers, Proxied) = {} THEN <<>> ELSE <<"a", "b">>

LEMMA RequestReadIs == (asked.kind = "request" => \A r \in parseRequest(RequestText(asked)) : ReadAs(asked, r)) => RequestRead
BY Zenon DEF RequestRead, ReadAs, HeaderAsked, SentAs, Proxied, getHeader

\* Whatever the headers of a request are, in whatever order and spelling: the
\* handler reads the method, the path, the body and the query the client sent;
\* a header is found under any spelling of its name, with a value that was sent
\* under it, the last one if it was spelled alike throughout, and no header is
\* found that was not sent (Request.cpp:109-182).
THEOREM RequestsMeanWhatTheySay ==
  ASSUME NEW A, RequestAlphabet(A), NEW q \in SentRequests(A), NEW r \in parseRequest(RequestText(q))
  PROVE  /\ r.valid /\ r.method = q.method /\ r.path = <<"/", "a">> /\ r.body = q.body
         /\ getQuery(r, <<"B">>) = {<<"&">>}
         /\ \A name : FoundSent(q.headers, r.headers, name)
         /\ \A i \in DOMAIN q.headers : HeaderAsked(q.headers, r.headers, i)
         /\ r.cookies = Cookies(r.headers)
<1> DEFINE a == <<"/", "a">>
           hs == q.headers
<1>1. PICK h \in KVLists(Assigned(HeaderPairs(hs))), p \in KVLists(Assigned(AskedPairs)) :
        r = MakeRequest(q.method, a, q.body, h, p)
  <2>1. ParsedAs(q, r)
    BY RequestParses
  <2> QED
    BY <2>1, Zenon DEF ParsedAs
<1>2. hs \in Seq(HeaderOf(A)) /\ Closed(A)
  BY SentParts, AlphabetHas
<1> HIDE DEF a, hs
<1>3. /\ r.valid /\ r.method = q.method /\ r.path = a /\ r.body = q.body /\ r.headers = h /\ r.query = p
      /\ r.cookies = Cookies(h)
  BY <1>1 DEF MakeRequest
<1>4. getQuery(r, <<"B">>) = {<<"&">>}
  <2>1. get(p, <<"B">>) = {<<"&">>}
    BY AskedFound
  <2> QED
    BY <1>3, <2>1, Zenon DEF getQuery
<1>5. \A name : FoundSent(hs, h, name)
  BY <1>2, HeadersFound
<1>6. \A i \in DOMAIN hs : HeaderAsked(hs, h, i)
  BY <1>2, HeadersAsked
<1> QED
  BY <1>3, <1>4, <1>5, <1>6, Zenon DEF a, hs

LEMMA RequestsRead ==
  ASSUME NEW A, RequestAlphabet(A), NEW q \in SentRequests(A), Told(q.headers),
         NEW r \in parseRequest(RequestText(q))
  PROVE  ReadAs(q, r)
<1> DEFINE hs == q.headers
           h == r.headers
<1>1. /\ r.valid /\ r.method = q.method /\ r.path = <<"/", "a">> /\ r.body = q.body
      /\ getQuery(r, <<"B">>) = {<<"&">>} /\ \A i \in DOMAIN hs : HeaderAsked(hs, h, i)
  BY RequestsMeanWhatTheySay, Zenon
<1>2. (\A name : FoundSent(hs, h, name)) /\ r.cookies = Cookies(h)
  BY RequestsMeanWhatTheySay, Zenon
<1>3. FoundSent(hs, h, <<"Cookie">>) /\ FoundSent(hs, h, Proxied)
  BY <1>2, Zenon
<1>4. ASSUME SentAs(hs, <<"Cookie">>) # {}, NEW i \in DOMAIN CookiesSent
      PROVE  LET name == CookiesSent[i].key
             IN  getCookie(r, name)
                   = {CookiesSent[Max({j \in DOMAIN CookiesSent : SameName(CookiesSent[j].key, name)})].value}
  BY <1>2, <1>3, <1>4, CookiesTold, Zenon DEF getCookie
<1>5. /\ RateKey(FALSE, <<"c">>, r, Proxied) = <<"c">>
      /\ RateKey(TRUE, <<"c">>, r, Proxied) = IF SentAs(hs, Proxied) = {} THEN <<>> ELSE <<"a", "b">>
  BY <1>3, LimiterTold
<1> QED
  BY <1>1, <1>4, <1>5, Zenon DEF ReadAs

-----------------------------------------------------------------------------
(* The requests MCParsing asks about tell the same.                        *)

\* In any case, these names are not other names.
OneHeader(h) ==
  /\ SameName(h.name, <<"Cookie">>) => h.value = CookieText
  /\ SameName(h.name, Proxied) => h.value = Proxies

LEMMA SingleTold ==
  ASSUME NEW c, c # "Cookie", c # "cookie", NEW v
  PROVE  OneHeader(Header(<<c>>, v))
<1> DEFINE h == Header(<<c>>, v)
<1>1. h.name = <<c>>
  BY DEF Header
<1>2. Lowered("Cookie") = "cookie" /\ Lowered(c) # "cookie"
  <2>1. <<"Cookie", "cookie">> \in Capitals
    BY DEF Capitals
  <2>2. Spelled("Cookie", "cookie")
    BY <2>1, PairSpelled
  <2> QED
    BY <2>2 DEF Spelled
<1>3. ~SameName(<<c>>, <<"Cookie">>)
  BY <1>2, LowerOne DEF SameName
<1>4. ~SameName(<<c>>, Proxied)
  <2>1. Len(toLower(<<c>>)) = 1
    BY LowerOne
  <2>2. Len(toLower(Proxied)) = 2
    BY LowerTwo DEF Proxied
  <2> QED
    BY <2>1, <2>2 DEF SameName
<1> HIDE DEF h
<1>5. OneHeader(h)
  BY <1>1, <1>3, <1>4 DEF OneHeader
<1> QED
  BY <1>5 DEF h

LEMMA DoubleTold ==
  ASSUME NEW c, NEW d, Lowered(d) # "Forwarded-For", NEW v
  PROVE  OneHeader(Header(<<c, d>>, v))
<1> DEFINE h == Header(<<c, d>>, v)
<1>1. h.name = <<c, d>>
  BY DEF Header
<1>2. Lowered("Forwarded-For") = "Forwarded-For"
  <2>1. "Forwarded-For" \notin DOMAIN Small
    BY DEF Small, Lookup, Capitals
  <2> QED
    BY <2>1 DEF Lowered
<1>3. ~SameName(<<c, d>>, <<"Cookie">>)
  <2>1. Len(toLower(<<"Cookie">>)) = 1
    BY LowerOne
  <2>2. Len(toLower(<<c, d>>)) = 2
    BY LowerTwo
  <2> QED
    BY <2>1, <2>2 DEF SameName
<1>4. ~SameName(<<c, d>>, Proxied)
  <2>1. toLower(<<c, d>>)[2] = Lowered(d)
    BY LowerTwo
  <2>2. toLower(Proxied)[2] = "Forwarded-For"
    BY <1>2, LowerTwo DEF Proxied
  <2> QED
    BY <2>1, <2>2 DEF SameName
<1> HIDE DEF h
<1>5. OneHeader(h)
  BY <1>1, <1>3, <1>4 DEF OneHeader
<1> QED
  BY <1>5 DEF h

LEMMA SentTold == \A h \in HeadersSent : OneHeader(h)
<1>1. /\ OneHeader(Header(<<"Host">>, <<"a", Colon, "1">>)) /\ OneHeader(Header(<<"host">>, <<"b">>))
      /\ OneHeader(Header(<<"Host">>, <<>>)) /\ OneHeader(Header(<<"Connection">>, <<"Close">>))
  <2>1. "Host" # "Cookie" /\ "Host" # "cookie" /\ "host" # "Cookie" /\ "host" # "cookie"
        /\ "Connection" # "Cookie" /\ "Connection" # "cookie"
    OBVIOUS
  <2> QED
    BY <2>1, SingleTold, Zenon
<1>2. /\ OneHeader(Header(<<"X-", "Connection">>, <<"a">>))
      /\ OneHeader(Header(<<"X-", "Content-Length">>, <<"1">>))
  <2>1. Lowered("Connection") # "Forwarded-For" /\ Lowered("Content-Length") # "Forwarded-For"
    BY SoughtSpelled DEF Spelled
  <2> QED
    BY <2>1, DoubleTold, Zenon
<1>3. OneHeader(Header(<<"Cookie">>, CookieText))
  <2> DEFINE h == Header(<<"Cookie">>, CookieText)
  <2>1. h.name = <<"Cookie">> /\ h.value = CookieText
    BY DEF Header
  <2>2. ~SameName(<<"Cookie">>, Proxied)
    <3>1. Len(toLower(<<"Cookie">>)) = 1
      BY LowerOne
    <3>2. Len(toLower(Proxied)) = 2
      BY LowerTwo DEF Proxied
    <3> QED
      BY <3>1, <3>2 DEF SameName
  <2> HIDE DEF h
  <2>3. OneHeader(h)
    BY <2>1, <2>2 DEF OneHeader
  <2> QED
    BY <2>3 DEF h
<1>4. OneHeader(Header(Proxied, Proxies))
  <2> DEFINE h == Header(Proxied, Proxies)
  <2>1. h.name = Proxied /\ h.value = Proxies
    BY DEF Header
  <2>2. ~SameName(Proxied, <<"Cookie">>)
    <3>1. Len(toLower(<<"Cookie">>)) = 1
      BY LowerOne
    <3>2. Len(toLower(Proxied)) = 2
      BY LowerTwo DEF Proxied
    <3> QED
      BY <3>1, <3>2 DEF SameName
  <2> HIDE DEF h
  <2>3. OneHeader(h)
    BY <2>1, <2>2 DEF OneHeader
  <2> QED
    BY <2>3 DEF h
<1>5. HeadersSent =
         { Header(<<"Host">>, <<"a", Colon, "1">>), Header(<<"host">>, <<"b">>), Header(<<"Host">>, <<>>),
           Header(<<"Connection">>, <<"Close">>), Header(<<"X-", "Connection">>, <<"a">>),
           Header(<<"X-", "Content-Length">>, <<"1">>), Header(<<"Cookie">>, CookieText),
           Header(Proxied, Proxies) }
  BY Zenon DEF HeadersSent, Colon, Proxied, Proxies
<1> QED
  BY <1>1, <1>2, <1>3, <1>4, <1>5, Zenon

LEMMA RequestsTold == \A q \in RequestQuestions : Told(q.headers)
<1> DEFINE O == {s \in Lists(HeadersSent, 0, 3) : \A i, j \in DOMAIN s : i # j => s[i] # s[j]}
           HS(body, first, others) ==
             IF body = <<>> THEN others
             ELSE IF first THEN <<Header(<<"Content-Length">>, to_string(Len(body)))>> \o others
             ELSE Append(others, Header(<<"Content-Length">>, to_string(Len(body))))
           M(body) == IF body = <<>> THEN "GET" ELSE "POST"
           E(body, first, others) ==
             [kind |-> "request", method |-> M(body), body |-> body, headers |-> HS(body, first, others)]
           Q == {E(body, first, others) : body \in Bodies, first \in BOOLEAN, others \in O}
<1>1. RequestQuestions = Q
  BY DEF RequestQuestions
<1>2. O \subseteq Seq(HeadersSent)
  BY ListsAre
<1> HIDE DEF O, M
<1>3. ASSUME NEW body \in Bodies, NEW first \in BOOLEAN, NEW others \in O
      PROVE  Told(E(body, first, others).headers)
  <2> DEFINE l == Header(<<"Content-Length">>, to_string(Len(body)))
             D == HeadersSent \cup {l}
             hs == HS(body, first, others)
  <2>1. OneHeader(l)
    <3>1. "Content-Length" # "Cookie" /\ "Content-Length" # "cookie"
      OBVIOUS
    <3> QED
      BY <3>1, SingleTold, Zenon
  <2> HIDE DEF l
  <2>2. \A h \in D : OneHeader(h)
    BY <2>1, SentTold
  <2>3. others \in Seq(D) /\ l \in D
    <3>1. HeadersSent \subseteq D /\ l \in D
      OBVIOUS
    <3> HIDE DEF D
    <3> QED
      BY <1>2, <3>1, SeqMonotonic
  <2> HIDE DEF D
  <2>4. <<l>> \o others \in Seq(D) /\ Append(others, l) \in Seq(D)
    BY <2>3
  <2>5. hs = IF body = <<>> THEN others ELSE IF first THEN <<l>> \o others ELSE Append(others, l)
    BY DEF l
  <2> HIDE DEF hs
  <2>6. hs \in Seq(D)
    BY <2>3, <2>4, <2>5
  <2>7. \A i \in DOMAIN hs : hs[i] \in D
    BY <2>6, LenProperties, ElementOfSeq
  <2>8. Told(hs)
    BY <2>2, <2>7 DEF Told, OneHeader
  <2>9. E(body, first, others).headers = hs
    BY DEF hs
  <2> QED
    BY <2>8, <2>9
<1> HIDE DEF E
<1>4. \A q \in Q : Told(q.headers)
  BY <1>3
<1> QED
  BY <1>1, <1>4

LEMMA HeadersSimple == ASSUME NEW A PROVE AnyRequests(A) \subseteq SentRequests(A)
<1> DEFINE H == Headers(A)
           G == HeaderOf(A)
<1>1. H \subseteq G
  BY DEF Headers, HeadersWithout
<1> HIDE DEF H, G
<1>2. Seq(H) \subseteq Seq(G)
  BY <1>1, SeqMonotonic
<1>3. ASSUME NEW q \in AnyRequests(A) PROVE q \in SentRequests(A)
  <2>1. /\ q \in [kind : {"request"}, method : Methods, headers : Seq(H), body : Seq(A)]
        /\ Announces(q.headers, q.body)
    BY DEF AnyRequests, H
  <2>2. q \in [kind : {"request"}, method : Methods, headers : Seq(G), body : Seq(A)]
    BY <1>2, <2>1
  <2> QED
    BY <2>1, <2>2 DEF SentRequests, G
<1> QED
  BY <1>3

RequestTold == asked.kind = "request" => Told(asked.headers)

LEMMA StaysTold == Spec => []RequestTold
<1>1. Init => RequestTold
  BY DEF Init, RequestTold
<1>2. RequestTold /\ [Next]_asked => RequestTold'
  <2> SUFFICES ASSUME RequestTold, [Next]_asked PROVE RequestTold'
    OBVIOUS
  <2>1. CASE AskRoute
    <3> DEFINE X == Lists(DeclaredRoutes, 1, 3)
               Y == Lists(Segments, 0, 2)
    <3>1. RouteQuestions = [kind : {"route"}, table : X, segments : Y, spare : BOOLEAN]
      BY Zenon DEF RouteQuestions
    <3> HIDE DEF X, Y
    <3>2. \A q \in RouteQuestions : q.kind = "route"
      BY <3>1
    <3> QED
      BY <2>1, <3>2 DEF AskRoute, Ask, RequestTold
  <2>2. CASE AskRequest
    BY <2>2, RequestsTold DEF AskRequest, Ask, RequestTold, Told
  <2>3. CASE AskQuery \/ AskForm \/ AskResponse
    BY <2>3, OtherKinds DEF AskQuery, AskForm, AskResponse, Ask, RequestTold
  <2>4. CASE UNCHANGED asked
    BY <2>4 DEF RequestTold, Told
  <2> QED
    BY <2>1, <2>2, <2>3, <2>4 DEF Next
<1> QED
  BY <1>1, <1>2, PTL DEF Spec

\* Every request MCParsing sends is read as it was meant, its cookies and its
\* proxies' list included (Request.cpp:109-182, Request.h:53-135, Ratelimit.h:57-79).
THEOREM RequestsReadBack == Spec => []RequestRead
<1>1. RequestAsked /\ RequestTold => RequestRead
  <2> SUFFICES ASSUME RequestAsked, RequestTold, asked.kind = "request",
                      NEW r \in parseRequest(RequestText(asked))
               PROVE  ReadAs(asked, r)
    BY RequestReadIs, Zenon
  <2>1. asked \in SentRequests(SentLetters)
    BY HeadersSimple DEF RequestAsked
  <2>2. Told(asked.headers)
    BY DEF RequestTold
  <2> QED
    BY <2>1, <2>2, SentLettersAre, RequestsRead, Zenon
<1> QED
  BY <1>1, StaysRequestAsked, StaysTold, PTL

-----------------------------------------------------------------------------
(* Forms: the recursive function of parse, unrolled.                       *)

\* Behind a boundary: the line end that follows it is skipped.
PartStart(s, i) == IF i <= Len(s) /\ s[i] = CRLF THEN i + 1 ELSE i

\* What parse finds from pos on, with what f says of later places.
FormStep(pos, s, d, f) ==
  LET found == find(s, d, pos)
      after == found + Len(d)
      start == PartStart(s, after)
      end == find(s, d, start)
  IN  IF found = 0 \/ SubSeq(s, after, after + 1) = <<"-", "-">> \/ end = 0 THEN <<>>
      ELSE Fields(SubSeq(s, start, end - 1)) \o f[end]

FormSteps(f, s, d) == f = [pos \in 1 .. (Len(s) + 1) |-> FormStep(pos, s, d, f)]

FormStepsEach(f, s, d) == \A pos \in 1 .. Len(s) + 1 : f[pos] = FormStep(pos, s, d, f)

LEMMA FormStepsAt == ASSUME NEW f, NEW s, NEW d, FormSteps(f, s, d) PROVE FormStepsEach(f, s, d)
<1> DEFINE g == [pos \in 1 .. (Len(s) + 1) |-> FormStep(pos, s, d, f)]
<1>1. f = g
  BY DEF FormSteps
<1> QED
  BY <1>1, Zenon DEF FormStepsEach

FormStepSame(pos, s, d, f, g) == FormStep(pos, s, d, f) = FormStep(pos, s, d, g)

\* The next boundary is further on.
LEMMA FormStepReads ==
  ASSUME NEW A, NEW s \in Seq(A), NEW d \in Seq(A), d # <<>>, NEW n \in Nat, n = Len(s),
         NEW pos \in 1 .. n + 1, NEW f, NEW g, \A j \in 1 .. n + 1 : j > pos => g[j] = f[j]
  PROVE  FormStepSame(pos, s, d, f, g)
<1> USE DEF FormStepSame
<1> DEFINE found == find(s, d, pos)
           after == found + Len(d)
           start == PartStart(s, after)
           end == find(s, d, start)
<1>1. PICK m \in Nat : m = Len(d) /\ m # 0
  BY LenProperties, EmptySeq
<1>2. CASE found = 0 \/ end = 0
  BY <1>2, Zenon DEF FormStep
<1>3. CASE found # 0 /\ end # 0
  <2>1. found \in pos .. (n - m + 1)
    BY <1>1, <1>3, FindPlace
  <2>2. after \in Nat \ {0} /\ after > pos
    <3> HIDE DEF found
    <3> QED
      BY <1>1, <2>1
  <2>3. start \in Nat \ {0} /\ start > pos
    <3> HIDE DEF after
    <3> QED
      BY <2>2 DEF PartStart
  <2> HIDE DEF start
  <2>4. end \in start .. (n - m + 1)
    BY <1>1, <1>3, <2>3, FindPlace
  <2> HIDE DEF end
  <2>5. end \in 1 .. n + 1 /\ end > pos
    BY <1>1, <2>3, <2>4
  <2>6. g[end] = f[end]
    BY <2>5
  <2> QED
    BY <2>6, Zenon DEF FormStep, start, end
<1> QED
  BY <1>2, <1>3

LEMMA FormStepsExist ==
  ASSUME NEW A, NEW s \in Seq(A), NEW d \in Seq(A), d # <<>>
  PROVE  \E f : FormSteps(f, s, d)
<1>0. PICK n \in Nat : n = Len(s)
  BY LenProperties
<1> DEFINE Upto(f, k) == f = [i \in 1 .. n + 1 |-> IF i > n + 1 - k THEN FormStep(i, s, d, f) ELSE <<>>]
           T == {k \in Nat : k <= n + 1 => \E f : Upto(f, k)}
<1>1. 0 \in T
  <2> DEFINE g == [i \in 1 .. n + 1 |-> <<>>]
  <2>1. g = [i \in 1 .. n + 1 |-> IF i > n + 1 - 0 THEN FormStep(i, s, d, g) ELSE <<>>]
    <3>1. \A i \in 1 .. n + 1 : ~(i > n + 1 - 0)
      OBVIOUS
    <3> QED
      BY <3>1
  <2> HIDE DEF g
  <2>2. Upto(g, 0)
    BY <2>1
  <2> QED
    BY <2>2
<1>2. ASSUME NEW k \in Nat, k \in T PROVE k + 1 \in T
  <2> SUFFICES ASSUME k + 1 <= n + 1 PROVE \E g : Upto(g, k + 1)
    OBVIOUS
  <2>1. k <= n + 1
    OBVIOUS
  <2>2. PICK f : Upto(f, k)
    BY <1>2, <2>1
  <2>3. \A i \in 1 .. n + 1 : f[i] = IF i > n + 1 - k THEN FormStep(i, s, d, f) ELSE <<>>
    <3> DEFINE h == [i \in 1 .. n + 1 |-> IF i > n + 1 - k THEN FormStep(i, s, d, f) ELSE <<>>]
    <3>1. f = h
      BY <2>2
    <3> QED
      BY <3>1, Zenon
  <2> DEFINE g == [i \in 1 .. n + 1 |-> IF i > n + 1 - (k + 1) THEN FormStep(i, s, d, f) ELSE <<>>]
  <2>4. \A i \in 1 .. n + 1 : i > n + 1 - k => g[i] = f[i]
    <3> TAKE i \in 1 .. n + 1
    <3>1. HAVE i > n + 1 - k
    <3>2. i > n + 1 - (k + 1)
      BY <3>1
    <3>3. f[i] = FormStep(i, s, d, f)
      BY <2>3, <3>1
    <3>4. g[i] = FormStep(i, s, d, f)
      BY <3>2
    <3> QED
      BY <3>3, <3>4
  <2>5. ASSUME NEW i \in 1 .. n + 1, i > n + 1 - (k + 1) PROVE FormStep(i, s, d, f) = FormStep(i, s, d, g)
    <3> HIDE DEF g
    <3>1. \A j \in 1 .. n + 1 : j > i => j > n + 1 - k
      BY <2>5
    <3>2. \A j \in 1 .. n + 1 : j > i => g[j] = f[j]
      BY <2>4, <3>1
    <3>3. FormStepSame(i, s, d, f, g)
      BY <1>0, <3>2, FormStepReads
    <3> QED
      BY <3>3 DEF FormStepSame
  <2>6. g = [i \in 1 .. n + 1 |-> IF i > n + 1 - (k + 1) THEN FormStep(i, s, d, g) ELSE <<>>]
    BY <2>5
  <2> HIDE DEF g
  <2>7. Upto(g, k + 1)
    BY <2>6
  <2> QED
    BY <2>7
<1> HIDE DEF T
<1>3. \A k \in Nat : k \in T
  BY <1>1, <1>2, Induct
<1>4. n + 1 \in T
  BY <1>3
<1>5. PICK f : Upto(f, n + 1)
  BY <1>4 DEF T
<1>6. f = [i \in 1 .. n + 1 |-> FormStep(i, s, d, f)]
  <2>1. \A i \in 1 .. n + 1 : i > n + 1 - (n + 1)
    OBVIOUS
  <2> QED
    BY <1>5, <2>1
<1> QED
  BY <1>0, <1>6 DEF FormSteps

Multipart(type) ==
  find(type, <<"multipart/form-data">>, 1) # 0 /\ find(type, <<"boundary=">>, 1) # 0

Delimiter(type) == <<"-", "-">> \o Boundary(type)

\* parse takes one such function.
LEMMA FormParsed ==
  ASSUME NEW A, NEW request, NEW type, request.body \in Seq(A), Delimiter(type) \in Seq(A),
         Delimiter(type) # <<>>, getHeader(request, <<"Content-Type">>) = {type}, Multipart(type)
  PROVE  \E f : FormSteps(f, request.body, Delimiter(type)) /\ parse(request) = {f[1]}
<1> DEFINE d == Delimiter(type)
           s == request.body
           result == CHOOSE f : FormSteps(f, s, d)
           Chosen == CHOOSE v \in getHeader(request, <<"Content-Type">>) : TRUE
<1>1. FormSteps(result, s, d)
  BY FormStepsExist
<1>2. Chosen = type /\ getHeader(request, <<"Content-Type">>) # {}
  OBVIOUS
<1> DEFINE Parsed0(t) ==
     IF \/ getHeader(request, <<"Content-Type">>) = {}
        \/ find(t, <<"multipart/form-data">>, 1) = 0
        \/ find(t, <<"boundary=">>, 1) = 0
     THEN {} ELSE {(CHOOSE f : FormSteps(f, s, Delimiter(t)))[1]}
<1>3. parse(request) = Parsed0(Chosen)
  BY Zenon DEF parse, FormSteps, FormStep, PartStart, Delimiter
<1> HIDE DEF Chosen
<1>4. parse(request) = {result[1]}
  BY <1>2, <1>3 DEF Multipart
<1> HIDE DEF result
<1> QED
  BY <1>1, <1>4

-----------------------------------------------------------------------------
(* The boundary a form announces.                                          *)

FormSymbols ==
  {"-", CRLF, "name", ":", " ", "Content-Type", "a", "b", Quote, "multipart/form-data", ";", "boundary="}
  \cup Ten

FormAlphabet(A) == FormSymbols \subseteq A

TypeWords == <<"multipart/form-data", ";", " ", "boundary=">>

BoundaryText(q) == IF q.quoted THEN Quoted(q.boundary) ELSE q.boundary

\* The forms over A: the boundary is one line, stands in no content, and an
\* unquoted one does not begin with a quote.
AnyForms(A) ==
  {q \in [kind : {"form"}, boundary : Seq(A \ {CRLF}), quoted : BOOLEAN, preamble : BOOLEAN,
          contents : Seq(Seq(A))] :
     /\ q.quoted \/ q.boundary = <<>> \/ q.boundary[1] # Quote
     /\ \A i \in DOMAIN q.contents : ~Occurs(<<"-", "-">> \o q.boundary, q.contents[i])}

LEMMA FormParts ==
  ASSUME NEW A, NEW q \in AnyForms(A)
  PROVE  /\ q.boundary \in Seq(A \ {CRLF}) /\ q.boundary \in Seq(A)
         /\ q.quoted \in BOOLEAN /\ q.preamble \in BOOLEAN /\ q.contents \in Seq(Seq(A))
         /\ q.quoted \/ q.boundary = <<>> \/ q.boundary[1] # Quote
         /\ \A i \in DOMAIN q.contents : ~Occurs(<<"-", "-">> \o q.boundary, q.contents[i])
<1>1. A \ {CRLF} \subseteq A
  OBVIOUS
<1> QED
  BY <1>1, SeqMonotonic DEF AnyForms

LEMMA FormTypeIs == ASSUME NEW q PROVE FormType(q) = TypeWords \o BoundaryText(q)
BY Zenon DEF FormType, TypeWords, BoundaryText, Quoted, Quote

LEMMA BoundaryIs ==
  ASSUME NEW type
  PROVE  LET b == From(type, find(type, <<"boundary=">>, 1) + 1)
         IN  Boundary(type) = IF b # <<>> /\ b[1] = Quote THEN SubSeq(b, 2, Len(b) - 1) ELSE b
BY Zenon DEF Boundary, Quote

\* The boundary is read from the header, with or without quotes.
LEMMA BoundaryRead ==
  ASSUME NEW A, FormAlphabet(A), NEW q \in AnyForms(A)
  PROVE  Multipart(FormType(q)) /\ Boundary(FormType(q)) = q.boundary
<1> DEFINE B == BoundaryText(q)
           t == TypeWords \o B
           multipart == "multipart/form-data"
           boundary == "boundary="
<1>1. TypeWords \in Seq(A) /\ Len(TypeWords) = 4
  <2>1. "multipart/form-data" \in A /\ ";" \in A /\ " " \in A /\ "boundary=" \in A
    BY Zenon DEF FormAlphabet, FormSymbols
  <2> QED
    BY <2>1, FourAre, Zenon DEF TypeWords
<1>2. TypeWords[1] = multipart /\ TypeWords[2] # boundary /\ TypeWords[3] # boundary /\ TypeWords[4] = boundary
  BY DEF TypeWords
<1>3. multipart # boundary /\ multipart \in A /\ boundary \in A /\ Quote \in A
  BY DEF FormAlphabet, FormSymbols, Quote
<1>4. q.boundary \in Seq(A) /\ q.quoted \in BOOLEAN /\ (q.quoted \/ q.boundary = <<>> \/ q.boundary[1] # Quote)
  BY FormParts
<1>5. B \in Seq(A)
  BY <1>3, <1>4, QuotedIs DEF BoundaryText
<1>6. (IF B # <<>> /\ B[1] = Quote THEN SubSeq(B, 2, Len(B) - 1) ELSE B) = q.boundary
  <2>1. CASE q.quoted
    <3>1. B = Quoted(q.boundary)
      BY <2>1 DEF BoundaryText
    <3> HIDE DEF B
    <3> QED
      BY <1>3, <1>4, <3>1, QuotedIs
  <2>2. CASE ~q.quoted
    <3>1. B = q.boundary
      BY <2>2 DEF BoundaryText
    <3> HIDE DEF B
    <3> QED
      BY <1>4, <2>2, <3>1
  <2> QED
    BY <2>1, <2>2
<1> HIDE DEF B, multipart, boundary
<1>7. PICK n \in Nat : n = Len(B)
  BY <1>5, LenProperties
<1>8. t \in Seq(A) /\ Joins(t, TypeWords, B)
  BY <1>1, <1>5, JoinsConcat
<1>9. Len(t) = 4 + n /\ \A i \in 1 .. 4 : t[i] = TypeWords[i]
  BY <1>1, <1>7, <1>8 DEF Joins
<1>10. SubSeq(t, 5, Len(t)) = B
  <2>1. SubSeq(t, Len(TypeWords) + 1, Len(TypeWords) + Len(B)) = B
    BY <1>1, <1>5, SecondPart
  <2> HIDE DEF t
  <2> QED
    BY <1>1, <1>7, <1>9, <2>1
<1> HIDE DEF t
<1>11. t[1] = multipart /\ t[1] # boundary /\ t[2] # boundary /\ t[3] # boundary /\ t[4] = boundary
  BY <1>2, <1>3, <1>9
<1>12. PICK one \in Nat \ {0} : one = 1
  OBVIOUS
<1>13. find(t, <<multipart>>, one) = one
  <2>1. one \in one .. Len(t) /\ t[one] = multipart /\ \A i \in one .. one - 1 : t[i] # multipart
    BY <1>9, <1>11, <1>12
  <2> QED
    BY <1>3, <1>8, <2>1, FindSymbol
<1>14. find(t, <<boundary>>, one) = 4
  <2>1. \A i \in one .. 4 - 1 : t[i] # boundary
    <3> TAKE i \in one .. 4 - 1
    <3>1. i = 1 \/ i = 2 \/ i = 3
      BY <1>12
    <3> QED
      BY <1>11, <3>1
  <2>2. 4 \in one .. Len(t)
    BY <1>9, <1>12
  <2> QED
    BY <1>3, <1>8, <1>11, <2>1, <2>2, FindSymbol
<1>15. find(t, <<"multipart/form-data">>, 1) = 1 /\ find(t, <<"boundary=">>, 1) = 4
  BY <1>12, <1>13, <1>14 DEF multipart, boundary
<1>16. From(t, 4 + 1) = B
  BY <1>10 DEF From
<1>17. Boundary(t) = q.boundary
  BY <1>6, <1>15, <1>16, BoundaryIs
<1>18. Multipart(t)
  BY <1>15 DEF Multipart
<1>19. FormType(q) = t
  BY FormTypeIs DEF t, B
<1> QED
  BY <1>17, <1>18, <1>19

-----------------------------------------------------------------------------
(* Where a boundary does not stand.                                        *)

LEMMA OccursFree ==
  ASSUME NEW A, NEW s \in Seq(A), NEW t \in Seq(A), t # <<>>, ~Occurs(t, s)
  PROVE  Free(s, t)
<1>0. PICK n \in Nat, m \in Nat : n = Len(s) /\ m = Len(t) /\ m # 0
  BY LenProperties, EmptySeq
<1> SUFFICES ASSUME NEW i \in 1 .. n, i + m - 1 <= n, At(s, t, i) PROVE Occurs(t, s)
  BY <1>0 DEF Free, Stands
<1> DEFINE u == SubSeq(s, i, n)
           v == SubSeq(u, 1, m)
<1>1. i \in 1 .. Len(s) + 1 /\ n \in i - 1 .. Len(s) /\ n - i + 1 \in Nat /\ m <= n - i + 1
  BY <1>0
<1>2. u \in Seq(A) /\ Len(u) = n - i + 1 /\ \A k \in 1 .. n - i + 1 : u[k] = s[i + k - 1]
  <2>1. i \in Int /\ n \in Int /\ i <= n
    OBVIOUS
  <2>2. \A j \in i .. n : s[j] \in A
    BY <1>0, ElementOfSeq
  <2> QED
    BY <2>1, <2>2, SubSeqProperties
<1> HIDE DEF u
<1>3. v \in Seq(A) /\ Len(v) = m /\ \A k \in 1 .. m : v[k] = u[k]
  <2>1. m \in 0 .. Len(u)
    BY <1>1, <1>2
  <2> QED
    BY <1>2, <2>1, PrefixIs
<1> HIDE DEF v
<1>4. \A k \in 1 .. m : v[k] = t[k]
  <2>1. \A k \in 1 .. m : k \in 1 .. n - i + 1 /\ s[i + k - 1] = t[k]
    BY <1>0, <1>1 DEF At
  <2> QED
    BY <1>2, <1>3, <2>1
<1>5. v = t
  BY <1>0, <1>3, <1>4, SeqEqual
<1>6. SubSeq(t, 1, Len(t)) = t
  <2>1. t \o <<>> = t /\ <<>> \in Seq(A)
    BY ConcatEmptySeq, EmptySeq
  <2>2. SubSeq(t \o <<>>, 1, Len(t)) = t
    BY <2>1, FirstPart
  <2> QED
    BY <2>1, <2>2
<1>7. Len(t) <= Len(u) /\ SubSeq(t, 1, Len(t)) = SubSeq(u, 1, Len(t))
  BY <1>0, <1>1, <1>2, <1>5, <1>6 DEF v
<1>8. IsPrefix(t, SubSeq(s, i, Len(s)))
  BY <1>0, <1>7, Zenon DEF IsPrefix, u
<1>9. i \in 1 .. Len(s)
  BY <1>0
<1> QED
  BY <1>8, <1>9, Zenon DEF Occurs

-----------------------------------------------------------------------------
(* The text of a field.                                                    *)

NameHeader(i) == Header(<<"name">>, to_string(i))

TypeHeader == Header(<<"Content-Type">>, <<"a", ":", "b">>)

FieldHeaders(i) == <<NameHeader(i), TypeHeader>>

FieldHead(i) == HeaderLine(NameHeader(i)) \o HeaderLine(TypeHeader)

\* A part, from behind the line end of its boundary to the next boundary.
PartOf(i, c) == ((FieldHead(i) \o Line) \o c) \o Line

FieldOf(d, i, c) == d \o (Line \o PartOf(i, c))

LEMMA FieldHeadersLegal ==
  ASSUME NEW A, FormAlphabet(A), NEW i \in Nat
  PROVE  /\ NameHeader(i) \in HeaderOf(A \ {Dash}) /\ TypeHeader \in HeaderOf(A \ {Dash})
         /\ to_string(i) \in Seq(A)
<1>1. to_string(i) \in Seq(DOMAIN Digit)
  BY NumbersReadBack DEF Numeral, Figures
<1>2. DOMAIN Digit \subseteq (A \ {Dash}) \ {CRLF}
  <2>1. \A h \in Ten : h \in A /\ h # CRLF /\ h # Dash
    BY Zenon DEF FormAlphabet, FormSymbols, Ten, CRLF, Dash
  <2> QED
    BY <2>1, DigitIs
<1>3. to_string(i) \in Seq((A \ {Dash}) \ {CRLF})
  BY <1>1, <1>2, SeqMonotonic
<1>4. (A \ {Dash}) \ {CRLF} \subseteq A
  OBVIOUS
<1>5. to_string(i) \in Seq(A)
  BY <1>3, <1>4, SeqMonotonic
<1>6. \A c \in {"name", "Content-Type"} : c \in (A \ {Dash}) \ {CRLF, Colon}
  BY Zenon DEF FormAlphabet, FormSymbols, CRLF, Colon, Dash
<1>7. \A c \in {"a", "b", ":"} : c \in (A \ {Dash}) \ {CRLF}
  BY Zenon DEF FormAlphabet, FormSymbols, CRLF, Dash
<1> DEFINE B == A \ {Dash}
<1>8. /\ <<"name">> \in Seq(B \ {CRLF, Colon}) \ {<<>>}
      /\ <<"Content-Type">> \in Seq(B \ {CRLF, Colon}) \ {<<>>}
      /\ <<"a", ":", "b">> \in Seq(B \ {CRLF})
  BY <1>6, <1>7
<1> HIDE DEF B
<1>9. to_string(i) \in Seq(B \ {CRLF})
  BY <1>3 DEF B
<1>10. NameHeader(i) \in HeaderOf(B) /\ TypeHeader \in HeaderOf(B)
  BY <1>8, <1>9, Zenon DEF NameHeader, TypeHeader, Header, HeaderOf
<1> QED
  BY <1>5, <1>10 DEF B

FieldWritten(d, i, c) ==
  d \o <<CRLF, "name", ":", " ">> \o to_string(i)
  \o <<CRLF, "Content-Type", ":", " ", "a", ":", "b", CRLF, CRLF>> \o c \o <<CRLF>>

LEMMA FormTextIs ==
  ASSUME NEW q
  PROVE  FormText(q) = ((Preamble(q)
                         \o FlattenSeq([i \in DOMAIN q.contents |-> FieldWritten(Opening(q), i, q.contents[i])]))
                        \o Opening(q)) \o <<"-", "-", CRLF>>
BY Zenon DEF FormText, Opening, Preamble, FieldWritten

LEMMA FieldWrittenIs ==
  ASSUME NEW A, FormAlphabet(A), NEW d \in Seq(A), NEW i \in Nat, NEW c \in Seq(A)
  PROVE  FieldWritten(d, i, c) = FieldOf(d, i, c)
<1> DEFINE x == <<"name">> \o <<":", " ">>
           y == HeaderLine(TypeHeader)
           n == to_string(i)
           four == <<CRLF, "name", ":", " ">>
           nine == <<CRLF, "Content-Type", ":", " ", "a", ":", "b", CRLF, CRLF>>
<1>1. "name" \in A /\ ":" \in A /\ " " \in A /\ "Content-Type" \in A /\ "a" \in A /\ "b" \in A /\ CRLF \in A
  BY Zenon DEF FormAlphabet, FormSymbols
<1>2. four = Line \o x
  <2>1. FourParts(CRLF, "name", ":", " ")
    BY <1>1, FourConcat, Zenon
  <2> QED
    BY <2>1, Zenon DEF FourParts, Line
<1>3. y = ((<<"Content-Type">> \o <<":", " ">>) \o <<"a", ":", "b">>) \o <<CRLF>>
  BY Zenon DEF HeaderLine, TypeHeader, Header
<1>4. nine = (Line \o y) \o Line
  <2>1. nine = (<<CRLF>> \o (((<<"Content-Type">> \o <<":", " ">>) \o <<"a", ":", "b">>) \o <<CRLF>>)) \o <<CRLF>>
    <3>1. NineParts(CRLF, "Content-Type", ":", " ", "a", "b")
      BY <1>1, NineConcat, Zenon
    <3> QED
      BY <3>1, Zenon DEF NineParts
  <2> QED
    BY <1>3, <2>1, Zenon DEF Line
<1>5. n \in Seq(A) /\ Line \in Seq(A) /\ y \in Seq(A)
  <2>1. n \in Seq(A)
    BY FieldHeadersLegal
  <2>2. Line \in Seq(A)
    BY <1>1, OneIsSeq, Zenon DEF Line
  <2>3. TypeHeader \in HeaderOf(A \ {Dash})
    BY FieldHeadersLegal
  <2>4. Colon \in A \ {Dash} /\ Blank \in A \ {Dash} /\ CRLF \in A \ {Dash}
    BY <1>1, Zenon DEF Colon, Blank, CRLF, Dash
  <2>5. y \in Seq(A \ {Dash})
    BY <2>3, <2>4, LineIs
  <2>6. A \ {Dash} \subseteq A
    OBVIOUS
  <2> QED
    BY <2>1, <2>2, <2>5, <2>6, SeqMonotonic
<1>6. x \in Seq(A)
  <2>1. <<"name">> \in Seq(A) /\ <<":", " ">> \in Seq(A)
    BY <1>1, OneIsSeq, TwoAreSeq, Zenon
  <2> QED
    BY <2>1, ConcatProperties
<1>7. HeaderLine(NameHeader(i)) = (x \o n) \o Line
  BY Zenon DEF HeaderLine, NameHeader, Header, Line
<1>8. FieldWritten(d, i, c) = ((((d \o (Line \o x)) \o n) \o ((Line \o y) \o Line)) \o c) \o Line
  BY <1>2, <1>4, Zenon DEF FieldWritten, Line
<1>9. FieldOf(d, i, c) = d \o (Line \o (((((((x \o n) \o Line) \o y)) \o Line) \o c) \o Line))
  BY <1>7, Zenon DEF FieldOf, PartOf, FieldHead
<1> HIDE DEF x, y, n
<1>10. Regrouped(d, Line, x, n, y, c)
  BY <1>5, <1>6, Regroup
<1> QED
  BY <1>8, <1>9, <1>10, Zenon DEF Regrouped

LEMMA FieldHeadIs ==
  ASSUME NEW A, FormAlphabet(A), NEW i \in Nat
  PROVE  /\ FieldHead(i) \in Seq(A \ {Dash}) /\ FieldHead(i) \in Seq(A) /\ Ended(FieldHead(i))
         /\ Line \in Seq(A) /\ Len(Line) = 1 /\ Line[1] = CRLF
<1> DEFINE B == A \ {Dash}
           u == HeaderLine(NameHeader(i))
           v == HeaderLine(TypeHeader)
<1>1. Colon \in B /\ Blank \in B /\ CRLF \in B
  BY Zenon DEF FormAlphabet, FormSymbols, Colon, Blank, CRLF, Dash
<1>2. NameHeader(i) \in HeaderOf(B) /\ TypeHeader \in HeaderOf(B)
  BY FieldHeadersLegal
<1>3. B \subseteq A
  OBVIOUS
<1> HIDE DEF B
<1>4. u \in Seq(B) /\ LineShape(u, NameHeader(i)) /\ v \in Seq(B) /\ LineShape(v, TypeHeader)
  BY <1>1, <1>2, LineIs
<1>5. Ended(u) /\ Ended(v)
  BY <1>2, <1>4, LineEnded
<1> HIDE DEF u, v
<1>6. u \o v \in Seq(B) /\ Ended(u \o v)
  BY <1>4, <1>5, JoinsConcat, EndedJoins
<1>7. u \o v \in Seq(A)
  BY <1>3, <1>6, SeqMonotonic
<1>8. Line \in Seq(A) /\ Len(Line) = 1 /\ Line[1] = CRLF
  BY <1>1, <1>3 DEF Line
<1>9. FieldHead(i) = u \o v
  BY Zenon DEF FieldHead, u, v
<1> QED
  BY <1>6, <1>7, <1>8, <1>9 DEF B

\* Nothing between two boundaries looks like one.
LEMMA PartIs ==
  ASSUME NEW A, FormAlphabet(A), NEW i \in Nat, NEW c \in Seq(A)
  PROVE  /\ PartOf(i, c) \in Seq(A) /\ Len(PartOf(i, c)) # 0
         /\ PartOf(i, c)[Len(PartOf(i, c))] = CRLF
         /\ \A d \in Seq(A \ {CRLF}) : d # <<>> /\ d[1] = Dash /\ Free(c, d) => Free(PartOf(i, c), d)
<1> DEFINE b == FieldHead(i)
           x == b \o Line
           y == x \o c
           w == y \o Line
<1>1. /\ b \in Seq(A \ {Dash}) /\ b \in Seq(A)
      /\ Line \in Seq(A) /\ Len(Line) = 1 /\ Line[1] = CRLF
  BY FieldHeadIs
<1>2. CRLF \in A
  BY DEF FormAlphabet, FormSymbols
<1> HIDE DEF b
<1>3. x \in Seq(A)
  BY <1>1, ConcatProperties
<1> HIDE DEF x
<1>4. y \in Seq(A)
  BY <1>3, ConcatProperties
<1> HIDE DEF y
<1>5. w \in Seq(A) /\ Joins(w, y, Line)
  BY <1>1, <1>4, JoinsConcat
<1> HIDE DEF w
<1>6. Len(w) # 0 /\ w[Len(w)] = CRLF
  <2>1. PICK k \in Nat : k = Len(y)
    BY <1>4, LenProperties
  <2>2. Len(w) = k + 1 /\ w[k + 1] = Line[1]
    BY <1>1, <1>5, <2>1 DEF Joins
  <2> QED
    BY <1>1, <2>1, <2>2
<1>7. ASSUME NEW d \in Seq(A \ {CRLF}), d # <<>>, d[1] = Dash, Free(c, d) PROVE Free(w, d)
  <2>1. PICK m \in Nat : m = Len(d) /\ m # 0
    BY <1>7, LenProperties, EmptySeq
  <2>2. Free(b, d)
    BY <1>1, <1>7, <2>1, FreeWithout
  <2>3. Free((b \o <<CRLF>>) \o c, d)
    BY <1>1, <1>2, <1>7, <2>2, FreeJoins
  <2>4. Free(y, d)
    BY <2>3 DEF x, y, Line
  <2>5. Free(y \o <<CRLF>>, d)
    BY <1>2, <1>4, <1>7, <2>4, FreeLine
  <2> QED
    BY <2>5 DEF w, Line
<1>8. PartOf(i, c) = w
  BY Zenon DEF PartOf, w, y, x, b
<1> QED
  BY <1>5, <1>6, <1>7, <1>8

-----------------------------------------------------------------------------
(* What is read of a part.                                                 *)

NoneBlank(lines) == \A i \in DOMAIN lines : lines[i] # <<>>

LEMMA NoBlank == ASSUME NEW lines, NoneBlank(lines) PROVE UpToBlank(lines) = lines
<1>1. {i \in DOMAIN lines : lines[i] = <<>>} = {}
  BY DEF NoneBlank
<1> QED
  BY <1>1 DEF UpToBlank

FieldMap(i) == [name \in {<<"name">>, <<"Content-Type">>} |->
                  IF name = <<"name">> THEN to_string(i) ELSE <<"a", ":", "b">>]

LEMMA FieldMapIs ==
  ASSUME NEW i
  PROVE  Assigned(HeaderPairs(FieldHeaders(i))) = FieldMap(i)
<1> DEFINE p == [key |-> <<"name">>, value |-> to_string(i)]
           r == [key |-> <<"Content-Type">>, value |-> <<"a", ":", "b">>]
           P == HeaderPairs(FieldHeaders(i))
           Q == <<p, r>>
           K == {Q[j].key : j \in DOMAIN Q}
           last(k) == {j \in DOMAIN Q : Q[j].key = k}
<1>1. P = Q
  <2>1. DOMAIN FieldHeaders(i) = 1 .. 2
    BY DEF FieldHeaders
  <2>2. HeaderPair(FieldHeaders(i)[1]) = p /\ HeaderPair(FieldHeaders(i)[2]) = r
    BY DEF FieldHeaders, HeaderPair, NameHeader, TypeHeader, Header
  <2>3. P = [j \in 1 .. 2 |-> HeaderPair(FieldHeaders(i)[j])]
    BY <2>1 DEF HeaderPairs
  <2> DEFINE H(j) == HeaderPair(FieldHeaders(i)[j])
  <2>4. H(1) = p /\ H(2) = r
    BY <2>2
  <2> HIDE DEF H, p, r
  <2>5. [j \in 1 .. 2 |-> H(j)] = <<p, r>>
    BY <2>4
  <2> QED
    BY <2>3, <2>5 DEF H
<1>2. <<"name">> # <<"Content-Type">>
  OBVIOUS
<1>3. DOMAIN Q = {1, 2} /\ Q[1] = p /\ Q[2] = r
  OBVIOUS
<1>4. p.key = <<"name">> /\ r.key = <<"Content-Type">> /\ p.value = to_string(i) /\ r.value = <<"a", ":", "b">>
  OBVIOUS
<1> HIDE DEF p, r, Q
<1>5. K = {<<"name">>, <<"Content-Type">>}
  BY <1>3, <1>4
<1>6. last(<<"name">>) = {1} /\ last(<<"Content-Type">>) = {2}
  BY <1>2, <1>3, <1>4
<1>7. Max({1}) = 1 /\ Max({2}) = 2
  <2>1. {1} \subseteq 1 .. 2 /\ {2} \subseteq 1 .. 2 /\ {1} # {} /\ {2} # {}
    OBVIOUS
  <2> QED
    BY <2>1, Greatest
<1> DEFINE M == [k \in K |-> Q[Max(last(k))].value]
<1>8. Assigned(P) = M
  BY <1>1, Zenon DEF Assigned
<1>9. \A k \in K : Q[Max(last(k))].value = IF k = <<"name">> THEN to_string(i) ELSE <<"a", ":", "b">>
  <2> TAKE k \in K
  <2>1. CASE k = <<"name">>
    BY <1>3, <1>4, <1>6, <1>7, <2>1
  <2>2. CASE k = <<"Content-Type">>
    BY <1>2, <1>3, <1>4, <1>6, <1>7, <2>2
  <2> QED
    BY <1>5, <2>1, <2>2
<1> HIDE DEF last
<1>10. M = FieldMap(i)
  BY <1>5, <1>9 DEF FieldMap
<1> QED
  BY <1>8, <1>10

\* The lines of a part's head.
LEMMA FieldLines ==
  ASSUME NEW A, FormAlphabet(A), NEW i \in Nat, NEW e, e = (Written(NameHeader(i)) \o Line) \o Written(TypeHeader)
  PROVE  /\ e \in Seq(A) /\ FieldHead(i) = e \o Line
         /\ HeaderMap(split(e, CRLF)) = FieldMap(i)
<1> DEFINE B == A \ {Dash}
           u == Written(NameHeader(i))
           v == Written(TypeHeader)
           hs == FieldHeaders(i)
           W == A \ {CRLF}
<1>1. Colon \in A /\ Blank \in A /\ CRLF \in A
  BY Zenon DEF FormAlphabet, FormSymbols, Colon, Blank, CRLF
<1>2. NameHeader(i) \in HeaderOf(A) /\ TypeHeader \in HeaderOf(A)
  <2>1. NameHeader(i) \in HeaderOf(B) /\ TypeHeader \in HeaderOf(B)
    BY FieldHeadersLegal
  <2>2. B \ {CRLF, Colon} \subseteq A \ {CRLF, Colon} /\ B \ {CRLF} \subseteq A \ {CRLF}
    OBVIOUS
  <2> HIDE DEF B
  <2>3. Seq(B \ {CRLF, Colon}) \subseteq Seq(A \ {CRLF, Colon}) /\ Seq(B \ {CRLF}) \subseteq Seq(A \ {CRLF})
    BY <2>2, SeqMonotonic
  <2> QED
    BY <2>1, <2>3 DEF HeaderOf
<1>3. /\ u \in Seq(W) /\ u # <<>> /\ HeaderLine(NameHeader(i)) = u \o Line
      /\ v \in Seq(W) /\ v # <<>> /\ HeaderLine(TypeHeader) = v \o Line
  BY <1>1, <1>2, WrittenIs DEF Line
<1>4. hs \in Seq(HeaderOf(A)) /\ Len(hs) = 2 /\ hs[1] = NameHeader(i) /\ hs[2] = TypeHeader
  BY <1>2 DEF FieldHeaders
<1>5. u \in Seq(A) /\ v \in Seq(A) /\ Line \in Seq(A)
  <2>1. W \subseteq A
    OBVIOUS
  <2> HIDE DEF W
  <2>2. u \in Seq(A) /\ v \in Seq(A)
    BY <1>3, <2>1, SeqMonotonic
  <2> QED
    BY <1>1, <2>2, OneIsSeq DEF Line
<1> HIDE DEF u, v, W
<1>6. Associate(u, Line, v) /\ (u \o Line) \in Seq(A) /\ Line \o v \in Seq(A)
  BY <1>5, Associates, ConcatProperties
<1>7. e = (u \o Line) \o v /\ e = u \o (Line \o v)
  BY <1>6, Zenon DEF Associate, u, v
<1>8. e \in Seq(A)
  BY <1>5, <1>6, <1>7, ConcatProperties
<1>9. FieldHead(i) = e \o Line
  <2> DEFINE x == u \o Line
  <2>1. x \in Seq(A)
    BY <1>6
  <2> HIDE DEF x
  <2>2. Associate(x, v, Line)
    BY <1>5, <2>1, Associates
  <2> QED
    BY <1>3, <1>7, <2>2, Zenon DEF FieldHead, Associate, x
<1>10. split(e, CRLF) = <<u, v>>
  <2>1. split(u \o (<<CRLF>> \o v), CRLF) = Append(split(u, CRLF), v)
    BY <1>1, <1>3, <1>5, SplitMore DEF W
  <2>2. EndsIn(u, CRLF, <<>>, u)
    BY <1>3, SplitOnce DEF W
  <2>3. Append(<<>>, u) = <<u>>
    OBVIOUS
  <2>4. split(u, CRLF) = <<u>>
    BY <2>2, <2>3 DEF EndsIn
  <2>5. Append(<<u>>, v) = <<u, v>>
    BY <1>5, Both
  <2> QED
    BY <1>7, <2>1, <2>4, <2>5 DEF Line
<1>11. Writtens(hs) = <<u, v>>
  <2>1. /\ Writtens(hs) \in Seq(Seq(A \ {CRLF}) \ {<<>>}) /\ Len(Writtens(hs)) = Len(hs)
        /\ \A j \in 1 .. Len(hs) : Writtens(hs)[j] = Written(hs[j])
    BY <1>1, <1>4, WrittensAre
  <2>2. Len(Writtens(hs)) = 2 /\ Writtens(hs)[1] = u /\ Writtens(hs)[2] = v
    BY <1>4, <2>1 DEF u, v
  <2>3. PICK w : w = Writtens(hs)
    OBVIOUS
  <2>4. PICK S : w \in Seq(S) /\ Len(w) = 2 /\ w[1] = u /\ w[2] = v
    BY <2>1, <2>2, <2>3
  <2>5. w = <<u, v>>
    BY <2>4
  <2> QED
    BY <2>3, <2>5
<1>12. NoneBlank(<<u, v>>)
  <2> DEFINE t == <<u, v>>
  <2>1. DOMAIN t = 1 .. 2 /\ t[1] = u /\ t[2] = v
    OBVIOUS
  <2> HIDE DEF t
  <2>2. NoneBlank(t)
    BY <1>3, <2>1 DEF NoneBlank
  <2> QED
    BY <2>2 DEF t
<1>13. UpToBlank(split(e, CRLF)) = Writtens(hs)
  BY <1>10, <1>11, <1>12, NoBlank
<1>14. HeaderMap(split(e, CRLF)) = Assigned(HeaderPairs(hs))
  BY <1>1, <1>4, <1>13, HeadersMapped
<1> QED
  BY <1>8, <1>9, <1>14, FieldMapIs

FieldRead(part) ==
  LET headerEnd == find(part, HeadEnd, 1)
  IN  IF headerEnd = 0 THEN <<>>
      ELSE <<[headers |-> HeaderMap(split(SubSeq(part, 1, headerEnd - 1), CRLF)),
              content |-> StripLineEnds(From(part, headerEnd + 2))]>>

LEMMA FieldsIs == ASSUME NEW part PROVE Fields(part) = FieldRead(part)
BY Zenon DEF Fields, FieldRead, HeadEnd

FieldFound(i, c) == [headers |-> FieldMap(i), content |-> StripLineEnds(c \o Line)]

LEMMA PartRead ==
  ASSUME NEW A, FormAlphabet(A), NEW i \in Nat, NEW c \in Seq(A)
  PROVE  Fields(PartOf(i, c)) = <<FieldFound(i, c)>>
<1> DEFINE b == FieldHead(i)
           e == (Written(NameHeader(i)) \o Line) \o Written(TypeHeader)
           x == b \o Line
           y == c \o Line
           w == x \o y
<1>1. CRLF \in A
  BY DEF FormAlphabet, FormSymbols
<1>2. b \in Seq(A) /\ Ended(b) /\ Line \in Seq(A) /\ Len(Line) = 1 /\ Line[1] = CRLF
  BY FieldHeadIs
<1>3. e \in Seq(A) /\ b = e \o Line /\ HeaderMap(split(e, CRLF)) = FieldMap(i)
  BY FieldLines
<1>4. PICK m \in Nat : m = Len(b)
  BY <1>2, LenProperties
<1> DEFINE part == PartOf(i, c)
<1>5. part = ((b \o Line) \o c) \o Line
  BY Zenon DEF PartOf
<1> HIDE DEF b, e, part
<1>6. x \in Seq(A) /\ Joins(x, b, Line)
  BY <1>2, JoinsConcat
<1>7. Len(x) = m + 1 /\ x[m + 1] = CRLF /\ \A j \in 1 .. m : x[j] = b[j]
  BY <1>2, <1>4, <1>6 DEF Joins
<1>8. y \in Seq(A)
  BY <1>2, ConcatProperties
<1>9. part = w
  <2> HIDE DEF x
  <2>1. Associate(x, c, Line)
    BY <1>2, <1>6, Associates
  <2> QED
    BY <1>5, <2>1, Zenon DEF Associate, x
<1> HIDE DEF x, y
<1>10. w \in Seq(A) /\ Joins(w, x, y)
  BY <1>6, <1>8, JoinsConcat
<1>11. PICK n \in Nat : n = Len(y)
  BY <1>8, LenProperties
<1>12. Len(w) = m + 1 + n /\ \A j \in 1 .. m + 1 : w[j] = x[j]
  BY <1>7, <1>10, <1>11 DEF Joins
<1>13. Headed(w, b)
  <2>1. \A j \in 1 .. m : w[j] = b[j]
    BY <1>7, <1>12
  <2>2. w[m + 1] = CRLF
    BY <1>7, <1>12
  <2> QED
    BY <1>4, <1>12, <2>1, <2>2 DEF Headed
<1>14. find(w, HeadEnd, 1) = m
  BY <1>1, <1>2, <1>4, <1>10, <1>13, EndFound
<1>15. m # 0
  BY <1>2, <1>4 DEF Ended
<1>16. From(w, m + 2) = y
  <2>1. SubSeq(x \o y, Len(x) + 1, Len(x) + Len(y)) = y
    BY <1>6, <1>8, SecondPart
  <2>2. Len(x) + 1 = m + 2 /\ Len(x) + Len(y) = Len(w)
    BY <1>7, <1>11, <1>12
  <2> QED
    BY <2>1, <2>2 DEF From
<1>17. SubSeq(w, 1, m - 1) = e
  <2> DEFINE z == Line \o (Line \o y)
             g == Line \o y
  <2>1. g \in Seq(A)
    BY <1>2, <1>8, ConcatProperties
  <2> HIDE DEF g
  <2>2. Line \o g \in Seq(A)
    BY <1>2, <2>1, ConcatProperties
  <2>3. Associate(b, Line, y) /\ Associate(e, Line, g)
    BY <1>2, <1>3, <1>8, <2>1, Associates
  <2>4. w = e \o (Line \o g)
    BY <1>3, <2>3, Zenon DEF Associate, x, g
  <2>5. SubSeq(e \o (Line \o g), 1, Len(e)) = e
    <3> DEFINE l == Line \o g
    <3>1. l \in Seq(A)
      BY <2>2
    <3> HIDE DEF l
    <3> QED
      BY <1>3, <3>1, FirstPart
  <2>6. Len(e) = m - 1
    <3>1. Joins(e \o Line, e, Line)
      BY <1>2, <1>3, JoinsConcat
    <3>2. Len(e) \in Nat
      BY <1>3, LenProperties
    <3> QED
      BY <1>2, <1>3, <1>4, <3>1, <3>2 DEF Joins
  <2> QED
    BY <2>4, <2>5, <2>6
<1> HIDE DEF w
<1>18. FieldRead(w) = <<[headers |-> HeaderMap(split(e, CRLF)), content |-> StripLineEnds(y)]>>
  BY <1>14, <1>15, <1>16, <1>17 DEF FieldRead
<1> QED
  BY <1>3, <1>9, <1>18, FieldsIs DEF FieldFound, y, part

\* Only line ends at the end of a content are lost.
LEMMA ContentRead ==
  ASSUME NEW A, CRLF \in A, NEW c \in Seq(A)
  PROVE  LessLineEnds(StripLineEnds(c \o Line), c)
<1> DEFINE w == c \o Line
           other == {i \in DOMAIN w : w[i] # CRLF}
           k == Max(other)
           got == SubSeq(w, 1, k)
<1>0. PICK n \in Nat : n = Len(c)
  BY LenProperties
<1>1. Line \in Seq(A) /\ Len(Line) = 1 /\ Line[1] = CRLF
  BY DEF Line
<1>2. w \in Seq(A) /\ Joins(w, c, Line)
  BY <1>1, JoinsConcat
<1>3. StripLineEnds(w) = IF other = {} THEN <<>> ELSE got
  BY Zenon DEF StripLineEnds
<1> HIDE DEF w
<1>4. Len(w) = n + 1 /\ w[n + 1] = CRLF /\ \A i \in 1 .. n : w[i] = c[i]
  BY <1>0, <1>1, <1>2 DEF Joins
<1>5. DOMAIN w = 1 .. n + 1
  BY <1>2, <1>4, LenProperties
<1>6. CASE other = {}
  <2> DEFINE none == <<>>
  <2>1. \A i \in 1 .. n : c[i] = CRLF
    BY <1>4, <1>5, <1>6
  <2>2. none \in Seq(A) /\ Len(none) = 0
    OBVIOUS
  <2>3. IsPrefix(none, c)
    <3>1. none \o c = c /\ SubSeq(none \o c, 1, Len(none)) = none
      BY <2>2, FirstPart, ConcatEmptySeq
    <3>2. none \o none = none /\ SubSeq(none \o none, 1, Len(none)) = none
      BY <2>2, FirstPart, ConcatEmptySeq
    <3> QED
      BY <1>0, <2>2, <3>1, <3>2 DEF IsPrefix
  <2>4. \A i \in (Len(none) + 1) .. Len(c) : c[i] = CRLF
    BY <1>0, <2>1, <2>2
  <2>5. LessLineEnds(none, c)
    BY <2>3, <2>4 DEF LessLineEnds
  <2> QED
    BY <1>3, <1>6, <2>5 DEF w
<1>7. CASE other # {}
  <2>1. other \subseteq 1 .. n + 1 /\ n + 1 \in Nat
    BY <1>5
  <2>2. k \in other /\ \A i \in other : i <= k
    BY <1>7, <2>1, Greatest
  <2>3. k \in 1 .. n + 1 /\ w[k] # CRLF
    BY <1>5, <2>2
  <2>4. k \in 1 .. n
    BY <1>4, <2>3
  <2>5. \A i \in 1 .. n + 1 : i > k => w[i] = CRLF
    <3> SUFFICES ASSUME NEW i \in 1 .. n + 1, i > k, w[i] # CRLF PROVE FALSE
      OBVIOUS
    <3>1. i \in other
      BY <1>5
    <3>2. i <= k
      BY <2>2, <3>1
    <3> QED
      BY <2>4, <3>2
  <2> HIDE DEF k
  <2>6. k \in 0 .. Len(w) /\ k \in 0 .. Len(c)
    BY <1>0, <1>4, <2>4
  <2>7. got \in Seq(A) /\ Len(got) = k /\ \A i \in 1 .. k : got[i] = w[i]
    BY <1>2, <2>6, PrefixIs
  <2> HIDE DEF got
  <2> DEFINE part == SubSeq(c, 1, k)
  <2>8. part \in Seq(A) /\ Len(part) = k /\ \A i \in 1 .. k : part[i] = c[i]
    BY <2>6, PrefixIs
  <2> HIDE DEF part
  <2>9. got = part
    <3>1. \A i \in 1 .. k : got[i] = part[i]
      BY <1>4, <2>4, <2>7, <2>8
    <3> QED
      BY <2>7, <2>8, <3>1, SeqEqual
  <2>10. IsPrefix(got, c)
    <3>1. got \o <<>> = got /\ SubSeq(got \o <<>>, 1, Len(got)) = got
      BY <2>7, EmptySeq, FirstPart, ConcatEmptySeq
    <3>2. Len(got) <= Len(c) /\ SubSeq(c, 1, Len(got)) = got
      BY <1>0, <2>4, <2>7, <2>9 DEF part
    <3> QED
      BY <3>1, <3>2 DEF IsPrefix
  <2>11. Last(got) # CRLF
    <3>1. got[k] = w[k]
      BY <2>4, <2>7
    <3> QED
      BY <2>3, <2>7, <3>1 DEF Last
  <2>12. \A i \in (Len(got) + 1) .. Len(c) : c[i] = CRLF
    <3> SUFFICES ASSUME NEW i \in k + 1 .. n PROVE c[i] = CRLF
      BY <1>0, <2>7
    <3>1. i \in 1 .. n /\ i \in 1 .. n + 1 /\ i > k
      BY <2>4
    <3> QED
      BY <1>4, <2>5, <3>1
  <2>13. LessLineEnds(got, c)
    BY <2>10, <2>11, <2>12 DEF LessLineEnds
  <2> QED
    BY <1>3, <1>7, <2>13 DEF w
<1> QED
  BY <1>6, <1>7

-----------------------------------------------------------------------------
(* From field to field.                                                    *)

Stepped(p, t, d, f, i, c) ==
  FormStep(p, t, d, f) = <<FieldFound(i, c)>> \o f[p + Len(FieldOf(d, i, c))]

\* At the boundary of a field: the field is found, and parse goes on behind it.
LEMMA FieldStep ==
  ASSUME NEW A, FormAlphabet(A), NEW d, IsDelimiter(A, d), NEW i \in Nat, NEW c \in Seq(A), Free(c, d),
         NEW x \in Seq(A), NEW r \in Seq(A), Begins(r, d), NEW f
  PROVE  Stepped(Len(x) + 1, x \o (FieldOf(d, i, c) \o r), d, f, i, c)
<1> DEFINE P == PartOf(i, c)
           F == FieldOf(d, i, c)
           t == x \o (F \o r)
<1>1. d \in Seq(A \ {CRLF}) /\ d \in Seq(A) /\ d # <<>> /\ d[1] = Dash
  BY DEF IsDelimiter
<1>2. P \in Seq(A) /\ Len(P) # 0 /\ P[Len(P)] = CRLF /\ Free(P, d)
  BY <1>1, PartIs
<1>3. CRLF \in A
  BY DEF FormAlphabet, FormSymbols
<1>4. F = d \o (Line \o P)
  BY Zenon DEF FieldOf
<1> HIDE DEF P, F
<1>5. Len(F) = Len(d) + 1 + Len(P) /\ t \in Seq(A) /\ FieldShape(t, Len(x), d, P, r)
  BY <1>1, <1>2, <1>3, <1>4, FieldStands
<1>6. PICK k \in Nat, m \in Nat, l \in Nat, n \in Nat : k = Len(x) /\ m = Len(d) /\ l = Len(P) /\ n = Len(r)
  BY <1>1, <1>2, LenProperties
<1>7. m # 0 /\ l # 0 /\ m <= n /\ \A j \in 1 .. m : r[j] = d[j]
  BY <1>1, <1>2, <1>6, EmptySeq DEF Begins
<1>8. Fields(P) = <<FieldFound(i, c)>>
  BY PartRead DEF P
<1> HIDE DEF t
<1>9. /\ Len(t) = k + m + 1 + l + n
      /\ \A j \in 1 .. m : t[k + j] = d[j]
      /\ t[k + m + 1] = CRLF
      /\ \A j \in 1 .. l : t[k + m + 1 + j] = P[j]
      /\ \A j \in 1 .. n : t[k + m + 1 + l + j] = r[j]
  BY <1>5, <1>6 DEF FieldShape
<1> DEFINE p == k + 1
           a == k + m + 1
           b == k + m + 2
           g == k + m + l + 2
<1>10. p \in Nat \ {0} /\ a \in Nat \ {0} /\ b \in Nat \ {0} /\ g \in Nat \ {0}
  BY <1>6
<1>11. find(t, d, p) = p
  <2>1. At(t, d, p)
    <3>1. \A j \in 1 .. m : p + j - 1 = k + j
      OBVIOUS
    <3> QED
      BY <1>6, <1>9, <3>1 DEF At
  <2>2. p \in p .. (Len(t) - Len(d) + 1) /\ \A j \in p .. p - 1 : ~At(t, d, j)
    BY <1>6, <1>9
  <2> QED
    BY <1>1, <1>5, <1>10, <2>1, <2>2, FindFirst
<1>12. find(t, d, b) = g
  <2>1. At(t, d, g)
    <3>1. \A j \in 1 .. m : g + j - 1 = k + m + 1 + l + j /\ j \in 1 .. n
      BY <1>7
    <3> QED
      BY <1>6, <1>7, <1>9, <3>1 DEF At
  <2>2. g \in b .. (Len(t) - Len(d) + 1)
    BY <1>6, <1>7, <1>9
  <2>3. ASSUME NEW j \in b .. g - 1, At(t, d, j) PROVE FALSE
    <3>1. PICK h \in 1 .. l : j = k + m + 1 + h
      <4>1. j - k - m - 1 \in 1 .. l /\ j = k + m + 1 + (j - k - m - 1)
        OBVIOUS
      <4> QED
        BY <4>1
    <3>2. \A o \in 1 .. m : t[j + o - 1] = d[o]
      BY <1>6, <2>3 DEF At
    <3>3. CASE h + m - 1 <= l
      <4>1. \A o \in 1 .. m : h + o - 1 \in 1 .. l /\ j + o - 1 = k + m + 1 + (h + o - 1)
        BY <3>1, <3>3
      <4>2. \A o \in 1 .. m : P[h + o - 1] = d[o]
        BY <1>9, <3>2, <4>1
      <4>3. At(P, d, h)
        BY <1>6, <4>2 DEF At
      <4>4. h \in 1 .. Len(P) /\ h + Len(d) - 1 <= Len(P)
        BY <1>6, <3>3
      <4> QED
        BY <1>2, <4>3, <4>4, Zenon DEF Free, Stands
    <3>4. CASE ~(h + m - 1 <= l)
      <4>1. l + 1 - h \in 1 .. m /\ j + (l + 1 - h) - 1 = k + m + 1 + l /\ l \in 1 .. l
        <5>1. l + 1 - h \in 1 .. m
          BY <3>4
        <5>2. j + (l + 1 - h) - 1 = k + m + 1 + l
          BY <3>1
        <5>3. l \in 1 .. l
          OBVIOUS
        <5> QED
          BY <5>1, <5>2, <5>3, Zenon
      <4>2. PICK o \in 1 .. m : o = l + 1 - h /\ j + o - 1 = k + m + 1 + l /\ l \in 1 .. l
        BY <4>1
      <4>3. t[k + m + 1 + l] = d[o]
        BY <3>2, <4>2
      <4>4. t[k + m + 1 + l] = P[l]
        BY <1>9, <4>2
      <4>5. P[l] = CRLF
        BY <1>2, <1>6
      <4>6. d[o] \in A \ {CRLF}
        BY <1>1, <1>6, ElementOfSeq
      <4> QED
        BY <4>3, <4>4, <4>5, <4>6
    <3> QED
      BY <3>3, <3>4
  <2> QED
    BY <1>1, <1>5, <1>10, <2>1, <2>2, <2>3, FindFirst
<1>13. PartStart(t, a) = b
  BY <1>9 DEF PartStart
<1>14. SubSeq(t, b, g - 1) = P
  <2>1. PICK e \in Nat : e = g - 1
    BY <1>10
  <2>2. b \in 1 .. Len(t) + 1 /\ e \in b - 1 .. Len(t) /\ e - b + 1 = l
    BY <1>7, <1>9, <2>1
  <2> DEFINE s == SubSeq(t, b, e)
  <2>3. \A j \in 1 .. l : b + j - 1 = k + m + 1 + j
    OBVIOUS
  <2> HIDE DEF b
  <2>4. s \in Seq(A) /\ Len(s) = e - b + 1 /\ \A j \in 1 .. e - b + 1 : s[j] = t[b + j - 1]
    BY <1>5, <2>2, SubSeqProperties
  <2> HIDE DEF s
  <2>5. Len(s) = l /\ \A j \in 1 .. l : s[j] = P[j]
    BY <1>9, <2>2, <2>3, <2>4
  <2>6. s = P
    BY <1>2, <1>6, <2>4, <2>5, SeqEqual
  <2> QED
    BY <2>1, <2>6 DEF s
<1>15. SubSeq(t, a, a + 1) # <<"-", "-">>
  <2>1. PICK o \in Nat : o = a + 1 /\ o - a + 1 = 2
    BY <1>10
  <2>2. a \in 1 .. Len(t) + 1 /\ o \in a - 1 .. Len(t)
    BY <1>7, <1>9, <2>1
  <2> DEFINE s == SubSeq(t, a, o)
             dashes == <<"-", "-">>
  <2>3. a + 1 - 1 = a
    OBVIOUS
  <2> HIDE DEF a
  <2>4. \A j \in 1 .. o - a + 1 : s[j] = t[a + j - 1]
    BY <1>5, <2>2, SubSeqProperties
  <2>5. s[1] = t[a]
    <3>1. 1 \in 1 .. o - a + 1
      BY <2>1
    <3>2. s[1] = t[a + 1 - 1]
      BY <2>4, <3>1, Zenon
    <3> QED
      BY <2>3, <3>2, Zenon
  <2>6. t[a] = CRLF
    BY <1>9 DEF a
  <2>7. dashes[1] # CRLF
    <3>1. dashes[1] = "-"
      OBVIOUS
    <3> QED
      BY <3>1, Zenon DEF CRLF
  <2> HIDE DEF s, dashes
  <2>8. s # dashes
    BY <2>5, <2>6, <2>7
  <2> QED
    BY <2>1, <2>8 DEF s, dashes
<1>16. p + Len(d) = a /\ p + Len(F) = g
  BY <1>5, <1>6
<1>17. p # 0 /\ g # 0
  BY <1>10
<1> HIDE DEF p, a, b, g
<1>18. FormStep(p, t, d, f) = Fields(P) \o f[g]
  BY <1>11, <1>12, <1>13, <1>14, <1>15, <1>16, <1>17, Zenon DEF FormStep
<1>19. Stepped(p, t, d, f, i, c)
  BY <1>8, <1>16, <1>18 DEF Stepped, F
<1> QED
  BY <1>6, <1>19 DEF p, t, F

-----------------------------------------------------------------------------
(* A form is read back.                                                    *)

FieldTexts(d, cs) == [i \in 1 .. Len(cs) |-> FieldOf(d, i, cs[i])]

FieldsFound(cs) == [i \in 1 .. Len(cs) |-> FieldFound(i, cs[i])]

Founds(A) == {FieldFound(i, c) : i \in Nat, c \in Seq(A)}

LEMMA FieldIs ==
  ASSUME NEW A, FormAlphabet(A), NEW d \in Seq(A), NEW i \in Nat, NEW c \in Seq(A)
  PROVE  FieldOf(d, i, c) \in Seq(A)
<1>1. Line \in Seq(A) /\ PartOf(i, c) \in Seq(A)
  BY FieldHeadIs, PartIs
<1>2. Line \o PartOf(i, c) \in Seq(A)
  BY <1>1, ConcatProperties
<1>3. d \o (Line \o PartOf(i, c)) \in Seq(A)
  BY <1>2, ConcatProperties
<1> QED
  BY <1>3, Zenon DEF FieldOf

LEMMA FieldTextsGrow ==
  ASSUME NEW A, FormAlphabet(A), NEW d \in Seq(A), NEW cs \in Seq(Seq(A)), NEW c \in Seq(A),
         NEW n \in Nat, n = Len(cs)
  PROVE  /\ FieldTexts(d, cs) \in Seq(Seq(A)) /\ FieldOf(d, n + 1, c) \in Seq(A)
         /\ FieldTexts(d, Append(cs, c)) = Append(FieldTexts(d, cs), FieldOf(d, n + 1, c))
<1> DEFINE more == Append(cs, c)
           f == FieldTexts(d, cs)
           g == FieldTexts(d, more)
<1>1. /\ more \in Seq(Seq(A)) /\ Len(more) = n + 1 /\ more[n + 1] = c
      /\ \A i \in 1 .. n : more[i] = cs[i]
  BY AppendProperties
<1> HIDE DEF more
<1>2. ASSUME NEW i \in 1 .. n + 1 PROVE FieldOf(d, i, more[i]) \in Seq(A)
  <2>1. i \in Nat /\ more[i] \in Seq(A)
    BY <1>1, ElementOfSeq
  <2> QED
    BY <2>1, FieldIs
<1>3. \A i \in 1 .. n : i \in 1 .. n + 1 /\ more[i] = cs[i]
  BY <1>1
<1>4. g = [i \in 1 .. n + 1 |-> FieldOf(d, i, more[i])]
  BY <1>1, Zenon DEF FieldTexts
<1>5. f = [i \in 1 .. n |-> FieldOf(d, i, cs[i])]
  BY Zenon DEF FieldTexts
<1> HIDE DEF f, g
<1>6. g \in [1 .. n + 1 -> Seq(A)] /\ g[n + 1] = FieldOf(d, n + 1, c)
  <2>1. n + 1 \in 1 .. n + 1
    OBVIOUS
  <2>2. g[n + 1] = FieldOf(d, n + 1, more[n + 1])
    BY <1>4, <2>1, Zenon
  <2>3. g \in [1 .. n + 1 -> Seq(A)]
    BY <1>2, <1>4, Zenon
  <2> QED
    BY <1>1, <2>2, <2>3, Zenon
<1>7. \A i \in 1 .. n : f[i] \in Seq(A) /\ g[i] = f[i]
  BY <1>2, <1>3, <1>4, <1>5, Zenon
<1>8. f \in [1 .. n -> Seq(A)]
  BY <1>5, <1>7, Zenon
<1>9. f \in Seq(Seq(A)) /\ g[n + 1] \in Seq(A) /\ g = Append(f, g[n + 1])
  BY <1>6, <1>7, <1>8, OneMore
<1> QED
  BY <1>6, <1>9, Zenon DEF f, g, more

LEMMA FoundsGrow ==
  ASSUME NEW A, NEW cs \in Seq(Seq(A)), NEW c \in Seq(A), NEW n \in Nat, n = Len(cs)
  PROVE  /\ FieldsFound(cs) \in Seq(Founds(A)) /\ FieldFound(n + 1, c) \in Founds(A)
         /\ FieldsFound(Append(cs, c)) = FieldsFound(cs) \o <<FieldFound(n + 1, c)>>
<1> DEFINE more == Append(cs, c)
           f == FieldsFound(cs)
           g == FieldsFound(more)
           V == Founds(A)
<1>1. /\ more \in Seq(Seq(A)) /\ Len(more) = n + 1 /\ more[n + 1] = c
      /\ \A i \in 1 .. n : more[i] = cs[i]
  BY AppendProperties
<1> HIDE DEF more
<1>2. ASSUME NEW i \in 1 .. n + 1 PROVE FieldFound(i, more[i]) \in V
  <2>1. i \in Nat /\ more[i] \in Seq(A)
    BY <1>1, ElementOfSeq
  <2> QED
    BY <2>1 DEF Founds, V
<1>3. \A i \in 1 .. n : i \in 1 .. n + 1 /\ more[i] = cs[i]
  BY <1>1
<1>4. g = [i \in 1 .. n + 1 |-> FieldFound(i, more[i])]
  BY <1>1, Zenon DEF FieldsFound
<1>5. f = [i \in 1 .. n |-> FieldFound(i, cs[i])]
  BY Zenon DEF FieldsFound
<1> HIDE DEF f, g, V
<1>6. g \in [1 .. n + 1 -> V] /\ g[n + 1] = FieldFound(n + 1, c)
  <2>1. n + 1 \in 1 .. n + 1
    OBVIOUS
  <2>2. g[n + 1] = FieldFound(n + 1, more[n + 1])
    BY <1>4, <2>1, Zenon
  <2>3. g \in [1 .. n + 1 -> V]
    BY <1>2, <1>4, Zenon
  <2> QED
    BY <1>1, <2>2, <2>3, Zenon
<1>7. \A i \in 1 .. n : f[i] \in V /\ g[i] = f[i]
  BY <1>2, <1>3, <1>4, <1>5, Zenon
<1>8. f \in [1 .. n -> V]
  BY <1>5, <1>7, Zenon
<1>9. f \in Seq(V) /\ g[n + 1] \in V /\ g = Append(f, g[n + 1])
  BY <1>6, <1>7, <1>8, OneMore
<1>10. g = f \o <<g[n + 1]>>
  BY <1>9, AppendIsConcat
<1> QED
  BY <1>6, <1>9, <1>10, Zenon DEF f, g, V, more

Preface == <<"a", CRLF>>

\* The line before the first boundary is skipped.
LEMMA PrefaceSkipped ==
  ASSUME NEW A, FormAlphabet(A), NEW d, IsDelimiter(A, d), NEW r \in Seq(A), Begins(r, d),
         NEW f, FormSteps(f, Preface \o r, d)
  PROVE  Preface \in Seq(A) /\ Len(Preface) = 2 /\ f[1] = f[3]
<1> DEFINE t == Preface \o r
<1>1. d \in Seq(A) /\ d # <<>> /\ d[1] = "-"
  BY DEF IsDelimiter, Dash
<1>2. PICK m \in Nat, n \in Nat : m = Len(d) /\ n = Len(r) /\ m # 0 /\ m <= n
  BY <1>1, LenProperties, EmptySeq DEF Begins
<1>3. "a" \in A /\ CRLF \in A
  BY DEF FormAlphabet, FormSymbols
<1>4. Preface \in Seq(A)
  BY <1>3, TwoAreSeq, Zenon DEF Preface
<1>5. Len(Preface) = 2 /\ Preface[1] = "a" /\ Preface[2] = CRLF
  BY DEF Preface
<1> HIDE DEF t
<1>6. /\ t \in Seq(A) /\ Len(t) = 2 + n
      /\ \A i \in 1 .. 2 + n : t[i] = IF i <= 2 THEN Preface[i] ELSE r[i - 2]
  <2>1. /\ t \in Seq(A) /\ Len(t) = Len(Preface) + Len(r)
        /\ \A i \in 1 .. Len(Preface) + Len(r) : t[i] = IF i <= Len(Preface) THEN Preface[i] ELSE r[i - Len(Preface)]
    BY <1>4, ConcatProperties, Zenon DEF t
  <2> QED
    BY <1>2, <1>5, <2>1
<1>7. t[1] # d[1] /\ t[2] # d[1]
  <2>1. t[1] = "a" /\ t[2] = CRLF
    BY <1>5, <1>6
  <2>2. "a" # "-"
    OBVIOUS
  <2>3. CRLF # "-"
    BY DEF CRLF
  <2> QED
    BY <1>1, <2>1, <2>2, <2>3, Zenon
<1>8. ~At(t, d, 1) /\ ~At(t, d, 2)
  <2>1. 1 \in 1 .. Len(d) /\ 1 + 1 - 1 = 1 /\ 2 + 1 - 1 = 2
    BY <1>2
  <2> QED
    BY <1>7, <2>1, Zenon DEF At
<1>9. At(t, d, 3)
  <2>1. ASSUME NEW j \in 1 .. m PROVE t[3 + j - 1] = d[j]
    <3>1. j + 2 \in 1 .. 2 + n /\ ~(j + 2 <= 2) /\ (j + 2) - 2 = j /\ 3 + j - 1 = j + 2
      BY <1>2
    <3>2. t[j + 2] = r[j]
      BY <1>6, <3>1
    <3>3. r[j] = d[j]
      BY <1>2 DEF Begins
    <3> QED
      BY <3>1, <3>2, <3>3
  <2> QED
    BY <1>2, <2>1 DEF At
<1>10. \A a \in {1, 3} : find(t, d, a) = 3
  <2> TAKE a \in {1, 3}
  <2> DEFINE b == 3
  <2>1. a \in Nat \ {0} /\ b \in a .. (Len(t) - Len(d) + 1)
    BY <1>2, <1>6
  <2>2. \A i \in a .. b - 1 : ~At(t, d, i)
    <3>1. \A i \in a .. b - 1 : i = 1 \/ i = 2
      OBVIOUS
    <3> QED
      BY <1>8, <3>1, Zenon
  <2>3. At(t, d, b)
    BY <1>9
  <2> HIDE DEF b
  <2>4. find(t, d, a) = b
    BY <1>1, <1>6, <2>1, <2>2, <2>3, FindFirst
  <2> QED
    BY <2>4 DEF b
<1>11. find(t, d, 1) = 3 /\ find(t, d, 3) = 3
  BY <1>10
<1>12. FormStep(1, t, d, f) = FormStep(3, t, d, f)
  BY <1>11, Zenon DEF FormStep
<1>13. f[1] = FormStep(1, t, d, f) /\ f[3] = FormStep(3, t, d, f)
  <2>1. 1 \in 1 .. Len(t) + 1 /\ 3 \in 1 .. Len(t) + 1
    BY <1>2, <1>6
  <2>2. FormStepsEach(f, t, d)
    BY FormStepsAt DEF t
  <2> QED
    BY <2>1, <2>2, Zenon DEF FormStepsEach
<1> QED
  BY <1>4, <1>5, <1>12, <1>13

Closing == <<"-", "-", CRLF>>

EndsAt(p, t, d, f) == FormStep(p, t, d, f) = <<>>

\* At the closing boundary parse is done.
LEMMA ClosingStep ==
  ASSUME NEW A, NEW d \in Seq(A), d # <<>>, NEW x \in Seq(A), Closing \in Seq(A), NEW f
  PROVE  EndsAt(Len(x) + 1, x \o (d \o Closing), d, f)
<1> DEFINE w == d \o Closing
           t == x \o w
<1>1. Len(Closing) = 3 /\ Closing[1] = "-" /\ Closing[2] = "-"
  BY DEF Closing
<1>2. PICK k \in Nat, m \in Nat : k = Len(x) /\ m = Len(d) /\ m # 0
  BY LenProperties, EmptySeq
<1>3. w \in Seq(A) /\ Len(w) = m + 3 /\ \A j \in 1 .. m + 3 : w[j] = IF j <= m THEN d[j] ELSE Closing[j - m]
  <2>1. /\ w \in Seq(A) /\ Len(w) = Len(d) + Len(Closing)
        /\ \A j \in 1 .. Len(d) + Len(Closing) : w[j] = IF j <= Len(d) THEN d[j] ELSE Closing[j - Len(d)]
    BY ConcatProperties
  <2> QED
    BY <1>1, <1>2, <2>1
<1> HIDE DEF w
<1>4. /\ t \in Seq(A) /\ Len(t) = k + (m + 3)
      /\ \A j \in 1 .. k + (m + 3) : t[j] = IF j <= k THEN x[j] ELSE w[j - k]
  <2>1. /\ t \in Seq(A) /\ Len(t) = Len(x) + Len(w)
        /\ \A j \in 1 .. Len(x) + Len(w) : t[j] = IF j <= Len(x) THEN x[j] ELSE w[j - Len(x)]
    BY <1>3, ConcatProperties
  <2> QED
    BY <1>2, <1>3, <2>1
<1> HIDE DEF t
<1>5. \A j \in 1 .. m + 3 : t[k + j] = w[j]
  <2> TAKE j \in 1 .. m + 3
  <2>1. k + j \in 1 .. k + (m + 3) /\ ~(k + j <= k) /\ (k + j) - k = j
    BY <1>2
  <2> QED
    BY <1>4, <2>1
<1> DEFINE p == k + 1
           a == p + m
           e == a + 1
<1>6. find(t, d, p) = p
  <2>1. p \in Nat \ {0} /\ p \in p .. (Len(t) - Len(d) + 1) /\ \A i \in p .. p - 1 : ~At(t, d, i)
    BY <1>2, <1>4
  <2>2. At(t, d, p)
    <3>1. ASSUME NEW j \in 1 .. m PROVE t[p + j - 1] = d[j]
      <4>1. p + j - 1 = k + j /\ j \in 1 .. m + 3 /\ j <= m
        OBVIOUS
      <4> QED
        BY <1>3, <1>5, <4>1
    <3> HIDE DEF p
    <3> QED
      BY <1>2, <3>1 DEF At
  <2> HIDE DEF p
  <2> QED
    BY <1>4, <2>1, <2>2, FindFirst
<1>7. SubSeq(t, a, e) = <<"-", "-">>
  <2> DEFINE s == SubSeq(t, a, e)
             dashes == <<"-", "-">>
  <2>1. a \in 1 .. Len(t) + 1 /\ e \in a - 1 .. Len(t) /\ e - a + 1 = 2
    BY <1>4
  <2>2. a + 1 - 1 = k + (m + 1) /\ a + 2 - 1 = k + (m + 2)
    OBVIOUS
  <2>3. t[k + (m + 1)] = "-" /\ t[k + (m + 2)] = "-"
    <3>1. m + 1 \in 1 .. m + 3 /\ m + 2 \in 1 .. m + 3 /\ ~(m + 1 <= m) /\ ~(m + 2 <= m) /\ (m + 1) - m = 1 /\ (m + 2) - m = 2
      OBVIOUS
    <3>2. w[m + 1] = Closing[1] /\ w[m + 2] = Closing[2]
      BY <1>3, <3>1
    <3> QED
      BY <1>1, <1>5, <3>1, <3>2
  <2> HIDE DEF a, e
  <2>4. s \in Seq(A) /\ Len(s) = e - a + 1 /\ \A j \in 1 .. e - a + 1 : s[j] = t[a + j - 1]
    BY <1>4, <2>1, SubSeqProperties
  <2> HIDE DEF s
  <2>5. Len(s) = 2 /\ s[1] = "-" /\ s[2] = "-"
    <3>1. 1 \in 1 .. e - a + 1 /\ 2 \in 1 .. e - a + 1
      BY <2>1
    <3>2. s[1] = t[a + 1 - 1] /\ s[2] = t[a + 2 - 1]
      BY <2>4, <3>1, Zenon
    <3>3. s[1] = t[k + (m + 1)] /\ s[2] = t[k + (m + 2)]
      BY <2>2, <3>2, Zenon
    <3> QED
      BY <2>1, <2>3, <2>4, <3>3
  <2>6. s = dashes
    <3>1. Len(dashes) = 2 /\ dashes[1] = "-" /\ dashes[2] = "-"
      OBVIOUS
    <3>2. dashes \in Seq(A)
      <4>1. Closing[1] \in A
        <5>1. 1 \in 1 .. Len(Closing)
          BY <1>1
        <5> QED
          BY <5>1, ElementOfSeq, Zenon
      <4>2. "-" \in A
        BY <1>1, <4>1, Zenon
      <4> QED
        BY <4>2, TwoAreSeq DEF dashes
    <3> HIDE DEF dashes
    <3>3. \A j \in 1 .. 2 : s[j] = dashes[j]
      <4>1. \A j \in 1 .. 2 : j = 1 \/ j = 2
        OBVIOUS
      <4> QED
        BY <2>5, <3>1, <4>1, Zenon
    <3> QED
      BY <2>4, <2>5, <3>1, <3>2, <3>3, SeqEqual
  <2> QED
    BY <2>6 DEF s, dashes
<1>8. p + Len(d) = a
  BY <1>2
<1> HIDE DEF p, a
<1>9. EndsAt(p, t, d, f)
  BY <1>6, <1>7, <1>8, Zenon DEF FormStep, EndsAt, e
<1> QED
  BY <1>2, <1>9 DEF p, t, w

FieldsText(pre, d, cs) == pre \o FlattenSeq(FieldTexts(d, cs))

\* parse reads the fields cs, and what it finds behind them.
ReadsFields(A, pre, d, cs) ==
  \A r \in Seq(A) : \A f, v :
    LET t == FieldsText(pre, d, cs)
    IN  Begins(r, d) /\ FormSteps(f, t \o r, d) /\ v \in Seq(Founds(A)) /\ f[Len(t) + 1] = v
          => f[1] = FieldsFound(cs) \o v

LEMMA ReadsNone ==
  ASSUME NEW A, FormAlphabet(A), NEW d, IsDelimiter(A, d), NEW pre \in {<<>>, Preface}
  PROVE  ReadsFields(A, pre, d, <<>>)
<1>1. FieldTexts(d, <<>>) = <<>> /\ FieldsFound(<<>>) = <<>>
  BY EmptySeq DEF FieldTexts, FieldsFound
<1>2. FieldsText(pre, d, <<>>) = pre
  <2>1. pre \in Seq({"a", CRLF})
    <3>1. Preface \in Seq({"a", CRLF})
      BY TwoAreSeq, Zenon DEF Preface
    <3> QED
      BY <3>1, EmptySeq
  <2>2. pre \o <<>> = pre
    BY <2>1, ConcatEmptySeq
  <2> QED
    BY <1>1, <2>2, FlattenEmpty, Zenon DEF FieldsText
<1>3. ASSUME NEW r \in Seq(A), NEW f, NEW v, Begins(r, d), FormSteps(f, pre \o r, d),
             v \in Seq(Founds(A)), f[Len(pre) + 1] = v
      PROVE  f[1] = v
  <2>1. CASE pre = <<>>
    <3>1. Len(pre) + 1 = 1
      BY <2>1
    <3> QED
      BY <1>3, <3>1
  <2>2. CASE pre = Preface
    <3>1. Len(Preface) = 2 /\ f[1] = f[3]
      BY <1>3, <2>2, PrefaceSkipped
    <3>2. Len(pre) + 1 = 3
      BY <2>2, <3>1
    <3> QED
      BY <1>3, <3>1, <3>2
  <2> QED
    BY <2>1, <2>2
<1>4. ASSUME NEW v, v \in Seq(Founds(A)) PROVE <<>> \o v = v
  BY <1>4, ConcatEmptySeq
<1> QED
  BY <1>1, <1>2, <1>3, <1>4, Zenon DEF ReadsFields

LEMMA ReadsMore ==
  ASSUME NEW A, FormAlphabet(A), NEW d, IsDelimiter(A, d), NEW pre \in Seq(A),
         NEW cs \in Seq(Seq(A)), NEW c \in Seq(A), Free(c, d), ReadsFields(A, pre, d, cs)
  PROVE  ReadsFields(A, pre, d, Append(cs, c))
<1>1. PICK n \in Nat : n = Len(cs)
  BY LenProperties
<1> DEFINE F == FieldOf(d, n + 1, c)
           x == FieldsText(pre, d, cs)
           y == FieldsText(pre, d, Append(cs, c))
           e == FieldFound(n + 1, c)
           g == FieldsFound(cs)
<1>2. d \in Seq(A)
  BY DEF IsDelimiter
<1>3. x \in Seq(A) /\ F \in Seq(A) /\ y = x \o F
  <2> DEFINE X == FlattenSeq(FieldTexts(d, cs))
  <2>1. /\ FieldTexts(d, cs) \in Seq(Seq(A)) /\ F \in Seq(A)
        /\ FieldTexts(d, Append(cs, c)) = Append(FieldTexts(d, cs), F)
    BY <1>1, <1>2, FieldTextsGrow
  <2> HIDE DEF F
  <2>2. X \in Seq(A) /\ FlattenSeq(FieldTexts(d, Append(cs, c))) = X \o F
    BY <2>1, FlattenAppend, Zenon
  <2> HIDE DEF X
  <2>3. x = pre \o X /\ y = pre \o (X \o F)
    BY <2>2, Zenon DEF FieldsText, X
  <2>4. x \in Seq(A)
    BY <2>2, <2>3, ConcatProperties
  <2>5. Associate(pre, X, F)
    BY <2>1, <2>2, Associates
  <2> HIDE DEF x, y
  <2> QED
    BY <2>1, <2>3, <2>4, <2>5, Zenon DEF Associate
<1>4. g \in Seq(Founds(A)) /\ e \in Founds(A) /\ FieldsFound(Append(cs, c)) = g \o <<e>>
  BY <1>1, FoundsGrow
<1> HIDE DEF x, y, g
<1>5. ASSUME NEW r \in Seq(A), NEW f, NEW v, Begins(r, d), FormSteps(f, y \o r, d),
             v \in Seq(Founds(A)), f[Len(y) + 1] = v
      PROVE  f[1] = FieldsFound(Append(cs, c)) \o v
  <2> DEFINE w == F \o r
             u == <<e>> \o v
  <2>1. y \o r = x \o w
    <3>1. Associate(x, F, r)
      <4> HIDE DEF F
      <4> QED
        BY <1>3, Associates
    <3> QED
      BY <1>3, <3>1, Zenon DEF Associate
  <2>2. w \in Seq(A)
    BY <1>3, ConcatProperties
  <2>3. Begins(w, d)
    <3> DEFINE z == Line \o PartOf(n + 1, c)
               q == z \o r
    <3>1. Line \in Seq(A) /\ PartOf(n + 1, c) \in Seq(A)
      <4>1. n + 1 \in Nat
        OBVIOUS
      <4> QED
        BY <4>1, FieldHeadIs, PartIs
    <3>2. z \in Seq(A)
      BY <3>1, ConcatProperties
    <3>3. F = d \o z
      BY Zenon DEF FieldOf
    <3> HIDE DEF z, F
    <3>4. q \in Seq(A)
      BY <3>2, ConcatProperties
    <3>5. Associate(d, z, r)
      BY <1>2, <3>2, Associates
    <3>6. w = d \o q
      BY <3>3, <3>5, Zenon DEF Associate
    <3> HIDE DEF q, w
    <3> QED
      BY <1>2, <3>4, <3>6, BeginsIs
  <2>4. u \in Seq(Founds(A))
    <3>1. <<e>> \in Seq(Founds(A))
      BY <1>4, OneIsSeq
    <3> HIDE DEF e
    <3> QED
      BY <1>5, <3>1, ConcatProperties
  <2>5. PICK k \in Nat, l \in Nat : k = Len(x) /\ l = Len(F) /\ Len(y) = k + l
    <3>1. Len(y) = Len(x) + Len(F)
      BY <1>3, ConcatProperties
    <3> HIDE DEF F
    <3> QED
      BY <1>3, <3>1, LenProperties
  <2>6. f[k + 1] = u
    <3>1. Stepped(k + 1, x \o w, d, f, n + 1, c)
      <4>1. n + 1 \in Nat
        OBVIOUS
      <4>2. Stepped(Len(x) + 1, x \o (FieldOf(d, n + 1, c) \o r), d, f, n + 1, c)
        BY <1>3, <1>5, <4>1, FieldStep
      <4> QED
        BY <2>5, <4>2, Zenon
    <3>2. FormStep(k + 1, x \o w, d, f) = <<e>> \o f[(k + 1) + l]
      BY <2>5, <3>1, Zenon DEF Stepped
    <3>3. (k + 1) + l = Len(y) + 1
      BY <2>5
    <3>4. k + 1 \in 1 .. Len(x \o w) + 1
      <4> HIDE DEF w
      <4>1. Len(x \o w) = Len(x) + Len(w) /\ Len(w) \in Nat
        BY <1>3, <2>2, ConcatProperties, LenProperties
      <4> QED
        BY <2>5, <4>1
    <3>5. FormStepsEach(f, x \o w, d)
      BY <1>5, <2>1, FormStepsAt, Zenon
    <3>6. f[k + 1] = FormStep(k + 1, x \o w, d, f)
      BY <3>4, <3>5, Zenon DEF FormStepsEach
    <3> QED
      BY <1>5, <3>2, <3>3, <3>6, Zenon
  <2> HIDE DEF w, u
  <2>7. f[1] = g \o u
    <3>1. FormSteps(f, x \o w, d) /\ f[Len(x) + 1] = u
      BY <1>5, <2>1, <2>5, <2>6, Zenon
    <3> QED
      BY <2>2, <2>3, <2>4, <3>1, Zenon DEF ReadsFields, x, g
  <2>8. g \o u = (g \o <<e>>) \o v
    <3>1. <<e>> \in Seq(Founds(A))
      BY <1>4, OneIsSeq
    <3> HIDE DEF e
    <3> QED
      BY <1>4, <1>5, <3>1, ConcatAssociative DEF u
  <2> QED
    BY <1>4, <2>7, <2>8, Zenon
<1> QED
  BY <1>5, Zenon DEF ReadsFields, y

LEMMA ReadsAll ==
  ASSUME NEW A, FormAlphabet(A), NEW d, IsDelimiter(A, d), NEW pre \in {<<>>, Preface},
         NEW cs \in Seq(FreeTexts(A, d))
  PROVE  ReadsFields(A, pre, d, cs)
<1> DEFINE T == {s \in Seq(FreeTexts(A, d)) : ReadsFields(A, pre, d, s)}
<1>1. <<>> \in T
  <2>1. <<>> \in Seq(FreeTexts(A, d))
    BY EmptySeq
  <2> QED
    BY <2>1, ReadsNone
<1>2. ASSUME NEW s \in Seq(FreeTexts(A, d)), NEW c \in FreeTexts(A, d), s \in T PROVE Append(s, c) \in T
  <2>1. c \in Seq(A) /\ Free(c, d)
    BY DEF FreeTexts
  <2>2. s \in Seq(Seq(A))
    <3>1. FreeTexts(A, d) \subseteq Seq(A)
      BY DEF FreeTexts
    <3> QED
      BY <3>1, SeqMonotonic
  <2>3. pre \in Seq(A)
    <3>1. "a" \in A /\ CRLF \in A
      BY DEF FormAlphabet, FormSymbols
    <3>2. Preface \in Seq(A)
      BY <3>1, TwoAreSeq, Zenon DEF Preface
    <3> QED
      BY <3>2, EmptySeq
  <2>4. ReadsFields(A, pre, d, Append(s, c))
    BY <1>2, <2>1, <2>2, <2>3, ReadsMore
  <2>5. Append(s, c) \in Seq(FreeTexts(A, d))
    BY AppendProperties
  <2> QED
    BY <2>4, <2>5
<1> HIDE DEF T
<1>3. cs \in T
  BY <1>1, <1>2, SeqInduct
<1> QED
  BY <1>3 DEF T

FormRequest(q) ==
  MakeRequest("POST", <<"/">>, FormText(q), set(NoPairs, <<"content-type">>, FormType(q)), NoPairs)

LEMMA FormRequestIs ==
  ASSUME NEW q
  PROVE  /\ FormRequest(q).body = FormText(q)
         /\ getHeader(FormRequest(q), <<"Content-Type">>) = {FormType(q)}
<1> DEFINE h == set(NoPairs, <<"content-type">>, FormType(q))
           T == FormText(q)
<1>1. SameName(<<"Content-Type">>, <<"content-type">>)
  <2>1. <<"Content-Type", "content-type">> \in Capitals
    BY DEF Capitals
  <2>2. Spelled("Content-Type", "content-type")
    BY <2>1, PairSpelled
  <2>3. Lowered("Content-Type") = "content-type" /\ Lowered("content-type") = "content-type"
    BY <2>2, Zenon DEF Spelled
  <2> QED
    BY <2>3, LowerOne, Zenon DEF SameName
<1>2. get(h, <<"Content-Type">>) = {FormType(q)}
  <2> DEFINE key == <<"content-type">>
             other == <<"Content-Type">>
             v == FormType(q)
  <2>1. SameName(other, key)
    BY <1>1
  <2> HIDE DEF key, other, v
  <2>2. get(set(NoPairs, key, v), other) = {v}
    BY <2>1, GetAfterSet
  <2> QED
    BY <2>2, Zenon DEF key, other, v
<1> HIDE DEF h, T
<1>3. FormRequest(q).body = T /\ FormRequest(q).headers = h
  <2>1. FormRequest(q) = MakeRequest("POST", <<"/">>, T, h, NoPairs)
    BY Zenon DEF FormRequest, h, T
  <2> QED
    BY <2>1 DEF MakeRequest
<1> QED
  BY <1>2, <1>3, Zenon DEF getHeader, T

\* The delimiter of a form is one line that begins with a dash.
LEMMA OpeningIs ==
  ASSUME NEW A, FormAlphabet(A), NEW q \in AnyForms(A)
  PROVE  /\ IsDelimiter(A, Opening(q)) /\ Delimiter(FormType(q)) = Opening(q)
         /\ q.contents \in Seq(FreeTexts(A, Opening(q)))
<1> DEFINE B == A \ {CRLF}
           b == q.boundary
           two == <<"-", "-">>
           d == two \o b
<1>1. "-" \in B
  <2>1. "-" \in A
    BY DEF FormAlphabet, FormSymbols
  <2>2. "-" # CRLF
    BY DEF CRLF
  <2> QED
    BY <2>1, <2>2
<1>2. two \in Seq(B) /\ Len(two) = 2 /\ two[1] = "-"
  BY <1>1, TwoAreSeq
<1>3. b \in Seq(B) /\ q.contents \in Seq(Seq(A)) /\ \A i \in DOMAIN q.contents : ~Occurs(two \o b, q.contents[i])
  BY FormParts
<1> HIDE DEF b, two
<1>4. PICK l \in Nat : l = Len(b)
  BY <1>3, LenProperties
<1>5. d \in Seq(B) /\ Len(d) = 2 + l /\ d[1] = "-"
  <2>1. /\ d \in Seq(B) /\ Len(d) = Len(two) + Len(b)
        /\ \A i \in 1 .. Len(two) + Len(b) : d[i] = IF i <= Len(two) THEN two[i] ELSE b[i - Len(two)]
    BY <1>2, <1>3, ConcatProperties
  <2> HIDE DEF d
  <2> QED
    BY <1>2, <1>4, <2>1
<1>6. d \in Seq(A)
  <2>1. B \subseteq A
    OBVIOUS
  <2> HIDE DEF B, d
  <2> QED
    BY <1>5, <2>1, SeqMonotonic
<1>7. d # <<>>
  <2> HIDE DEF d
  <2>1. Len(<<>>) = 0
    OBVIOUS
  <2> QED
    BY <1>4, <1>5, <2>1
<1>8. Opening(q) = d
  BY Zenon DEF Opening, two, b
<1>9. Delimiter(FormType(q)) = d
  BY BoundaryRead, Zenon DEF Delimiter, two, b
<1>10. q.contents \in Seq(FreeTexts(A, d))
  <2>1. \A i \in DOMAIN q.contents : q.contents[i] \in Seq(A)
    BY <1>3, LenProperties, ElementOfSeq
  <2> HIDE DEF d
  <2>2. \A i \in DOMAIN q.contents : q.contents[i] \in FreeTexts(A, d)
    <3> TAKE i \in DOMAIN q.contents
    <3>1. ~Occurs(d, q.contents[i]) /\ q.contents[i] \in Seq(A)
      BY <1>3, <2>1, Zenon DEF d
    <3>2. Free(q.contents[i], d)
      BY <1>6, <1>7, <3>1, OccursFree
    <3> QED
      BY <3>1, <3>2 DEF FreeTexts
  <2>3. PICK n \in Nat : n = Len(q.contents) /\ DOMAIN q.contents = 1 .. n /\ q.contents \in [1 .. n -> Seq(A)]
    BY <1>3, LenProperties
  <2>4. q.contents \in [1 .. n -> FreeTexts(A, d)]
    BY <2>2, <2>3
  <2> QED
    BY <2>4, FunctionIsSeq
<1>11. IsDelimiter(A, d)
  <2> HIDE DEF d
  <2> QED
    BY <1>5, <1>6, <1>7, Zenon DEF IsDelimiter, B, Dash
<1> QED
  BY <1>8, <1>9, <1>10, <1>11, Zenon

\* The text of a form, fields first.
LEMMA FormTextSplits ==
  ASSUME NEW A, FormAlphabet(A), NEW q \in AnyForms(A)
  PROVE  /\ Preamble(q) \in {<<>>, Preface}
         /\ FieldsText(Preamble(q), Opening(q), q.contents) \in Seq(A) /\ Closing \in Seq(A)
         /\ FormText(q) = FieldsText(Preamble(q), Opening(q), q.contents) \o (Opening(q) \o Closing)
<1> DEFINE d == Opening(q)
           cs == q.contents
           pre == Preamble(q)
           x == FieldsText(pre, d, cs)
           F == FieldTexts(d, cs)
<1>1. d \in Seq(A) /\ cs \in Seq(Seq(A))
  BY OpeningIs, FormParts DEF IsDelimiter
<1>2. pre \in {<<>>, Preface}
  BY Zenon DEF Preamble, Preface
<1>3. pre \in Seq(A)
  <2>1. "a" \in A /\ CRLF \in A
    BY DEF FormAlphabet, FormSymbols
  <2>2. Preface \in Seq(A)
    BY <2>1, TwoAreSeq, Zenon DEF Preface
  <2> HIDE DEF pre
  <2> QED
    BY <1>2, <2>2, EmptySeq
<1>4. Closing \in Seq(A)
  <2>1. "-" \in A /\ CRLF \in A
    BY DEF FormAlphabet, FormSymbols
  <2> QED
    BY <2>1 DEF Closing
<1> HIDE DEF d, cs, pre
<1>5. DOMAIN cs = 1 .. Len(cs)
  BY <1>1, LenProperties
<1>6. ASSUME NEW i \in 1 .. Len(cs) PROVE FieldWritten(d, i, cs[i]) = FieldOf(d, i, cs[i]) /\ FieldOf(d, i, cs[i]) \in Seq(A)
  <2>1. i \in Nat /\ cs[i] \in Seq(A)
    BY <1>1, LenProperties, ElementOfSeq
  <2> QED
    BY <1>1, <2>1, FieldWrittenIs, FieldIs
<1>7. [i \in DOMAIN cs |-> FieldWritten(d, i, cs[i])] = F
  BY <1>5, <1>6, Zenon DEF FieldTexts
<1>8. F \in Seq(Seq(A))
  <2>1. PICK n \in Nat : n = Len(cs)
    BY <1>1, LenProperties
  <2>2. F = [i \in 1 .. n |-> FieldOf(d, i, cs[i])]
    BY <2>1, Zenon DEF FieldTexts
  <2> HIDE DEF F
  <2>3. F \in [1 .. n -> Seq(A)]
    BY <1>6, <2>1, <2>2, Zenon
  <2> QED
    BY <2>3, FunctionIsSeq
<1> HIDE DEF F
<1>9. FlattenSeq(F) \in Seq(A)
  BY <1>8, EmptySeq, FlattenAppend
<1>10. x = pre \o FlattenSeq(F)
  BY Zenon DEF FieldsText, F
<1> HIDE DEF x
<1>11. x \in Seq(A)
  BY <1>3, <1>9, <1>10, ConcatProperties
<1>12. FormText(q) = (x \o d) \o Closing
  <2>1. FormText(q) = ((pre \o FlattenSeq([i \in DOMAIN cs |-> FieldWritten(d, i, cs[i])])) \o d) \o Closing
    BY FormTextIs, Zenon DEF pre, cs, d, Closing
  <2> QED
    BY <1>7, <1>10, <2>1, Zenon
<1>13. Associate(x, d, Closing)
  BY <1>1, <1>4, <1>11, Associates
<1> QED
  BY <1>2, <1>4, <1>11, <1>12, <1>13, Zenon DEF Associate, x, pre, d, cs

LEMMA FormReadsBack ==
  ASSUME NEW A, FormAlphabet(A), NEW q \in AnyForms(A)
  PROVE  parse(FormRequest(q)) = {FieldsFound(q.contents)}
<1> DEFINE d == Opening(q)
           cs == q.contents
           pre == Preamble(q)
           x == FieldsText(pre, d, cs)
           r == d \o Closing
           t == FormText(q)
<1>1. /\ IsDelimiter(A, d) /\ Delimiter(FormType(q)) = d /\ cs \in Seq(FreeTexts(A, d))
      /\ d \in Seq(A) /\ d # <<>>
  BY OpeningIs DEF IsDelimiter
<1>2. pre \in {<<>>, Preface} /\ x \in Seq(A) /\ Closing \in Seq(A) /\ t = x \o r
  BY FormTextSplits
<1>3. FormRequest(q).body = t /\ getHeader(FormRequest(q), <<"Content-Type">>) = {FormType(q)}
  BY FormRequestIs
<1>4. Multipart(FormType(q))
  BY BoundaryRead
<1>5. cs \in Seq(Seq(A))
  BY FormParts
<1> HIDE DEF d, cs, pre, x, t
<1>6. r \in Seq(A) /\ Begins(r, d)
  BY <1>1, <1>2, ConcatProperties, BeginsIs
<1> HIDE DEF r
<1>7. t \in Seq(A) /\ Len(x) + 1 \in 1 .. Len(t) + 1
  <2>1. t \in Seq(A) /\ Len(t) = Len(x) + Len(r) /\ Len(x) \in Nat /\ Len(r) \in Nat
    BY <1>2, <1>6, ConcatProperties, LenProperties
  <2> QED
    BY <2>1
<1>8. PICK f : FormSteps(f, t, d) /\ parse(FormRequest(q)) = {f[1]}
  <2> DEFINE request == FormRequest(q)
             type == FormType(q)
  <2>1. /\ request.body \in Seq(A) /\ Delimiter(type) \in Seq(A) /\ Delimiter(type) # <<>>
        /\ getHeader(request, <<"Content-Type">>) = {type} /\ Multipart(type)
    BY <1>1, <1>3, <1>4, <1>7
  <2> HIDE DEF request, type
  <2>2. \E f : FormSteps(f, request.body, Delimiter(type)) /\ parse(request) = {f[1]}
    BY <2>1, FormParsed
  <2> QED
    BY <1>1, <1>3, <2>2, Zenon DEF request, type
<1>9. f[Len(x) + 1] = <<>>
  <2>1. EndsAt(Len(x) + 1, x \o r, d, f)
    BY <1>1, <1>2, ClosingStep DEF r
  <2>2. FormStepsEach(f, t, d)
    BY <1>8, FormStepsAt
  <2> QED
    BY <1>2, <1>7, <2>1, <2>2, Zenon DEF FormStepsEach, EndsAt
<1>10. ReadsFields(A, pre, d, cs)
  BY <1>1, <1>2, ReadsAll
<1>11. f[1] = FieldsFound(cs) \o <<>>
  <2>1. <<>> \in Seq(Founds(A)) /\ FormSteps(f, x \o r, d)
    BY <1>2, <1>8, EmptySeq
  <2> QED
    BY <1>6, <1>9, <1>10, <2>1, Zenon DEF ReadsFields, x
<1>12. FieldsFound(cs) \o <<>> = FieldsFound(cs)
  <2>1. <<>> \in Seq(A)
    BY EmptySeq
  <2>2. PICK n \in Nat : n = Len(cs)
    BY <1>5, LenProperties
  <2>3. FieldsFound(cs) \in Seq(Founds(A))
    BY <1>5, <2>1, <2>2, FoundsGrow
  <2> QED
    BY <2>3, ConcatEmptySeq
<1> QED
  BY <1>8, <1>11, <1>12, Zenon DEF cs

\* For every form over any alphabet, with or without a preamble and with its
\* boundary quoted or not, the handler gets every field, in order, with its
\* headers and its content, less the line ends at the content's end
\* (MultipartParser.cpp:13-105).
THEOREM FormsMeanWhatTheySay ==
  ASSUME NEW A, FormAlphabet(A), asked.kind = "form" => asked \in AnyForms(A)
  PROVE  FormRead
<1> SUFFICES ASSUME asked.kind = "form"
             PROVE  \E fields \in parse(FormRequest(asked)) :
                      /\ Len(fields) = Len(asked.contents)
                      /\ \A i \in DOMAIN fields :
                           /\ fields[i].headers = FieldMap(i)
                           /\ LessLineEnds(fields[i].content, asked.contents[i])
  BY Zenon DEF FormRead, FormRequest, FieldMap
<1> DEFINE cs == asked.contents
           fields == FieldsFound(cs)
<1>1. asked \in AnyForms(A)
  OBVIOUS
<1>2. fields \in parse(FormRequest(asked))
  <2>1. parse(FormRequest(asked)) = {fields}
    BY <1>1, FormReadsBack
  <2> HIDE DEF fields
  <2> QED
    BY <2>1
<1>3. cs \in Seq(Seq(A)) /\ CRLF \in A
  BY <1>1, FormParts DEF FormAlphabet, FormSymbols
<1> HIDE DEF cs
<1>4. PICK n \in Nat : n = Len(cs)
  BY <1>3, LenProperties
<1>5. fields = [i \in 1 .. n |-> FieldFound(i, cs[i])]
  BY <1>4, Zenon DEF FieldsFound
<1>6. \A i \in 1 .. n : /\ FieldFound(i, cs[i]).headers = FieldMap(i)
                        /\ LessLineEnds(FieldFound(i, cs[i]).content, cs[i])
  <2> TAKE i \in 1 .. n
  <2> DEFINE h == FieldMap(i)
             c == StripLineEnds(cs[i] \o Line)
  <2>1. cs[i] \in Seq(A)
    BY <1>3, <1>4, ElementOfSeq
  <2>2. LessLineEnds(c, cs[i])
    BY <1>3, <2>1, ContentRead
  <2>3. FieldFound(i, cs[i]) = [headers |-> h, content |-> c]
    BY Zenon DEF FieldFound
  <2> HIDE DEF h, c
  <2>4. FieldFound(i, cs[i]).headers = h /\ FieldFound(i, cs[i]).content = c
    BY <2>3
  <2> QED
    BY <2>2, <2>4, Zenon DEF h
<1>7. Len(fields) = n /\ DOMAIN fields = 1 .. n
  <2>1. \E s \in Seq(A) : TRUE
    BY EmptySeq
  <2>2. fields \in Seq(Founds(A))
    <3>1. PICK s \in Seq(A) : TRUE
      BY <2>1
    <3> QED
      BY <1>3, <1>4, <3>1, FoundsGrow
  <2>3. DOMAIN fields = 1 .. Len(fields) /\ Len(fields) \in Nat
    BY <2>2, LenProperties
  <2>4. DOMAIN fields = 1 .. n
    BY <1>5, Zenon
  <2> HIDE DEF fields
  <2>5. PICK l \in Nat : l = Len(fields) /\ 1 .. l = 1 .. n
    BY <2>3, <2>4
  <2>6. (l # 0 => l \in 1 .. l) /\ (n # 0 => n \in 1 .. n)
    OBVIOUS
  <2>7. (l # 0 => l \in 1 .. n) /\ (n # 0 => n \in 1 .. l)
    BY <2>5, <2>6
  <2>8. l = n
    BY <2>7
  <2> QED
    BY <2>4, <2>5, <2>8
<1>8. \A i \in DOMAIN fields : /\ fields[i].headers = FieldMap(i)
                               /\ LessLineEnds(fields[i].content, cs[i])
  BY <1>5, <1>6, <1>7, Zenon
<1> HIDE DEF fields
<1>9. Len(fields) = Len(cs)
  BY <1>4, <1>7
<1> QED
  BY <1>2, <1>8, <1>9, Zenon DEF cs

-----------------------------------------------------------------------------
(* The forms MCParsing asks about are among these.                         *)

FormLetters == FormSymbols \cup {"c"}

LEMMA FormsLegal == \A q \in FormQuestions : q \in AnyForms(FormLetters)
<1> DEFINE A == FormLetters
           B == A \ {CRLF}
           X == Lists(Lists({"b", "-", CRLF}, 0, 3), 1, 1)
           Y == {<<"-", "-">>, <<"b", CRLF, CRLF>>, <<CRLF, "a">>} \X {<<>>, <<"c", CRLF>>}
           F == [kind : {"form"}, boundary : {<<"b">>, <<"-", "b">>}, quoted : BOOLEAN, preamble : BOOLEAN,
                 contents : X \cup Y]
<1>1. "b" \in A /\ "-" \in A /\ CRLF \in A /\ "a" \in A /\ "c" \in A
  BY DEF FormLetters, FormSymbols
<1>2. CRLF # "b" /\ CRLF # "-" /\ Quote # "b" /\ Quote # "-"
  BY DEF CRLF, Quote
<1> HIDE DEF A
<1>3. \A b \in {<<"b">>, <<"-", "b">>} : b \in Seq(B) /\ b[1] # Quote
  <2>1. "b" \in B /\ "-" \in B
    BY <1>1, <1>2
  <2> HIDE DEF B
  <2>2. <<"b">> \in Seq(B) /\ <<"-", "b">> \in Seq(B)
    BY <2>1, OneIsSeq, TwoAreSeq, Zenon
  <2>3. <<"b">>[1] = "b" /\ <<"-", "b">>[1] = "-"
    OBVIOUS
  <2>4. ASSUME NEW b \in {<<"b">>, <<"-", "b">>} PROVE b \in Seq(B) /\ b[1] # Quote
    <3>1. CASE b = <<"b">>
      BY <1>2, <2>2, <2>3, <3>1, Zenon
    <3>2. CASE b = <<"-", "b">>
      BY <1>2, <2>2, <2>3, <3>2, Zenon
    <3> QED
      BY <3>1, <3>2, Zenon
  <2> QED
    BY <2>4, Zenon
<1>4. X \subseteq Seq(Seq(A))
  <2>1. {"b", "-", CRLF} \subseteq A
    BY <1>1
  <2>2. Lists({"b", "-", CRLF}, 0, 3) \subseteq Seq(A)
    <3> DEFINE S == {"b", "-", CRLF}
    <3>1. S \subseteq A
      BY <2>1
    <3> HIDE DEF S
    <3>2. Lists(S, 0, 3) \subseteq Seq(S)
      BY ListsAre
    <3>3. \A s \in Seq(S) : s \in Seq(A)
      BY <3>1, SeqMonotonic
    <3>4. Lists(S, 0, 3) \subseteq Seq(A)
      BY <3>2, <3>3, Zenon
    <3> QED
      BY <3>4, Zenon DEF S
  <2>3. X \subseteq Seq(Lists({"b", "-", CRLF}, 0, 3))
    BY ListsAre
  <2> HIDE DEF X
  <2> QED
    BY <2>2, <2>3, SeqMonotonic
<1>5. Y \subseteq Seq(Seq(A))
  <2>1. {<<"-", "-">>, <<"b", CRLF, CRLF>>, <<CRLF, "a">>} \subseteq Seq(A) /\ {<<>>, <<"c", CRLF>>} \subseteq Seq(A)
    BY <1>1
  <2>2. \A y \in Seq(A) \X Seq(A) : y \in Seq(Seq(A))
    <3> TAKE y \in Seq(A) \X Seq(A)
    <3>1. PICK u \in Seq(A), v \in Seq(A) : y = <<u, v>>
      OBVIOUS
    <3> QED
      BY <3>1, TwoAreSeq
  <2>3. \A y \in Y : y \in Seq(A) \X Seq(A)
    BY <2>1
  <2> QED
    BY <2>2, <2>3
<1> HIDE DEF X, Y, B
<1>6. ASSUME NEW q \in F, \A i \in DOMAIN q.contents : ~Occurs(<<"-", "-">> \o q.boundary, q.contents[i])
      PROVE  q \in AnyForms(A)
  <2>1. q \in [kind : {"form"}, boundary : Seq(B), quoted : BOOLEAN, preamble : BOOLEAN, contents : Seq(Seq(A))]
    BY <1>3, <1>4, <1>5
  <2>2. q.boundary[1] # Quote
    BY <1>3
  <2> QED
    BY <1>6, <2>1, <2>2, Zenon DEF AnyForms, B
<1>7. FormQuestions = {q \in F : \A i \in DOMAIN q.contents : ~Occurs(<<"-", "-">> \o q.boundary, q.contents[i])}
  BY Zenon DEF FormQuestions, X, Y
<1> HIDE DEF F
<1> QED
  BY <1>6, <1>7, Zenon DEF A

\* Every form MCParsing asks about is one of them.
FormAsked == asked.kind = "form" => asked \in AnyForms(FormLetters)

LEMMA StaysFormAsked == Spec => []FormAsked
<1>1. Init => FormAsked
  BY DEF Init, FormAsked
<1>2. FormAsked /\ [Next]_asked => FormAsked'
  <2> SUFFICES ASSUME FormAsked, [Next]_asked PROVE FormAsked'
    OBVIOUS
  <2>1. CASE AskRoute
    <3> DEFINE X == Lists(DeclaredRoutes, 1, 3)
               Y == Lists(Segments, 0, 2)
    <3>1. RouteQuestions = [kind : {"route"}, table : X, segments : Y, spare : BOOLEAN]
      BY Zenon DEF RouteQuestions
    <3> HIDE DEF X, Y
    <3>2. \A q \in RouteQuestions : q.kind = "route"
      BY <3>1
    <3> QED
      BY <2>1, <3>2 DEF AskRoute, Ask, FormAsked
  <2>2. CASE AskForm
    BY <2>2, FormsLegal DEF AskForm, Ask, FormAsked
  <2>3. CASE AskQuery \/ AskRequest \/ AskResponse
    BY <2>3, OtherKinds DEF AskQuery, AskRequest, AskResponse, Ask, FormAsked
  <2>4. CASE UNCHANGED asked
    BY <2>4 DEF FormAsked
  <2> QED
    BY <2>1, <2>2, <2>3, <2>4 DEF Next
<1> QED
  BY <1>1, <1>2, PTL DEF Spec

\* Every form MCParsing asks about is read as it was meant
\* (MultipartParser.cpp:13-105).
THEOREM FormsReadBack == Spec => []FormRead
<1>1. FormAlphabet(FormLetters)
  BY DEF FormAlphabet, FormLetters
<1>2. FormAsked => FormRead
  BY <1>1, FormsMeanWhatTheySay DEF FormAsked
<1> QED
  BY <1>2, StaysFormAsked, PTL

-----------------------------------------------------------------------------
(* Responses: how a client takes the text of one apart.                    *)

LEMMA LineReadBack ==
  ASSUME NEW A, Colon \in A, Blank \in A, CRLF \in A, NEW h \in HeaderOf(A)
  PROVE  LineName(Written(h)) = h.name /\ LineValue(Written(h)) = h.value
<1> DEFINE k == h.name
           v == h.value
           e == <<Colon, Blank>>
           w == Written(h)
           s == k \o e
<1>1. k \in Seq(A \ {CRLF, Colon}) /\ v \in Seq(A \ {CRLF})
  BY DEF HeaderOf
<1>2. w \in Seq(A \ {CRLF}) /\ s \in Seq(A \ {CRLF}) /\ w = s \o v
  BY WrittenIs
<1>3. k \in Seq(A) /\ v \in Seq(A) /\ w \in Seq(A) /\ s \in Seq(A)
  BY <1>1, <1>2, SeqMonotonic
<1>4. e \in Seq(A) /\ Len(e) = 2 /\ e[1] = Colon
  OBVIOUS
<1>5. PICK m \in Nat, n \in Nat : m = Len(k) /\ n = Len(v)
  BY <1>3, LenProperties
<1>6. \A i \in 1 .. m : k[i] # Colon
  <2>1. \A i \in 1 .. m : k[i] \in A \ {CRLF, Colon}
    BY <1>1, <1>5, ElementOfSeq
  <2> QED
    BY <2>1
<1> HIDE DEF k, v, e, w
<1>7. Joins(s, k, e)
  BY <1>3, <1>4, JoinsConcat
<1> HIDE DEF s
<1>8. Joins(w, s, v)
  BY <1>2, <1>3, JoinsConcat
<1>9. Len(s) = m + 2 /\ (\A i \in 1 .. m : s[i] = k[i]) /\ s[m + 1] = Colon
  BY <1>4, <1>5, <1>7 DEF Joins
<1>10. /\ Len(w) = m + 2 + n /\ (\A i \in 1 .. m + 2 : w[i] = s[i])
       /\ \A j \in 1 .. n : w[m + 2 + j] = v[j]
  BY <1>5, <1>8, <1>9 DEF Joins
<1>11. (\A i \in 1 .. m : w[i] = k[i]) /\ w[m + 1] = Colon
  <2>1. m + 1 \in 1 .. m + 2 /\ \A i \in 1 .. m : i \in 1 .. m + 2
    OBVIOUS
  <2> QED
    BY <1>9, <1>10, <2>1
<1>12. find(w, <<Colon>>, 1) = m + 1
  <2>1. <<Colon>> \in Seq(A) /\ Len(<<Colon>>) = 1
    BY One
  <2>2. \A i \in Nat : At(w, <<Colon>>, i) <=> w[i] = Colon
    BY AtOne
  <2>3. PICK one \in Nat \ {0} : one = 1
    OBVIOUS
  <2>4. m + 1 \in one .. (Len(w) - Len(<<Colon>>) + 1)
    BY <1>10, <2>1, <2>3
  <2>5. At(w, <<Colon>>, m + 1) /\ \A i \in one .. (m + 1) - 1 : ~At(w, <<Colon>>, i)
    <3>1. At(w, <<Colon>>, m + 1)
      BY <1>11, <2>2
    <3>2. \A i \in one .. (m + 1) - 1 : i \in Nat /\ i \in 1 .. m
      BY <2>3
    <3> QED
      BY <1>6, <1>11, <2>2, <3>1, <3>2
  <2> DEFINE c == <<Colon>>
  <2>6. c \in Seq(A) /\ m + 1 \in one .. (Len(w) - Len(c) + 1)
        /\ At(w, c, m + 1) /\ \A i \in one .. (m + 1) - 1 : ~At(w, c, i)
    BY <2>1, <2>4, <2>5
  <2> HIDE DEF c
  <2>7. find(w, c, one) = m + 1
    BY <1>3, <2>3, <2>6, FindFirst
  <2> QED
    BY <2>3, <2>7 DEF c
<1>13. LineName(w) = k
  <2> DEFINE u == SubSeq(w, 1, m)
  <2>1. m \in 0 .. Len(w)
    BY <1>10
  <2>2. u \in Seq(A) /\ Len(u) = m /\ \A i \in 1 .. m : u[i] = w[i]
    BY <1>3, <2>1, PrefixIs
  <2>3. LineName(w) = SubSeq(w, 1, (m + 1) - 1) /\ (m + 1) - 1 = m
    BY <1>12 DEF LineName, Colon
  <2>4. LineName(w) = u
    BY <2>3
  <2> HIDE DEF u
  <2>5. u = k
    BY <1>3, <1>5, <1>11, <2>2, SeqEqual
  <2> QED
    BY <2>4, <2>5
<1>14. LineValue(w) = v
  <2> DEFINE from == m + 3
             to == m + 2 + n
             c == SubSeq(w, from, to)
  <2>1. LineValue(w) = c
    <3>1. (m + 1) + 2 = m + 3
      OBVIOUS
    <3>2. LineValue(w) = SubSeq(w, (m + 1) + 2, Len(w))
      BY <1>12 DEF LineValue, Colon
    <3> QED
      BY <1>10, <3>1, <3>2
  <2>2. from \in Int /\ to \in Int /\ to - from + 1 = n /\ (from <= to <=> n # 0)
    OBVIOUS
  <2>3. \A i \in from .. to : w[i] \in A
    <3> TAKE i \in from .. to
    <3>1. i \in 1 .. Len(w)
      BY <1>10
    <3> QED
      BY <1>3, <3>1, ElementOfSeq
  <2>4. \A i \in 1 .. n : from + i - 1 = m + 2 + i
    OBVIOUS
  <2> HIDE DEF from, to
  <2>5. /\ c \in Seq(A) /\ Len(c) = (IF from <= to THEN to - from + 1 ELSE 0)
        /\ \A i \in 1 .. to - from + 1 : c[i] = w[from + i - 1]
    BY <2>2, <2>3, SubSeqProperties
  <2> HIDE DEF c
  <2>6. c \in Seq(A) /\ Len(c) = n /\ \A i \in 1 .. n : c[i] = w[from + i - 1]
    BY <2>2, <2>5
  <2>7. \A i \in 1 .. n : c[i] = v[i]
    BY <1>10, <2>4, <2>6
  <2>8. c = v
    BY <1>3, <1>5, <2>6, <2>7, SeqEqual
  <2> QED
    BY <2>1, <2>8
<1> QED
  BY <1>13, <1>14 DEF k, v, w

StatusLine(n) == (<<"HTTP/1.1", " ">> \o to_string(n)) \o <<" ", "reason">>

RawText(r, pairs) ==
  <<"HTTP/1.1", " ">> \o to_string(r.statusCode) \o <<" ", "reason", CRLF>>
  \o FlattenSeq([i \in DOMAIN pairs |-> HeaderText(pairs[i])])
  \o FlattenSeq([i \in DOMAIN r.setCookieHeaders |->
                   HeaderText(KVPair(<<"Set-Cookie">>, r.setCookieHeaders[i]))])
  \o <<CRLF>> \o r.rawBody

LEMMA RawResponseIs == ASSUME NEW r PROVE toRawResponse(r) = {RawText(r, pairs) : pairs \in getAll(r.headers)}
BY Zenon DEF toRawResponse, RawText

\* The symbols a response is written with.
ResponseSymbols ==
  {CRLF, ":", " ", "HTTP/1.1", "reason", "Set-Cookie", "Content-Type", "Content-Length", "text/html", "Location",
   "c", "=", ";", "Path", "/", "Domain", "a", "Max-Age", "1", "0", "Secure", "SameSite", "Lax"} \cup Ten

ResponseAlphabet(A) == ResponseSymbols \subseteq A

LEMMA StatusIs ==
  ASSUME NEW A, ResponseAlphabet(A), NEW n \in Nat
  PROVE  /\ StatusLine(n) \in Seq(A \ {CRLF}) /\ StatusLine(n) # <<>>
         /\ (<<"HTTP/1.1", " ">> \o to_string(n)) \o <<" ", "reason", CRLF>> = StatusLine(n) \o <<CRLF>>
<1> DEFINE B == A \ {CRLF}
           a == <<"HTTP/1.1", " ">>
           s == to_string(n)
           z == <<" ", "reason">>
           e == <<CRLF>>
<1>1. /\ "HTTP/1.1" \in B /\ " " \in B /\ "reason" \in B /\ CRLF \in A
  BY DEF ResponseAlphabet, ResponseSymbols, CRLF
<1>2. s \in Seq(Ten) /\ Ten \subseteq B
  <2>1. s \in Figures
    BY NumbersReadBack DEF Numeral
  <2>2. s \in Seq(DOMAIN Digit)
    BY <2>1 DEF Figures
  <2>3. DOMAIN Digit \subseteq Ten
    BY DigitIs
  <2>4. Ten \subseteq B
    BY TenIs DEF ResponseAlphabet, ResponseSymbols, Blanks
  <2> HIDE DEF s, B
  <2> QED
    BY <2>2, <2>3, <2>4, SeqMonotonic
<1>3. s \in Seq(B) /\ a \in Seq(B) /\ z \in Seq(B) /\ Len(a) = 2
  <2>1. s \in Seq(B)
    BY <1>2, SeqMonotonic
  <2>2. a \in Seq(B) /\ z \in Seq(B)
    BY <1>1, TwoAreSeq
  <2> QED
    BY <2>1, <2>2
<1>4. <<" ", "reason", CRLF>> = z \o e
  BY TwoAndOne
<1>5. e \in Seq(A) /\ B \subseteq A
  BY <1>1, One
<1> HIDE DEF a, s, z, e, B
<1>6. a \o s \in Seq(B) /\ Len(a \o s) = Len(a) + Len(s) /\ Len(s) \in Nat
  BY <1>3, ConcatProperties, LenProperties
<1>7. (a \o s) \o z \in Seq(B) /\ Len((a \o s) \o z) = Len(a \o s) + Len(z) /\ Len(z) \in Nat
  BY <1>3, <1>6, ConcatProperties, LenProperties
<1>8. (a \o s) \o z # <<>>
  <2>1. Len((a \o s) \o z) # 0
    BY <1>3, <1>6, <1>7
  <2> QED
    BY <2>1, EmptySeq
<1>9. Associate(a \o s, z, e)
  <2>1. a \o s \in Seq(A) /\ z \in Seq(A)
    BY <1>3, <1>5, <1>6, SeqMonotonic
  <2> QED
    BY <1>5, <2>1, Associates
<1>10. (a \o s) \o (z \o e) = ((a \o s) \o z) \o e
  BY <1>9 DEF Associate
<1> QED
  BY <1>4, <1>7, <1>8, <1>10, Zenon DEF StatusLine, a, s, z, e, B

\* A response is written as a block of headers, a blank line and a body.
LEMMA RawTextIs ==
  ASSUME NEW A, ResponseAlphabet(A), NEW r, r.statusCode \in Nat, r.rawBody \in Seq(A),
         r.setCookieHeaders \in Seq(Seq(A \ {CRLF})), NEW pairs \in Seq(PairOf(A))
  PROVE  RawText(r, pairs) =
           TextOf(StatusLine(r.statusCode), HeadersFrom(pairs) \o CookieHeaders(r.setCookieHeaders), r.rawBody)
<1> DEFINE P == HeadersFrom(pairs)
           C == CookieHeaders(r.setCookieHeaders)
           F == StatusLine(r.statusCode) \o <<CRLF>>
           X == FlattenSeq(HeaderLines(P))
           Y == FlattenSeq(HeaderLines(C))
<1>1. Colon \in A /\ Blank \in A /\ CRLF \in A /\ "Set-Cookie" \in A
  BY DEF ResponseAlphabet, ResponseSymbols, Colon, Blank
<1>2. P \in Seq(HeaderOf(A)) /\ C \in Seq(HeaderOf(A))
  BY <1>1, HeadersFromAre, CookieHeadersAre
<1>3. HeaderLines(P) = [i \in DOMAIN pairs |-> HeaderText(pairs[i])]
  BY Zenon DEF HeaderLines, HeadersFrom, HeaderFrom, HeaderText, HeaderLine, P
<1>4. HeaderLines(C) = [i \in DOMAIN r.setCookieHeaders |->
                          HeaderText(KVPair(<<"Set-Cookie">>, r.setCookieHeaders[i]))]
  BY DEF HeaderLines, CookieHeaders, CookieHeader, HeaderText, HeaderLine, KVPair, C
<1>5. (<<"HTTP/1.1", " ">> \o to_string(r.statusCode)) \o <<" ", "reason", CRLF>> = F
  BY StatusIs
<1>6. RawText(r, pairs) = (((F \o X) \o Y) \o <<CRLF>>) \o r.rawBody
  BY <1>3, <1>4, <1>5, Zenon DEF RawText
<1>7. F \in Seq(A)
  <2>1. StatusLine(r.statusCode) \in Seq(A \ {CRLF})
    BY StatusIs
  <2>2. StatusLine(r.statusCode) \in Seq(A)
    BY <2>1, SeqMonotonic
  <2> DEFINE s == StatusLine(r.statusCode)
  <2> HIDE DEF s
  <2>3. s \o <<CRLF>> \in Seq(A)
    BY <1>1, <2>2, One, ConcatProperties DEF s
  <2> QED
    BY <2>3 DEF s
<1> HIDE DEF P, C, F
<1>8. HeaderLines(P) \in Seq(Seq(A)) /\ HeaderLines(C) \in Seq(Seq(A))
  BY <1>1, <1>2, HeaderLinesAre
<1>9. HeaderLines(P \o C) = HeaderLines(P) \o HeaderLines(C)
  BY <1>1, <1>2, HeaderLinesConcat
<1>10. FlattenSeq(HeaderLines(P \o C)) = X \o Y
  <2> DEFINE p == HeaderLines(P)
             c == HeaderLines(C)
  <2>1. FlattensBoth(p, c)
    BY <1>8, FlattenConcat
  <2> QED
    BY <1>9, <2>1 DEF FlattensBoth
<1>11. X \in Seq(A) /\ Y \in Seq(A)
  <2> DEFINE p == HeaderLines(P)
             c == HeaderLines(C)
  <2>1. p \in Seq(Seq(A)) /\ c \in Seq(Seq(A)) /\ <<>> \in Seq(A)
    BY <1>8, EmptySeq
  <2> HIDE DEF p, c
  <2>2. FlattenSeq(p) \in Seq(A) /\ FlattenSeq(c) \in Seq(A)
    BY <2>1, FlattenAppend
  <2> QED
    BY <2>2 DEF p, c
<1> HIDE DEF X, Y
<1>12. Associate(F, X, Y)
  BY <1>7, <1>11, Associates
<1>13. Block(F, P \o C) = (F \o X) \o Y
  BY <1>10, <1>12, Zenon DEF Block, Associate
<1>14. TextOf(StatusLine(r.statusCode), P \o C, r.rawBody) = (((F \o X) \o Y) \o <<CRLF>>) \o r.rawBody
  BY <1>13, Zenon DEF TextOf, F
<1> QED
  BY <1>6, <1>14, Zenon DEF P, C

CookieRead(line) == IF IsCookie(line) THEN <<LineValue(line)>> ELSE <<>>

CookiesRead(lines) == FlattenSeq([i \in DOMAIN lines |-> CookieRead(lines[i])])

\* The headers among the lines are the ones before the cookies.
ReadBack(lines, P, cs) ==
  /\ CookiesRead(lines) = cs
  /\ {i \in DOMAIN lines : ~IsCookie(lines[i])} = 1 .. Len(P)
  /\ \A i \in 1 .. Len(P) : LineName(lines[i]) = P[i].name /\ LineValue(lines[i]) = P[i].value

LEMMA HeadersRead ==
  ASSUME NEW A, ResponseAlphabet(A), NEW P \in Seq(HeaderOf(A)),
         \A i \in 1 .. Len(P) : P[i].name # <<"Set-Cookie">>,
         NEW cs \in Seq(Seq(A \ {CRLF})), NEW lines, lines = Writtens(P \o CookieHeaders(cs))
  PROVE  ReadBack(lines, P, cs)
<1> DEFINE C == CookieHeaders(cs)
           hs == P \o C
           H == HeaderOf(A)
<1>0. PICK m \in Nat, n \in Nat : m = Len(P) /\ n = Len(cs)
  BY LenProperties
<1>1. Colon \in A /\ Blank \in A /\ CRLF \in A /\ "Set-Cookie" \in A
  BY DEF ResponseAlphabet, ResponseSymbols, Colon, Blank
<1>2. C \in Seq(H) /\ Len(C) = n /\ \A i \in 1 .. n : C[i] = CookieHeader(cs[i])
  BY <1>0, <1>1, CookieHeadersAre
<1> HIDE DEF C
<1>3. hs \in Seq(H) /\ Joins(hs, P, C)
  BY <1>2, JoinsConcat
<1>4. lines = Writtens(hs)
  BY DEF C
<1> HIDE DEF hs
<1>5. Len(hs) = m + n /\ (\A i \in 1 .. m : hs[i] = P[i]) /\ \A j \in 1 .. n : hs[m + j] = C[j]
  BY <1>0, <1>2, <1>3 DEF Joins
<1>6. lines \in Seq(Seq(A)) /\ Len(lines) = m + n /\ \A i \in 1 .. m + n : lines[i] = Written(hs[i])
  <2>1. /\ lines \in Seq(Seq(A \ {CRLF}) \ {<<>>}) /\ Len(lines) = Len(hs)
        /\ \A i \in 1 .. Len(hs) : lines[i] = Written(hs[i])
    BY <1>1, <1>3, <1>4, WrittensAre
  <2>2. Seq(A \ {CRLF}) \ {<<>>} \subseteq Seq(A)
    BY SeqMonotonic
  <2>3. lines \in Seq(Seq(A))
    BY <2>1, <2>2, SeqMonotonic
  <2> QED
    BY <1>5, <2>1, <2>3
<1>7. DOMAIN lines = 1 .. m + n
  BY <1>6, LenProperties
<1>8. \A i \in 1 .. m + n : LineName(lines[i]) = hs[i].name /\ LineValue(lines[i]) = hs[i].value
  <2> TAKE i \in 1 .. m + n
  <2>1. hs[i] \in H
    BY <1>3, <1>5, ElementOfSeq
  <2> QED
    BY <1>1, <1>6, <2>1, LineReadBack
<1>9. \A i \in 1 .. m : LineName(lines[i]) = P[i].name /\ LineValue(lines[i]) = P[i].value
  <2> TAKE i \in 1 .. m
  <2>1. i \in 1 .. m + n
    OBVIOUS
  <2> QED
    BY <1>5, <1>8, <2>1
<1>10. \A i \in 1 .. m : ~IsCookie(lines[i])
  BY <1>0, <1>9 DEF IsCookie
<1>11. \A j \in 1 .. n : IsCookie(lines[m + j]) /\ LineValue(lines[m + j]) = cs[j]
  <2> TAKE j \in 1 .. n
  <2>1. m + j \in 1 .. m + n
    OBVIOUS
  <2>2. hs[m + j].name = <<"Set-Cookie">> /\ hs[m + j].value = cs[j]
    BY <1>2, <1>5 DEF CookieHeader
  <2> QED
    BY <1>8, <2>1, <2>2 DEF IsCookie
<1>12. \A i \in 1 .. m + n : (i <= m => i \in 1 .. m) /\ (~(i <= m) => \E j \in 1 .. n : i = m + j)
  <2> TAKE i \in 1 .. m + n
  <2>1. CASE ~(i <= m)
    <3>1. i - m \in 1 .. n /\ i = m + (i - m)
      BY <2>1
    <3> QED
      BY <2>1, <3>1
  <2> QED
    BY <2>1
<1>13. {i \in DOMAIN lines : ~IsCookie(lines[i])} = 1 .. m
  <2>1. ASSUME NEW i \in 1 .. m + n, ~IsCookie(lines[i]) PROVE i \in 1 .. m
    BY <1>11, <1>12, <2>1
  <2>2. ASSUME NEW i \in 1 .. m PROVE i \in 1 .. m + n /\ ~IsCookie(lines[i])
    BY <1>10
  <2> QED
    BY <1>7, <2>1, <2>2
<1> DEFINE B == Seq(A)
           f == [i \in DOMAIN lines |-> CookieRead(lines[i])]
           g == Nones(m)
           o == Ones(cs)
           v == g \o o
<1>14. cs \in Seq(B)
  <2>1. Seq(A \ {CRLF}) \subseteq Seq(A)
    BY SeqMonotonic
  <2> QED
    BY <2>1, SeqMonotonic
<1>15. cs \in Seq(B) /\ <<>> \in Seq(B) /\ \A j \in 1 .. n : cs[j] \in B
  BY <1>0, <1>14, EmptySeq, ElementOfSeq
<1> HIDE DEF B
<1>16. g \in Seq(Seq(B)) /\ Len(g) = m /\ \A i \in 1 .. m : g[i] = <<>>
  <2>1. g \in [1 .. m -> Seq(B)] /\ \A i \in 1 .. m : g[i] = <<>>
    BY <1>15 DEF Nones
  <2> HIDE DEF g
  <2> QED
    BY <2>1, FunctionIsSeq
<1>17. o \in Seq(Seq(B)) /\ Len(o) = n /\ \A j \in 1 .. n : o[j] = <<cs[j]>>
  BY <1>0, <1>15, OnesAre
<1>18. FlattenSeq(g) = <<>> /\ FlattenSeq(o) = cs
  BY <1>15, FlattenNones, FlattenOnes
<1> HIDE DEF g, o
<1>19. v \in Seq(Seq(B)) /\ Joins(v, g, o)
  BY <1>16, <1>17, JoinsConcat
<1>20. FlattenSeq(v) = cs
  <2>1. FlattensBoth(g, o)
    BY <1>16, <1>17, FlattenConcat
  <2>2. <<>> \o cs = cs
    BY <1>15, ConcatEmptySeq
  <2> QED
    BY <1>18, <2>1, <2>2 DEF FlattensBoth
<1> HIDE DEF v
<1>21. Len(v) = m + n /\ (\A i \in 1 .. m : v[i] = <<>>) /\ \A j \in 1 .. n : v[m + j] = <<cs[j]>>
  BY <1>16, <1>17, <1>19 DEF Joins
<1>22. \A i \in 1 .. m + n : CookieRead(lines[i]) = v[i]
  <2> TAKE i \in 1 .. m + n
  <2>1. CASE i <= m
    BY <1>10, <1>12, <1>21, <2>1 DEF CookieRead
  <2>2. CASE ~(i <= m)
    <3>1. PICK j \in 1 .. n : i = m + j
      BY <1>12, <2>2
    <3> QED
      BY <1>11, <1>21, <3>1 DEF CookieRead
  <2> QED
    BY <2>1, <2>2
<1>23. f = v
  <2>1. v = [i \in 1 .. m + n |-> v[i]]
    BY <1>19, <1>21, LenProperties
  <2> QED
    BY <1>7, <1>22, <2>1
<1>24. CookiesRead(lines) = cs
  BY <1>20, <1>23 DEF CookiesRead
<1> QED
  BY <1>0, <1>9, <1>13, <1>24 DEF ReadBack

-----------------------------------------------------------------------------
(* Responses: what the calls of a handler make of one.                     *)

\* f is the recursive function inside FoldLeft, for the sets below n.
Makes(f, n, t) ==
  f = [s \in SUBSET (1 .. n) |-> IF s = {} THEN NewResponse ELSE Make(f[s \ {Max(s)}], t[Max(s)])]

MakesEach(f, n, t) ==
  \A s \in SUBSET (1 .. n) : f[s] = IF s = {} THEN NewResponse ELSE Make(f[s \ {Max(s)}], t[Max(s)])

LEMMA MakesAt == ASSUME NEW f, NEW n, NEW t, Makes(f, n, t) PROVE MakesEach(f, n, t)
<1> DEFINE g == [s \in SUBSET (1 .. n) |-> IF s = {} THEN NewResponse ELSE Make(f[s \ {Max(s)}], t[Max(s)])]
<1>1. f = g
  BY DEF Makes
<1> QED
  BY <1>1, Zenon DEF MakesEach

LEMMA MakesGrow ==
  ASSUME NEW f, NEW n \in Nat, NEW t, Makes(f, n, t)
  PROVE  \E g : Makes(g, n + 1, t)
<1> DEFINE F(s, earlier) == IF s = {} THEN NewResponse ELSE Make(earlier, t[Max(s)])
           g == [s \in SUBSET (1 .. n + 1) |-> F(s, f[s \ {Max(s)}])]
<1>1. \A s \in SUBSET (1 .. n) : g[s] = f[s]
  <2> TAKE s \in SUBSET (1 .. n)
  <2>1. f[s] = F(s, f[s \ {Max(s)}])
    <3>1. MakesEach(f, n, t)
      BY MakesAt
    <3> QED
      BY <3>1, Zenon DEF MakesEach
  <2>2. s \in SUBSET (1 .. n + 1)
    OBVIOUS
  <2> HIDE DEF F
  <2>3. g[s] = F(s, f[s \ {Max(s)}])
    BY <2>2
  <2> HIDE DEF g
  <2> QED
    BY <2>1, <2>3
<1>2. \A s \in SUBSET (1 .. n + 1) : F(s, f[s \ {Max(s)}]) = F(s, g[s \ {Max(s)}])
  <2> TAKE s \in SUBSET (1 .. n + 1)
  <2>1. CASE s = {}
    BY <2>1
  <2>2. CASE s # {}
    <3>0. n + 1 \in Nat /\ s \subseteq 1 .. n + 1
      OBVIOUS
    <3> DEFINE x == Max(s)
    <3>1. x \in s /\ \A y \in s : y <= x
      <4> HIDE DEF F
      <4> QED
        BY <2>2, <3>0, Greatest
    <3> HIDE DEF x
    <3>2. s \ {x} \subseteq 1 .. n
      BY <3>1
    <3>3. g[s \ {x}] = f[s \ {x}]
      <4> HIDE DEF g
      <4> QED
        BY <1>1, <3>2
    <3> HIDE DEF g, F
    <3> QED
      BY <3>3 DEF x
  <2> QED
    BY <2>1, <2>2
<1>3. g = [s \in SUBSET (1 .. n + 1) |-> F(s, g[s \ {Max(s)}])]
  <2> HIDE DEF F
  <2> QED
    BY <1>2
<1> HIDE DEF g
<1> QED
  BY <1>3 DEF Makes

MadeOf(t) ==
  (CHOOSE h : h = [s \in SUBSET (DOMAIN t) |->
                     IF s = {} THEN NewResponse ELSE Make(h[s \ {Max(s)}], t[Max(s)])])[DOMAIN t]

LEMMA MadeIs == ASSUME NEW t PROVE Made(t) = MadeOf(t)
BY Zenon DEF Made, FoldLeft, MapThenFoldSet, MadeOf

\* g[k] is the response behind the first k calls.
Stages(g, n, t) == g[0] = NewResponse /\ \A k \in 0 .. n - 1 : g[k + 1] = Make(g[k], t[k + 1])

LEMMA MadeStages ==
  ASSUME NEW n \in Nat, NEW t, DOMAIN t = 1 .. n
  PROVE  \E g : Stages(g, n, t) /\ Made(t) = g[n]
<1> DEFINE U == {k \in Nat : \E f : Makes(f, k, t)}
<1>1. 0 \in U
  <2> DEFINE g == [s \in {{}} |-> NewResponse]
  <2>1. SUBSET (1 .. 0) = {{}} /\ g[{}] = NewResponse
    OBVIOUS
  <2>2. g = [s \in SUBSET (1 .. 0) |-> IF s = {} THEN NewResponse ELSE Make(g[s \ {Max(s)}], t[Max(s)])]
    BY <2>1
  <2> HIDE DEF g
  <2>3. Makes(g, 0, t)
    BY <2>2 DEF Makes
  <2> QED
    BY <2>3
<1>2. ASSUME NEW k \in Nat, k \in U PROVE k + 1 \in U
  BY <1>2, MakesGrow
<1> HIDE DEF U
<1>3. n \in U
  BY <1>1, <1>2, Induct
<1> DEFINE f == CHOOSE f : Makes(f, n, t)
<1>4. Makes(f, n, t)
  BY <1>3 DEF U
<1>5. Made(t) = f[1 .. n]
  <2>1. MadeOf(t) = f[1 .. n]
    BY Zenon DEF MadeOf, Makes
  <2> HIDE DEF f
  <2> QED
    BY <2>1, MadeIs
<1> HIDE DEF f
<1>6. MakesEach(f, n, t)
  BY <1>4, MakesAt
<1> DEFINE g == [k \in 0 .. n |-> f[1 .. k]]
<1>7. \A k \in 0 .. n : g[k] = f[1 .. k]
  OBVIOUS
<1> HIDE DEF g
<1>8. g[0] = NewResponse
  <2>1. 1 .. 0 = {} /\ 1 .. 0 \in SUBSET (1 .. n) /\ 0 \in 0 .. n
    OBVIOUS
  <2>2. f[1 .. 0] = NewResponse
    BY <1>6, <2>1 DEF MakesEach
  <2> QED
    BY <1>7, <2>1, <2>2
<1>9. \A k \in 0 .. n - 1 : g[k + 1] = Make(g[k], t[k + 1])
  <2> TAKE k \in 0 .. n - 1
  <2> DEFINE s == 1 .. k + 1
  <2>0. k \in Nat /\ k + 1 \in Nat /\ k + 1 <= n
    OBVIOUS
  <2>1. s \subseteq Nat /\ k + 1 \in s /\ s \in SUBSET (1 .. n) /\ s \subseteq 1 .. k + 1
    <3>1. \A i \in s : i \in Nat /\ i \in 1 .. n
      BY <2>0
    <3>2. k + 1 \in s
      BY <2>0
    <3> HIDE DEF s
    <3>3. s \subseteq 1 .. k + 1
      BY DEF s
    <3> QED
      BY <3>1, <3>2, <3>3
  <2>2. k \in 0 .. n /\ k + 1 \in 0 .. n /\ s # {}
    <3> HIDE DEF s
    <3> QED
      BY <2>0, <2>1
  <2>3. s \ {k + 1} = 1 .. k
    BY <2>0
  <2>4. \A y \in s : y <= k + 1
    OBVIOUS
  <2>5. g[k + 1] = f[s] /\ g[k] = f[1 .. k]
    BY <1>7, <2>2
  <2> HIDE DEF s
  <2>6. Max(s) \in s /\ \A y \in s : y <= Max(s)
    BY <2>0, <2>1, <2>2, Greatest
  <2> DEFINE x == Max(s)
  <2>7. x = k + 1
    <3>1. x \in Nat /\ x <= k + 1 /\ k + 1 <= x
      BY <2>1, <2>4, <2>6
    <3> HIDE DEF x
    <3> QED
      BY <2>0, <3>1
  <2>8. f[s] = IF s = {} THEN NewResponse ELSE Make(f[s \ {Max(s)}], t[Max(s)])
    BY <1>6, <2>1, Zenon DEF MakesEach
  <2>9. f[s] = Make(f[1 .. k], t[k + 1])
    BY <2>2, <2>3, <2>7, <2>8
  <2> QED
    BY <2>5, <2>9
<1>10. Made(t) = g[n]
  BY <1>5, <1>7
<1> QED
  BY <1>8, <1>9, <1>10 DEF Stages

NotInNames == NewLines \cup {":", "\t", OtherByte}

\* The names and values that may be written in a head.
LegalNames(A) == Seq(A \ NotInNames) \ {<<>>}

LegalValues(A) == Seq(A \ NewLines)

LEMMA NamesValid == ASSUME NEW A, NEW h \in Seq(A) PROVE validHeaderName(h) <=> h \in LegalNames(A)
<1>1. (\A i \in DOMAIN h : h[i] \notin NotInNames) <=> h \in Seq(A \ NotInNames)
  BY WithoutIs
<1> QED
  BY <1>1 DEF validHeaderName, LegalNames, NotInNames

LEMMA ValuesValid == ASSUME NEW A, NEW v \in Seq(A) PROVE validHeaderValue(v) <=> v \in LegalValues(A)
<1>1. (\A i \in DOMAIN v : v[i] \notin NewLines) <=> v \in Seq(A \ NewLines)
  BY WithoutIs
<1> QED
  BY <1>1 DEF validHeaderValue, containsNewlines, LegalValues

LEMMA TokensValid ==
  ASSUME NEW A, NEW v \in Seq(A)
  PROVE  validCookieToken(v) <=> v \in LegalValues(A) \ {<<>>}
<1>1. (\A i \in DOMAIN v : v[i] \notin NewLines) <=> v \in Seq(A \ NewLines)
  BY WithoutIs
<1> QED
  BY <1>1 DEF validCookieToken, containsNewlines, LegalValues

\* What a handler may call: legal is what the code lets through.  A header of
\* the name Set-Cookie is left out: a client takes it for a cookie.
HeaderCalls(A) ==
  {c \in [call : {"header"}, name : Seq(A), value : Seq(A), legal : BOOLEAN] :
     /\ c.legal <=> c.name \in LegalNames(A) /\ c.value \in LegalValues(A)
     /\ c.legal => c.name # <<"Set-Cookie">>}

OptionsFor(A) ==
  [domain : Seq(A), path : Seq(A), expires : Seq(A), maxAge : Int, secure : BOOLEAN, httpOnly : BOOLEAN,
   sameSite : Seq(A), partitioned : BOOLEAN]

CookieCalls(A) ==
  {c \in [call : {"cookie"}, value : Seq(A), opts : OptionsFor(A), legal : BOOLEAN] :
     /\ c.legal <=> /\ c.value \in LegalValues(A) \ {<<>>}
                    /\ {c.opts.domain, c.opts.path, c.opts.sameSite} \subseteq LegalValues(A)
     /\ c.legal => c.opts \in {Bare, Dressed}}

SendCalls(A) == [call : {"send"}, text : Seq(A), legal : {TRUE}]

RedirectCalls(A) ==
  {c \in [call : {"redirect"}, text : Seq(A), legal : BOOLEAN] : c.legal <=> c.text \in LegalValues(A)}

CallsOf(A) == HeaderCalls(A) \cup CookieCalls(A) \cup SendCalls(A) \cup RedirectCalls(A)

LEMMA CallKinds ==
  ASSUME NEW A, NEW c \in CallsOf(A)
  PROVE  /\ c.call = "header" => c \in HeaderCalls(A)
         /\ c.call = "cookie" => c \in CookieCalls(A)
         /\ c.call = "send" => c \in SendCalls(A)
         /\ c.call = "redirect" => c \in RedirectCalls(A)
         /\ c.call \in {"header", "cookie", "send", "redirect"} /\ c.legal \in BOOLEAN
BY DEF CallsOf, HeaderCalls, CookieCalls, SendCalls, RedirectCalls

LEMMA MakesHeader ==
  ASSUME NEW A, NEW c \in HeaderCalls(A), NEW r
  PROVE  Make(r, c) = IF r.finalized \/ ~c.legal THEN r
                      ELSE [r EXCEPT !.headers = set(r.headers, c.name, c.value)]
<1>1. c.call = "header" /\ c.name \in Seq(A) /\ c.value \in Seq(A)
  BY DEF HeaderCalls
<1>2. c.legal <=> validHeaderName(c.name) /\ validHeaderValue(c.value)
  BY <1>1, NamesValid, ValuesValid DEF HeaderCalls
<1>3. Make(r, c) = setHeader(r, c.name, c.value)
  BY <1>1 DEF Make
<1> QED
  BY <1>2, <1>3 DEF setHeader

LEMMA MakesSend ==
  ASSUME NEW A, NEW c \in SendCalls(A), NEW r
  PROVE  Make(r, c) = IF r.finalized THEN r
                      ELSE [r EXCEPT !.finalized = TRUE, !.rawBody = c.text,
                              !.headers = set(r.headers, <<"Content-Length">>, to_string(Len(c.text)))]
<1>1. c.call = "send"
  BY DEF SendCalls
<1>2. Make(r, c) = send(r, c.text)
  BY <1>1 DEF Make
<1> QED
  BY <1>2 DEF send

LEMMA MakesRedirect ==
  ASSUME NEW A, NEW c \in RedirectCalls(A), NEW r
  PROVE  Make(r, c) = IF r.finalized \/ ~c.legal THEN r
                      ELSE [r EXCEPT !.finalized = TRUE, !.statusCode = 302,
                              !.headers = set(r.headers, <<"Location">>, c.text)]
<1>1. c.call = "redirect" /\ c.text \in Seq(A)
  BY DEF RedirectCalls
<1>2. c.legal <=> validHeaderValue(c.text)
  BY <1>1, ValuesValid DEF RedirectCalls
<1>3. Make(r, c) = redirect(r, c.text, FALSE)
  BY <1>1 DEF Make
<1> QED
  BY <1>2, <1>3 DEF redirect

-----------------------------------------------------------------------------
(* Responses: the line of a cookie.                                        *)

LEMMA TenWritten == to_string(10) = <<"1", "0">>
<1>0. PICK n \in Nat : n = 10
  OBVIOUS
<1>1. PICK f : Decimal(f, n) /\ to_string(n) = f[n]
  BY DecimalIs
<1>2. \A i \in 0 .. n : f[i] = IF i < 10 THEN <<Figure(i)>> ELSE f[i \div 10] \o <<Figure(i % 10)>>
  BY <1>1, DecimalAt
<1>3. n \div 10 = 1 /\ n % 10 = 0 /\ n \in 0 .. n /\ 1 \in 0 .. n /\ ~(n < 10) /\ 1 < 10
  BY <1>0
<1>4. f[1] = <<Figure(1)>>
  BY <1>2, <1>3, Zenon
<1>5. f[n] = f[1] \o <<Figure(0)>>
  <2>1. f[n] = f[n \div 10] \o <<Figure(n % 10)>>
    BY <1>2, <1>3, Zenon
  <2> QED
    BY <1>3, <2>1
<1>6. f[n] = <<"1">> \o <<"0">>
  BY <1>4, <1>5, FiguresAre
<1>7. <<"1">> \o <<"0">> = <<"1", "0">>
  BY OneAndOne
<1> QED
  BY <1>0, <1>1, <1>6, <1>7

Optional(given, words) == IF given THEN <<";", " ">> \o words ELSE <<>>

PathOption == <<";", " ", "Path", "=", "/">>

DomainOption == <<";", " ", "Domain", "=", "a">>

AgeOption == <<";", " ", "Max-Age", "=", "1", "0">>

SecureOption == <<";", " ", "Secure">>

SiteOption == <<";", " ", "SameSite", "=", "Lax">>

FiveCut(a, b, c, d, e) == <<a, b, c, d, e>> = <<a, b>> \o <<c, d, e>>

SixCut(a, b, c, d, e, f) == <<a, b, c, d, e, f>> = <<a, b>> \o <<c, d, e, f>>

LEMMA FiveOrSix ==
  ASSUME NEW a, NEW b, NEW c, NEW d, NEW e, NEW f
  PROVE  FiveCut(a, b, c, d, e) /\ SixCut(a, b, c, d, e, f)
BY DEF FiveCut, SixCut

LEMMA TwoAndTwo == ASSUME NEW a, NEW b, NEW c, NEW d PROVE <<a, b, c, d>> = <<a, b>> \o <<c, d>>
OBVIOUS

\* An option of a word and a value of one symbol.
LEMMA OptionOf ==
  ASSUME NEW k, NEW x
  PROVE  Optional(TRUE, <<k, "=">> \o <<x>>) = <<";", " ", k, "=", x>>
<1>1. <<k, "=", x>> = <<k, "=">> \o <<x>>
  BY TwoAndOne
<1>2. FiveCut(";", " ", k, "=", x)
  BY FiveOrSix
<1> QED
  BY <1>1, <1>2, Zenon DEF Optional, FiveCut

LEMMA OptionsAre ==
  /\ Optional(TRUE, <<"Path", "=">> \o <<"/">>) = PathOption
  /\ Optional(TRUE, <<"Domain", "=">> \o <<"a">>) = DomainOption
  /\ Optional(TRUE, <<"Max-Age", "=">> \o to_string(10)) = AgeOption
  /\ Optional(TRUE, <<"Secure">>) = SecureOption
  /\ Optional(TRUE, <<"SameSite", "=">> \o <<"Lax">>) = SiteOption
<1>1. <<"Max-Age", "=", "1", "0">> = <<"Max-Age", "=">> \o <<"1", "0">>
  BY TwoAndTwo
<1>2. SixCut(";", " ", "Max-Age", "=", "1", "0")
  BY FiveOrSix
<1>3. Optional(TRUE, <<"Max-Age", "=">> \o to_string(10)) = AgeOption
  BY <1>1, <1>2, TenWritten, Zenon DEF Optional, AgeOption, SixCut
<1>4. <<";", " ", "Secure">> = <<";", " ">> \o <<"Secure">>
  BY TwoAndOne
<1>5. Optional(TRUE, <<"Secure">>) = SecureOption
  BY <1>4, Zenon DEF Optional, SecureOption
<1> QED
  BY <1>3, <1>5, OptionOf, Zenon DEF PathOption, DomainOption, SiteOption

NoOption == <<>>

LEMMA OptionLeft == ASSUME NEW words PROVE Optional(FALSE, words) = NoOption
BY DEF Optional, NoOption

\* A line of its parts.
LineOf(w, o1, o2, o3, o4, o5, o6, o7, o8) ==
  w \o o1 \o o2 \o o3 \o o4 \o o5 \o o6 \o o7 \o o8

BareLine(w) ==
  LineOf(w, NoOption, PathOption, NoOption, NoOption, NoOption, NoOption, NoOption, NoOption)

DressedLine(w) ==
  LineOf(w, DomainOption, PathOption, NoOption, AgeOption, SecureOption, NoOption, SiteOption, NoOption)

LEMMA CookieLineIs ==
  ASSUME NEW v, NEW o
  PROVE  CookieLine(<<"c">>, v, o) =
           LineOf(<<"c">> \o <<"=">> \o v,
                  Optional(o.domain # <<>>, <<"Domain", "=">> \o o.domain),
                  Optional(o.path # <<>>, <<"Path", "=">> \o o.path),
                  Optional(o.expires # <<>>, <<"Expires", "=">> \o o.expires),
                  Optional(o.maxAge >= 0, <<"Max-Age", "=">> \o to_string(Max({0, o.maxAge}))),
                  Optional(o.secure, <<"Secure">>),
                  Optional(o.httpOnly, <<"HttpOnly">>),
                  Optional(o.sameSite # <<>>, <<"SameSite", "=">> \o o.sameSite),
                  Optional(o.partitioned, <<"Partitioned">>))
BY Zenon DEF CookieLine, Optional, LineOf

LEMMA BareIs == ASSUME NEW v PROVE CookieLine(<<"c">>, v, Bare) = BareLine(<<"c">> \o <<"=">> \o v)
<1> DEFINE o == Bare
           x1 == Optional(o.domain # <<>>, <<"Domain", "=">> \o o.domain)
           x2 == Optional(o.path # <<>>, <<"Path", "=">> \o o.path)
           x3 == Optional(o.expires # <<>>, <<"Expires", "=">> \o o.expires)
           x4 == Optional(o.maxAge >= 0, <<"Max-Age", "=">> \o to_string(Max({0, o.maxAge})))
           x5 == Optional(o.secure, <<"Secure">>)
           x6 == Optional(o.httpOnly, <<"HttpOnly">>)
           x7 == Optional(o.sameSite # <<>>, <<"SameSite", "=">> \o o.sameSite)
           x8 == Optional(o.partitioned, <<"Partitioned">>)
           w == <<"c">> \o <<"=">> \o v
           l == CookieLine(<<"c">>, v, o)
<1>1. /\ (o.domain # <<>>) = FALSE /\ (o.path # <<>>) = TRUE /\ (o.expires # <<>>) = FALSE
      /\ (o.maxAge >= 0) = FALSE /\ o.secure = FALSE /\ o.httpOnly = FALSE
      /\ (o.sameSite # <<>>) = FALSE /\ o.partitioned = FALSE /\ o.path = <<"/">>
  BY DEF Bare
<1> HIDE DEF o
<1>2. x1 = NoOption
  BY <1>1, OptionLeft, Zenon
<1>3. x2 = PathOption
  BY <1>1, OptionsAre, Zenon
<1>4. x3 = NoOption
  BY <1>1, OptionLeft, Zenon
<1>5. x4 = NoOption
  BY <1>1, OptionLeft, Zenon
<1>6. x5 = NoOption
  BY <1>1, OptionLeft, Zenon
<1>7. x6 = NoOption
  BY <1>1, OptionLeft, Zenon
<1>8. x7 = NoOption
  BY <1>1, OptionLeft, Zenon
<1>9. x8 = NoOption
  BY <1>1, OptionLeft, Zenon
<1>10. l = LineOf(w, x1, x2, x3, x4, x5, x6, x7, x8)
  BY CookieLineIs, Zenon
<1> HIDE DEF x1, x2, x3, x4, x5, x6, x7, x8, w, l
<1>11. l = BareLine(w)
  BY <1>2, <1>3, <1>4, <1>5, <1>6, <1>7, <1>8, <1>9, <1>10 DEF BareLine
<1> QED
  BY <1>11 DEF l, w, o

LEMMA DressedIs == ASSUME NEW v PROVE CookieLine(<<"c">>, v, Dressed) = DressedLine(<<"c">> \o <<"=">> \o v)
<1> DEFINE o == Dressed
           x1 == Optional(o.domain # <<>>, <<"Domain", "=">> \o o.domain)
           x2 == Optional(o.path # <<>>, <<"Path", "=">> \o o.path)
           x3 == Optional(o.expires # <<>>, <<"Expires", "=">> \o o.expires)
           x4 == Optional(o.maxAge >= 0, <<"Max-Age", "=">> \o to_string(Max({0, o.maxAge})))
           x5 == Optional(o.secure, <<"Secure">>)
           x6 == Optional(o.httpOnly, <<"HttpOnly">>)
           x7 == Optional(o.sameSite # <<>>, <<"SameSite", "=">> \o o.sameSite)
           x8 == Optional(o.partitioned, <<"Partitioned">>)
           w == <<"c">> \o <<"=">> \o v
           l == CookieLine(<<"c">>, v, o)
<1>1. /\ (o.domain # <<>>) = TRUE /\ (o.path # <<>>) = TRUE /\ (o.expires # <<>>) = FALSE
      /\ (o.maxAge >= 0) = TRUE /\ o.secure = TRUE /\ o.httpOnly = FALSE
      /\ (o.sameSite # <<>>) = TRUE /\ o.partitioned = FALSE /\ o.path = <<"/">>
      /\ o.domain = <<"a">> /\ o.sameSite = <<"Lax">> /\ o.maxAge = 10
  BY DEF Dressed, Bare
<1> HIDE DEF o
<1>2. Max({0, o.maxAge}) = 10
  <2>1. PICK n \in Nat : n = 10
    OBVIOUS
  <2> DEFINE s == {0, n}
  <2>2. s \subseteq Int /\ n \in s /\ \A x \in s : n >= x
    OBVIOUS
  <2> HIDE DEF s
  <2>3. Max(s) = n
    BY <2>2, MaxIs
  <2> QED
    BY <1>1, <2>1, <2>3 DEF s
<1>3. x1 = DomainOption
  BY <1>1, OptionsAre, Zenon
<1>4. x2 = PathOption
  BY <1>1, OptionsAre, Zenon
<1>5. x3 = NoOption
  BY <1>1, OptionLeft, Zenon
<1>6. x4 = AgeOption
  BY <1>1, <1>2, OptionsAre, Zenon
<1>7. x5 = SecureOption
  BY <1>1, OptionsAre, Zenon
<1>8. x6 = NoOption
  BY <1>1, OptionLeft, Zenon
<1>9. x7 = SiteOption
  BY <1>1, OptionsAre, Zenon
<1>10. x8 = NoOption
  BY <1>1, OptionLeft, Zenon
<1>11. l = LineOf(w, x1, x2, x3, x4, x5, x6, x7, x8)
  BY CookieLineIs, Zenon
<1> HIDE DEF x1, x2, x3, x4, x5, x6, x7, x8, w, l
<1>12. l = DressedLine(w)
  BY <1>3, <1>4, <1>5, <1>6, <1>7, <1>8, <1>9, <1>10, <1>11 DEF DressedLine
<1> QED
  BY <1>12 DEF l, w, o

OptionSymbols == {";", " ", "Path", "=", "/", "Domain", "a", "Max-Age", "1", "0", "Secure", "SameSite", "Lax"}

LEMMA OptionsType ==
  ASSUME NEW A, OptionSymbols \subseteq A
  PROVE  /\ NoOption \in Seq(A) /\ PathOption \in Seq(A) /\ DomainOption \in Seq(A)
         /\ AgeOption \in Seq(A) /\ SecureOption \in Seq(A) /\ SiteOption \in Seq(A)
<1>1. /\ ";" \in A /\ " " \in A /\ "Path" \in A /\ "=" \in A /\ "/" \in A /\ "Domain" \in A /\ "a" \in A
      /\ "Max-Age" \in A /\ "1" \in A /\ "0" \in A /\ "Secure" \in A /\ "SameSite" \in A /\ "Lax" \in A
  BY DEF OptionSymbols
<1>2. NoOption \in Seq(A)
  BY EmptySeq DEF NoOption
<1>3. PathOption \in Seq(A) /\ DomainOption \in Seq(A) /\ SiteOption \in Seq(A)
  BY <1>1, SomeAreSeq, Zenon DEF PathOption, DomainOption, SiteOption
<1>4. AgeOption \in Seq(A) /\ SecureOption \in Seq(A)
  BY <1>1, SomeAreSeq, Zenon DEF AgeOption, SecureOption
<1> QED
  BY <1>2, <1>3, <1>4

LEMMA BareLineIs ==
  ASSUME NEW A, OptionSymbols \subseteq A, NEW w \in Seq(A)
  PROVE  BareLine(w) = w \o PathOption /\ w \o PathOption \in Seq(A)
<1> DEFINE p == PathOption
           z == w \o p
<1>1. p \in Seq(A)
  BY OptionsType
<1> HIDE DEF p
<1>2. z \in Seq(A)
  BY <1>1, ConcatProperties
<1>3. w \o <<>> = w /\ z \o <<>> = z
  BY <1>2, ConcatEmptySeq
<1> HIDE DEF z
<1>4. BareLine(w) = z
  BY <1>3, Zenon DEF BareLine, LineOf, NoOption, z, p
<1> QED
  BY <1>2, <1>4 DEF z, p

DressedOptions == (((DomainOption \o PathOption) \o AgeOption) \o SecureOption) \o SiteOption

LEMMA DressedLineIs ==
  ASSUME NEW A, OptionSymbols \subseteq A, NEW w \in Seq(A)
  PROVE  DressedLine(w) = w \o DressedOptions /\ w \o DressedOptions \in Seq(A)
<1> DEFINE d == DomainOption
           p == PathOption
           a == AgeOption
           s == SecureOption
           l == SiteOption
           d1 == d \o p
           d2 == d1 \o a
           d3 == d2 \o s
           d4 == d3 \o l
           w0 == w \o d
           w1 == w \o d1
           w2 == w \o d2
           w3 == w \o d3
           w4 == w \o d4
<1>1. d \in Seq(A) /\ p \in Seq(A) /\ a \in Seq(A) /\ s \in Seq(A) /\ l \in Seq(A)
  BY OptionsType
<1> HIDE DEF d, p, a, s, l
<1>2. d1 \in Seq(A)
  BY <1>1, ConcatProperties
<1>3. Associate(w, d, p)
  BY <1>1, Associates
<1> HIDE DEF d1
<1>4. d2 \in Seq(A) /\ Associate(w, d1, a)
  BY <1>1, <1>2, ConcatProperties, Associates
<1> HIDE DEF d2
<1>5. d3 \in Seq(A) /\ Associate(w, d2, s)
  BY <1>1, <1>4, ConcatProperties, Associates
<1> HIDE DEF d3
<1>6. d4 \in Seq(A) /\ Associate(w, d3, l)
  BY <1>1, <1>5, ConcatProperties, Associates
<1> HIDE DEF d4
<1>7. w1 \in Seq(A) /\ w3 \in Seq(A) /\ w2 \in Seq(A) /\ w4 \in Seq(A)
  BY <1>2, <1>4, <1>5, <1>6, ConcatProperties
<1>8. w0 \o p = w1
  BY <1>3, Zenon DEF Associate, d1
<1>9. w1 \o a = w2
  BY <1>4, Zenon DEF Associate, d2
<1>10. w2 \o s = w3
  BY <1>5, Zenon DEF Associate, d3
<1>11. w3 \o l = w4
  BY <1>6, Zenon DEF Associate, d4
<1> HIDE DEF w0, w1, w2, w3, w4
<1>12. w1 \o <<>> = w1 /\ w3 \o <<>> = w3 /\ w4 \o <<>> = w4
  BY <1>7, ConcatEmptySeq
<1>13. DressedLine(w) = ((((((((w0 \o p) \o <<>>) \o a) \o s) \o <<>>) \o l) \o <<>>))
  BY Zenon DEF DressedLine, LineOf, NoOption, w0, d, p, a, s, l
<1>14. DressedLine(w) = w4
  BY <1>8, <1>9, <1>10, <1>11, <1>12, <1>13, Zenon
<1> QED
  BY <1>7, <1>14, Zenon DEF w4, d4, d3, d2, d1, d, p, a, s, l, DressedOptions

\* A cookie is written as the line a browser must find.
LEMMA CookieIsWanted ==
  ASSUME NEW A, OptionSymbols \cup {"c"} \subseteq A, NEW c, c.value \in Seq(A), c.opts \in {Bare, Dressed}
  PROVE  CookieLine(<<"c">>, c.value, c.opts) = CookieWanted(c) /\ CookieWanted(c) \in Seq(A)
<1> DEFINE v == c.value
           n == <<"c", "=">>
           w == n \o v
<1>1. "c" \in A /\ "=" \in A /\ OptionSymbols \subseteq A
  BY DEF OptionSymbols
<1>2. n \in Seq(A)
  BY <1>1, TwoAreSeq
<1> HIDE DEF n
<1>3. w \in Seq(A)
  BY <1>2, ConcatProperties
<1>4. <<"c">> \o <<"=">> \o v = w
  <2>1. <<"c">> \o <<"=">> = n
    BY OneAndOne DEF n
  <2> QED
    BY <2>1, Zenon
<1>5. CASE c.opts = Bare
  <2>1. CookieWanted(c) = w \o PathOption
    BY <1>5, Zenon DEF CookieWanted, PathOption, n
  <2>2. CookieLine(<<"c">>, v, c.opts) = BareLine(w)
    BY <1>4, <1>5, BareIs, Zenon
  <2> HIDE DEF w
  <2> QED
    BY <1>1, <1>3, <2>1, <2>2, BareLineIs
<1>6. CASE c.opts = Dressed /\ c.opts # Bare
  <2>1. CookieWanted(c) = w \o DressedOptions
    BY <1>6, Zenon DEF CookieWanted, DressedOptions, DomainOption, PathOption, AgeOption, SecureOption,
                       SiteOption, n
  <2>2. CookieLine(<<"c">>, v, c.opts) = DressedLine(w)
    BY <1>4, <1>6, DressedIs, Zenon
  <2> HIDE DEF w
  <2> QED
    BY <1>1, <1>3, <2>1, <2>2, DressedLineIs
<1> QED
  BY <1>5, <1>6

LEMMA MakesCookie ==
  ASSUME NEW A, ResponseAlphabet(A), NEW c \in CookieCalls(A), NEW r
  PROVE  /\ Make(r, c) = IF r.finalized \/ ~c.legal THEN r
                         ELSE [r EXCEPT !.setCookieHeaders = Append(r.setCookieHeaders, CookieWanted(c))]
         /\ c.legal => CookieWanted(c) \in Seq(A \ {CRLF})
<1> DEFINE o == c.opts
           B == A \ {CRLF}
<1>1. c.call = "cookie" /\ c.value \in Seq(A) /\ o.domain \in Seq(A) /\ o.path \in Seq(A) /\ o.sameSite \in Seq(A)
  BY DEF CookieCalls, OptionsFor
<1>2. validCookieToken(<<"c">>)
  BY DEF validCookieToken, containsNewlines, NewLines, CRLF
<1>3. c.legal <=> /\ validCookieToken(c.value)
                  /\ validHeaderValue(o.domain) /\ validHeaderValue(o.path) /\ validHeaderValue(o.sameSite)
  <2>1. c.legal <=> /\ c.value \in LegalValues(A) \ {<<>>}
                    /\ {o.domain, o.path, o.sameSite} \subseteq LegalValues(A)
    BY DEF CookieCalls
  <2>2. /\ validCookieToken(c.value) <=> c.value \in LegalValues(A) \ {<<>>}
        /\ validHeaderValue(o.domain) <=> o.domain \in LegalValues(A)
        /\ validHeaderValue(o.path) <=> o.path \in LegalValues(A)
        /\ validHeaderValue(o.sameSite) <=> o.sameSite \in LegalValues(A)
    BY <1>1, TokensValid, ValuesValid
  <2> HIDE DEF o
  <2> QED
    BY <2>1, <2>2
<1>4. c.legal => CookieLine(<<"c">>, c.value, o) = CookieWanted(c) /\ CookieWanted(c) \in Seq(B)
  <2> SUFFICES ASSUME c.legal PROVE CookieLine(<<"c">>, c.value, o) = CookieWanted(c) /\ CookieWanted(c) \in Seq(B)
    OBVIOUS
  <2>1. o \in {Bare, Dressed} /\ c.value \in Seq(A \ NewLines)
    BY DEF CookieCalls, LegalValues
  <2>2. A \ NewLines \subseteq B
    BY DEF NewLines
  <2>3. c.value \in Seq(B)
    BY <2>1, <2>2, SeqMonotonic
  <2>4. OptionSymbols \cup {"c"} \subseteq B
    BY DEF ResponseAlphabet, ResponseSymbols, OptionSymbols, CRLF
  <2> HIDE DEF B
  <2> QED
    BY <2>1, <2>3, <2>4, CookieIsWanted DEF o
<1>5. Make(r, c) = setCookie(r, <<"c">>, c.value, o)
  BY <1>1 DEF Make
<1>6. setCookie(r, <<"c">>, c.value, o)
      = IF r.finalized \/ ~c.legal THEN r
        ELSE [r EXCEPT !.setCookieHeaders = Append(r.setCookieHeaders, CookieLine(<<"c">>, c.value, o))]
  BY <1>2, <1>3, Zenon DEF setCookie
<1> QED
  BY <1>4, <1>5, <1>6, Zenon

\* A number is written with symbols that may be in a header.
LEMMA NumbersAreValues ==
  ASSUME NEW A, ResponseAlphabet(A), NEW n \in Nat
  PROVE  to_string(n) \in LegalValues(A)
<1> DEFINE s == to_string(n)
           B == A \ NewLines
<1>1. s \in Figures
  BY NumbersReadBack DEF Numeral
<1>2. s \in Seq(DOMAIN Digit)
  BY <1>1 DEF Figures
<1>3. DOMAIN Digit \subseteq Ten
  BY DigitIs
<1>4. Ten \subseteq B
  BY DEF ResponseAlphabet, ResponseSymbols, NewLines, Ten, CRLF
<1> HIDE DEF s, B
<1>5. s \in Seq(B)
  BY <1>2, <1>3, <1>4, SeqMonotonic
<1> QED
  BY <1>5 DEF s, B, LegalValues

LEMMA LegalForPairs ==
  ASSUME NEW A, NEW name \in LegalNames(A), NEW value \in LegalValues(A)
  PROVE  name \in Seq(A \ {CRLF, Colon}) \ {<<>>} /\ value \in Seq(A \ {CRLF})
<1>1. A \ NotInNames \subseteq A \ {CRLF, Colon} /\ A \ NewLines \subseteq A \ {CRLF}
  BY DEF NotInNames, NewLines, Colon
<1> QED
  BY <1>1, SeqMonotonic DEF LegalNames, LegalValues

-----------------------------------------------------------------------------
(* Responses: the list of the headers.                                     *)

SmallNames(A) == {Folded(k) : k \in Seq(A)}

ListFits(l) ==
  IsFiniteSet(DOMAIN l) /\ \A m \in DOMAIN l : Folded(l[m].key) = m /\ l[m].key # <<"Set-Cookie">>

HeaderLists(A) == {l \in UNION {[D -> PairOf(A)] : D \in SUBSET SmallNames(A)} : ListFits(l)}

IsList(A, l) == l \in [DOMAIN l -> PairOf(A)] /\ DOMAIN l \subseteq SmallNames(A) /\ ListFits(l)

LEMMA HeaderListIs == ASSUME NEW A, NEW l PROVE l \in HeaderLists(A) <=> IsList(A, l)
<1>1. l \in HeaderLists(A) <=> l \in UNION {[D -> PairOf(A)] : D \in SUBSET SmallNames(A)} /\ ListFits(l)
  BY Zenon DEF HeaderLists
<1>2. l \in UNION {[D -> PairOf(A)] : D \in SUBSET SmallNames(A)}
      <=> l \in [DOMAIN l -> PairOf(A)] /\ DOMAIN l \subseteq SmallNames(A)
  BY FunctionsInto, Zenon
<1> QED
  BY <1>1, <1>2, Zenon DEF IsList

\* What set leaves behind: the value under its key, everything else as it was.
SetLeaves(A, l, new, key, value) ==
  /\ new \in HeaderLists(A) /\ DOMAIN new = DOMAIN l \cup {Folded(key)}
  /\ new[Folded(key)].value = value
  /\ \A m \in DOMAIN l \ {Folded(key)} : new[m] = l[m]
  /\ Folded(key) \notin DOMAIN l => new[Folded(key)] = KVPair(key, value)

LEMMA SetKeeps ==
  ASSUME NEW A, NEW l \in HeaderLists(A), NEW key \in Seq(A \ {CRLF, Colon}) \ {<<>>}, key # <<"Set-Cookie">>,
         NEW value \in Seq(A \ {CRLF})
  PROVE  SetLeaves(A, l, set(l, key, value), key, value)
<1> DEFINE name == Folded(key)
           spelling == IF name \in DOMAIN l THEN l[name].key ELSE key
           pair == KVPair(spelling, value)
           new == set(l, key, value)
<1>1. new = [m \in DOMAIN l \cup {name} |-> IF m = name THEN pair ELSE l[m]]
  BY Zenon DEF set
<1>2. /\ l \in [DOMAIN l -> PairOf(A)] /\ DOMAIN l \subseteq SmallNames(A) /\ IsFiniteSet(DOMAIN l)
      /\ \A m \in DOMAIN l : Folded(l[m].key) = m /\ l[m].key # <<"Set-Cookie">>
  BY HeaderListIs, Zenon DEF IsList, ListFits
<1>3. name \in SmallNames(A)
  <2>1. A \ {CRLF, Colon} \subseteq A
    OBVIOUS
  <2>2. key \in Seq(A)
    BY <2>1, SeqMonotonic
  <2> QED
    BY <2>2 DEF SmallNames
<1> HIDE DEF name
<1>4. Folded(spelling) = name /\ spelling # <<"Set-Cookie">> /\ spelling \in Seq(A \ {CRLF, Colon}) \ {<<>>}
  <2>1. CASE name \in DOMAIN l
    <3>1. l[name] \in PairOf(A) /\ spelling = l[name].key
      BY <1>2, <2>1
    <3>2. l[name].key \in Seq(A \ {CRLF, Colon}) \ {<<>>}
      BY <3>1 DEF PairOf
    <3> QED
      BY <1>2, <2>1, <3>1, <3>2
  <2>2. CASE name \notin DOMAIN l
    BY <2>2 DEF name
  <2> QED
    BY <2>1, <2>2
<1> HIDE DEF spelling
<1>5. pair \in PairOf(A) /\ pair.key = spelling /\ pair.value = value
  BY <1>4 DEF KVPair, PairOf
<1>6. name \notin DOMAIN l => pair = KVPair(key, value)
  BY DEF spelling
<1> HIDE DEF pair, new
<1>7. new \in [DOMAIN l \cup {name} -> PairOf(A)]
  BY <1>1, <1>2, <1>5
<1>8. /\ DOMAIN new = DOMAIN l \cup {name} /\ new[name] = pair
      /\ \A m \in DOMAIN l \ {name} : new[m] = l[m]
  BY <1>1
<1>9. IsFiniteSet(DOMAIN new)
  <2> DEFINE D == DOMAIN l
             E == DOMAIN new
  <2>1. IsFiniteSet(D) /\ E = D \cup {name}
    BY <1>2, <1>8
  <2> HIDE DEF D, E
  <2>2. IsFiniteSet(E)
    BY <2>1, FS_AddElement, Zenon
  <2> QED
    BY <2>2 DEF E
<1>10. \A m \in DOMAIN new : Folded(new[m].key) = m /\ new[m].key # <<"Set-Cookie">>
  BY <1>2, <1>4, <1>5, <1>8
<1>11. new \in HeaderLists(A)
  <2>1. DOMAIN new \subseteq SmallNames(A)
    BY <1>2, <1>3, <1>8
  <2>2. ListFits(new)
    BY <1>9, <1>10, Zenon DEF ListFits
  <2>3. new \in [DOMAIN new -> PairOf(A)]
    BY <1>7, <1>8
  <2> QED
    BY <2>1, <2>2, <2>3, HeaderListIs, Zenon DEF IsList
<1> QED
  BY <1>5, <1>6, <1>8, <1>11 DEF new, name, SetLeaves

-----------------------------------------------------------------------------
(* Responses: what is true of one behind every call.                       *)

\* The calls in effect among the first k, and those that set the header of the
\* small name m.
UpTo(t, k) == InEffect(t) \cap 1 .. k

Setting(t, k, m) == {i \in UpTo(t, k) : \E given \in Naming(t[i]) : Folded(given) = m}

Responses(A) ==
  [statusCode : Nat, rawBody : Seq(A), setCookieHeaders : Seq(Seq(A \ {CRLF})), finalized : BOOLEAN,
   headers : HeaderLists(A)]

FinalSays(r, t, k) == r.finalized <=> \E j \in 1 .. k : Final(t[j])

HeadersSay(l, t, k) ==
  /\ \A m \in DOMAIN l : IF Setting(t, k, m) = {} THEN l[m] \in Defaults
                         ELSE l[m].value = SetTo(t[Max(Setting(t, k, m))])
  /\ \A i \in UpTo(t, k) : \A name \in Naming(t[i]) : Folded(name) \in DOMAIN l
  /\ \A d \in Defaults : Folded(d.key) \in DOMAIN l

Baked(t, i) == IF i \in InEffect(t) /\ t[i].call = "cookie" THEN <<CookieWanted(t[i])>> ELSE <<>>

BakedTo(t, k) == [i \in 1 .. k |-> Baked(t, i)]

CookiesSay(r, t, k) == r.setCookieHeaders = FlattenSeq(BakedTo(t, k))

BodySays(r, t, k) ==
  /\ \A i \in UpTo(t, k) : t[i].call = "send" => r.rawBody = t[i].text
  /\ (\A i \in UpTo(t, k) : t[i].call # "send") => r.rawBody = <<>>

Says(A, r, t, k) ==
  /\ r \in Responses(A)
  /\ FinalSays(r, t, k)
  /\ HeadersSay(r.headers, t, k)
  /\ CookiesSay(r, t, k)
  /\ BodySays(r, t, k)

\* A call is in effect if it is legal and none before it was final.
EffectNext(t, k) ==
  LET fin == \E j \in 1 .. k : Final(t[j])
  IN  /\ k + 1 \in InEffect(t) <=> t[k + 1].legal /\ ~fin
      /\ k + 1 \notin UpTo(t, k) /\ UpTo(t, k) \subseteq 1 .. k
      /\ t[k + 1].legal /\ ~fin => UpTo(t, k + 1) = UpTo(t, k) \cup {k + 1}
      /\ ~(t[k + 1].legal /\ ~fin) => UpTo(t, k + 1) = UpTo(t, k)

LEMMA UpToNext ==
  ASSUME NEW A, NEW n \in Nat, NEW t, DOMAIN t = 1 .. n, \A i \in 1 .. n : t[i] \in CallsOf(A),
         NEW k \in 0 .. n - 1
  PROVE  EffectNext(t, k)
<1> DEFINE fin == \E j \in 1 .. k : Final(t[j])
           E == InEffect(t)
<1>1. k + 1 \in 1 .. n /\ k + 1 - 1 = k /\ k + 1 \notin 1 .. k /\ 1 .. k + 1 = 1 .. k \cup {k + 1}
  OBVIOUS
<1>2. \A i \in DOMAIN t : i \in E <=> t[i].legal /\ \A j \in 1 .. i - 1 : ~Final(t[j])
  BY Zenon DEF InEffect
<1>3. k + 1 \in E <=> t[k + 1].legal /\ \A j \in 1 .. k + 1 - 1 : ~Final(t[j])
  BY <1>1, <1>2
<1>4. k + 1 \in E <=> t[k + 1].legal /\ ~fin
  BY <1>1, <1>3
<1> HIDE DEF fin, E
<1>5. UpTo(t, k + 1) = E \cap (1 .. k \cup {k + 1}) /\ UpTo(t, k) = E \cap 1 .. k
  BY <1>1 DEF UpTo, E
<1> QED
  BY <1>1, <1>4, <1>5 DEF fin, E, EffectNext

\* The headers behind a call that sets none.
LEMMA HeadersStay ==
  ASSUME NEW t, NEW k, NEW l, HeadersSay(l, t, k), UpTo(t, k + 1) \subseteq UpTo(t, k) \cup {k + 1},
         UpTo(t, k) \subseteq UpTo(t, k + 1), k + 1 \in UpTo(t, k + 1) => k + 1 \in UpTo(t, k) \/ Naming(t[k + 1]) = {}
  PROVE  HeadersSay(l, t, k + 1)
<1>1. \A m : Setting(t, k + 1, m) = Setting(t, k, m)
  BY DEF Setting
<1>2. \A i \in UpTo(t, k + 1) : i \in UpTo(t, k) \/ Naming(t[i]) = {}
  OBVIOUS
<1> QED
  BY <1>1, <1>2, Zenon DEF HeadersSay

\* The headers behind a call that sets one.
LEMMA HeadersSet ==
  ASSUME NEW A, NEW t, NEW k \in Nat, NEW l \in HeaderLists(A), HeadersSay(l, t, k),
         UpTo(t, k) \subseteq 1 .. k, UpTo(t, k + 1) = UpTo(t, k) \cup {k + 1},
         NEW name \in Seq(A \ {CRLF, Colon}) \ {<<>>}, name # <<"Set-Cookie">>, NEW value \in Seq(A \ {CRLF}),
         Naming(t[k + 1]) = {name}, SetTo(t[k + 1]) = value
  PROVE  set(l, name, value) \in HeaderLists(A) /\ HeadersSay(set(l, name, value), t, k + 1)
<1> DEFINE new == set(l, name, value)
           small == Folded(name)
           S(m) == Setting(t, k, m)
           T(m) == Setting(t, k + 1, m)
<1>1. /\ new \in HeaderLists(A) /\ DOMAIN new = DOMAIN l \cup {small} /\ new[small].value = value
      /\ \A m \in DOMAIN l \ {small} : new[m] = l[m]
  <2>1. SetLeaves(A, l, new, name, value)
    BY SetKeeps
  <2> HIDE DEF new
  <2> QED
    BY <2>1, Zenon DEF SetLeaves
<1> HIDE DEF new
<1>2. \A m : T(m) = IF m = small THEN S(m) \cup {k + 1} ELSE S(m)
  BY DEF Setting
<1>3. \A m : S(m) \subseteq 1 .. k
  BY DEF Setting
<1> HIDE DEF small
<1>4. Max(T(small)) = k + 1 /\ T(small) # {}
  <2> DEFINE s == T(small)
  <2>1. s = S(small) \cup {k + 1}
    BY <1>2
  <2>2. S(small) \subseteq 1 .. k
    BY <1>3
  <2> HIDE DEF s, S
  <2>3. s \subseteq Int /\ k + 1 \in s /\ \A x \in s : k + 1 >= x
    BY <2>1, <2>2
  <2>4. Max(s) = k + 1
    BY <2>3, MaxIs
  <2> QED
    BY <2>3, <2>4 DEF s
<1>5. ASSUME NEW m \in DOMAIN new
      PROVE  IF T(m) = {} THEN new[m] \in Defaults ELSE new[m].value = SetTo(t[Max(T(m))])
  <2>1. CASE m = small
    BY <1>1, <1>4, <2>1
  <2>2. CASE m # small
    <3>1. m \in DOMAIN l /\ new[m] = l[m] /\ T(m) = S(m)
      BY <1>1, <1>2, <1>5, <2>2
    <3>2. IF S(m) = {} THEN l[m] \in Defaults ELSE l[m].value = SetTo(t[Max(S(m))])
      BY <3>1, Zenon DEF HeadersSay
    <3> HIDE DEF S, T
    <3> QED
      BY <3>1, <3>2
  <2> QED
    BY <2>1, <2>2
<1>6. \A i \in UpTo(t, k + 1) : \A given \in Naming(t[i]) : Folded(given) \in DOMAIN new
  <2> SUFFICES ASSUME NEW i \in UpTo(t, k + 1), NEW given \in Naming(t[i]) PROVE Folded(given) \in DOMAIN new
    OBVIOUS
  <2>1. CASE i = k + 1
    BY <1>1, <2>1 DEF small
  <2>2. CASE i \in UpTo(t, k)
    BY <1>1, <2>2 DEF HeadersSay
  <2> QED
    BY <2>1, <2>2
<1>7. \A d \in Defaults : Folded(d.key) \in DOMAIN new
  BY <1>1 DEF HeadersSay
<1>8. HeadersSay(new, t, k + 1)
  BY <1>5, <1>6, <1>7, Zenon DEF HeadersSay
<1> QED
  BY <1>1, <1>8 DEF new

\* The cookies behind a call that sets none, and behind one that sets one.
LEMMA CookiesNext ==
  ASSUME NEW B, NEW t, NEW k \in Nat, \A i \in 1 .. k + 1 : Baked(t, i) \in Seq(B)
  PROVE  /\ FlattenSeq(BakedTo(t, k)) \in Seq(B)
         /\ FlattenSeq(BakedTo(t, k + 1)) = FlattenSeq(BakedTo(t, k)) \o Baked(t, k + 1)
<1> DEFINE f == BakedTo(t, k)
           g == BakedTo(t, k + 1)
           e == Baked(t, k + 1)
<1>1. /\ f \in [1 .. k -> Seq(B)] /\ g \in [1 .. k + 1 -> Seq(B)] /\ g[k + 1] = e
      /\ \A i \in 1 .. k : g[i] = f[i]
  BY DEF BakedTo
<1> HIDE DEF f, g, e
<1>2. f \in Seq(Seq(B)) /\ g = Append(f, e) /\ e \in Seq(B)
  BY <1>1, OneMore
<1>3. FlattenSeq(f) \in Seq(B) /\ FlattenSeq(Append(f, e)) = FlattenSeq(f) \o e
  BY <1>2, FlattenAppend
<1> QED
  BY <1>2, <1>3 DEF f, g, e

LEMMA BakedType ==
  ASSUME NEW A, ResponseAlphabet(A), NEW t, NEW i \in DOMAIN t, t[i] \in CallsOf(A)
  PROVE  Baked(t, i) \in Seq(Seq(A \ {CRLF}))
<1>1. CASE i \in InEffect(t) /\ t[i].call = "cookie"
  <2>1. t[i].legal
    BY <1>1 DEF InEffect
  <2>2. t[i] \in CookieCalls(A)
    BY <1>1, CallKinds
  <2>3. CookieWanted(t[i]) \in Seq(A \ {CRLF})
    BY <2>1, <2>2, MakesCookie
  <2> QED
    BY <1>1, <2>3, One DEF Baked
<1>2. CASE ~(i \in InEffect(t) /\ t[i].call = "cookie")
  BY <1>2, EmptySeq DEF Baked
<1> QED
  BY <1>1, <1>2

LEMMA FinalNext ==
  ASSUME NEW t, NEW k \in Nat, NEW r, NEW q, FinalSays(r, t, k),
         q.finalized <=> r.finalized \/ Final(t[k + 1])
  PROVE  FinalSays(q, t, k + 1)
<1>1. \A j : j \in 1 .. k + 1 <=> j \in 1 .. k \/ j = k + 1
  OBVIOUS
<1>2. (\E j \in 1 .. k + 1 : Final(t[j])) <=> (\E j \in 1 .. k : Final(t[j])) \/ Final(t[k + 1])
  BY <1>1, Zenon
<1> QED
  BY <1>2, Zenon DEF FinalSays

\* A call that throws, or comes behind a final one, changes nothing.
LEMMA IdleCall ==
  ASSUME NEW A, ResponseAlphabet(A), NEW c \in CallsOf(A), NEW r, r.finalized \/ ~c.legal
  PROVE  Make(r, c) = r
<1>1. CASE c.call = "header"
  <2>1. c \in HeaderCalls(A)
    BY <1>1, CallKinds
  <2> QED
    BY <2>1, MakesHeader
<1>2. CASE c.call = "cookie"
  <2>1. c \in CookieCalls(A)
    BY <1>2, CallKinds
  <2> QED
    BY <2>1, MakesCookie
<1>3. CASE c.call = "send"
  <2>1. c \in SendCalls(A)
    BY <1>3, CallKinds
  <2>2. c.legal
    BY <2>1 DEF SendCalls
  <2> QED
    BY <2>1, <2>2, MakesSend
<1>4. CASE c.call = "redirect"
  <2>1. c \in RedirectCalls(A)
    BY <1>4, CallKinds
  <2> QED
    BY <2>1, MakesRedirect
<1> QED
  BY <1>1, <1>2, <1>3, <1>4, CallKinds

LEMMA SaysIdle ==
  ASSUME NEW A, ResponseAlphabet(A), NEW n \in Nat, NEW t, DOMAIN t = 1 .. n, \A i \in 1 .. n : t[i] \in CallsOf(A),
         NEW k \in 0 .. n - 1, NEW r, Says(A, r, t, k), r.finalized \/ ~t[k + 1].legal
  PROVE  Says(A, r, t, k + 1)
<1> DEFINE c == t[k + 1]
<1>0. k \in Nat /\ k + 1 \in 1 .. n /\ k + 1 \in Nat
  OBVIOUS
<1>1. c \in CallsOf(A)
  BY <1>0
<1>2. r.finalized <=> \E j \in 1 .. k : Final(t[j])
  BY Zenon DEF Says, FinalSays
<1>3. UpTo(t, k + 1) = UpTo(t, k) /\ k + 1 \notin InEffect(t) /\ k + 1 \notin UpTo(t, k)
  <2>1. EffectNext(t, k)
    BY UpToNext
  <2> QED
    BY <1>2, <2>1 DEF EffectNext
<1>4. Final(c) => r.finalized
  BY DEF Final
<1>5. FinalSays(r, t, k + 1)
  <2>1. r.finalized <=> r.finalized \/ Final(t[k + 1])
    BY <1>4
  <2>2. FinalSays(r, t, k)
    BY Zenon DEF Says
  <2> QED
    BY <1>0, <2>1, <2>2, FinalNext
<1>6. HeadersSay(r.headers, t, k + 1)
  <2>1. HeadersSay(r.headers, t, k)
    BY Zenon DEF Says
  <2> QED
    BY <1>3, <2>1, HeadersStay
<1>7. CookiesSay(r, t, k + 1)
  <2> DEFINE B == Seq(A \ {CRLF})
             s == FlattenSeq(BakedTo(t, k))
  <2>1. \A i \in 1 .. k + 1 : Baked(t, i) \in Seq(B)
    <3> TAKE i \in 1 .. k + 1
    <3>1. i \in 1 .. n
      BY <1>0
    <3> QED
      BY <3>1, BakedType
  <2> HIDE DEF B
  <2>2. s \in Seq(B) /\ FlattenSeq(BakedTo(t, k + 1)) = s \o Baked(t, k + 1)
    BY <1>0, <2>1, CookiesNext
  <2>3. Baked(t, k + 1) = <<>>
    BY <1>3 DEF Baked
  <2>4. r.setCookieHeaders = s
    BY Zenon DEF Says, CookiesSay
  <2> HIDE DEF s
  <2>5. s \o <<>> = s
    BY <2>2, ConcatEmptySeq
  <2> QED
    BY <2>2, <2>3, <2>4, <2>5 DEF CookiesSay
<1>8. BodySays(r, t, k + 1)
  BY <1>3, Zenon DEF Says, BodySays
<1> QED
  BY <1>5, <1>6, <1>7, <1>8, Zenon DEF Says

\* What holds before a call that takes effect.
Before(t, k, r) ==
  /\ UpTo(t, k + 1) = UpTo(t, k) \cup {k + 1} /\ UpTo(t, k) \subseteq 1 .. k
  /\ k + 1 \in InEffect(t) /\ k + 1 \notin UpTo(t, k)
  /\ \A i \in UpTo(t, k) : t[i].call # "send"
  /\ r.rawBody = <<>>
  /\ FlattenSeq(BakedTo(t, k)) = r.setCookieHeaders
  /\ FlattenSeq(BakedTo(t, k + 1)) = r.setCookieHeaders \o Baked(t, k + 1)

LEMMA BeforeEffect ==
  ASSUME NEW A, ResponseAlphabet(A), NEW n \in Nat, NEW t, DOMAIN t = 1 .. n, \A i \in 1 .. n : t[i] \in CallsOf(A),
         NEW k \in 0 .. n - 1, NEW r, Says(A, r, t, k), ~r.finalized, t[k + 1].legal
  PROVE  Before(t, k, r)
<1>0. k \in Nat /\ k + 1 \in 1 .. n
  OBVIOUS
<1>1. r.finalized <=> \E j \in 1 .. k : Final(t[j])
  BY Zenon DEF Says, FinalSays
<1>2. /\ UpTo(t, k + 1) = UpTo(t, k) \cup {k + 1} /\ UpTo(t, k) \subseteq 1 .. k
      /\ k + 1 \in InEffect(t) /\ k + 1 \notin UpTo(t, k)
  <2> DEFINE fin == \E j \in 1 .. k : Final(t[j])
             U == UpTo(t, k)
             V == UpTo(t, k + 1)
             E == InEffect(t)
  <2>1. ~fin
    BY <1>1
  <2>2. /\ k + 1 \in E <=> t[k + 1].legal /\ ~fin
        /\ k + 1 \notin U /\ U \subseteq 1 .. k
        /\ t[k + 1].legal /\ ~fin => V = U \cup {k + 1}
    <3>1. EffectNext(t, k)
      BY UpToNext
    <3> QED
      BY <3>1, Zenon DEF EffectNext
  <2> HIDE DEF fin, U, V, E
  <2>3. V = U \cup {k + 1} /\ U \subseteq 1 .. k /\ k + 1 \in E /\ k + 1 \notin U
    BY <2>1, <2>2
  <2> QED
    BY <2>3, Zenon DEF U, V, E
<1>3. \A i \in UpTo(t, k) : t[i].call # "send"
  <2> SUFFICES ASSUME NEW i \in UpTo(t, k), t[i].call = "send" PROVE FALSE
    OBVIOUS
  <2>1. t[i].legal /\ i \in 1 .. k
    BY <1>2 DEF UpTo, InEffect
  <2>2. Final(t[i])
    BY <2>1 DEF Final
  <2> QED
    BY <1>1, <2>1, <2>2
<1>4. r.rawBody = <<>>
  BY <1>3, Zenon DEF Says, BodySays
<1>5. FlattenSeq(BakedTo(t, k)) = r.setCookieHeaders
  BY Zenon DEF Says, CookiesSay
<1>6. FlattenSeq(BakedTo(t, k + 1)) = r.setCookieHeaders \o Baked(t, k + 1)
  <2> DEFINE B == Seq(A \ {CRLF})
  <2>1. \A i \in 1 .. k + 1 : Baked(t, i) \in Seq(B)
    <3> TAKE i \in 1 .. k + 1
    <3>1. i \in 1 .. n
      BY <1>0
    <3> QED
      BY <3>1, BakedType
  <2> HIDE DEF B
  <2>2. FlattenSeq(BakedTo(t, k + 1)) = FlattenSeq(BakedTo(t, k)) \o Baked(t, k + 1)
    BY <1>0, <2>1, CookiesNext
  <2> QED
    BY <1>5, <2>2
<1> QED
  BY <1>2, <1>3, <1>4, <1>5, <1>6, Zenon DEF Before

\* The cookies and the body behind a call that bakes no cookie and is no send.
LEMMA CookiesStay ==
  ASSUME NEW A, NEW t, NEW k \in Nat, NEW r \in Responses(A), NEW q, q.setCookieHeaders = r.setCookieHeaders,
         t[k + 1].call # "cookie", FlattenSeq(BakedTo(t, k + 1)) = r.setCookieHeaders \o Baked(t, k + 1)
  PROVE  CookiesSay(q, t, k + 1)
<1> DEFINE s == r.setCookieHeaders
           B == Seq(A \ {CRLF})
<1>1. s \in Seq(B)
  BY DEF Responses
<1> HIDE DEF s, B
<1>2. s \o <<>> = s
  BY <1>1, ConcatEmptySeq
<1>3. Baked(t, k + 1) = <<>>
  BY DEF Baked
<1> QED
  BY <1>2, <1>3 DEF CookiesSay, s

LEMMA BodyStays ==
  ASSUME NEW t, NEW k \in Nat, NEW r, NEW q, q.rawBody = r.rawBody, t[k + 1].call # "send",
         \A i \in UpTo(t, k) : t[i].call # "send", r.rawBody = <<>>, UpTo(t, k + 1) = UpTo(t, k) \cup {k + 1}
  PROVE  BodySays(q, t, k + 1)
<1>1. \A i \in UpTo(t, k + 1) : t[i].call # "send"
  OBVIOUS
<1> QED
  BY <1>1, Zenon DEF BodySays

LEMMA SaysHeader ==
  ASSUME NEW A, ResponseAlphabet(A), NEW n \in Nat, NEW t, DOMAIN t = 1 .. n, \A i \in 1 .. n : t[i] \in CallsOf(A),
         NEW k \in 0 .. n - 1, NEW r, Says(A, r, t, k), ~r.finalized, t[k + 1].legal, t[k + 1].call = "header"
  PROVE  Says(A, Make(r, t[k + 1]), t, k + 1)
<1> DEFINE c == t[k + 1]
           q == Make(r, c)
           l == set(r.headers, c.name, c.value)
<1>0. k \in Nat /\ k + 1 \in 1 .. n
  OBVIOUS
<1>1. c \in HeaderCalls(A)
  BY <1>0, CallKinds
<1>2. q = [r EXCEPT !.headers = l]
  BY <1>1, MakesHeader
<1>3. r \in Responses(A) /\ FinalSays(r, t, k) /\ HeadersSay(r.headers, t, k)
  BY Zenon DEF Says
<1>4. /\ UpTo(t, k + 1) = UpTo(t, k) \cup {k + 1} /\ UpTo(t, k) \subseteq 1 .. k
      /\ \A i \in UpTo(t, k) : t[i].call # "send"
      /\ r.rawBody = <<>>
      /\ FlattenSeq(BakedTo(t, k + 1)) = r.setCookieHeaders \o Baked(t, k + 1)
  <2>1. Before(t, k, r)
    BY BeforeEffect
  <2> QED
    BY <2>1, Zenon DEF Before
<1>5. c.name \in LegalNames(A) /\ c.value \in LegalValues(A) /\ c.name # <<"Set-Cookie">>
  BY <1>1 DEF HeaderCalls
<1>6. c.name \in Seq(A \ {CRLF, Colon}) \ {<<>>} /\ c.value \in Seq(A \ {CRLF})
  BY <1>5, LegalForPairs
<1>7. Naming(c) = {c.name} /\ SetTo(c) = c.value /\ ~Final(c)
  BY DEF Naming, SetTo, Final
<1>8. r.headers \in HeaderLists(A)
  BY <1>3 DEF Responses
<1>9. l \in HeaderLists(A) /\ HeadersSay(l, t, k + 1)
  BY <1>0, <1>3, <1>4, <1>5, <1>6, <1>7, <1>8, HeadersSet
<1> HIDE DEF q, l
<1>10. /\ q \in Responses(A) /\ q.headers = l /\ q.finalized = r.finalized /\ q.rawBody = r.rawBody
       /\ q.setCookieHeaders = r.setCookieHeaders
  BY <1>2, <1>3, <1>9 DEF Responses
<1>11. FinalSays(q, t, k + 1)
  BY <1>0, <1>3, <1>7, <1>10, FinalNext
<1>12. CookiesSay(q, t, k + 1)
  BY <1>0, <1>3, <1>4, <1>10, CookiesStay
<1>13. BodySays(q, t, k + 1)
  BY <1>0, <1>4, <1>10, BodyStays
<1> QED
  BY <1>9, <1>10, <1>11, <1>12, <1>13 DEF Says, q

LEMMA SaysCookie ==
  ASSUME NEW A, ResponseAlphabet(A), NEW n \in Nat, NEW t, DOMAIN t = 1 .. n, \A i \in 1 .. n : t[i] \in CallsOf(A),
         NEW k \in 0 .. n - 1, NEW r, Says(A, r, t, k), ~r.finalized, t[k + 1].legal, t[k + 1].call = "cookie"
  PROVE  Says(A, Make(r, t[k + 1]), t, k + 1)
<1> DEFINE c == t[k + 1]
           q == Make(r, c)
           w == CookieWanted(c)
           B == Seq(A \ {CRLF})
<1>0. k \in Nat /\ k + 1 \in 1 .. n
  OBVIOUS
<1>1. c \in CookieCalls(A)
  BY <1>0, CallKinds
<1>2. q = [r EXCEPT !.setCookieHeaders = Append(r.setCookieHeaders, w)] /\ w \in B
  BY <1>1, MakesCookie
<1>3. r \in Responses(A) /\ FinalSays(r, t, k) /\ HeadersSay(r.headers, t, k)
  BY Zenon DEF Says
<1>4. /\ UpTo(t, k + 1) = UpTo(t, k) \cup {k + 1} /\ UpTo(t, k) \subseteq 1 .. k /\ k + 1 \in InEffect(t)
      /\ \A i \in UpTo(t, k) : t[i].call # "send"
      /\ r.rawBody = <<>>
      /\ FlattenSeq(BakedTo(t, k + 1)) = r.setCookieHeaders \o Baked(t, k + 1)
  <2>1. Before(t, k, r)
    BY BeforeEffect
  <2> QED
    BY <2>1, Zenon DEF Before
<1>5. Naming(c) = {} /\ ~Final(c)
  BY DEF Naming, Final
<1>6. Baked(t, k + 1) = <<w>>
  BY <1>4 DEF Baked
<1>7. r.setCookieHeaders \in Seq(B)
  BY <1>3 DEF Responses
<1> HIDE DEF q, w, B
<1>8. Append(r.setCookieHeaders, w) \in Seq(B) /\ Append(r.setCookieHeaders, w) = r.setCookieHeaders \o <<w>>
  BY <1>2, <1>7, AppendProperties, AppendIsConcat
<1>9. /\ q \in Responses(A) /\ q.headers = r.headers /\ q.finalized = r.finalized /\ q.rawBody = r.rawBody
      /\ q.setCookieHeaders = Append(r.setCookieHeaders, w)
  BY <1>2, <1>3, <1>8 DEF Responses, B
<1>10. FinalSays(q, t, k + 1)
  BY <1>0, <1>3, <1>5, <1>9, FinalNext
<1>11. HeadersSay(q.headers, t, k + 1)
  BY <1>3, <1>4, <1>5, <1>9, HeadersStay
<1>12. CookiesSay(q, t, k + 1)
  BY <1>4, <1>6, <1>8, <1>9 DEF CookiesSay
<1>13. BodySays(q, t, k + 1)
  BY <1>0, <1>4, <1>9, BodyStays
<1> QED
  BY <1>9, <1>10, <1>11, <1>12, <1>13 DEF Says, q

LEMMA NamesGiven ==
  ASSUME NEW A, ResponseAlphabet(A), NEW x \in {"Content-Type", "Content-Length", "Location"}
  PROVE  <<x>> \in Seq(A \ {CRLF, Colon}) \ {<<>>} /\ <<x>> # <<"Set-Cookie">>
<1>1. x \in A \ {CRLF, Colon} /\ x # "Set-Cookie"
  BY DEF ResponseAlphabet, ResponseSymbols, CRLF, Colon
<1>2. <<x>> \in Seq(A \ {CRLF, Colon}) /\ Len(<<x>>) = 1 /\ <<x>>[1] = x /\ <<"Set-Cookie">>[1] = "Set-Cookie"
  BY <1>1, One
<1> QED
  BY <1>1, <1>2, EmptySeq

LEMMA SaysSend ==
  ASSUME NEW A, ResponseAlphabet(A), NEW n \in Nat, NEW t, DOMAIN t = 1 .. n, \A i \in 1 .. n : t[i] \in CallsOf(A),
         NEW k \in 0 .. n - 1, NEW r, Says(A, r, t, k), ~r.finalized, t[k + 1].legal, t[k + 1].call = "send"
  PROVE  Says(A, Make(r, t[k + 1]), t, k + 1)
<1> DEFINE c == t[k + 1]
           q == Make(r, c)
           name == <<"Content-Length">>
           value == to_string(Len(c.text))
           l == set(r.headers, name, value)
<1>0. k \in Nat /\ k + 1 \in 1 .. n
  OBVIOUS
<1>1. c \in SendCalls(A)
  BY <1>0, CallKinds
<1>2. q = [r EXCEPT !.finalized = TRUE, !.rawBody = c.text, !.headers = l]
  BY <1>1, MakesSend
<1>3. r \in Responses(A) /\ FinalSays(r, t, k) /\ HeadersSay(r.headers, t, k)
  BY Zenon DEF Says
<1>4. /\ UpTo(t, k + 1) = UpTo(t, k) \cup {k + 1} /\ UpTo(t, k) \subseteq 1 .. k
      /\ \A i \in UpTo(t, k) : t[i].call # "send"
      /\ FlattenSeq(BakedTo(t, k + 1)) = r.setCookieHeaders \o Baked(t, k + 1)
      /\ k + 1 \notin UpTo(t, k)
  <2>1. Before(t, k, r)
    BY BeforeEffect
  <2> QED
    BY <2>1, Zenon DEF Before
<1>5. c.text \in Seq(A)
  BY <1>1 DEF SendCalls
<1>6. value \in LegalValues(A)
  <2>1. Len(c.text) \in Nat
    BY <1>5, LenProperties
  <2> QED
    BY <2>1, NumbersAreValues
<1>7. Naming(c) = {name} /\ SetTo(c) = value /\ Final(c)
  BY DEF Naming, SetTo, Final
<1>8. name \in Seq(A \ {CRLF, Colon}) \ {<<>>} /\ name # <<"Set-Cookie">>
  BY NamesGiven
<1> HIDE DEF name, value
<1>9. value \in Seq(A \ {CRLF})
  <2>1. A \ NewLines \subseteq A \ {CRLF}
    BY DEF NewLines
  <2> QED
    BY <1>6, <2>1, SeqMonotonic DEF LegalValues
<1>10. r.headers \in HeaderLists(A)
  BY <1>3 DEF Responses
<1>11. l \in HeaderLists(A) /\ HeadersSay(l, t, k + 1)
  BY <1>0, <1>3, <1>4, <1>7, <1>8, <1>9, <1>10, HeadersSet
<1> HIDE DEF q, l
<1>12. /\ q \in Responses(A) /\ q.headers = l /\ q.finalized = TRUE /\ q.rawBody = c.text
       /\ q.setCookieHeaders = r.setCookieHeaders
  BY <1>2, <1>3, <1>5, <1>11 DEF Responses
<1>13. FinalSays(q, t, k + 1)
  BY <1>0, <1>3, <1>7, <1>12, FinalNext
<1>14. CookiesSay(q, t, k + 1)
  BY <1>0, <1>3, <1>4, <1>12, CookiesStay
<1>15. BodySays(q, t, k + 1)
  BY <1>4, <1>12 DEF BodySays
<1> QED
  BY <1>11, <1>12, <1>13, <1>14, <1>15 DEF Says, q

LEMMA SaysRedirect ==
  ASSUME NEW A, ResponseAlphabet(A), NEW n \in Nat, NEW t, DOMAIN t = 1 .. n, \A i \in 1 .. n : t[i] \in CallsOf(A),
         NEW k \in 0 .. n - 1, NEW r, Says(A, r, t, k), ~r.finalized, t[k + 1].legal, t[k + 1].call = "redirect"
  PROVE  Says(A, Make(r, t[k + 1]), t, k + 1)
<1> DEFINE c == t[k + 1]
           q == Make(r, c)
           name == <<"Location">>
           value == c.text
           l == set(r.headers, name, value)
<1>0. k \in Nat /\ k + 1 \in 1 .. n
  OBVIOUS
<1>1. c \in RedirectCalls(A)
  BY <1>0, CallKinds
<1>2. q = [r EXCEPT !.finalized = TRUE, !.statusCode = 302, !.headers = l]
  BY <1>1, MakesRedirect
<1>3. r \in Responses(A) /\ FinalSays(r, t, k) /\ HeadersSay(r.headers, t, k)
  BY Zenon DEF Says
<1>4. /\ UpTo(t, k + 1) = UpTo(t, k) \cup {k + 1} /\ UpTo(t, k) \subseteq 1 .. k
      /\ \A i \in UpTo(t, k) : t[i].call # "send"
      /\ r.rawBody = <<>>
      /\ FlattenSeq(BakedTo(t, k + 1)) = r.setCookieHeaders \o Baked(t, k + 1)
  <2>1. Before(t, k, r)
    BY BeforeEffect
  <2> QED
    BY <2>1, Zenon DEF Before
<1>5. value \in LegalValues(A)
  BY <1>1 DEF RedirectCalls
<1>6. value \in Seq(A \ {CRLF})
  <2>1. A \ NewLines \subseteq A \ {CRLF}
    BY DEF NewLines
  <2> QED
    BY <1>5, <2>1, SeqMonotonic DEF LegalValues
<1>7. Naming(c) = {name} /\ SetTo(c) = value /\ Final(c)
  BY DEF Naming, SetTo, Final
<1>8. name \in Seq(A \ {CRLF, Colon}) \ {<<>>} /\ name # <<"Set-Cookie">>
  BY NamesGiven
<1> HIDE DEF name, value
<1>9. r.headers \in HeaderLists(A)
  BY <1>3 DEF Responses
<1>10. l \in HeaderLists(A) /\ HeadersSay(l, t, k + 1)
  BY <1>0, <1>3, <1>4, <1>6, <1>7, <1>8, <1>9, HeadersSet
<1> HIDE DEF q, l
<1>11. /\ q \in Responses(A) /\ q.headers = l /\ q.finalized = TRUE /\ q.rawBody = r.rawBody
       /\ q.setCookieHeaders = r.setCookieHeaders
  <2>1. PICK m \in Nat : m = 302
    OBVIOUS
  <2> HIDE DEF c, value
  <2>2. q = [r EXCEPT !.finalized = TRUE, !.statusCode = m, !.headers = l]
    BY <1>2, <2>1
  <2> QED
    BY <1>3, <1>10, <2>2 DEF Responses
<1>12. FinalSays(q, t, k + 1)
  BY <1>0, <1>3, <1>7, <1>11, FinalNext
<1>13. CookiesSay(q, t, k + 1)
  BY <1>0, <1>3, <1>4, <1>11, CookiesStay
<1>14. BodySays(q, t, k + 1)
  BY <1>0, <1>4, <1>11, BodyStays
<1> QED
  BY <1>10, <1>11, <1>12, <1>13, <1>14 DEF Says, q

\* Behind every call a response says what the calls so far mean.
LEMMA SaysNext ==
  ASSUME NEW A, ResponseAlphabet(A), NEW n \in Nat, NEW t, DOMAIN t = 1 .. n, \A i \in 1 .. n : t[i] \in CallsOf(A),
         NEW k \in 0 .. n - 1, NEW r, Says(A, r, t, k)
  PROVE  Says(A, Make(r, t[k + 1]), t, k + 1)
<1>0. k + 1 \in 1 .. n
  OBVIOUS
<1>1. t[k + 1] \in CallsOf(A)
  BY <1>0
<1>2. CASE r.finalized \/ ~t[k + 1].legal
  <2>1. Make(r, t[k + 1]) = r
    BY <1>1, <1>2, IdleCall
  <2>2. Says(A, r, t, k + 1)
    BY <1>2, SaysIdle
  <2> QED
    BY <2>1, <2>2
<1>3. CASE ~r.finalized /\ t[k + 1].legal
  <2>1. t[k + 1].call \in {"header", "cookie", "send", "redirect"}
    BY <1>1, CallKinds
  <2> QED
    BY <1>3, <2>1, SaysHeader, SaysCookie, SaysSend, SaysRedirect
<1> QED
  BY <1>2, <1>3

LEMMA DefaultsApart == Folded(<<"Content-Type">>) # Folded(<<"Content-Length">>)
<1>1. Lowered("Content-Length") = "content-length"
  BY SoughtSpelled DEF Spelled
<1>2. Lowered("Content-Type") = "content-type"
  <2> DEFINE p == <<"Content-Type", "content-type">>
  <2>1. p \in Capitals /\ p[1] = "Content-Type" /\ p[2] = "content-type"
    BY DEF Capitals
  <2> HIDE DEF p
  <2>2. Spelled(p[1], p[2])
    BY <2>1, SpelledPair
  <2> QED
    BY <2>1, <2>2 DEF Spelled
<1>3. toLower(<<"Content-Length">>) = <<"content-length">> /\ toLower(<<"Content-Type">>) = <<"content-type">>
  BY <1>1, <1>2, LowerOne
<1> QED
  BY <1>3 DEF Folded

LEMMA NoPairsList == ASSUME NEW A PROVE NoPairs \in HeaderLists(A) /\ DOMAIN NoPairs = {}
<1>1. DOMAIN NoPairs = {} /\ NoPairs \in [{} -> PairOf(A)]
  BY DEF NoPairs
<1>2. ListFits(NoPairs)
  BY <1>1, FS_EmptySet DEF ListFits
<1>3. IsList(A, NoPairs)
  BY <1>1, <1>2 DEF IsList
<1> QED
  BY <1>1, <1>3, HeaderListIs

LEMMA DefaultsList ==
  ASSUME NEW A, ResponseAlphabet(A)
  PROVE  /\ NewResponse.headers \in HeaderLists(A)
         /\ \A m \in DOMAIN NewResponse.headers : NewResponse.headers[m] \in Defaults
         /\ \A d \in Defaults : Folded(d.key) \in DOMAIN NewResponse.headers
<1> DEFINE kt == <<"Content-Type">>
           kl == <<"Content-Length">>
           vt == <<"text/html">>
           vl == <<"0">>
           one == set(NoPairs, kt, vt)
           two == set(one, kl, vl)
           ft == Folded(kt)
           fl == Folded(kl)
<1>1. /\ kt \in Seq(A \ {CRLF, Colon}) \ {<<>>} /\ kt # <<"Set-Cookie">>
      /\ kl \in Seq(A \ {CRLF, Colon}) \ {<<>>} /\ kl # <<"Set-Cookie">>
  BY NamesGiven
<1>2. vt \in Seq(A \ {CRLF}) /\ vl \in Seq(A \ {CRLF})
  <2>1. "text/html" \in A \ {CRLF} /\ "0" \in A \ {CRLF}
    BY DEF ResponseAlphabet, ResponseSymbols, CRLF
  <2> QED
    BY <2>1, One
<1>3. ft # fl
  BY DefaultsApart
<1>4. NewResponse.headers = two
  BY DEF NewResponse
<1>5. Defaults = {KVPair(kt, vt), KVPair(kl, vl)} /\ KVPair(kt, vt).key = kt /\ KVPair(kl, vl).key = kl
  BY DEF Defaults, KVPair
<1> HIDE DEF kt, kl, vt, vl
<1>6. SetLeaves(A, NoPairs, one, kt, vt)
  BY <1>1, <1>2, NoPairsList, SetKeeps
<1>7. one \in HeaderLists(A) /\ DOMAIN one = {ft} /\ one[ft] = KVPair(kt, vt)
  <2>1. one \in HeaderLists(A) /\ DOMAIN one = DOMAIN NoPairs \cup {ft}
        /\ (ft \notin DOMAIN NoPairs => one[ft] = KVPair(kt, vt))
    BY <1>6, Zenon DEF SetLeaves
  <2> QED
    BY <2>1, NoPairsList
<1> HIDE DEF one
<1>8. SetLeaves(A, one, two, kl, vl)
  BY <1>1, <1>2, <1>7, SetKeeps
<1>9. /\ two \in HeaderLists(A) /\ DOMAIN two = DOMAIN one \cup {fl}
      /\ (fl \notin DOMAIN one => two[fl] = KVPair(kl, vl))
      /\ \A m \in DOMAIN one \ {fl} : two[m] = one[m]
  BY <1>8, Zenon DEF SetLeaves
<1> HIDE DEF two, ft, fl
<1>10. DOMAIN two = {ft, fl} /\ two[fl] = KVPair(kl, vl) /\ two[ft] = KVPair(kt, vt)
  BY <1>3, <1>7, <1>9
<1>11. Folded(kt) = ft /\ Folded(kl) = fl
  BY DEF ft, fl
<1>12. \A m \in DOMAIN two : two[m] \in Defaults
  BY <1>5, <1>10
<1>13. \A d \in Defaults : Folded(d.key) \in DOMAIN two
  <2> SUFFICES ASSUME NEW d \in Defaults PROVE Folded(d.key) \in DOMAIN two
    OBVIOUS
  <2>1. d = KVPair(kt, vt) \/ d = KVPair(kl, vl)
    BY <1>5
  <2>2. d.key = kt \/ d.key = kl
    BY <1>5, <2>1
  <2> QED
    BY <1>10, <1>11, <2>2
<1> QED
  BY <1>4, <1>9, <1>12, <1>13, Zenon

LEMMA NewSays == ASSUME NEW A, ResponseAlphabet(A), NEW t PROVE Says(A, NewResponse, t, 0)
<1> DEFINE r == NewResponse
           l == r.headers
<1>1. UpTo(t, 0) = {}
  BY DEF UpTo
<1>2. /\ l \in HeaderLists(A) /\ \A m \in DOMAIN l : l[m] \in Defaults
      /\ \A d \in Defaults : Folded(d.key) \in DOMAIN l
  BY DefaultsList
<1>3. /\ r = [statusCode |-> 200, rawBody |-> <<>>, setCookieHeaders |-> <<>>, finalized |-> FALSE, headers |-> l]
      /\ r.rawBody = <<>> /\ r.setCookieHeaders = <<>> /\ r.finalized = FALSE
  BY DEF NewResponse
<1> HIDE DEF l, r
<1>4. r \in Responses(A)
  <2>1. <<>> \in Seq(A) /\ <<>> \in Seq(Seq(A \ {CRLF}))
    BY EmptySeq
  <2> QED
    BY <1>2, <1>3, <2>1 DEF Responses
<1>5. FinalSays(r, t, 0)
  BY <1>3 DEF FinalSays
<1>6. HeadersSay(l, t, 0)
  <2>1. \A m : Setting(t, 0, m) = {}
    BY <1>1 DEF Setting
  <2> QED
    BY <1>1, <1>2, <2>1 DEF HeadersSay
<1>7. CookiesSay(r, t, 0)
  <2>1. BakedTo(t, 0) = <<>>
    BY DEF BakedTo
  <2> QED
    BY <1>3, <2>1, FlattenEmpty DEF CookiesSay
<1>8. BodySays(r, t, 0)
  BY <1>1, <1>3 DEF BodySays
<1> QED
  BY <1>4, <1>5, <1>6, <1>7, <1>8 DEF Says, l, r

LEMMA MadeSays ==
  ASSUME NEW A, ResponseAlphabet(A), NEW t \in Seq(CallsOf(A))
  PROVE  Says(A, Made(t), t, Len(t))
<1>0. PICK n \in Nat : n = Len(t)
  BY LenProperties
<1>1. DOMAIN t = 1 .. n /\ \A i \in 1 .. n : t[i] \in CallsOf(A)
  BY <1>0, LenProperties, ElementOfSeq
<1>2. PICK g : Stages(g, n, t) /\ Made(t) = g[n]
  BY <1>1, MadeStages
<1> DEFINE T == {k \in Nat : k <= n => Says(A, g[k], t, k)}
<1>3. 0 \in T
  <2>1. g[0] = NewResponse
    BY <1>2 DEF Stages
  <2>2. Says(A, NewResponse, t, 0)
    BY NewSays
  <2> QED
    BY <2>1, <2>2
<1>4. \A k \in Nat : k \in T => k + 1 \in T
  <2> SUFFICES ASSUME NEW k \in Nat, k <= n => Says(A, g[k], t, k), k + 1 <= n PROVE Says(A, g[k + 1], t, k + 1)
    OBVIOUS
  <2>1. k \in 0 .. n - 1 /\ k <= n
    BY <1>0
  <2>2. g[k + 1] = Make(g[k], t[k + 1])
    BY <1>2, <2>1 DEF Stages
  <2>3. Says(A, g[k], t, k)
    BY <2>1
  <2> HIDE DEF T
  <2>4. Says(A, Make(g[k], t[k + 1]), t, k + 1)
    BY <1>1, <2>1, <2>3, SaysNext
  <2> QED
    BY <2>2, <2>4
<1> HIDE DEF T
<1>5. n \in T
  BY <1>3, <1>4, Induct
<1>6. Says(A, g[n], t, n)
  BY <1>5 DEF T
<1> QED
  BY <1>0, <1>2, <1>6

-----------------------------------------------------------------------------
(* Responses: what a client reads, whatever the order of the headers.      *)

\* pairs lists the pairs of l, each once.
Listing(l, pairs, order, n) ==
  /\ order \in [1 .. n -> DOMAIN l] /\ pairs = [i \in 1 .. n |-> l[order[i]]]
  /\ \A i, j \in 1 .. n : order[i] = order[j] => i = j
  /\ \A m \in DOMAIN l : \E i \in 1 .. n : order[i] = m

LEMMA AllAre ==
  ASSUME NEW l, IsFiniteSet(DOMAIN l)
  PROVE  /\ getAll(l) # {}
         /\ \A pairs \in getAll(l) : \E n \in Nat : \E order : Listing(l, pairs, order, n)
<1> DEFINE D == DOMAIN l
           n == Cardinality(D)
           B == Bijection(1 .. n, D)
           L(order) == [i \in DOMAIN order |-> l[order[i]]]
<1>1. n \in Nat /\ ExistsBijection(1 .. n, D)
  BY FS_CardinalityType
<1>2. getAll(l) = {L(order) : order \in B}
  BY Zenon DEF getAll
<1> HIDE DEF n
<1>3. B # {}
  BY <1>1, Fun_ExistsBij
<1>4. getAll(l) # {}
  BY <1>2, <1>3
<1>5. ASSUME NEW pairs \in getAll(l) PROVE \E o : Listing(l, pairs, o, n)
  <2>1. PICK order \in B : pairs = L(order)
    BY <1>2
  <2>2. /\ order \in [1 .. n -> D] /\ \A a, b \in 1 .. n : order[a] = order[b] => a = b
        /\ \A m \in D : \E s \in 1 .. n : order[s] = m
    <3>1. order \in Bijection(1 .. n, D)
      BY <2>1
    <3> HIDE DEF D
    <3> QED
      BY <3>1 DEF Bijection, Injection, Surjection, IsInjective
  <2>3. pairs = [i \in 1 .. n |-> l[order[i]]]
    BY <2>1, <2>2
  <2> QED
    BY <2>2, <2>3 DEF Listing
<1> QED
  BY <1>1, <1>4, <1>5

\* What ResponseReads says of one text.
ReadsAs(t, text) ==
  LET lines == LinesOf(text)
      headers == {i \in DOMAIN lines : ~IsCookie(lines[i])}
      setting(name) == {i \in InEffect(t) : Sets(t[i], name)}
  IN  /\ \A i, j \in headers : SameName(LineName(lines[i]), LineName(lines[j])) => i = j
      /\ \A i \in headers :
           IF setting(LineName(lines[i])) = {} THEN KVPair(LineName(lines[i]), LineValue(lines[i])) \in Defaults
           ELSE LineValue(lines[i]) = SetTo(t[Max(setting(LineName(lines[i])))])
      /\ \A name \in (UNION {Naming(t[i]) : i \in InEffect(t)}) \cup {d.key : d \in Defaults} :
           \E i \in headers : SameName(LineName(lines[i]), name)
      /\ CookiesRead(lines) = FlattenSeq([i \in DOMAIN t |-> Baked(t, i)])
      /\ \A i \in InEffect(t) : t[i].call = "send" => BodyOf(text) = t[i].text
      /\ (\A i \in InEffect(t) : t[i].call # "send") => BodyOf(text) = <<>>

LEMMA ReadsIs ==
  ResponseReads <=> (asked.kind = "response" =>
                       \A text \in toRawResponse(Made(asked.calls)) : ReadsAs(asked.calls, text))
BY Zenon DEF ResponseReads, ReadsAs, LinesOf, BlankOf, BodyOf, CookiesRead, CookieRead, Baked

LEMMA TextReads ==
  ASSUME NEW A, ResponseAlphabet(A), NEW t \in Seq(CallsOf(A)), NEW text \in toRawResponse(Made(t))
  PROVE  ReadsAs(t, text)
<1> DEFINE r == Made(t)
           l == r.headers
           cs == r.setCookieHeaders
           lines == LinesOf(text)
           E == InEffect(t)
           setting(name) == {i \in E : Sets(t[i], name)}
<1>0. PICK n \in Nat : n = Len(t)
  BY LenProperties
<1>1. DOMAIN t = 1 .. n
  BY <1>0, LenProperties
<1>2. Says(A, r, t, n)
  BY <1>0, MadeSays
<1>3. /\ r.statusCode \in Nat /\ r.rawBody \in Seq(A) /\ cs \in Seq(Seq(A \ {CRLF}))
      /\ l \in HeaderLists(A)
  <2>1. r \in Responses(A)
    BY <1>2, Zenon DEF Says
  <2> HIDE DEF r
  <2> QED
    BY <2>1 DEF Responses
<1>4. HeadersSay(l, t, n) /\ cs = FlattenSeq(BakedTo(t, n)) /\ BodySays(r, t, n)
  BY <1>2, Zenon DEF Says, CookiesSay
<1>5. UpTo(t, n) = E
  BY <1>1 DEF UpTo, InEffect
<1>6. PICK pairs \in getAll(l) : text = RawText(r, pairs)
  BY RawResponseIs
<1> HIDE DEF r, E
<1>7. l \in [DOMAIN l -> PairOf(A)] /\ ListFits(l)
  BY <1>3, HeaderListIs, Zenon DEF IsList
<1>8. IsFiniteSet(DOMAIN l) /\ \A m \in DOMAIN l : Folded(l[m].key) = m /\ l[m].key # <<"Set-Cookie">>
  BY <1>7, Zenon DEF ListFits
<1> HIDE DEF l, cs
<1>9. PICK h \in Nat : \E order : Listing(l, pairs, order, h)
  BY <1>6, <1>8, AllAre
<1>9a. PICK order : Listing(l, pairs, order, h)
  BY <1>9
<1>10. pairs \in Seq(PairOf(A)) /\ Len(pairs) = h /\ \A i \in 1 .. h : order[i] \in DOMAIN l /\ pairs[i] = l[order[i]]
  <2>1. pairs \in [1 .. h -> PairOf(A)] /\ \A i \in 1 .. h : order[i] \in DOMAIN l /\ pairs[i] = l[order[i]]
    BY <1>7, <1>9a DEF Listing
  <2> QED
    BY <2>1, FunctionIsSeq
<1> DEFINE P == HeadersFrom(pairs)
           F == StatusLine(r.statusCode)
<1>11. /\ P \in Seq(HeaderOf(A)) /\ Len(P) = h
       /\ \A i \in 1 .. h : P[i].name = pairs[i].key /\ P[i].value = pairs[i].value
  BY <1>10, HeadersFromAre
<1>12. CRLF \in A /\ Colon \in A /\ Blank \in A /\ "Set-Cookie" \in A
  BY DEF ResponseAlphabet, ResponseSymbols, Colon, Blank
<1>13. text = TextOf(F, P \o CookieHeaders(cs), r.rawBody)
  BY <1>3, <1>6, <1>10, RawTextIs DEF cs
<1>14. F \in Seq(A \ {CRLF}) /\ F # <<>>
  BY <1>3, StatusIs
<1> HIDE DEF P, F
<1>15. CookieHeaders(cs) \in Seq(HeaderOf(A))
  BY <1>3, <1>12, CookieHeadersAre
<1>16. P \o CookieHeaders(cs) \in Seq(HeaderOf(A))
  BY <1>11, <1>15, ConcatProperties
<1>17. lines = Writtens(P \o CookieHeaders(cs)) /\ BodyOf(text) = r.rawBody
  <2> DEFINE hs == P \o CookieHeaders(cs)
             b == r.rawBody
  <2>1. hs \in Seq(HeaderOf(A)) /\ b \in Seq(A) /\ text = TextOf(F, hs, b)
    BY <1>3, <1>13, <1>16
  <2> HIDE DEF hs, b, lines
  <2>2. LinesOf(text) = Writtens(hs) /\ BodyOf(text) = b
    BY <1>12, <1>14, <2>1, TextComesApart
  <2> QED
    BY <2>2 DEF hs, b, lines
<1> HIDE DEF lines
<1>18. /\ CookiesRead(lines) = cs
       /\ {i \in DOMAIN lines : ~IsCookie(lines[i])} = 1 .. h
       /\ \A i \in 1 .. h : LineName(lines[i]) = pairs[i].key /\ LineValue(lines[i]) = pairs[i].value
  <2>1. \A i \in 1 .. Len(P) : P[i].name # <<"Set-Cookie">>
    BY <1>8, <1>10, <1>11
  <2>2. /\ CookiesRead(lines) = cs
        /\ {i \in DOMAIN lines : ~IsCookie(lines[i])} = 1 .. Len(P)
        /\ \A i \in 1 .. Len(P) : LineName(lines[i]) = P[i].name /\ LineValue(lines[i]) = P[i].value
    <3>1. ReadBack(lines, P, cs)
      BY <1>3, <1>11, <1>17, <2>1, HeadersRead
    <3> QED
      BY <3>1, Zenon DEF ReadBack
  <2> QED
    BY <1>11, <2>2
<1> DEFINE nm(i) == LineName(lines[i])
           val(i) == LineValue(lines[i])
<1>19. \A i \in 1 .. h : order[i] \in DOMAIN l /\ nm(i) = l[order[i]].key /\ val(i) = l[order[i]].value
                         /\ Folded(nm(i)) = order[i]
  BY <1>8, <1>10, <1>18
<1>20. \A name : setting(name) = Setting(t, n, Folded(name))
  BY <1>5, Zenon DEF Setting, Sets, SameName, Folded
<1>21. \A i, j \in 1 .. h : SameName(nm(i), nm(j)) => i = j
  <2>1. \A i, j \in 1 .. h : SameName(nm(i), nm(j)) => Folded(nm(i)) = Folded(nm(j))
    BY Zenon DEF SameName, Folded
  <2> HIDE DEF nm
  <2> QED
    BY <1>9a, <1>19, <2>1 DEF Listing
<1>22. ASSUME NEW i \in 1 .. h
       PROVE  IF setting(nm(i)) = {} THEN KVPair(nm(i), val(i)) \in Defaults
              ELSE val(i) = SetTo(t[Max(setting(nm(i)))])
  <2> DEFINE m == order[i]
             s == Setting(t, n, m)
  <2>1. m \in DOMAIN l /\ nm(i) = l[m].key /\ val(i) = l[m].value /\ Folded(nm(i)) = m
    BY <1>19
  <2>2. setting(nm(i)) = s
    BY <1>20, <2>1
  <2>3. IF s = {} THEN l[m] \in Defaults ELSE l[m].value = SetTo(t[Max(s)])
    BY <1>4, <2>1, Zenon DEF HeadersSay
  <2>4. KVPair(nm(i), val(i)) = l[m]
    <3>1. l[m] \in PairOf(A)
      BY <1>7, <2>1
    <3> HIDE DEF nm, val, m
    <3> QED
      BY <2>1, <3>1 DEF PairOf, KVPair
  <2> HIDE DEF s, m, nm, val, setting
  <2> QED
    BY <2>1, <2>2, <2>3, <2>4
<1>23. ASSUME NEW name \in (UNION {Naming(t[i]) : i \in E}) \cup {d.key : d \in Defaults}
       PROVE  \E i \in 1 .. h : SameName(nm(i), name)
  <2>1. Folded(name) \in DOMAIN l
    <3>1. (\E i \in E : name \in Naming(t[i])) \/ \E d \in Defaults : name = d.key
      BY <1>23
    <3> QED
      BY <1>4, <1>5, <3>1, Zenon DEF HeadersSay
  <2>2. PICK i \in 1 .. h : order[i] = Folded(name)
    BY <1>9a, <2>1 DEF Listing
  <2>3. Folded(nm(i)) = Folded(name)
    BY <1>19, <2>2
  <2> QED
    BY <2>3, Zenon DEF SameName, Folded
<1>24. CookiesRead(lines) = FlattenSeq([i \in DOMAIN t |-> Baked(t, i)])
  BY <1>1, <1>4, <1>18 DEF BakedTo
<1>25. /\ \A i \in E : t[i].call = "send" => BodyOf(text) = t[i].text
       /\ (\A i \in E : t[i].call # "send") => BodyOf(text) = <<>>
  BY <1>4, <1>5, <1>17, Zenon DEF BodySays
<1> QED
  BY <1>18, <1>21, <1>22, <1>23, <1>24, <1>25, Zenon DEF ReadsAs, lines, E

\* What a handler may call, over A.
AnyResponses(A) == [kind : {"response"}, calls : Seq(CallsOf(A))]

\* For every list of calls, over any alphabet, and in whatever order the headers
\* are written, a client reads one line for each header with the value set last
\* or the default, the cookies in the order they were set, and the body that was
\* sent; and there is always a text to read (Response.cpp:45-71, 177-218,
\* 309-365; KVList.h:91-109).
THEOREM ResponsesMeanWhatTheySay ==
  ASSUME NEW A, ResponseAlphabet(A), asked.kind = "response" => asked \in AnyResponses(A)
  PROVE  ResponseReads /\ (asked.kind = "response" => toRawResponse(Made(asked.calls)) # {})
<1> SUFFICES ASSUME asked.kind = "response"
             PROVE  /\ \A text \in toRawResponse(Made(asked.calls)) : ReadsAs(asked.calls, text)
                    /\ toRawResponse(Made(asked.calls)) # {}
  BY ReadsIs, Zenon
<1> DEFINE t == asked.calls
           r == Made(t)
<1>1. t \in Seq(CallsOf(A))
  BY DEF AnyResponses
<1> HIDE DEF t
<1>2. \A text \in toRawResponse(r) : ReadsAs(t, text)
  BY <1>1, TextReads
<1>3. IsFiniteSet(DOMAIN r.headers)
  <2>1. Says(A, r, t, Len(t))
    BY <1>1, MadeSays
  <2>2. r \in Responses(A)
    BY <2>1, Zenon DEF Says
  <2> HIDE DEF r
  <2>3. r.headers \in HeaderLists(A)
    BY <2>2 DEF Responses
  <2> QED
    BY <2>3, HeaderListIs, Zenon DEF IsList, ListFits
<1> HIDE DEF r
<1>4. getAll(r.headers) # {}
  BY <1>3, AllAre
<1>5. toRawResponse(r) # {}
  BY <1>4, RawResponseIs
<1> QED
  BY <1>2, <1>5 DEF t, r

-----------------------------------------------------------------------------
(* The responses MCParsing asks about are among these.                     *)

ResponseLetters == ResponseSymbols \cup {"A", "b", "B", "content-length"}

LEMMA HeaderCallIn ==
  ASSUME NEW A, NEW name \in Seq(A), NEW value \in Seq(A), NEW legal \in BOOLEAN,
         legal <=> name \in LegalNames(A) /\ value \in LegalValues(A), legal => name # <<"Set-Cookie">>
  PROVE  HeaderCall(name, value, legal) \in CallsOf(A)
<1> DEFINE c == HeaderCall(name, value, legal)
           L == LegalNames(A)
           V == LegalValues(A)
<1>1. /\ c \in [call : {"header"}, name : Seq(A), value : Seq(A), legal : BOOLEAN]
      /\ c.legal = legal /\ c.name = name /\ c.value = value
  BY DEF HeaderCall
<1> HIDE DEF c, L, V
<1>2. (c.legal <=> c.name \in L /\ c.value \in V) /\ (c.legal => c.name # <<"Set-Cookie">>)
  BY <1>1 DEF L, V
<1>3. c \in HeaderCalls(A)
  BY <1>1, <1>2, Zenon DEF HeaderCalls, L, V
<1> QED
  BY <1>3, Zenon DEF CallsOf, c

LEMMA CookieCallIn ==
  ASSUME NEW A, NEW value \in Seq(A), NEW opts \in OptionsFor(A), NEW legal \in BOOLEAN,
         legal <=> /\ value \in LegalValues(A) \ {<<>>}
                   /\ {opts.domain, opts.path, opts.sameSite} \subseteq LegalValues(A),
         legal => opts \in {Bare, Dressed}
  PROVE  CookieCall(value, opts, legal) \in CallsOf(A)
<1> DEFINE c == CookieCall(value, opts, legal)
           V == LegalValues(A)
           O == OptionsFor(A)
<1> HIDE DEF O
<1>1. /\ c \in [call : {"cookie"}, value : Seq(A), opts : O, legal : BOOLEAN]
      /\ c.legal = legal /\ c.opts = opts /\ c.value = value
  BY DEF CookieCall, O
<1> HIDE DEF c, V
<1>2. /\ c.legal <=> c.value \in V \ {<<>>} /\ {c.opts.domain, c.opts.path, c.opts.sameSite} \subseteq V
      /\ c.legal => c.opts \in {Bare, Dressed}
  BY <1>1 DEF V
<1>3. c \in CookieCalls(A)
  BY <1>1, <1>2, Zenon DEF CookieCalls, V, O
<1> QED
  BY <1>3, Zenon DEF CallsOf, c

LEMMA FinalCallIn ==
  ASSUME NEW A, NEW text \in Seq(A)
  PROVE  /\ FinalCall("send", text, TRUE) \in CallsOf(A)
         /\ text \in LegalValues(A) => FinalCall("redirect", text, TRUE) \in CallsOf(A)
         /\ text \notin LegalValues(A) => FinalCall("redirect", text, FALSE) \in CallsOf(A)
<1>1. FinalCall("send", text, TRUE) \in CallsOf(A)
  BY DEF FinalCall, SendCalls, CallsOf
<1>2. ASSUME NEW legal \in BOOLEAN, legal <=> text \in LegalValues(A)
      PROVE  FinalCall("redirect", text, legal) \in CallsOf(A)
  <2> DEFINE c == FinalCall("redirect", text, legal)
             V == LegalValues(A)
  <2>1. c \in [call : {"redirect"}, text : Seq(A), legal : BOOLEAN] /\ c.legal = legal /\ c.text = text
    BY DEF FinalCall
  <2> HIDE DEF c, V
  <2>2. c.legal <=> c.text \in V
    BY <1>2, <2>1 DEF V
  <2>3. c \in RedirectCalls(A)
    BY <2>1, <2>2, Zenon DEF RedirectCalls, V
  <2> QED
    BY <2>3, Zenon DEF CallsOf, c
<1> QED
  BY <1>1, <1>2

LEMMA OptionsIn ==
  ASSUME NEW A, ResponseAlphabet(A), "B" \in A
  PROVE  /\ Bare \in OptionsFor(A) /\ Dressed \in OptionsFor(A)
         /\ [Bare EXCEPT !.sameSite = <<CRLF, "B">>] \in OptionsFor(A)
         /\ Bare.domain = <<>> /\ Bare.path = <<"/">> /\ Bare.sameSite = <<>>
         /\ Dressed.domain = <<"a">> /\ Dressed.path = <<"/">> /\ Dressed.sameSite = <<"Lax">>
         /\ [Bare EXCEPT !.sameSite = <<CRLF, "B">>].sameSite = <<CRLF, "B">>
<1> DEFINE O == OptionsFor(A)
           b == Bare
           d1 == [b EXCEPT !.domain = <<"a">>]
           d2 == [d1 EXCEPT !.maxAge = 10]
           d3 == [d2 EXCEPT !.secure = TRUE]
           d4 == [d3 EXCEPT !.sameSite = <<"Lax">>]
           e == [b EXCEPT !.sameSite = <<CRLF, "B">>]
<1>1. <<>> \in Seq(A) /\ <<"/">> \in Seq(A) /\ <<"a">> \in Seq(A) /\ <<"Lax">> \in Seq(A) /\ <<CRLF, "B">> \in Seq(A)
  <2>1. "/" \in A /\ "a" \in A /\ "Lax" \in A /\ CRLF \in A /\ "B" \in A
    BY DEF ResponseAlphabet, ResponseSymbols
  <2> QED
    BY <2>1, OneIsSeq, TwoAreSeq, EmptySeq
<1>2. b \in O /\ b.domain = <<>> /\ b.path = <<"/">> /\ b.sameSite = <<>>
  BY <1>1 DEF Bare, OptionsFor
<1> HIDE DEF b
<1>3. d1 \in O /\ d1.domain = <<"a">> /\ d1.path = <<"/">>
  BY <1>1, <1>2 DEF OptionsFor
<1> HIDE DEF d1
<1>4. d2 \in O /\ d2.domain = <<"a">> /\ d2.path = <<"/">>
  BY <1>3 DEF OptionsFor
<1> HIDE DEF d2
<1>5. d3 \in O /\ d3.domain = <<"a">> /\ d3.path = <<"/">>
  BY <1>4 DEF OptionsFor
<1> HIDE DEF d3
<1>6. d4 \in O /\ d4.domain = <<"a">> /\ d4.path = <<"/">> /\ d4.sameSite = <<"Lax">>
  BY <1>1, <1>5 DEF OptionsFor
<1>7. e \in O /\ e.sameSite = <<CRLF, "B">>
  BY <1>1, <1>2 DEF OptionsFor
<1> HIDE DEF d4, e, O
<1>8. Dressed = d4
  BY Zenon DEF Dressed, b, d1, d2, d3, d4
<1> QED
  BY <1>2, <1>6, <1>7, <1>8, Zenon DEF b, e, O

LEMMA ResponseLettersAre ==
  LET A == ResponseLetters
  IN  /\ ResponseAlphabet(A) /\ "B" \in A
      /\ {"A", "a", "b", "c", "1", "2", "9", "/", " ", "content-length"} \subseteq A \ NewLines
      /\ {"A", "a", "content-length"} \subseteq A \ NotInNames
      /\ ":" \in A \ NewLines /\ CRLF \in A
<1>1. {"1", "2", "9"} \subseteq Ten
  BY DEF Ten
<1>2. CRLF \in ResponseSymbols /\ ":" \in ResponseSymbols
  BY DEF ResponseSymbols
<1>3. {"A", "a", "b", "c", "1", "2", "9", "/", " ", "content-length", "B"} \subseteq ResponseLetters
  BY <1>1 DEF ResponseLetters, ResponseSymbols
<1>4. {"A", "a", "b", "c", "1", "2", "9", "/", " ", "content-length", ":"} \cap NewLines = {}
  BY DEF NewLines, CRLF
<1>5. {"A", "a", "content-length"} \cap NotInNames = {}
  BY DEF NotInNames, NewLines, CRLF, OtherByte
<1>6. ResponseAlphabet(ResponseLetters)
  BY Zenon DEF ResponseAlphabet, ResponseLetters
<1>7. ResponseSymbols \subseteq ResponseLetters
  BY Zenon DEF ResponseLetters
<1> QED
  BY <1>2, <1>3, <1>4, <1>5, <1>6, <1>7

\* What they are made of, legal or not.
LEMMA TextsLegal ==
  LET A == ResponseLetters
      N == LegalNames(A)
      V == LegalValues(A)
  IN  /\ {<<"A">>, <<"a">>, <<"content-length">>} \subseteq N
      /\ {<<"b", ":", " ", "c">>, <<"1">>, <<"9">>, <<"2">>, <<"/", "a">>, <<>>, <<"/">>, <<"a">>, <<"Lax">>} \subseteq V
      /\ {<<"b", CRLF, "B", ":", " ", "c">>, <<"/", CRLF, CRLF>>, <<CRLF, "B">>} \subseteq Seq(A) \ V
      /\ {<<"a", ":", "b">>, <<>>} \subseteq Seq(A) \ N
      /\ <<"b", CRLF, CRLF, "c">> \in Seq(A)
<1> DEFINE A == ResponseLetters
           X == A \ NewLines
           Y == A \ NotInNames
<1>0. /\ "A" \in X /\ "a" \in X /\ "b" \in X /\ "c" \in X /\ "1" \in X /\ "2" \in X /\ "9" \in X /\ "/" \in X
      /\ " " \in X /\ ":" \in X /\ "Lax" \in X /\ "A" \in Y /\ "a" \in Y /\ "content-length" \in Y
  <2>1. "Lax" \in A
    BY DEF ResponseLetters, ResponseSymbols
  <2>2. "Lax" \notin NewLines
    BY DEF NewLines, CRLF
  <2> QED
    BY <2>1, <2>2, ResponseLettersAre
<1>1. /\ "b" \in A /\ "B" \in A /\ ":" \in A /\ " " \in A /\ "c" \in A /\ "/" \in A /\ "a" \in A /\ CRLF \in A
  BY ResponseLettersAre, <1>0
<1>2. CRLF \in NewLines /\ ":" \in NotInNames
  BY DEF NewLines, NotInNames
<1> HIDE DEF A, X, Y
<1>3. <<"A">> \in Seq(Y) /\ <<"a">> \in Seq(Y) /\ <<"content-length">> \in Seq(Y)
  BY <1>0, OneIsSeq
<1>4. <<"A">> # <<>> /\ <<"a">> # <<>> /\ <<"content-length">> # <<>>
  OBVIOUS
<1>5. /\ <<"b", ":", " ", "c">> \in Seq(X) /\ <<"1">> \in Seq(X) /\ <<"9">> \in Seq(X) /\ <<"2">> \in Seq(X)
      /\ <<"/", "a">> \in Seq(X) /\ <<>> \in Seq(X) /\ <<"/">> \in Seq(X) /\ <<"a">> \in Seq(X) /\ <<"Lax">> \in Seq(X)
  BY <1>0, OneIsSeq, TwoAreSeq, FourIsSeq, EmptySeq
<1>6. /\ <<"b", CRLF, "B", ":", " ", "c">> \in Seq(A) /\ <<"/", CRLF, CRLF>> \in Seq(A) /\ <<CRLF, "B">> \in Seq(A)
      /\ <<"a", ":", "b">> \in Seq(A) /\ <<>> \in Seq(A) /\ <<"b", CRLF, CRLF, "c">> \in Seq(A)
  BY <1>1, SomeAreSeq, TwoAreSeq, FourIsSeq, EmptySeq
<1>7. /\ <<"b", CRLF, "B", ":", " ", "c">> \notin Seq(A \ NewLines)
      /\ <<"/", CRLF, CRLF>> \notin Seq(A \ NewLines)
      /\ <<CRLF, "B">> \notin Seq(A \ NewLines)
      /\ <<"a", ":", "b">> \notin Seq(A \ NotInNames)
  <2>1. ASSUME NEW b, NEW c, NEW d, NEW e, NEW f, <<b, CRLF, c, d, e, f>> \in Seq(A)
        PROVE  <<b, CRLF, c, d, e, f>> \notin Seq(A \ NewLines)
    <3> DEFINE s == <<b, CRLF, c, d, e, f>>
    <3>1. 2 \in DOMAIN s /\ s[2] = CRLF
      OBVIOUS
    <3> HIDE DEF s
    <3> QED
      BY <1>2, <2>1, <3>1, NotWithout DEF s
  <2>2. ASSUME NEW b, NEW c, NEW d, <<b, c, d>> \in Seq(A)
        PROVE  /\ c = CRLF => <<b, c, d>> \notin Seq(A \ NewLines)
               /\ c = ":" => <<b, c, d>> \notin Seq(A \ NotInNames)
    <3> DEFINE s == <<b, c, d>>
    <3>1. 2 \in DOMAIN s /\ s[2] = c
      OBVIOUS
    <3> HIDE DEF s
    <3> QED
      BY <1>2, <2>2, <3>1, NotWithout DEF s
  <2>3. ASSUME NEW c, <<CRLF, c>> \in Seq(A) PROVE <<CRLF, c>> \notin Seq(A \ NewLines)
    <3> DEFINE s == <<CRLF, c>>
    <3>1. 1 \in DOMAIN s /\ s[1] = CRLF
      OBVIOUS
    <3> HIDE DEF s
    <3> QED
      BY <1>2, <2>3, <3>1, NotWithout DEF s
  <2>4. <<"b", CRLF, "B", ":", " ", "c">> \notin Seq(A \ NewLines)
    BY <1>6, <2>1, Zenon
  <2>5. <<"/", CRLF, CRLF>> \notin Seq(A \ NewLines)
    BY <1>6, <2>2, Zenon
  <2>6. <<"a", ":", "b">> \notin Seq(A \ NotInNames)
    BY <1>6, <2>2, Zenon
  <2>7. <<CRLF, "B">> \notin Seq(A \ NewLines)
    BY <1>6, <2>3, Zenon
  <2> QED
    BY <2>4, <2>5, <2>6, <2>7
<1> DEFINE N == LegalNames(A)
           V == LegalValues(A)
<1>8. N = Seq(Y) \ {<<>>} /\ V = Seq(X)
  BY Zenon DEF LegalNames, LegalValues, X, Y
<1>9. Seq(A \ NewLines) = Seq(X) /\ Seq(A \ NotInNames) = Seq(Y)
  BY Zenon DEF X, Y
<1> HIDE DEF N, V
<1>10. {<<"A">>, <<"a">>, <<"content-length">>} \subseteq N
  BY <1>3, <1>4, <1>8
<1>11. {<<"b", ":", " ", "c">>, <<"1">>, <<"9">>, <<"2">>, <<"/", "a">>, <<>>, <<"/">>, <<"a">>, <<"Lax">>} \subseteq V
  BY <1>5, <1>8
<1>12. {<<"b", CRLF, "B", ":", " ", "c">>, <<"/", CRLF, CRLF>>, <<CRLF, "B">>} \subseteq Seq(A) \ V
  BY <1>6, <1>7, <1>8, <1>9
<1>13. {<<"a", ":", "b">>, <<>>} \subseteq Seq(A) \ N
  BY <1>6, <1>7, <1>8, <1>9
<1> QED
  BY <1>6, <1>10, <1>11, <1>12, <1>13 DEF N, V, A

LEMMA CallsLegal == Calls \subseteq CallsOf(ResponseLetters)
<1> DEFINE A == ResponseLetters
           N == LegalNames(A)
           V == LegalValues(A)
           S == Seq(A)
<1>1. /\ ResponseAlphabet(A) /\ "B" \in A
  BY ResponseLettersAre
<1>2. /\ {<<"A">>, <<"a">>, <<"content-length">>} \subseteq N
      /\ {<<"b", ":", " ", "c">>, <<"1">>, <<"9">>, <<"2">>, <<"/", "a">>, <<>>, <<"/">>, <<"a">>, <<"Lax">>} \subseteq V
      /\ {<<"b", CRLF, "B", ":", " ", "c">>, <<"/", CRLF, CRLF>>, <<CRLF, "B">>} \subseteq S \ V
      /\ {<<"a", ":", "b">>, <<>>} \subseteq S \ N
      /\ <<"b", CRLF, CRLF, "c">> \in S
  BY TextsLegal, Zenon
<1>3. N \subseteq S /\ V \subseteq S
  BY SeqMonotonic DEF LegalNames, LegalValues
<1> DEFINE Illegal == [Bare EXCEPT !.sameSite = <<CRLF, "B">>]
           O == OptionsFor(A)
           C == CallsOf(A)
<1>4. /\ Bare \in O /\ Dressed \in O /\ Illegal \in O
      /\ Bare.domain = <<>> /\ Bare.path = <<"/">> /\ Bare.sameSite = <<>>
      /\ Dressed.domain = <<"a">> /\ Dressed.path = <<"/">> /\ Dressed.sameSite = <<"Lax">>
      /\ Illegal.sameSite = <<CRLF, "B">>
  BY <1>1, OptionsIn
<1>5. ASSUME NEW name \in S, NEW value \in S, name \in N, value \in V, name # <<"Set-Cookie">>
      PROVE  HeaderCall(name, value, TRUE) \in C
  BY <1>5, HeaderCallIn
<1>6. ASSUME NEW name \in S, NEW value \in S, ~(name \in N /\ value \in V)
      PROVE  HeaderCall(name, value, FALSE) \in C
  BY <1>6, HeaderCallIn
<1>7. ASSUME NEW value \in V, value # <<>>, NEW opts \in {Bare, Dressed} PROVE CookieCall(value, opts, TRUE) \in C
  <2>1. opts \in O /\ value \in S
    BY <1>3, <1>4
  <2>2. {opts.domain, opts.path, opts.sameSite} \subseteq V
    BY <1>2, <1>4, <1>7
  <2> HIDE DEF S, O, V
  <2> QED
    BY <1>7, <2>1, <2>2, CookieCallIn, Zenon DEF S, O, V, A, C
<1>8. CookieCall(<<"1">>, Illegal, FALSE) \in C
  <2>1. <<"1">> \in S
    BY <1>2, <1>3
  <2>2. Illegal.sameSite \notin V
    BY <1>2, <1>4
  <2> HIDE DEF Illegal
  <2> QED
    BY <1>4, <2>1, <2>2, CookieCallIn
<1>9. CookieCall(<<>>, Bare, FALSE) \in C
  BY <1>2, <1>3, <1>4, CookieCallIn
<1>10. /\ FinalCall("send", <<"b", CRLF, CRLF, "c">>, TRUE) \in C /\ FinalCall("send", <<>>, TRUE) \in C
       /\ FinalCall("redirect", <<"/", "a">>, TRUE) \in C /\ FinalCall("redirect", <<"/", CRLF, CRLF>>, FALSE) \in C
  BY <1>2, <1>3, FinalCallIn
<1>11. <<"A">> # <<"Set-Cookie">> /\ <<"a">> # <<"Set-Cookie">> /\ <<"content-length">> # <<"Set-Cookie">>
  OBVIOUS
<1>12. <<"1">> # <<>> /\ <<"2">> # <<>>
  OBVIOUS
<1> HIDE DEF N, V, S, O, C, Illegal
<1>13. /\ HeaderCall(<<"A">>, <<"b", ":", " ", "c">>, TRUE) \in C
       /\ HeaderCall(<<"a">>, <<"1">>, TRUE) \in C
       /\ HeaderCall(<<"content-length">>, <<"9">>, TRUE) \in C
  BY <1>2, <1>3, <1>5, <1>11
<1>14. /\ HeaderCall(<<"A">>, <<"b", CRLF, "B", ":", " ", "c">>, FALSE) \in C
       /\ HeaderCall(<<"a", ":", "b">>, <<"1">>, FALSE) \in C
       /\ HeaderCall(<<>>, <<"1">>, FALSE) \in C
  BY <1>2, <1>3, <1>6
<1>15. /\ CookieCall(<<"1">>, Bare, TRUE) \in C
       /\ CookieCall(<<"2">>, Dressed, TRUE) \in C
  BY <1>2, <1>7, <1>12
<1> QED
  BY <1>8, <1>9, <1>10, <1>13, <1>14, <1>15, Zenon DEF Calls, C, Illegal, A

LEMMA ResponsesLegal == ResponseQuestions \subseteq AnyResponses(ResponseLetters)
<1> DEFINE C == CallsOf(ResponseLetters)
           L == Lists(Calls, 0, 3)
<1>1. L \subseteq Seq(C)
  BY CallsLegal, ListsAre, SeqMonotonic
<1>2. ResponseQuestions = [kind : {"response"}, calls : L]
  BY Zenon DEF ResponseQuestions
<1>3. AnyResponses(ResponseLetters) = [kind : {"response"}, calls : Seq(C)]
  BY Zenon DEF AnyResponses
<1> HIDE DEF C, L
<1> QED
  BY <1>1, <1>2, <1>3

\* Every response MCParsing asks about is one of them.
ResponseAsked == asked.kind = "response" => asked \in AnyResponses(ResponseLetters)

LEMMA StaysResponseAsked == Spec => []ResponseAsked
<1>1. Init => ResponseAsked
  BY DEF Init, ResponseAsked
<1>2. ResponseAsked /\ [Next]_asked => ResponseAsked'
  <2> SUFFICES ASSUME ResponseAsked, [Next]_asked PROVE ResponseAsked'
    OBVIOUS
  <2>1. CASE AskRoute
    <3> DEFINE X == Lists(DeclaredRoutes, 1, 3)
               Y == Lists(Segments, 0, 2)
    <3>1. RouteQuestions = [kind : {"route"}, table : X, segments : Y, spare : BOOLEAN]
      BY Zenon DEF RouteQuestions
    <3> HIDE DEF X, Y
    <3>2. \A q \in RouteQuestions : q.kind = "route"
      BY <3>1
    <3> QED
      BY <2>1, <3>2 DEF AskRoute, Ask, ResponseAsked
  <2>2. CASE AskResponse
    BY <2>2, ResponsesLegal DEF AskResponse, Ask, ResponseAsked
  <2>3. CASE AskQuery \/ AskRequest \/ AskForm
    BY <2>3, OtherKinds DEF AskQuery, AskRequest, AskForm, Ask, ResponseAsked
  <2>4. CASE UNCHANGED asked
    BY <2>4 DEF ResponseAsked
  <2> QED
    BY <2>1, <2>2, <2>3, <2>4 DEF Next
<1> QED
  BY <1>1, <1>2, PTL DEF Spec

\* A client reads every response MCParsing asks about as the handler meant it
\* (Response.cpp:45-71, 177-218, 309-365; KVList.h:91-109).
THEOREM ResponsesReadBack == Spec => []ResponseReads
<1>1. ResponseAlphabet(ResponseLetters)
  BY ResponseLettersAre
<1>2. ResponseAsked => ResponseReads
  BY <1>1, ResponsesMeanWhatTheySay DEF ResponseAsked
<1> QED
  BY <1>2, StaysResponseAsked, PTL

=============================================================================
