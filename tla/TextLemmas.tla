----------------------------- MODULE TextLemmas -----------------------------
(***************************************************************************)
(* Induction over numbers and sequences, in the form of a set that holds   *)
(* its members; what FlattenSeq of SequencesExt makes of a sequence of     *)
(* sequences; what the helpers of Text make of a text; and how texts built *)
(* of lines and pieces come apart.  The proofs about Connection and the    *)
(* parsers rest on these.                                                  *)
(***************************************************************************)
EXTENDS Text, TLAPS, SequenceTheorems, WellFoundedInduction

-----------------------------------------------------------------------------
(* Induction over a set of numbers.                                        *)

LEMMA Least ==
  ASSUME NEW T, T \subseteq Nat, T # {}
  PROVE  \E m \in T : \A n \in T : m <= n
<1> DEFINE R == {ss \in Nat \X Nat : ss[1] < ss[2]}
<1>1. IsWellFoundedOn(R, Nat)
  BY NatLessThanWellFounded DEF OpToRel
<1> HIDE DEF R
<1>2. PICK m \in T : \A n \in T : ~(<<n, m>> \in R)
  BY <1>1, WFMin
<1>3. \A n \in T : ~ (n < m)
  BY <1>2 DEF R
<1> QED
  BY <1>3

LEMMA Induct ==
  ASSUME NEW T, 0 \in T, \A n \in Nat : n \in T => n + 1 \in T
  PROVE  \A n \in Nat : n \in T
<1> SUFFICES ASSUME Nat \ T # {} PROVE FALSE
  OBVIOUS
<1>1. PICK m \in Nat \ T : \A n \in Nat \ T : m <= n
  BY Least
<1>2. m # 0 /\ m - 1 \in Nat /\ ~(m <= m - 1)
  OBVIOUS
<1>3. m - 1 \in T
  BY <1>1, <1>2
<1>4. (m - 1) + 1 \in T
  BY <1>2, <1>3
<1>5. (m - 1) + 1 = m
  OBVIOUS
<1> QED
  BY <1>4, <1>5

-----------------------------------------------------------------------------
(* Sequences.                                                              *)

LEMMA FunctionIsSeq ==
  ASSUME NEW S, NEW n \in Nat, NEW f \in [1 .. n -> S]
  PROVE  f \in Seq(S) /\ Len(f) = n
<1>1. f \in Seq(S)
  BY SeqDef
<1>2. DOMAIN f = 1 .. n /\ DOMAIN f = 1 .. Len(f) /\ Len(f) \in Nat
  BY <1>1, LenProperties
<1> QED
  BY <1>1, <1>2

LEMMA Extends ==
  ASSUME NEW A, NEW s \in Seq(A), NEW t \in Seq(A), NEW e \in A,
         Len(t) = Len(s) + 1, \A k \in 1 .. Len(s) : t[k] = s[k], t[Len(s) + 1] = e
  PROVE  t = Append(s, e)
<1> DEFINE u == Append(s, e)
<1>1. /\ u \in Seq(A) /\ Len(u) = Len(s) + 1
      /\ \A k \in 1 .. Len(s) : u[k] = s[k]
      /\ u[Len(s) + 1] = e
  BY AppendProperties
<1>2. Len(s) \in Nat
  BY LenProperties
<1> HIDE DEF u
<1>3. \A k \in 1 .. Len(t) : t[k] = u[k]
  BY <1>1, <1>2
<1>4. t = u
  BY <1>1, <1>3, SeqEqual
<1> QED
  BY <1>4 DEF u

\* A function of one more number is a sequence with one more member.
LEMMA OneMore ==
  ASSUME NEW B, NEW n \in Nat, NEW f \in [1 .. n -> B], NEW g \in [1 .. n + 1 -> B],
         \A i \in 1 .. n : g[i] = f[i]
  PROVE  f \in Seq(B) /\ g \in Seq(B) /\ g[n + 1] \in B /\ g = Append(f, g[n + 1])
<1>1. f \in Seq(B) /\ Len(f) = n
  BY FunctionIsSeq
<1>2. g \in Seq(B) /\ Len(g) = n + 1
  BY FunctionIsSeq
<1>3. g[n + 1] \in B
  OBVIOUS
<1>4. Len(g) = Len(f) + 1 /\ g[Len(f) + 1] = g[n + 1] /\ \A i \in 1 .. Len(f) : g[i] = f[i]
  BY <1>1, <1>2
<1>5. g = Append(f, g[n + 1])
  <2> DEFINE e == g[n + 1]
  <2>1. e \in B /\ g[Len(f) + 1] = e
    BY <1>3, <1>4
  <2> HIDE DEF e
  <2>2. g = Append(f, e)
    BY <1>1, <1>2, <1>4, <2>1, Extends
  <2> QED
    BY <2>2 DEF e
<1> QED
  BY <1>1, <1>2, <1>3, <1>5

LEMMA One ==
  ASSUME NEW A, NEW e \in A
  PROVE  <<e>> \in Seq(A) /\ Len(<<e>>) = 1 /\ <<e>>[1] = e
OBVIOUS

LEMMA ConcatAppend ==
  ASSUME NEW A, NEW s \in Seq(A), NEW t \in Seq(A), NEW e \in A
  PROVE  s \o Append(t, e) = Append(s \o t, e)
<1>1. <<e>> \in Seq(A)
  BY One
<1>2. Append(t, e) = t \o <<e>> /\ s \o t \in Seq(A)
  BY AppendIsConcat, ConcatProperties
<1>3. Append(s \o t, e) = (s \o t) \o <<e>>
  BY <1>2, AppendIsConcat
<1> QED
  BY <1>1, <1>2, <1>3, ConcatAssociative

LEMMA SeqInduct ==
  ASSUME NEW A, NEW T, <<>> \in T,
         \A s \in Seq(A), e \in A : s \in T => Append(s, e) \in T
  PROVE  \A s \in Seq(A) : s \in T
<1> DEFINE U == {n \in Nat : \A s \in Seq(A) : Len(s) = n => s \in T}
<1>1. 0 \in U
  <2> SUFFICES ASSUME NEW s \in Seq(A), Len(s) = 0 PROVE s \in T
    OBVIOUS
  <2>1. s = <<>>
    BY EmptySeq
  <2> QED
    BY <2>1
<1>2. ASSUME NEW n \in Nat, n \in U PROVE n + 1 \in U
  <2> SUFFICES ASSUME NEW s \in Seq(A), Len(s) = n + 1 PROVE s \in T
    OBVIOUS
  <2>1. s # <<>>
    BY EmptySeq
  <2>2. PICK t \in Seq(A), e \in A : s = Append(t, e)
    BY <2>1, SequenceEmptyOrAppend
  <2>3. Len(s) = Len(t) + 1 /\ Len(t) \in Nat
    BY <2>2, AppendProperties, LenProperties
  <2>4. t \in T
    BY <1>2, <2>3
  <2> QED
    BY <2>2, <2>4
<1> HIDE DEF U
<1>3. \A n \in Nat : n \in U
  BY <1>1, <1>2, Induct
<1>4. ASSUME NEW s \in Seq(A) PROVE s \in T
  BY <1>3, LenProperties DEF U
<1> QED
  BY <1>4

-----------------------------------------------------------------------------
(* FlattenSeq.                                                             *)

\* f is the recursive function inside FlattenSeq, up to n.
Concats(f, n, seqs) ==
  f = [i \in 1 .. n |-> IF i = 1 THEN seqs[i] ELSE f[i - 1] \o seqs[i]]

LEMMA ConcatsAt ==
  ASSUME NEW f, NEW n, NEW seqs, Concats(f, n, seqs)
  PROVE  /\ DOMAIN f = 1 .. n
         /\ \A i \in 1 .. n : f[i] = IF i = 1 THEN seqs[i] ELSE f[i - 1] \o seqs[i]
         /\ f = [i \in 1 .. n |-> f[i]]
<1> DEFINE g == [i \in 1 .. n |-> IF i = 1 THEN seqs[i] ELSE f[i - 1] \o seqs[i]]
<1>1. f = g
  BY DEF Concats
<1>2. DOMAIN g = 1 .. n /\ g = [i \in 1 .. n |-> g[i]]
  OBVIOUS
<1>3. \A i \in 1 .. n : f[i] = IF i = 1 THEN seqs[i] ELSE f[i - 1] \o seqs[i]
  BY <1>1, Zenon
<1> HIDE DEF g
<1> QED
  BY <1>1, <1>2, <1>3, Zenon

LEMMA ConcatsGrow ==
  ASSUME NEW f, NEW n \in Nat, NEW seqs, Concats(f, n, seqs)
  PROVE  \E g : Concats(g, n + 1, seqs)
<1> DEFINE g == [i \in 1 .. n + 1 |-> IF i = 1 THEN seqs[i] ELSE f[i - 1] \o seqs[i]]
<1>1. \A i \in 1 .. n : g[i] = f[i]
  <2> TAKE i \in 1 .. n
  <2>1. f[i] = IF i = 1 THEN seqs[i] ELSE f[i - 1] \o seqs[i]
    BY ConcatsAt
  <2>2. i \in 1 .. n + 1
    OBVIOUS
  <2>3. g[i] = IF i = 1 THEN seqs[i] ELSE f[i - 1] \o seqs[i]
    BY <2>2
  <2> HIDE DEF g
  <2> QED
    BY <2>1, <2>3
<1>2. \A i \in 1 .. n + 1 : i # 1 => i - 1 \in 1 .. n
  OBVIOUS
<1>3. \A i \in 1 .. n + 1 : i # 1 => g[i - 1] = f[i - 1]
  <2> HIDE DEF g
  <2> QED
    BY <1>1, <1>2
<1>4. g = [i \in 1 .. n + 1 |-> IF i = 1 THEN seqs[i] ELSE g[i - 1] \o seqs[i]]
  BY <1>3
<1> HIDE DEF g
<1> QED
  BY <1>4 DEF Concats

\* FlattenSeq of SequencesExt, unrolled.
LEMMA Flattens ==
  ASSUME NEW S, NEW seqs \in Seq(Seq(S)), Len(seqs) # 0
  PROVE  \E flat \in [1 .. Len(seqs) -> Seq(S)] :
           /\ flat[1] = seqs[1]
           /\ \A i \in 2 .. Len(seqs) : flat[i] = flat[i - 1] \o seqs[i]
           /\ FlattenSeq(seqs) = flat[Len(seqs)]
<1> DEFINE T == {n \in Nat : \E f : Concats(f, n, seqs)}
<1>1. 0 \in T
  <2> DEFINE g == [i \in 1 .. 0 |-> seqs[i]]
  <2>1. g = [i \in 1 .. 0 |-> IF i = 1 THEN seqs[i] ELSE g[i - 1] \o seqs[i]]
    OBVIOUS
  <2> HIDE DEF g
  <2>2. Concats(g, 0, seqs)
    BY <2>1 DEF Concats
  <2> QED
    BY <2>2
<1>2. ASSUME NEW n \in Nat, n \in T PROVE n + 1 \in T
  BY <1>2, ConcatsGrow
<1>3. Len(seqs) \in Nat
  BY LenProperties
<1> HIDE DEF T
<1>4. Len(seqs) \in T
  BY <1>1, <1>2, <1>3, Induct
<1> DEFINE flat == CHOOSE f : Concats(f, Len(seqs), seqs)
<1>5. Concats(flat, Len(seqs), seqs)
  BY <1>4 DEF T
<1>6. FlattenSeq(seqs) = flat[Len(seqs)]
  BY Zenon DEF FlattenSeq, Concats
<1> HIDE DEF flat
<1>7. /\ DOMAIN flat = 1 .. Len(seqs)
      /\ \A i \in 1 .. Len(seqs) :
           flat[i] = IF i = 1 THEN seqs[i] ELSE flat[i - 1] \o seqs[i]
      /\ flat = [i \in 1 .. Len(seqs) |-> flat[i]]
  BY <1>5, ConcatsAt
<1>8. flat[1] = seqs[1] /\ \A i \in 2 .. Len(seqs) : flat[i] = flat[i - 1] \o seqs[i]
  <2>1. 1 \in 1 .. Len(seqs) /\ \A i \in 2 .. Len(seqs) : i \in 1 .. Len(seqs) /\ i # 1
    BY <1>3
  <2> QED
    BY <1>7, <2>1, Zenon
<1>9. \A i \in 1 .. Len(seqs) : seqs[i] \in Seq(S)
  BY ElementOfSeq
<1> DEFINE U == {n \in Nat : n + 1 \in 1 .. Len(seqs) => flat[n + 1] \in Seq(S)}
<1>10. 0 \in U
  BY <1>8, <1>9
<1>11. ASSUME NEW n \in Nat, n \in U PROVE n + 1 \in U
  <2> SUFFICES ASSUME (n + 1) + 1 \in 1 .. Len(seqs) PROVE flat[(n + 1) + 1] \in Seq(S)
    OBVIOUS
  <2>1. (n + 1) + 1 \in 2 .. Len(seqs) /\ ((n + 1) + 1) - 1 = n + 1 /\ n + 1 \in 1 .. Len(seqs)
    BY <1>3
  <2>2. flat[(n + 1) + 1] = flat[n + 1] \o seqs[(n + 1) + 1]
    BY <1>8, <2>1
  <2>3. flat[n + 1] \in Seq(S) /\ seqs[(n + 1) + 1] \in Seq(S)
    BY <1>9, <1>11, <2>1
  <2> QED
    BY <2>2, <2>3, ConcatProperties
<1> HIDE DEF U
<1>12. \A n \in Nat : n \in U
  BY <1>10, <1>11, Induct
<1>13. ASSUME NEW i \in 1 .. Len(seqs) PROVE flat[i] \in Seq(S)
  <2>1. i - 1 \in Nat /\ (i - 1) + 1 = i
    OBVIOUS
  <2> QED
    BY <1>12, <2>1 DEF U
<1>14. flat \in [1 .. Len(seqs) -> Seq(S)]
  BY <1>7, <1>13
<1> QED
  BY <1>6, <1>8, <1>14

LEMMA FlattenEmpty == FlattenSeq(<<>>) = <<>>
BY EmptySeq DEF FlattenSeq

\* One more sequence goes to the end.
LEMMA FlattenAppend ==
  ASSUME NEW A, NEW seqs \in Seq(Seq(A)), NEW s \in Seq(A)
  PROVE  /\ FlattenSeq(seqs) \in Seq(A)
         /\ FlattenSeq(Append(seqs, s)) = FlattenSeq(seqs) \o s
<1> DEFINE n == Len(seqs)
           more == Append(seqs, s)
<1>1. /\ more \in Seq(Seq(A)) /\ Len(more) = n + 1 /\ n \in Nat
      /\ \A i \in 1 .. n : more[i] = seqs[i]
      /\ more[n + 1] = s
      /\ n = Len(seqs)
  BY AppendProperties, LenProperties
<1> HIDE DEF more, n
<1>2. PICK g \in [1 .. n + 1 -> Seq(A)] :
        /\ g[1] = more[1]
        /\ \A i \in 2 .. n + 1 : g[i] = g[i - 1] \o more[i]
        /\ FlattenSeq(more) = g[n + 1]
  <2>1. Len(more) # 0
    BY <1>1
  <2>2. \E g \in [1 .. Len(more) -> Seq(A)] :
          /\ g[1] = more[1]
          /\ \A i \in 2 .. Len(more) : g[i] = g[i - 1] \o more[i]
          /\ FlattenSeq(more) = g[Len(more)]
    BY <1>1, <2>1, Flattens
  <2> QED
    BY <1>1, <2>2
<1>3. CASE n = 0
  <2>1. seqs = <<>>
    <3>1. Len(seqs) \notin Nat \ {0}
      BY <1>1, <1>3
    <3> QED
      BY <3>1, EmptySeq
  <2>2. FlattenSeq(seqs) = <<>> /\ <<>> \in Seq(A) /\ <<>> \o s = s
    BY <2>1, FlattenEmpty, EmptySeq, ConcatEmptySeq
  <2>3. FlattenSeq(more) = s
    BY <1>1, <1>2, <1>3
  <2> QED
    BY <2>2, <2>3 DEF more
<1>4. CASE n # 0
  <2>1. PICK f \in [1 .. n -> Seq(A)] :
          /\ f[1] = seqs[1]
          /\ \A i \in 2 .. n : f[i] = f[i - 1] \o seqs[i]
          /\ FlattenSeq(seqs) = f[n]
    <3>1. Len(seqs) # 0
      BY <1>1, <1>4
    <3>2. \E f \in [1 .. Len(seqs) -> Seq(A)] :
            /\ f[1] = seqs[1]
            /\ \A i \in 2 .. Len(seqs) : f[i] = f[i - 1] \o seqs[i]
            /\ FlattenSeq(seqs) = f[Len(seqs)]
      BY <3>1, Flattens
    <3> QED
      BY <1>1, <3>2, Zenon
  <2> DEFINE T == {k \in Nat : k + 1 \in 1 .. n => f[k + 1] = g[k + 1]}
  <2>2. 0 \in T
    BY <1>1, <1>2, <2>1
  <2>3. ASSUME NEW k \in Nat, k \in T PROVE k + 1 \in T
    <3> SUFFICES ASSUME (k + 1) + 1 \in 1 .. n PROVE f[(k + 1) + 1] = g[(k + 1) + 1]
      OBVIOUS
    <3>1. /\ (k + 1) + 1 \in 2 .. n /\ (k + 1) + 1 \in 2 .. n + 1
          /\ ((k + 1) + 1) - 1 = k + 1 /\ k + 1 \in 1 .. n
      BY <1>1
    <3>2. f[k + 1] = g[k + 1] /\ more[(k + 1) + 1] = seqs[(k + 1) + 1]
      BY <1>1, <2>3, <3>1
    <3>3. /\ f[(k + 1) + 1] = f[k + 1] \o seqs[(k + 1) + 1]
          /\ g[(k + 1) + 1] = g[k + 1] \o more[(k + 1) + 1]
      BY <1>2, <2>1, <3>1
    <3> QED
      BY <3>2, <3>3
  <2> HIDE DEF T
  <2>4. n - 1 \in T
    <3>1. \A k \in Nat : k \in T
      BY <2>2, <2>3, Induct
    <3> QED
      BY <1>1, <1>4, <3>1
  <2>5. f[n] = g[n]
    <3>1. n - 1 \in Nat /\ (n - 1) + 1 = n /\ n \in 1 .. n
      BY <1>1, <1>4
    <3> QED
      BY <2>4, <3>1 DEF T
  <2>6. g[n + 1] = g[n] \o s
    <3>1. n + 1 \in 2 .. n + 1 /\ (n + 1) - 1 = n
      BY <1>1, <1>4
    <3> QED
      BY <1>1, <1>2, <3>1
  <2>7. f[n] \in Seq(A)
    <3>1. n \in 1 .. n
      BY <1>1, <1>4
    <3> QED
      BY <2>1, <3>1
  <2> QED
    BY <1>2, <2>1, <2>5, <2>6, <2>7 DEF more
<1> QED
  BY <1>3, <1>4

-----------------------------------------------------------------------------
(* split: its recursive function, unrolled.                                *)

Piece(earlier, c, d) ==
  IF c = d THEN Append(earlier, <<>>)
  ELSE [earlier EXCEPT ![Len(earlier)] = Append(@, c)]

\* f is the recursive function inside split, up to n.
Pieces(f, n, s, d) ==
  f = [k \in 0 .. n |-> IF k = 0 THEN << <<>> >> ELSE Piece(f[k - 1], s[k], d)]

LEMMA PiecesAt ==
  ASSUME NEW f, NEW n, NEW s, NEW d, Pieces(f, n, s, d)
  PROVE  \A k \in 0 .. n : f[k] = IF k = 0 THEN << <<>> >> ELSE Piece(f[k - 1], s[k], d)
<1> DEFINE g == [k \in 0 .. n |-> IF k = 0 THEN << <<>> >> ELSE Piece(f[k - 1], s[k], d)]
<1>1. f = g
  BY DEF Pieces
<1> QED
  BY <1>1, Zenon

LEMMA PiecesGrow ==
  ASSUME NEW f, NEW n \in Nat, NEW s, NEW d, Pieces(f, n, s, d)
  PROVE  \E g : Pieces(g, n + 1, s, d)
<1> DEFINE F(k, earlier) == IF k = 0 THEN << <<>> >> ELSE Piece(earlier, s[k], d)
           g == [k \in 0 .. n + 1 |-> F(k, f[k - 1])]
<1>1. \A k \in 0 .. n : g[k] = f[k]
  <2> TAKE k \in 0 .. n
  <2>1. f[k] = F(k, f[k - 1])
    BY PiecesAt
  <2>2. k \in 0 .. n + 1
    OBVIOUS
  <2> HIDE DEF F
  <2>3. g[k] = F(k, f[k - 1])
    BY <2>2
  <2> HIDE DEF g
  <2> QED
    BY <2>1, <2>3
<1>2. \A k \in 0 .. n + 1 : F(k, f[k - 1]) = F(k, g[k - 1])
  <2> TAKE k \in 0 .. n + 1
  <2>1. CASE k = 0
    BY <2>1
  <2>2. CASE k # 0
    <3>1. k - 1 \in 0 .. n
      BY <2>2
    <3> HIDE DEF F, g
    <3> QED
      BY <1>1, <3>1
  <2> QED
    BY <2>1, <2>2
<1>3. g = [k \in 0 .. n + 1 |-> F(k, g[k - 1])]
  <2> HIDE DEF F
  <2> QED
    BY <1>2
<1> HIDE DEF g
<1> QED
  BY <1>3 DEF Pieces

LEMMA SplitPieces ==
  ASSUME NEW A, NEW s \in Seq(A), NEW d
  PROVE  \E f : Pieces(f, Len(s), s, d) /\ split(s, d) = f[Len(s)]
<1> DEFINE T == {n \in Nat : \E f : Pieces(f, n, s, d)}
<1>1. 0 \in T
  <2> DEFINE g == [k \in 0 .. 0 |-> << <<>> >>]
  <2>1. g = [k \in 0 .. 0 |-> IF k = 0 THEN << <<>> >> ELSE Piece(g[k - 1], s[k], d)]
    OBVIOUS
  <2> HIDE DEF g
  <2>2. Pieces(g, 0, s, d)
    BY <2>1 DEF Pieces
  <2> QED
    BY <2>2
<1>2. ASSUME NEW n \in Nat, n \in T PROVE n + 1 \in T
  BY <1>2, PiecesGrow
<1> HIDE DEF T
<1>3. Len(s) \in T
  BY <1>1, <1>2, Induct, LenProperties
<1> DEFINE pieces == CHOOSE f : Pieces(f, Len(s), s, d)
<1>4. Pieces(pieces, Len(s), s, d)
  BY <1>3 DEF T
<1>5. split(s, d) = pieces[Len(s)]
  BY Zenon DEF split, Pieces, Piece
<1> HIDE DEF pieces
<1> QED
  BY <1>4, <1>5

LEMMA SplitEmpty == ASSUME NEW d PROVE split(<<>>, d) = << <<>> >>
<1>1. <<>> \in Seq({}) /\ Len(<<>>) = 0
  BY EmptySeq
<1>2. PICK f : Pieces(f, Len(<<>>), <<>>, d) /\ split(<<>>, d) = f[Len(<<>>)]
  BY <1>1, SplitPieces
<1>3. f[0] = << <<>> >>
  BY <1>1, <1>2, PiecesAt
<1> QED
  BY <1>1, <1>2, <1>3

\* A text is taken apart symbol by symbol, from the front.
LEMMA SplitAppend ==
  ASSUME NEW A, NEW s \in Seq(A), NEW c \in A, NEW d
  PROVE  split(Append(s, c), d) = Piece(split(s, d), c, d)
<1> DEFINE t == Append(s, c)
<1>0. PICK n \in Nat : n = Len(s)
  BY LenProperties
<1>1. /\ t \in Seq(A) /\ Len(t) = n + 1
      /\ \A k \in 1 .. n : t[k] = s[k]
      /\ t[n + 1] = c
  BY <1>0, AppendProperties
<1> HIDE DEF t
<1>2. PICK f : Pieces(f, n, s, d) /\ split(s, d) = f[n]
  BY <1>0, SplitPieces
<1>3. PICK g : Pieces(g, n + 1, t, d) /\ split(t, d) = g[n + 1]
  BY <1>1, SplitPieces
<1> DEFINE T == {k \in Nat : k \in 0 .. n => f[k] = g[k]}
<1>4. 0 \in T
  BY <1>2, <1>3, PiecesAt
<1>5. ASSUME NEW k \in Nat, k \in T PROVE k + 1 \in T
  <2> SUFFICES ASSUME k + 1 \in 0 .. n PROVE f[k + 1] = g[k + 1]
    OBVIOUS
  <2>1. /\ k + 1 \in 0 .. n + 1 /\ k + 1 \in 1 .. n /\ k \in 0 .. n
        /\ k + 1 # 0 /\ (k + 1) - 1 = k
    OBVIOUS
  <2>2. f[k + 1] = Piece(f[k], s[k + 1], d)
    BY <1>2, <2>1, PiecesAt
  <2>3. g[k + 1] = Piece(g[k], t[k + 1], d)
    BY <1>3, <2>1, PiecesAt
  <2>4. f[k] = g[k] /\ t[k + 1] = s[k + 1]
    BY <1>1, <1>5, <2>1
  <2> QED
    BY <2>2, <2>3, <2>4
<1> HIDE DEF T
<1>6. f[n] = g[n]
  <2>1. \A k \in Nat : k \in T
    BY <1>4, <1>5, Induct
  <2> QED
    BY <2>1 DEF T
<1>7. g[n + 1] = Piece(g[n], t[n + 1], d)
  <2>1. n + 1 \in 0 .. n + 1 /\ n + 1 # 0 /\ (n + 1) - 1 = n
    OBVIOUS
  <2> QED
    BY <1>3, <2>1, PiecesAt
<1> QED
  BY <1>1, <1>2, <1>3, <1>6, <1>7 DEF t

\* There is always a last piece.
Splitting(A, p) == p \in Seq(Seq(A)) /\ Len(p) \in Nat \ {0}

LEMMA SplittingMore ==
  ASSUME NEW A, NEW p, Splitting(A, p), NEW c \in A, NEW d
  PROVE  Splitting(A, Piece(p, c, d))
<1>1. p \in Seq(Seq(A)) /\ Len(p) \in Nat \ {0}
  BY DEF Splitting
<1>2. CASE c = d
  <2>1. Append(p, <<>>) \in Seq(Seq(A)) /\ Len(Append(p, <<>>)) = Len(p) + 1
    BY <1>1, EmptySeq, AppendProperties
  <2>2. Piece(p, c, d) = Append(p, <<>>)
    BY <1>2 DEF Piece
  <2> QED
    BY <1>1, <2>1, <2>2 DEF Splitting
<1>3. CASE c # d
  <2>1. p[Len(p)] \in Seq(A) /\ Len(p) \in 1 .. Len(p)
    BY <1>1, ElementOfSeq
  <2>2. Append(p[Len(p)], c) \in Seq(A)
    BY <2>1, AppendProperties
  <2> DEFINE e == Append(p[Len(p)], c)
             q == [p EXCEPT ![Len(p)] = e]
  <2> HIDE DEF e
  <2>3. q \in Seq(Seq(A)) /\ Len(q) = Len(p)
    BY <1>1, <2>1, <2>2, ExceptSeq DEF e
  <2>4. Piece(p, c, d) = q
    BY <1>3 DEF Piece, e
  <2> QED
    BY <1>1, <2>3, <2>4 DEF Splitting
<1> QED
  BY <1>2, <1>3

LEMMA SplitType ==
  ASSUME NEW A, NEW s \in Seq(A), NEW d
  PROVE  Splitting(A, split(s, d))
<1> DEFINE T == {t \in Seq(A) : Splitting(A, split(t, d))}
<1>1. <<>> \in T
  <2>1. <<>> \in Seq(A)
    BY EmptySeq
  <2>2. Splitting(A, << <<>> >>)
    BY <2>1, One DEF Splitting
  <2>3. Splitting(A, split(<<>>, d))
    BY <2>2, SplitEmpty
  <2> QED
    BY <2>1, <2>3
<1>2. ASSUME NEW t \in Seq(A), NEW c \in A, t \in T PROVE Append(t, c) \in T
  BY <1>2, AppendProperties, SplitAppend, SplittingMore
<1> HIDE DEF T
<1>3. s \in T
  BY <1>1, <1>2, SeqInduct
<1> QED
  BY <1>3 DEF T

LEMMA PieceNew == ASSUME NEW p, NEW d PROVE Piece(p, d, d) = Append(p, <<>>)
BY DEF Piece

LEMMA PieceLast ==
  ASSUME NEW A, NEW q \in Seq(Seq(A)), NEW u \in Seq(A), NEW c \in A, NEW d, c # d
  PROVE  Piece(Append(q, u), c, d) = Append(q, Append(u, c))
<1> DEFINE p == Append(q, u)
           e == Append(p[Len(p)], c)
           r == [p EXCEPT ![Len(p)] = e]
           w == Append(q, Append(u, c))
<1>0. PICK n \in Nat : n = Len(q)
  BY LenProperties
<1>1. /\ p \in Seq(Seq(A)) /\ Len(p) = n + 1 /\ p[n + 1] = u
      /\ \A i \in 1 .. n : p[i] = q[i]
  BY <1>0, AppendProperties
<1>2. e = Append(u, c) /\ e \in Seq(A)
  <2> HIDE DEF p
  <2> QED
    BY <1>1, AppendProperties
<1>3. /\ w \in Seq(Seq(A)) /\ Len(w) = n + 1 /\ w[n + 1] = e
      /\ \A i \in 1 .. n : w[i] = q[i]
  <2>1. Append(u, c) \in Seq(A)
    BY AppendProperties
  <2> HIDE DEF e, p
  <2> QED
    BY <1>0, <1>2, <2>1, AppendProperties
<1> HIDE DEF p, e, w
<1>4. /\ r \in Seq(Seq(A)) /\ Len(r) = n + 1
      /\ \A i \in 1 .. n + 1 : r[i] = IF i = n + 1 THEN e ELSE p[i]
  <2>1. n + 1 \in 1 .. Len(p)
    BY <1>1
  <2> QED
    BY <1>1, <1>2, <2>1, ExceptSeq
<1> HIDE DEF r
<1>5. ASSUME NEW i \in 1 .. n + 1 PROVE r[i] = w[i]
  <2>1. CASE i = n + 1
    BY <1>3, <1>4, <2>1
  <2>2. CASE i # n + 1
    <3>1. i \in 1 .. n
      BY <2>2
    <3> QED
      BY <1>1, <1>3, <1>4, <2>2, <3>1
  <2> QED
    BY <2>1, <2>2
<1>6. r = w
  BY <1>3, <1>4, <1>5, SeqEqual
<1>7. Piece(p, c, d) = r
  BY DEF Piece, r, e
<1> QED
  BY <1>6, <1>7 DEF p, w

\* u is the last piece and q are the others.
EndsIn(s, d, q, u) == split(s, d) = Append(q, u)

\* What is free of the delimiter stays in one piece.
LEMMA SplitSegment ==
  ASSUME NEW A, NEW s \in Seq(A), NEW d,
         NEW q \in Seq(Seq(A)), NEW u \in Seq(A), EndsIn(s, d, q, u),
         NEW t \in Seq(A \ {d})
  PROVE  EndsIn(s \o t, d, q, u \o t)
<1> USE DEF EndsIn
<1> DEFINE T == {v \in Seq(A \ {d}) : split(s \o v, d) = Append(q, u \o v)}
<1>1. <<>> \in T
  <2>1. <<>> \in Seq(A \ {d}) /\ s \o <<>> = s /\ u \o <<>> = u
    BY EmptySeq, ConcatEmptySeq
  <2> QED
    BY <2>1, Zenon
<1>2. ASSUME NEW v \in Seq(A \ {d}), NEW c \in A \ {d}, v \in T PROVE Append(v, c) \in T
  <2>1. v \in Seq(A) /\ c \in A /\ c # d
    BY SeqMonotonic
  <2>2. s \o v \in Seq(A) /\ u \o v \in Seq(A)
    BY <2>1, ConcatProperties
  <2>3. s \o Append(v, c) = Append(s \o v, c)
    BY <2>1, ConcatAppend
  <2>8. u \o Append(v, c) = Append(u \o v, c)
    BY <2>1, ConcatAppend
  <2>4. split(s \o v, d) = Append(q, u \o v)
    BY <1>2
  <2>5. split(Append(s \o v, c), d) = Piece(Append(q, u \o v), c, d)
    BY <2>1, <2>2, <2>4, SplitAppend
  <2>6. Piece(Append(q, u \o v), c, d) = Append(q, Append(u \o v, c))
    <3> DEFINE w == u \o v
    <3>1. w \in Seq(A)
      BY <2>2
    <3> HIDE DEF w
    <3>2. Piece(Append(q, w), c, d) = Append(q, Append(w, c))
      BY <2>1, <3>1, PieceLast
    <3> QED
      BY <3>2 DEF w
  <2>7. Append(v, c) \in Seq(A \ {d})
    BY AppendProperties
  <2> QED
    BY <2>3, <2>5, <2>6, <2>7, <2>8, Zenon
<1> HIDE DEF T
<1>3. t \in T
  BY <1>1, <1>2, SeqInduct
<1> QED
  BY <1>3 DEF T

\* A delimiter, and a text without one, make one more piece.
LEMMA SplitMore ==
  ASSUME NEW A, NEW d \in A, NEW s \in Seq(A), NEW t \in Seq(A \ {d})
  PROVE  split(s \o (<<d>> \o t), d) = Append(split(s, d), t)
<1> DEFINE p == split(s, d)
<1>1. p \in Seq(Seq(A))
  BY SplitType DEF Splitting
<1>2. <<d>> \in Seq(A) /\ t \in Seq(A) /\ <<>> \in Seq(A)
  BY One, SeqMonotonic, EmptySeq
<1>3. s \o (<<d>> \o t) = Append(s, d) \o t /\ Append(s, d) \in Seq(A)
  <2>1. s \o (<<d>> \o t) = (s \o <<d>>) \o t
    BY <1>2, ConcatAssociative
  <2> QED
    BY <2>1, AppendIsConcat, AppendProperties
<1>4. split(Append(s, d), d) = Append(p, <<>>)
  BY SplitAppend, PieceNew
<1> HIDE DEF p
<1>5. split(Append(s, d) \o t, d) = Append(p, <<>> \o t)
  <2> DEFINE r == Append(s, d)
             none == <<>>
  <2>1. r \in Seq(A) /\ none \in Seq(A) /\ split(r, d) = Append(p, none)
    BY <1>2, <1>3, <1>4
  <2> HIDE DEF r, none
  <2>2. EndsIn(r, d, p, none)
    BY <2>1 DEF EndsIn
  <2>3. EndsIn(r \o t, d, p, none \o t)
    BY <1>1, <2>1, <2>2, SplitSegment, Zenon
  <2> QED
    BY <2>3 DEF r, none, EndsIn
<1>6. <<>> \o t = t
  BY <1>2, ConcatEmptySeq
<1> QED
  BY <1>3, <1>5, <1>6 DEF p

-----------------------------------------------------------------------------
(* NonEmpty and splitPath.                                                 *)

Skipped(piece) == IF piece = <<>> THEN <<>> ELSE <<piece>>

Skips(pieces) == [i \in DOMAIN pieces |-> Skipped(pieces[i])]

LEMMA NonEmptySkips == ASSUME NEW pieces PROVE NonEmpty(pieces) = FlattenSeq(Skips(pieces))
BY DEF NonEmpty, Skips, Skipped

LEMMA SkippedType ==
  ASSUME NEW A, NEW piece \in A
  PROVE  Skipped(piece) \in Seq(A)
BY One, EmptySeq DEF Skipped

LEMMA SkipsAppend ==
  ASSUME NEW A, NEW p \in Seq(A), NEW u \in A
  PROVE  /\ Skips(p) \in Seq(Seq(A))
         /\ Skips(Append(p, u)) = Append(Skips(p), Skipped(u))
<1> DEFINE w == Append(p, u)
<1>0. PICK n \in Nat : n = Len(p)
  BY LenProperties
<1>1. /\ DOMAIN p = 1 .. n /\ DOMAIN w = 1 .. n + 1 /\ w[n + 1] = u
      /\ \A i \in 1 .. n : w[i] = p[i] /\ p[i] \in A
      /\ \A i \in 1 .. n + 1 : w[i] \in A
  <2>1. w \in Seq(A) /\ Len(w) = n + 1 /\ w[n + 1] = u /\ \A i \in 1 .. n : w[i] = p[i]
    BY <1>0, AppendProperties
  <2> HIDE DEF w
  <2> QED
    BY <1>0, <2>1, LenProperties, ElementOfSeq
<1> HIDE DEF w
<1>2. Skips(p) \in [1 .. n -> Seq(A)] /\ \A i \in 1 .. n : Skips(p)[i] = Skipped(p[i])
  BY <1>1, SkippedType DEF Skips
<1>3. Skips(w) \in [1 .. n + 1 -> Seq(A)] /\ \A i \in 1 .. n + 1 : Skips(w)[i] = Skipped(w[i])
  BY <1>1, SkippedType DEF Skips
<1>4. \A i \in 1 .. n : Skips(w)[i] = Skips(p)[i]
  BY <1>1, <1>2, <1>3
<1>5. Skips(p) \in Seq(Seq(A)) /\ Skips(w) = Append(Skips(p), Skips(w)[n + 1])
  BY <1>2, <1>3, <1>4, OneMore
<1>6. Skips(w)[n + 1] = Skipped(u)
  BY <1>1, <1>3
<1> QED
  BY <1>5, <1>6 DEF w

LEMMA NonEmptyNone == NonEmpty(<<>>) = <<>>
<1>1. Skips(<<>>) = <<>>
  BY DEF Skips
<1> QED
  BY <1>1, NonEmptySkips, FlattenEmpty

LEMMA NonEmptyAppend ==
  ASSUME NEW A, NEW p \in Seq(A), NEW u \in A
  PROVE  /\ NonEmpty(p) \in Seq(A)
         /\ NonEmpty(Append(p, u)) = IF u = <<>> THEN NonEmpty(p) ELSE Append(NonEmpty(p), u)
<1>1. /\ Skips(p) \in Seq(Seq(A)) /\ Skips(Append(p, u)) = Append(Skips(p), Skipped(u))
      /\ Skipped(u) \in Seq(A)
  BY SkipsAppend, SkippedType
<1>2. /\ FlattenSeq(Skips(p)) \in Seq(A)
      /\ FlattenSeq(Append(Skips(p), Skipped(u))) = FlattenSeq(Skips(p)) \o Skipped(u)
  BY <1>1, FlattenAppend
<1>3. NonEmpty(p) \in Seq(A) /\ NonEmpty(Append(p, u)) = NonEmpty(p) \o Skipped(u)
  BY <1>1, <1>2, NonEmptySkips
<1>4. CASE u = <<>>
  BY <1>3, <1>4, ConcatEmptySeq DEF Skipped
<1>5. CASE u # <<>>
  <2>1. Append(NonEmpty(p), u) = NonEmpty(p) \o <<u>>
    BY <1>3, AppendIsConcat
  <2> QED
    BY <1>3, <1>5, <2>1 DEF Skipped
<1> QED
  BY <1>3, <1>4, <1>5

\* getline leaves out a last piece that is empty.
LinesAre(s, d, q, u) == getlines(s, d) = IF u = <<>> THEN q ELSE Append(q, u)

LEMMA GetlinesIs ==
  ASSUME NEW A, NEW s, NEW d, NEW q \in Seq(Seq(A)), NEW u \in Seq(A), EndsIn(s, d, q, u)
  PROVE  LinesAre(s, d, q, u)
<1> DEFINE p == Append(q, u)
<1>1. PICK n \in Nat : n = Len(q)
  BY LenProperties
<1>2. p \in Seq(Seq(A)) /\ Len(p) = n + 1 /\ p[n + 1] = u /\ \A i \in 1 .. n : p[i] = q[i]
  BY <1>1, AppendProperties
<1>3. getlines(s, d) = IF p[Len(p)] = <<>> THEN SubSeq(p, 1, Len(p) - 1) ELSE p
  BY Zenon DEF getlines, Last, Front, EndsIn
<1> HIDE DEF p
<1>4. SubSeq(p, 1, n) = q
  <2>1. \A i \in 1 .. n : p[i] \in Seq(A)
    BY <1>1, <1>2, ElementOfSeq
  <2>2. /\ SubSeq(p, 1, n) \in Seq(Seq(A)) /\ Len(SubSeq(p, 1, n)) = n
        /\ \A i \in 1 .. n : SubSeq(p, 1, n)[i] = p[i]
    <3>1. /\ SubSeq(p, 1, n) \in Seq(Seq(A))
          /\ Len(SubSeq(p, 1, n)) = IF 1 <= n THEN n - 1 + 1 ELSE 0
          /\ \A i \in 1 .. n - 1 + 1 : SubSeq(p, 1, n)[i] = p[1 + i - 1]
      BY <2>1, SubSeqProperties
    <3> QED
      BY <3>1
  <2> DEFINE r == SubSeq(p, 1, n)
  <2> HIDE DEF r
  <2>3. r = q
    BY <1>1, <1>2, <2>2, SeqEqual DEF r
  <2> QED
    BY <2>3 DEF r
<1>5. Len(p) - 1 = n /\ p[Len(p)] = u
  BY <1>2
<1> QED
  BY <1>3, <1>4, <1>5, Zenon DEF p, LinesAre

\* What it leaves out would be skipped anyway.
SkipsAlike(s, d) == NonEmpty(getlines(s, d)) = NonEmpty(split(s, d))

LEMMA LinesSkipped ==
  ASSUME NEW A, NEW s \in Seq(A), NEW d
  PROVE  SkipsAlike(s, d)
<1> DEFINE p == split(s, d)
<1>1. p \in Seq(Seq(A)) /\ Len(p) \in Nat \ {0}
  BY SplitType DEF Splitting
<1> HIDE DEF p
<1>2. p # <<>>
  BY <1>1, EmptySeq
<1>3. PICK q \in Seq(Seq(A)), u \in Seq(A) : p = Append(q, u)
  BY <1>1, <1>2, SequenceEmptyOrAppend
<1>4. LinesAre(s, d, q, u)
  BY <1>3, GetlinesIs DEF EndsIn, p
<1>5. u = <<>> => NonEmpty(p) = NonEmpty(q)
  BY <1>3, NonEmptyAppend
<1> QED
  BY <1>3, <1>4, <1>5, Zenon DEF SkipsAlike, LinesAre, p

LEMMA SplitPathIs ==
  ASSUME NEW A, NEW s \in Seq(A)
  PROVE  splitPath(s) = NonEmpty(split(s, "/"))
<1>1. SkipsAlike(s, "/")
  BY LinesSkipped
<1> QED
  BY <1>1, Zenon DEF SkipsAlike, splitPath

\* The texts between slashes.
Segs(A) == Seq(A \ {"/"}) \ {<<>>}

LEMMA SplitPathMore ==
  ASSUME NEW A, "/" \in A, NEW s \in Seq(A), NEW t \in Seq(A \ {"/"})
  PROVE  /\ splitPath(s) \in Seq(Seq(A))
         /\ splitPath(s \o (<<"/">> \o t)) =
              IF t = <<>> THEN splitPath(s) ELSE Append(splitPath(s), t)
<1> DEFINE d == "/"
           p == split(s, d)
           w == s \o (<<d>> \o t)
<1>1. t \in Seq(A) /\ <<d>> \in Seq(A)
  BY One, SeqMonotonic
<1>2. w \in Seq(A)
  BY <1>1, ConcatProperties
<1>3. p \in Seq(Seq(A))
  BY SplitType DEF Splitting
<1>4. split(w, d) = Append(p, t)
  BY SplitMore
<1>5. splitPath(s) = NonEmpty(p) /\ splitPath(w) = NonEmpty(split(w, d))
  BY <1>2, SplitPathIs
<1> HIDE DEF p, w
<1>6. /\ NonEmpty(p) \in Seq(Seq(A))
      /\ NonEmpty(Append(p, t)) = IF t = <<>> THEN NonEmpty(p) ELSE Append(NonEmpty(p), t)
  BY <1>1, <1>3, NonEmptyAppend
<1> QED
  BY <1>4, <1>5, <1>6 DEF w

LEMMA SplitPathNone == splitPath(<<>>) = <<>>
<1>1. <<>> \in Seq(STRING) /\ <<>> \in Seq(STRING)
  BY EmptySeq
<1>2. splitPath(<<>>) = NonEmpty(<< <<>> >>)
  BY <1>1, SplitPathIs, SplitEmpty
<1>3. << <<>> >> = Append(<<>>, <<>>)
  OBVIOUS
<1>4. NonEmpty(Append(<<>>, <<>>)) = NonEmpty(<<>>)
  <2>1. <<>> \in Seq(Seq(STRING))
    BY EmptySeq
  <2> DEFINE u == <<>>
  <2>2. u \in Seq(STRING) /\ u = <<>>
    BY <1>1
  <2> HIDE DEF u
  <2>3. NonEmpty(Append(<<>>, u)) = NonEmpty(<<>>)
    BY <2>1, <2>2, NonEmptyAppend
  <2> QED
    BY <2>3 DEF u
<1> QED
  BY <1>2, <1>3, <1>4, NonEmptyNone

-----------------------------------------------------------------------------
(* Joined.                                                                 *)

\* What one text adds.
Behind(i, t, b) == IF i = 1 THEN t ELSE b \o t

More(T, e, b) == IF T = <<>> THEN e ELSE b \o e

JoinedWith(texts, b) == [i \in DOMAIN texts |-> Behind(i, texts[i], b)]

Associate(r, s, t) == (r \o s) \o t = r \o (s \o t)

LEMMA Associates ==
  ASSUME NEW A, NEW r \in Seq(A), NEW s \in Seq(A), NEW t \in Seq(A)
  PROVE  Associate(r, s, t)
BY ConcatAssociative DEF Associate

-----------------------------------------------------------------------------
(* toLower.                                                                *)

Lowered(c) == IF c \in DOMAIN Small THEN Small[c] ELSE c

\* None of the symbols that make up a pattern.
Plain(c) == c # "/" /\ c # "{" /\ c # "}"

LEMMA SmallIs ==
  \A c \in DOMAIN Small : Plain(c) /\ Plain(Small[c]) /\ Small[c] \notin DOMAIN Small
<1>1. ASSUME NEW pair \in Capitals PROVE Plain(pair[1]) /\ Plain(pair[2])
  <2>1. \/ pair[1] = "A" \/ pair[1] = "B" \/ pair[1] = "C" \/ pair[1] = "X-" \/ pair[1] = "Host"
        \/ pair[1] = "Cookie" \/ pair[1] = "Connection" \/ pair[1] = "Content-Length"
        \/ pair[1] = "Close" \/ pair[1] = "Content-Type"
    BY DEF Capitals
  <2>2. \/ pair[2] = "a" \/ pair[2] = "b" \/ pair[2] = "c" \/ pair[2] = "x-" \/ pair[2] = "host"
        \/ pair[2] = "cookie" \/ pair[2] = "connection" \/ pair[2] = "content-length"
        \/ pair[2] = "close" \/ pair[2] = "content-type"
    BY DEF Capitals
  <2> QED
    BY <2>1, <2>2, Zenon DEF Plain
<1>3. \A pair, other \in Capitals : pair[1] # other[2]
  BY DEF Capitals
<1>4. ASSUME NEW c \in DOMAIN Small PROVE \E pair \in Capitals : pair[1] = c /\ Small[c] = pair[2]
  BY DEF Small, Lookup
<1>5. \A c \in DOMAIN Small : \E pair \in Capitals : pair[1] = c
  BY DEF Small, Lookup
<1> QED
  BY <1>1, <1>3, <1>4, <1>5

LEMMA LoweredIs ==
  /\ \A c : Lowered(Lowered(c)) = Lowered(c)
  /\ \A c : Lowered(c) = "/" <=> c = "/"
  /\ \A c : Lowered(c) = "{" <=> c = "{"
  /\ \A c : Lowered(c) = "}" <=> c = "}"
BY SmallIs DEF Lowered, Plain

\* Sets of symbols that hold the small form of their letters.
Closed(A) == \A c \in A : Lowered(c) \in A

LEMMA LowerType ==
  ASSUME NEW A, Closed(A), NEW s \in Seq(A)
  PROVE  /\ toLower(s) \in Seq(A) /\ Len(toLower(s)) = Len(s)
         /\ \A i \in 1 .. Len(s) : toLower(s)[i] = Lowered(s[i])
<1>0. PICK n \in Nat : n = Len(s)
  BY LenProperties
<1>1. DOMAIN s = 1 .. n /\ \A i \in 1 .. n : s[i] \in A
  BY <1>0, LenProperties, ElementOfSeq
<1> DEFINE t == [i \in 1 .. n |-> Lowered(s[i])]
<1>2. toLower(s) = t
  BY <1>1 DEF toLower, Lowered
<1>3. t \in [1 .. n -> A] /\ \A i \in 1 .. n : t[i] = Lowered(s[i])
  BY <1>1 DEF Closed
<1> HIDE DEF t
<1>4. t \in Seq(A) /\ Len(t) = n
  BY <1>3, FunctionIsSeq
<1> QED
  BY <1>0, <1>2, <1>3, <1>4

LEMMA LowerNone == toLower(<<>>) = <<>>
BY DEF toLower

LEMMA LowerTwice ==
  ASSUME NEW A, Closed(A), NEW s \in Seq(A)
  PROVE  toLower(toLower(s)) = toLower(s)
<1> DEFINE t == toLower(s)
           u == toLower(t)
<1>1. t \in Seq(A) /\ Len(t) = Len(s) /\ \A i \in 1 .. Len(s) : t[i] = Lowered(s[i])
  BY LowerType
<1> HIDE DEF t
<1>2. u \in Seq(A) /\ Len(u) = Len(t) /\ \A i \in 1 .. Len(t) : u[i] = Lowered(t[i])
  BY <1>1, LowerType
<1> HIDE DEF u
<1>3. ASSUME NEW i \in 1 .. Len(u) PROVE u[i] = t[i]
  <2>1. i \in 1 .. Len(s) /\ i \in 1 .. Len(t)
    BY <1>1, <1>2
  <2>2. u[i] = Lowered(t[i]) /\ t[i] = Lowered(s[i])
    BY <1>1, <1>2, <2>1
  <2>3. Lowered(Lowered(s[i])) = Lowered(s[i])
    BY LoweredIs
  <2> QED
    BY <2>2, <2>3, Zenon
<1> QED
  BY <1>1, <1>2, <1>3, SeqEqual DEF u, t

LEMMA LowerConcat ==
  ASSUME NEW A, Closed(A), NEW s \in Seq(A), NEW t \in Seq(A)
  PROVE  toLower(s \o t) = toLower(s) \o toLower(t)
<1> DEFINE w == s \o t
           u == toLower(w)
           a == toLower(s)
           b == toLower(t)
           v == a \o b
<1>0. PICK m \in Nat, n \in Nat : m = Len(s) /\ n = Len(t)
  BY LenProperties
<1>1. w \in Seq(A) /\ Len(w) = m + n /\ \A i \in 1 .. m + n : w[i] = IF i <= m THEN s[i] ELSE t[i - m]
  BY <1>0, ConcatProperties
<1> HIDE DEF w
<1>2. u \in Seq(A) /\ Len(u) = m + n /\ \A i \in 1 .. m + n : u[i] = Lowered(w[i])
  BY <1>1, LowerType
<1>3. a \in Seq(A) /\ Len(a) = m /\ \A i \in 1 .. m : a[i] = Lowered(s[i])
  BY <1>0, LowerType
<1>4. b \in Seq(A) /\ Len(b) = n /\ \A i \in 1 .. n : b[i] = Lowered(t[i])
  BY <1>0, LowerType
<1> HIDE DEF u, a, b
<1>5. v \in Seq(A) /\ Len(v) = m + n /\ \A i \in 1 .. m + n : v[i] = IF i <= m THEN a[i] ELSE b[i - m]
  BY <1>3, <1>4, ConcatProperties
<1> HIDE DEF v
<1>6. ASSUME NEW i \in 1 .. m + n PROVE u[i] = v[i]
  <2>1. CASE i <= m
    <3>1. i \in 1 .. m
      BY <2>1
    <3> QED
      BY <1>1, <1>2, <1>3, <1>5, <2>1, <3>1
  <2>2. CASE ~(i <= m)
    <3>1. i - m \in 1 .. n
      BY <2>2
    <3> QED
      BY <1>1, <1>2, <1>4, <1>5, <2>2, <3>1
  <2> QED
    BY <2>1, <2>2
<1>7. u = v
  BY <1>2, <1>5, <1>6, SeqEqual
<1> QED
  BY <1>7 DEF u, v, w, a, b

Lowers(texts) == [i \in DOMAIN texts |-> toLower(texts[i])]

LEMMA LowersAppend ==
  ASSUME NEW A, Closed(A), NEW T \in Seq(Seq(A)), NEW e \in Seq(A)
  PROVE  /\ Lowers(T) \in Seq(Seq(A)) /\ toLower(e) \in Seq(A)
         /\ Lowers(Append(T, e)) = Append(Lowers(T), toLower(e))
<1> DEFINE W == Append(T, e)
           f == Lowers(T)
           g == Lowers(W)
<1>0. PICK n \in Nat : n = Len(T)
  BY LenProperties
<1>1. /\ DOMAIN T = 1 .. n /\ DOMAIN W = 1 .. n + 1 /\ W[n + 1] = e
      /\ \A i \in 1 .. n : W[i] = T[i] /\ T[i] \in Seq(A)
      /\ \A i \in 1 .. n + 1 : W[i] \in Seq(A)
  <2>1. W \in Seq(Seq(A)) /\ Len(W) = n + 1 /\ W[n + 1] = e /\ \A i \in 1 .. n : W[i] = T[i]
    BY <1>0, AppendProperties
  <2> HIDE DEF W
  <2> QED
    BY <1>0, <2>1, LenProperties, ElementOfSeq
<1> HIDE DEF W
<1>2. \A t \in Seq(A) : toLower(t) \in Seq(A)
  BY LowerType
<1>3. f \in [1 .. n -> Seq(A)] /\ \A i \in 1 .. n : f[i] = toLower(T[i])
  BY <1>1, <1>2 DEF Lowers
<1>4. g \in [1 .. n + 1 -> Seq(A)] /\ \A i \in 1 .. n + 1 : g[i] = toLower(W[i])
  BY <1>1, <1>2 DEF Lowers
<1> HIDE DEF f, g
<1>5. \A i \in 1 .. n : g[i] = f[i]
  BY <1>1, <1>3, <1>4
<1>6. f \in Seq(Seq(A)) /\ g = Append(f, g[n + 1])
  <2> DEFINE B == Seq(A)
  <2>1. f \in [1 .. n -> B] /\ g \in [1 .. n + 1 -> B]
    BY <1>3, <1>4
  <2> HIDE DEF B
  <2>2. f \in Seq(B) /\ g = Append(f, g[n + 1])
    BY <1>5, <2>1, OneMore
  <2> QED
    BY <2>2 DEF B
<1>7. g[n + 1] = toLower(e)
  BY <1>1, <1>4
<1> QED
  BY <1>2, <1>6, <1>7 DEF f, g, W

-----------------------------------------------------------------------------
(* Tables.  A table is what addRoute makes of the declarations, in order.  *)

LEMMA Smallest ==
  ASSUME NEW s, s \subseteq Nat, s # {}
  PROVE  Min(s) \in s /\ \A x \in s : Min(s) <= x
<1>1. PICK m \in s : \A x \in s : m <= x
  BY Least
<1> QED
  BY <1>1, Zenon DEF Min

-----------------------------------------------------------------------------
(* urlDecode: its recursive function, unrolled from the end of the text.   *)

Spoken(c) == IF c = "+" THEN " " ELSE c

Escaped(a, b, near, far) ==
  LET value == HexValue(a, b)
  IN  IF value = {} THEN near ELSE <<Byte(CHOOSE v \in value : TRUE)>> \o far

Rest(i, s, f) ==
  IF i > Len(s) THEN <<>>
  ELSE IF s[i] = "%" /\ i + 2 <= Len(s) THEN Escaped(s[i + 1], s[i + 2], f[i + 1], f[i + 3])
  ELSE <<Spoken(s[i])>> \o f[i + 1]

\* f is the recursive function inside urlDecode.
Rests(f, s) == f = [i \in 1 .. (Len(s) + 1) |-> Rest(i, s, f)]

RestsEach(f, s) == \A i \in 1 .. Len(s) + 1 : f[i] = Rest(i, s, f)

LEMMA RestsAt == ASSUME NEW f, NEW s, Rests(f, s) PROVE RestsEach(f, s)
<1> DEFINE g == [i \in 1 .. (Len(s) + 1) |-> Rest(i, s, f)]
<1>1. f = g
  BY DEF Rests
<1> QED
  BY <1>1, Zenon DEF RestsEach

\* What is read at i depends on one and three symbols further on.
RestSame(i, s, f, g) == Rest(i, s, f) = Rest(i, s, g)

LEMMA RestReads ==
  ASSUME NEW n, NEW s, Len(s) = n, NEW i, NEW f, NEW g,
         ~(i > n) => g[i + 1] = f[i + 1],
         i + 2 <= n => g[i + 3] = f[i + 3]
  PROVE  RestSame(i, s, f, g)
<1>1. CASE i > n
  BY <1>1 DEF Rest, RestSame
<1>2. CASE ~(i > n) /\ s[i] = "%" /\ i + 2 <= n
  BY <1>2 DEF Rest, RestSame
<1>3. CASE ~(i > n) /\ ~(s[i] = "%" /\ i + 2 <= n)
  BY <1>3 DEF Rest, RestSame
<1> QED
  BY <1>1, <1>2, <1>3

\* Where one text is another from m on, and what is behind i is alike.
RestShifted(i, m, s, w, f, g) == Rest(i + m, w, g) = Rest(i, s, f)

LEMMA RestShifts ==
  ASSUME NEW n \in Nat, NEW m \in Nat, NEW s, NEW w, Len(s) = n, Len(w) = n + m,
         \A i \in 1 .. n : w[i + m] = s[i],
         NEW i \in 1 .. n + 1, NEW f, NEW g,
         i <= n => g[i + m + 1] = f[i + 1],
         i + 2 <= n => g[i + m + 3] = f[i + 3]
  PROVE  RestShifted(i, m, s, w, f, g)
<1> USE DEF RestShifted
<1>1. CASE i > n
  BY <1>1 DEF Rest
<1>2. CASE ~(i > n)
  <2>1. w[i + m] = s[i] /\ ~(i + m > n + m) /\ g[i + m + 1] = f[i + 1]
    BY <1>2
  <2>2. CASE s[i] = "%" /\ i + 2 <= n
    <3>1. i + 1 \in 1 .. n /\ i + 2 \in 1 .. n /\ (i + 1) + m = i + m + 1 /\ (i + 2) + m = i + m + 2
      BY <2>2
    <3>2. w[i + m + 1] = s[i + 1] /\ w[i + m + 2] = s[i + 2] /\ g[i + m + 3] = f[i + 3]
      BY <2>2, <3>1
    <3>3. (i + m) + 2 <= n + m
      BY <2>2
    <3>4. Rest(i, s, f) = Escaped(s[i + 1], s[i + 2], f[i + 1], f[i + 3])
      BY <1>2, <2>2 DEF Rest
    <3>5. Rest(i + m, w, g) = Escaped(w[i + m + 1], w[i + m + 2], g[i + m + 1], g[i + m + 3])
      BY <2>1, <2>2, <3>3 DEF Rest
    <3> QED
      BY <2>1, <3>2, <3>4, <3>5
  <2>3. CASE ~(s[i] = "%" /\ i + 2 <= n)
    <3>1. ~((i + m) + 2 <= n + m) \/ s[i] # "%"
      BY <2>3
    <3>2. Rest(i, s, f) = <<Spoken(s[i])>> \o f[i + 1]
      BY <1>2, <2>3 DEF Rest
    <3>3. Rest(i + m, w, g) = <<Spoken(w[i + m])>> \o g[i + m + 1]
      BY <2>1, <3>1 DEF Rest
    <3> QED
      BY <2>1, <3>2, <3>3
  <2> QED
    BY <2>2, <2>3
<1> QED
  BY <1>1, <1>2

LEMMA RestsExist ==
  ASSUME NEW A, NEW s \in Seq(A)
  PROVE  \E f : Rests(f, s)
<1>0. PICK n \in Nat : n = Len(s)
  BY LenProperties
<1> DEFINE Upto(f, k) == f = [i \in 1 .. n + 1 |-> IF i > n + 1 - k THEN Rest(i, s, f) ELSE <<>>]
           T == {k \in Nat : k <= n + 1 => \E f : Upto(f, k)}
<1>1. 0 \in T
  <2> DEFINE g == [i \in 1 .. n + 1 |-> <<>>]
  <2>1. g = [i \in 1 .. n + 1 |-> IF i > n + 1 - 0 THEN Rest(i, s, g) ELSE <<>>]
    <3>1. \A i \in 1 .. n + 1 : ~(i > n + 1 - 0)
      OBVIOUS
    <3> QED
      BY <3>1
  <2> HIDE DEF g
  <2>2. Upto(g, 0)
    BY <2>1
  <2> QED
    BY <2>2
<1>2. ASSUME NEW k \in Nat, k \in T PROVE k + 1 \in T
  <2> SUFFICES ASSUME k + 1 <= n + 1 PROVE \E g : Upto(g, k + 1)
    OBVIOUS
  <2>1. k <= n + 1
    OBVIOUS
  <2>2. PICK f : Upto(f, k)
    BY <1>2, <2>1
  <2>3. \A i \in 1 .. n + 1 : f[i] = IF i > n + 1 - k THEN Rest(i, s, f) ELSE <<>>
    <3> DEFINE h == [i \in 1 .. n + 1 |-> IF i > n + 1 - k THEN Rest(i, s, f) ELSE <<>>]
    <3>1. f = h
      BY <2>2
    <3> QED
      BY <3>1, Zenon
  <2> DEFINE g == [i \in 1 .. n + 1 |-> IF i > n + 1 - (k + 1) THEN Rest(i, s, f) ELSE <<>>]
  <2>4. \A i \in 1 .. n + 1 : i > n + 1 - k => g[i] = f[i]
    <3> TAKE i \in 1 .. n + 1
    <3>1. HAVE i > n + 1 - k
    <3>2. i > n + 1 - (k + 1)
      BY <3>1
    <3>3. f[i] = Rest(i, s, f)
      BY <2>3, <3>1
    <3>4. g[i] = Rest(i, s, f)
      BY <3>2
    <3> QED
      BY <3>3, <3>4
  <2>5. ASSUME NEW i \in 1 .. n + 1, i > n + 1 - (k + 1) PROVE Rest(i, s, f) = Rest(i, s, g)
    <3> HIDE DEF g
    <3>1. i <= n => i + 1 \in 1 .. n + 1 /\ i + 1 > n + 1 - k
      BY <2>5
    <3>2. i + 2 <= n => i + 3 \in 1 .. n + 1 /\ i + 3 > n + 1 - k
      BY <2>5
    <3>3. ~(i > n) => g[i + 1] = f[i + 1]
      BY <2>4, <3>1
    <3>4. i + 2 <= n => g[i + 3] = f[i + 3]
      BY <2>4, <3>2
    <3>5. RestSame(i, s, f, g)
      BY <1>0, <3>3, <3>4, RestReads
    <3> QED
      BY <3>5 DEF RestSame
  <2>6. g = [i \in 1 .. n + 1 |-> IF i > n + 1 - (k + 1) THEN Rest(i, s, g) ELSE <<>>]
    BY <2>5
  <2> HIDE DEF g
  <2>7. Upto(g, k + 1)
    BY <2>6
  <2> QED
    BY <2>7
<1> HIDE DEF T
<1>3. \A k \in Nat : k \in T
  BY <1>1, <1>2, Induct
<1>4. n + 1 \in T
  BY <1>3
<1>5. PICK f : Upto(f, n + 1)
  BY <1>4 DEF T
<1>6. f = [i \in 1 .. n + 1 |-> Rest(i, s, f)]
  <2>1. \A i \in 1 .. n + 1 : i > n + 1 - (n + 1)
    OBVIOUS
  <2> QED
    BY <1>5, <2>1
<1> QED
  BY <1>0, <1>6 DEF Rests

\* urlDecode takes one such function.
LEMMA DecodeIs ==
  ASSUME NEW A, NEW s \in Seq(A)
  PROVE  \E f : Rests(f, s) /\ urlDecode(s) = f[1]
<1> DEFINE rest == CHOOSE f : Rests(f, s)
<1>1. Rests(rest, s)
  BY RestsExist
<1>2. urlDecode(s) = rest[1]
  BY Zenon DEF urlDecode, Rests, Rest, Escaped, Spoken
<1> HIDE DEF rest
<1> QED
  BY <1>1, <1>2

\* t ends in s, which begins behind m.
Ends(w, s, m) == Len(w) = Len(s) + m /\ \A i \in 1 .. Len(s) : w[i + m] = s[i]

\* What is decoded behind a place depends on what is behind it.
LEMMA RestsShift ==
  ASSUME NEW A, NEW s \in Seq(A), NEW w \in Seq(A), NEW m \in Nat, Ends(w, s, m),
         NEW f, Rests(f, s), NEW g, Rests(g, w)
  PROVE  \A i \in 1 .. Len(s) + 1 : g[i + m] = f[i]
<1>0. PICK n \in Nat : n = Len(s)
  BY LenProperties
<1>1. Len(w) = n + m /\ \A i \in 1 .. n : w[i + m] = s[i]
  BY <1>0 DEF Ends
<1>2. /\ \A i \in 1 .. n + 1 : f[i] = Rest(i, s, f)
      /\ \A i \in 1 .. n + m + 1 : g[i] = Rest(i, w, g)
  BY <1>0, <1>1, RestsAt DEF RestsEach
<1> DEFINE T == {k \in Nat : \A i \in 1 .. n + 1 : i > n + 1 - k => g[i + m] = f[i]}
<1>3. 0 \in T
  OBVIOUS
<1>4. ASSUME NEW k \in Nat, k \in T PROVE k + 1 \in T
  <2> SUFFICES ASSUME NEW i \in 1 .. n + 1, i > n + 1 - (k + 1) PROVE g[i + m] = f[i]
    OBVIOUS
  <2>1. \A j \in 1 .. n + 1 : j > n + 1 - k => g[j + m] = f[j]
    BY <1>4
  <2>2. i <= n => g[i + m + 1] = f[i + 1]
    <3>1. i <= n => i + 1 \in 1 .. n + 1 /\ i + 1 > n + 1 - k /\ (i + 1) + m = i + m + 1
      OBVIOUS
    <3> QED
      BY <2>1, <3>1
  <2>3. i + 2 <= n => g[i + m + 3] = f[i + 3]
    <3>1. i + 2 <= n => i + 3 \in 1 .. n + 1 /\ i + 3 > n + 1 - k /\ (i + 3) + m = i + m + 3
      OBVIOUS
    <3> QED
      BY <2>1, <3>1
  <2> HIDE DEF T
  <2>4. RestShifted(i, m, s, w, f, g)
    BY <1>0, <1>1, <2>2, <2>3, RestShifts
  <2>5. i + m \in 1 .. n + m + 1
    OBVIOUS
  <2> QED
    BY <1>2, <2>4, <2>5 DEF RestShifted
<1> HIDE DEF T
<1>5. n + 1 \in T
  BY <1>3, <1>4, Induct
<1>6. \A i \in 1 .. n + 1 : i > n + 1 - (n + 1)
  OBVIOUS
<1> QED
  BY <1>0, <1>5, <1>6 DEF T

LEMMA DecodeEnds ==
  ASSUME NEW A, NEW s \in Seq(A), NEW w \in Seq(A), NEW m \in Nat, Ends(w, s, m),
         NEW g, Rests(g, w)
  PROVE  g[m + 1] = urlDecode(s)
<1>1. PICK f : Rests(f, s) /\ urlDecode(s) = f[1]
  BY DecodeIs
<1>2. 1 \in 1 .. Len(s) + 1 /\ 1 + m = m + 1
  BY LenProperties
<1>3. g[1 + m] = f[1]
  BY <1>1, <1>2, RestsShift
<1> QED
  BY <1>1, <1>2, <1>3

LEMMA DecodeNone == urlDecode(<<>>) = <<>>
<1>1. <<>> \in Seq({}) /\ Len(<<>>) = 0
  BY EmptySeq
<1>2. PICK f : Rests(f, <<>>) /\ urlDecode(<<>>) = f[1]
  BY <1>1, DecodeIs
<1>3. f[1] = Rest(1, <<>>, f)
  BY <1>1, <1>2, RestsAt DEF RestsEach
<1>4. Rest(1, <<>>, f) = <<>>
  BY <1>1 DEF Rest
<1> QED
  BY <1>2, <1>3, <1>4

\* A symbol that begins no escape stands for itself, and "+" for a blank.
DecodesTo(w, first, s) == urlDecode(w) = first \o urlDecode(s)

LEMMA DecodeOne ==
  ASSUME NEW A, NEW c \in A, c # "%", NEW s \in Seq(A)
  PROVE  DecodesTo(<<c>> \o s, <<Spoken(c)>>, s)
<1> DEFINE w == <<c>> \o s
<1>0. PICK n \in Nat : n = Len(s)
  BY LenProperties
<1>1. w \in Seq(A) /\ Len(w) = n + 1 /\ w[1] = c /\ \A i \in 1 .. n : w[i + 1] = s[i]
  <2>1. <<c>> \in Seq(A) /\ Len(<<c>>) = 1 /\ <<c>>[1] = c
    BY One
  <2> DEFINE a == <<c>>
  <2> HIDE DEF a
  <2>2. a \o s \in Seq(A) /\ Len(a \o s) = 1 + n /\ (a \o s)[1] = a[1]
        /\ \A i \in 1 .. n : (a \o s)[i + 1] = s[i]
    BY <1>0, <2>1, ConcatProperties DEF a
  <2> QED
    BY <2>1, <2>2 DEF a
<1> HIDE DEF w
<1>2. PICK g : Rests(g, w) /\ urlDecode(w) = g[1]
  BY <1>1, DecodeIs
<1>3. g[1] = Rest(1, w, g)
  BY <1>1, <1>2, RestsAt DEF RestsEach
<1>4. Rest(1, w, g) = <<Spoken(c)>> \o g[2]
  BY <1>1 DEF Rest
<1>5. Ends(w, s, 1)
  BY <1>0, <1>1 DEF Ends
<1>6. g[1 + 1] = urlDecode(s)
  BY <1>1, <1>2, <1>5, DecodeEnds
<1> QED
  BY <1>2, <1>3, <1>4, <1>6 DEF w, DecodesTo

\* Three symbols in front of a text.
LEMMA Three ==
  ASSUME NEW A, NEW x \in A, NEW a \in A, NEW b \in A, NEW s \in Seq(A), NEW n \in Nat, n = Len(s),
         NEW w, w = <<x, a, b>> \o s
  PROVE  /\ w \in Seq(A) /\ Len(w) = n + 3 /\ w[1] = x /\ w[2] = a /\ w[3] = b
         /\ \A i \in 1 .. n : w[i + 3] = s[i]
<1>1. PICK e : e = <<x, a, b>>
  OBVIOUS
<1>2. e \in Seq(A) /\ Len(e) = 3 /\ e[1] = x /\ e[2] = a /\ e[3] = b
  BY <1>1
<1>3. w = e \o s
  BY <1>1
<1>4. /\ w \in Seq(A) /\ Len(w) = Len(e) + Len(s)
      /\ \A i \in 1 .. Len(e) + Len(s) : w[i] = IF i <= Len(e) THEN e[i] ELSE s[i - Len(e)]
  BY <1>2, <1>3, ConcatProperties
<1>5. Len(w) = n + 3 /\ \A i \in 1 .. 3 + n : w[i] = IF i <= 3 THEN e[i] ELSE s[i - 3]
  BY <1>2, <1>4
<1>6. w[1] = e[1] /\ w[2] = e[2] /\ w[3] = e[3]
  BY <1>5
<1>7. \A i \in 1 .. n : w[i + 3] = s[i]
  BY <1>5
<1> QED
  BY <1>2, <1>4, <1>5, <1>6, <1>7

\* An escape that parses stands for its byte.
LEMMA DecodeEscape ==
  ASSUME NEW A, "%" \in A, NEW a \in A, NEW b \in A, NEW v, HexValue(a, b) = {v}, NEW s \in Seq(A)
  PROVE  DecodesTo(<<"%", a, b>> \o s, <<Byte(v)>>, s)
<1>0. PICK n \in Nat : n = Len(s)
  BY LenProperties
<1> DEFINE w == <<"%", a, b>> \o s
           x == "%"
<1>1. w = <<x, a, b>> \o s /\ x \in A
  OBVIOUS
<1> HIDE DEF w, x
<1>2. w \in Seq(A) /\ Len(w) = n + 3 /\ w[1] = x /\ w[2] = a /\ w[3] = b
      /\ \A i \in 1 .. n : w[i + 3] = s[i]
  BY <1>0, <1>1, Three
<1>3. PICK g : Rests(g, w) /\ urlDecode(w) = g[1]
  BY <1>2, DecodeIs
<1>4. g[1] = Rest(1, w, g)
  BY <1>2, <1>3, RestsAt DEF RestsEach
<1>5. Rest(1, w, g) = Escaped(a, b, g[2], g[4])
  BY <1>2 DEF Rest, x
<1>6. Escaped(a, b, g[2], g[4]) = <<Byte(v)>> \o g[4]
  <2>1. (CHOOSE y \in {v} : TRUE) = v /\ {v} # {}
    OBVIOUS
  <2>2. HexValue(a, b) = {v}
    OBVIOUS
  <2> QED
    BY <2>1, <2>2, Zenon DEF Escaped
<1>7. Ends(w, s, 3)
  BY <1>0, <1>2 DEF Ends
<1>8. g[3 + 1] = urlDecode(s)
  BY <1>2, <1>3, <1>7, DecodeEnds
<1>9. g[4] = urlDecode(s)
  BY <1>8
<1>10. DecodesTo(w, <<Byte(v)>>, s)
  BY <1>3, <1>4, <1>5, <1>6, <1>9 DEF DecodesTo
<1> QED
  BY <1>10 DEF w

-----------------------------------------------------------------------------
(* Escapes, as a client writes them.                                       *)

\* Every member of the domain has its pair in the table.
LEMMA LookupHas ==
  ASSUME NEW table, NEW c \in DOMAIN Lookup(table)
  PROVE  \E p \in table : p[1] = c /\ Lookup(table)[c] = p[2]
<1>1. c \in {pair[1] : pair \in table}
  BY Zenon DEF Lookup
<1> DEFINE q == CHOOSE pair \in table : pair[1] = c
<1>2. q \in table /\ q[1] = c
  BY <1>1
<1>3. Lookup(table)[c] = q[2]
  BY <1>1, Zenon DEF Lookup
<1> HIDE DEF q
<1> QED
  BY <1>2, <1>3

-----------------------------------------------------------------------------
(* find.                                                                   *)

\* t stands in s at i.
At(s, t, i) == \A k \in 1 .. Len(t) : s[i + k - 1] = t[k]

LEMMA AtIs ==
  ASSUME NEW A, NEW s \in Seq(A), NEW t \in Seq(A), NEW i \in 1 .. (Len(s) - Len(t) + 1)
  PROVE  SubSeq(s, i, i + Len(t) - 1) = t <=> At(s, t, i)
<1>0. PICK m \in Nat, n \in Nat : m = Len(s) /\ n = Len(t)
  BY LenProperties
<1>1. i \in 1 .. m - n + 1
  BY <1>0
<1> DEFINE j == i + n - 1
           u == SubSeq(s, i, j)
<1>2. i \in 1 .. m + 1 /\ j \in i - 1 .. m /\ j - i + 1 = n
  BY <1>0, <1>1
<1> HIDE DEF j
<1>3. u \in Seq(A) /\ Len(u) = j - i + 1 /\ \A k \in 1 .. j - i + 1 : u[k] = s[i + k - 1]
  BY <1>0, <1>2, SubSeqProperties
<1> HIDE DEF u
<1>4. Len(u) = n /\ \A k \in 1 .. n : u[k] = s[i + k - 1]
  BY <1>2, <1>3
<1>5. ASSUME At(s, t, i) PROVE u = t
  <2>1. \A k \in 1 .. n : s[i + k - 1] = t[k]
    BY <1>0, <1>5 DEF At
  <2> QED
    BY <1>0, <1>3, <1>4, <2>1, SeqEqual
<1>6. ASSUME u = t PROVE At(s, t, i)
  BY <1>0, <1>4, <1>6 DEF At
<1>7. u = SubSeq(s, i, i + Len(t) - 1)
  BY <1>0 DEF u, j
<1> QED
  BY <1>5, <1>6, <1>7

Places(s, t, from) == {i \in from .. (Len(s) - Len(t) + 1) : SubSeq(s, i, i + Len(t) - 1) = t}

LEMMA FindIs ==
  ASSUME NEW s, NEW t, NEW from
  PROVE  find(s, t, from) = IF Places(s, t, from) = {} THEN 0 ELSE Min(Places(s, t, from))
BY Zenon DEF find, Places

LEMMA PlaceIs ==
  ASSUME NEW A, NEW s \in Seq(A), NEW t \in Seq(A), NEW from \in Nat \ {0}, NEW i
  PROVE  i \in Places(s, t, from) <=> i \in from .. (Len(s) - Len(t) + 1) /\ At(s, t, i)
<1>0. PICK m \in Nat, n \in Nat : m = Len(s) /\ n = Len(t)
  BY LenProperties
<1>1. i \in from .. (m - n + 1) => i \in 1 .. (m - n + 1)
  OBVIOUS
<1>2. i \in Places(s, t, from) <=>
        i \in from .. (Len(s) - Len(t) + 1) /\ SubSeq(s, i, i + Len(t) - 1) = t
  BY Zenon DEF Places
<1> QED
  BY <1>0, <1>1, <1>2, AtIs

LEMMA FindFirst ==
  ASSUME NEW A, NEW s \in Seq(A), NEW t \in Seq(A), NEW from \in Nat \ {0},
         NEW p \in from .. (Len(s) - Len(t) + 1), At(s, t, p), \A i \in from .. p - 1 : ~At(s, t, i)
  PROVE  find(s, t, from) = p
<1> DEFINE P == Places(s, t, from)
<1>0. PICK m \in Nat, n \in Nat : m = Len(s) /\ n = Len(t)
  BY LenProperties
<1>1. p \in P
  BY PlaceIs
<1>2. \A i \in P : i \in from .. m - n + 1 /\ At(s, t, i)
  BY <1>0, PlaceIs
<1> HIDE DEF P
<1>3. P \subseteq Nat /\ P # {}
  BY <1>1, <1>2
<1>4. Min(P) \in P /\ \A x \in P : Min(P) <= x
  BY <1>3, Smallest
<1>5. Min(P) \in Nat /\ Min(P) <= p /\ from <= Min(P) /\ p \in Nat /\ At(s, t, Min(P))
  <2> DEFINE k == Min(P)
  <2>1. k \in P /\ k <= p
    BY <1>1, <1>4
  <2> HIDE DEF k
  <2>2. k \in from .. m - n + 1 /\ At(s, t, k) /\ p \in from .. m - n + 1
    BY <1>0, <1>2, <2>1
  <2>3. k \in Nat /\ k <= p /\ from <= k /\ p \in Nat
    BY <2>1, <2>2
  <2> QED
    BY <2>2, <2>3 DEF k
<1>6. ~(Min(P) <= p - 1)
  BY <1>5
<1>7. Min(P) = p
  BY <1>5, <1>6
<1> QED
  BY <1>3, <1>7, FindIs DEF P

LEMMA FindNone ==
  ASSUME NEW A, NEW s \in Seq(A), NEW t \in Seq(A), NEW from \in Nat \ {0},
         \A i \in from .. (Len(s) - Len(t) + 1) : ~At(s, t, i)
  PROVE  find(s, t, from) = 0
<1> DEFINE P == Places(s, t, from)
<1>1. \A i \in P : i \in from .. (Len(s) - Len(t) + 1) /\ At(s, t, i)
  BY PlaceIs
<1> HIDE DEF P
<1>2. P = {}
  BY <1>1
<1> QED
  BY <1>2, FindIs DEF P

LEMMA AtOne ==
  ASSUME NEW s, NEW a, NEW i \in Nat
  PROVE  At(s, <<a>>, i) <=> s[i] = a
<1> DEFINE t == <<a>>
<1>1. Len(t) = 1 /\ t[1] = a
  OBVIOUS
<1> HIDE DEF t
<1>2. 1 .. 1 = {1} /\ i + 1 - 1 = i
  OBVIOUS
<1>3. At(s, t, i) <=> s[i] = a
  BY <1>1, <1>2 DEF At
<1> QED
  BY <1>3 DEF t

LEMMA AtTwo ==
  ASSUME NEW s, NEW a, NEW b, NEW i \in Nat
  PROVE  At(s, <<a, b>>, i) <=> s[i] = a /\ s[i + 1] = b
<1> DEFINE t == <<a, b>>
<1>1. Len(t) = 2 /\ t[1] = a /\ t[2] = b
  OBVIOUS
<1> HIDE DEF t
<1>2. 1 .. 2 = {1, 2} /\ i + 1 - 1 = i /\ i + 2 - 1 = i + 1
  OBVIOUS
<1>3. At(s, t, i) <=> s[i] = a /\ s[i + 1] = b
  BY <1>1, <1>2 DEF At
<1> QED
  BY <1>3 DEF t

LEMMA AtThree ==
  ASSUME NEW s, NEW a, NEW b, NEW c, NEW i \in Nat
  PROVE  At(s, <<a, b, c>>, i) <=> s[i] = a /\ s[i + 1] = b /\ s[i + 2] = c
<1> DEFINE t == <<a, b, c>>
<1>1. Len(t) = 3 /\ t[1] = a /\ t[2] = b /\ t[3] = c
  OBVIOUS
<1> HIDE DEF t
<1>2. 1 .. 3 = {1, 2, 3} /\ i + 1 - 1 = i /\ i + 2 - 1 = i + 1 /\ i + 3 - 1 = i + 2
  OBVIOUS
<1>3. At(s, t, i) <=> s[i] = a /\ s[i + 1] = b /\ s[i + 2] = c
  BY <1>1, <1>2 DEF At
<1> QED
  BY <1>3 DEF t

-----------------------------------------------------------------------------
(* Headers: the separators, and where a name is found.                     *)

Colon == ":"

Blank == " "

LEMMA SeparatorsDiffer == Colon # Blank /\ Colon # CRLF /\ Blank # CRLF
BY Zenon DEF Colon, Blank, CRLF

\* Neither a capital nor the small form of one.
Fixed(c) == c # Colon /\ c # Blank /\ c # CRLF

LEMMA SmallFixed == \A c \in DOMAIN Small : Fixed(c) /\ Fixed(Small[c])
<1>1. ASSUME NEW pair \in Capitals PROVE Fixed(pair[1]) /\ Fixed(pair[2])
  <2>1. \/ pair[1] = "A" \/ pair[1] = "B" \/ pair[1] = "C" \/ pair[1] = "X-" \/ pair[1] = "Host"
        \/ pair[1] = "Cookie" \/ pair[1] = "Connection" \/ pair[1] = "Content-Length"
        \/ pair[1] = "Close" \/ pair[1] = "Content-Type"
    BY DEF Capitals
  <2>2. \/ pair[2] = "a" \/ pair[2] = "b" \/ pair[2] = "c" \/ pair[2] = "x-" \/ pair[2] = "host"
        \/ pair[2] = "cookie" \/ pair[2] = "connection" \/ pair[2] = "content-length"
        \/ pair[2] = "close" \/ pair[2] = "content-type"
    BY DEF Capitals
  <2> QED
    BY <2>1, <2>2, Zenon DEF Fixed, Colon, Blank, CRLF
<1>2. ASSUME NEW c \in DOMAIN Small PROVE \E pair \in Capitals : pair[1] = c /\ Small[c] = pair[2]
  BY LookupHas DEF Small
<1> QED
  BY <1>1, <1>2

LEMMA LoweredFixed ==
  /\ \A c : Lowered(c) = Colon <=> c = Colon
  /\ \A c : Lowered(c) = Blank <=> c = Blank
  /\ \A c : Lowered(c) = CRLF <=> c = CRLF
BY SmallFixed DEF Lowered, Fixed

\* w is how toLower writes x, and no other name.
Spelled(x, w) == (\A c : Lowered(c) = w <=> c = x \/ c = w) /\ Fixed(w)

\* At i stand the name whose small form is w, and ": ".
Mark(s, w, i) == i + 2 <= Len(s) /\ Lowered(s[i]) = w /\ s[i + 1] = Colon /\ s[i + 2] = Blank

Unmarked(s, w) == \A i \in 1 .. Len(s) : ~Mark(s, w, i)

\* From p on s reads: the name, ": ", v and the end of the line; nowhere before p is there a mark.
Reads(s, w, v, p) ==
  /\ Mark(s, w, p) /\ \A i \in 1 .. p - 1 : ~Mark(s, w, i)
  /\ p + 3 + Len(v) <= Len(s)
  /\ \A j \in 1 .. Len(v) : s[p + 2 + j] = v[j]
  /\ s[p + 3 + Len(v)] = CRLF

-----------------------------------------------------------------------------
(* Heads: lines that end, one after the other.                             *)

\* A text of whole lines, none of them blank.
Ended(s) ==
  /\ Len(s) # 0 /\ s[1] # CRLF /\ s[Len(s)] = CRLF
  /\ \A i \in 1 .. Len(s) - 1 : ~(s[i] = CRLF /\ s[i + 1] = CRLF)

\* What can be a header: a name with no ':', and a value in one line.
HeaderOf(A) == [name : Seq(A \ {CRLF, Colon}) \ {<<>>}, value : Seq(A \ {CRLF})]

HeaderLine(h) == h.name \o <<":", " ">> \o h.value \o <<CRLF>>

\* What stands where in the line of a header.
LineShape(s, h) ==
  LET n == Len(h.name)
      m == Len(h.value)
  IN  /\ Len(s) = n + m + 3
      /\ \A i \in 1 .. n : s[i] = h.name[i]
      /\ s[n + 1] = Colon /\ s[n + 2] = Blank
      /\ \A j \in 1 .. m : s[n + 2 + j] = h.value[j]
      /\ s[n + m + 3] = CRLF

\* The members of s followed by t.
Joins(u, s, t) ==
  /\ Len(u) = Len(s) + Len(t)
  /\ \A i \in 1 .. Len(s) : u[i] = s[i]
  /\ \A j \in 1 .. Len(t) : u[Len(s) + j] = t[j]

LEMMA JoinsConcat ==
  ASSUME NEW A, NEW s \in Seq(A), NEW t \in Seq(A)
  PROVE  s \o t \in Seq(A) /\ Joins(s \o t, s, t)
<1> DEFINE u == s \o t
<1>0. PICK m \in Nat, n \in Nat : m = Len(s) /\ n = Len(t)
  BY LenProperties
<1>1. /\ u \in Seq(A) /\ Len(u) = Len(s) + Len(t)
      /\ \A i \in 1 .. Len(s) + Len(t) : u[i] = IF i <= Len(s) THEN s[i] ELSE t[i - Len(s)]
  BY ConcatProperties
<1> HIDE DEF u
<1>2. \A i \in 1 .. m : u[i] = s[i]
  BY <1>0, <1>1
<1>3. \A j \in 1 .. n : u[m + j] = t[j]
  <2> TAKE j \in 1 .. n
  <2>1. m + j \in 1 .. m + n /\ ~(m + j <= m) /\ (m + j) - m = j
    OBVIOUS
  <2> QED
    BY <1>0, <1>1, <2>1
<1> QED
  BY <1>0, <1>1, <1>2, <1>3 DEF Joins, u

\* A text of n and one of m more symbols: any place is in one or the other.
LEMMA EitherPart ==
  ASSUME NEW m \in Nat, NEW n \in Nat, NEW i \in 1 .. m + n
  PROVE  i \in 1 .. m \/ \E j \in 1 .. n : i = m + j
<1> SUFFICES ASSUME ~(i <= m) PROVE \E j \in 1 .. n : i = m + j
  OBVIOUS
<1>1. i - m \in 1 .. n /\ i = m + (i - m)
  OBVIOUS
<1> QED
  BY <1>1

LEMMA LineIs ==
  ASSUME NEW A, Colon \in A, Blank \in A, CRLF \in A, NEW h \in HeaderOf(A)
  PROVE  HeaderLine(h) \in Seq(A) /\ LineShape(HeaderLine(h), h)
<1> DEFINE a == h.name
           c == h.value
           b == <<Colon, Blank>>
           d == <<CRLF>>
           u == a \o b
           v == u \o c
           s == v \o d
<1>1. a \in Seq(A \ {CRLF, Colon}) /\ c \in Seq(A \ {CRLF})
  BY DEF HeaderOf
<1>2. a \in Seq(A) /\ c \in Seq(A)
  <2>1. A \ {CRLF, Colon} \subseteq A /\ A \ {CRLF} \subseteq A
    OBVIOUS
  <2> QED
    BY <1>1, <2>1, SeqMonotonic
<1>3. b \in Seq(A) /\ Len(b) = 2 /\ b[1] = Colon /\ b[2] = Blank
  OBVIOUS
<1>4. d \in Seq(A) /\ Len(d) = 1 /\ d[1] = CRLF
  OBVIOUS
<1>5. HeaderLine(h) = s
  BY Zenon DEF HeaderLine, Colon, Blank
<1>6. PICK n \in Nat, m \in Nat : n = Len(a) /\ m = Len(c)
  BY <1>2, LenProperties
<1> HIDE DEF a, b, c, d
<1>7. u \in Seq(A) /\ Joins(u, a, b)
  BY <1>2, <1>3, JoinsConcat
<1>8. /\ u \in Seq(A) /\ Len(u) = n + 2 /\ \A i \in 1 .. n : u[i] = a[i]
      /\ u[n + 1] = Colon /\ u[n + 2] = Blank
  BY <1>3, <1>6, <1>7 DEF Joins
<1> HIDE DEF u
<1>9. v \in Seq(A) /\ Joins(v, u, c)
  BY <1>2, <1>8, JoinsConcat
<1>10. /\ v \in Seq(A) /\ Len(v) = n + 2 + m /\ \A i \in 1 .. n + 2 : v[i] = u[i]
       /\ \A j \in 1 .. m : v[n + 2 + j] = c[j]
  BY <1>6, <1>8, <1>9 DEF Joins
<1> HIDE DEF v
<1>11. s \in Seq(A) /\ Joins(s, v, d)
  BY <1>4, <1>10, JoinsConcat
<1>12. /\ s \in Seq(A) /\ Len(s) = n + m + 3 /\ \A i \in 1 .. n + 2 + m : s[i] = v[i]
       /\ s[n + m + 3] = CRLF
  <2>1. Len(v) + 1 = n + m + 3 /\ Len(v) = n + 2 + m /\ 1 \in 1 .. Len(d)
    BY <1>4, <1>10
  <2> QED
    BY <1>4, <1>10, <1>11, <2>1 DEF Joins
<1> HIDE DEF s
<1>13. \A i \in 1 .. n : s[i] = a[i]
  BY <1>8, <1>10, <1>12
<1>14. s[n + 1] = Colon /\ s[n + 2] = Blank
  <2>1. n + 1 \in 1 .. n + 2 /\ n + 2 \in 1 .. n + 2 /\ n + 1 \in 1 .. n + 2 + m /\ n + 2 \in 1 .. n + 2 + m
    OBVIOUS
  <2> QED
    BY <1>8, <1>10, <1>12, <2>1
<1>15. \A j \in 1 .. m : s[n + 2 + j] = c[j]
  <2>1. \A j \in 1 .. m : n + 2 + j \in 1 .. n + 2 + m
    OBVIOUS
  <2> QED
    BY <1>10, <1>12, <2>1
<1>16. LineShape(s, h)
  <2>1. n = Len(h.name) /\ m = Len(h.value) /\ a = h.name /\ c = h.value
    BY <1>6 DEF a, c
  <2> QED
    BY <1>12, <1>13, <1>14, <1>15, <2>1 DEF LineShape
<1> QED
  BY <1>5, <1>12, <1>16

\* No symbol of a header is CRLF, and none of its name is ':'.
LEMMA HeaderParts ==
  ASSUME NEW A, NEW h \in HeaderOf(A)
  PROVE  /\ Len(h.name) \in Nat \ {0} /\ Len(h.value) \in Nat
         /\ \A i \in 1 .. Len(h.name) : h.name[i] # CRLF /\ h.name[i] # Colon
         /\ \A j \in 1 .. Len(h.value) : h.value[j] # CRLF
<1> DEFINE a == h.name
           c == h.value
<1>1. a \in Seq(A \ {CRLF, Colon}) /\ a # <<>> /\ c \in Seq(A \ {CRLF})
  BY DEF HeaderOf
<1> HIDE DEF a, c
<1>2. Len(a) \in Nat /\ Len(a) # 0 /\ Len(c) \in Nat
  BY <1>1, LenProperties, EmptySeq
<1>3. \A i \in 1 .. Len(a) : a[i] \in A \ {CRLF, Colon}
  BY <1>1, ElementOfSeq
<1>4. \A j \in 1 .. Len(c) : c[j] \in A \ {CRLF}
  BY <1>1, ElementOfSeq
<1> QED
  BY <1>2, <1>3, <1>4 DEF a, c

LEMMA LineEnded ==
  ASSUME NEW A, NEW h \in HeaderOf(A), NEW s, LineShape(s, h)
  PROVE  Ended(s)
<1> DEFINE a == h.name
           c == h.value
<1>1. PICK n \in Nat \ {0}, m \in Nat : n = Len(a) /\ m = Len(c)
  BY HeaderParts
<1>2. (\A i \in 1 .. n : a[i] # CRLF) /\ (\A j \in 1 .. m : c[j] # CRLF)
  BY <1>1, HeaderParts
<1>3. /\ Len(s) = n + m + 3
      /\ \A i \in 1 .. n : s[i] = a[i]
      /\ s[n + 1] = Colon /\ s[n + 2] = Blank
      /\ \A j \in 1 .. m : s[n + 2 + j] = c[j]
      /\ s[n + m + 3] = CRLF
  BY <1>1 DEF LineShape
<1> HIDE DEF a, c
<1>4. \A i \in 1 .. n + m + 2 : s[i] # CRLF
  <2> TAKE i \in 1 .. n + m + 2
  <2>1. CASE i <= n
    BY <1>2, <1>3, <2>1
  <2>2. CASE i = n + 1 \/ i = n + 2
    BY <1>3, <2>2, SeparatorsDiffer
  <2>3. CASE i > n + 2
    <3>1. PICK j \in 1 .. m : i = n + 2 + j
      <4>1. i - n - 2 \in 1 .. m /\ i = n + 2 + (i - n - 2)
        BY <2>3
      <4> QED
        BY <4>1
    <3> QED
      BY <1>2, <1>3, <3>1
  <2> QED
    BY <2>1, <2>2, <2>3
<1>5. s[1] # CRLF /\ Len(s) # 0 /\ s[Len(s)] = CRLF
  BY <1>3, <1>4
<1>6. \A i \in 1 .. Len(s) - 1 : s[i] # CRLF
  BY <1>3, <1>4
<1> QED
  BY <1>5, <1>6 DEF Ended

LEMMA EndedJoins ==
  ASSUME NEW A, NEW s \in Seq(A), NEW t \in Seq(A), Ended(s), Ended(t), NEW u, Joins(u, s, t)
  PROVE  Ended(u)
<1>0. PICK m \in Nat, n \in Nat : m = Len(s) /\ n = Len(t)
  BY LenProperties
<1>1. /\ m # 0 /\ s[1] # CRLF /\ s[m] = CRLF
      /\ \A i \in 1 .. m - 1 : ~(s[i] = CRLF /\ s[i + 1] = CRLF)
  BY <1>0 DEF Ended
<1>2. /\ n # 0 /\ t[1] # CRLF /\ t[n] = CRLF
      /\ \A i \in 1 .. n - 1 : ~(t[i] = CRLF /\ t[i + 1] = CRLF)
  BY <1>0 DEF Ended
<1>3. /\ Len(u) = m + n
      /\ \A i \in 1 .. m : u[i] = s[i]
      /\ \A j \in 1 .. n : u[m + j] = t[j]
  BY <1>0 DEF Joins
<1>4. Len(u) # 0 /\ u[1] # CRLF /\ u[Len(u)] = CRLF
  <2>1. 1 \in 1 .. m /\ n \in 1 .. n /\ m + n # 0
    BY <1>1, <1>2
  <2> QED
    BY <1>1, <1>2, <1>3, <2>1
<1>5. ASSUME NEW i \in 1 .. m + n - 1 PROVE ~(u[i] = CRLF /\ u[i + 1] = CRLF)
  <2>1. CASE i < m
    <3>1. i \in 1 .. m - 1 /\ i \in 1 .. m /\ i + 1 \in 1 .. m
      BY <2>1
    <3> QED
      BY <1>1, <1>3, <3>1
  <2>2. CASE i = m
    <3>1. 1 \in 1 .. n /\ i + 1 = m + 1
      BY <1>2, <2>2
    <3> QED
      BY <1>2, <1>3, <3>1
  <2>3. CASE i > m
    <3>1. PICK j \in 1 .. n - 1 : i = m + j
      <4>1. i - m \in 1 .. n - 1 /\ i = m + (i - m)
        BY <2>3
      <4> QED
        BY <4>1
    <3>2. j \in 1 .. n /\ j + 1 \in 1 .. n /\ i + 1 = m + (j + 1)
      BY <3>1
    <3>3. u[i] = t[j] /\ u[i + 1] = t[j + 1]
      BY <1>3, <3>1, <3>2
    <3> QED
      BY <1>2, <3>3
  <2> QED
    BY <2>1, <2>2, <2>3
<1> QED
  BY <1>3, <1>4, <1>5 DEF Ended

-----------------------------------------------------------------------------
(* Marks in heads.                                                         *)

\* What ends in a line end hides no mark across its end.
LEMMA MarkJoins ==
  ASSUME NEW A, NEW s \in Seq(A), NEW t \in Seq(A), Len(s) # 0, s[Len(s)] = CRLF,
         NEW u, Joins(u, s, t), NEW w, Fixed(w)
  PROVE  /\ \A i \in 1 .. Len(s) : Mark(u, w, i) <=> Mark(s, w, i)
         /\ \A j \in 1 .. Len(t) : Mark(u, w, Len(s) + j) <=> Mark(t, w, j)
<1>0. PICK m \in Nat, n \in Nat : m = Len(s) /\ n = Len(t)
  BY LenProperties
<1>1. /\ Len(u) = m + n
      /\ \A i \in 1 .. m : u[i] = s[i]
      /\ \A j \in 1 .. n : u[m + j] = t[j]
  BY <1>0 DEF Joins
<1>2. m # 0 /\ u[m] = CRLF
  <2>1. m # 0 /\ m \in 1 .. m
    BY <1>0
  <2> QED
    BY <1>0, <1>1, <2>1
<1>3. ASSUME NEW i \in 1 .. m PROVE Mark(u, w, i) <=> Mark(s, w, i)
  <2>1. CASE i + 2 <= m
    <3>1. i + 1 \in 1 .. m /\ i + 2 \in 1 .. m /\ i + 2 <= m + n
      BY <2>1
    <3>2. u[i] = s[i] /\ u[i + 1] = s[i + 1] /\ u[i + 2] = s[i + 2]
      BY <1>1, <3>1
    <3> QED
      BY <1>0, <1>1, <2>1, <3>1, <3>2 DEF Mark
  <2>2. CASE i + 2 = m + 1
    <3>1. i + 1 = m /\ ~(i + 2 <= m)
      BY <2>2
    <3>2. ~Mark(u, w, i)
      BY <1>2, <3>1, SeparatorsDiffer DEF Mark
    <3> QED
      BY <1>0, <3>1, <3>2 DEF Mark
  <2>3. CASE i = m
    <3>1. ~(i + 2 <= m)
      BY <2>3
    <3>2. Lowered(CRLF) = CRLF /\ w # CRLF
      BY LoweredFixed DEF Fixed
    <3>3. ~Mark(u, w, i)
      BY <1>2, <2>3, <3>2 DEF Mark
    <3> QED
      BY <1>0, <3>1, <3>3 DEF Mark
  <2> QED
    BY <2>1, <2>2, <2>3
<1>4. ASSUME NEW j \in 1 .. n PROVE Mark(u, w, m + j) <=> Mark(t, w, j)
  <2>1. (m + j) + 2 <= m + n <=> j + 2 <= n
    OBVIOUS
  <2>2. (m + j) + 1 = m + (j + 1) /\ (m + j) + 2 = m + (j + 2)
    OBVIOUS
  <2>3. CASE j + 2 <= n
    <3>1. j + 1 \in 1 .. n /\ j + 2 \in 1 .. n
      BY <2>3
    <3>2. u[m + j] = t[j] /\ u[(m + j) + 1] = t[j + 1] /\ u[(m + j) + 2] = t[j + 2]
      BY <1>1, <2>2, <3>1
    <3> QED
      BY <1>0, <1>1, <2>1, <3>2 DEF Mark
  <2>4. CASE ~(j + 2 <= n)
    BY <1>0, <1>1, <2>1, <2>4 DEF Mark
  <2> QED
    BY <2>3, <2>4
<1> QED
  BY <1>0, <1>3, <1>4

LEMMA UnmarkedJoins ==
  ASSUME NEW A, NEW s \in Seq(A), NEW t \in Seq(A), Len(s) # 0, s[Len(s)] = CRLF,
         NEW u, Joins(u, s, t), NEW w, Fixed(w), Unmarked(s, w), Unmarked(t, w)
  PROVE  Unmarked(u, w)
<1>0. PICK m \in Nat, n \in Nat : m = Len(s) /\ n = Len(t) /\ Len(u) = m + n
  BY LenProperties DEF Joins
<1>1. (\A i \in 1 .. m : ~Mark(u, w, i)) /\ (\A j \in 1 .. n : ~Mark(u, w, m + j))
  BY <1>0, MarkJoins DEF Unmarked
<1> SUFFICES ASSUME NEW i \in 1 .. Len(u) PROVE ~Mark(u, w, i)
  BY DEF Unmarked
<1>2. i \in 1 .. m \/ \E j \in 1 .. n : i = m + j
  <2>1. i \in 1 .. m + n
    BY <1>0
  <2> QED
    BY <2>1, EitherPart
<1> QED
  BY <1>1, <1>2

\* What is read in the first part is read in the whole.
LEMMA ReadsJoins ==
  ASSUME NEW A, NEW s \in Seq(A), NEW t \in Seq(A), Len(s) # 0, s[Len(s)] = CRLF,
         NEW u, Joins(u, s, t), NEW w, Fixed(w), NEW v \in Seq(A), NEW p \in Nat \ {0}, Reads(s, w, v, p)
  PROVE  Reads(u, w, v, p)
<1>0. PICK m \in Nat, n \in Nat, k \in Nat : m = Len(s) /\ n = Len(t) /\ k = Len(v)
  BY LenProperties
<1>1. /\ Len(u) = m + n
      /\ \A i \in 1 .. m : u[i] = s[i]
  BY <1>0 DEF Joins
<1>2. /\ Mark(s, w, p) /\ \A i \in 1 .. p - 1 : ~Mark(s, w, i)
      /\ p + 3 + k <= m
      /\ \A j \in 1 .. k : s[p + 2 + j] = v[j]
      /\ s[p + 3 + k] = CRLF
  BY <1>0 DEF Reads
<1>3. p \in 1 .. m /\ \A i \in 1 .. p - 1 : i \in 1 .. m
  BY <1>2
<1>4. Mark(u, w, p) /\ \A i \in 1 .. p - 1 : ~Mark(u, w, i)
  BY <1>0, <1>2, <1>3, MarkJoins
<1>5. p + 3 + k \in 1 .. m /\ \A j \in 1 .. k : p + 2 + j \in 1 .. m
  BY <1>2
<1>6. u[p + 3 + k] = CRLF /\ \A j \in 1 .. k : u[p + 2 + j] = v[j]
  BY <1>1, <1>2, <1>5
<1>7. p + 3 + k <= m + n
  BY <1>2
<1> QED
  BY <1>0, <1>1, <1>4, <1>6, <1>7 DEF Reads

\* What is read in the second part is read in the whole, if there is no mark in the first.
LEMMA ReadsBehind ==
  ASSUME NEW A, NEW s \in Seq(A), NEW t \in Seq(A), Len(s) # 0, s[Len(s)] = CRLF,
         NEW u, Joins(u, s, t), NEW w, Fixed(w), Unmarked(s, w),
         NEW v \in Seq(A), NEW p \in Nat \ {0}, Reads(t, w, v, p)
  PROVE  Reads(u, w, v, Len(s) + p)
<1>0. PICK m \in Nat, n \in Nat, k \in Nat : m = Len(s) /\ n = Len(t) /\ k = Len(v)
  BY LenProperties
<1>1. /\ Len(u) = m + n
      /\ \A j \in 1 .. n : u[m + j] = t[j]
  BY <1>0 DEF Joins
<1>2. /\ Mark(t, w, p) /\ \A i \in 1 .. p - 1 : ~Mark(t, w, i)
      /\ p + 3 + k <= n
      /\ \A j \in 1 .. k : t[p + 2 + j] = v[j]
      /\ t[p + 3 + k] = CRLF
  BY <1>0 DEF Reads
<1>3. p \in 1 .. n /\ \A i \in 1 .. p - 1 : i \in 1 .. n
  BY <1>2
<1>4. /\ \A i \in 1 .. m : ~Mark(u, w, i)
      /\ \A j \in 1 .. n : Mark(u, w, m + j) <=> Mark(t, w, j)
  BY <1>0, MarkJoins DEF Unmarked
<1>5. \A i \in 1 .. (m + p) - 1 : ~Mark(u, w, i)
  <2> TAKE i \in 1 .. (m + p) - 1
  <2>1. i \in 1 .. m \/ \E j \in 1 .. p - 1 : i = m + j
    <3>1. (m + p) - 1 = m + (p - 1) /\ p - 1 \in Nat
      OBVIOUS
    <3> DEFINE q == p - 1
    <3>2. q \in Nat /\ i \in 1 .. m + q
      BY <3>1
    <3> HIDE DEF q
    <3>3. i \in 1 .. m \/ \E j \in 1 .. q : i = m + j
      BY <3>2, EitherPart
    <3> QED
      BY <3>3 DEF q
  <2> QED
    BY <1>2, <1>3, <1>4, <2>1
<1>6. Mark(u, w, m + p)
  BY <1>2, <1>3, <1>4
<1>7. (m + p) + 3 + k = m + (p + 3 + k) /\ \A j \in 1 .. k : (m + p) + 2 + j = m + (p + 2 + j)
  OBVIOUS
<1>8. p + 3 + k \in 1 .. n /\ \A j \in 1 .. k : p + 2 + j \in 1 .. n
  BY <1>2
<1>9. u[(m + p) + 3 + k] = CRLF
  BY <1>1, <1>2, <1>7, <1>8
<1>10. \A j \in 1 .. k : u[(m + p) + 2 + j] = v[j]
  <2> TAKE j \in 1 .. k
  <2>1. (m + p) + 2 + j = m + (p + 2 + j) /\ p + 2 + j \in 1 .. n
    BY <1>8
  <2> QED
    BY <1>1, <1>2, <2>1
<1>11. (m + p) + 3 + k <= m + n
  BY <1>2
<1> QED
  BY <1>0, <1>1, <1>5, <1>6, <1>9, <1>10, <1>11 DEF Reads

\* The only mark in a header's line is at the end of its name.
LEMMA LineMarks ==
  ASSUME NEW A, NEW h \in HeaderOf(A), NEW s, LineShape(s, h),
         NEW w, Fixed(w), Unmarked(h.value, w)
  PROVE  \A i \in 1 .. Len(s) : Mark(s, w, i) <=> i = Len(h.name) /\ Lowered(h.name[Len(h.name)]) = w
<1> DEFINE a == h.name
           c == h.value
<1>1. PICK n \in Nat \ {0}, m \in Nat : n = Len(a) /\ m = Len(c)
  BY HeaderParts
<1>2. (\A i \in 1 .. n : a[i] # CRLF /\ a[i] # Colon) /\ (\A j \in 1 .. m : c[j] # CRLF)
  BY <1>1, HeaderParts
<1>3. /\ Len(s) = n + m + 3
      /\ \A i \in 1 .. n : s[i] = a[i]
      /\ s[n + 1] = Colon /\ s[n + 2] = Blank
      /\ \A j \in 1 .. m : s[n + 2 + j] = c[j]
      /\ s[n + m + 3] = CRLF
  BY <1>1 DEF LineShape
<1>4. \A j \in 1 .. m : ~Mark(c, w, j)
  BY <1>1 DEF Unmarked
<1>5. /\ Lowered(Colon) = Colon /\ Lowered(Blank) = Blank /\ Lowered(CRLF) = CRLF
      /\ w # Colon /\ w # Blank /\ w # CRLF
  BY LoweredFixed DEF Fixed
<1> HIDE DEF a, c
<1>6. ASSUME NEW i \in 1 .. n + m + 3 PROVE Mark(s, w, i) <=> i = n /\ Lowered(a[n]) = w
  <2>1. CASE i < n
    <3>1. i + 1 \in 1 .. n /\ i # n
      BY <2>1
    <3> QED
      BY <1>2, <1>3, <3>1 DEF Mark
  <2>2. CASE i = n
    <3>1. i \in 1 .. n /\ i + 1 = n + 1 /\ i + 2 = n + 2 /\ i + 2 <= n + m + 3
      BY <2>2
    <3> QED
      BY <1>3, <2>2, <3>1 DEF Mark
  <2>3. CASE i = n + 1 \/ i = n + 2
    <3>1. i # n
      BY <2>3
    <3> QED
      BY <1>3, <1>5, <2>3, <3>1 DEF Mark
  <2>4. CASE i > n + 2
    <3>1. i # n
      BY <2>4
    <3>2. CASE i = n + m + 3
      BY <1>3, <1>5, <3>1, <3>2 DEF Mark
    <3>3. CASE i = n + m + 2
      <4>1. i + 1 = n + m + 3
        BY <3>3
      <4> QED
        BY <1>3, <3>1, <4>1, SeparatorsDiffer DEF Mark
    <3>4. CASE i = n + m + 1
      <4>1. i + 2 = n + m + 3
        BY <3>4
      <4> QED
        BY <1>3, <3>1, <4>1, SeparatorsDiffer DEF Mark
    <3>5. CASE i < n + m + 1
      <4>1. PICK j \in 1 .. m : i = n + 2 + j /\ j + 2 <= m
        <5>1. i - n - 2 \in 1 .. m /\ i = n + 2 + (i - n - 2) /\ (i - n - 2) + 2 <= m
          BY <2>4, <3>5
        <5> QED
          BY <5>1
      <4>2. j + 1 \in 1 .. m /\ j + 2 \in 1 .. m /\ i + 1 = n + 2 + (j + 1) /\ i + 2 = n + 2 + (j + 2)
        BY <4>1
      <4>3. s[i] = c[j] /\ s[i + 1] = c[j + 1] /\ s[i + 2] = c[j + 2]
        BY <1>3, <4>1, <4>2
      <4>4. ~(Lowered(c[j]) = w /\ c[j + 1] = Colon /\ c[j + 2] = Blank)
        <5>1. m = Len(c)
          BY <1>1
        <5> QED
          BY <1>4, <4>1, <5>1 DEF Mark
      <4> QED
        BY <3>1, <4>3, <4>4 DEF Mark
    <3> QED
      BY <2>4, <3>2, <3>3, <3>4, <3>5
  <2> QED
    BY <2>1, <2>2, <2>3, <2>4
<1> QED
  BY <1>1, <1>3, <1>6 DEF a

LEMMA LineReads ==
  ASSUME NEW A, NEW h \in HeaderOf(A), NEW s, LineShape(s, h),
         NEW w, Fixed(w), Unmarked(h.value, w)
  PROVE  /\ Lowered(h.name[Len(h.name)]) # w => Unmarked(s, w)
         /\ Lowered(h.name[Len(h.name)]) = w => Reads(s, w, h.value, Len(h.name))
<1>1. \A i \in 1 .. Len(s) : Mark(s, w, i) <=> i = Len(h.name) /\ Lowered(h.name[Len(h.name)]) = w
  BY LineMarks
<1>2. Lowered(h.name[Len(h.name)]) # w => Unmarked(s, w)
  BY <1>1 DEF Unmarked
<1>3. ASSUME Lowered(h.name[Len(h.name)]) = w PROVE Reads(s, w, h.value, Len(h.name))
  <2>1. PICK n \in Nat \ {0}, m \in Nat : n = Len(h.name) /\ m = Len(h.value)
    BY HeaderParts
  <2>2. /\ Len(s) = n + m + 3
        /\ \A j \in 1 .. m : s[n + 2 + j] = h.value[j]
        /\ s[n + m + 3] = CRLF
    BY <2>1 DEF LineShape
  <2>3. n \in 1 .. n + m + 3 /\ \A i \in 1 .. n - 1 : i \in 1 .. n + m + 3 /\ i # n
    OBVIOUS
  <2>4. Mark(s, w, n) /\ \A i \in 1 .. n - 1 : ~Mark(s, w, i)
    BY <1>1, <1>3, <2>1, <2>2, <2>3
  <2>5. n + 3 + m = n + m + 3 /\ n + 3 + m <= n + m + 3
    OBVIOUS
  <2> QED
    BY <2>1, <2>2, <2>4, <2>5 DEF Reads
<1> QED
  BY <1>2, <1>3

HeaderLines(headers) == [i \in DOMAIN headers |-> HeaderLine(headers[i])]

Block(first, headers) == first \o FlattenSeq(HeaderLines(headers))

LEMMA HeaderLinesAppend ==
  ASSUME NEW A, Colon \in A, Blank \in A, CRLF \in A, NEW hs \in Seq(HeaderOf(A)), NEW h \in HeaderOf(A)
  PROVE  /\ HeaderLines(hs) \in Seq(Seq(A))
         /\ HeaderLines(Append(hs, h)) = Append(HeaderLines(hs), HeaderLine(h))
<1> DEFINE ks == Append(hs, h)
<1>0. PICK n \in Nat : n = Len(hs)
  BY LenProperties
<1>1. /\ DOMAIN hs = 1 .. n /\ DOMAIN ks = 1 .. n + 1 /\ ks[n + 1] = h
      /\ \A i \in 1 .. n : ks[i] = hs[i] /\ hs[i] \in HeaderOf(A)
      /\ \A i \in 1 .. n + 1 : ks[i] \in HeaderOf(A)
  <2>1. ks \in Seq(HeaderOf(A)) /\ Len(ks) = n + 1 /\ ks[n + 1] = h /\ \A i \in 1 .. n : ks[i] = hs[i]
    BY <1>0, AppendProperties
  <2> HIDE DEF ks
  <2> QED
    BY <1>0, <2>1, LenProperties, ElementOfSeq
<1> HIDE DEF ks
<1>2. \A k \in HeaderOf(A) : HeaderLine(k) \in Seq(A)
  BY LineIs
<1>3. HeaderLines(hs) \in [1 .. n -> Seq(A)] /\ \A i \in 1 .. n : HeaderLines(hs)[i] = HeaderLine(hs[i])
  BY <1>1, <1>2 DEF HeaderLines
<1>4. /\ HeaderLines(ks) \in [1 .. n + 1 -> Seq(A)]
      /\ \A i \in 1 .. n + 1 : HeaderLines(ks)[i] = HeaderLine(ks[i])
  BY <1>1, <1>2 DEF HeaderLines
<1>5. \A i \in 1 .. n : HeaderLines(ks)[i] = HeaderLines(hs)[i]
  BY <1>1, <1>3, <1>4
<1>6. HeaderLines(hs) \in Seq(Seq(A)) /\ HeaderLines(ks) = Append(HeaderLines(hs), HeaderLines(ks)[n + 1])
  BY <1>3, <1>4, <1>5, OneMore
<1>7. HeaderLines(ks)[n + 1] = HeaderLine(h)
  BY <1>1, <1>4
<1> QED
  BY <1>6, <1>7 DEF ks

LEMMA BlockAppend ==
  ASSUME NEW A, Colon \in A, Blank \in A, CRLF \in A, NEW first \in Seq(A),
         NEW hs \in Seq(HeaderOf(A)), NEW h \in HeaderOf(A)
  PROVE  /\ Block(first, hs) \in Seq(A)
         /\ Block(first, Append(hs, h)) = Block(first, hs) \o HeaderLine(h)
<1> DEFINE L == HeaderLines(hs)
           l == HeaderLine(h)
           F == FlattenSeq(L)
<1>1. L \in Seq(Seq(A)) /\ HeaderLines(Append(hs, h)) = Append(L, l) /\ l \in Seq(A)
  BY HeaderLinesAppend, LineIs
<1> HIDE DEF L, l
<1>2. F \in Seq(A) /\ FlattenSeq(Append(L, l)) = F \o l
  BY <1>1, FlattenAppend
<1> HIDE DEF F
<1>3. first \o F \in Seq(A) /\ (first \o F) \o l = first \o (F \o l)
  <2>1. first \o F \in Seq(A)
    BY <1>2, ConcatProperties
  <2>2. (first \o F) \o l = first \o (F \o l)
    BY <1>1, <1>2, ConcatAssociative
  <2> QED
    BY <2>1, <2>2
<1>4. Block(first, hs) = first \o F
  BY DEF Block, F, L
<1>5. Block(first, Append(hs, h)) = first \o (F \o l)
  BY <1>1, <1>2 DEF Block
<1> QED
  BY <1>3, <1>4, <1>5 DEF l

LEMMA BlockNone == ASSUME NEW A, NEW first \in Seq(A) PROVE Block(first, <<>>) = first
<1>1. HeaderLines(<<>>) = <<>>
  BY DEF HeaderLines
<1>2. FlattenSeq(<<>>) = <<>>
  BY FlattenEmpty
<1>3. first \o <<>> = first
  BY ConcatEmptySeq
<1> QED
  BY <1>1, <1>2, <1>3 DEF Block

\* The headers whose name ends in x.
Ending(headers, x) == {i \in DOMAIN headers : Last(headers[i].name) = x}

\* What a search for w comes to in a head with these headers.
Outcome(headers, s, x, w) ==
  /\ Ending(headers, x) = {} => Unmarked(s, w)
  /\ Ending(headers, x) # {} =>
       \E p \in Nat \ {0} : Reads(s, w, headers[Min(Ending(headers, x))].value, p)

\* Headers that hold w neither at the end of their name nor, as a mark, in their value.
HeadersWithout(A, w) == {h \in HeaderOf(A) : Last(h.name) # w /\ Unmarked(h.value, w)}

\* The part of a head up to a header decides, unless nothing there ends in the name.
LEMMA OutcomeMore ==
  ASSUME NEW A, Colon \in A, Blank \in A, CRLF \in A, NEW x, NEW w, Spelled(x, w),
         NEW hs \in Seq(HeadersWithout(A, w)), NEW h \in HeadersWithout(A, w),
         NEW s \in Seq(A), Ended(s), Outcome(hs, s, x, w),
         NEW l \in Seq(A), LineShape(l, h), NEW u, Joins(u, s, l)
  PROVE  Outcome(Append(hs, h), u, x, w)
<1> DEFINE ks == Append(hs, h)
           E == Ending(hs, x)
           D == Ending(ks, x)
<1>0. PICK n \in Nat : n = Len(hs)
  BY LenProperties
<1>1. /\ DOMAIN hs = 1 .. n /\ DOMAIN ks = 1 .. n + 1 /\ ks[n + 1] = h
      /\ \A i \in 1 .. n : ks[i] = hs[i] /\ hs[i] \in HeaderOf(A)
  <2>1. /\ ks \in Seq(HeadersWithout(A, w)) /\ Len(ks) = n + 1 /\ ks[n + 1] = h
        /\ \A i \in 1 .. n : ks[i] = hs[i]
    BY <1>0, AppendProperties
  <2>2. \A i \in 1 .. n : hs[i] \in HeadersWithout(A, w)
    BY <1>0, ElementOfSeq
  <2>3. HeadersWithout(A, w) \subseteq HeaderOf(A)
    BY DEF HeadersWithout
  <2> HIDE DEF ks
  <2> QED
    BY <1>0, <2>1, <2>2, <2>3, LenProperties
<1> HIDE DEF ks
<1>2. h \in HeaderOf(A) /\ Last(h.name) # w /\ Unmarked(h.value, w)
  BY DEF HeadersWithout
<1>3. Last(h.name) = h.name[Len(h.name)]
  BY DEF Last
<1>4. Fixed(w) /\ (Lowered(h.name[Len(h.name)]) = w <=> Last(h.name) = x)
  BY <1>2, <1>3 DEF Spelled
<1>5. /\ Last(h.name) # x => Unmarked(l, w)
      /\ Last(h.name) = x => Reads(l, w, h.value, Len(h.name))
  BY <1>2, <1>4, LineReads
<1>6. Len(s) # 0 /\ s[Len(s)] = CRLF /\ Len(s) \in Nat
  BY LenProperties DEF Ended
<1>7. E \subseteq 1 .. n /\ D = E \cup (IF Last(h.name) = x THEN {n + 1} ELSE {})
  <2>1. \A i \in 1 .. n + 1 : i = n + 1 \/ i \in 1 .. n
    OBVIOUS
  <2>2. \A i \in 1 .. n : i \in 1 .. n + 1
    OBVIOUS
  <2>3. E = {i \in 1 .. n : Last(hs[i].name) = x} /\ D = {i \in 1 .. n + 1 : Last(ks[i].name) = x}
    BY <1>1 DEF Ending
  <2> HIDE DEF E, D
  <2>4. E \subseteq 1 .. n
    BY <2>3
  <2>5. ASSUME NEW i PROVE i \in D <=> i \in E \/ (i = n + 1 /\ Last(h.name) = x)
    BY <1>1, <2>1, <2>2, <2>3
  <2> QED
    BY <2>4, <2>5
<1> HIDE DEF E, D
<1>8. /\ E = {} => Unmarked(s, w)
      /\ E # {} => \E p \in Nat \ {0} : Reads(s, w, hs[Min(E)].value, p)
  BY DEF Outcome, E
<1>9. Len(h.name) \in Nat \ {0} /\ h.value \in Seq(A)
  <2>1. h.value \in Seq(A \ {CRLF}) /\ A \ {CRLF} \subseteq A
    BY <1>2 DEF HeaderOf
  <2>2. h.value \in Seq(A)
    BY <2>1, SeqMonotonic
  <2> QED
    BY <1>2, <2>2, HeaderParts
<1>10. CASE E = {} /\ Last(h.name) # x
  <2>1. D = {}
    BY <1>7, <1>10
  <2>2. Unmarked(s, w) /\ Unmarked(l, w)
    BY <1>5, <1>8, <1>10
  <2>3. Unmarked(u, w)
    BY <1>4, <1>6, <2>2, UnmarkedJoins
  <2> QED
    BY <2>1, <2>3 DEF Outcome, D, ks
<1>11. CASE E = {} /\ Last(h.name) = x
  <2>1. D = {n + 1}
    BY <1>7, <1>11
  <2>2. Min(D) = n + 1
    <3>1. D \subseteq Nat /\ D # {}
      BY <2>1
    <3>2. Min(D) \in D
      BY <3>1, Smallest
    <3> QED
      BY <2>1, <3>2
  <2>3. Unmarked(s, w) /\ Reads(l, w, h.value, Len(h.name))
    BY <1>5, <1>8, <1>11
  <2>4. Reads(u, w, h.value, Len(s) + Len(h.name))
    BY <1>4, <1>6, <1>9, <2>3, ReadsBehind
  <2>5. ks[Min(D)].value = h.value
    BY <1>1, <2>2
  <2>6. Len(s) + Len(h.name) \in Nat \ {0}
    BY <1>6, <1>9
  <2>7. \E p \in Nat \ {0} : Reads(u, w, ks[Min(D)].value, p)
    BY <2>4, <2>5, <2>6
  <2>8. D # {}
    BY <2>1
  <2> QED
    BY <2>7, <2>8 DEF Outcome, D, ks
<1>12. CASE E # {}
  <2>1. PICK p \in Nat \ {0} : Reads(s, w, hs[Min(E)].value, p)
    BY <1>8, <1>12
  <2>2. E \subseteq Nat
    BY <1>7
  <2>3. Min(E) \in E /\ \A i \in E : Min(E) <= i
    BY <1>12, <2>2, Smallest
  <2>4. Min(E) \in 1 .. n
    BY <1>7, <2>3
  <2> DEFINE v == hs[Min(E)].value
  <2>5. v \in Seq(A)
    <3>1. hs[Min(E)] \in HeaderOf(A)
      BY <1>1, <2>4
    <3>2. v \in Seq(A \ {CRLF}) /\ A \ {CRLF} \subseteq A
      BY <3>1 DEF HeaderOf
    <3> QED
      BY <3>2, SeqMonotonic
  <2>6. Reads(s, w, v, p)
    BY <2>1
  <2> HIDE DEF v
  <2>7. Reads(u, w, v, p)
    BY <1>4, <1>6, <2>5, <2>6, ReadsJoins
  <2>8. Min(D) = Min(E)
    <3>1. D \subseteq Nat /\ D # {}
      BY <1>7, <1>12
    <3>2. Min(D) \in D /\ \A i \in D : Min(D) <= i
      BY <3>1, Smallest
    <3>3. Min(E) \in D
      BY <1>7, <2>3
    <3>4. Min(D) <= Min(E)
      BY <3>2, <3>3
    <3>5. Min(D) \in E \/ Min(D) = n + 1
      BY <1>7, <3>2
    <3>6. Min(D) \in E
      BY <2>4, <3>4, <3>5
    <3>7. Min(E) <= Min(D)
      BY <2>3, <3>6
    <3>8. Min(D) \in Nat
      BY <3>1, <3>2
    <3>9. Min(E) \in Nat
      BY <2>4
    <3> QED
      BY <3>4, <3>7, <3>8, <3>9
  <2>9. ks[Min(D)].value = v
    BY <1>1, <2>4, <2>8 DEF v
  <2>10. \E q \in Nat \ {0} : Reads(u, w, ks[Min(D)].value, q)
    BY <2>7, <2>9
  <2>11. D # {}
    BY <1>7, <1>12
  <2> QED
    BY <2>10, <2>11 DEF Outcome, D, ks
<1> QED
  BY <1>10, <1>11, <1>12

LEMMA BlockOutcome ==
  ASSUME NEW A, Colon \in A, Blank \in A, CRLF \in A, NEW x, NEW w, Spelled(x, w),
         NEW first \in Seq(A), Ended(first), Unmarked(first, w),
         NEW hs \in Seq(HeadersWithout(A, w))
  PROVE  Block(first, hs) \in Seq(A) /\ Ended(Block(first, hs)) /\ Outcome(hs, Block(first, hs), x, w)
<1> DEFINE H == HeadersWithout(A, w)
           Good(t) == /\ Block(first, t) \in Seq(A) /\ Ended(Block(first, t))
                      /\ Outcome(t, Block(first, t), x, w)
           T == {t \in Seq(H) : Good(t)}
<1>1. H \subseteq HeaderOf(A)
  BY DEF HeadersWithout
<1>2. <<>> \in T
  <2>1. <<>> \in Seq(H)
    BY EmptySeq
  <2>2. Block(first, <<>>) = first
    BY BlockNone
  <2>3. Ending(<<>>, x) = {}
    BY DEF Ending
  <2>4. Outcome(<<>>, first, x, w)
    BY <2>3 DEF Outcome
  <2>5. Good(<<>>)
    BY <2>2, <2>4
  <2> HIDE DEF Good
  <2> QED
    BY <2>1, <2>5
<1>3. ASSUME NEW t \in Seq(H), NEW h \in H, t \in T PROVE Append(t, h) \in T
  <2> DEFINE s == Block(first, t)
             l == HeaderLine(h)
             u == s \o l
  <2>1. t \in Seq(HeaderOf(A)) /\ h \in HeaderOf(A)
    BY <1>1, SeqMonotonic
  <2>2. s \in Seq(A) /\ Ended(s) /\ Outcome(t, s, x, w)
    BY <1>3
  <2>3. l \in Seq(A) /\ LineShape(l, h)
    BY <2>1, LineIs
  <2>4. Block(first, Append(t, h)) = u
    BY <2>1, BlockAppend
  <2> HIDE DEF s, l
  <2>5. u \in Seq(A) /\ Joins(u, s, l)
    BY <2>2, <2>3, JoinsConcat
  <2> HIDE DEF u
  <2>6. Ended(l)
    BY <2>1, <2>3, LineEnded
  <2>7. Ended(u)
    BY <2>2, <2>3, <2>5, <2>6, EndedJoins
  <2> HIDE DEF H, T, Good
  <2>8. Outcome(Append(t, h), u, x, w)
    <3>1. t \in Seq(HeadersWithout(A, w)) /\ h \in HeadersWithout(A, w)
      BY DEF H
    <3> QED
      BY <2>2, <2>3, <2>5, <3>1, OutcomeMore
  <2>9. Append(t, h) \in Seq(H)
    BY AppendProperties
  <2>10. Good(Append(t, h))
    BY <2>4, <2>5, <2>7, <2>8, Zenon DEF Good
  <2> QED
    BY <2>9, <2>10 DEF T
<1> HIDE DEF T, H
<1>4. hs \in Seq(H)
  BY DEF H
<1>5. hs \in T
  BY <1>2, <1>3, <1>4, SeqInduct
<1> QED
  BY <1>5 DEF T

-----------------------------------------------------------------------------
(* Sequences of sequences, one behind the other.                           *)

LEMMA Greatest ==
  ASSUME NEW n \in Nat, NEW s, s \subseteq 1 .. n, s # {}
  PROVE  Max(s) \in s /\ \A x \in s : x <= Max(s)
<1> DEFINE T == {n - x : x \in s}
<1>1. T \subseteq Nat /\ T # {}
  <2>1. \A x \in s : n - x \in Nat
    OBVIOUS
  <2>2. PICK x : x \in s
    OBVIOUS
  <2>3. n - x \in T
    BY <2>2
  <2> QED
    BY <2>1, <2>3
<1>2. PICK m \in T : \A k \in T : m <= k
  BY <1>1, Least
<1>3. PICK y \in s : m = n - y
  BY <1>2
<1>4. \A x \in s : y >= x
  BY <1>2, <1>3
<1>5. Max(s) \in s /\ \A x \in s : Max(s) >= x
  BY <1>4, Zenon DEF Max
<1>6. s \subseteq Int
  OBVIOUS
<1> QED
  BY <1>5, <1>6

\* params holds what stands for the parameters.
Bound(params, parts, segments) ==
  /\ DOMAIN params = {toLower(parts[i].text) : i \in {j \in DOMAIN parts : parts[j].parameter}}
  /\ \A i \in DOMAIN parts : parts[i].parameter => params[toLower(parts[i].text)] = segments[i]

\* served is the first of the routes hits.
FirstOf(served, hits) ==
  IF hits = {} THEN served = 0 ELSE served \in hits /\ \A i \in hits : served <= i

LEMMA FourAre ==
  ASSUME NEW A, NEW a \in A, NEW b \in A, NEW c \in A, NEW d \in A
  PROVE  <<a, b, c, d>> \in Seq(A) /\ Len(<<a, b, c, d>>) = 4
OBVIOUS

FourParts(k, x, c, b) == <<k, x, c, b>> = <<k>> \o (<<x>> \o <<c, b>>)

NineParts(k, x, c, b, u, v) ==
  <<k, x, c, b, u, c, v, k, k>> = (<<k>> \o (((<<x>> \o <<c, b>>) \o <<u, c, v>>) \o <<k>>)) \o <<k>>

LEMMA FourConcat ==
  ASSUME NEW A, NEW k \in A, NEW x \in A, NEW c \in A, NEW b \in A
  PROVE  FourParts(k, x, c, b)
<1>1. <<k>> \in Seq(A) /\ <<x>> \in Seq(A) /\ <<c, b>> \in Seq(A)
  OBVIOUS
<1>2. <<k, x, c, b>> = (<<k>> \o <<x>>) \o <<c, b>>
  OBVIOUS
<1>3. Associate(<<k>>, <<x>>, <<c, b>>)
  BY <1>1, Associates
<1> QED
  BY <1>2, <1>3, Zenon DEF Associate, FourParts

LEMMA NineConcat ==
  ASSUME NEW A, NEW k \in A, NEW x \in A, NEW c \in A, NEW b \in A, NEW u \in A, NEW v \in A
  PROVE  NineParts(k, x, c, b, u, v)
BY DEF NineParts

Pushed(d, k, a, b) == (d \o (k \o a)) \o b = d \o (k \o (a \o b))

LEMMA Push ==
  ASSUME NEW A, NEW d \in Seq(A), NEW k \in Seq(A), NEW a \in Seq(A), NEW b \in Seq(A)
  PROVE  Pushed(d, k, a, b)
<1> DEFINE x == k \o a
<1>1. x \in Seq(A)
  BY ConcatProperties
<1> HIDE DEF x
<1>2. Associate(k, a, b) /\ Associate(d, x, b)
  BY <1>1, Associates
<1> QED
  BY <1>2, Zenon DEF Associate, Pushed, x

\* The same text, put together in two ways.
Regrouped(d, k, x, n, y, c) ==
  ((((d \o (k \o x)) \o n) \o ((k \o y) \o k)) \o c) \o k
    = d \o (k \o (((((((x \o n) \o k) \o y)) \o k) \o c) \o k))

LEMMA Regroup ==
  ASSUME NEW A, NEW d \in Seq(A), NEW k \in Seq(A), NEW x \in Seq(A), NEW n \in Seq(A),
         NEW y \in Seq(A), NEW c \in Seq(A)
  PROVE  Regrouped(d, k, x, n, y, c)
<1> DEFINE a == x \o n
           z == (k \o y) \o k
           e == ((a \o k) \o y) \o k
<1>1. a \in Seq(A) /\ (k \o y) \in Seq(A)
  BY ConcatProperties
<1>2. z \in Seq(A) /\ (a \o k) \in Seq(A)
  <2> HIDE DEF a
  <2> QED
    BY <1>1, ConcatProperties
<1>3. (a \o k) \o y \in Seq(A)
  <2> DEFINE w == a \o k
  <2>1. w \in Seq(A)
    BY <1>2
  <2> HIDE DEF w, a
  <2>2. w \o y \in Seq(A)
    BY <2>1, ConcatProperties
  <2> QED
    BY <2>2 DEF w
<1>4. e \in Seq(A)
  <2> DEFINE w == (a \o k) \o y
  <2>1. w \in Seq(A)
    BY <1>3
  <2> HIDE DEF w, a
  <2>2. w \o k \in Seq(A)
    BY <2>1, ConcatProperties
  <2> QED
    BY <2>2 DEF w
<1>5. a \o z = e
  <2> DEFINE w == k \o y
  <2>1. w \in Seq(A)
    BY <1>1
  <2> HIDE DEF w, a
  <2>2. Associate(a, k, y) /\ Associate(a, w, k)
    BY <1>1, <2>1, Associates
  <2> QED
    BY <2>2, Zenon DEF Associate, w
<1>6. Pushed(d, k, x, n)
  BY Push
<1>7. (d \o (k \o x)) \o n = d \o (k \o a)
  BY <1>6, Zenon DEF Pushed
<1> HIDE DEF a, z, e
<1>8. Pushed(d, k, a, z) /\ Pushed(d, k, e, c)
  BY <1>1, <1>2, <1>4, Push
<1>9. e \o c \in Seq(A)
  BY <1>4, ConcatProperties
<1> DEFINE g == e \o c
<1> HIDE DEF g
<1>10. Pushed(d, k, g, k)
  BY <1>9, Push DEF g
<1>11. ((((d \o (k \o x)) \o n) \o z) \o c) \o k = d \o (k \o (g \o k))
  BY <1>5, <1>7, <1>8, <1>10, Zenon DEF g, Pushed
<1> QED
  BY <1>11 DEF a, z, e, g, Regrouped

LEMMA OneIsSeq == ASSUME NEW A, NEW a \in A PROVE <<a>> \in Seq(A)
OBVIOUS

LEMMA TwoAreSeq == ASSUME NEW A, NEW a \in A, NEW b \in A PROVE <<a, b>> \in Seq(A)
OBVIOUS

FlattensBoth(s, t) == FlattenSeq(s \o t) = FlattenSeq(s) \o FlattenSeq(t)

LEMMA FlattenConcat ==
  ASSUME NEW A, NEW s \in Seq(Seq(A)), NEW t \in Seq(Seq(A))
  PROVE  FlattensBoth(s, t)
<1> DEFINE B == Seq(A)
           T == {u \in Seq(B) : FlattensBoth(s, u)}
<1>1. <<>> \in T
  <2>1. <<>> \in Seq(B) /\ s \o <<>> = s
    BY EmptySeq, ConcatEmptySeq
  <2>2. FlattenSeq(s) \in Seq(A)
    BY EmptySeq, FlattenAppend
  <2>3. FlattenSeq(s) \o <<>> = FlattenSeq(s)
    BY <2>2, ConcatEmptySeq
  <2> QED
    BY <2>1, <2>3, FlattenEmpty DEF FlattensBoth
<1>2. ASSUME NEW u \in Seq(B), NEW e \in B, u \in T PROVE Append(u, e) \in T
  <2>1. FlattensBoth(s, u)
    BY <1>2
  <2> HIDE DEF B, T
  <2>2. s \o u \in Seq(B) /\ s \o Append(u, e) = Append(s \o u, e) /\ Append(u, e) \in Seq(B)
    BY ConcatAppend, ConcatProperties, AppendProperties DEF B
  <2> DEFINE w == s \o u
             fs == FlattenSeq(s)
             fu == FlattenSeq(u)
  <2>3. w \in Seq(Seq(A)) /\ u \in Seq(Seq(A)) /\ e \in Seq(A)
    BY <2>2 DEF B
  <2> HIDE DEF w
  <2>4. /\ FlattenSeq(Append(w, e)) = FlattenSeq(w) \o e
        /\ FlattenSeq(Append(u, e)) = FlattenSeq(u) \o e
        /\ FlattenSeq(u) \in Seq(A) /\ FlattenSeq(s) \in Seq(A)
    BY <2>3, FlattenAppend
  <2>5. FlattenSeq(w) = fs \o fu
    BY <2>1 DEF FlattensBoth, w
  <2> HIDE DEF fs, fu
  <2>6. Associate(fs, fu, e)
    BY <2>3, <2>4, Associates DEF fs, fu
  <2>7. (fs \o fu) \o e = fs \o (fu \o e)
    BY <2>6 DEF Associate
  <2>8. FlattenSeq(Append(w, e)) = fs \o FlattenSeq(Append(u, e))
    BY <2>4, <2>5, <2>7 DEF fu
  <2>9. FlattensBoth(s, Append(u, e))
    BY <2>2, <2>8 DEF FlattensBoth, w, fs
  <2> QED
    BY <2>2, <2>9 DEF T
<1> HIDE DEF T, B
<1>3. t \in T
  BY <1>1, <1>2, SeqInduct DEF B
<1> QED
  BY <1>3 DEF T

\* What is chosen from a sequence by dropping everything is nothing, and what
\* is chosen by dropping nothing is all of it.
Nones(n) == [i \in 1 .. n |-> <<>>]

Ones(s) == [i \in DOMAIN s |-> <<s[i]>>]

LEMMA OnesAre ==
  ASSUME NEW A, NEW s \in Seq(A)
  PROVE  /\ Ones(s) \in Seq(Seq(A)) /\ Len(Ones(s)) = Len(s)
         /\ \A i \in 1 .. Len(s) : Ones(s)[i] = <<s[i]>>
<1>0. PICK n \in Nat : n = Len(s)
  BY LenProperties
<1>1. DOMAIN s = 1 .. n /\ \A i \in 1 .. n : s[i] \in A
  BY <1>0, LenProperties, ElementOfSeq
<1>2. \A i \in 1 .. n : <<s[i]>> \in Seq(A)
  BY <1>1, One
<1>3. Ones(s) \in [1 .. n -> Seq(A)] /\ \A i \in 1 .. n : Ones(s)[i] = <<s[i]>>
  BY <1>1, <1>2 DEF Ones
<1>4. Ones(s) \in Seq(Seq(A)) /\ Len(Ones(s)) = n
  BY <1>3, FunctionIsSeq
<1> QED
  BY <1>0, <1>3, <1>4

LEMMA FlattenOnes == ASSUME NEW A, NEW s \in Seq(A) PROVE FlattenSeq(Ones(s)) = s
<1> DEFINE T == {u \in Seq(A) : FlattenSeq(Ones(u)) = u}
<1>1. <<>> \in T
  <2>1. Ones(<<>>) = <<>> /\ <<>> \in Seq(A)
    BY EmptySeq DEF Ones
  <2> QED
    BY <2>1, FlattenEmpty
<1>2. ASSUME NEW u \in Seq(A), NEW e \in A, u \in T PROVE Append(u, e) \in T
  <2>1. FlattenSeq(Ones(u)) = u
    BY <1>2
  <2> HIDE DEF T
  <2>0. PICK n \in Nat : n = Len(u)
    BY LenProperties
  <2> DEFINE w == Append(u, e)
  <2>2. w \in Seq(A) /\ Len(w) = n + 1 /\ w[n + 1] = e /\ \A i \in 1 .. n : w[i] = u[i]
    BY <2>0, AppendProperties
  <2>3. w = u \o <<e>>
    BY AppendIsConcat
  <2> HIDE DEF w
  <2>4. Ones(u) \in Seq(Seq(A)) /\ Len(Ones(u)) = n /\ \A i \in 1 .. n : Ones(u)[i] = <<u[i]>>
    BY <2>0, OnesAre
  <2>5. Ones(w) \in Seq(Seq(A)) /\ Len(Ones(w)) = n + 1 /\ \A i \in 1 .. n + 1 : Ones(w)[i] = <<w[i]>>
    BY <2>2, OnesAre
  <2>6. Ones(w) = Append(Ones(u), <<e>>)
    <3>1. \A i \in 1 .. Len(Ones(u)) : Ones(w)[i] = Ones(u)[i]
      <4> TAKE i \in 1 .. Len(Ones(u))
      <4>1. i \in 1 .. n /\ i \in 1 .. n + 1
        BY <2>4
      <4>2. Ones(w)[i] = <<w[i]>> /\ Ones(u)[i] = <<u[i]>> /\ w[i] = u[i]
        BY <2>2, <2>4, <2>5, <4>1
      <4> QED
        BY <4>2
    <3>2. Ones(w)[Len(Ones(u)) + 1] = <<e>> /\ Len(Ones(w)) = Len(Ones(u)) + 1
      BY <2>2, <2>4, <2>5
    <3>3. <<e>> \in Seq(A)
      BY One
    <3> QED
      BY <2>4, <2>5, <3>1, <3>2, <3>3, Extends
  <2>7. FlattenSeq(Ones(w)) = FlattenSeq(Ones(u)) \o <<e>>
    BY <2>4, <2>6, One, FlattenAppend
  <2> QED
    BY <2>1, <2>2, <2>3, <2>7 DEF T, w
<1> HIDE DEF T
<1>3. s \in T
  BY <1>1, <1>2, SeqInduct
<1> QED
  BY <1>3 DEF T

LEMMA FlattenNones == ASSUME NEW n \in Nat PROVE FlattenSeq(Nones(n)) = <<>>
<1> DEFINE A == {}
           T == {m \in Nat : FlattenSeq(Nones(m)) = <<>>}
<1>0. <<>> \in Seq(A)
  BY EmptySeq
<1>1. 0 \in T
  <2>1. Nones(0) = <<>>
    BY DEF Nones
  <2> QED
    BY <2>1, FlattenEmpty
<1>2. \A m \in Nat : m \in T => m + 1 \in T
  <2> SUFFICES ASSUME NEW m \in Nat, m \in T PROVE m + 1 \in T
    OBVIOUS
  <2>1. FlattenSeq(Nones(m)) = <<>>
    OBVIOUS
  <2> HIDE DEF T, A
  <2>2. /\ Nones(m) \in [1 .. m -> Seq(A)] /\ Nones(m + 1) \in [1 .. m + 1 -> Seq(A)]
        /\ Nones(m + 1)[m + 1] = <<>> /\ \A i \in 1 .. m : Nones(m + 1)[i] = Nones(m)[i]
    BY <1>0 DEF Nones
  <2>3. Nones(m) \in Seq(Seq(A)) /\ Nones(m + 1) = Append(Nones(m), <<>>)
    <3> DEFINE f == Nones(m)
               g == Nones(m + 1)
    <3> HIDE DEF f, g
    <3>1. f \in Seq(Seq(A)) /\ g = Append(f, g[m + 1])
      BY <2>2, OneMore DEF f, g
    <3> QED
      BY <2>2, <3>1 DEF f, g
  <2>4. FlattenSeq(Nones(m + 1)) = FlattenSeq(Nones(m)) \o <<>>
    BY <1>0, <2>3, FlattenAppend
  <2>5. <<>> \o <<>> = <<>>
    BY <1>0, ConcatEmptySeq
  <2> QED
    BY <2>1, <2>4, <2>5 DEF T
<1> HIDE DEF T
<1>3. n \in T
  BY <1>1, <1>2, Induct
<1> QED
  BY <1>3 DEF T

LEMMA TwoAndOne == ASSUME NEW a, NEW b, NEW c PROVE <<a, b, c>> = <<a, b>> \o <<c>>
OBVIOUS

LEMMA OneAndOne == ASSUME NEW a, NEW b PROVE <<a>> \o <<b>> = <<a, b>>
<1> DEFINE A == {a, b}
           s == <<a>> \o <<b>>
           t == <<a, b>>
<1>1. <<a>> \in Seq(A) /\ <<b>> \in Seq(A) /\ Len(<<a>>) = 1 /\ Len(<<b>>) = 1 /\ <<a>>[1] = a /\ <<b>>[1] = b
  BY One
<1>2. t \in Seq(A) /\ Len(t) = 2 /\ t[1] = a /\ t[2] = b
  OBVIOUS
<1>3. s \in Seq(A) /\ Len(s) = 2 /\ s[1] = a /\ s[2] = b
  <2> DEFINE x == <<a>>
             y == <<b>>
  <2> HIDE DEF x, y, A
  <2>1. x \in Seq(A) /\ y \in Seq(A) /\ Len(x) = 1 /\ Len(y) = 1 /\ x[1] = a /\ y[1] = b
    BY <1>1 DEF x, y
  <2>2. x \o y \in Seq(A) /\ Len(x \o y) = 2 /\ (x \o y)[1] = a /\ (x \o y)[2] = b
    BY <2>1, ConcatProperties
  <2> QED
    BY <2>2 DEF x, y
<1> HIDE DEF s, t, A
<1>4. s = t
  BY <1>2, <1>3, SeqEqual
<1> QED
  BY <1>4 DEF s, t

LEMMA MaxIs == ASSUME NEW s, s \subseteq Int, NEW m \in s, \A x \in s : m >= x PROVE Max(s) = m
<1> DEFINE y == Max(s)
<1>1. y \in s /\ \A x \in s : y >= x
  <2>1. \E y1 \in s : \A x \in s : y1 >= x
    OBVIOUS
  <2>2. y = CHOOSE y1 \in s : \A x \in s : y1 >= x
    BY Zenon DEF Max
  <2> QED
    BY <2>1, <2>2, Zenon
<1> HIDE DEF y
<1>2. y >= m /\ m >= y /\ y \in Int /\ m \in Int
  BY <1>1
<1>3. y = m
  BY <1>2
<1> QED
  BY <1>3 DEF y

LEMMA SomeAreSeq ==
  ASSUME NEW A, NEW a \in A, NEW b \in A, NEW c \in A, NEW d \in A, NEW e \in A, NEW f \in A
  PROVE  <<a, b, c>> \in Seq(A) /\ <<a, b, c, d, e>> \in Seq(A) /\ <<a, b, c, d, e, f>> \in Seq(A)
OBVIOUS

LEMMA FunctionsInto ==
  ASSUME NEW N, NEW P, NEW l
  PROVE  l \in UNION {[D -> P] : D \in SUBSET N} <=> l \in [DOMAIN l -> P] /\ DOMAIN l \subseteq N
<1> DEFINE F == UNION {[D -> P] : D \in SUBSET N}
<1>1. ASSUME l \in F PROVE l \in [DOMAIN l -> P] /\ DOMAIN l \subseteq N
  BY <1>1
<1>2. ASSUME l \in [DOMAIN l -> P], DOMAIN l \subseteq N PROVE l \in F
  <2>1. \E D \in SUBSET N : l \in [D -> P]
    BY <1>2
  <2> QED
    BY <2>1
<1> QED
  BY <1>1, <1>2

LEMMA FourIsSeq ==
  ASSUME NEW A, NEW a \in A, NEW b \in A, NEW c \in A, NEW d \in A
  PROVE  <<a, b, c, d>> \in Seq(A)
OBVIOUS

-----------------------------------------------------------------------------
(* Texts without some symbols, and what is trimmed or lowered of a text.   *)

LEMMA LowerOne == ASSUME NEW c PROVE toLower(<<c>>) = <<Lowered(c)>>
<1>1. DOMAIN <<c>> = {1} /\ <<c>>[1] = c
  OBVIOUS
<1>2. toLower(<<c>>) = [i \in {1} |-> Lowered(c)]
  BY <1>1 DEF toLower, Lowered
<1>3. <<Lowered(c)>> = [i \in {1} |-> Lowered(c)]
  <2> DEFINE l == Lowered(c)
  <2> HIDE DEF l
  <2>1. <<l>> = [i \in {1} |-> l]
    OBVIOUS
  <2> QED
    BY <2>1 DEF l
<1> QED
  BY <1>2, <1>3

\* What trim takes off.
Blanks == {" ", "\t", CRLF}

LEMMA TrimSolid ==
  ASSUME NEW A, NEW s \in Seq(A), Len(s) # 0, \A i \in 1 .. Len(s) : s[i] \notin Blanks
  PROVE  trim(s) = s
<1> DEFINE solid == {i \in DOMAIN s : s[i] \notin Blanks}
<1>1. PICK n \in Nat : n = Len(s) /\ n # 0 /\ DOMAIN s = 1 .. n
  BY LenProperties
<1>2. solid = 1 .. n
  BY <1>1
<1>3. trim(s) = IF solid = {} THEN <<>> ELSE SubSeq(s, Min(solid), Max(solid))
  BY Zenon DEF trim, Blanks
<1> HIDE DEF solid
<1>4. solid # {} /\ solid \subseteq Nat /\ solid \subseteq 1 .. n
  BY <1>1, <1>2
<1>5. /\ Min(solid) \in solid /\ \A x \in solid : Min(solid) <= x
      /\ Max(solid) \in solid /\ \A x \in solid : x <= Max(solid)
  BY <1>4, Smallest, Greatest
<1>6. Min(solid) = 1 /\ Max(solid) = n
  BY <1>1, <1>2, <1>5
<1>7. SubSeq(s, 1, n) = s
  <2> DEFINE t == SubSeq(s, 1, n)
  <2>1. t \in Seq(A) /\ Len(t) = n /\ \A i \in 1 .. n : t[i] = s[i]
    BY <1>1, SubSeqProperties
  <2> HIDE DEF t
  <2>2. t = s
    BY <1>1, <2>1, SeqEqual
  <2> QED
    BY <2>2 DEF t
<1> QED
  BY <1>3, <1>4, <1>6, <1>7

LEMMA PrefixIs ==
  ASSUME NEW A, NEW s \in Seq(A), NEW n \in 0 .. Len(s)
  PROVE  /\ SubSeq(s, 1, n) \in Seq(A) /\ Len(SubSeq(s, 1, n)) = n
         /\ \A i \in 1 .. n : SubSeq(s, 1, n)[i] = s[i]
<1>0. PICK m \in Nat : m = Len(s)
  BY LenProperties
<1>1. PICK one \in Nat : one = 1
  OBVIOUS
<1>2. one \in 1 .. m + 1 /\ n \in one - 1 .. m /\ n - one + 1 = n /\ n \in Nat
  BY <1>0, <1>1
<1> DEFINE u == SubSeq(s, one, n)
<1>3. u \in Seq(A) /\ Len(u) = n - one + 1 /\ \A i \in 1 .. n - one + 1 : u[i] = s[one + i - 1]
  BY <1>0, <1>2, SubSeqProperties
<1> HIDE DEF u
<1>4. Len(u) = n /\ \A i \in 1 .. n : u[i] = s[one + i - 1]
  BY <1>2, <1>3
<1>5. \A i \in 1 .. n : one + i - 1 = i
  BY <1>1
<1>6. u \in Seq(A) /\ Len(u) = n /\ \A i \in 1 .. n : u[i] = s[i]
  BY <1>3, <1>4, <1>5
<1> QED
  BY <1>1, <1>6 DEF u

LEMMA AppendsThird ==
  ASSUME NEW S, NEW f \in S, NEW p \in S, NEW e \in S
  PROVE  Append(<<f, p>>, e) = <<f, p, e>>
<1> DEFINE s == <<f, p>>
           t == <<f, p, e>>
<1>1. s \in Seq(S) /\ Len(s) = 2 /\ s[1] = f /\ s[2] = p
  OBVIOUS
<1>2. t \in Seq(S) /\ Len(t) = 3 /\ t[1] = f /\ t[2] = p /\ t[3] = e
  OBVIOUS
<1> HIDE DEF s, t
<1>3. Len(t) = Len(s) + 1 /\ t[Len(s) + 1] = e /\ \A k \in 1 .. Len(s) : t[k] = s[k]
  BY <1>1, <1>2
<1>4. t = Append(s, e)
  BY <1>1, <1>2, <1>3, Extends
<1> QED
  BY <1>4 DEF s, t

LEMMA LowerTwo == ASSUME NEW c, NEW d PROVE Len(toLower(<<c, d>>)) = 2 /\ toLower(<<c, d>>)[2] = Lowered(d)
<1> DEFINE s == <<c, d>>
<1>1. DOMAIN s = 1 .. 2 /\ s[1] = c /\ s[2] = d
  OBVIOUS
<1>2. toLower(s) = [i \in 1 .. 2 |-> Lowered(s[i])]
  BY <1>1 DEF toLower, Lowered
<1>3. [i \in 1 .. 2 |-> Lowered(s[i])] = <<Lowered(s[1]), Lowered(s[2])>>
  OBVIOUS
<1> QED
  BY <1>1, <1>2, <1>3

\* A text without some symbols.
LEMMA WithoutIs ==
  ASSUME NEW A, NEW B, NEW s \in Seq(A)
  PROVE  (\A i \in DOMAIN s : s[i] \notin B) <=> s \in Seq(A \ B)
<1>0. PICK n \in Nat : n = Len(s)
  BY LenProperties
<1>1. DOMAIN s = 1 .. n /\ s \in [1 .. n -> A]
  BY <1>0, LenProperties
<1>2. ASSUME \A i \in DOMAIN s : s[i] \notin B PROVE s \in Seq(A \ B)
  <2>1. s \in [1 .. n -> A \ B]
    BY <1>1, <1>2
  <2> QED
    BY <2>1, FunctionIsSeq
<1>3. ASSUME s \in Seq(A \ B) PROVE \A i \in DOMAIN s : s[i] \notin B
  <2>1. \A i \in 1 .. n : s[i] \in A \ B
    BY <1>0, <1>3, ElementOfSeq
  <2> QED
    BY <1>1, <2>1
<1> QED
  BY <1>2, <1>3

LEMMA NotWithout ==
  ASSUME NEW A, NEW B, NEW s \in Seq(A), NEW i \in DOMAIN s, s[i] \in B
  PROVE  s \notin Seq(A \ B)
BY WithoutIs

-----------------------------------------------------------------------------
(* Texts taken apart at a symbol.                                          *)

LEMMA SplitOnce ==
  ASSUME NEW A, NEW d, NEW t \in Seq(A \ {d})
  PROVE  EndsIn(t, d, <<>>, t)
<1> DEFINE none == <<>>
<1>1. t \in Seq(A) /\ none \in Seq(A) /\ none \in Seq(Seq(A)) /\ none \o t = t
  BY SeqMonotonic, EmptySeq, ConcatEmptySeq
<1>2. Append(none, none) = << <<>> >>
  OBVIOUS
<1>3. EndsIn(none, d, none, none)
  BY <1>2, SplitEmpty DEF EndsIn
<1> HIDE DEF none
<1>4. EndsIn(none \o t, d, none, none \o t)
  BY <1>1, <1>3, SplitSegment
<1> QED
  BY <1>1, <1>4 DEF none

SplitsInto(s, d, pieces) == split(s, d) = pieces

LEMMA NothingSkipped ==
  ASSUME NEW A, <<>> \notin A, NEW P \in Seq(A)
  PROVE  NonEmpty(P) = P
<1> DEFINE T == {Q \in Seq(A) : NonEmpty(Q) = Q}
<1>1. <<>> \in T
  BY EmptySeq, NonEmptyNone
<1>2. ASSUME NEW Q \in Seq(A), NEW e \in A, Q \in T PROVE Append(Q, e) \in T
  <2>1. e # <<>> /\ NonEmpty(Q) = Q
    BY <1>2
  <2>2. NonEmpty(Append(Q, e)) = Append(Q, e)
    BY <2>1, NonEmptyAppend
  <2> QED
    BY <2>2, AppendProperties
<1> HIDE DEF T
<1>3. P \in T
  BY <1>1, <1>2, SeqInduct
<1> QED
  BY <1>3 DEF T

LEMMA Between ==
  ASSUME NEW A, NEW k \in Seq(A), NEW e \in Seq(A), Len(e) = 1, NEW v \in Seq(A)
  PROVE  k \o e \o v \in Seq(A) /\ k \o e \o v # <<>>
<1>1. k \o e \in Seq(A) /\ Len(k \o e) = Len(k) + 1
  <2>1. k \o e \in Seq(A) /\ Len(k \o e) = Len(k) + Len(e)
    BY ConcatProperties
  <2> QED
    BY <2>1
<1> DEFINE u == k \o e
<1>2. u \in Seq(A) /\ Len(u) = Len(k) + 1
  BY <1>1
<1> HIDE DEF u
<1>3. u \o v \in Seq(A) /\ Len(u \o v) = Len(u) + Len(v)
  BY <1>2, ConcatProperties
<1>4. Len(u \o v) # 0
  BY <1>2, <1>3, LenProperties
<1>5. u \o v # <<>>
  BY <1>4, EmptySeq
<1> QED
  BY <1>3, <1>5 DEF u

LEMMA Both ==
  ASSUME NEW A, NEW k \in A, NEW v \in A
  PROVE  Append(<<k>>, v) = <<k, v>>
<1>1. <<k>> \in Seq(A) /\ <<k, v>> \in Seq(A) /\ Len(<<k>>) = 1 /\ Len(<<k, v>>) = 2
  OBVIOUS
<1>2. \A i \in 1 .. 1 : <<k, v>>[i] = <<k>>[i]
  OBVIOUS
<1>3. <<k, v>>[2] = v
  OBVIOUS
<1> DEFINE s == <<k>>
           t == <<k, v>>
<1>4. Len(t) = Len(s) + 1 /\ (\A i \in 1 .. Len(s) : t[i] = s[i]) /\ t[Len(s) + 1] = v
  BY <1>1, <1>2, <1>3
<1>5. s \in Seq(A) /\ t \in Seq(A)
  BY <1>1
<1> HIDE DEF s, t
<1>6. t = Append(s, v)
  BY <1>4, <1>5, Extends
<1> QED
  BY <1>6 DEF s, t

\* The two sides of a sign that stands in neither.
LEMMA SidesOf ==
  ASSUME NEW A, NEW d \in A, NEW k \in Seq(A \ {d}), NEW v \in Seq(A \ {d})
  PROVE  /\ k \o <<d>> \o v \in Seq(A) /\ k \o <<d>> \o v # <<>>
         /\ LinesAre(k \o <<d>> \o v, d, <<k>>, v)
<1> DEFINE w == k \o <<d>> \o v
<1>1. k \in Seq(A) /\ v \in Seq(A) /\ <<d>> \in Seq(A) /\ Len(<<d>>) = 1
  BY One, SeqMonotonic
<1>2. Associate(k, <<d>>, v)
  BY <1>1, Associates
<1>3. split(k \o (<<d>> \o v), d) = Append(split(k, d), v)
  BY <1>1, SplitMore
<1>4. EndsIn(k, d, <<>>, k)
  BY SplitOnce
<1>5. Append(<<>>, k) = <<k>> /\ <<k>> \in Seq(Seq(A))
  BY <1>1
<1>6. EndsIn(w, d, <<k>>, v)
  BY <1>2, <1>3, <1>4, <1>5, Zenon DEF EndsIn, Associate
<1>7. LinesAre(w, d, <<k>>, v)
  BY <1>1, <1>5, <1>6, GetlinesIs
<1>8. w \in Seq(A) /\ w # <<>>
  BY <1>1, Between
<1> QED
  BY <1>7, <1>8

LEMMA JoinedAre ==
  ASSUME NEW A, NEW u \in Seq(A), NEW s \in Seq(A), NEW t \in Seq(A), Joins(u, s, t)
  PROVE  u = s \o t
<1> DEFINE v == s \o t
<1>0. PICK n \in Nat, m \in Nat : n = Len(s) /\ m = Len(t)
  BY LenProperties
<1>1. v \in Seq(A) /\ Joins(v, s, t)
  BY JoinsConcat
<1> HIDE DEF v
<1>2. Len(u) = n + m /\ Len(v) = n + m
  BY <1>0, <1>1 DEF Joins
<1>3. ASSUME NEW i \in 1 .. n + m PROVE u[i] = v[i]
  <2>1. CASE i \in 1 .. n
    BY <1>0, <1>1, <2>1 DEF Joins
  <2>2. CASE \E j \in 1 .. m : i = n + j
    BY <1>0, <1>1, <2>2 DEF Joins
  <2> QED
    BY <2>1, <2>2, EitherPart
<1>4. u = v
  BY <1>1, <1>2, <1>3, SeqEqual
<1> QED
  BY <1>4 DEF v

LEMMA TrimThird ==
  ASSUME NEW x, NEW y, NEW b \in Blanks, x \notin Blanks, y \notin Blanks
  PROVE  trim(<<x, y, b>>) = <<x, y>>
<1> DEFINE s == <<x, y, b>>
           t == <<x, y>>
           A == {x, y, b}
           S == {i \in DOMAIN s : s[i] \notin Blanks}
<1>1. s \in Seq(A) /\ Len(s) = 3 /\ DOMAIN s = 1 .. 3 /\ s[1] = x /\ s[2] = y /\ s[3] = b
  OBVIOUS
<1>2. t \in Seq(A) /\ Len(t) = 2 /\ t[1] = x /\ t[2] = y
  OBVIOUS
<1>3. trim(s) = IF S = {} THEN <<>> ELSE SubSeq(s, Min(S), Max(S))
  BY Zenon DEF trim, Blanks
<1> HIDE DEF s, t, A
<1>4. S = {1, 2}
  BY <1>1
<1> HIDE DEF S
<1>5. S # {} /\ S \subseteq Nat /\ S \subseteq 1 .. 2 /\ 2 \in Nat
  BY <1>4
<1>6. /\ Min(S) \in S /\ \A k \in S : Min(S) <= k
      /\ Max(S) \in S /\ \A k \in S : k <= Max(S)
  BY <1>5, Smallest, Greatest
<1>7. Min(S) = 1 /\ Max(S) = 2
  BY <1>4, <1>6
<1> DEFINE u == SubSeq(s, 1, 2)
<1>8. u \in Seq(A) /\ Len(u) = 2 /\ \A k \in 1 .. 2 : u[k] = s[k]
  BY <1>1, SubSeqProperties
<1> HIDE DEF u
<1>9. Len(u) = Len(t) /\ \A k \in 1 .. Len(u) : u[k] = t[k]
  <2>1. u[1] = t[1] /\ u[2] = t[2]
    BY <1>1, <1>2, <1>8
  <2>2. \A k \in 1 .. 2 : k = 1 \/ k = 2
    OBVIOUS
  <2> QED
    BY <1>2, <1>8, <2>1, <2>2
<1>10. u = t
  BY <1>2, <1>8, <1>9, SeqEqual
<1> QED
  BY <1>3, <1>5, <1>7, <1>10 DEF s, t, u

LEMMA FindPlace ==
  ASSUME NEW A, NEW s \in Seq(A), NEW t \in Seq(A), NEW from \in Nat \ {0}, find(s, t, from) # 0
  PROVE  find(s, t, from) \in from .. (Len(s) - Len(t) + 1) /\ At(s, t, find(s, t, from))
<1> DEFINE P == Places(s, t, from)
<1>1. \A i \in P : i \in from .. (Len(s) - Len(t) + 1) /\ At(s, t, i)
  BY PlaceIs
<1>2. Len(s) \in Nat /\ Len(t) \in Nat
  BY LenProperties
<1>3. P # {} /\ find(s, t, from) = Min(P)
  BY FindIs
<1> HIDE DEF P
<1>4. P \subseteq Nat
  BY <1>1, <1>2
<1> QED
  BY <1>1, <1>3, <1>4, Smallest

LEMMA FirstPart ==
  ASSUME NEW A, NEW s \in Seq(A), NEW t \in Seq(A)
  PROVE  SubSeq(s \o t, 1, Len(s)) = s
<1> DEFINE u == s \o t
           v == SubSeq(u, 1, Len(s))
<1>0. PICK m \in Nat, n \in Nat : m = Len(s) /\ n = Len(t)
  BY LenProperties
<1>1. u \in Seq(A) /\ Len(u) = m + n /\ \A i \in 1 .. m : u[i] = s[i]
  BY <1>0, JoinsConcat DEF Joins
<1> HIDE DEF u
<1>2. Len(s) \in 0 .. Len(u)
  BY <1>0, <1>1
<1>3. v \in Seq(A) /\ Len(v) = Len(s) /\ \A i \in 1 .. Len(s) : v[i] = u[i]
  BY <1>1, <1>2, PrefixIs
<1> HIDE DEF v
<1>4. \A i \in 1 .. Len(s) : v[i] = s[i]
  BY <1>0, <1>1, <1>3
<1>5. v = s
  BY <1>3, <1>4, SeqEqual
<1> QED
  BY <1>5 DEF u, v

LEMMA SecondPart ==
  ASSUME NEW A, NEW s \in Seq(A), NEW t \in Seq(A)
  PROVE  SubSeq(s \o t, Len(s) + 1, Len(s) + Len(t)) = t
<1> DEFINE u == s \o t
<1>0. PICK m \in Nat, n \in Nat : m = Len(s) /\ n = Len(t)
  BY LenProperties
<1>1. u \in Seq(A) /\ Len(u) = m + n /\ \A j \in 1 .. n : u[m + j] = t[j]
  BY <1>0, JoinsConcat DEF Joins
<1> HIDE DEF u
<1> DEFINE a == m + 1
           b == m + n
           v == SubSeq(u, a, b)
<1>2. a \in 1 .. Len(u) + 1 /\ b \in a - 1 .. Len(u) /\ b - a + 1 = n /\ \A i \in 1 .. n : a + i - 1 = m + i
  BY <1>1
<1> HIDE DEF a, b
<1>3. v \in Seq(A) /\ Len(v) = b - a + 1 /\ \A i \in 1 .. b - a + 1 : v[i] = u[a + i - 1]
  BY <1>1, <1>2, SubSeqProperties
<1> HIDE DEF v
<1>4. Len(v) = n /\ \A i \in 1 .. n : v[i] = t[i]
  BY <1>1, <1>2, <1>3
<1>5. v = t
  BY <1>0, <1>3, <1>4, SeqEqual
<1> QED
  BY <1>0, <1>5 DEF u, v, a, b

Quote == "\""

Quoted(b) == <<Quote>> \o b \o <<Quote>>

LEMMA QuotedIs ==
  ASSUME NEW A, Quote \in A, NEW b \in Seq(A)
  PROVE  /\ Quoted(b) \in Seq(A) /\ Quoted(b) # <<>> /\ Quoted(b)[1] = Quote
         /\ SubSeq(Quoted(b), 2, Len(Quoted(b)) - 1) = b
<1> DEFINE q == <<Quote>>
           u == q \o b
           w == u \o q
<1>0. PICK n \in Nat : n = Len(b)
  BY LenProperties
<1>1. q \in Seq(A) /\ Len(q) = 1 /\ q[1] = Quote
  OBVIOUS
<1> HIDE DEF q
<1>2. u \in Seq(A) /\ Len(u) = n + 1 /\ u[1] = Quote
  BY <1>0, <1>1, JoinsConcat DEF Joins
<1>3. SubSeq(u, Len(q) + 1, Len(q) + Len(b)) = b
  BY <1>1, SecondPart
<1> HIDE DEF u
<1>4. SubSeq(u, 2, n + 1) = b
  <2>1. Len(q) + 1 = 2 /\ Len(q) + Len(b) = n + 1
    BY <1>0, <1>1
  <2> QED
    BY <1>3, <2>1
<1>5. w \in Seq(A) /\ Len(w) = n + 2 /\ \A i \in 1 .. n + 1 : w[i] = u[i]
  <2>1. w \in Seq(A) /\ Joins(w, u, q)
    BY <1>1, <1>2, JoinsConcat
  <2> HIDE DEF w
  <2> QED
    BY <1>1, <1>2, <2>1 DEF Joins
<1> HIDE DEF w
<1>6. SubSeq(w, 2, n + 1) = SubSeq(u, 2, n + 1)
  <2> DEFINE a == SubSeq(w, 2, n + 1)
             c == SubSeq(u, 2, n + 1)
  <2>1. PICK i \in Nat, j \in Nat : i = 2 /\ j = n + 1 /\ j - i + 1 = n
    OBVIOUS
  <2>2. /\ i \in 1 .. Len(w) + 1 /\ j \in i - 1 .. Len(w) /\ i \in 1 .. Len(u) + 1 /\ j \in i - 1 .. Len(u)
        /\ \A k \in 1 .. n : i + k - 1 \in 1 .. n + 1
    BY <1>2, <1>5, <2>1
  <2>3. /\ SubSeq(w, i, j) \in Seq(A) /\ Len(SubSeq(w, i, j)) = n
        /\ \A k \in 1 .. n : SubSeq(w, i, j)[k] = w[i + k - 1]
    BY <1>5, <2>1, <2>2, SubSeqProperties
  <2>4. /\ SubSeq(u, i, j) \in Seq(A) /\ Len(SubSeq(u, i, j)) = n
        /\ \A k \in 1 .. n : SubSeq(u, i, j)[k] = u[i + k - 1]
    BY <1>2, <2>1, <2>2, SubSeqProperties
  <2>5. a = SubSeq(w, i, j) /\ c = SubSeq(u, i, j)
    BY <2>1
  <2> HIDE DEF a, c
  <2>6. /\ a \in Seq(A) /\ Len(a) = n /\ \A k \in 1 .. n : a[k] = w[i + k - 1]
        /\ c \in Seq(A) /\ Len(c) = n /\ \A k \in 1 .. n : c[k] = u[i + k - 1]
    BY <2>3, <2>4, <2>5
  <2>7. \A k \in 1 .. n : a[k] = c[k]
    BY <1>5, <2>2, <2>6
  <2>8. a = c
    BY <2>6, <2>7, SeqEqual
  <2> QED
    BY <2>8 DEF a, c
<1>7. w # <<>> /\ w[1] = Quote /\ SubSeq(w, 2, Len(w) - 1) = b
  <2>1. w # <<>>
    BY <1>5, EmptySeq
  <2>2. w[1] = Quote
    BY <1>2, <1>5
  <2>3. Len(w) - 1 = n + 1
    BY <1>5
  <2> QED
    BY <1>4, <1>6, <2>1, <2>2, <2>3
<1>8. Quoted(b) = w
  BY Zenon DEF Quoted, w, u, q
<1> QED
  BY <1>5, <1>7, <1>8

LEMMA FindSymbol ==
  ASSUME NEW A, NEW s \in Seq(A), NEW c \in A, NEW from \in Nat \ {0}, NEW p \in from .. Len(s),
         s[p] = c, \A i \in from .. p - 1 : s[i] # c
  PROVE  find(s, <<c>>, from) = p
<1> DEFINE t == <<c>>
<1>1. t \in Seq(A) /\ Len(t) = 1
  OBVIOUS
<1>2. \A i \in Nat : At(s, t, i) <=> s[i] = c
  BY AtOne
<1> HIDE DEF t
<1>3. PICK n \in Nat : n = Len(s)
  BY LenProperties
<1>4. p \in from .. (Len(s) - Len(t) + 1) /\ p \in Nat /\ \A i \in from .. p - 1 : i \in Nat
  BY <1>1, <1>3
<1>5. At(s, t, p) /\ \A i \in from .. p - 1 : ~At(s, t, i)
  BY <1>2, <1>4
<1>6. find(s, t, from) = p
  BY <1>1, <1>4, <1>5, FindFirst
<1> QED
  BY <1>6 DEF t

-----------------------------------------------------------------------------
(* Blocks: lines that end, and the pieces they are cut into.               *)

\* Two line ends, one after the other: the end of a head.
HeadEnd == <<CRLF, CRLF>>

\* d begins with the lines of b and a blank one.
Headed(d, b) ==
  Len(b) + 1 <= Len(d) /\ (\A i \in 1 .. Len(b) : d[i] = b[i]) /\ d[Len(b) + 1] = CRLF

\* The first blank line is the one behind the head.
LEMMA EndFound ==
  ASSUME NEW A, CRLF \in A, NEW b \in Seq(A), Ended(b), NEW d \in Seq(A), Headed(d, b)
  PROVE  find(d, HeadEnd, 1) = Len(b)
<1>0. PICK m \in Nat, n \in Nat : m = Len(b) /\ n = Len(d)
  BY LenProperties
<1>1. /\ m # 0 /\ b[m] = CRLF
      /\ \A i \in 1 .. m - 1 : ~(b[i] = CRLF /\ b[i + 1] = CRLF)
  BY <1>0 DEF Ended
<1>2. m + 1 <= n /\ (\A i \in 1 .. m : d[i] = b[i]) /\ d[m + 1] = CRLF
  BY <1>0 DEF Headed
<1>3. HeadEnd \in Seq(A) /\ Len(HeadEnd) = 2
  BY DEF HeadEnd
<1>4. \A i \in Nat : At(d, HeadEnd, i) <=> d[i] = CRLF /\ d[i + 1] = CRLF
  BY AtTwo DEF HeadEnd
<1>5. At(d, HeadEnd, m)
  <2>1. m \in 1 .. m
    BY <1>1
  <2> QED
    BY <1>1, <1>2, <1>4, <2>1
<1>6. \A i \in 1 .. m - 1 : ~At(d, HeadEnd, i)
  <2> TAKE i \in 1 .. m - 1
  <2>1. i \in Nat /\ i \in 1 .. m /\ i + 1 \in 1 .. m
    OBVIOUS
  <2> QED
    BY <1>1, <1>2, <1>4, <2>1
<1>7. PICK one \in Nat \ {0} : one = 1
  OBVIOUS
<1>8. m \in one .. (Len(d) - Len(HeadEnd) + 1) /\ \A i \in one .. m - 1 : ~At(d, HeadEnd, i)
  BY <1>0, <1>1, <1>2, <1>3, <1>6, <1>7
<1>9. find(d, HeadEnd, one) = m
  BY <1>3, <1>5, <1>8, FindFirst
<1> QED
  BY <1>0, <1>7, <1>9

LEMMA LineEndUnmarked ==
  ASSUME NEW A, CRLF \in A
  PROVE  /\ <<CRLF>> \in Seq(A) /\ Len(<<CRLF>>) = 1 /\ <<CRLF>>[1] = CRLF
         /\ \A w : Unmarked(<<CRLF>>, w)
<1> DEFINE e == <<CRLF>>
<1>1. e \in Seq(A) /\ Len(e) = 1 /\ e[1] = CRLF
  OBVIOUS
<1> HIDE DEF e
<1>2. ASSUME NEW w PROVE Unmarked(e, w)
  BY <1>1 DEF Unmarked, Mark
<1> QED
  BY <1>1, <1>2 DEF e

\* All pieces but the last stay as they are, and the last gets no shorter.
Keeps(r, p) ==
  /\ Len(r) >= Len(p) /\ \A i \in 1 .. Len(p) - 1 : r[i] = p[i]
  /\ Len(r[Len(p)]) >= Len(p[Len(p)])

LEMMA PieceKeeps ==
  ASSUME NEW A, NEW q \in Seq(Seq(A)), NEW u \in Seq(A), NEW c \in A, NEW d
  PROVE  Keeps(Piece(Append(q, u), c, d), Append(q, u))
<1> DEFINE p == Append(q, u)
           r == Piece(p, c, d)
<1>0. PICK n \in Nat : n = Len(q)
  BY LenProperties
<1>1. p \in Seq(Seq(A)) /\ Len(p) = n + 1 /\ p[n + 1] = u /\ \A i \in 1 .. n : p[i] = q[i]
  BY <1>0, AppendProperties
<1>2. Len(u) \in Nat
  BY LenProperties
<1>3. CASE c = d
  <2>1. r = Append(p, <<>>)
    BY <1>3, PieceNew
  <2> HIDE DEF p, r
  <2>2. Len(r) = n + 2 /\ \A i \in 1 .. n + 1 : r[i] = p[i]
    BY <1>1, <2>1, EmptySeq, AppendProperties
  <2>3. n + 2 >= n + 1 /\ n + 1 \in 1 .. n + 1 /\ (n + 1) - 1 = n /\ \A i \in 1 .. n : i \in 1 .. n + 1
    OBVIOUS
  <2>4. Len(r) >= Len(p) /\ r[n + 1] = u
    BY <1>1, <2>2, <2>3
  <2>5. \A i \in 1 .. n : r[i] = p[i]
    BY <2>2, <2>3
  <2>6. Keeps(r, p)
    BY <1>1, <1>2, <2>3, <2>4, <2>5 DEF Keeps
  <2> QED
    BY <2>6 DEF p, r
<1>4. CASE c # d
  <2> DEFINE e == Append(u, c)
  <2>1. r = Append(q, e)
    BY <1>4, PieceLast
  <2>2. e \in Seq(A) /\ Len(e) = Len(u) + 1
    BY AppendProperties
  <2> HIDE DEF e, p, r
  <2>3. Len(r) = n + 1 /\ r[n + 1] = e /\ \A i \in 1 .. n : r[i] = q[i]
    BY <1>0, <2>1, <2>2, AppendProperties
  <2> QED
    BY <1>1, <1>2, <2>2, <2>3 DEF Keeps, p, r
<1> QED
  BY <1>3, <1>4

LEMMA KeepsOn ==
  ASSUME NEW A, NEW p \in Seq(Seq(A)), NEW q \in Seq(Seq(A)), NEW r \in Seq(Seq(A)), Len(p) # 0,
         Keeps(q, p), Keeps(r, q)
  PROVE  Keeps(r, p)
<1>1. PICK n \in Nat : n = Len(p)
  BY LenProperties
<1>2. PICK m \in Nat : m = Len(q)
  BY LenProperties
<1>3. PICK k \in Nat : k = Len(r)
  BY LenProperties
<1>4. n # 0 /\ m >= n /\ k >= m
  BY <1>1, <1>2, <1>3 DEF Keeps
<1>5. \A i \in 1 .. n - 1 : r[i] = p[i]
  <2>1. \A i \in 1 .. n - 1 : q[i] = p[i]
    BY <1>1 DEF Keeps
  <2>2. \A i \in 1 .. m - 1 : r[i] = q[i]
    BY <1>2 DEF Keeps
  <2>3. \A i \in 1 .. n - 1 : i \in 1 .. m - 1
    BY <1>4
  <2> QED
    BY <2>1, <2>2, <2>3
<1>6. p[n] \in Seq(A) /\ q[n] \in Seq(A) /\ r[n] \in Seq(A)
  BY <1>1, <1>2, <1>3, <1>4, ElementOfSeq
<1>7. Len(p[n]) \in Nat /\ Len(q[n]) \in Nat /\ Len(r[n]) \in Nat
  BY <1>6, LenProperties
<1>8. Len(q[n]) >= Len(p[n])
  BY <1>1 DEF Keeps
<1>9. Len(r[n]) >= Len(q[n])
  <2>1. CASE n = m
    BY <1>2, <2>1 DEF Keeps
  <2>2. CASE n # m
    <3>1. n \in 1 .. m - 1
      BY <1>4, <2>2
    <3> QED
      BY <1>2, <1>7, <3>1 DEF Keeps
  <2> QED
    BY <2>1, <2>2
<1>10. k >= n /\ Len(r[n]) >= Len(p[n])
  <2>1. k >= n
    BY <1>4
  <2>2. ASSUME NEW a \in Nat, NEW b \in Nat, NEW c \in Nat, b >= a, c >= b PROVE c >= a
    BY <2>2
  <2> QED
    BY <1>7, <1>8, <1>9, <2>1, <2>2
<1> QED
  BY <1>1, <1>3, <1>5, <1>10, Zenon DEF Keeps

\* What was split off stays split off, whatever follows.
LEMMA SplitKeeps ==
  ASSUME NEW A, NEW d, NEW s \in Seq(A), NEW t \in Seq(A)
  PROVE  Splitting(A, split(s \o t, d)) /\ Keeps(split(s \o t, d), split(s, d))
<1> DEFINE p == split(s, d)
           T == {v \in Seq(A) : Keeps(split(s \o v, d), p)}
<1>1. p \in Seq(Seq(A)) /\ Len(p) \in Nat \ {0}
  BY SplitType DEF Splitting
<1>2. <<>> \in T
  <2>1. s \o <<>> = s /\ <<>> \in Seq(A)
    BY ConcatEmptySeq, EmptySeq
  <2>2. p[Len(p)] \in Seq(A)
    BY <1>1, ElementOfSeq
  <2>3. Len(p[Len(p)]) \in Nat
    BY <2>2, LenProperties
  <2> HIDE DEF p
  <2>4. Keeps(p, p)
    BY <1>1, <2>3 DEF Keeps
  <2> QED
    BY <2>1, <2>4 DEF p
<1>3. ASSUME NEW v \in Seq(A), NEW c \in A, v \in T PROVE Append(v, c) \in T
  <2>1. s \o v \in Seq(A) /\ s \o Append(v, c) = Append(s \o v, c) /\ Append(v, c) \in Seq(A)
    BY ConcatProperties, ConcatAppend, AppendProperties
  <2> DEFINE w == s \o v
             r == split(w, d)
  <2>2. w \in Seq(A) /\ split(Append(w, c), d) = Piece(r, c, d)
    BY <2>1, SplitAppend
  <2>3. r \in Seq(Seq(A)) /\ Len(r) \in Nat \ {0} /\ Splitting(A, r)
    BY <2>2, SplitType DEF Splitting
  <2>4. Keeps(r, p)
    BY <1>3
  <2> HIDE DEF w, r, p
  <2>5. PICK q \in Seq(Seq(A)), u \in Seq(A) : r = Append(q, u)
    BY <2>3, EmptySeq, SequenceEmptyOrAppend
  <2>6. Keeps(Piece(r, c, d), r)
    BY <2>5, PieceKeeps
  <2>7. Piece(r, c, d) \in Seq(Seq(A))
    BY <2>3, SplittingMore DEF Splitting
  <2>8. Keeps(Piece(r, c, d), p)
    BY <1>1, <2>3, <2>4, <2>6, <2>7, KeepsOn
  <2> QED
    BY <2>1, <2>2, <2>8 DEF w, p
<1> HIDE DEF T
<1>4. t \in T
  BY <1>2, <1>3, SeqInduct
<1>5. s \o t \in Seq(A)
  BY ConcatProperties
<1> QED
  BY <1>4, <1>5, SplitType DEF T, p

\* What a header line says, without its end.
Written(h) == h.name \o <<":", " ">> \o h.value

Writtens(headers) == [i \in DOMAIN headers |-> Written(headers[i])]

LEMMA WrittenIs ==
  ASSUME NEW A, Colon \in A, Blank \in A, CRLF \in A, NEW h \in HeaderOf(A)
  PROVE  /\ Written(h) \in Seq(A \ {CRLF}) /\ Written(h) # <<>>
         /\ HeaderLine(h) = Written(h) \o <<CRLF>>
         /\ h.name \o <<Colon, Blank>> \in Seq(A \ {CRLF})
         /\ Written(h) = (h.name \o <<Colon, Blank>>) \o h.value
<1> DEFINE B == A \ {CRLF}
           n == h.name
           v == h.value
           e == <<Colon, Blank>>
<1>1. n \in Seq(A \ {CRLF, Colon}) /\ v \in Seq(B)
  BY DEF HeaderOf
<1>2. Colon \in B /\ Blank \in B /\ A \ {CRLF, Colon} \subseteq B
  BY SeparatorsDiffer
<1>3. Written(h) = (n \o e) \o v
  BY Zenon DEF Written, Colon, Blank
<1>4. HeaderLine(h) = Written(h) \o <<CRLF>>
  BY Zenon DEF Written, HeaderLine
<1> HIDE DEF B, n, v
<1>5. n \in Seq(B) /\ e \in Seq(B) /\ Len(e) = 2
  BY <1>1, <1>2, SeqMonotonic
<1> HIDE DEF e
<1>6. n \o e \in Seq(B) /\ Len(n \o e) = Len(n) + 2 /\ Len(n) \in Nat
  <2>1. n \o e \in Seq(B) /\ Len(n \o e) = Len(n) + Len(e)
    BY <1>5, ConcatProperties
  <2>2. Len(n) \in Nat
    BY <1>5, LenProperties
  <2> QED
    BY <1>5, <2>1, <2>2
<1>7. (n \o e) \o v \in Seq(B) /\ Len((n \o e) \o v) = Len(n \o e) + Len(v) /\ Len(v) \in Nat
  BY <1>1, <1>6, ConcatProperties, LenProperties
<1>8. Len((n \o e) \o v) # 0
  BY <1>6, <1>7
<1>9. Written(h) # <<>>
  BY <1>3, <1>8, EmptySeq
<1> QED
  BY <1>3, <1>4, <1>6, <1>7, <1>9 DEF B, n, v, e

LEMMA WrittensAppend ==
  ASSUME NEW A, Colon \in A, Blank \in A, CRLF \in A, NEW hs \in Seq(HeaderOf(A)), NEW h \in HeaderOf(A)
  PROVE  /\ Writtens(hs) \in Seq(Seq(A \ {CRLF}) \ {<<>>})
         /\ Writtens(Append(hs, h)) = Append(Writtens(hs), Written(h))
<1> DEFINE B == Seq(A \ {CRLF}) \ {<<>>}
           more == Append(hs, h)
<1>0. PICK n \in Nat : n = Len(hs)
  BY LenProperties
<1>1. DOMAIN hs = 1 .. n /\ \A i \in 1 .. n : hs[i] \in HeaderOf(A)
  BY <1>0, LenProperties, ElementOfSeq
<1>2. /\ DOMAIN more = 1 .. n + 1 /\ more[n + 1] = h /\ \A i \in 1 .. n : more[i] = hs[i]
  <2>1. /\ more \in Seq(HeaderOf(A)) /\ Len(more) = n + 1 /\ more[n + 1] = h
        /\ \A i \in 1 .. n : more[i] = hs[i]
    BY <1>0, AppendProperties
  <2> HIDE DEF more
  <2> QED
    BY <2>1, LenProperties
<1>3. \A i \in 1 .. n : Written(hs[i]) \in B
  BY <1>1, WrittenIs
<1>4. Written(h) \in B
  BY WrittenIs
<1> HIDE DEF B, more
<1>5. Writtens(hs) \in [1 .. n -> B] /\ \A i \in 1 .. n : Writtens(hs)[i] = Written(hs[i])
  BY <1>1, <1>3 DEF Writtens
<1>6. /\ DOMAIN Writtens(more) = 1 .. n + 1
      /\ \A i \in 1 .. n + 1 : Writtens(more)[i] = Written(more[i])
  BY <1>2 DEF Writtens
<1>7. \A i \in 1 .. n + 1 : Written(more[i]) \in B
  <2> TAKE i \in 1 .. n + 1
  <2>1. CASE i = n + 1
    BY <1>2, <1>4, <2>1
  <2>2. CASE i # n + 1
    <3>1. i \in 1 .. n
      BY <2>2
    <3> QED
      BY <1>2, <1>3, <3>1
  <2> QED
    BY <2>1, <2>2
<1>8. Writtens(more) \in [1 .. n + 1 -> B]
  <2>1. Writtens(more) = [i \in 1 .. n + 1 |-> Written(more[i])]
    BY <1>2 DEF Writtens
  <2> QED
    BY <1>7, <2>1
<1>9. \A i \in 1 .. n : Writtens(more)[i] = Writtens(hs)[i]
  BY <1>2, <1>5, <1>6
<1>10. Writtens(hs) \in Seq(B) /\ Writtens(more) = Append(Writtens(hs), Writtens(more)[n + 1])
  BY <1>5, <1>8, <1>9, OneMore
<1>11. Writtens(more)[n + 1] = Written(h)
  BY <1>2, <1>6
<1> QED
  BY <1>10, <1>11 DEF B, more

LEMMA WrittensAre ==
  ASSUME NEW A, Colon \in A, Blank \in A, CRLF \in A, NEW hs \in Seq(HeaderOf(A))
  PROVE  /\ Writtens(hs) \in Seq(Seq(A \ {CRLF}) \ {<<>>}) /\ Len(Writtens(hs)) = Len(hs)
         /\ \A i \in 1 .. Len(hs) : Writtens(hs)[i] = Written(hs[i])
<1> DEFINE B == Seq(A \ {CRLF}) \ {<<>>}
<1>0. PICK n \in Nat : n = Len(hs)
  BY LenProperties
<1>1. DOMAIN hs = 1 .. n /\ \A i \in 1 .. n : hs[i] \in HeaderOf(A)
  BY <1>0, LenProperties, ElementOfSeq
<1>2. \A i \in 1 .. n : Written(hs[i]) \in B
  BY <1>1, WrittenIs
<1> HIDE DEF B
<1>3. Writtens(hs) \in [1 .. n -> B] /\ \A i \in 1 .. n : Writtens(hs)[i] = Written(hs[i])
  BY <1>1, <1>2 DEF Writtens
<1>4. Writtens(hs) \in Seq(B) /\ Len(Writtens(hs)) = n
  BY <1>3, FunctionIsSeq
<1> QED
  BY <1>0, <1>3, <1>4 DEF B

LEMMA WrittensNone == Writtens(<<>>) = <<>>
<1>1. DOMAIN <<>> = {}
  OBVIOUS
<1> QED
  BY <1>1 DEF Writtens

LEMMA SplitEnd ==
  ASSUME NEW A, NEW d \in A, NEW s \in Seq(A)
  PROVE  split(Append(s, d), d) = Append(split(s, d), <<>>)
BY SplitAppend, PieceNew

\* A head comes apart into its lines.
LEMMA BlockSplits ==
  ASSUME NEW A, Colon \in A, Blank \in A, CRLF \in A, NEW first \in Seq(A \ {CRLF}),
         NEW hs \in Seq(HeaderOf(A))
  PROVE  EndsIn(Block(first \o <<CRLF>>, hs), CRLF, <<first>> \o Writtens(hs), <<>>)
<1> DEFINE H == HeaderOf(A)
           F == first \o <<CRLF>>
           L(gs) == <<first>> \o Writtens(gs)
           T == {gs \in Seq(H) : EndsIn(Block(F, gs), CRLF, L(gs), <<>>)}
           W == Seq(A \ {CRLF})
<1>1. first \in Seq(A) /\ F = Append(first, CRLF) /\ F \in Seq(A) /\ W \subseteq Seq(A)
  BY SeqMonotonic, AppendIsConcat, AppendProperties
<1>2. <<first>> \in Seq(Seq(A))
  BY <1>1
<1>3. \A gs \in Seq(H) : Writtens(gs) \in Seq(Seq(A)) /\ L(gs) \in Seq(Seq(A))
  <2> TAKE gs \in Seq(H)
  <2>1. Writtens(gs) \in Seq(W \ {<<>>})
    BY WrittensAre
  <2>2. W \ {<<>>} \subseteq Seq(A)
    BY <1>1
  <2> HIDE DEF W
  <2>3. Writtens(gs) \in Seq(Seq(A))
    BY <2>1, <2>2, SeqMonotonic
  <2> QED
    BY <1>2, <2>3, ConcatProperties
<1>4. <<>> \in T
  <2>1. L(<<>>) = <<first>>
    BY <1>2, WrittensNone, ConcatEmptySeq
  <2>2. Block(F, <<>>) = F
    BY <1>1, BlockNone
  <2>3. EndsIn(first, CRLF, <<>>, first)
    BY SplitOnce
  <2>4. Append(<<>>, first) = <<first>>
    OBVIOUS
  <2>5. split(Append(first, CRLF), CRLF) = Append(<<first>>, <<>>)
    <3>1. split(Append(first, CRLF), CRLF) = Append(split(first, CRLF), <<>>)
      BY <1>1, SplitEnd
    <3> QED
      BY <2>3, <2>4, <3>1, Zenon DEF EndsIn
  <2>6. EndsIn(Block(F, <<>>), CRLF, L(<<>>), <<>>)
    BY <1>1, <2>1, <2>2, <2>5, Zenon DEF EndsIn
  <2>7. <<>> \in Seq(H)
    BY EmptySeq
  <2> QED
    BY <2>6, <2>7
<1>5. ASSUME NEW gs \in Seq(H), NEW h \in H, gs \in T PROVE Append(gs, h) \in T
  <2> DEFINE b == Block(F, gs)
             l == L(gs)
             w == Written(h)
             none == <<>>
  <2>1. EndsIn(b, CRLF, l, none)
    BY <1>5
  <2>2. b \in Seq(A) /\ Block(F, Append(gs, h)) = b \o HeaderLine(h)
    BY <1>1, BlockAppend
  <2>3. w \in W /\ HeaderLine(h) = w \o <<CRLF>>
    BY WrittenIs
  <2>4. Writtens(Append(gs, h)) = Append(Writtens(gs), w)
    BY WrittensAppend
  <2>5. w \in Seq(A) /\ <<CRLF>> \in Seq(A)
    BY <1>1, <2>3
  <2>6. l \in Seq(Seq(A)) /\ none \in Seq(A)
    BY <1>3, EmptySeq
  <2>7. L(Append(gs, h)) = Append(l, w)
    <3>1. Writtens(gs) \in Seq(Seq(A))
      BY <1>3
    <3> DEFINE g == Writtens(gs)
    <3> HIDE DEF g, w
    <3>2. <<first>> \o Append(g, w) = Append(<<first>> \o g, w)
      BY <1>2, <2>5, <3>1, ConcatAppend DEF g
    <3> QED
      BY <2>4, <3>2 DEF g
  <2>8. none \o w = w
    BY <2>5, ConcatEmptySeq
  <2> HIDE DEF b, l, w, L
  <2>9. EndsIn(b \o w, CRLF, l, none \o w)
    BY <2>1, <2>2, <2>3, <2>6, SplitSegment
  <2>10. split(b \o w, CRLF) = Append(l, w)
    BY <2>8, <2>9 DEF EndsIn
  <2>11. b \o w \in Seq(A) /\ b \o (w \o <<CRLF>>) = Append(b \o w, CRLF)
    <3>1. b \o w \in Seq(A)
      BY <2>2, <2>5, ConcatProperties
    <3>2. Associate(b, w, <<CRLF>>)
      BY <2>2, <2>5, Associates
    <3>3. (b \o w) \o <<CRLF>> = Append(b \o w, CRLF)
      BY <3>1, AppendIsConcat
    <3> QED
      BY <3>1, <3>2, <3>3 DEF Associate
  <2>12. split(Append(b \o w, CRLF), CRLF) = Append(Append(l, w), <<>>)
    <3> DEFINE t == b \o w
    <3>1. t \in Seq(A)
      BY <2>11
    <3> HIDE DEF t
    <3>2. split(Append(t, CRLF), CRLF) = Append(split(t, CRLF), <<>>)
      BY <3>1, SplitEnd
    <3> QED
      BY <2>10, <3>2, Zenon DEF t
  <2>13. EndsIn(Block(F, Append(gs, h)), CRLF, L(Append(gs, h)), none)
    BY <2>2, <2>3, <2>7, <2>11, <2>12, Zenon DEF EndsIn, none
  <2>14. Append(gs, h) \in Seq(H)
    BY AppendProperties
  <2> QED
    BY <2>13, <2>14 DEF none
<1> HIDE DEF T, H
<1>6. hs \in T
  BY <1>4, <1>5, SeqInduct DEF H
<1> QED
  BY <1>6 DEF T

LEMMA BlockType ==
  ASSUME NEW A, Colon \in A, Blank \in A, CRLF \in A, NEW first \in Seq(A), NEW hs \in Seq(HeaderOf(A))
  PROVE  Block(first, hs) \in Seq(A)
<1> DEFINE h == [name |-> <<Blank>>, value |-> <<>>]
           n == <<Blank>>
<1>1. Blank \in A \ {CRLF, Colon}
  BY SeparatorsDiffer
<1>2. n \in Seq(A \ {CRLF, Colon}) /\ n # <<>> /\ <<>> \in Seq(A \ {CRLF})
  BY <1>1
<1> HIDE DEF n
<1>3. [name |-> n, value |-> <<>>] \in HeaderOf(A)
  BY <1>2 DEF HeaderOf
<1> QED
  BY <1>3, BlockAppend

\* getline reads on where the first ':' stands.
LEMMA LinePieces ==
  ASSUME NEW A, Colon \in A, Blank \in A, CRLF \in A, NEW h \in HeaderOf(A)
  PROVE  Len(getlines(Written(h), Colon)) >= 2 /\ getlines(Written(h), Colon)[1] = h.name
<1> DEFINE n == h.name
           v == h.value
           s == n \o <<Colon, Blank>>
           p == Append(<<n>>, <<Blank>>)
           r == split(Written(h), Colon)
           g == getlines(Written(h), Colon)
<1>1. n \in Seq(A \ {Colon}) /\ v \in Seq(A)
  <2>1. n \in Seq(A \ {CRLF, Colon}) /\ v \in Seq(A \ {CRLF})
    BY DEF HeaderOf
  <2>2. A \ {CRLF, Colon} \subseteq A \ {Colon} /\ A \ {CRLF} \subseteq A
    OBVIOUS
  <2> QED
    BY <2>1, <2>2, SeqMonotonic
<1>2. n \in Seq(A) /\ <<Blank>> \in Seq(A \ {Colon})
  <2>1. Blank \in A \ {Colon}
    BY SeparatorsDiffer
  <2> QED
    BY <1>1, <2>1, SeqMonotonic
<1>3. split(s, Colon) = p
  <2>1. split(n \o (<<Colon>> \o <<Blank>>), Colon) = Append(split(n, Colon), <<Blank>>)
    BY <1>1, <1>2, SplitMore
  <2>2. split(n, Colon) = <<n>>
    <3>1. EndsIn(n, Colon, <<>>, n)
      BY <1>1, SplitOnce
    <3>2. Append(<<>>, n) = <<n>>
      OBVIOUS
    <3> QED
      BY <3>1, <3>2, Zenon DEF EndsIn
  <2>3. <<Colon>> \o <<Blank>> = <<Colon, Blank>>
    <3>1. Append(<<Colon>>, Blank) = <<Colon, Blank>>
      BY Both
    <3>2. Append(<<Colon>>, Blank) = <<Colon>> \o <<Blank>>
      BY AppendIsConcat
    <3> QED
      BY <3>1, <3>2
  <2> QED
    BY <2>1, <2>2, <2>3, Zenon
<1>4. s \in Seq(A)
  BY <1>2, ConcatProperties
<1>5. Written(h) = s \o v
  BY WrittenIs
<1> HIDE DEF s
<1>6. Splitting(A, r) /\ Keeps(r, p)
  BY <1>1, <1>3, <1>4, <1>5, SplitKeeps
<1>7. Len(p) = 2 /\ p[1] = n /\ Len(p[2]) = 1
  <2> DEFINE b == <<Blank>>
  <2>1. b \in Seq(A) /\ Len(b) = 1
    OBVIOUS
  <2> HIDE DEF b, n
  <2>2. Append(<<n>>, b) = <<n, b>>
    BY <1>2, <2>1, Both
  <2>3. p = <<n, b>>
    BY <2>2 DEF b
  <2> HIDE DEF p
  <2> QED
    BY <2>1, <2>3
<1> HIDE DEF p, r
<1>8. r \in Seq(Seq(A)) /\ Len(r) \in Nat /\ Len(r) >= 2 /\ r[1] = n /\ Len(r[2]) >= 1
  <2>1. r \in Seq(Seq(A)) /\ Len(r) \in Nat
    BY <1>6 DEF Splitting
  <2>2. Len(r) >= 2 /\ \A i \in 1 .. 2 - 1 : r[i] = p[i]
    BY <1>6, <1>7 DEF Keeps
  <2>3. Len(r[2]) >= 1
    BY <1>6, <1>7 DEF Keeps
  <2> QED
    BY <1>7, <2>1, <2>2, <2>3
<1>9. PICK q \in Seq(Seq(A)), u \in Seq(A) : r = Append(q, u)
  BY <1>8, EmptySeq, SequenceEmptyOrAppend
<1>10. PICK m \in Nat : m = Len(q)
  BY LenProperties
<1>11. Len(r) = m + 1 /\ r[m + 1] = u /\ \A i \in 1 .. m : r[i] = q[i]
  BY <1>9, <1>10, AppendProperties
<1>12. m >= 1 /\ q[1] = n
  BY <1>8, <1>11
<1>13. g = IF u = <<>> THEN q ELSE r
  <2>1. EndsIn(Written(h), Colon, q, u)
    BY <1>9 DEF EndsIn, r
  <2>2. LinesAre(Written(h), Colon, q, u)
    BY <2>1, GetlinesIs
  <2> QED
    BY <1>9, <2>2, Zenon DEF LinesAre
<1> HIDE DEF g
<1>14. CASE u = <<>>
  <2>1. Len(u) = 0
    BY <1>14
  <2>2. m # 1
    BY <1>8, <1>11, <2>1
  <2>3. Len(g) >= 2 /\ g[1] = n
    BY <1>10, <1>12, <1>13, <1>14, <2>2
  <2> QED
    BY <2>3 DEF g, n
<1>15. CASE u # <<>>
  BY <1>8, <1>13, <1>15 DEF g, n
<1> QED
  BY <1>14, <1>15

LEMMA LineSplits ==
  ASSUME NEW A, NEW d \in A, NEW B, B = A \ {d}, NEW m \in B, NEW h \in B,
         NEW c1 \in B, NEW c2 \in B, NEW c3 \in B, NEW c4 \in B,
         NEW c5 \in B, NEW c6 \in B, NEW c7 \in B, NEW c8 \in B
  PROVE  LET s == <<m, d, c1, c2, c3, c4, c5, c6, c7, c8, d, h>>
         IN  s \in Seq(A) /\ LinesAre(s, d, << <<m>>, <<c1, c2, c3, c4, c5, c6, c7, c8>> >>, <<h>>)
<1> DEFINE s == <<m, d, c1, c2, c3, c4, c5, c6, c7, c8, d, h>>
           f == <<m>>
           p == <<c1, c2, c3, c4, c5, c6, c7, c8>>
           e == <<h>>
           g == <<d>>
           dp == <<d, c1, c2, c3, c4, c5, c6, c7, c8>>
           de == <<d, h>>
           fp == <<m, d, c1, c2, c3, c4, c5, c6, c7, c8>>
<1>1. f \in Seq(B) /\ p \in Seq(B) /\ e \in Seq(B) /\ Len(f) = 1 /\ Len(p) = 8 /\ Len(e) = 1
  OBVIOUS
<1>2. m \in A /\ h \in A /\ c1 \in A /\ c2 \in A /\ c3 \in A /\ c4 \in A /\ c5 \in A /\ c6 \in A /\ c7 \in A /\ c8 \in A
  OBVIOUS
<1>3. /\ s \in Seq(A) /\ g \in Seq(A) /\ dp \in Seq(A) /\ de \in Seq(A) /\ fp \in Seq(A)
      /\ Len(s) = 12 /\ Len(g) = 1 /\ Len(dp) = 9 /\ Len(de) = 2 /\ Len(fp) = 10
  BY <1>2
<1>4. f \in Seq(A) /\ p \in Seq(A) /\ e \in Seq(A)
  BY <1>2
<1>5. Joins(dp, g, p)
  BY <1>1, <1>3 DEF Joins
<1>6. Joins(de, g, e)
  BY <1>1, <1>3 DEF Joins
<1>7. Joins(fp, f, dp)
  <2>1. fp[1] = f[1]
    OBVIOUS
  <2>2. \A j \in 1 .. 9 : fp[1 + j] = dp[j]
    OBVIOUS
  <2> HIDE DEF f, fp, dp
  <2> QED
    BY <1>1, <1>3, <2>1, <2>2 DEF Joins
<1>8. Joins(s, fp, de)
  <2>1. \A j \in 1 .. 10 : s[j] = fp[j]
    OBVIOUS
  <2>2. s[11] = de[1] /\ s[12] = de[2]
    OBVIOUS
  <2> HIDE DEF s, fp, de
  <2>3. \A j \in 1 .. 2 : s[10 + j] = de[j]
    BY <2>2
  <2> QED
    BY <1>3, <2>1, <2>3 DEF Joins
<1> HIDE DEF s, f, p, e, g, dp, de, fp
<1>9. dp = g \o p /\ de = g \o e /\ fp = f \o dp /\ s = fp \o de
  <2>1. dp = g \o p
    BY <1>3, <1>4, <1>5, JoinedAre
  <2>2. de = g \o e
    BY <1>3, <1>4, <1>6, JoinedAre
  <2>3. fp = f \o dp
    BY <1>3, <1>4, <1>7, JoinedAre
  <2>4. s = fp \o de
    BY <1>3, <1>8, JoinedAre
  <2> QED
    BY <2>1, <2>2, <2>3, <2>4
<1>10. split(fp, d) = Append(split(f, d), p)
  <2>1. split(f \o (<<d>> \o p), d) = Append(split(f, d), p)
    BY <1>1, <1>4, SplitMore
  <2> QED
    BY <1>9, <2>1 DEF g
<1>11. split(s, d) = Append(split(fp, d), e)
  <2>1. split(fp \o (<<d>> \o e), d) = Append(split(fp, d), e)
    BY <1>1, <1>3, SplitMore
  <2> QED
    BY <1>9, <2>1 DEF g
<1>12. split(f, d) = Append(<<>>, f)
  <2>1. EndsIn(f, d, <<>>, f)
    BY <1>1, SplitOnce
  <2> QED
    BY <2>1 DEF EndsIn
<1>13. Append(Append(<<>>, f), p) = <<f, p>> /\ <<f, p>> \in Seq(Seq(A))
  <2>1. Append(<<>>, f) = <<f>>
    OBVIOUS
  <2>2. Append(<<f>>, p) = <<f, p>>
    BY <1>4, Both
  <2> QED
    BY <1>4, <2>1, <2>2
<1>14. EndsIn(s, d, <<f, p>>, e)
  BY <1>10, <1>11, <1>12, <1>13, Zenon DEF EndsIn
<1>15. LinesAre(s, d, <<f, p>>, e)
  BY <1>4, <1>13, <1>14, GetlinesIs
<1>16. s \in Seq(A)
  BY <1>3
<1> QED
  BY <1>15, <1>16, Zenon DEF s, f, p, e

PathSplit(s, d, f, t) == split(s, d)[1] = f /\ From(s, 4) = t

LEMMA PathSplits ==
  ASSUME NEW A, NEW d \in A, NEW B, B = A \ {d}, NEW c1 \in B, NEW c2 \in B,
         NEW c4 \in A, NEW c5 \in A, NEW c6 \in A, NEW c7 \in A, NEW c8 \in A
  PROVE  PathSplit(<<c1, c2, d, c4, c5, c6, c7, c8>>, d, <<c1, c2>>, <<c4, c5, c6, c7, c8>>)
<1> DEFINE s == <<c1, c2, d, c4, c5, c6, c7, c8>>
           f == <<c1, c2>>
           fd == <<c1, c2, d>>
           t == <<c4, c5, c6, c7, c8>>
           none == <<>>
<1>1. c1 \in A /\ c2 \in A /\ f \in Seq(A \ {d}) /\ Len(f) = 2
  OBVIOUS
<1>2. f \in Seq(A) /\ fd \in Seq(A) /\ t \in Seq(A) /\ s \in Seq(A)
  BY <1>1
<1>3. Len(fd) = 3 /\ Len(t) = 5 /\ Len(s) = 8
  BY <1>1
<1>4. Joins(s, fd, t)
  <2>1. \A j \in 1 .. 3 : s[j] = fd[j]
    OBVIOUS
  <2>2. \A j \in 1 .. 5 : s[3 + j] = t[j]
    OBVIOUS
  <2> HIDE DEF s, fd, t
  <2> QED
    BY <1>3, <2>1, <2>2 DEF Joins
<1>5. fd = Append(f, d)
  BY <1>1
<1>6. From(s, 4) = SubSeq(s, 4, 8)
  BY <1>3 DEF From
<1> HIDE DEF s, f, fd, t
<1>7. s = fd \o t
  BY <1>2, <1>4, JoinedAre
<1>8. split(fd, d) = <<f, none>>
  <2>1. split(Append(f, d), d) = Append(split(f, d), none)
    BY <1>2, SplitEnd
  <2>2. EndsIn(f, d, none, f)
    BY <1>1, SplitOnce
  <2>3. Append(none, f) = <<f>>
    OBVIOUS
  <2>4. none \in Seq(A)
    BY EmptySeq
  <2> HIDE DEF none
  <2>5. Append(<<f>>, none) = <<f, none>>
    BY <1>2, <2>4, Both
  <2> QED
    BY <1>5, <2>1, <2>2, <2>3, <2>5, Zenon DEF EndsIn
<1>9. Keeps(split(s, d), <<f, none>>)
  <2>1. Keeps(split(fd \o t, d), split(fd, d))
    BY <1>2, SplitKeeps
  <2> QED
    BY <1>7, <1>8, <2>1, Zenon
<1>10. split(s, d)[1] = f
  <2> DEFINE p == <<f, none>>
             r == split(s, d)
  <2>1. Len(p) = 2 /\ p[1] = f
    OBVIOUS
  <2> HIDE DEF p, r
  <2>2. Keeps(r, p)
    BY <1>9 DEF p, r
  <2>3. 1 \in 1 .. Len(p) - 1
    BY <2>1
  <2>4. r[1] = p[1]
    BY <2>2, <2>3 DEF Keeps
  <2> QED
    BY <2>1, <2>4 DEF r
<1>11. From(s, 4) = t
  <2> DEFINE x == SubSeq(s, 4, 8)
  <2>1. 4 \in 1 .. Len(s) + 1 /\ 8 \in 4 - 1 .. Len(s)
    BY <1>3
  <2>2. x \in Seq(A) /\ Len(x) = 8 - 4 + 1 /\ \A j \in 1 .. 8 - 4 + 1 : x[j] = s[4 + j - 1]
    BY <1>2, <2>1, SubSeqProperties
  <2> HIDE DEF x
  <2>3. \A j \in 1 .. 5 : x[j] = t[j]
    <3> TAKE j \in 1 .. 5
    <3>1. 4 + j - 1 = 3 + j /\ j \in 1 .. 8 - 4 + 1 /\ j \in 1 .. Len(t)
      BY <1>3
    <3>2. s[Len(fd) + j] = t[j]
      BY <1>4, <3>1 DEF Joins
    <3> QED
      BY <1>3, <2>2, <3>1, <3>2
  <2>4. Len(x) = Len(t) /\ Len(x) = 5
    BY <1>3, <2>2
  <2>5. \A j \in 1 .. Len(x) : x[j] = t[j]
    BY <2>3, <2>4
  <2>6. x = t
    BY <1>2, <2>2, <2>4, <2>5, SeqEqual
  <2> QED
    BY <1>6, <2>6 DEF x
<1> QED
  BY <1>10, <1>11, Zenon DEF s, f, t, PathSplit

LEMMA QueryPieces ==
  ASSUME NEW A, NEW a, NEW e \in A, a \notin A, NEW b \in A \ {e}, NEW x \in A \ {e}, NEW y \in A \ {e},
         NEW z \in A \ {e}
  PROVE  LET s == <<b, e, x, y, z>>
         IN  NonEmpty(getlines(s, a)) = <<s>> /\ getlines(s, e) = << <<b>>, <<x, y, z>> >>
<1> DEFINE s == <<b, e, x, y, z>>
           f == <<b>>
           g == <<e>>
           t == <<x, y, z>>
           fg == <<b, e>>
<1>1. s \in Seq(A) /\ f \in Seq(A \ {e}) /\ g \in Seq(A) /\ t \in Seq(A \ {e}) /\ fg \in Seq(A)
  OBVIOUS
<1>2. f \in Seq(A) /\ t \in Seq(A) /\ s # <<>> /\ t # <<>> /\ Len(s) = 5 /\ Len(fg) = 2 /\ Len(t) = 3
  OBVIOUS
<1>3. fg = Append(f, e)
  OBVIOUS
<1>4. Joins(s, fg, t)
  <2>1. \A j \in 1 .. 2 : s[j] = fg[j]
    OBVIOUS
  <2>2. \A j \in 1 .. 3 : s[2 + j] = t[j]
    OBVIOUS
  <2> HIDE DEF s, fg, t
  <2> QED
    BY <1>2, <2>1, <2>2 DEF Joins
<1> HIDE DEF s, f, g, t, fg
<1>5. s = f \o g \o t
  <2>1. s = fg \o t
    BY <1>1, <1>2, <1>4, JoinedAre
  <2>2. fg = f \o g
    BY <1>2, <1>3, AppendIsConcat DEF g
  <2> QED
    BY <2>1, <2>2
<1>6. getlines(s, e) = <<f, t>>
  <2>1. LinesAre(f \o <<e>> \o t, e, <<f>>, t)
    BY <1>1, SidesOf
  <2>2. LinesAre(s, e, <<f>>, t)
    BY <1>5, <2>1, Zenon DEF g
  <2>3. Append(<<f>>, t) = <<f, t>>
    BY <1>2, Both
  <2> QED
    BY <1>2, <2>2, <2>3, Zenon DEF LinesAre
<1>7. NonEmpty(getlines(s, a)) = <<s>>
  <2> DEFINE C == A \cup {a}
             none == <<>>
  <2>1. C \ {a} = A /\ A \subseteq C
    OBVIOUS
  <2> HIDE DEF C
  <2>2. s \in Seq(C \ {a}) /\ s \in Seq(C)
    BY <1>1, <2>1, SeqMonotonic
  <2>3. EndsIn(s, a, none, s)
    BY <2>2, SplitOnce
  <2>4. none \in Seq(Seq(C)) /\ Append(none, s) = <<s>>
    OBVIOUS
  <2> HIDE DEF none
  <2>5. LinesAre(s, a, none, s)
    BY <2>2, <2>3, <2>4, GetlinesIs
  <2>6. getlines(s, a) = <<s>>
    BY <1>2, <2>4, <2>5, Zenon DEF LinesAre
  <2>7. <<s>> \in Seq(Seq(A) \ {<<>>})
    BY <1>1, <1>2
  <2>8. NonEmpty(<<s>>) = <<s>>
    BY <2>7, NothingSkipped
  <2> QED
    BY <2>6, <2>8
<1> QED
  BY <1>6, <1>7, Zenon DEF s, f, t

LEMMA BlockEnded ==
  ASSUME NEW A, Colon \in A, Blank \in A, CRLF \in A, NEW first \in Seq(A), Ended(first),
         NEW hs \in Seq(HeaderOf(A))
  PROVE  Block(first, hs) \in Seq(A) /\ Ended(Block(first, hs))
<1> DEFINE H == HeaderOf(A)
           T == {t \in Seq(H) : Ended(Block(first, t))}
<1>1. <<>> \in T
  <2>1. <<>> \in Seq(H)
    BY EmptySeq
  <2>2. Block(first, <<>>) = first
    BY BlockNone
  <2> QED
    BY <2>1, <2>2
<1>2. ASSUME NEW t \in Seq(H), NEW h \in H, t \in T PROVE Append(t, h) \in T
  <2> DEFINE s == Block(first, t)
             l == HeaderLine(h)
             u == s \o l
  <2>1. s \in Seq(A) /\ Block(first, Append(t, h)) = u
    BY BlockAppend
  <2>2. Ended(s)
    BY <1>2
  <2>3. l \in Seq(A) /\ LineShape(l, h)
    BY LineIs
  <2>4. Ended(l)
    BY <2>3, LineEnded
  <2> HIDE DEF s, l
  <2>5. Joins(u, s, l)
    BY <2>1, <2>3, JoinsConcat
  <2> HIDE DEF u
  <2>6. Ended(u)
    BY <2>1, <2>2, <2>3, <2>4, <2>5, EndedJoins
  <2>7. Append(t, h) \in Seq(H)
    BY AppendProperties
  <2> QED
    BY <2>1, <2>6, <2>7
<1> HIDE DEF T, H
<1>3. hs \in T
  BY <1>1, <1>2, SeqInduct DEF H
<1> QED
  BY <1>3, BlockType DEF T

-----------------------------------------------------------------------------
(* Lists whose later pieces a blank leads, and names divided from values.  *)

Equals == "="

\* A leading blank is trimmed away.
LEMMA TrimLed ==
  ASSUME NEW A, NEW s \in Seq(A), NEW b \in A, b \in Blanks
  PROVE  trim(<<b>> \o s) = trim(s)
<1> DEFINE u == <<b>> \o s
           S == {i \in DOMAIN s : s[i] \notin Blanks}
           U == {i \in DOMAIN u : u[i] \notin Blanks}
<1>0. PICK n \in Nat : n = Len(s) /\ DOMAIN s = 1 .. n
  BY LenProperties
<1>1. u \in Seq(A) /\ Len(u) = n + 1 /\ u[1] = b /\ (\A i \in 1 .. n : u[i + 1] = s[i]) /\ DOMAIN u = 1 .. n + 1
  BY <1>0
<1>2. trim(s) = IF S = {} THEN <<>> ELSE SubSeq(s, Min(S), Max(S))
  BY Zenon DEF trim, Blanks
<1>3. trim(u) = IF U = {} THEN <<>> ELSE SubSeq(u, Min(U), Max(U))
  BY Zenon DEF trim, Blanks
<1> HIDE DEF u
<1>4. \A i \in U : i \in 1 .. n + 1 /\ i # 1 /\ i - 1 \in S
  <2> TAKE i \in U
  <2>1. i \in 1 .. n + 1 /\ u[i] \notin Blanks
    BY <1>1
  <2>2. i # 1
    BY <1>1, <2>1
  <2>3. i - 1 \in 1 .. n /\ (i - 1) + 1 = i
    BY <2>1, <2>2
  <2>4. u[i] = s[i - 1]
    BY <1>1, <2>3
  <2> QED
    BY <1>0, <2>1, <2>2, <2>3, <2>4
<1>5. \A i \in S : i \in 1 .. n /\ i + 1 \in U
  BY <1>0, <1>1
<1> HIDE DEF S, U
<1>6. ASSUME S = {} PROVE trim(u) = trim(s)
  BY <1>2, <1>3, <1>4, <1>6
<1>7. ASSUME S # {} PROVE trim(u) = trim(s)
  <2>1. U # {} /\ U \subseteq 1 .. n + 1 /\ S \subseteq 1 .. n /\ U \subseteq Nat /\ S \subseteq Nat /\ n + 1 \in Nat
    BY <1>4, <1>5, <1>7
  <2>2. /\ Min(S) \in S /\ \A x \in S : Min(S) <= x
        /\ Max(S) \in S /\ \A x \in S : x <= Max(S)
    BY <1>7, <2>1, Smallest, Greatest
  <2>3. /\ Min(U) \in U /\ \A x \in U : Min(U) <= x
        /\ Max(U) \in U /\ \A x \in U : x <= Max(U)
    BY <2>1, Smallest, Greatest
  <2> DEFINE a == Min(S)
             c == Max(S)
  <2>4. a \in S /\ c \in S /\ (\A x \in S : a <= x /\ x <= c)
    BY <2>2
  <2>5. Min(U) = a + 1
    <3> DEFINE m == Min(U)
    <3>1. m \in U /\ \A x \in U : m <= x
      BY <2>3
    <3> HIDE DEF m, a, c
    <3>2. m \in 1 .. n + 1 /\ m - 1 \in S /\ a + 1 \in U /\ a \in 1 .. n
      BY <1>4, <1>5, <2>4, <3>1
    <3>3. a <= m - 1 /\ m <= a + 1
      BY <2>4, <3>1, <3>2
    <3>4. m = a + 1
      BY <3>2, <3>3
    <3> QED
      BY <3>4 DEF m
  <2>6. Max(U) = c + 1
    <3> DEFINE m == Max(U)
    <3>1. m \in U /\ \A x \in U : x <= m
      BY <2>3
    <3> HIDE DEF m, a, c
    <3>2. m \in 1 .. n + 1 /\ m - 1 \in S /\ c + 1 \in U /\ c \in 1 .. n
      BY <1>4, <1>5, <2>4, <3>1
    <3>3. m - 1 <= c /\ c + 1 <= m
      BY <2>4, <3>1, <3>2
    <3>4. m = c + 1
      BY <3>2, <3>3
    <3> QED
      BY <3>4 DEF m
  <2>7. a \in 1 .. n /\ c \in 1 .. n /\ a <= c
    BY <1>5, <2>4
  <2>8. trim(s) = SubSeq(s, a, c) /\ trim(u) = SubSeq(u, a + 1, c + 1)
    BY <1>2, <1>3, <1>7, <2>1, <2>5, <2>6
  <2> HIDE DEF a, c
  <2> DEFINE v == SubSeq(s, a, c)
             w == SubSeq(u, a + 1, c + 1)
  <2>9. a \in 1 .. Len(s) + 1 /\ c \in a - 1 .. Len(s)
    BY <1>0, <2>7
  <2>10. v \in Seq(A) /\ Len(v) = c - a + 1 /\ \A k \in 1 .. c - a + 1 : v[k] = s[a + k - 1]
    BY <2>9, SubSeqProperties
  <2>11. a + 1 \in 1 .. Len(u) + 1 /\ c + 1 \in (a + 1) - 1 .. Len(u) /\ (c + 1) - (a + 1) + 1 = c - a + 1
    BY <1>1, <2>7
  <2>12. w \in Seq(A) /\ Len(w) = (c + 1) - (a + 1) + 1 /\ \A k \in 1 .. (c + 1) - (a + 1) + 1 : w[k] = u[(a + 1) + k - 1]
    BY <1>1, <2>11, SubSeqProperties
  <2> HIDE DEF v, w
  <2>13. Len(v) = Len(w)
    BY <2>10, <2>11, <2>12
  <2>14. ASSUME NEW k \in 1 .. Len(v) PROVE v[k] = w[k]
    <3>1. k \in 1 .. c - a + 1
      BY <2>10
    <3>2. v[k] = s[a + k - 1] /\ w[k] = u[(a + 1) + k - 1]
      BY <2>10, <2>11, <2>12, <3>1
    <3>3. a + k - 1 \in 1 .. n /\ (a + 1) + k - 1 = (a + k - 1) + 1
      BY <2>7, <3>1
    <3> QED
      BY <1>1, <3>2, <3>3
  <2>15. v = w
    BY <2>10, <2>12, <2>13, <2>14, SeqEqual
  <2> QED
    BY <2>8, <2>15 DEF v, w
<1> QED
  BY <1>6, <1>7 DEF u

\* What stands on the two sides of the first sign.
Divides(s, e, x, v) ==
  LET p == find(s, <<e>>, 1)
  IN  p # 0 /\ SubSeq(s, 1, p - 1) = x /\ From(s, p + 1) = v

LEMMA SignDivides ==
  ASSUME NEW A, NEW e \in A, NEW x \in Seq(A \ {e}), NEW v \in Seq(A)
  PROVE  Divides(x \o (<<e>> \o v), e, x, v)
<1> DEFINE y == <<e>> \o v
           s == x \o y
<1>0. PICK n \in Nat, m \in Nat : n = Len(x) /\ m = Len(v)
  BY LenProperties
<1>1. x \in Seq(A) /\ \A i \in 1 .. n : x[i] # e
  <2>1. x \in Seq(A)
    BY SeqMonotonic
  <2>2. \A i \in 1 .. n : x[i] \in A \ {e}
    BY <1>0, ElementOfSeq
  <2> QED
    BY <2>1, <2>2
<1>2. y \in Seq(A) /\ Len(y) = m + 1 /\ y[1] = e /\ \A i \in 1 .. m : y[i + 1] = v[i]
  BY <1>0
<1> HIDE DEF y
<1>3. s \in Seq(A) /\ Len(s) = n + m + 1 /\ (\A i \in 1 .. n : s[i] = x[i]) /\ \A i \in 1 .. m + 1 : s[n + i] = y[i]
  <2>1. s \in Seq(A) /\ Joins(s, x, y)
    BY <1>1, <1>2, JoinsConcat
  <2> HIDE DEF s
  <2> QED
    BY <1>0, <1>2, <2>1 DEF Joins
<1> HIDE DEF s
<1>4. s[n + 1] = e
  BY <1>2, <1>3
<1>5. find(s, <<e>>, 1) = n + 1
  <2> DEFINE t == <<e>>
             p == n + 1
  <2>1. t \in Seq(A) /\ Len(t) = 1
    OBVIOUS
  <2>2. At(s, t, p)
    BY <1>4, AtOne
  <2>3. \A i \in 1 .. p - 1 : ~At(s, t, i)
    <3> TAKE i \in 1 .. p - 1
    <3>1. i \in Nat /\ i \in 1 .. n
      OBVIOUS
    <3>2. s[i] # e
      BY <1>1, <1>3, <3>1
    <3> QED
      BY <3>1, <3>2, AtOne
  <2> HIDE DEF t
  <2>4. p \in 1 .. (Len(s) - Len(t) + 1) /\ 1 \in Nat \ {0}
    BY <1>3, <2>1
  <2> HIDE DEF p
  <2>5. s \in Seq(A) /\ t \in Seq(A)
    BY <1>3, <2>1
  <2>6. find(s, t, 1) = p
    BY <2>2, <2>3, <2>4, <2>5, FindFirst, Zenon
  <2> QED
    BY <2>6 DEF t, p
<1>6. SubSeq(s, 1, n) = x
  <2> DEFINE w == SubSeq(s, 1, n)
  <2>1. w \in Seq(A) /\ Len(w) = n /\ \A i \in 1 .. n : w[i] = s[i]
    BY <1>3, SubSeqProperties
  <2> HIDE DEF w
  <2>2. Len(w) = Len(x) /\ \A i \in 1 .. Len(w) : w[i] = x[i]
    BY <1>0, <1>3, <2>1
  <2>3. w = x
    BY <1>1, <2>1, <2>2, SeqEqual
  <2> QED
    BY <2>3 DEF w
<1>7. SubSeq(s, n + 2, n + m + 1) = v
  <2> DEFINE i == n + 2
             j == n + m + 1
             w == SubSeq(s, i, j)
  <2>1. i \in 1 .. Len(s) + 1 /\ j \in i - 1 .. Len(s) /\ j - i + 1 = m
    BY <1>3
  <2>2. \A k \in 1 .. m : i + k - 1 = n + (k + 1) /\ k + 1 \in 1 .. m + 1
    OBVIOUS
  <2> HIDE DEF i, j
  <2>3. w \in Seq(A) /\ Len(w) = j - i + 1 /\ \A k \in 1 .. j - i + 1 : w[k] = s[i + k - 1]
    BY <1>3, <2>1, SubSeqProperties
  <2> HIDE DEF w
  <2>4. \A k \in 1 .. m : w[k] = v[k]
    BY <1>2, <1>3, <2>1, <2>2, <2>3
  <2>5. Len(w) = Len(v) /\ \A k \in 1 .. Len(w) : w[k] = v[k]
    BY <1>0, <2>1, <2>3, <2>4
  <2>6. w = v
    BY <2>3, <2>5, SeqEqual
  <2> QED
    BY <2>6 DEF w, i, j
<1>8. From(s, n + 2) = v
  BY <1>3, <1>7 DEF From
<1>9. n + 1 # 0 /\ (n + 1) - 1 = n /\ (n + 1) + 1 = n + 2
  OBVIOUS
<1> QED
  BY <1>5, <1>6, <1>8, <1>9 DEF s, y, Divides

\* The pieces, as they stand between the semicolons.
Led(i, t) == IF i = 1 THEN t ELSE <<Blank>> \o t

LedMore(texts, t) == IF texts = <<>> THEN t ELSE <<Blank>> \o t

LedItems(texts) == [i \in DOMAIN texts |-> Led(i, texts[i])]

LEMMA LedAppend ==
  ASSUME NEW W, \A t \in W : <<Blank>> \o t \in W,
         NEW T \in Seq(W), NEW e \in W
  PROVE  /\ LedItems(T) \in Seq(W) /\ LedItems(Append(T, e)) \in Seq(W)
         /\ LedItems(Append(T, e)) = Append(LedItems(T), LedMore(T, e))
<1> DEFINE V == Append(T, e)
           more == LedMore(T, e)
           f == LedItems(T)
           g == LedItems(V)
<1>0. PICK n \in Nat : n = Len(T)
  BY LenProperties
<1>1. /\ DOMAIN T = 1 .. n /\ DOMAIN V = 1 .. n + 1 /\ V[n + 1] = e
      /\ \A i \in 1 .. n : V[i] = T[i] /\ T[i] \in W
      /\ \A i \in 1 .. n + 1 : V[i] \in W
  <2>1. V \in Seq(W) /\ Len(V) = n + 1 /\ V[n + 1] = e /\ \A i \in 1 .. n : V[i] = T[i]
    BY <1>0, AppendProperties
  <2> HIDE DEF V
  <2> QED
    BY <1>0, <2>1, LenProperties, ElementOfSeq
<1>2. \A i, t : t \in W => Led(i, t) \in W
  BY DEF Led
<1>3. n = 0 <=> T = <<>>
  BY <1>0, EmptySeq
<1> HIDE DEF V
<1>4. f \in [1 .. n -> W] /\ \A i \in 1 .. n : f[i] = Led(i, T[i])
  BY <1>1, <1>2 DEF LedItems
<1>5. /\ g \in [1 .. n + 1 -> W]
      /\ \A i \in 1 .. n + 1 : g[i] = Led(i, V[i])
  BY <1>1, <1>2 DEF LedItems
<1> HIDE DEF f, g
<1>6. \A i \in 1 .. n : g[i] = f[i]
  BY <1>1, <1>4, <1>5
<1>7. f \in Seq(W) /\ g \in Seq(W) /\ g = Append(f, g[n + 1])
  BY <1>4, <1>5, <1>6, OneMore
<1>8. g[n + 1] = more
  <2>1. g[n + 1] = Led(n + 1, e)
    BY <1>1, <1>5
  <2>2. n + 1 = 1 <=> T = <<>>
    BY <1>3
  <2> QED
    BY <2>1, <2>2, Zenon DEF Led, LedMore
<1> HIDE DEF more
<1> QED
  BY <1>7, <1>8, Zenon DEF f, g, V, more

LEMMA FirstPiece ==
  ASSUME NEW A, NEW d \in A, NEW s \in Seq(A \ {d}), NEW t \in Seq(A)
  PROVE  split(s \o (<<d>> \o t), d)[1] = s
<1> DEFINE u == Append(s, d)
           e == <<d>>
           none == <<>>
           p == split(u, d)
           r == split(u \o t, d)
<1>1. s \in Seq(A) /\ e \in Seq(A) /\ none \in Seq(A) /\ u \in Seq(A) /\ u = s \o e
  BY SeqMonotonic, AppendProperties, AppendIsConcat
<1>2. s \o (e \o t) = u \o t
  <2>1. Associate(s, e, t)
    BY <1>1, Associates
  <2> QED
    BY <1>1, <2>1, Zenon DEF Associate
<1>3. p = Append(<<s>>, none)
  <2>1. split(s, d) = Append(<<>>, s)
    BY SplitOnce DEF EndsIn
  <2>2. Append(<<>>, s) = <<s>>
    OBVIOUS
  <2>3. split(u, d) = Append(split(s, d), <<>>)
    BY <1>1, SplitEnd
  <2> QED
    BY <2>1, <2>2, <2>3, Zenon
<1>4. Keeps(r, p)
  <2> HIDE DEF u
  <2> QED
    BY <1>1, SplitKeeps
<1>5. Len(p) = 2 /\ p[1] = s
  <2>1. <<s>> \in Seq(Seq(A)) /\ Len(<<s>>) = 1 /\ <<s>>[1] = s
    BY <1>1
  <2> DEFINE f == <<s>>
  <2>2. f \in Seq(Seq(A)) /\ Len(f) = 1 /\ f[1] = s
    BY <2>1
  <2> HIDE DEF f, p, none
  <2>3. p = Append(f, none)
    BY <1>3 DEF f
  <2> DEFINE W == Seq(A)
  <2>4. none \in W /\ f \in Seq(W)
    BY <1>1, <2>2
  <2> HIDE DEF W
  <2>5. Len(Append(f, none)) = Len(f) + 1 /\ \A k \in 1 .. Len(f) : Append(f, none)[k] = f[k]
    BY <2>4, AppendProperties
  <2> QED
    BY <2>2, <2>3, <2>5
<1> HIDE DEF p, r
<1>6. r[1] = s
  BY <1>4, <1>5 DEF Keeps
<1> QED
  BY <1>2, <1>6 DEF e, r

-----------------------------------------------------------------------------
(* Where a text does not stand.                                            *)

\* All of t stands in s at i.
Stands(s, t, i) == i + Len(t) - 1 <= Len(s) /\ At(s, t, i)

Free(s, t) == \A i \in 1 .. Len(s) : ~Stands(s, t, i)

\* A boundary is one line.
LEMMA FreeJoins ==
  ASSUME NEW A, CRLF \in A, NEW u \in Seq(A), NEW v \in Seq(A), NEW t \in Seq(A \ {CRLF}), t # <<>>,
         Free(u, t), Free(v, t)
  PROVE  Free((u \o <<CRLF>>) \o v, t)
<1> DEFINE k == <<CRLF>>
           x == u \o k
           w == x \o v
<1>0. PICK p \in Nat, q \in Nat, m \in Nat : p = Len(u) /\ q = Len(v) /\ m = Len(t) /\ m # 0
  BY LenProperties, EmptySeq
<1>1. k \in Seq(A) /\ Len(k) = 1 /\ k[1] = CRLF
  OBVIOUS
<1> HIDE DEF k
<1>2. x \in Seq(A) /\ Joins(x, u, k)
  BY <1>1, JoinsConcat
<1> HIDE DEF x
<1>3. Len(x) = p + 1 /\ x[p + 1] = CRLF /\ \A i \in 1 .. p : x[i] = u[i]
  BY <1>0, <1>1, <1>2 DEF Joins
<1>4. w \in Seq(A) /\ Joins(w, x, v)
  BY <1>2, JoinsConcat
<1> HIDE DEF w
<1>5. /\ Len(w) = p + 1 + q /\ \A i \in 1 .. p + 1 : w[i] = x[i]
      /\ \A j \in 1 .. q : w[p + 1 + j] = v[j]
  BY <1>0, <1>3, <1>4 DEF Joins
<1>6. w[p + 1] = CRLF /\ \A i \in 1 .. p : w[i] = u[i]
  BY <1>3, <1>5
<1>7. \A j \in 1 .. m : t[j] # CRLF
  <2>1. \A j \in 1 .. m : t[j] \in A \ {CRLF}
    BY <1>0, ElementOfSeq
  <2> QED
    BY <2>1
<1>8. ASSUME NEW i \in 1 .. p + 1 + q, i + m - 1 <= p + 1 + q, At(w, t, i) PROVE FALSE
  <2>1. \A j \in 1 .. m : w[i + j - 1] = t[j]
    BY <1>0, <1>8 DEF At
  <2>2. CASE i + m - 1 <= p
    <3>1. \A j \in 1 .. m : i + j - 1 \in 1 .. p
      BY <2>2
    <3>2. \A j \in 1 .. m : u[i + j - 1] = t[j]
      BY <1>6, <2>1, <3>1
    <3>3. i \in 1 .. Len(u) /\ i + Len(t) - 1 <= Len(u)
      BY <1>0, <2>2
    <3> QED
      BY <1>0, <3>2, <3>3 DEF Free, Stands, At
  <2>3. CASE i <= p + 1 /\ ~(i + m - 1 <= p)
    <3>1. p + 2 - i \in 1 .. m /\ i + (p + 2 - i) - 1 = p + 1
      BY <2>3
    <3>2. w[p + 1] = t[p + 2 - i]
      BY <2>1, <3>1
    <3> QED
      BY <1>6, <1>7, <3>1, <3>2
  <2>4. CASE ~(i <= p + 1)
    <3>1. PICK l \in 1 .. q : i = p + 1 + l
      <4>1. i - p - 1 \in 1 .. q /\ i = p + 1 + (i - p - 1)
        BY <2>4
      <4> QED
        BY <4>1
    <3>2. l + m - 1 <= q
      BY <1>8, <3>1
    <3>3. \A j \in 1 .. m : l + j - 1 \in 1 .. q /\ i + j - 1 = p + 1 + (l + j - 1)
      BY <3>1, <3>2
    <3>4. \A j \in 1 .. m : v[l + j - 1] = t[j]
      BY <1>5, <2>1, <3>3
    <3> QED
      BY <1>0, <3>2, <3>4 DEF Free, Stands, At
  <2> QED
    BY <2>2, <2>3, <2>4
<1>9. Free(w, t)
  BY <1>0, <1>5, <1>8 DEF Free, Stands
<1> QED
  BY <1>9 DEF w, x, k

LEMMA FreeNone == ASSUME NEW t PROVE Free(<<>>, t)
BY DEF Free

LEMMA FreeLine ==
  ASSUME NEW A, CRLF \in A, NEW u \in Seq(A), NEW t \in Seq(A \ {CRLF}), t # <<>>, Free(u, t)
  PROVE  Free(u \o <<CRLF>>, t)
<1> DEFINE x == u \o <<CRLF>>
           none == <<>>
<1>1. <<CRLF>> \in Seq(A) /\ none \in Seq(A)
  BY EmptySeq
<1>2. x \in Seq(A)
  BY <1>1, ConcatProperties
<1>3. Free(x \o none, t)
  BY <1>1, FreeNone, FreeJoins
<1> HIDE DEF x
<1>4. x \o none = x
  BY <1>2, ConcatEmptySeq
<1> QED
  BY <1>3, <1>4 DEF x

Dash == "-"

\* What begins with a dash does not stand where there is none.
LEMMA FreeWithout ==
  ASSUME NEW A, NEW s \in Seq(A \ {Dash}), NEW t, NEW m \in Nat, m = Len(t), m # 0, t[1] = Dash
  PROVE  Free(s, t)
<1>0. PICK n \in Nat : n = Len(s)
  BY LenProperties
<1> SUFFICES ASSUME NEW i \in 1 .. n, At(s, t, i) PROVE FALSE
  BY <1>0 DEF Free, Stands
<1>1. s[i] \in A \ {Dash}
  BY <1>0, ElementOfSeq
<1>2. 1 \in 1 .. m /\ i + 1 - 1 = i
  OBVIOUS
<1>3. s[i] = t[1]
  BY <1>2 DEF At
<1> QED
  BY <1>1, <1>3

Line == <<CRLF>>

Opening(q) == <<"-", "-">> \o q.boundary

Preamble(q) == IF q.preamble THEN <<"a", CRLF>> ELSE <<>>

Begins(r, d) == Len(d) <= Len(r) /\ \A j \in 1 .. Len(d) : r[j] = d[j]

LEMMA BeginsIs == ASSUME NEW A, NEW d \in Seq(A), NEW z \in Seq(A) PROVE Begins(d \o z, d)
<1>0. PICK m \in Nat, n \in Nat : m = Len(d) /\ n = Len(z)
  BY LenProperties
<1>1. Joins(d \o z, d, z)
  BY JoinsConcat
<1> DEFINE r == d \o z
<1> HIDE DEF r
<1>2. Joins(r, d, z)
  BY <1>1 DEF r
<1>3. Begins(r, d)
  BY <1>0, <1>2 DEF Joins, Begins
<1> QED
  BY <1>3 DEF r

\* A boundary as they are in forms: one line that begins with a dash.
IsDelimiter(A, d) == d \in Seq(A \ {CRLF}) /\ d \in Seq(A) /\ d # <<>> /\ d[1] = Dash

\* A field stands in t behind k symbols, and r behind it.
FieldShape(t, k, d, P, r) ==
  LET m == Len(d)
      l == Len(P)
  IN  /\ Len(t) = k + m + 1 + l + Len(r)
      /\ \A j \in 1 .. m : t[k + j] = d[j]
      /\ t[k + m + 1] = CRLF
      /\ \A j \in 1 .. l : t[k + m + 1 + j] = P[j]
      /\ \A j \in 1 .. Len(r) : t[k + m + 1 + l + j] = r[j]

LEMMA FieldStands ==
  ASSUME NEW A, CRLF \in A, NEW x \in Seq(A), NEW d \in Seq(A), NEW P \in Seq(A), NEW r \in Seq(A)
  PROVE  LET F == d \o (Line \o P)
         IN  /\ F \in Seq(A) /\ Len(F) = Len(d) + 1 + Len(P) /\ Begins(F \o r, d)
             /\ x \o (F \o r) \in Seq(A)
             /\ FieldShape(x \o (F \o r), Len(x), d, P, r)
<1> DEFINE u == Line \o P
           F == d \o u
           v == F \o r
           t == x \o v
<1>0. PICK k \in Nat, m \in Nat, l \in Nat, n \in Nat : k = Len(x) /\ m = Len(d) /\ l = Len(P) /\ n = Len(r)
  BY LenProperties
<1>1. Line \in Seq(A) /\ Len(Line) = 1 /\ Line[1] = CRLF
  BY DEF Line
<1>2. u \in Seq(A) /\ Joins(u, Line, P)
  BY <1>1, JoinsConcat
<1> HIDE DEF u
<1>3. Len(u) = 1 + l /\ u[1] = CRLF /\ \A j \in 1 .. l : u[1 + j] = P[j]
  BY <1>0, <1>1, <1>2 DEF Joins
<1>4. F \in Seq(A) /\ Joins(F, d, u)
  BY <1>2, JoinsConcat
<1> HIDE DEF F
<1>5. /\ Len(F) = m + (1 + l) /\ \A j \in 1 .. m : F[j] = d[j]
      /\ \A j \in 1 .. 1 + l : F[m + j] = u[j]
  BY <1>0, <1>3, <1>4 DEF Joins
<1>6. v \in Seq(A) /\ Joins(v, F, r)
  BY <1>4, JoinsConcat
<1> HIDE DEF v
<1>7. /\ Len(v) = m + (1 + l) + n /\ \A j \in 1 .. m + (1 + l) : v[j] = F[j]
      /\ \A j \in 1 .. n : v[m + (1 + l) + j] = r[j]
  BY <1>0, <1>5, <1>6 DEF Joins
<1>8. t \in Seq(A) /\ Joins(t, x, v)
  BY <1>6, JoinsConcat
<1> HIDE DEF t
<1>9. Len(t) = k + (m + (1 + l) + n) /\ \A j \in 1 .. m + (1 + l) + n : t[k + j] = v[j]
  BY <1>0, <1>7, <1>8 DEF Joins
<1>10. \A j \in 1 .. m : v[j] = d[j]
  BY <1>5, <1>7
<1>11. Begins(v, d)
  BY <1>0, <1>7, <1>10 DEF Begins
<1>12. \A j \in 1 .. m : t[k + j] = d[j]
  BY <1>9, <1>10
<1>13. t[k + m + 1] = CRLF
  <2>1. m + 1 \in 1 .. m + (1 + l) + n /\ m + 1 \in 1 .. m + (1 + l) /\ 1 \in 1 .. 1 + l
        /\ k + (m + 1) = k + m + 1
    OBVIOUS
  <2>2. t[k + (m + 1)] = v[m + 1] /\ v[m + 1] = F[m + 1] /\ F[m + 1] = u[1]
    BY <1>5, <1>7, <1>9, <2>1
  <2> QED
    BY <1>3, <2>1, <2>2
<1>14. \A j \in 1 .. l : t[k + m + 1 + j] = P[j]
  <2> TAKE j \in 1 .. l
  <2>1. /\ m + (1 + j) \in 1 .. m + (1 + l) + n /\ m + (1 + j) \in 1 .. m + (1 + l) /\ 1 + j \in 1 .. 1 + l
        /\ k + (m + (1 + j)) = k + m + 1 + j
    OBVIOUS
  <2>2. t[k + (m + (1 + j))] = v[m + (1 + j)] /\ v[m + (1 + j)] = F[m + (1 + j)] /\ F[m + (1 + j)] = u[1 + j]
    BY <1>5, <1>7, <1>9, <2>1
  <2> QED
    BY <1>3, <2>1, <2>2
<1>15. \A j \in 1 .. n : t[k + m + 1 + l + j] = r[j]
  <2> TAKE j \in 1 .. n
  <2>1. /\ m + (1 + l) + j \in 1 .. m + (1 + l) + n
        /\ k + (m + (1 + l) + j) = k + m + 1 + l + j
    OBVIOUS
  <2>2. t[k + (m + (1 + l) + j)] = v[m + (1 + l) + j] /\ v[m + (1 + l) + j] = r[j]
    BY <1>7, <1>9, <2>1
  <2> QED
    BY <2>1, <2>2
<1>16. FieldShape(t, k, d, P, r)
  <2>1. Len(t) = k + m + 1 + l + n
    BY <1>9
  <2> QED
    BY <1>0, <1>12, <1>13, <1>14, <1>15, <2>1 DEF FieldShape
<1>17. Len(F) = Len(d) + 1 + Len(P)
  BY <1>0, <1>5
<1> QED
  BY <1>0, <1>4, <1>8, <1>11, <1>16, <1>17, Zenon DEF F, v, t, u

FreeTexts(A, d) == {c \in Seq(A) : Free(c, d)}

-----------------------------------------------------------------------------
(* Digits, and the escapes a client writes.                                *)

\* Lookup of a table that has one pair for each name.
Named(table, p) == Lookup(table)[p[1]] = p[2] /\ p[1] \in DOMAIN Lookup(table)

LEMMA LookupNames ==
  ASSUME NEW table, \A p, q \in table : p[1] = q[1] => p = q, NEW p \in table
  PROVE  Named(table, p)
<1>1. p[1] \in {pair[1] : pair \in table}
  OBVIOUS
<1> DEFINE q == CHOOSE pair \in table : pair[1] = p[1]
<1>2. q \in table /\ q[1] = p[1]
  OBVIOUS
<1>3. q = p
  BY <1>2
<1>4. Lookup(table)[p[1]] = q[2] /\ DOMAIN Lookup(table) = {pair[1] : pair \in table}
  BY <1>1, Zenon DEF Lookup
<1> HIDE DEF q
<1> QED
  BY <1>1, <1>3, <1>4 DEF Named

LEMMA HexDigitsNamed == \A p, q \in HexDigits : p[1] = q[1] => p = q
BY DEF HexDigits, Digits

Hex == {"0", "1", "2", "3", "4", "5", "6", "7", "8", "9", "A", "B", "C", "D", "E", "F",
        "a", "b", "c", "d", "e", "f"}

LEMMA HexDigitIs == \A h \in DOMAIN HexDigit : h \in Hex /\ HexDigit[h] \in 0 .. 15
<1>1. ASSUME NEW p \in HexDigits PROVE p[1] \in Hex /\ p[2] \in 0 .. 15
  <2>1. p[1] \in Hex
    BY DEF HexDigits, Digits, Hex
  <2>2. p[2] \in 0 .. 15
    BY DEF HexDigits, Digits
  <2> QED
    BY <2>1, <2>2
<1> SUFFICES ASSUME NEW h \in DOMAIN HexDigit PROVE h \in Hex /\ HexDigit[h] \in 0 .. 15
  OBVIOUS
<1>2. PICK p \in HexDigits : p[1] = h /\ HexDigit[h] = p[2]
  BY LookupHas DEF HexDigit
<1> QED
  BY <1>1, <1>2

\* No digit is a symbol that queries are taken apart at, or one a number begins with.
LEMMA HexIs ==
  ASSUME NEW h \in Hex
  PROVE  h # "%" /\ h # "&" /\ h # "=" /\ h # "+" /\ h # "-" /\ h # " "
BY Zenon DEF Hex

\* Both spellings have a digit for every value.
Spells(digits) == digits \subseteq DOMAIN HexDigit /\ \A d \in 0 .. 15 : \E h \in digits : HexDigit[h] = d

LEMMA CodeIs ==
  /\ \A c \in DOMAIN Code : Code[c] \in 0 .. 255
  /\ \A c, e \in DOMAIN Code : Code[c] = Code[e] => c = e
<1>1. PICK blank : Codes = { <<blank, 32>>, <<"%", 37>>, <<"&", 38>>, <<"+", 43>>, <<"=", 61>>,
                             <<"A", 65>>, <<"a", 97>> }
  BY Zenon DEF Codes
<1>2. /\ \A p \in Codes : p[2] \in 0 .. 255
      /\ \A p, q \in Codes : p[2] = q[2] => p = q
  BY <1>1
<1>3. \A c \in DOMAIN Code : \E p \in Codes : p[1] = c /\ Code[c] = p[2]
  BY LookupHas DEF Code
<1> QED
  BY <1>2, <1>3

LEMMA ByteOfCode == ASSUME NEW c \in DOMAIN Code PROVE Byte(Code[c]) = c
<1> DEFINE e == CHOOSE e \in DOMAIN Code : Code[e] = Code[c]
<1>1. e \in DOMAIN Code /\ Code[e] = Code[c]
  OBVIOUS
<1>2. e = c
  BY <1>1, CodeIs
<1>3. Byte(Code[c]) = e
  BY Zenon DEF Byte
<1> QED
  BY <1>2, <1>3

LEMMA HexPair ==
  ASSUME NEW a \in DOMAIN HexDigit, NEW b \in DOMAIN HexDigit
  PROVE  HexValue(a, b) = {16 * HexDigit[a] + HexDigit[b]}
<1>1. a # " " /\ a # "+" /\ a # "-"
  BY HexDigitIs, HexIs
<1>2. a \notin {" ", "+"}
  BY <1>1, Zenon
<1> QED
  BY <1>1, <1>2, Zenon DEF HexValue

LEMMA DigitsNamed == \A p, q \in Digits : p[1] = q[1] => p = q
BY DEF Digits

Ten == {"0", "1", "2", "3", "4", "5", "6", "7", "8", "9"}

LEMMA DigitIs ==
  /\ \A h \in DOMAIN Digit : h \in Ten /\ Digit[h] \in 0 .. 9
  /\ \A d \in 0 .. 9 : \E h \in DOMAIN Digit : Digit[h] = d
<1>1. ASSUME NEW p \in Digits PROVE p[1] \in Ten /\ p[2] \in 0 .. 9
  <2>1. p[1] \in Ten
    BY DEF Digits, Ten
  <2>2. p[2] \in 0 .. 9
    BY DEF Digits
  <2> QED
    BY <2>1, <2>2
<1>2. ASSUME NEW h \in DOMAIN Digit PROVE h \in Ten /\ Digit[h] \in 0 .. 9
  <2>1. PICK p \in Digits : p[1] = h /\ Digit[h] = p[2]
    BY LookupHas DEF Digit
  <2> QED
    BY <1>1, <2>1
<1>3. ASSUME NEW p \in Digits PROVE p[1] \in DOMAIN Digit /\ Digit[p[1]] = p[2]
  BY DigitsNamed, LookupNames DEF Digit, Named
<1>4. ASSUME NEW d \in 0 .. 9 PROVE \E h \in DOMAIN Digit : Digit[h] = d
  <2>1. \E p \in Digits : p[2] = d
    BY DEF Digits
  <2> QED
    BY <1>3, <2>1
<1> QED
  BY <1>2, <1>4

LEMMA TenIs == ASSUME NEW h \in Ten PROVE h \notin Blanks /\ h # ":" /\ h # CRLF
BY Zenon DEF Ten, Blanks, CRLF

\* Texts made of digits, with at least one.
Figures == {s \in Seq(DOMAIN Digit) : Len(s) # 0}

\* The digit for a number below ten.
Figure(d) == CHOOSE c \in DOMAIN Digit : Digit[c] = d

LEMMA FigureIs == ASSUME NEW d \in 0 .. 9 PROVE Figure(d) \in DOMAIN Digit /\ Digit[Figure(d)] = d
BY DigitIs DEF Figure

LEMMA Tenth == ASSUME NEW i \in Nat, ~(i < 10)
               PROVE  i \div 10 \in Nat /\ i \div 10 < i /\ i % 10 \in 0 .. 9 /\ 10 * (i \div 10) + (i % 10) = i
<1>1. i \div 10 \in Int /\ i % 10 \in 0 .. 9
  OBVIOUS
<1>2. 10 * (i \div 10) + (i % 10) = i
  OBVIOUS
<1> DEFINE k == i \div 10
           d == i % 10
<1>3. k \in Int /\ d \in 0 .. 9 /\ 10 * k + d = i
  BY <1>1, <1>2
<1> HIDE DEF k, d
<1>4. k \in Nat /\ k < i
  BY <1>3
<1> QED
  BY <1>3, <1>4 DEF k, d

LEMMA FiguresAre == Figure(0) = "0" /\ Figure(1) = "1"
<1>1. ASSUME NEW d \in 0 .. 9 PROVE \E p \in Digits : p[1] = Figure(d) /\ p[2] = d
  <2>1. Figure(d) \in DOMAIN Digit /\ Digit[Figure(d)] = d
    BY FigureIs
  <2> DEFINE h == Figure(d)
  <2> HIDE DEF h
  <2>2. h \in DOMAIN Lookup(Digits) /\ Lookup(Digits)[h] = d
    BY <2>1 DEF Digit, h
  <2>3. \E p \in Digits : p[1] = h /\ Lookup(Digits)[h] = p[2]
    BY <2>2, LookupHas
  <2> QED
    BY <2>2, <2>3 DEF h
<1>2. \A p \in Digits : (p[2] = 0 => p[1] = "0") /\ (p[2] = 1 => p[1] = "1")
  BY DEF Digits
<1>3. 0 \in 0 .. 9 /\ 1 \in 0 .. 9
  OBVIOUS
<1> QED
  BY <1>1, <1>2, <1>3

-----------------------------------------------------------------------------
(* Words of letters and marks, spelled and lowered.                        *)

\* The texts that name a segment or a parameter hold no slash.
Words(A) == Seq(A \ {"/"})

Braced(w) == <<"{">> \o w \o <<"}">>

PartText(p) == IF p.parameter THEN Braced(p.text) ELSE p.text

PartTexts(parts) == [i \in DOMAIN parts |-> PartText(parts[i])]

\* An alphabet with the symbols patterns are made of.
Braces(A) == "{" \in A /\ "}" \in A

Alphabet(A) == Closed(A) /\ "/" \in A /\ Braces(A)

LEMMA WordsAre == ASSUME NEW A PROVE Words(A) \subseteq Seq(A) /\ Segs(A) = Words(A) \ {<<>>}
BY SeqMonotonic DEF Words, Segs

LEMMA AlphabetLess ==
  ASSUME NEW A, Alphabet(A)
  PROVE  /\ Closed(A) /\ Closed(A \ {"/"})
         /\ Braces(A) /\ Braces(A \ {"/"})
<1>1. Closed(A) /\ Braces(A) /\ \A c \in A : c # "/" => Lowered(c) # "/"
  BY LoweredIs DEF Alphabet
<1>2. Closed(A \ {"/"})
  BY <1>1 DEF Closed
<1>3. Braces(A \ {"/"})
  <2>1. "{" # "/" /\ "}" # "/"
    BY Zenon
  <2> QED
    BY <1>1, <2>1, Zenon DEF Braces
<1> QED
  BY <1>1, <1>2, <1>3

LEMMA LowerWord ==
  ASSUME NEW A, Alphabet(A), NEW w \in Words(A)
  PROVE  toLower(w) \in Words(A) /\ (w # <<>> => toLower(w) \in Segs(A))
<1>1. toLower(w) \in Words(A) /\ Len(toLower(w)) = Len(w)
  BY AlphabetLess, LowerType DEF Words
<1>2. w # <<>> => toLower(w) # <<>>
  <2> DEFINE u == toLower(w)
  <2>1. u \in Seq(A) /\ w \in Seq(A) /\ Len(u) = Len(w)
    BY <1>1, WordsAre
  <2> HIDE DEF u
  <2>2. w # <<>> => u # <<>>
    BY <2>1, EmptySeq
  <2> QED
    BY <2>2 DEF u
<1> QED
  BY <1>1, <1>2, WordsAre

LEMMA BracedIs ==
  ASSUME NEW A, NEW open \in A, NEW close \in A, NEW w \in Seq(A)
  PROVE  LET p == <<open>> \o w \o <<close>>
         IN  /\ p \in Seq(A) /\ Len(p) = Len(w) + 2
             /\ p[1] = open /\ p[Len(w) + 2] = close
             /\ \A i \in 1 .. Len(w) : p[i + 1] = w[i]
<1> DEFINE a == <<open>>
           b == <<close>>
           v == a \o w
           p == v \o b
<1>0. PICK n \in Nat : n = Len(w)
  BY LenProperties
<1>1. a \in Seq(A) /\ Len(a) = 1 /\ a[1] = open /\ b \in Seq(A) /\ Len(b) = 1 /\ b[1] = close
  BY One
<1> HIDE DEF a, b
<1>2. v \in Seq(A) /\ Len(v) = n + 1 /\ \A i \in 1 .. n + 1 : v[i] = IF i <= 1 THEN a[i] ELSE w[i - 1]
  <2>1. /\ v \in Seq(A) /\ Len(v) = Len(a) + Len(w)
        /\ \A i \in 1 .. Len(a) + Len(w) : v[i] = IF i <= Len(a) THEN a[i] ELSE w[i - Len(a)]
    BY <1>1, ConcatProperties
  <2>2. Len(a) + Len(w) = n + 1
    BY <1>0, <1>1
  <2> HIDE DEF v
  <2> QED
    BY <1>1, <2>1, <2>2
<1> HIDE DEF v
<1>3. /\ p \in Seq(A) /\ Len(p) = n + 2
      /\ \A i \in 1 .. n + 2 : p[i] = IF i <= n + 1 THEN v[i] ELSE b[i - (n + 1)]
  <2>1. /\ p \in Seq(A) /\ Len(p) = Len(v) + Len(b)
        /\ \A i \in 1 .. Len(v) + Len(b) : p[i] = IF i <= Len(v) THEN v[i] ELSE b[i - Len(v)]
    BY <1>1, <1>2, ConcatProperties
  <2>2. Len(v) + Len(b) = n + 2
    BY <1>1, <1>2
  <2> HIDE DEF p
  <2> QED
    BY <1>2, <2>1, <2>2
<1> HIDE DEF p
<1>4. p[1] = open
  BY <1>1, <1>2, <1>3
<1>5. p[n + 2] = close
  BY <1>1, <1>3
<1>6. ASSUME NEW i \in 1 .. n PROVE p[i + 1] = w[i]
  <2>1. i + 1 \in 1 .. n + 1 /\ i + 1 \in 1 .. n + 2 /\ ~(i + 1 <= 1) /\ (i + 1) - 1 = i
    OBVIOUS
  <2>2. p[i + 1] = v[i + 1]
    BY <1>3, <2>1
  <2>3. v[i + 1] = w[i]
    BY <1>2, <2>1
  <2> QED
    BY <2>2, <2>3
<1>7. p = <<open>> \o w \o <<close>>
  BY DEF p, v, a, b
<1> QED
  BY <1>0, <1>3, <1>4, <1>5, <1>6, <1>7, Zenon

LEMMA Inside ==
  ASSUME NEW A, NEW open \in A, NEW close \in A, NEW w \in Seq(A)
  PROVE  LET p == <<open>> \o w \o <<close>>
         IN  /\ Len(p) >= 2 /\ p[1] = open /\ p[Len(p)] = close
             /\ p \in Seq(A) /\ p # <<>>
             /\ SubSeq(p, 2, Len(p) - 1) = w
<1> DEFINE p == <<open>> \o w \o <<close>>
<1>0. PICK n \in Nat : n = Len(w)
  BY LenProperties
<1>1. /\ p \in Seq(A) /\ Len(p) = n + 2
      /\ p[1] = open /\ p[n + 2] = close
      /\ \A i \in 1 .. n : p[i + 1] = w[i]
  BY <1>0, BracedIs
<1> HIDE DEF p
<1> DEFINE u == SubSeq(p, 2, n + 1)
<1>2. SubSeq(p, 2, Len(p) - 1) = u
  <2>1. (n + 2) - 1 = n + 1
    OBVIOUS
  <2> QED
    BY <1>1, <2>1
<1>3. u \in Seq(A) /\ Len(u) = n /\ \A i \in 1 .. n : u[i] = p[i + 1]
  <2>1. \A i \in 2 .. n + 1 : p[i] \in A
    BY <1>1, ElementOfSeq
  <2>2. /\ u \in Seq(A)
        /\ Len(u) = IF 2 <= n + 1 THEN (n + 1) - 2 + 1 ELSE 0
        /\ \A i \in 1 .. (n + 1) - 2 + 1 : u[i] = p[2 + i - 1]
    BY <2>1, SubSeqProperties
  <2>3. (n + 1) - 2 + 1 = n /\ \A i \in 1 .. n : 2 + i - 1 = i + 1
    OBVIOUS
  <2> HIDE DEF u
  <2> QED
    BY <2>2, <2>3
<1> HIDE DEF u
<1>4. \A i \in 1 .. Len(u) : u[i] = w[i]
  BY <1>1, <1>3
<1>5. u = w
  BY <1>0, <1>3, <1>4, SeqEqual
<1>6. p # <<>>
  BY <1>1, EmptySeq
<1>7. Len(p) >= 2 /\ p[Len(p)] = close
  BY <1>1
<1> QED
  BY <1>1, <1>2, <1>5, <1>6, <1>7 DEF p

LEMMA LowerBraced ==
  ASSUME NEW A, Closed(A), Braces(A), NEW w \in Seq(A)
  PROVE  toLower(Braced(w)) = Braced(toLower(w))
<1> DEFINE open == "{"
           close == "}"
           v == toLower(w)
<1>1. open \in A /\ close \in A
  BY Zenon DEF Braces
<1>2. Lowered(open) = open /\ Lowered(close) = close
  BY LoweredIs, Zenon
<1>3. Braced(w) = <<open>> \o w \o <<close>> /\ Braced(v) = <<open>> \o v \o <<close>>
  BY Zenon DEF Braced
<1> HIDE DEF open, close
<1>4. toLower(<<open>>) = <<open>> /\ toLower(<<close>>) = <<close>>
  BY <1>2, LowerOne
<1>5. <<open>> \in Seq(A) /\ <<close>> \in Seq(A)
  BY <1>1, One
<1>6. <<open>> \o w \in Seq(A) /\ toLower(<<open>> \o w) = toLower(<<open>>) \o toLower(w)
  BY <1>5, ConcatProperties, LowerConcat
<1>7. toLower((<<open>> \o w) \o <<close>>) = toLower(<<open>> \o w) \o toLower(<<close>>)
  BY <1>5, <1>6, LowerConcat
<1> QED
  BY <1>3, <1>4, <1>6, <1>7, Zenon DEF v

LEMMA CapitalsNamed == \A p, q \in Capitals : (p[1] = q[1] => p = q) /\ (p[2] = q[2] => p = q)
BY DEF Capitals

LEMMA SpelledPair ==
  ASSUME NEW p \in Capitals
  PROVE  Spelled(p[1], p[2])
<1>1. Small[p[1]] = p[2] /\ p[1] \in DOMAIN Small
  BY CapitalsNamed, LookupNames DEF Small, Named
<1>2. p[2] \notin DOMAIN Small
  BY <1>1, SmallIs
<1>3. \A c \in DOMAIN Small : \E q \in Capitals : q[1] = c /\ Small[c] = q[2]
  BY LookupHas DEF Small
<1>4. \A c \in DOMAIN Small : Small[c] = p[2] => c = p[1]
  BY <1>3, CapitalsNamed
<1>5. Fixed(p[2])
  BY <1>1, SmallFixed
<1> QED
  BY <1>1, <1>2, <1>4, <1>5 DEF Spelled, Lowered

LEMMA SoughtSpelled ==
  /\ Spelled("Content-Length", "content-length")
  /\ Spelled("Connection", "connection")
  /\ Spelled("Close", "close")
<1>1. <<"Content-Length", "content-length">> \in Capitals
  BY DEF Capitals
<1>2. <<"Connection", "connection">> \in Capitals
  BY DEF Capitals
<1>3. <<"Close", "close">> \in Capitals
  BY DEF Capitals
<1>4. ASSUME NEW a, NEW b, <<a, b>> \in Capitals PROVE Spelled(a, b)
  <2> DEFINE p == <<a, b>>
  <2>1. p \in Capitals /\ p[1] = a /\ p[2] = b
    BY <1>4
  <2> HIDE DEF p
  <2> QED
    BY <2>1, SpelledPair
<1> QED
  BY <1>1, <1>2, <1>3, <1>4

LEMMA PairSpelled == ASSUME NEW a, NEW b, <<a, b>> \in Capitals PROVE Spelled(a, b)
<1> DEFINE p == <<a, b>>
<1>1. p \in Capitals /\ p[1] = a /\ p[2] = b
  OBVIOUS
<1> HIDE DEF p
<1> QED
  BY <1>1, SpelledPair

-----------------------------------------------------------------------------
(* The lines of a head.                                                    *)

KeyValues(A) == [key : Seq(A), value : Seq(A)]

\* A header line is read as the header it says.
HeaderPair(h) == [key |-> h.name, value |-> h.value]

\* The headers of a request, as the map of them is filled.
HeaderPairs(headers) == [i \in DOMAIN headers |-> HeaderPair(headers[i])]

LEMMA HeaderPairsAre ==
  ASSUME NEW A, NEW hs \in Seq(HeaderOf(A))
  PROVE  /\ HeaderPairs(hs) \in Seq(KeyValues(A)) /\ Len(HeaderPairs(hs)) = Len(hs)
         /\ \A i \in 1 .. Len(hs) : HeaderPairs(hs)[i] = HeaderPair(hs[i])
<1>0. PICK n \in Nat : n = Len(hs)
  BY LenProperties
<1>1. DOMAIN hs = 1 .. n /\ \A i \in 1 .. n : hs[i] \in HeaderOf(A)
  BY <1>0, LenProperties, ElementOfSeq
<1>2. \A h \in HeaderOf(A) : HeaderPair(h) \in KeyValues(A)
  <2> TAKE h \in HeaderOf(A)
  <2>1. h.name \in Seq(A \ {CRLF, Colon}) /\ h.value \in Seq(A \ {CRLF})
    BY DEF HeaderOf
  <2>2. h.name \in Seq(A) /\ h.value \in Seq(A)
    <3>1. A \ {CRLF, Colon} \subseteq A /\ A \ {CRLF} \subseteq A
      OBVIOUS
    <3> QED
      BY <2>1, <3>1, SeqMonotonic
  <2> QED
    BY <2>2 DEF HeaderPair, KeyValues
<1>3. \A i \in 1 .. n : HeaderPair(hs[i]) \in KeyValues(A)
  BY <1>1, <1>2
<1>4. HeaderPairs(hs) \in [1 .. n -> KeyValues(A)] /\ \A i \in 1 .. n : HeaderPairs(hs)[i] = HeaderPair(hs[i])
  BY <1>1, <1>3 DEF HeaderPairs
<1> QED
  BY <1>0, <1>4, FunctionIsSeq

\* The headers of a response in the order they are written, and its cookies.
HeaderFrom(pair) == [name |-> pair.key, value |-> pair.value]

HeadersFrom(pairs) == [i \in DOMAIN pairs |-> HeaderFrom(pairs[i])]

CookieHeader(line) == [name |-> <<"Set-Cookie">>, value |-> line]

CookieHeaders(lines) == [i \in DOMAIN lines |-> CookieHeader(lines[i])]

PairOf(A) == [key : Seq(A \ {CRLF, Colon}) \ {<<>>}, value : Seq(A \ {CRLF})]

LEMMA HeadersFromAre ==
  ASSUME NEW A, NEW pairs \in Seq(PairOf(A))
  PROVE  /\ HeadersFrom(pairs) \in Seq(HeaderOf(A)) /\ Len(HeadersFrom(pairs)) = Len(pairs)
         /\ \A i \in 1 .. Len(pairs) :
              HeadersFrom(pairs)[i].name = pairs[i].key /\ HeadersFrom(pairs)[i].value = pairs[i].value
<1>0. PICK n \in Nat : n = Len(pairs)
  BY LenProperties
<1>1. DOMAIN pairs = 1 .. n /\ \A i \in 1 .. n : pairs[i] \in PairOf(A)
  BY <1>0, LenProperties, ElementOfSeq
<1>2. \A i \in 1 .. n : HeaderFrom(pairs[i]) \in HeaderOf(A)
  BY <1>1 DEF HeaderFrom, HeaderOf, PairOf
<1>3. /\ HeadersFrom(pairs) \in [1 .. n -> HeaderOf(A)]
      /\ \A i \in 1 .. n : HeadersFrom(pairs)[i] = HeaderFrom(pairs[i])
  BY <1>1, <1>2 DEF HeadersFrom
<1>4. HeadersFrom(pairs) \in Seq(HeaderOf(A)) /\ Len(HeadersFrom(pairs)) = n
  BY <1>3, FunctionIsSeq
<1> QED
  BY <1>0, <1>3, <1>4 DEF HeaderFrom

LEMMA CookieHeadersAre ==
  ASSUME NEW A, "Set-Cookie" \in A, NEW lines \in Seq(Seq(A \ {CRLF}))
  PROVE  /\ CookieHeaders(lines) \in Seq(HeaderOf(A)) /\ Len(CookieHeaders(lines)) = Len(lines)
         /\ \A i \in 1 .. Len(lines) : CookieHeaders(lines)[i] = CookieHeader(lines[i])
<1>0. PICK n \in Nat : n = Len(lines)
  BY LenProperties
<1>1. DOMAIN lines = 1 .. n /\ \A i \in 1 .. n : lines[i] \in Seq(A \ {CRLF})
  BY <1>0, LenProperties, ElementOfSeq
<1>2. <<"Set-Cookie">> \in Seq(A \ {CRLF, Colon}) \ {<<>>}
  <2>1. "Set-Cookie" \in A \ {CRLF, Colon}
    BY DEF CRLF, Colon
  <2> QED
    BY <2>1, One, EmptySeq
<1>3. \A i \in 1 .. n : CookieHeader(lines[i]) \in HeaderOf(A)
  BY <1>1, <1>2 DEF CookieHeader, HeaderOf
<1>4. /\ CookieHeaders(lines) \in [1 .. n -> HeaderOf(A)]
      /\ \A i \in 1 .. n : CookieHeaders(lines)[i] = CookieHeader(lines[i])
  BY <1>1, <1>3 DEF CookieHeaders
<1>5. CookieHeaders(lines) \in Seq(HeaderOf(A)) /\ Len(CookieHeaders(lines)) = n
  BY <1>4, FunctionIsSeq
<1> QED
  BY <1>0, <1>4, <1>5

LEMMA HeaderLinesAre ==
  ASSUME NEW A, Colon \in A, Blank \in A, CRLF \in A, NEW hs \in Seq(HeaderOf(A))
  PROVE  /\ HeaderLines(hs) \in Seq(Seq(A)) /\ Len(HeaderLines(hs)) = Len(hs)
         /\ \A i \in 1 .. Len(hs) : HeaderLines(hs)[i] = HeaderLine(hs[i])
<1>0. PICK n \in Nat : n = Len(hs)
  BY LenProperties
<1>1. DOMAIN hs = 1 .. n /\ \A i \in 1 .. n : hs[i] \in HeaderOf(A)
  BY <1>0, LenProperties, ElementOfSeq
<1>2. \A i \in 1 .. n : HeaderLine(hs[i]) \in Seq(A)
  BY <1>1, LineIs
<1>3. HeaderLines(hs) \in [1 .. n -> Seq(A)] /\ \A i \in 1 .. n : HeaderLines(hs)[i] = HeaderLine(hs[i])
  BY <1>1, <1>2 DEF HeaderLines
<1>4. HeaderLines(hs) \in Seq(Seq(A)) /\ Len(HeaderLines(hs)) = n
  BY <1>3, FunctionIsSeq
<1> QED
  BY <1>0, <1>3, <1>4

LEMMA HeaderLinesConcat ==
  ASSUME NEW A, Colon \in A, Blank \in A, CRLF \in A, NEW p \in Seq(HeaderOf(A)), NEW c \in Seq(HeaderOf(A))
  PROVE  HeaderLines(p \o c) = HeaderLines(p) \o HeaderLines(c)
<1> DEFINE w == p \o c
           lp == HeaderLines(p)
           lc == HeaderLines(c)
           lw == HeaderLines(w)
           v == lp \o lc
<1>0. PICK m \in Nat, n \in Nat : m = Len(p) /\ n = Len(c)
  BY LenProperties
<1>1. w \in Seq(HeaderOf(A)) /\ Joins(w, p, c)
  BY JoinsConcat
<1> HIDE DEF w
<1>2. /\ lp \in Seq(Seq(A)) /\ Len(lp) = m /\ \A i \in 1 .. m : lp[i] = HeaderLine(p[i])
  BY <1>0, HeaderLinesAre
<1>3. /\ lc \in Seq(Seq(A)) /\ Len(lc) = n /\ \A i \in 1 .. n : lc[i] = HeaderLine(c[i])
  BY <1>0, HeaderLinesAre
<1>4. /\ lw \in Seq(Seq(A)) /\ Len(lw) = Len(w) /\ \A i \in 1 .. Len(w) : lw[i] = HeaderLine(w[i])
  BY <1>1, HeaderLinesAre
<1> HIDE DEF lp, lc, lw
<1>5. v \in Seq(Seq(A)) /\ Joins(v, lp, lc)
  BY <1>2, <1>3, JoinsConcat
<1> HIDE DEF v
<1>6. Len(w) = m + n /\ (\A i \in 1 .. m : w[i] = p[i]) /\ \A j \in 1 .. n : w[m + j] = c[j]
  BY <1>0, <1>1 DEF Joins
<1>7. Len(v) = m + n /\ (\A i \in 1 .. m : v[i] = lp[i]) /\ \A j \in 1 .. n : v[m + j] = lc[j]
  BY <1>2, <1>3, <1>5 DEF Joins
<1>8. \A i \in 1 .. m + n : lw[i] = v[i]
  <2> TAKE i \in 1 .. m + n
  <2>1. lw[i] = HeaderLine(w[i])
    BY <1>4, <1>6
  <2>2. CASE i <= m
    <3>1. i \in 1 .. m
      BY <2>2
    <3> QED
      BY <1>2, <1>6, <1>7, <2>1, <3>1
  <2>3. CASE ~(i <= m)
    <3>1. PICK j \in 1 .. n : i = m + j
      <4>1. i - m \in 1 .. n /\ i = m + (i - m)
        BY <2>3
      <4> QED
        BY <4>1
    <3> QED
      BY <1>3, <1>6, <1>7, <2>1, <3>1
  <2> QED
    BY <2>2, <2>3
<1>9. lw = v
  BY <1>4, <1>5, <1>6, <1>7, <1>8, SeqEqual
<1> QED
  BY <1>9 DEF lw, v, lp, lc, w

-----------------------------------------------------------------------------
(* A head and a body, and how they come apart.                             *)

BlankOf(text) == find(text, <<CRLF, CRLF>>, 1)

LinesOf(text) == Tail(split(SubSeq(text, 1, BlankOf(text) - 1), CRLF))

BodyOf(text) == SubSeq(text, BlankOf(text) + 2, Len(text))

TextOf(first, hs, body) == (Block(first \o <<CRLF>>, hs) \o <<CRLF>>) \o body

LEMMA FirstEnded ==
  ASSUME NEW A, CRLF \in A, NEW first \in Seq(A \ {CRLF}), first # <<>>
  PROVE  first \o <<CRLF>> \in Seq(A) /\ Ended(first \o <<CRLF>>)
<1> DEFINE f == first \o <<CRLF>>
<1>0. PICK n \in Nat : n = Len(first)
  BY LenProperties
<1>1. first \in Seq(A) /\ \A i \in 1 .. n : first[i] # CRLF
  <2>1. first \in Seq(A)
    BY SeqMonotonic
  <2>2. \A i \in 1 .. n : first[i] \in A \ {CRLF}
    BY <1>0, ElementOfSeq
  <2> QED
    BY <2>1, <2>2
<1>2. n # 0
  BY <1>0, EmptySeq
<1>3. f = Append(first, CRLF)
  BY <1>1, AppendIsConcat
<1> HIDE DEF f
<1>4. f \in Seq(A) /\ Len(f) = n + 1 /\ f[n + 1] = CRLF /\ \A i \in 1 .. n : f[i] = first[i]
  BY <1>0, <1>1, <1>3, AppendProperties
<1>5. \A i \in 1 .. n : f[i] # CRLF
  BY <1>1, <1>4
<1>6. Len(f) # 0 /\ f[1] # CRLF
  <2>1. 1 \in 1 .. n
    BY <1>2
  <2> QED
    BY <1>4, <1>5, <2>1
<1>7. \A i \in 1 .. Len(f) - 1 : ~(f[i] = CRLF /\ f[i + 1] = CRLF)
  BY <1>4, <1>5
<1> QED
  BY <1>4, <1>6, <1>7 DEF Ended, f

LEMMA EndIsCut ==
  ASSUME NEW A, NEW b \in Seq(A), Len(b) # 0
  PROVE  /\ SubSeq(b, 1, Len(b) - 1) \in Seq(A)
         /\ b = Append(SubSeq(b, 1, Len(b) - 1), b[Len(b)])
<1>0. PICK m \in Nat : m = Len(b)
  BY LenProperties
<1> DEFINE u == SubSeq(b, 1, m - 1)
<1>1. m - 1 \in 0 .. Len(b) /\ m \in 1 .. m
  BY <1>0
<1>2. u \in Seq(A) /\ Len(u) = m - 1 /\ \A i \in 1 .. m - 1 : u[i] = b[i]
  BY <1>1, PrefixIs
<1> HIDE DEF u
<1>3. b[m] \in A
  BY <1>0, <1>1, ElementOfSeq
<1>4. Len(b) = Len(u) + 1 /\ (\A k \in 1 .. Len(u) : b[k] = u[k]) /\ b[Len(u) + 1] = b[m]
  BY <1>0, <1>1, <1>2
<1>5. b = Append(u, b[m])
  BY <1>2, <1>3, <1>4, Extends
<1> QED
  BY <1>0, <1>2, <1>5 DEF u

LEMMA TailOfOne ==
  ASSUME NEW B, NEW e \in B, NEW w \in Seq(B)
  PROVE  Tail(<<e>> \o w) = w
<1> DEFINE o == <<e>>
           l == o \o w
<1>1. o \in Seq(B) /\ Len(o) = 1
  BY One
<1> HIDE DEF o
<1>2. l \in Seq(B) /\ Joins(l, o, w)
  BY <1>1, JoinsConcat
<1>3. PICK n \in Nat : n = Len(w)
  BY LenProperties
<1> HIDE DEF l
<1>4. Len(l) = 1 + n /\ \A j \in 1 .. n : l[1 + j] = w[j]
  BY <1>1, <1>2, <1>3 DEF Joins
<1> DEFINE t == Tail(l)
<1>5. t \in Seq(B) /\ Len(t) = Len(l) - 1 /\ \A i \in 1 .. Len(t) : t[i] = l[i + 1]
  <2>1. l # <<>>
    BY <1>3, <1>4, EmptySeq
  <2> QED
    BY <1>2, <2>1, HeadTailProperties
<1> HIDE DEF t
<1>6. Len(t) = n
  BY <1>3, <1>4, <1>5
<1>7. \A i \in 1 .. n : t[i] = w[i]
  <2> TAKE i \in 1 .. n
  <2>1. i + 1 = 1 + i
    OBVIOUS
  <2> QED
    BY <1>4, <1>5, <1>6, <2>1
<1>8. t = w
  BY <1>3, <1>5, <1>6, <1>7, SeqEqual
<1> QED
  BY <1>8 DEF t, l, o

\* Behind the blank line comes the body, and before it one line for each header.
LEMMA TextComesApart ==
  ASSUME NEW A, Colon \in A, Blank \in A, CRLF \in A, NEW first \in Seq(A \ {CRLF}), first # <<>>,
         NEW hs \in Seq(HeaderOf(A)), NEW body \in Seq(A), NEW text, text = TextOf(first, hs, body)
  PROVE  LinesOf(text) = Writtens(hs) /\ BodyOf(text) = body
<1> DEFINE F == first \o <<CRLF>>
           b == Block(F, hs)
           e == <<CRLF>>
           g == b \o e
           w == Writtens(hs)
           l == <<first>> \o w
           none == <<>>
<1>1. F \in Seq(A) /\ Ended(F)
  BY FirstEnded
<1>2. b \in Seq(A) /\ Ended(b)
  BY <1>1, BlockEnded
<1>3. EndsIn(b, CRLF, l, none)
  BY BlockSplits
<1>4. text = g \o body
  BY DEF TextOf
<1>5. e \in Seq(A) /\ Len(e) = 1 /\ e[1] = CRLF
  BY LineEndUnmarked
<1>6. first \in Seq(A) /\ w \in Seq(Seq(A))
  <2>1. w \in Seq(Seq(A \ {CRLF}) \ {<<>>})
    BY WrittensAre
  <2>2. Seq(A \ {CRLF}) \ {<<>>} \subseteq Seq(A)
    BY SeqMonotonic
  <2> HIDE DEF w
  <2>3. w \in Seq(Seq(A))
    BY <2>1, <2>2, SeqMonotonic
  <2>4. first \in Seq(A)
    BY SeqMonotonic
  <2> QED
    BY <2>3, <2>4
<1> HIDE DEF F, b, e, w
<1>7. l \in Seq(Seq(A)) /\ Tail(l) = w
  <2>1. <<first>> \in Seq(Seq(A))
    BY <1>6, OneIsSeq
  <2>2. l \in Seq(Seq(A))
    BY <1>6, <2>1, ConcatProperties
  <2>3. Tail(<<first>> \o w) = w
    BY <1>6, TailOfOne
  <2> QED
    BY <2>2, <2>3
<1> HIDE DEF l
<1>8. g \in Seq(A) /\ Joins(g, b, e)
  BY <1>2, <1>5, JoinsConcat
<1> HIDE DEF g
<1>9. text \in Seq(A) /\ Joins(text, g, body)
  BY <1>4, <1>8, JoinsConcat
<1>10. PICK m \in Nat, n \in Nat : m = Len(b) /\ n = Len(body)
  BY <1>2, LenProperties
<1>11. Len(g) = m + 1 /\ (\A i \in 1 .. m : g[i] = b[i]) /\ g[m + 1] = CRLF
  BY <1>5, <1>8, <1>10 DEF Joins
<1>12. /\ Len(text) = m + 1 + n /\ (\A i \in 1 .. m + 1 : text[i] = g[i])
       /\ \A j \in 1 .. n : text[m + 1 + j] = body[j]
  BY <1>9, <1>10, <1>11 DEF Joins
<1>13. (\A i \in 1 .. m : text[i] = b[i]) /\ text[m + 1] = CRLF
  <2>1. m + 1 \in 1 .. m + 1 /\ \A i \in 1 .. m : i \in 1 .. m + 1
    OBVIOUS
  <2> QED
    BY <1>11, <1>12, <2>1
<1>14. Headed(text, b)
  <2>1. m + 1 <= m + 1 + n
    OBVIOUS
  <2> QED
    BY <1>10, <1>12, <1>13, <2>1 DEF Headed
<1>15. BlankOf(text) = m
  <2>1. find(text, HeadEnd, 1) = Len(b)
    BY <1>2, <1>9, <1>14, EndFound
  <2> QED
    BY <1>10, <2>1 DEF BlankOf, HeadEnd
<1>16. m # 0 /\ b[m] = CRLF
  BY <1>2, <1>10 DEF Ended
<1> DEFINE u == SubSeq(b, 1, m - 1)
           v == SubSeq(text, 1, m - 1)
<1>17. u \in Seq(A) /\ b = Append(u, CRLF)
  BY <1>2, <1>10, <1>16, EndIsCut
<1>18. v = u
  <2>1. m - 1 \in 0 .. Len(b) /\ m - 1 \in 0 .. Len(text)
    BY <1>10, <1>12, <1>16
  <2>2. Len(u) = m - 1 /\ \A i \in 1 .. m - 1 : u[i] = b[i]
    BY <1>2, <2>1, PrefixIs
  <2>3. v \in Seq(A) /\ Len(v) = m - 1 /\ \A i \in 1 .. m - 1 : v[i] = text[i]
    BY <1>9, <2>1, PrefixIs
  <2> HIDE DEF u, v
  <2>4. \A i \in 1 .. m - 1 : v[i] = u[i]
    BY <1>13, <2>2, <2>3
  <2> QED
    BY <1>17, <2>2, <2>3, <2>4, SeqEqual
<1> HIDE DEF u, v
<1>19. split(u, CRLF) = l
  <2>1. split(Append(u, CRLF), CRLF) = Append(split(u, CRLF), none)
    BY <1>17, SplitEnd
  <2>2. split(b, CRLF) = Append(l, none)
    BY <1>3 DEF EndsIn
  <2>3. split(u, CRLF) \in Seq(Seq(A)) /\ none \in Seq(A)
    BY <1>17, SplitType, EmptySeq DEF Splitting
  <2> DEFINE p == split(u, CRLF)
  <2>4. Append(p, none) = Append(l, none)
    BY <1>17, <2>1, <2>2
  <2> HIDE DEF p, none
  <2>5. p = l
    BY <1>7, <2>3, <2>4, AppendInjective DEF p
  <2> QED
    BY <2>5 DEF p
<1>20. LinesOf(text) = w
  <2>1. LinesOf(text) = Tail(split(v, CRLF))
    BY <1>15 DEF LinesOf, v
  <2> QED
    BY <1>7, <1>18, <1>19, <2>1
<1> DEFINE c == SubSeq(text, m + 2, m + 1 + n)
<1>21. c = body
  <2>1. m + 2 \in Int /\ m + 1 + n \in Int /\ (m + 1 + n) - (m + 2) + 1 = n
    OBVIOUS
  <2>2. \A i \in m + 2 .. m + 1 + n : text[i] \in A
    <3> TAKE i \in m + 2 .. m + 1 + n
    <3>1. i \in 1 .. Len(text)
      BY <1>12
    <3> QED
      BY <1>9, <3>1, ElementOfSeq
  <2> DEFINE from == m + 2
             to == m + 1 + n
  <2>3. from \in Int /\ to \in Int /\ to - from + 1 = n /\ \A i \in from .. to : text[i] \in A
    BY <2>1, <2>2
  <2>4. from <= to <=> n # 0
    OBVIOUS
  <2>5. \A i \in 1 .. n : from + i - 1 = m + 1 + i
    OBVIOUS
  <2>6. c = SubSeq(text, from, to)
    OBVIOUS
  <2> HIDE DEF from, to, c
  <2>7. /\ SubSeq(text, from, to) \in Seq(A)
        /\ Len(SubSeq(text, from, to)) = (IF from <= to THEN to - from + 1 ELSE 0)
        /\ \A i \in 1 .. to - from + 1 : SubSeq(text, from, to)[i] = text[from + i - 1]
    BY <2>3, SubSeqProperties
  <2>8. c \in Seq(A) /\ Len(c) = n /\ \A i \in 1 .. n : c[i] = text[from + i - 1]
    BY <2>3, <2>4, <2>6, <2>7
  <2>9. \A i \in 1 .. n : c[i] = body[i]
    BY <1>12, <2>5, <2>8
  <2> QED
    BY <1>10, <2>8, <2>9, SeqEqual
<1>22. BodyOf(text) = body
  <2>1. BodyOf(text) = c
    BY <1>12, <1>15 DEF BodyOf
  <2> QED
    BY <1>21, <2>1
<1> QED
  BY <1>20, <1>22 DEF w

=============================================================================
