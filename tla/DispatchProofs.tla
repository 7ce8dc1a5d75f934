---------------------------- MODULE DispatchProofs ----------------------------
(***************************************************************************)
(* What Dispatch.tla guarantees for a chain of any length.  The first      *)
(* invariant keeps the call stack in the order of the chain, which is what *)
(* bounds its depth; the second says what is known of the response at each *)
(* place, and from it follow the four properties of what is written.       *)
(***************************************************************************)
EXTENDS Dispatch, TLAPS, FiniteSetTheorems, SequenceTheorems

-----------------------------------------------------------------------------
(* Types and the call stack.                                               *)

\* Code further in on the stack has a later place in the chain, and middleware
\* on it has been counted: the stack is never deeper than the chain is long,
\* however often next() is called.
StackInv ==
  /\ \A k \in DOMAIN stack :
       /\ k <= stack[k].at
       /\ stack[k].at # Handler => stack[k].at <= index
  /\ \A j, k \in DOMAIN stack : j < k => stack[j].at < stack[k].at
  /\ begun = <<>> => stack = <<>> /\ index = 0
  /\ pc \in {"lookup", "static", "invalid"} => begun = <<>>

Frames == [at : 1 .. Handler, called : BOOLEAN]

StackOK ==
  /\ index \in 0 .. ChainLength
  /\ stack \in Seq(Frames) /\ Len(stack) <= Handler
  /\ begun \in Seq(1 .. Handler) /\ HandlerRuns(begun) <= MaxHandlerRuns
  /\ again \in BOOLEAN

Written ==
  [status : Nat, length : Lengths, body : Bodies, marks : SUBSET (1 .. Handler),
   value : 0 .. Handler, cut : Cuts]

Places == {"lookup", "chain", "catch", "static", "invalid", "send", "sent", "terminated"}
Codes == {200, 204, 302, 400, 404, 429, 500}

DataOK ==
  /\ method \in Methods /\ valid \in BOOLEAN /\ routes \subseteq Methods
  /\ static \in {"none", "file", "error"}
  /\ pc \in Places
  /\ fallback \in BOOLEAN
  /\ marks \subseteq 1 .. Handler
  /\ status \in Codes
  /\ body \in Bodies /\ contentLength \in Lengths
  /\ finalized \in BOOLEAN /\ hasSent \in BOOLEAN
  /\ value \in 0 .. Handler /\ late \subseteq Unchecked

\* TypeOK, in the parts that different actions disturb, and StackInv.
TypeInv == DataOK /\ wire \in Seq(Written) /\ StackOK /\ StackInv

LEMMA TypeInvImpliesTypeOK == TypeInv => TypeOK
  BY DEF TypeInv, DataOK, Places, Codes, StackOK, Frames, Written, TypeOK

\* The members the actions use, so that the sets need not be expanded.
LEMMA Members ==
  /\ "lookup" \in Places /\ "chain" \in Places /\ "catch" \in Places /\ "static" \in Places
  /\ "invalid" \in Places /\ "send" \in Places /\ "sent" \in Places /\ "terminated" \in Places
  /\ 200 \in Codes /\ 204 \in Codes /\ 302 \in Codes /\ 400 \in Codes
  /\ 404 \in Codes /\ 429 \in Codes /\ 500 \in Codes /\ Codes \subseteq Nat
  /\ "empty" \in Bodies /\ "user" \in Bodies /\ "file" \in Bodies /\ "error" \in Bodies
  /\ "other" \in Lengths /\ Bodies \subseteq Lengths
  /\ "head" \in Cuts /\ "body" \in Cuts /\ "none" \in Cuts
  BY DEF Places, Codes, Bodies, Lengths, Cuts

LEMMA TypeInvInit == Init => TypeInv
<1> SUFFICES ASSUME Init PROVE TypeInv
  OBVIOUS
<1>1. HandlerRuns(begun) = 0
  <2>1. { k \in DOMAIN begun : begun[k] = Handler } = {}
    BY DEF Init
  <2> QED
    BY <2>1, FS_EmptySet DEF HandlerRuns
<1>2. StackInv
  BY DEF Init, StackInv
<1>3. HandlerRuns(begun) <= MaxHandlerRuns
  BY <1>1, DispatchAssumption
<1>4. wire \in Seq(Written) /\ stack \in Seq(Frames) /\ begun \in Seq(1 .. Handler)
      /\ Len(stack) = 0
  BY EmptySeq DEF Init
<1>5. StackOK
  <2>1. index = 0 /\ again = FALSE
    BY DEF Init
  <2>2. 0 \in 0 .. ChainLength /\ 0 <= Handler
    BY DispatchAssumption DEF Handler
  <2> QED
    BY <2>1, <2>2, <1>3, <1>4 DEF StackOK
<1>6. DataOK
  <2>1. marks \subseteq 1 .. Handler /\ late \subseteq Unchecked
    BY DEF Init
  <2>2. value \in 0 .. Handler
    BY DispatchAssumption DEF Init, Handler
  <2>3. body \in Bodies /\ contentLength \in Lengths /\ status \in Codes /\ pc \in Places
    BY Members DEF Init
  <2> QED
    BY <2>1, <2>2, <2>3 DEF Init, DataOK
<1> QED
  BY <1>2, <1>4, <1>5, <1>6 DEF TypeInv

\* A call of next(), or the first call, puts the code at place p on top.
LEMMA RunNextTypes ==
  ASSUME TypeInv, RunNext, UNCHANGED pc, pc = "chain",
         stack = <<>> \/ Running # Handler
  PROVE  StackInv' /\ StackOK'
<1> DEFINE p == IF index < ChainLength THEN index + 1 ELSE Handler
           below == [k \in DOMAIN stack |->
                       IF k = Len(stack) THEN [stack[k] EXCEPT !.called = TRUE] ELSE stack[k]]
<1>1. /\ stack' = Append(below, [at |-> p, called |-> FALSE])
      /\ begun' = Append(begun, p)
      /\ again' = (again \/ (stack # <<>> /\ stack[Len(stack)].called))
      /\ HandlerRuns(begun') <= MaxHandlerRuns
      /\ index' = IF index < ChainLength THEN index + 1 ELSE index
  BY DEF RunNext, Begin
<1>2. /\ ChainLength \in Nat /\ Handler = ChainLength + 1
      /\ index \in 0 .. ChainLength
      /\ stack \in Seq(Frames) /\ begun \in Seq(1 .. Handler)
      /\ again \in BOOLEAN
  BY DispatchAssumption DEF TypeInv, StackOK, Handler
<1>3. p \in 1 .. Handler
  BY <1>2
<1> HIDE DEF p
<1>4. /\ Len(stack) \in Nat /\ DOMAIN stack = 1 .. Len(stack)
      /\ \A k \in 1 .. Len(stack) : stack[k] \in Frames /\ stack[k].at \in 1 .. Handler
  <2>1. /\ Len(stack) \in Nat /\ DOMAIN stack = 1 .. Len(stack)
        /\ \A k \in 1 .. Len(stack) : stack[k] \in Frames
    BY <1>2, LenProperties, ElementOfSeq
  <2> QED
    BY <2>1 DEF Frames
<1>5. /\ below \in [1 .. Len(stack) -> Frames]
      /\ \A k \in 1 .. Len(stack) : below[k].at = stack[k].at
  <2>1. ASSUME NEW k \in 1 .. Len(stack)
        PROVE  /\ below[k] \in Frames
               /\ below[k].at = stack[k].at
    <3>1. stack[k] \in Frames
      BY <1>4
    <3>2. [stack[k] EXCEPT !.called = TRUE] \in Frames
          /\ [stack[k] EXCEPT !.called = TRUE].at = stack[k].at
      BY <3>1 DEF Frames
    <3> QED
      BY <3>1, <3>2, <1>4
  <2> QED
    BY <2>1, <1>4
<1>6. below \in Seq(Frames) /\ Len(below) = Len(stack)
  BY <1>4, <1>5, SeqDef
<1> HIDE DEF below
<1>7. /\ stack' \in Seq(Frames) /\ Len(stack') = Len(stack) + 1
      /\ DOMAIN stack' = 1 .. Len(stack) + 1
      /\ \A k \in 1 .. Len(stack) + 1 :
           stack'[k].at = IF k <= Len(stack) THEN stack[k].at ELSE p
  <2>1. [at |-> p, called |-> FALSE] \in Frames
    BY <1>3 DEF Frames
  <2> QED
    BY <2>1, <1>1, <1>4, <1>5, <1>6, AppendProperties, LenProperties
<1>8. \A k \in 1 .. Len(stack) : stack[k].at < p
  <2>1. CASE stack # <<>>
    <3>1. Len(stack) \in 1 .. Len(stack)
      BY <2>1, <1>2, <1>4, EmptySeq
    <3>2. stack[Len(stack)].at \in 1 .. Handler /\ stack[Len(stack)].at # Handler
      BY <2>1, <3>1, <1>4 DEF Running
    <3>3. stack[Len(stack)].at <= index
      BY <3>1, <3>2, <1>4 DEF TypeInv, StackInv
    <3>4. stack[Len(stack)].at < p
      BY <3>2, <3>3, <1>2 DEF p
    <3> SUFFICES ASSUME NEW k \in 1 .. Len(stack), k < Len(stack) PROVE stack[k].at < p
      BY <3>4, <1>4
    <3>5. stack[k].at < stack[Len(stack)].at
      BY <3>1, <1>4 DEF TypeInv, StackInv
    <3>6. stack[k].at \in 1 .. Handler
      BY <1>4
    <3> QED
      BY <3>2, <3>4, <3>5, <3>6, <1>2, <1>3
  <2>2. CASE stack = <<>>
    BY <2>2, <1>4
  <2> QED
    BY <2>1, <2>2
<1>9. Len(stack) < p
  <2>1. CASE Len(stack) = 0
    BY <2>1, <1>3
  <2>2. CASE Len(stack) # 0
    <3>1. Len(stack) \in 1 .. Len(stack)
      BY <2>2, <1>4
    <3>2. Len(stack) <= stack[Len(stack)].at /\ stack[Len(stack)].at < p
      BY <3>1, <1>4, <1>8 DEF TypeInv, StackInv
    <3>3. stack[Len(stack)].at \in Nat
      BY <3>1, <1>2, <1>4
    <3> QED
      BY <3>2, <3>3, <1>2, <1>3, <1>4
  <2> QED
    BY <2>1, <2>2
<1>10. begun' \in Seq(1 .. Handler) /\ begun' # <<>>
  <2>1. begun \in Seq(1 .. Handler) /\ begun' = Append(begun, p)
    BY <1>1, <1>2
  <2> QED
    BY <2>1, <1>3, AppendProperties
<1>11. index' \in 0 .. ChainLength /\ index <= index' /\ (p # Handler => p <= index')
  BY <1>1, <1>2 DEF p
<1>12. ASSUME NEW k \in DOMAIN stack'
       PROVE  /\ k <= stack'[k].at
              /\ stack'[k].at # Handler => stack'[k].at <= index'
  <2>1. CASE k <= Len(stack)
    <3>1. k \in DOMAIN stack /\ stack'[k].at = stack[k].at
      BY <2>1, <1>4, <1>7
    <3>2. stack[k].at \in 1 .. Handler
      BY <3>1, <1>4
    <3> QED
      BY <3>1, <3>2, <1>2, <1>4, <1>11 DEF TypeInv, StackInv
  <2>2. CASE ~(k <= Len(stack))
    <3>1. k = Len(stack) + 1 /\ stack'[k].at = p
      BY <2>2, <1>4, <1>7
    <3> QED
      BY <3>1, <1>3, <1>4, <1>9, <1>11
  <2> QED
    BY <2>1, <2>2
<1>13. ASSUME NEW j \in DOMAIN stack', NEW k \in DOMAIN stack', j < k
       PROVE  stack'[j].at < stack'[k].at
  <2>1. j \in DOMAIN stack /\ stack'[j].at = stack[j].at
    BY <1>4, <1>7, <1>13
  <2>2. CASE k <= Len(stack)
    <3>1. k \in DOMAIN stack /\ stack'[k].at = stack[k].at
      BY <2>2, <1>4, <1>7
    <3> QED
      BY <2>1, <3>1, <1>13 DEF TypeInv, StackInv
  <2>3. CASE ~(k <= Len(stack))
    <3>1. stack'[k].at = p
      BY <2>3, <1>4, <1>7
    <3> QED
      BY <2>1, <3>1, <1>4, <1>8
  <2> QED
    BY <2>2, <2>3
<1>14. StackInv'
  BY <1>10, <1>12, <1>13 DEF StackInv
<1>15. again' \in BOOLEAN
  BY <1>1, <1>2, <1>4
<1>16. Len(stack') <= Handler
  BY <1>2, <1>3, <1>4, <1>7, <1>9
<1> QED
  BY <1>1, <1>7, <1>10, <1>11, <1>14, <1>15, <1>16 DEF StackOK

\* What is left of the stack when nothing is begun.
LEMMA StackInvKept ==
  ASSUME StackInv, UNCHANGED <<index, begun>>, stack' = stack \/ stack' = <<>>,
         pc' \in {"lookup", "static", "invalid"} => pc \in {"lookup", "static", "invalid"}
  PROVE  StackInv'
<1>1. CASE stack' = stack
  BY <1>1 DEF StackInv
<1>2. CASE stack' = <<>>
  BY <1>2 DEF StackInv
<1> QED
  BY <1>1, <1>2

\* The innermost code returns to the one that called next().
LEMMA UserReturnsTypes ==
  ASSUME TypeInv, UserReturns
  PROVE  /\ StackInv'
         /\ StackOK'
         /\ Len(stack') = Len(stack) - 1
         /\ \A k \in DOMAIN stack' : k \in DOMAIN stack /\ stack'[k] = stack[k]
<1>1. /\ stack \in Seq(Frames) /\ Len(stack) \in Nat \ {0} /\ Len(stack) <= Handler
      /\ DOMAIN stack = 1 .. Len(stack)
      /\ stack' = SubSeq(stack, 1, Len(stack) - 1)
      /\ \A k \in 1 .. Len(stack) : stack[k] \in Frames
  BY EmptySeq, LenProperties, ElementOfSeq DEF TypeInv, StackOK, UserReturns, UserRuns
<1>2. Handler \in Nat
  BY DispatchAssumption DEF Handler
<1>3. /\ stack' \in Seq(Frames) /\ Len(stack') = Len(stack) - 1
      /\ \A k \in 1 .. Len(stack) - 1 : stack'[k] = stack[k]
  <2>1. \A k \in 1 .. Len(stack) - 1 : stack[k] \in Frames
    BY <1>1
  <2> QED
    BY <2>1, <1>1, SubSeqProperties
<1>4. DOMAIN stack' = 1 .. Len(stack) - 1
  BY <1>3, LenProperties
<1>5. \A k \in DOMAIN stack' : k \in DOMAIN stack /\ stack'[k] = stack[k]
  BY <1>1, <1>3, <1>4
<1>6. UNCHANGED <<index, begun>> /\ begun # <<>> /\ pc' \in {"chain", "send"}
  BY DEF UserReturns, UserRuns, AfterChain, TypeInv, StackInv
<1>7. StackInv'
  BY <1>5, <1>6 DEF TypeInv, StackInv
<1> QED
  BY <1>1, <1>2, <1>3, <1>5, <1>6, <1>7 DEF TypeInv, StackOK, UserReturns

\* The innermost code on a stack that is not empty.
LEMMA TopFrame ==
  ASSUME stack \in Seq(Frames), stack # <<>>
  PROVE  /\ Len(stack) \in 1 .. Len(stack) /\ Len(stack) \in DOMAIN stack
         /\ stack[Len(stack)] \in Frames /\ stack[Len(stack)].at \in 1 .. Handler
<1>1. Len(stack) \in Nat \ {0} /\ DOMAIN stack = 1 .. Len(stack)
  BY EmptySeq, LenProperties
<1>2. stack[Len(stack)] \in Frames
  BY <1>1, ElementOfSeq
<1> QED
  BY <1>1, <1>2 DEF Frames

LEMMA TypeInvNext == TypeInv /\ [Next]_vars => TypeInv'
<1> SUFFICES ASSUME TypeInv, [Next]_vars PROVE TypeInv'
  OBVIOUS
<1> USE DEF request, response, callStack, SetStatus, Send, Terminate, UserRuns
<1>1. ASSUME LookupInvalid \/ LookupOptions \/ LookupRoute PROVE TypeInv'
  <2>1. StackInv'
    BY <1>1, StackInvKept DEF TypeInv, LookupInvalid, LookupOptions, LookupRoute
  <2>2. ASSUME LookupInvalid PROVE DataOK'
    BY <2>2, Members DEF TypeInv, DataOK, LookupInvalid
  <2>3. ASSUME LookupOptions PROVE DataOK'
    <3>1. CASE routes = {}
      <4>1. /\ UNCHANGED <<request, fallback, body, contentLength, marks, value, late,
                           finalized, hasSent>>
            /\ status' = 404 /\ pc' = "static"
        BY <2>3, <3>1 DEF LookupOptions
      <4>2. status' \in Codes /\ pc' \in Places
        BY <4>1, Members
      <4> QED
        BY <4>1, <4>2 DEF TypeInv, DataOK
    <3>2. CASE routes # {}
      <4>1. /\ UNCHANGED <<request, fallback, marks, value, late, hasSent>>
            /\ status' = 204 /\ pc' = "send" /\ finalized' = TRUE
            /\ body' = "empty" /\ contentLength' = "empty"
        BY <2>3, <3>2 DEF LookupOptions
      <4>2. /\ status' \in Codes /\ pc' \in Places /\ body' \in Bodies
            /\ contentLength' \in Lengths
        BY <4>1, Members
      <4> QED
        BY <4>1, <4>2 DEF TypeInv, DataOK
    <3> QED
      BY <3>1, <3>2
  <2>4. ASSUME LookupRoute PROVE DataOK'
    <3>1. fallback' \in BOOLEAN
      BY <2>4, Zenon DEF LookupRoute
    <3>2. pc' = "chain" \/ pc' = "static"
      BY <2>4, Zenon DEF LookupRoute
    <3>3. UNCHANGED <<request, response>>
      BY <2>4 DEF LookupRoute
    <3> QED
      BY <3>1, <3>2, <3>3, Members DEF TypeInv, DataOK
  <2> QED
    BY <1>1, <2>1, <2>2, <2>3, <2>4 DEF TypeInv, StackOK, LookupInvalid, LookupOptions, LookupRoute
<1>2. ASSUME EnterChain \/ UserCallsNext PROVE TypeInv'
  <2>1. /\ RunNext /\ pc = "chain" /\ (stack = <<>> \/ Running # Handler)
        /\ UNCHANGED <<request, pc, fallback, response, wire>>
    BY <1>2 DEF EnterChain, UserCallsNext, TypeInv, StackInv
  <2> QED
    BY <2>1, RunNextTypes DEF TypeInv, DataOK
<1>3. ASSUME \/ UserSetsStatus \/ UserSetsHeader \/ UserSends \/ UserRedirects
             \/ UserSendsFile \/ UserSendsNoFile
             \/ UserChangesHeader \/ UserChangesLength \/ UserEmptiesBody
      PROVE  TypeInv'
  <2>1. UNCHANGED <<request, pc, fallback, callStack, hasSent, wire>> /\ stack # <<>>
    BY <1>3 DEF UserSetsStatus, UserSetsHeader, UserSends, UserRedirects, UserSendsFile,
                UserSendsNoFile, UserChangesHeader, UserChangesLength, UserEmptiesBody
  <2>2. StackInv'
    BY <2>1, StackInvKept DEF TypeInv
  <2>3. Running \in 1 .. Handler
    BY <2>1, TopFrame DEF TypeInv, StackOK, Running
  <2>4. ASSUME UserSetsStatus PROVE DataOK'
    BY <2>4, Members DEF TypeInv, DataOK, UserSetsStatus
  <2>5. ASSUME UserSetsHeader PROVE DataOK'
    <3>1. marks' \subseteq 1 .. Handler
      BY <2>3, <2>5 DEF TypeInv, DataOK, UserSetsHeader
    <3> QED
      BY <2>5, <3>1, Zenon DEF TypeInv, DataOK, UserSetsHeader
  <2>6. ASSUME UserSends \/ UserSendsFile PROVE DataOK'
    <3>1. CASE UserSends
      BY <3>1, Members DEF TypeInv, DataOK, UserSends
    <3>2. CASE UserSendsFile
      BY <3>2, Members DEF TypeInv, DataOK, UserSendsFile
    <3> QED
      BY <2>6, <3>1, <3>2
  <2>7. ASSUME UserRedirects PROVE DataOK'
    BY <2>7, Members DEF TypeInv, DataOK, UserRedirects
  <2>8. ASSUME UserSendsNoFile PROVE DataOK'
    BY <2>8, Members DEF TypeInv, DataOK, UserSendsNoFile
  <2>9. ASSUME UserChangesHeader \/ UserChangesLength \/ UserEmptiesBody PROVE DataOK'
    <3>1. value' \in 0 .. Handler
      <4>1. value' = value \/ value' = Running
        BY <2>9 DEF UserChangesHeader, UserChangesLength, UserEmptiesBody
      <4>2. value \in 0 .. Handler
        BY DEF TypeInv, DataOK
      <4> QED
        BY <4>1, <4>2, <2>3, DispatchAssumption DEF Handler
    <3>2. late' \subseteq Unchecked
      <4>1. Notes("setValue") \/ Notes("emptyBody")
        BY <2>9 DEF UserChangesHeader, UserChangesLength, UserEmptiesBody
      <4>2. late' = late \/ late' = late \cup {"setValue"} \/ late' = late \cup {"emptyBody"}
        BY <4>1, Zenon DEF Notes
      <4> QED
        BY <4>2 DEF TypeInv, DataOK, Unchecked
    <3>3. /\ contentLength' = contentLength \/ contentLength' = "other"
          /\ body' = body \/ body' = "empty"
          /\ UNCHANGED <<request, pc, fallback, status, marks, finalized, hasSent>>
      BY <2>9 DEF UserChangesHeader, UserChangesLength, UserEmptiesBody
    <3>4. contentLength' \in Lengths /\ body' \in Bodies
      BY <3>3, Members DEF TypeInv, DataOK
    <3> QED
      BY <3>1, <3>2, <3>3, <3>4 DEF TypeInv, DataOK
  <2> QED
    BY <1>3, <2>1, <2>2, <2>4, <2>5, <2>6, <2>7, <2>8, <2>9 DEF TypeInv, StackOK
<1>4. ASSUME \/ UserStreams \/ UserStreamBreaks \/ UserStreamFails \/ UserStreamKills
             \/ UserThrows \/ UserThrowsOther \/ CatchThrows \/ StaticThrows
      PROVE  TypeInv'
  <2>1. \/ UNCHANGED <<contentLength, hasSent, wire>>
        \/ \E cut \in Cuts : StreamWrites(cut)
    BY <1>4, Members
       DEF UserStreams, UserStreamBreaks, UserStreamFails, UserStreamKills, StreamBreaks,
           UserThrows, UserThrowsOther, CatchThrows, StaticThrows
  <2>2. /\ UNCHANGED <<request, fallback, index, begun, again, status, body, marks, value, late>>
        /\ stack' = stack \/ stack' = <<>>
        /\ pc' = pc \/ pc' = "catch" \/ pc' = "terminated"
        /\ finalized' = finalized \/ finalized' = TRUE
    BY <1>4 DEF UserStreams, UserStreamBreaks, UserStreamFails, UserStreamKills, StreamBreaks,
                UserThrows, UserThrowsOther, CatchThrows, StaticThrows
  <2>3. StackInv'
    BY <2>2, StackInvKept DEF TypeInv
  <2>4. StackOK'
    <3>1. CASE stack' = stack
      BY <2>2, <3>1 DEF TypeInv, StackOK
    <3>2. CASE stack' = <<>>
      <4>1. stack' \in Seq(Frames) /\ Len(stack') = 0
        BY <3>2, EmptySeq
      <4>2. 0 <= Handler
        BY DispatchAssumption DEF Handler
      <4> QED
        BY <2>2, <4>1, <4>2 DEF TypeInv, StackOK
    <3> QED
      BY <2>2, <3>1, <3>2
  <2>5. contentLength' \in Lengths /\ hasSent' \in BOOLEAN /\ wire' \in Seq(Written)
    <3>1. CASE UNCHANGED <<contentLength, hasSent, wire>>
      BY <3>1 DEF TypeInv, DataOK
    <3>2. ASSUME NEW cut \in Cuts, StreamWrites(cut)
          PROVE  contentLength' \in Lengths /\ hasSent' \in BOOLEAN /\ wire' \in Seq(Written)
      <4>1. [status |-> status, length |-> "file", body |-> "file", marks |-> marks,
             value |-> value, cut |-> cut] \in Written
        BY Members DEF TypeInv, DataOK, Written
      <4>2. contentLength' = "file" /\ hasSent' = (hasSent \/ cut # "head")
        BY <3>2 DEF StreamWrites
      <4>3. wire' \in Seq(Written)
        BY <3>2, <4>1, AppendProperties DEF TypeInv, StreamWrites
      <4>4. contentLength' \in Lengths
        BY <4>2, Members
      <4> QED
        BY <4>2, <4>3, <4>4
    <3> QED
      BY <2>1, <3>1, <3>2
  <2>6. DataOK'
    <3>1. DataOK
      BY DEF TypeInv
    <3>2. finalized' \in BOOLEAN
      BY <2>2, <3>1 DEF DataOK
    <3>3. pc' \in Places
      BY <2>2, <3>1, Members DEF DataOK
    <3> QED
      BY <2>2, <2>5, <3>1, <3>2, <3>3 DEF DataOK
  <2> QED
    BY <2>3, <2>4, <2>5, <2>6 DEF TypeInv
<1>5. ASSUME UserReturns PROVE TypeInv'
  <2>1. StackInv' /\ StackOK'
    BY <1>5, UserReturnsTypes
  <2>2. (pc' = pc \/ pc' = "send") /\ (body' = body \/ body' = "empty")
    BY <1>5, Zenon DEF UserReturns, AfterChain
  <2>3. UNCHANGED <<request, fallback, status, contentLength, marks, value, late, finalized,
                    hasSent, wire>>
    BY <1>5 DEF UserReturns
  <2>4. DataOK'
    BY <2>2, <2>3, Members DEF TypeInv, DataOK
  <2> QED
    BY <2>1, <2>3, <2>4 DEF TypeInv
<1>6. ASSUME Catch \/ StaticFile \/ StaticMissing \/ AnswerInvalid PROVE TypeInv'
  <2>1. UNCHANGED <<request, fallback, callStack, marks, value, late, hasSent, wire>>
        /\ pc' = "send"
    BY <1>6 DEF Catch, StaticFile, StaticMissing, AnswerInvalid, AfterChain
  <2>2. StackInv' /\ StackOK'
    BY <2>1, StackInvKept DEF TypeInv, StackOK
  <2>3. /\ status' \in Codes /\ body' \in Bodies /\ contentLength' \in Lengths
        /\ finalized' \in BOOLEAN
    <3>1. CASE Catch
      <4>1. body' = "empty" \/ body' = "error"
        BY <3>1, Zenon DEF Catch, AfterChain
      <4> QED
        BY <3>1, <4>1, Members DEF Catch
    <3>2. CASE StaticFile
      BY <3>2, Members DEF StaticFile
    <3>3. CASE StaticMissing
      BY <3>3, Members DEF StaticMissing
    <3>4. CASE AnswerInvalid
      BY <3>4, Members DEF AnswerInvalid
    <3> QED
      BY <1>6, <3>1, <3>2, <3>3, <3>4
  <2>4. DataOK'
    BY <2>1, <2>3, Members DEF TypeInv, DataOK
  <2> QED
    BY <2>1, <2>2, <2>4 DEF TypeInv
<1>7. ASSUME Write \/ WriteKills PROVE TypeInv'
  <2>1. /\ UNCHANGED <<request, fallback, callStack, response>>
        /\ pc' = "sent" \/ pc' = "terminated"
    BY <1>7 DEF Write, WriteKills
  <2>2. StackInv' /\ StackOK'
    BY <2>1, StackInvKept DEF TypeInv, StackOK
  <2>3. UNCHANGED wire \/ \E cut \in Cuts : Emit(cut)
    BY <1>7, Members, Zenon DEF Write, WriteKills
  <2>4. wire' \in Seq(Written)
    <3>1. CASE UNCHANGED wire
      BY <3>1 DEF TypeInv
    <3>2. ASSUME NEW cut \in Cuts, Emit(cut) PROVE wire' \in Seq(Written)
      <4>1. [status |-> status, length |-> contentLength, body |-> body, marks |-> marks,
             value |-> value, cut |-> cut] \in Written
        BY Members DEF TypeInv, DataOK, Written
      <4> QED
        BY <3>2, <4>1, AppendProperties DEF TypeInv, Emit
    <3> QED
      BY <2>3, <3>1, <3>2
  <2>5. DataOK'
    BY <2>1, Members DEF TypeInv, DataOK
  <2> QED
    BY <2>2, <2>4, <2>5 DEF TypeInv
<1>8. CASE UNCHANGED vars
  <2>1. UNCHANGED <<request, pc, fallback, callStack, response, wire>>
    BY <1>8 DEF vars
  <2>2. DataOK'
    BY <2>1 DEF TypeInv, DataOK
  <2> QED
    BY <2>1, <2>2, StackInvKept DEF TypeInv, StackOK
<1> QED
  BY <1>1, <1>2, <1>3, <1>4, <1>5, <1>6, <1>7, <1>8 DEF Next

LEMMA TypeInvariant == Spec => []TypeInv
  BY TypeInvInit, TypeInvNext, PTL DEF Spec

\* Every reachable state is well typed, for a chain of any length; above all,
\* the call stack is never deeper than the chain, even when a middleware calls
\* next() again and again.
THEOREM DispatchTypeOK == Spec => []TypeOK
  BY TypeInvariant, TypeInvImpliesTypeOK, PTL

-----------------------------------------------------------------------------
(* The response and what is written of it.                                 *)

\* Where nothing has been handed to the socket unless it was streamed.
Early == {"lookup", "chain", "static", "invalid"}

\* The length announced is that of the content, or user code did one of the two
\* things that break it.
Fits(length, content) ==
  \/ length \in {content, "other"}
  \/ content = "empty" /\ "emptyBody" \in late

\* Before the chain nothing has been said, and until it is final a response has
\* no body.  What was streamed is over, but for the 500 of a stream that broke,
\* and was not for a HEAD served by GET.  The length is that of the body
\* wherever the body may still be written.
ResponseInv ==
  /\ pc \in {"lookup", "static", "invalid"} => ~finalized /\ ~hasSent /\ ~fallback
  /\ hasSent => ~fallback /\ (finalized \/ pc \in {"catch", "terminated"})
  /\ ~finalized => body = "empty"
  /\ ~hasSent /\ ~fallback /\ pc \in Early \cup {"send"} => Fits(contentLength, body)
  /\ pc = "send" /\ fallback => body = "empty"

\* How many responses have been handed to the socket.
CountInv ==
  /\ OneResponse
  /\ hasSent => Len(wire) = 1
  /\ ~hasSent /\ pc \in Early => wire = <<>>
  /\ ~hasSent /\ pc \in {"catch", "send"} /\ wire # <<>> =>
       Len(wire) = 1 /\ wire[1].cut = "head" /\ (pc = "send" => status = 500)

\* Each of them is the response as it will remain.
RecordInv ==
  \A k \in DOMAIN wire :
    /\ wire[k].marks = marks
    /\ wire[k].value = value \/ (hasSent /\ "setValue" \in late)
    /\ wire[k].cut = "none" => wire[k].status = status /\ (finalized \/ pc = "sent")
    /\ fallback => wire[k].body = "empty"
    /\ ~fallback => Fits(wire[k].length, wire[k].body)

WireInv == CountInv /\ RecordInv

\* A step that writes nothing, and leaves alone a response that is final.
LEMMA WireSame ==
  ASSUME WireInv, UNCHANGED <<wire, marks, fallback, hasSent>>,
         pc \in {"chain", "catch", "static"}, pc' # "sent",
         late \subseteq late', value' = value \/ (hasSent /\ "setValue" \in late'),
         finalized => finalized' /\ status' = status,
         ~hasSent /\ wire # <<>> => pc' \notin Early /\ (pc' = "send" => status' = 500)
  PROVE  WireInv'
<1>1. CountInv'
  <2>1. OneResponse'
    BY DEF WireInv, CountInv, OneResponse
  <2>2. ASSUME ~hasSent, wire # <<>>, pc' \in {"catch", "send"}
        PROVE  Len(wire) = 1 /\ wire[1].cut = "head" /\ (pc' = "send" => status' = 500)
    <3>1. pc = "catch"
      BY <2>2 DEF WireInv, CountInv, Early
    <3>2. Len(wire) = 1 /\ wire[1].cut = "head"
      BY <2>2, <3>1 DEF WireInv, CountInv
    <3> QED
      BY <2>2, <3>2
  <2> QED
    BY <2>1, <2>2 DEF WireInv, CountInv
<1>2. RecordInv'
  BY DEF WireInv, RecordInv, Fits
<1> QED
  BY <1>1, <1>2 DEF WireInv

LEMMA WireEmpty ==
  ASSUME wire' = <<>>, ~hasSent', pc' # "sent"
  PROVE  WireInv'
<1>1. Len(wire') = 0 /\ DOMAIN wire' = {}
  OBVIOUS
<1> QED
  BY <1>1 DEF WireInv, CountInv, RecordInv, OneResponse

\* A step that hands the response r to the socket.
LEMMA WireWritten ==
  ASSUME WireInv, wire \in Seq(Written), UNCHANGED <<marks, value, late, fallback, status>>,
         ~hasSent,
         wire = <<>> \/ (/\ Len(wire) = 1 /\ wire[1].cut = "head"
                         /\ status = 500 /\ ~hasSent' /\ pc' \in {"sent", "terminated"}),
         hasSent' \/ pc' \in {"sent", "terminated", "catch"},
         NEW r \in Written, wire' = Append(wire, r),
         pc' = "catch" /\ ~hasSent' => r.cut = "head",
         r.marks = marks, r.value = value, r.status = status,
         r.cut = "none" => finalized' \/ pc' = "sent",
         fallback => r.body = "empty",
         ~fallback => Fits(r.length, r.body)
  PROVE  WireInv'
<1>1. CASE wire = <<>>
  <2>1. Len(wire') = 1 /\ DOMAIN wire' = {1} /\ wire'[1] = r /\ wire' # <<>>
    <3>1. wire' = <<r>>
      BY <1>1
    <3> QED
      BY <3>1
  <2>2. CountInv'
    BY <2>1 DEF CountInv, OneResponse, Early
  <2>3. RecordInv'
    BY <2>1 DEF RecordInv, Fits
  <2> QED
    BY <2>2, <2>3 DEF WireInv
<1>2. CASE wire # <<>>
  <2>1. /\ Len(wire) = 1 /\ wire[1].cut = "head" /\ status = 500 /\ ~hasSent'
        /\ pc' \in {"sent", "terminated"}
    BY <1>2
  <2>2. /\ Len(wire') = 2 /\ DOMAIN wire' = {1, 2} /\ wire'[1] = wire[1] /\ wire'[2] = r
        /\ wire' # <<>>
    <3>1. wire' \in Seq(Written) /\ Len(wire') = 2
      <4>1. Append(wire, r) \in Seq(Written) /\ Len(Append(wire, r)) = Len(wire) + 1
        BY AppendProperties, SMTT(30)
      <4>2. wire' = Append(wire, r)
        OBVIOUS
      <4> QED
        BY <2>1, <4>1, <4>2
    <3>2. wire'[1] = wire[1]
      <4>1. 1 \in 1 .. Len(wire)
        BY <2>1
      <4> QED
        BY <4>1, AppendProperties
    <3>3. wire'[2] = r
      <4>1. wire'[Len(wire) + 1] = r
        BY AppendProperties
      <4> QED
        BY <2>1, <4>1
    <3> QED
      BY <3>1, <3>2, <3>3, LenProperties
  <2>3. CountInv'
    BY <2>1, <2>2 DEF CountInv, OneResponse, Early
  <2>4. RecordInv'
    <3>1. 1 \in DOMAIN wire
      BY <2>1, LenProperties
    <3>2. /\ wire[1].marks = marks /\ wire[1].value = value
          /\ fallback => wire[1].body = "empty"
          /\ ~fallback => Fits(wire[1].length, wire[1].body)
      BY <3>1 DEF WireInv, RecordInv
    <3> QED
      BY <2>1, <2>2, <3>2 DEF RecordInv, Fits
  <2> QED
    BY <2>3, <2>4 DEF WireInv
<1> QED
  BY <1>1, <1>2

LEMMA ResponseNext ==
  ASSUME TypeInv, ResponseInv, WireInv, [Next]_vars
  PROVE  ResponseInv' /\ WireInv'
<1> USE DEF request, response, callStack, SetStatus, Send, Terminate, UserRuns
<1>1. ASSUME LookupInvalid PROVE ResponseInv' /\ WireInv'
  <2>1. /\ pc = "lookup" /\ pc' = "invalid"
        /\ UNCHANGED <<fallback, response, wire>>
    BY <1>1 DEF LookupInvalid
  <2>2. ~hasSent /\ wire = <<>>
    BY <2>1 DEF ResponseInv, WireInv, CountInv, Early
  <2> QED
    BY <2>1, <2>2, WireEmpty DEF ResponseInv, Early, Fits
<1>2. ASSUME LookupOptions PROVE ResponseInv' /\ WireInv'
  <2>1. pc = "lookup" /\ UNCHANGED <<fallback, hasSent, wire, marks, value, late>>
    BY <1>2 DEF LookupOptions
  <2>2. ~finalized /\ ~hasSent /\ ~fallback /\ Fits(contentLength, body) /\ wire = <<>>
    BY <2>1 DEF ResponseInv, WireInv, CountInv, Early
  <2>3. CASE routes = {}
    <3>1. pc' = "static" /\ UNCHANGED <<body, contentLength, finalized>>
      BY <1>2, <2>3 DEF LookupOptions
    <3> QED
      BY <2>1, <2>2, <3>1, WireEmpty DEF ResponseInv, Fits
  <2>4. CASE routes # {}
    <3>1. pc' = "send" /\ finalized' = TRUE /\ body' = "empty" /\ contentLength' = "empty"
      BY <1>2, <2>4 DEF LookupOptions
    <3> QED
      BY <2>1, <2>2, <3>1, WireEmpty DEF ResponseInv, Fits
  <2> QED
    BY <2>3, <2>4
<1>3. ASSUME LookupRoute PROVE ResponseInv' /\ WireInv'
  <2>1. pc = "lookup" /\ UNCHANGED <<response, wire>>
    BY <1>3 DEF LookupRoute
  <2>2. pc' = "chain" \/ (pc' = "static" /\ ~fallback')
    BY <1>3, Zenon DEF LookupRoute
  <2>3. /\ ~finalized /\ ~hasSent /\ body = "empty" /\ Fits(contentLength, body)
        /\ wire = <<>>
    BY <2>1 DEF ResponseInv, WireInv, CountInv, Early
  <2> QED
    BY <2>1, <2>2, <2>3, WireEmpty DEF ResponseInv, Fits
<1>4. ASSUME EnterChain \/ UserCallsNext PROVE ResponseInv' /\ WireInv'
  <2>1. UNCHANGED <<pc, fallback, response, wire>>
    BY <1>4 DEF EnterChain, UserCallsNext
  <2> QED
    BY <2>1 DEF ResponseInv, Fits, WireInv, CountInv, RecordInv, OneResponse
<1>5. ASSUME UserSetsStatus \/ UserSetsHeader \/ UserRedirects PROVE ResponseInv' /\ WireInv'
  <2>1. /\ pc = "chain" /\ ~finalized
        /\ UNCHANGED <<pc, fallback, body, contentLength, hasSent, value, late, wire>>
    BY <1>5 DEF UserSetsStatus, UserSetsHeader, UserRedirects
  <2>2. ~hasSent /\ wire = <<>>
    BY <2>1 DEF ResponseInv, WireInv, CountInv, Early
  <2> QED
    BY <2>1, <2>2, WireEmpty DEF ResponseInv, Fits
<1>6. ASSUME UserSends \/ UserSendsFile \/ UserSendsNoFile PROVE ResponseInv' /\ WireInv'
  <2>1. /\ pc = "chain" /\ ~finalized /\ finalized' = TRUE
        /\ UNCHANGED <<pc, fallback, hasSent, wire>> /\ contentLength' = body'
    BY <1>6 DEF UserSends, UserSendsFile, UserSendsNoFile
  <2>2. ~hasSent /\ wire = <<>>
    BY <2>1 DEF ResponseInv, WireInv, CountInv, Early
  <2> QED
    BY <2>1, <2>2, WireEmpty DEF ResponseInv, Fits
<1>7. ASSUME UserChangesHeader \/ UserChangesLength \/ UserEmptiesBody
      PROVE  ResponseInv' /\ WireInv'
  <2>1. /\ pc = "chain" /\ UNCHANGED <<pc, fallback, status, marks, finalized, hasSent, wire>>
        /\ body' = body \/ body' = "empty"
    BY <1>7 DEF UserChangesHeader, UserChangesLength, UserEmptiesBody
  <2>2. late' = late \/ late' = late \cup {"setValue"} \/ late' = late \cup {"emptyBody"}
    <3>1. Notes("setValue") \/ Notes("emptyBody")
      BY <1>7 DEF UserChangesHeader, UserChangesLength, UserEmptiesBody
    <3> QED
      BY <3>1, Zenon DEF Notes
  <2>3. late \subseteq late'
    BY <2>2
  <2>4. ~hasSent => wire = <<>>
    BY <2>1 DEF WireInv, CountInv, Early
  <2>5. hasSent => finalized
    BY <2>1 DEF ResponseInv
  <2>6. WireInv'
    <3>1. CASE ~hasSent
      BY <2>1, <2>4, <3>1, WireEmpty
    <3>2. CASE hasSent
      <4>1. value' = value \/ "setValue" \in late'
        <5>1. UNCHANGED value \/ Notes("setValue")
          BY <1>7 DEF UserChangesHeader, UserChangesLength, UserEmptiesBody
        <5>2. Notes("setValue") => late' = late \cup {"setValue"}
          BY <2>5, <3>2, Zenon DEF Notes
        <5> QED
          BY <5>1, <5>2
      <4> QED
        BY <2>1, <2>3, <3>2, <4>1, WireSame
    <3> QED
      BY <3>1, <3>2
  <2>7. ASSUME ~hasSent, ~fallback PROVE Fits(contentLength, body)'
    <3>1. Fits(contentLength, body)
      BY <2>1, <2>7 DEF ResponseInv, Early
    <3>2. CASE UserChangesHeader \/ UserChangesLength
      <4>1. body' = body /\ (contentLength' = contentLength \/ contentLength' = "other")
        BY <3>2 DEF UserChangesHeader, UserChangesLength
      <4> QED
        BY <2>3, <3>1, <4>1 DEF Fits
    <3>3. CASE UserEmptiesBody
      <4>1. UNCHANGED contentLength /\ body' = "empty" /\ Notes("emptyBody")
        BY <3>3 DEF UserEmptiesBody
      <4>2. CASE finalized
        <5>1. late' = late \cup {"emptyBody"}
          BY <4>1, <4>2, Zenon DEF Notes
        <5> QED
          BY <4>1, <5>1 DEF Fits
      <4>3. CASE ~finalized
        <5>1. body = "empty"
          BY <4>3 DEF ResponseInv
        <5> QED
          BY <2>3, <3>1, <4>1, <5>1 DEF Fits
      <4> QED
        BY <4>2, <4>3
    <3> QED
      BY <1>7, <3>2, <3>3
  <2>8. ResponseInv'
    BY <2>1, <2>7 DEF ResponseInv, Fits
  <2> QED
    BY <2>6, <2>8
<1>8. ASSUME NEW cut \in Cuts, StreamWrites(cut), pc = "chain", ~finalized, ~fallback,
             UNCHANGED <<fallback, status, body, marks, value, late>>,
             \/ pc' = "chain" /\ finalized' = TRUE /\ cut # "head"
             \/ pc' \in {"catch", "terminated"} /\ finalized' = finalized /\ cut # "none"
      PROVE  ResponseInv' /\ WireInv'
  <2>1. ~hasSent /\ wire = <<>>
    BY <1>8 DEF ResponseInv, WireInv, CountInv, Early
  <2>2. hasSent' = (cut # "head")
    BY <1>8, <2>1 DEF StreamWrites
  <2> DEFINE r == [status |-> status, length |-> "file", body |-> "file", marks |-> marks,
                   value |-> value, cut |-> cut]
  <2>3. wire' = Append(wire, r)
    BY <1>8 DEF StreamWrites
  <2>4. /\ r.status = status /\ r.length = r.body /\ r.marks = marks /\ r.value = value
        /\ r.cut = cut
    OBVIOUS
  <2>5. r \in Written
    BY Members DEF TypeInv, DataOK, Written
  <2> HIDE DEF r
  <2>6. Fits(r.length, r.body)
    BY <2>4 DEF Fits
  <2>7. wire \in Seq(Written)
    BY DEF TypeInv
  <2>8. WireInv'
    BY <1>8, <2>1, <2>2, <2>3, <2>4, <2>5, <2>6, <2>7, WireWritten
  <2>9. ResponseInv'
    BY <1>8, <2>2 DEF ResponseInv, Early, Fits
  <2> QED
    BY <2>8, <2>9
<1>9. ASSUME UserStreams \/ UserStreamBreaks \/ UserStreamFails \/ UserStreamKills
      PROVE  ResponseInv' /\ WireInv'
  <2>1. CASE UserStreams
    BY <1>8, <2>1, Members DEF UserStreams
  <2>2. CASE UserStreamBreaks \/ UserStreamFails \/ UserStreamKills
    BY <1>8, <2>2, Members DEF UserStreamBreaks, UserStreamFails, UserStreamKills, StreamBreaks
  <2> QED
    BY <1>9, <2>1, <2>2
<1>10. ASSUME UserThrows \/ UserThrowsOther \/ CatchThrows \/ StaticThrows
       PROVE  ResponseInv' /\ WireInv'
  <2>1. /\ pc' = "catch" \/ (pc' = "terminated" /\ (pc # "catch" \/ finalized))
        /\ pc \in {"chain", "catch", "static"}
        /\ UNCHANGED <<fallback, response, wire>>
    BY <1>10 DEF UserThrows, UserThrowsOther, CatchThrows, StaticThrows
  <2>2. WireInv'
    BY <2>1, WireSame DEF Early
  <2>3. ResponseInv'
    BY <2>1 DEF ResponseInv, Early
  <2> QED
    BY <2>2, <2>3
<1>11. ASSUME UserReturns PROVE ResponseInv' /\ WireInv'
  <2>1. /\ pc = "chain"
        /\ UNCHANGED <<fallback, status, contentLength, marks, value, late, finalized,
                       hasSent, wire>>
    BY <1>11 DEF UserReturns
  <2>2. \/ UNCHANGED <<pc, body>>
        \/ pc' = "send" /\ ~fallback /\ body' = body
        \/ pc' = "send" /\ fallback /\ body' = "empty"
    BY <1>11, Zenon DEF UserReturns, AfterChain
  <2>3. ~hasSent => wire = <<>>
    BY <2>1 DEF WireInv, CountInv, Early
  <2>4. WireInv'
    BY <2>1, <2>2, <2>3, WireSame
  <2>5. ResponseInv'
    BY <2>1, <2>2 DEF ResponseInv, Early, Fits
  <2> QED
    BY <2>4, <2>5
<1>12. ASSUME Catch PROVE ResponseInv' /\ WireInv'
  <2>1. /\ pc = "catch" /\ ~finalized /\ finalized' = TRUE /\ contentLength' = "error"
        /\ pc' = "send" /\ status' = 500
        /\ UNCHANGED <<fallback, marks, value, late, hasSent, wire>>
    BY <1>12 DEF Catch, AfterChain
  <2>2. (~fallback /\ body' = "error") \/ (fallback /\ body' = "empty")
    BY <1>12, Zenon DEF Catch, AfterChain
  <2>3. WireInv'
    BY <2>1, WireSame DEF Early
  <2>4. ResponseInv'
    BY <2>1, <2>2 DEF ResponseInv, Fits
  <2> QED
    BY <2>3, <2>4
<1>13. ASSUME StaticFile \/ StaticMissing \/ AnswerInvalid PROVE ResponseInv' /\ WireInv'
  <2>1. /\ pc \in {"static", "invalid"} /\ pc' = "send" /\ finalized' = TRUE
        /\ contentLength' = body' /\ UNCHANGED <<fallback, hasSent, wire>>
    BY <1>13 DEF StaticFile, StaticMissing, AnswerInvalid
  <2>2. ~hasSent /\ ~fallback /\ wire = <<>>
    BY <2>1 DEF ResponseInv, WireInv, CountInv, Early
  <2> QED
    BY <2>1, <2>2, WireEmpty DEF ResponseInv, Fits
<1>14. ASSUME NEW cut \in Cuts, Emit(cut), pc = "send", ~hasSent,
              UNCHANGED <<fallback, response>>,
              pc' = "sent" \/ (pc' = "terminated" /\ cut # "none")
       PROVE  WireInv'
  <2> DEFINE r == [status |-> status, length |-> contentLength, body |-> body,
                   marks |-> marks, value |-> value, cut |-> cut]
  <2>1. wire' = Append(wire, r)
    BY <1>14 DEF Emit
  <2>2. /\ r.status = status /\ r.length = contentLength /\ r.body = body /\ r.marks = marks
        /\ r.value = value /\ r.cut = cut
    OBVIOUS
  <2>3. r \in Written
    BY Members DEF TypeInv, DataOK, Written
  <2> HIDE DEF r
  <2>4. wire = <<>> \/ (Len(wire) = 1 /\ wire[1].cut = "head" /\ status = 500)
    BY <1>14 DEF WireInv, CountInv
  <2>5. (fallback => r.body = "empty") /\ (~fallback => Fits(r.length, r.body))
    BY <1>14, <2>2 DEF ResponseInv
  <2>6. wire \in Seq(Written)
    BY DEF TypeInv
  <2> QED
    BY <1>14, <2>1, <2>2, <2>3, <2>4, <2>5, <2>6, WireWritten
<1>15. ASSUME Write \/ WriteKills PROVE ResponseInv' /\ WireInv'
  <2>1. /\ pc = "send" /\ pc' \in {"sent", "terminated"} /\ UNCHANGED <<fallback, response>>
    BY <1>15 DEF Write, WriteKills
  <2>2. ResponseInv'
    BY <2>1 DEF ResponseInv, Early
  <2>3. CASE hasSent
    <3>1. UNCHANGED wire /\ pc' = "sent"
      BY <1>15, <2>3, Zenon DEF Write, WriteKills
    <3>2. Len(wire) = 1 /\ wire # <<>>
      BY <2>3 DEF WireInv, CountInv
    <3>3. CountInv'
      BY <2>1, <2>3, <3>1, <3>2 DEF WireInv, CountInv, OneResponse
    <3>4. RecordInv'
      BY <2>1, <2>3, <3>1 DEF WireInv, RecordInv, Fits
    <3> QED
      BY <2>2, <3>3, <3>4 DEF WireInv
  <2>4. CASE ~hasSent
    <3>1. \E cut \in Cuts : Emit(cut) /\ (pc' = "sent" \/ (pc' = "terminated" /\ cut # "none"))
      <4>1. CASE Write
        <5>1. pc' = "sent" /\ \E cut \in Cuts : Emit(cut)
          BY <4>1, <2>4, Zenon DEF Write
        <5> QED
          BY <5>1
      <4>2. CASE WriteKills
        BY <4>2, Members DEF WriteKills
      <4> QED
        BY <1>15, <4>1, <4>2
    <3> QED
      BY <1>14, <2>1, <2>2, <2>4, <3>1
  <2> QED
    BY <2>3, <2>4
<1>16. CASE UNCHANGED vars
  <2>1. UNCHANGED <<pc, fallback, response, wire>>
    BY <1>16 DEF vars
  <2> QED
    BY <2>1 DEF ResponseInv, Fits, WireInv, CountInv, RecordInv, OneResponse
<1> QED
  BY <1>1, <1>2, <1>3, <1>4, <1>5, <1>6, <1>7, <1>9, <1>10, <1>11, <1>12, <1>13, <1>15, <1>16
     DEF Next

LEMMA ResponseInvariant == Spec => [](TypeInv /\ ResponseInv /\ WireInv)
<1>1. Init => TypeInv /\ ResponseInv /\ WireInv
  <2> SUFFICES ASSUME Init PROVE ResponseInv /\ WireInv
    BY TypeInvInit
  <2>1. ResponseInv
    BY DEF Init, ResponseInv, Fits
  <2>2. wire = <<>> /\ hasSent = FALSE /\ pc = "lookup" /\ Len(wire) = 0
    BY DEF Init
  <2> QED
    BY <2>1, <2>2 DEF WireInv, CountInv, RecordInv, OneResponse
<1>2. TypeInv /\ ResponseInv /\ WireInv /\ [Next]_vars => (TypeInv /\ ResponseInv /\ WireInv)'
  BY TypeInvNext, ResponseNext
<1> QED
  BY <1>1, <1>2, PTL DEF Spec

\* However user code mixes streaming, exceptions and a second next(), a request
\* is answered by one response, and only a stream cut within its head is followed
\* by anything.
THEOREM DispatchOneResponse == Spec => []OneResponse
<1>1. WireInv => OneResponse
  BY DEF WireInv, CountInv
<1> QED
  BY <1>1, ResponseInvariant, PTL

\* A HEAD that a GET route serves never has a body on the wire.
THEOREM DispatchFallbackHasNoBody == Spec => []FallbackHasNoBody
<1>1. WireInv => FallbackHasNoBody
  BY DEF WireInv, RecordInv, FallbackHasNoBody
<1> QED
  BY <1>1, ResponseInvariant, PTL

\* What is on the wire carries all headers and cookies, the status and the
\* length of the response as it was left, whichever operations user code calls;
\* emptyBody() and setValue break it only as the property says.
THEOREM DispatchWireIsResponse == Spec => []WireIsResponse
<1>1. WireInv => WireIsResponse
  BY DEF WireInv, RecordInv, Fits, WireIsResponse
<1> QED
  BY <1>1, ResponseInvariant, PTL

\* Nothing but emptyBody() and setValue changes what a finalized response will
\* say: not the rest of its operations, not the catch block, not a stream.
THEOREM DispatchFinalizedIsFinal == Spec => FinalizedIsFinal
<1> USE DEF request, response, callStack, SetStatus, Send, Terminate, UserRuns
<1>1. ASSUME ResponseInv, Next, finalized
      PROVE  /\ finalized' /\ status' = status /\ marks' = marks
             /\ value' # value => UserChangesHeader
             /\ contentLength' # contentLength => UserChangesLength
             /\ body' # body => body' = "empty" /\ (fallback \/ UserEmptiesBody)
  <2>1. pc \notin {"lookup", "static", "invalid"}
    BY <1>1 DEF ResponseInv
  <2>2. CASE UserReturns
    <3>1. body' = body \/ (body' = "empty" /\ fallback)
      BY <2>2, Zenon DEF UserReturns, AfterChain
    <3> QED
      BY <1>1, <2>2, <3>1 DEF UserReturns
  <2>3. CASE UserChangesHeader
    BY <1>1, <2>3 DEF UserChangesHeader
  <2>4. CASE UserChangesLength
    BY <1>1, <2>4 DEF UserChangesLength
  <2>5. CASE UserEmptiesBody
    BY <1>1, <2>5 DEF UserEmptiesBody
  <2>6. CASE UNCHANGED response
    BY <1>1, <2>6
  <2>7. \/ UserReturns \/ UserChangesHeader \/ UserChangesLength \/ UserEmptiesBody
        \/ UNCHANGED response
    <3>1. \/ UserReturns \/ UserChangesHeader \/ UserChangesLength \/ UserEmptiesBody
          \/ EnterChain \/ UserCallsNext \/ UserThrows \/ UserThrowsOther \/ CatchThrows
          \/ StaticThrows \/ Write \/ WriteKills
      BY <1>1, <2>1
         DEF Next, LookupInvalid, LookupOptions, LookupRoute, UserSetsStatus, UserSetsHeader,
             UserSends, UserRedirects, UserSendsFile, UserSendsNoFile, UserStreams,
             UserStreamBreaks, UserStreamFails, UserStreamKills, StreamBreaks, Catch,
             StaticFile, StaticMissing, AnswerInvalid
    <3> QED
      BY <3>1 DEF EnterChain, UserCallsNext, UserThrows, UserThrowsOther, CatchThrows,
                  StaticThrows, Write, WriteKills
  <2> QED
    BY <2>2, <2>3, <2>4, <2>5, <2>6, <2>7
<1>2. ASSUME ResponseInv, [Next]_vars
      PROVE  [finalized => /\ finalized' /\ status' = status /\ marks' = marks
                           /\ value' # value => UserChangesHeader
                           /\ contentLength' # contentLength => UserChangesLength
                           /\ body' # body => body' = "empty"
                                               /\ (fallback \/ UserEmptiesBody)]_vars
  <2>1. CASE UNCHANGED vars
    BY <2>1
  <2>2. CASE Next
    BY <1>1, <1>2, <2>2
  <2> QED
    BY <1>2, <2>1, <2>2
<1> QED
  BY <1>2, ResponseInvariant, PTL DEF Spec, FinalizedIsFinal

-----------------------------------------------------------------------------
(* The order of the chain.                                                 *)

\* While nobody calls next() twice the index is the number of code begun, and
\* the stack is what was begun last, each having called next() but the last.
OrderInv ==
  ~again =>
    /\ index = (IF Len(begun) < Handler THEN Len(begun) ELSE ChainLength)
    /\ Len(begun) <= Handler
    /\ \A k \in DOMAIN begun : begun[k] = k
    /\ \A k \in DOMAIN stack : stack[k].at = k /\ (k < Len(stack) => stack[k].called)
    /\ stack # <<>> /\ ~stack[Len(stack)].called => Len(begun) = Len(stack)

LEMMA OrderRunNext ==
  ASSUME TypeInv, OrderInv, RunNext, begun = <<>> \/ (stack # <<>> /\ Running # Handler)
  PROVE  OrderInv'
<1> SUFFICES ASSUME ~again' PROVE OrderInv'
  BY DEF OrderInv
<1> DEFINE p == IF index < ChainLength THEN index + 1 ELSE Handler
           below == [k \in DOMAIN stack |->
                       IF k = Len(stack) THEN [stack[k] EXCEPT !.called = TRUE] ELSE stack[k]]
           new == [at |-> p, called |-> FALSE]
<1>1. /\ stack' = Append(below, new)
      /\ begun' = Append(begun, p)
      /\ again' = (again \/ (stack # <<>> /\ stack[Len(stack)].called))
      /\ index' = IF index < ChainLength THEN index + 1 ELSE index
  BY DEF RunNext, Begin
<1>2. ~again /\ (stack # <<>> => ~stack[Len(stack)].called)
  BY <1>1, Zenon
<1>3. /\ ChainLength \in Nat /\ Handler = ChainLength + 1
      /\ stack \in Seq(Frames) /\ begun \in Seq(1 .. Handler)
  BY DispatchAssumption DEF TypeInv, StackOK, Handler
<1>4. /\ Len(stack) \in Nat /\ DOMAIN stack = 1 .. Len(stack)
      /\ Len(begun) \in Nat /\ DOMAIN begun = 1 .. Len(begun)
  BY <1>3, LenProperties
<1>5. /\ index = (IF Len(begun) < Handler THEN Len(begun) ELSE ChainLength)
      /\ Len(begun) <= Handler
      /\ \A k \in DOMAIN begun : begun[k] = k
      /\ \A k \in DOMAIN stack : stack[k].at = k /\ (k < Len(stack) => stack[k].called)
  BY <1>2 DEF OrderInv
<1>6. Len(begun) = Len(stack) /\ Len(begun) < Handler
  <2>1. CASE begun = <<>>
    <3>1. stack = <<>>
      BY <2>1 DEF TypeInv, StackInv
    <3> QED
      BY <2>1, <3>1, <1>3, EmptySeq
  <2>2. CASE stack # <<>> /\ Running # Handler
    <3>1. Len(begun) = Len(stack)
      BY <2>2, <1>2 DEF OrderInv
    <3>2. Len(stack) # Handler
      <4>1. Len(stack) \in DOMAIN stack
        BY <2>2, <1>3, TopFrame
      <4>2. stack[Len(stack)].at = Len(stack)
        BY <4>1, <1>5
      <4> QED
        BY <2>2, <4>2 DEF Running
    <3>3. Len(begun) <= Handler
      BY <1>5
    <3>4. Handler \in Nat /\ Len(begun) \in Nat
      BY <1>3, <1>4
    <3> QED
      BY <3>1, <3>2, <3>3, <3>4
  <2> QED
    BY <2>1, <2>2
<1>7. p = Len(begun) + 1 /\ index' = (IF p < Handler THEN p ELSE ChainLength)
  BY <1>1, <1>3, <1>4, <1>5, <1>6
<1>8. new.at = p
  OBVIOUS
<1> HIDE DEF p, new
<1>9. /\ Len(begun') = p /\ DOMAIN begun' = 1 .. p /\ begun'[p] = p
      /\ \A k \in 1 .. Len(begun) : begun'[k] = begun[k]
  <2>1. /\ Len(begun') = Len(begun) + 1
        /\ \A k \in 1 .. Len(begun) : begun'[k] = begun[k]
        /\ begun'[Len(begun) + 1] = p
        /\ DOMAIN begun' = 1 .. Len(begun) + 1
    <3>1. p \in 1 .. Handler
      BY <1>3, <1>4, <1>6, <1>7
    <3>2. begun' \in Seq(1 .. Handler)
      BY <1>1, <1>3, <3>1, AppendProperties
    <3> QED
      BY <1>1, <1>3, <3>1, <3>2, AppendProperties, LenProperties
  <2> QED
    BY <2>1, <1>7
<1>10. \A k \in DOMAIN begun' : begun'[k] = k
  <2> SUFFICES ASSUME NEW k \in DOMAIN begun' PROVE begun'[k] = k
    OBVIOUS
  <2>1. k = p \/ k \in 1 .. Len(begun)
    BY <1>4, <1>7, <1>9
  <2> QED
    BY <2>1, <1>4, <1>5, <1>9
<1>11. /\ DOMAIN below = 1 .. Len(stack)
       /\ \A k \in 1 .. Len(stack) : below[k].at = k /\ below[k].called
  <2> SUFFICES ASSUME NEW k \in 1 .. Len(stack) PROVE below[k].at = k /\ below[k].called
    BY <1>4
  <2>1. stack[k].at = k /\ (k < Len(stack) => stack[k].called)
    BY <1>4, <1>5
  <2>2. CASE k = Len(stack)
    <3>1. stack[k] \in Frames
      BY <1>3, <1>4, ElementOfSeq
    <3>2. /\ [stack[k] EXCEPT !.called = TRUE].at = stack[k].at
          /\ [stack[k] EXCEPT !.called = TRUE].called = TRUE
      BY <3>1 DEF Frames
    <3>3. below[k] = [stack[k] EXCEPT !.called = TRUE]
      BY <2>2, <1>4
    <3> QED
      BY <2>1, <3>2, <3>3
  <2>3. CASE k # Len(stack)
    <3>1. below[k] = stack[k]
      BY <2>3, <1>4
    <3> QED
      BY <2>1, <2>3, <3>1, <1>4
  <2> QED
    BY <2>2, <2>3
<1>12. below \in Seq(Frames) /\ Len(below) = Len(stack) /\ new \in Frames
  <2>1. ASSUME NEW k \in 1 .. Len(stack) PROVE below[k] \in Frames
    <3>1. stack[k] \in Frames
      BY <1>3, <1>4, ElementOfSeq
    <3>2. [stack[k] EXCEPT !.called = TRUE] \in Frames
      BY <3>1 DEF Frames
    <3> QED
      BY <3>1, <3>2, <1>4
  <2>2. below \in [1 .. Len(stack) -> Frames]
    BY <2>1, <1>4
  <2>3. below \in Seq(Frames) /\ Len(below) = Len(stack)
    BY <2>2, <1>4, SeqDef
  <2>4. new \in Frames
    BY <1>3, <1>4, <1>6, <1>7 DEF new, Frames
  <2> QED
    BY <2>3, <2>4
<1> HIDE DEF below
<1>13. /\ Len(stack') = p /\ DOMAIN stack' = 1 .. p
       /\ \A k \in 1 .. p : stack'[k] = IF k <= Len(stack) THEN below[k] ELSE new
  <2>1. /\ stack' \in Seq(Frames) /\ Len(stack') = Len(stack) + 1
        /\ \A k \in 1 .. Len(stack) : stack'[k] = below[k]
        /\ stack'[Len(stack) + 1] = new
    BY <1>1, <1>12, AppendProperties
  <2>2. DOMAIN stack' = 1 .. Len(stack) + 1
    BY <2>1, LenProperties
  <2>3. p = Len(stack) + 1
    BY <1>6, <1>7
  <2>4. ASSUME NEW k \in 1 .. p
        PROVE  stack'[k] = IF k <= Len(stack) THEN below[k] ELSE new
    BY <2>1, <2>3, <1>4
  <2> QED
    BY <2>1, <2>2, <2>3, <2>4
<1>14. ASSUME NEW k \in DOMAIN stack'
       PROVE  stack'[k].at = k /\ (k < Len(stack') => stack'[k].called)
  <2>1. p = Len(stack) + 1 /\ k \in 1 .. p
    BY <1>6, <1>7, <1>13
  <2>2. CASE k <= Len(stack)
    BY <2>1, <2>2, <1>4, <1>11, <1>13
  <2>3. CASE ~(k <= Len(stack))
    <3>1. k = p
      BY <2>1, <2>3, <1>4
    <3> QED
      BY <2>1, <2>3, <3>1, <1>4, <1>8, <1>13
  <2> QED
    BY <2>2, <2>3
<1>15. Len(begun') <= Handler
  BY <1>3, <1>4, <1>6, <1>7, <1>9
<1> QED
  BY <1>7, <1>9, <1>10, <1>13, <1>14, <1>15 DEF OrderInv

LEMMA OrderNext ==
  ASSUME TypeInv, OrderInv, [Next]_vars
  PROVE  OrderInv'
<1> USE DEF request, response, callStack, SetStatus, Send, Terminate, UserRuns
<1>1. CASE EnterChain \/ UserCallsNext
  <2>1. RunNext /\ (begun = <<>> \/ (stack # <<>> /\ Running # Handler))
    BY <1>1 DEF EnterChain, UserCallsNext
  <2> QED
    BY <2>1, OrderRunNext
<1>2. CASE UserReturns
  <2>1. /\ UNCHANGED <<index, begun, again>>
        /\ Len(stack') = Len(stack) - 1
        /\ \A k \in DOMAIN stack' : k \in DOMAIN stack /\ stack'[k] = stack[k]
        /\ Len(stack) \in Nat \ {0} /\ DOMAIN stack = 1 .. Len(stack)
    BY <1>2, UserReturnsTypes, LenProperties, EmptySeq DEF UserReturns, TypeInv, StackOK
  <2> SUFFICES ASSUME ~again PROVE OrderInv'
    BY <2>1 DEF OrderInv
  <2>2. \A k \in DOMAIN stack' : stack'[k].at = k /\ stack'[k].called
    <3> SUFFICES ASSUME NEW k \in DOMAIN stack' PROVE stack'[k].at = k /\ stack'[k].called
      OBVIOUS
    <3>1. stack' \in Seq(Frames) /\ DOMAIN stack' = 1 .. Len(stack')
      BY <1>2, UserReturnsTypes, LenProperties DEF StackOK
    <3>2. k < Len(stack) /\ k \in DOMAIN stack /\ stack'[k] = stack[k]
      BY <2>1, <3>1
    <3> QED
      BY <3>2 DEF OrderInv
  <2>3. stack' # <<>> => stack'[Len(stack')].called
    <3>1. stack' \in Seq(Frames) /\ DOMAIN stack' = 1 .. Len(stack')
      BY <1>2, UserReturnsTypes, LenProperties DEF StackOK
    <3>2. stack' # <<>> => Len(stack') \in DOMAIN stack'
      BY <3>1, <2>1, EmptySeq
    <3> QED
      BY <2>2, <3>2
  <2> QED
    BY <2>1, <2>2, <2>3 DEF OrderInv
<1>3. ASSUME UNCHANGED <<index, begun, again>>, stack' = stack \/ stack' = <<>>
      PROVE  OrderInv'
  <2>1. CASE stack' = stack
    BY <1>3, <2>1 DEF OrderInv
  <2>2. CASE stack' = <<>>
    BY <1>3, <2>2 DEF OrderInv
  <2> QED
    BY <1>3, <2>1, <2>2
<1>4. \/ EnterChain \/ UserCallsNext
      \/ UserReturns
      \/ /\ UNCHANGED <<index, begun, again>>
         /\ stack' = stack \/ stack' = <<>>
  <2>1. ASSUME \/ LookupInvalid \/ LookupOptions \/ LookupRoute \/ StaticFile \/ StaticMissing
               \/ StaticThrows \/ AnswerInvalid \/ Write \/ WriteKills \/ UNCHANGED vars
        PROVE  UNCHANGED <<index, begun, again>> /\ (stack' = stack \/ stack' = <<>>)
    BY <2>1 DEF vars, LookupInvalid, LookupOptions, LookupRoute, StaticFile, StaticMissing,
                StaticThrows, AnswerInvalid, Write, WriteKills
  <2>2. ASSUME \/ UserSetsStatus \/ UserSetsHeader \/ UserSends \/ UserRedirects
               \/ UserSendsFile \/ UserSendsNoFile \/ UserStreams \/ UserStreamBreaks
               \/ UserStreamFails \/ UserStreamKills \/ UserThrows \/ UserThrowsOther
               \/ UserChangesHeader \/ UserChangesLength \/ UserEmptiesBody
               \/ Catch \/ CatchThrows
        PROVE  UNCHANGED <<index, begun, again>> /\ (stack' = stack \/ stack' = <<>>)
    BY <2>2 DEF UserSetsStatus, UserSetsHeader, UserSends, UserRedirects, UserSendsFile,
                UserSendsNoFile, UserStreams, UserStreamBreaks, UserStreamFails,
                UserStreamKills, StreamBreaks, UserThrows, UserThrowsOther, UserChangesHeader,
                UserChangesLength, UserEmptiesBody, Catch, CatchThrows
  <2> QED
    BY <2>1, <2>2 DEF Next
<1> QED
  BY <1>1, <1>2, <1>3, <1>4

\* In a chain of any length, the middleware and the handler run in order, each
\* once and within the call of next() of the one before, unless some middleware
\* calls next() twice.
THEOREM DispatchChainInOrder == Spec => []ChainInOrder
<1>1. Init => OrderInv
  <2> SUFFICES ASSUME Init PROVE OrderInv
    OBVIOUS
  <2>1. index = 0 /\ begun = <<>> /\ stack = <<>> /\ Len(begun) = 0
    BY EmptySeq DEF Init
  <2> QED
    BY <2>1, DispatchAssumption DEF OrderInv, Handler
<1>2. OrderInv => ChainInOrder
  BY DEF OrderInv, ChainInOrder
<1> QED
  BY <1>1, <1>2, TypeInvariant, OrderNext, PTL DEF Spec

=============================================================================
