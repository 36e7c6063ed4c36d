---------------------------- MODULE FrameFeed_proofs ----------------------------
(***************************************************************************)
(* Proofs about the STD-T115 receiver, for every length of frame, block and  *)
(* overlap the code may be built with, every input and every fault: no frame *)
(* falls between two blocks, none is taken for its neighbour, and, for every *)
(* period, cap, sequence of times and serial numbers, the assembler accounts *)
(* for every radio frame and joins only frames pushed one after the other.   *)
(***************************************************************************)
EXTENDS FrameFeed, FiniteSetTheorems, TLAPS

(***************************************************************************)
(* The assembler, by itself: AsmSpec.                                       *)
(***************************************************************************)

\* What the assembler counts as settled.
Settled(a, taken) == 2 * (Len(taken) + Len(a.out)) + Len(a.pending) + a.dropped

\* A first half that waits was the last to be pushed.
WaitsAs(a, n) == a.pending # <<>> => a.pending[1].nth = n
Waiting == WaitsAs(asm, received + asm.filled)

Neighbours(s) == \A k \in 1 .. Len(s) : s[k][2].nth = s[k][1].nth + 1

AsmInv ==
    /\ AsmTypeOK
    /\ FramesAccounted
    /\ Waiting
    /\ Neighbours(asm.out) /\ Neighbours(pendSFs)

-----------------------------------------------------------------------------
(* push1.                                                                  *)

\* What push1 leaves alone.
Same(a, b) ==
    /\ b.filled = a.filled /\ b.capped = a.capped
    /\ b.haveLast = a.haveLast /\ b.lastT = a.lastT /\ b.lastSN = a.lastSN

\* The three ways in which one more radio frame is settled.
LEMMA OneMore ==
    ASSUME NEW a, NEW b, NEW taken,
           Len(taken) \in Nat, Len(a.out) \in Nat, a.dropped \in Nat,
           Len(a.pending) \in {0, 1},
           \/ /\ Len(a.pending) = 1 /\ Len(b.pending) = 0
              /\ b.dropped = a.dropped /\ Len(b.out) = Len(a.out) + 1
           \/ /\ Len(a.pending) = Len(b.pending)
              /\ b.dropped = a.dropped + 1 /\ Len(b.out) = Len(a.out)
           \/ /\ Len(a.pending) = 0 /\ Len(b.pending) = 1
              /\ b.dropped = a.dropped /\ Len(b.out) = Len(a.out)
    PROVE  Settled(b, taken) = Settled(a, taken) + 1
<1>1. CASE /\ Len(a.pending) = 1 /\ Len(b.pending) = 0
           /\ b.dropped = a.dropped /\ Len(b.out) = Len(a.out) + 1
  BY <1>1 DEF Settled
<1>2. CASE /\ Len(a.pending) = Len(b.pending)
           /\ b.dropped = a.dropped + 1 /\ Len(b.out) = Len(a.out)
  <2>1. CASE Len(a.pending) = 0
    BY <1>2, <2>1 DEF Settled
  <2>2. CASE Len(a.pending) = 1
    BY <1>2, <2>2 DEF Settled
  <2> QED BY <2>1, <2>2
<1>3. CASE /\ Len(a.pending) = 0 /\ Len(b.pending) = 1
           /\ b.dropped = a.dropped /\ Len(b.out) = Len(a.out)
  BY <1>3 DEF Settled
<1> QED BY <1>1, <1>2, <1>3

LEMMA PendingChanges ==
    ASSUME NEW a \in Assembler, NEW d \in Nat, NEW p \in Seq(Half),
           NEW b, b = [a EXCEPT !.pending = p, !.dropped = d]
    PROVE  b \in Assembler /\ b.pending = p /\ b.dropped = d /\ b.out = a.out /\ Same(a, b)
<1>1. b \in Assembler
  BY DEF Assembler
<1>2. b.pending = p /\ b.dropped = d /\ b.out = a.out
  BY DEF Assembler
<1>3. Same(a, b)
  BY DEF Same, Assembler
<1> QED BY <1>1, <1>2, <1>3

LEMMA OutGrows ==
    ASSUME NEW a \in Assembler, NEW o \in Seq(Superframe), NEW p \in Seq(Half),
           NEW b, b = [a EXCEPT !.out = o, !.pending = p]
    PROVE  b \in Assembler /\ b.pending = p /\ b.dropped = a.dropped /\ b.out = o /\ Same(a, b)
<1>1. b \in Assembler
  BY DEF Assembler
<1>2. b.pending = p /\ b.dropped = a.dropped /\ b.out = o
  BY DEF Assembler
<1>3. Same(a, b)
  BY DEF Same, Assembler
<1> QED BY <1>1, <1>2, <1>3

\* One more superframe of neighbours.
LEMMA NeighboursAppend ==
    ASSUME NEW o \in Seq(Superframe), NEW p \in Superframe, Neighbours(o),
           p[2].nth = p[1].nth + 1
    PROVE  Neighbours(Append(o, p))
<1>1. \A k \in 1 .. Len(o) : Append(o, p)[k] = o[k]
  OBVIOUS
<1>2. Append(o, p)[Len(o) + 1] = p /\ Len(Append(o, p)) = Len(o) + 1 /\ Len(o) \in Nat
  OBVIOUS
<1>3. SUFFICES ASSUME NEW k \in 1 .. Len(Append(o, p))
               PROVE  Append(o, p)[k][2].nth = Append(o, p)[k][1].nth + 1
  BY DEF Neighbours
<1>4. k \in 1 .. Len(o) \/ k = Len(o) + 1
  BY <1>2
<1>5. CASE k = Len(o) + 1
  BY <1>2, <1>5
<1>6. CASE k \in 1 .. Len(o)
  BY <1>1, <1>6 DEF Neighbours
<1> QED BY <1>4, <1>5, <1>6

\* A first half that is dropped for the next one, or was not there.
LEMMA BeginSettles ==
    ASSUME NEW a \in Assembler, Len(a.pending) \in {0, 1},
           NEW taken \in Seq(Superframe), NEW half \in Half, NEW b, b = Begin(a, half)
    PROVE  /\ b \in Assembler /\ b.pending = <<half>> /\ b.out = a.out
           /\ Same(a, b) /\ Settled(b, taken) = Settled(a, taken) + 1
<1> DEFINE d == a.dropped + (IF a.pending # <<>> THEN 1 ELSE 0)
           p == <<half>>
<1>1. a.pending \in Seq(Half) /\ a.out \in Seq(Superframe) /\ a.dropped \in Nat
  BY DEF Assembler
<1>2. d \in Nat /\ p \in Seq(Half) /\ Len(p) = 1
  BY <1>1
<1>3. Len(a.pending) = 0 <=> a.pending = <<>>
  BY <1>1
<1>4. Len(taken) \in Nat /\ Len(a.out) \in Nat
  BY <1>1
<1>5. d = a.dropped + (IF Len(a.pending) = 0 THEN 0 ELSE 1)
  BY <1>3
<1>6. b = [a EXCEPT !.pending = p, !.dropped = d]
  BY DEF Begin
<1> HIDE DEF d, p
<1>7. b \in Assembler /\ b.pending = p /\ b.dropped = d /\ b.out = a.out /\ Same(a, b)
  BY <1>2, <1>6, PendingChanges
<1>8. Settled(b, taken) = Settled(a, taken) + 1
  <2>1. CASE Len(a.pending) = 0
    <3>1. d = a.dropped
      BY <1>1, <1>5, <2>1
    <3> QED BY <1>1, <1>2, <1>4, <1>7, <2>1, <3>1, OneMore
  <2>2. CASE Len(a.pending) = 1
    <3>1. d = a.dropped + 1
      BY <1>1, <1>5, <2>2
    <3> QED BY <1>1, <1>2, <1>4, <1>7, <2>2, <3>1, OneMore
  <2> QED BY <2>1, <2>2
<1> QED BY <1>7, <1>8 DEF p

\* A second half without the first is dropped.
LEMMA LoneSecondSettles ==
    ASSUME NEW a \in Assembler, a.pending = <<>>,
           NEW taken \in Seq(Superframe), NEW half \in Half, NEW b, b = Complete(a, half)
    PROVE  /\ b \in Assembler /\ b.pending = <<>> /\ b.out = a.out
           /\ Same(a, b) /\ Settled(b, taken) = Settled(a, taken) + 1
<1> DEFINE d == a.dropped + 1
<1>1. a.pending \in Seq(Half) /\ a.out \in Seq(Superframe) /\ a.dropped \in Nat
  BY DEF Assembler
<1>2. d \in Nat /\ Len(a.pending) = 0 /\ Len(taken) \in Nat /\ Len(a.out) \in Nat
  BY <1>1
<1>3. b = [a EXCEPT !.dropped = d]
  BY DEF Complete
<1>4. [a EXCEPT !.dropped = d] = [a EXCEPT !.pending = a.pending, !.dropped = d]
  BY DEF Assembler
<1> HIDE DEF d
<1>5. b \in Assembler /\ b.pending = a.pending /\ b.dropped = d /\ b.out = a.out /\ Same(a, b)
  BY <1>1, <1>2, <1>3, <1>4, PendingChanges, ZenonT(40)
<1>6. Settled(b, taken) = Settled(a, taken) + 1
  BY <1>1, <1>2, <1>5 DEF Settled, d
<1> QED BY <1>5, <1>6

\* A superframe is complete.
LEMMA PairSettles ==
    ASSUME NEW a \in Assembler, Len(a.pending) = 1,
           NEW taken \in Seq(Superframe), NEW half \in Half, NEW b, b = Complete(a, half),
           Neighbours(a.out), half.nth = a.pending[1].nth + 1
    PROVE  /\ b \in Assembler /\ b.pending = <<>> /\ Neighbours(b.out)
           /\ Same(a, b) /\ Settled(b, taken) = Settled(a, taken) + 1
<1> DEFINE pair == <<a.pending[1], half>>
           o == Append(a.out, pair)
           p == <<>>
<1>1. a.pending \in Seq(Half) /\ a.out \in Seq(Superframe) /\ a.dropped \in Nat
  BY DEF Assembler
<1>2. a.pending # <<>> /\ a.pending[1] \in Half
  BY <1>1
<1>3. pair \in Superframe /\ pair[2].nth = pair[1].nth + 1
  BY <1>2 DEF Superframe
<1>4. b = [a EXCEPT !.out = o, !.pending = p]
  BY <1>2 DEF Complete
<1> HIDE DEF pair
<1>5. o \in Seq(Superframe) /\ Len(o) = Len(a.out) + 1 /\ p \in Seq(Half) /\ Len(p) = 0
  BY <1>1, <1>3
<1>6. Neighbours(o)
  BY <1>1, <1>3, NeighboursAppend
<1>7. Len(taken) \in Nat /\ Len(a.out) \in Nat
  BY <1>1
<1> HIDE DEF o, p
<1>8. b \in Assembler /\ b.pending = p /\ b.dropped = a.dropped /\ b.out = o /\ Same(a, b)
  BY <1>4, <1>5, OutGrows
<1>9. Settled(b, taken) = Settled(a, taken) + 1
  BY <1>1, <1>5, <1>7, <1>8, OneMore
<1> QED BY <1>6, <1>8, <1>9 DEF p

\* push1 settles one radio frame, changes no other counter, and keeps out made
\* of neighbours.
LEMMA Push1Settles ==
    ASSUME NEW a \in Assembler, Len(a.pending) \in {0, 1}, received \in Nat,
           WaitsAs(a, received + a.filled),
           Neighbours(a.out), NEW taken \in Seq(Superframe),
           NEW sn \in SN, NEW voice \in Voices \cup {Lost},
           NEW b, b = Push1(a, sn, voice)
    PROVE  /\ b \in Assembler /\ Len(b.pending) \in {0, 1}
           /\ Settled(b, taken) = Settled(a, taken) + 1
           /\ Same(a, b)
           /\ WaitsAs(b, received + a.filled + 1)
           /\ Neighbours(b.out)
<1> DEFINE half == [voice |-> voice, nth |-> Nth(a)]
<1>1. a.pending \in Seq(Half) /\ a.filled \in Nat
  BY DEF Assembler
<1>2. half \in Half /\ half.nth = received + a.filled + 1
  BY <1>1 DEF Nth, Half
<1>3. b = IF sn = 0 THEN Begin(a, half) ELSE Complete(a, half)
  BY DEF Push1
<1> HIDE DEF half
<1>4. CASE sn = 0
  <2>1. /\ b \in Assembler /\ b.pending = <<half>> /\ b.out = a.out
        /\ Same(a, b) /\ Settled(b, taken) = Settled(a, taken) + 1
    BY <1>2, <1>3, <1>4, BeginSettles
  <2>2. Len(b.pending) = 1 /\ b.pending[1] = half
    BY <2>1
  <2> QED BY <1>2, <2>1, <2>2 DEF WaitsAs
<1>5. CASE sn = 1 /\ a.pending = <<>>
  <2>1. /\ b \in Assembler /\ b.pending = <<>> /\ b.out = a.out
        /\ Same(a, b) /\ Settled(b, taken) = Settled(a, taken) + 1
    BY <1>2, <1>3, <1>5, LoneSecondSettles
  <2> QED BY <2>1 DEF WaitsAs
<1>6. CASE sn = 1 /\ a.pending # <<>>
  <2>1. Len(a.pending) # 0
    BY <1>1, <1>6
  <2>2. Len(a.pending) = 1
    BY <2>1
  <2>3. half.nth = a.pending[1].nth + 1
    BY <1>2, <1>6 DEF WaitsAs
  <2>4. b = Complete(a, half)
    BY <1>3, <1>6
  <2>5. /\ b \in Assembler /\ b.pending = <<>> /\ Neighbours(b.out)
        /\ Same(a, b) /\ Settled(b, taken) = Settled(a, taken) + 1
    BY <1>2, <2>2, <2>3, <2>4, PairSettles
  <2> QED BY <2>5 DEF WaitsAs
<1> QED BY <1>4, <1>5, <1>6 DEF SN

-----------------------------------------------------------------------------
(* Gaps.                                                                   *)

\* The frames missing before a push are a number, and no more than MaxGap of
\* them are filled in.
LEMMA GapIsBounded ==
    ASSUME AsmTypeOK, NEW t \in Times
    PROVE  /\ MissingBefore(asm, t) \in Nat
           /\ FillCount(MissingBefore(asm, t)) \in 0 .. MaxGap
           /\ FillCount(MissingBefore(asm, t)) <= MissingBefore(asm, t)
<1>1. t \in Int /\ Period \in Nat \ {0} /\ MaxGap \in Nat
  BY SuperframeConstants
<1>2. asm.lastT \in Int
  BY DEF AsmTypeOK, Assembler
<1> DEFINE d == t - asm.lastT
<1>3. d \in Int
  BY <1>1, <1>2
<1> HIDE DEF d
<1>4. RoundDiv(d, Period) \in Int
  <2>1. 2 * Period \in Nat \ {0} /\ 2 * d + Period \in Int /\ Period - 2 * d \in Int
    BY <1>1, <1>3
  <2>2. (2 * d + Period) \div (2 * Period) \in Int
        /\ (Period - 2 * d) \div (2 * Period) \in Int
    BY <2>1
  <2> QED BY <2>2 DEF RoundDiv
<1>5. MissingBefore(asm, t) \in Nat
  BY <1>4 DEF MissingBefore, d
<1> DEFINE m == MissingBefore(asm, t)
<1> HIDE DEF m
<1>6. m \in Nat
  BY <1>5 DEF m
<1>7. FillCount(m) \in 0 .. MaxGap /\ FillCount(m) <= m
  BY <1>1, <1>6 DEF FillCount
<1> QED BY <1>6, <1>7 DEF m

-----------------------------------------------------------------------------
(* Steps.                                                                  *)

\* The frames missing before this push and not yet filled in.
Unfilled == IF call.left > 0 THEN call.left ELSE 0

LEMMA Accounts ==
    FramesAccounted <=> /\ received + asm.filled = Settled(asm, pendSFs)
                        /\ missed = asm.filled + asm.capped + Unfilled
BY DEF FramesAccounted, Settled, Unfilled

LEMMA InitKeeps == AsmInit => AsmInv
<1> SUFFICES ASSUME AsmInit PROVE AsmInv
  OBVIOUS
<1>1. /\ asm = [pending |-> <<>>, out |-> <<>>, dropped |-> 0, haveLast |-> FALSE,
                lastT |-> 0, lastSN |-> 0, filled |-> 0, capped |-> 0]
      /\ pendSFs = <<>> /\ received = 0 /\ missed = 0 /\ call = NoCall
  BY DEF AsmInit
<1>2. <<>> \in Seq(Half) /\ <<>> \in Seq(Superframe) /\ Len(<<>>) = 0
  OBVIOUS
<1>3. asm \in Assembler /\ asm.pending = <<>> /\ asm.out = <<>>
  BY <1>1, <1>2 DEF Assembler, SN
<1>4. call \in Calls /\ call.left = -1 /\ -1 \in -1 .. MaxGap
  <2>1. -1 \in -1 .. MaxGap
    BY SuperframeConstants
  <2> QED BY <1>1, <2>1 DEF NoCall, Calls, SN
<1>5. AsmTypeOK
  BY <1>1, <1>2, <1>3, <1>4 DEF AsmTypeOK
<1>6. FramesAccounted
  BY <1>1, <1>2, <1>3, <1>4 DEF FramesAccounted
<1>7. Waiting
  BY <1>3 DEF Waiting, WaitsAs
<1>8. Neighbours(asm.out) /\ Neighbours(pendSFs)
  BY <1>1, <1>2, <1>3 DEF Neighbours
<1> QED BY <1>5, <1>6, <1>7, <1>8 DEF AsmInv

\* Push counts what it finds missing, filled or not.
LEMMA PushKeeps ==
    ASSUME AsmInv, NEW t \in Times, NEW sn \in SN, NEW v \in Voices, Push(t, sn, v)
    PROVE  AsmInv'
<1> DEFINE miss == MissingBefore(asm, t)
           fill == FillCount(miss)
           c == asm.capped + (miss - fill)
<1>1. AsmTypeOK /\ FramesAccounted /\ asm \in Assembler /\ asm.filled \in Nat
      /\ asm.capped \in Nat /\ asm.lastSN \in SN /\ missed \in Nat
  BY DEF AsmInv, AsmTypeOK, Assembler
<1>2. miss \in Nat /\ fill \in 0 .. MaxGap /\ fill <= miss
  BY <1>1, GapIsBounded
<1>3. fill \in Nat /\ MaxGap \in Nat
  BY <1>2, SuperframeConstants
<1>4. /\ call = NoCall /\ asm' = [asm EXCEPT !.capped = c]
      /\ call' = [left |-> fill, sn |-> asm.lastSN, t |-> t, frameSN |-> sn, voice |-> v]
      /\ missed' = missed + miss /\ pendSFs' = pendSFs /\ received' = received
  BY DEF Push
<1> HIDE DEF miss, fill
<1>5. c \in Nat /\ c = asm.capped + (miss - fill)
  BY <1>1, <1>2, <1>3
<1> HIDE DEF c
<1>6. asm' \in Assembler
  BY <1>1, <1>4, <1>5 DEF Assembler
<1>7. /\ asm'.pending = asm.pending /\ asm'.out = asm.out /\ asm'.dropped = asm.dropped
      /\ asm'.filled = asm.filled /\ asm'.capped = c
  BY <1>1, <1>4 DEF Assembler
<1>8. call' \in Calls /\ call'.left = fill /\ call'.left \in -1 .. MaxGap
  <2>1. t \in Int /\ v \in Voices \cup {Lost} /\ fill \in -1 .. MaxGap
    BY <1>2, <1>3, SuperframeConstants
  <2> QED BY <1>1, <1>3, <1>4, <2>1 DEF Calls
<1>9. AsmTypeOK'
  BY <1>1, <1>2, <1>4, <1>6, <1>7, <1>8 DEF AsmTypeOK
<1>10. FramesAccounted'
  <2>1. Unfilled = 0
    BY <1>4 DEF Unfilled, NoCall
  <2>2. Unfilled' = fill
    BY <1>2, <1>3, <1>8 DEF Unfilled
  <2>3. missed = asm.filled + asm.capped
    BY <1>1, <2>1, Accounts
  <2>4. missed' = asm'.filled + asm'.capped + Unfilled'
    BY <1>1, <1>2, <1>3, <1>4, <1>5, <1>7, <2>2, <2>3
  <2>5. received' + asm'.filled = Settled(asm', pendSFs')
    BY <1>1, <1>4, <1>7, Accounts DEF Settled
  <2> QED BY <2>4, <2>5 DEF FramesAccounted, Settled, Unfilled
<1>11. Waiting' /\ Neighbours(asm.out)' /\ Neighbours(pendSFs)'
  BY <1>4, <1>7 DEF AsmInv, Waiting, WaitsAs, Neighbours
<1> QED BY <1>9, <1>10, <1>11 DEF AsmInv

\* A turn of the loop fills in one frame of the missing ones.
LEMMA FillKeeps == ASSUME AsmInv, Fill PROVE AsmInv'
<1> DEFINE sn == 1 - call.sn
           b == Push1(asm, sn, Lost)
           n == asm.filled + 1
           l == call.left - 1
<1>1. /\ AsmTypeOK /\ asm \in Assembler /\ Len(asm.pending) \in {0, 1}
      /\ received \in Nat /\ missed \in Nat /\ pendSFs \in Seq(Superframe)
      /\ call \in Calls /\ call.left \in -1 .. MaxGap
  BY DEF AsmInv, AsmTypeOK
<1>2. asm.filled \in Nat /\ asm.capped \in Nat /\ sn \in SN /\ MaxGap \in Nat
  BY <1>1, SuperframeConstants DEF Assembler, Calls, SN
<1>3. /\ call.left > 0 /\ asm' = [b EXCEPT !.filled = @ + 1]
      /\ call' = [call EXCEPT !.left = l, !.sn = sn]
      /\ pendSFs' = pendSFs /\ received' = received /\ missed' = missed
  BY DEF Fill
<1>4. l \in Int /\ l \in 0 .. MaxGap /\ l \in -1 .. MaxGap /\ l + 1 = call.left
  BY <1>1, <1>2, <1>3
<1>5. /\ b \in Assembler /\ Len(b.pending) \in {0, 1}
      /\ Settled(b, pendSFs) = Settled(asm, pendSFs) + 1
      /\ Same(asm, b) /\ WaitsAs(b, received + n) /\ Neighbours(b.out)
  <2>1. WaitsAs(asm, received + asm.filled) /\ Neighbours(asm.out)
    BY DEF AsmInv, Waiting
  <2>2. /\ b \in Assembler /\ Len(b.pending) \in {0, 1}
        /\ Settled(b, pendSFs) = Settled(asm, pendSFs) + 1
        /\ Same(asm, b) /\ WaitsAs(b, received + asm.filled + 1) /\ Neighbours(b.out)
    <3> HIDE DEF b
    <3>1. b = Push1(asm, sn, Lost) /\ Lost \in Voices \cup {Lost}
      BY DEF b
    <3> HIDE DEF sn
    <3> QED BY <1>1, <1>2, <2>1, <3>1, Push1Settles
  <2>3. received + asm.filled + 1 = received + n
    BY <1>1, <1>2
  <2> QED BY <2>2, <2>3
<1> HIDE DEF b, sn, l
<1>6. n \in Nat /\ b.filled = asm.filled /\ b.capped = asm.capped
  BY <1>2, <1>5 DEF Same
<1>7. asm' = [b EXCEPT !.filled = n]
  BY <1>3, <1>5, <1>6 DEF Assembler
<1> HIDE DEF n
<1>8. asm' \in Assembler
  BY <1>5, <1>6, <1>7 DEF Assembler
<1>9. /\ asm'.pending = b.pending /\ asm'.out = b.out /\ asm'.dropped = b.dropped
      /\ asm'.filled = n /\ asm'.capped = asm.capped
  BY <1>5, <1>6, <1>7 DEF Assembler
<1>10. call' \in Calls /\ call'.left = l
  BY <1>1, <1>2, <1>3, <1>4 DEF Calls
<1>11. AsmTypeOK'
  BY <1>1, <1>3, <1>4, <1>5, <1>8, <1>9, <1>10 DEF AsmTypeOK
<1>12. FramesAccounted'
  <2>1. Unfilled = call.left /\ Unfilled' = l
    BY <1>3, <1>4, <1>10 DEF Unfilled
  <2>2. /\ received + asm.filled = Settled(asm, pendSFs)
        /\ missed = asm.filled + asm.capped + Unfilled
    BY Accounts DEF AsmInv
  <2>3. missed' = asm'.filled + asm'.capped + Unfilled'
    BY <1>2, <1>3, <1>4, <1>9, <2>1, <2>2 DEF n
  <2>4. received + n = Settled(b, pendSFs)
    BY <1>1, <1>2, <1>5, <2>2 DEF n
  <2>5. received' + asm'.filled = Settled(asm', pendSFs')
    BY <1>3, <1>9, <2>4 DEF Settled
  <2> QED BY <2>3, <2>5 DEF FramesAccounted, Settled, Unfilled
<1>13. Waiting' /\ Neighbours(asm.out)' /\ Neighbours(pendSFs)'
  <2>1. Waiting'
    BY <1>3, <1>5, <1>9 DEF Waiting, WaitsAs
  <2>2. Neighbours(asm'.out) /\ Neighbours(pendSFs')
    BY <1>3, <1>5, <1>9 DEF AsmInv
  <2> QED BY <2>1, <2>2 DEF Neighbours
<1> QED BY <1>11, <1>12, <1>13 DEF AsmInv

\* The frame itself.
LEMMA AcceptKeeps == ASSUME AsmInv, Accept PROVE AsmInv'
<1> DEFINE b == Push1(asm, call.frameSN, call.voice)
           r == received + 1
<1>1. /\ AsmTypeOK /\ asm \in Assembler /\ Len(asm.pending) \in {0, 1}
      /\ received \in Nat /\ missed \in Nat /\ pendSFs \in Seq(Superframe)
      /\ call \in Calls
  BY DEF AsmInv, AsmTypeOK
<1>2. /\ asm.filled \in Nat /\ asm.capped \in Nat /\ call.frameSN \in SN
      /\ call.voice \in Voices \cup {Lost} /\ call.t \in Int
  BY <1>1 DEF Assembler, Calls
<1>3. /\ call.left = 0 /\ call' = NoCall /\ received' = r
      /\ asm' = [b EXCEPT !.haveLast = TRUE, !.lastT = call.t, !.lastSN = call.frameSN]
      /\ pendSFs' = pendSFs /\ missed' = missed
  BY DEF Accept
<1>4. /\ b \in Assembler /\ Len(b.pending) \in {0, 1}
      /\ Settled(b, pendSFs) = Settled(asm, pendSFs) + 1
      /\ Same(asm, b) /\ WaitsAs(b, r + asm.filled) /\ Neighbours(b.out)
  <2>1. WaitsAs(asm, received + asm.filled) /\ Neighbours(asm.out)
    BY DEF AsmInv, Waiting
  <2>2. /\ b \in Assembler /\ Len(b.pending) \in {0, 1}
        /\ Settled(b, pendSFs) = Settled(asm, pendSFs) + 1
        /\ Same(asm, b) /\ WaitsAs(b, received + asm.filled + 1) /\ Neighbours(b.out)
    <3> HIDE DEF b
    <3>1. b = Push1(asm, call.frameSN, call.voice)
      BY DEF b
    <3> QED BY <1>1, <1>2, <2>1, <3>1, Push1Settles
  <2>3. received + asm.filled + 1 = r + asm.filled
    BY <1>1, <1>2
  <2> QED BY <2>2, <2>3
<1> HIDE DEF b
<1>5. r \in Nat /\ r = received + 1 /\ b.filled = asm.filled /\ b.capped = asm.capped
  BY <1>1, <1>4 DEF Same
<1> HIDE DEF r
<1>6. asm' \in Assembler
  BY <1>2, <1>3, <1>4 DEF Assembler
<1>7. /\ asm'.pending = b.pending /\ asm'.out = b.out /\ asm'.dropped = b.dropped
      /\ asm'.filled = asm.filled /\ asm'.capped = asm.capped
  BY <1>3, <1>4, <1>5 DEF Assembler
<1>8. call' \in Calls /\ call'.left = -1 /\ -1 \in -1 .. MaxGap
  <2>1. -1 \in -1 .. MaxGap
    BY SuperframeConstants
  <2> QED BY <1>3, <2>1 DEF NoCall, Calls, SN
<1>9. AsmTypeOK'
  BY <1>1, <1>3, <1>4, <1>5, <1>6, <1>7, <1>8 DEF AsmTypeOK
<1>10. FramesAccounted'
  <2>1. Unfilled = 0 /\ Unfilled' = 0
    BY <1>3, <1>8 DEF Unfilled
  <2>2. /\ received + asm.filled = Settled(asm, pendSFs)
        /\ missed = asm.filled + asm.capped + Unfilled
    BY Accounts DEF AsmInv
  <2>3. missed' = asm'.filled + asm'.capped + Unfilled'
    BY <1>2, <1>3, <1>7, <2>1, <2>2
  <2>4. r + asm.filled = Settled(b, pendSFs)
    BY <1>1, <1>2, <1>4, <1>5, <2>2
  <2>5. received' + asm'.filled = Settled(asm', pendSFs')
    BY <1>3, <1>7, <2>4 DEF Settled
  <2> QED BY <2>3, <2>5 DEF FramesAccounted, Settled, Unfilled
<1>11. Waiting' /\ Neighbours(asm.out)' /\ Neighbours(pendSFs)'
  <2>1. Waiting'
    BY <1>3, <1>4, <1>7 DEF Waiting, WaitsAs
  <2>2. Neighbours(asm'.out) /\ Neighbours(pendSFs')
    BY <1>3, <1>4, <1>7 DEF AsmInv
  <2> QED BY <2>1, <2>2 DEF Neighbours
<1> QED BY <1>9, <1>10, <1>11 DEF AsmInv

\* What is made is made of neighbours when both of its parts are.
LEMMA NeighboursConcat ==
    ASSUME NEW p \in Seq(Superframe), NEW q \in Seq(Superframe),
           Neighbours(p), Neighbours(q)
    PROVE  Neighbours(p \o q)
<1>1. /\ Len(p) \in Nat /\ Len(q) \in Nat /\ Len(p \o q) = Len(p) + Len(q)
      /\ p \o q \in Seq(Superframe)
  OBVIOUS
<1>2. SUFFICES ASSUME NEW k \in 1 .. Len(p \o q)
               PROVE  (p \o q)[k][2].nth = (p \o q)[k][1].nth + 1
  BY DEF Neighbours
<1>3. CASE k <= Len(p)
  <2>1. k \in 1 .. Len(p) /\ (p \o q)[k] = p[k]
    BY <1>1, <1>3
  <2> QED BY <2>1 DEF Neighbours
<1>4. CASE k > Len(p)
  <2>1. k - Len(p) \in 1 .. Len(q) /\ (p \o q)[k] = q[k - Len(p)]
    BY <1>1, <1>4
  <2> QED BY <2>1 DEF Neighbours
<1> QED BY <1>1, <1>3, <1>4

\* The caller takes what is complete.
LEMMA TakeKeeps == ASSUME AsmInv, TakeSuperframes PROVE AsmInv'
<1> DEFINE o == <<>>
<1>1. /\ AsmTypeOK /\ asm \in Assembler /\ asm.out \in Seq(Superframe)
      /\ pendSFs \in Seq(Superframe) /\ asm.dropped \in Nat
  BY DEF AsmInv, AsmTypeOK, Assembler
<1>2. /\ asm' = [asm EXCEPT !.out = o] /\ pendSFs' = pendSFs \o asm.out
      /\ call' = call /\ received' = received /\ missed' = missed
  BY DEF TakeSuperframes
<1>3. o \in Seq(Superframe) /\ Len(o) = 0 /\ o = <<>>
  OBVIOUS
<1> HIDE DEF o
<1>4. asm' \in Assembler
  BY <1>1, <1>2, <1>3 DEF Assembler
<1>5. /\ asm'.pending = asm.pending /\ asm'.out = o /\ asm'.dropped = asm.dropped
      /\ asm'.filled = asm.filled /\ asm'.capped = asm.capped
  BY <1>1, <1>2 DEF Assembler
<1>6. pendSFs' \in Seq(Superframe) /\ Len(pendSFs') = Len(pendSFs) + Len(asm.out)
      /\ Len(pendSFs) \in Nat /\ Len(asm.out) \in Nat
  BY <1>1, <1>2
<1>7. AsmTypeOK'
  BY <1>1, <1>2, <1>4, <1>5, <1>6 DEF AsmTypeOK
<1>8. FramesAccounted'
  <2>1. Len(pendSFs') + Len(asm'.out) = Len(pendSFs) + Len(asm.out)
    BY <1>3, <1>5, <1>6
  <2>2. Settled(asm', pendSFs') = Settled(asm, pendSFs)
    BY <1>5, <2>1 DEF Settled
  <2>3. received' + asm'.filled = Settled(asm', pendSFs')
    BY <1>2, <1>5, <2>2, Accounts DEF AsmInv
  <2>4. missed' = asm'.filled + asm'.capped + Unfilled'
    BY <1>2, <1>5, Accounts DEF AsmInv, Unfilled
  <2> QED BY <2>3, <2>4 DEF FramesAccounted, Settled, Unfilled
<1>9. Waiting' /\ Neighbours(asm.out)' /\ Neighbours(pendSFs)'
  <2>1. Waiting'
    BY <1>2, <1>5 DEF AsmInv, Waiting, WaitsAs
  <2>2. Neighbours(asm'.out)
    BY <1>3, <1>5 DEF Neighbours
  <2>3. Neighbours(pendSFs')
    BY <1>1, <1>2, NeighboursConcat DEF AsmInv
  <2> QED BY <2>1, <2>2, <2>3 DEF Neighbours
<1> QED BY <1>7, <1>8, <1>9 DEF AsmInv

LEMMA StepKeeps == AsmInv /\ [AsmNext]_asmVars => AsmInv'
<1> SUFFICES ASSUME AsmInv, [AsmNext]_asmVars PROVE AsmInv'
  OBVIOUS
<1>1. CASE \E t \in Times, sn \in SN, v \in Voices : Push(t, sn, v)
  BY <1>1, PushKeeps
<1>2. CASE Fill
  BY <1>2, FillKeeps
<1>3. CASE Accept
  BY <1>3, AcceptKeeps
<1>4. CASE TakeSuperframes
  BY <1>4, TakeKeeps
<1>5. CASE UNCHANGED asmVars
  BY <1>5 DEF asmVars, AsmInv, AsmTypeOK, FramesAccounted, Waiting, WaitsAs, Neighbours
<1> QED BY <1>1, <1>2, <1>3, <1>4, <1>5 DEF AsmNext

-----------------------------------------------------------------------------
(* Theorems.                                                               *)

\* Types, accounts and neighbours hold together in every state the assembler's
\* calls can reach.
THEOREM AsmInvariant == AsmSpec => []AsmInv
<1> QED BY InitKeeps, StepKeeps, PTL DEF AsmSpec

\* The assembler (amrwbp.go) keeps its types: at most one frame waits, and a
\* push never has more than MaxGapFrames to fill in.
THEOREM AssemblerTypes == AsmSpec => []AsmTypeOK
<1>1. AsmInv => AsmTypeOK
  BY DEF AsmInv
<1> QED BY <1>1, AsmInvariant, PTL

\* Whatever the times and serial numbers of the frames, Push loses none without
\* counting it: received and filled frames are in superframes, wait or are counted
\* as dropped, and the missing ones are filled in or counted as capped.
THEOREM EveryFrameAccounted == AsmSpec => []FramesAccounted
<1>1. AsmInv => FramesAccounted
  BY DEF AsmInv
<1> QED BY <1>1, AsmInvariant, PTL

\* Push1 never joins two frames that were not pushed one right after the other,
\* however serial numbers repeat and gaps of odd length turn them round.
THEOREM OnlyNeighboursPaired == AsmSpec => []PairsAreNeighbours
<1>1. AsmInv => PairsAreNeighbours
  <2> SUFFICES ASSUME AsmInv PROVE Neighbours(Made)
    BY DEF PairsAreNeighbours, Neighbours
  <2>1. asm.out \in Seq(Superframe) /\ pendSFs \in Seq(Superframe)
    BY DEF AsmInv, AsmTypeOK, Assembler
  <2> QED BY <2>1, NeighboursConcat DEF AsmInv, Made
<1> QED BY <1>1, AsmInvariant, PTL

-----------------------------------------------------------------------------
(***************************************************************************)
(* The decoder's blocks, and the decoder with its assembler: Spec.          *)
(***************************************************************************)

\* Once there is a length, blocks overlap by a whole frame and go forward.
Fits(d) == d.blockLen > d.overlap /\ d.overlap >= Frame

\* What lies before the samples that wait was whole in some block.
DoneBefore ==
    ~flushed => \A n \in FrameNos :
                    At(n) >= air.start /\ At(n) < dec.pendStart => n \in air.tried

\* A bin is seen because a frame was given.
SeenIsGiven ==
    \A b \in dec.seen : \E n \in Range(air.given), late \in {0, 1} : b = BinOf(At(n) + late)

BlockInv ==
    /\ BlockTypeOK
    /\ Fits(dec) \/ (dec.blockLen = 0 /\ ~feeding /\ fed = dec.pendStart)
    /\ flushed => ~feeding
    /\ DoneBefore
    /\ NothingSkipped
    /\ SeenIsGiven
    /\ FoundIsGiven

-----------------------------------------------------------------------------
(* Times and bins.                                                         *)

LEMMA AtType ==
    ASSUME phase \in Phases, NEW n \in FrameNos
    PROVE  At(n) \in Nat
<1>1. phase \in Nat /\ Frame \in Nat /\ n - 1 \in Nat /\ NFrames \in Nat
  BY BlockConstants DEF FrameNos
<1>2. (n - 1) * Frame \in Nat
  BY <1>1
<1> QED BY <1>1, <1>2 DEF At

\* Two frames are at least a frame apart.
LEMMA FramesApart ==
    ASSUME phase \in Phases, NEW m \in FrameNos, NEW n \in FrameNos, m < n
    PROVE  At(n) >= At(m) + Frame
<1>1. phase \in Nat /\ Frame \in Nat /\ m - 1 \in Nat /\ n - m - 1 \in Nat
  BY BlockConstants DEF FrameNos
<1> DEFINE d == n - m - 1
<1>2. (n - 1) * Frame = (m - 1) * Frame + Frame + d * Frame
  <2>1. n - 1 = (m - 1) + 1 + d
    BY <1>1 DEF FrameNos
  <2>2. \A a, b, f \in Nat : (a + 1 + b) * f = a * f + f + b * f
    BY SMT
  <2> HIDE DEF d
  <2> QED BY <2>1, <2>2, <1>1 DEF d
<1>3. d * Frame \in Nat /\ (m - 1) * Frame \in Nat
  BY <1>1
<1> HIDE DEF d
<1> QED BY <1>1, <1>2, <1>3 DEF At

LEMMA DivGrows ==
    ASSUME NEW a \in Nat, NEW b \in Nat, NEW f \in Nat \ {0}, b >= a + f
    PROVE  a \div f < b \div f
<1>1. a \div f \in Nat /\ b \div f \in Nat
  BY SMT
<1>2. f * (a \div f) <= a
  BY SMT
<1>3. b < f * (b \div f) + f
  BY SMT
<1> DEFINE p == a \div f
           q == b \div f
<1>4. f * p + f <= a + f /\ b < f * q + f
  BY <1>1, <1>2, <1>3
<1>5. p \in Nat /\ q \in Nat
  BY <1>1
<1> HIDE DEF p, q
<1>6. f * p < f * q
  BY <1>4, <1>5
<1>7. p < q
  <2>1. CASE q <= p
    <3>1. \A x, y, z \in Nat : x <= y => z * x <= z * y
      BY SMT
    <3>2. f * q <= f * p
      BY <1>5, <2>1, <3>1
    <3> QED BY <1>5, <1>6, <3>2
  <2> QED BY <2>1, <1>5
<1> QED BY <1>7 DEF p, q

\* The times of two frames never fall into one bin, late or not.
LEMMA BinsApart ==
    ASSUME phase \in Phases, NEW m \in FrameNos, NEW n \in FrameNos,
           NEW k \in {0, 1}, NEW l \in {0, 1}, BinOf(At(m) + k) = BinOf(At(n) + l)
    PROVE  m = n
<1>1. ASSUME NEW i \in FrameNos, NEW j \in FrameNos, NEW x \in {0, 1}, NEW y \in {0, 1}, i < j
      PROVE  BinOf(At(i) + x) < BinOf(At(j) + y)
  <2>1. Frame \in Nat \ {0} /\ Frame >= 2
    BY BlockConstants
  <2>2. At(i) \in Nat /\ At(j) \in Nat /\ At(j) >= At(i) + Frame
    BY <1>1, AtType, FramesApart
  <2>3. Frame \div 2 \in Nat
    BY <2>1
  <2> DEFINE a == 2 * (At(i) + x) + Frame \div 2
             b == 2 * (At(j) + y) + Frame \div 2
  <2>4. a \in Nat /\ b \in Nat /\ b >= a + Frame
    BY <2>1, <2>2, <2>3
  <2> HIDE DEF a, b
  <2>5. a \div Frame < b \div Frame
    BY <2>1, <2>4, DivGrows
  <2> QED BY <2>5 DEF a, b, BinOf
<1>2. BinOf(At(m) + k) \in Nat /\ BinOf(At(n) + l) \in Nat
  <2>1. Frame \in Nat \ {0}
    BY BlockConstants
  <2>2. At(m) \in Nat /\ At(n) \in Nat
    BY AtType
  <2> QED BY <2>1, <2>2 DEF BinOf
<1>3. m \in Int /\ n \in Int
  BY DEF FrameNos
<1>4. CASE m < n
  BY <1>1, <1>2, <1>4
<1>5. CASE n < m
  BY <1>1, <1>2, <1>5
<1> QED BY <1>3, <1>4, <1>5

-----------------------------------------------------------------------------
(* The length of a block.                                                  *)

Lengths == [pendStart : Nat, blockLen : Nat, overlap : Nat, processed : Nat,
            searching : BOOLEAN, heard : Nat, scramble : ScrambleValues,
            pinned : BOOLEAN, seen : SUBSET Nat]

\* A change of the length touches nothing but the length.
SameRest(d, e) ==
    /\ e.pendStart = d.pendStart /\ e.processed = d.processed
    /\ e.seen = d.seen

LEMMA SetBlockLenFits ==
    ASSUME NEW d \in Lengths
    PROVE  /\ SetBlockLen(d) \in Lengths /\ Fits(SetBlockLen(d))
           /\ SameRest(d, SetBlockLen(d))
<1> DEFINE len == IF d.searching /\ AcquireSec < BlockSec THEN AcquireSec ELSE BlockSec
<1>1. len \in Nat /\ len >= 2 * Frame /\ Frame \in Nat \ {0} /\ OverlapSec \in Nat
      /\ OverlapSec >= Frame
  BY BlockConstants
<1> HIDE DEF len
<1>2. Fitting(OverlapSec, len) \in Nat /\ Fitting(OverlapSec, len) >= Frame
      /\ Fitting(OverlapSec, len) < len
  BY <1>1 DEF Fitting
<1>3. SetBlockLen(d) = [d EXCEPT !.blockLen = len, !.overlap = Fitting(OverlapSec, len)]
  BY DEF SetBlockLen, len
<1> QED BY <1>1, <1>2, <1>3 DEF Fits, Lengths, SameRest

LEMMA AdaptedFits ==
    ASSUME NEW d \in Lengths
    PROVE  /\ Adapted(d) \in Lengths
           /\ Fits(Adapted(d)) \/ (d.blockLen = 0 /\ Adapted(d).blockLen = 0)
           /\ SameRest(d, Adapted(d))
BY SetBlockLenFits DEF Adapted, SameRest

LEMMA SetScrambleFits ==
    ASSUME NEW d \in Lengths, NEW value \in ScrambleValues, NEW pinned \in BOOLEAN
    PROVE  /\ SetScramble(d, value, pinned) \in Lengths
           /\ \/ Fits(SetScramble(d, value, pinned))
              \/ d.blockLen = 0 /\ SetScramble(d, value, pinned).blockLen = 0
           /\ SameRest(d, SetScramble(d, value, pinned))
<1> DEFINE e == [d EXCEPT !.scramble = value, !.pinned = pinned, !.searching = FALSE]
<1>1. e \in Lengths /\ SameRest(d, e) /\ e.blockLen = d.blockLen
  BY DEF Lengths, SameRest
<1>2. SetScramble(d, value, pinned) = Adapted(e)
  BY DEF SetScramble
<1> HIDE DEF e
<1> QED BY <1>1, <1>2, AdaptedFits DEF SameRest

LEMMA UnpinnedFits ==
    ASSUME NEW d \in Lengths
    PROVE  /\ Unpinned(d) \in Lengths
           /\ Fits(Unpinned(d)) \/ (d.blockLen = 0 /\ Unpinned(d).blockLen = 0)
           /\ SameRest(d, Unpinned(d))
<1> DEFINE e == [d EXCEPT !.scramble = None, !.pinned = FALSE, !.searching = TRUE,
                          !.heard = 0]
<1>1. e \in Lengths /\ SameRest(d, e) /\ e.blockLen = d.blockLen
  BY DEF Lengths, SameRest, ScrambleValues
<1>2. Unpinned(d) = Adapted(e)
  BY DEF Unpinned
<1> HIDE DEF e
<1> QED BY <1>1, <1>2, AdaptedFits DEF SameRest

LEMMA FramesFinite ==
    ASSUME NEW S \in SUBSET FrameNos
    PROVE  IsFiniteSet(S) /\ Cardinality(S) \in Nat
<1>1. IsFiniteSet(FrameNos)
  BY BlockConstants, FS_Interval DEF FrameNos
<1>2. IsFiniteSet(S)
  BY <1>1, FS_Subset
<1> QED BY <1>2, FS_CardinalityType

\* A lock changes nothing but what is searched for and the length.
LEMMA TryLockFits ==
    ASSUME NEW d \in Lengths, Fits(d), NEW found \in SUBSET FrameNos,
           NEW e \in TryLock(d, found)
    PROVE  e \in Lengths /\ Fits(e) /\ SameRest(d, e)
<1>1. Cardinality(found \cap Control) \in Nat
  BY FramesFinite
<1> DEFINE heard == d.heard + Cardinality(found \cap Control)
           on == [d EXCEPT !.heard = heard]
<1>2. heard \in Nat
  BY <1>1 DEF Lengths
<1>3. on \in Lengths /\ SameRest(d, on) /\ Fits(on) /\ on.blockLen = d.blockLen
  BY <1>2 DEF Lengths, SameRest, Fits
<1>4. e \in {d, on} \cup {SetScramble(on, v, FALSE) : v \in {"own", "other"}}
  BY DEF TryLock
<1> HIDE DEF heard, on
<1>5. CASE e \in {d, on}
  BY <1>3, <1>5 DEF SameRest
<1>6. CASE \E v \in {"own", "other"} : e = SetScramble(on, v, FALSE)
  <2>1. PICK v \in {"own", "other"} : e = SetScramble(on, v, FALSE)
    BY <1>6
  <2>2. v \in ScrambleValues
    BY DEF ScrambleValues
  <2>3. Fits(on) => on.blockLen # 0
    BY <1>3, BlockConstants DEF Fits, Lengths
  <2> QED BY <1>3, <2>1, <2>2, <2>3, SetScrambleFits DEF SameRest
<1> QED BY <1>4, <1>5, <1>6

-----------------------------------------------------------------------------
(* The order in which frames are given.                                    *)

\* Sorting keeps the set.
LEMMA SortedKeeps ==
    ASSUME NEW S \in SUBSET FrameNos, NEW q \in Sorted(S)
    PROVE  q \in Seq(S) /\ Range(q) = S
<1>1. Cardinality(S) \in Nat /\ IsFiniteSet(S)
  BY FramesFinite
<1> DEFINE c == Cardinality(S)
<1>2. q \in [1 .. c -> S] /\ \A j, k \in 1 .. c : j < k => q[j] < q[k]
  BY DEF Sorted
<1>3. S \subseteq Int
  BY DEF FrameNos
<1> HIDE DEF c
<1>4. c \in Nat
  BY <1>1 DEF c
<1>5. IsInjective(q)
  <2> SUFFICES ASSUME NEW a \in 1 .. c, NEW b \in 1 .. c, q[a] = q[b] PROVE a = b
    BY <1>2 DEF IsInjective
  <2>1. q[a] \in Int /\ q[b] \in Int
    BY <1>2, <1>3
  <2> QED BY <1>2, <1>4, <2>1
<1>6. q \in Injection(1 .. c, S)
  BY <1>2, <1>5 DEF Injection
<1>7. IsFiniteSet(1 .. c) /\ Cardinality(1 .. c) = c
  BY <1>4, FS_Interval
<1>8. q \in Surjection(1 .. c, S)
  BY <1>1, <1>6, <1>7, FS_Injection DEF c
<1>9. Range(q) = S
  BY <1>2, <1>8 DEF Surjection, Range
<1> QED BY <1>2, <1>4, <1>9

-----------------------------------------------------------------------------
(* decodeAt.                                                               *)

LEMMA RangeGrows ==
    ASSUME NEW p \in Seq(FrameNos), NEW q \in Seq(FrameNos)
    PROVE  p \o q \in Seq(FrameNos) /\ Range(p \o q) = Range(p) \cup Range(q)
<1>1. p \o q \in Seq(FrameNos) /\ Len(p) \in Nat /\ Len(q) \in Nat
      /\ Len(p \o q) = Len(p) + Len(q)
  OBVIOUS
<1>2. \A i \in 1 .. Len(p \o q) :
          (p \o q)[i] = IF i <= Len(p) THEN p[i] ELSE q[i - Len(p)]
  OBVIOUS
<1>3. DOMAIN p = 1 .. Len(p) /\ DOMAIN q = 1 .. Len(q) /\ DOMAIN (p \o q) = 1 .. Len(p \o q)
  BY <1>1
<1>4. ASSUME NEW x \in Range(p \o q) PROVE x \in Range(p) \cup Range(q)
  <2>1. PICK i \in 1 .. Len(p \o q) : x = (p \o q)[i]
    BY <1>3, <1>4 DEF Range
  <2>2. CASE i <= Len(p)
    <3>1. x = p[i] /\ i \in DOMAIN p
      BY <1>1, <1>2, <1>3, <2>1, <2>2
    <3> QED BY <3>1 DEF Range
  <2>3. CASE i > Len(p)
    <3>1. x = q[i - Len(p)] /\ i - Len(p) \in DOMAIN q
      BY <1>1, <1>2, <1>3, <2>1, <2>3
    <3> QED BY <3>1 DEF Range
  <2> QED BY <1>1, <2>1, <2>2, <2>3
<1>5. ASSUME NEW x \in Range(p) PROVE x \in Range(p \o q)
  <2>1. PICK i \in DOMAIN p : x = p[i]
    BY <1>5 DEF Range
  <2>2. i \in DOMAIN (p \o q) /\ x = (p \o q)[i]
    BY <1>1, <1>2, <1>3, <2>1
  <2> QED BY <2>2 DEF Range
<1>6. ASSUME NEW x \in Range(q) PROVE x \in Range(p \o q)
  <2>1. PICK i \in DOMAIN q : x = q[i]
    BY <1>6 DEF Range
  <2>2. i + Len(p) \in 1 .. Len(p \o q) /\ ~(i + Len(p) <= Len(p)) /\ (i + Len(p)) - Len(p) = i
    BY <1>1, <1>3, <2>1
  <2>3. x = (p \o q)[i + Len(p)] /\ i + Len(p) \in DOMAIN (p \o q)
    BY <1>2, <1>3, <2>1, <2>2
  <2> QED BY <2>3 DEF Range
<1> QED BY <1>1, <1>4, <1>5, <1>6

\* A block that reaches as far as the samples fed, is followed by one that begins a
\* frame before its end, and is decoded by a decoder not yet flushed.
BlockStep(len, to) ==
    /\ ~flushed /\ Fits(dec)
    /\ len \in Nat /\ dec.pendStart + len <= fed
    /\ to \in Nat /\ to <= fed /\ dec.pendStart <= to
    /\ DecodeAt(dec.pendStart, len, to)
    /\ to + Frame <= dec.pendStart + len \/ flushed'
    /\ phase' = phase /\ fed' = fed
    /\ feeding' \in BOOLEAN /\ flushed' \in BOOLEAN /\ (flushed' => ~feeding')

\* What it does to what was given.
Gives(len, to, late, lost, order) ==
    LET whole == Whole(dec.pendStart, len, late)
        new == Fresh(dec, whole \ lost, late)
    IN /\ order \in Sorted(new)
       /\ air'.given = air.given \o order
       /\ air'.found = air.found \cup (whole \ lost)
       /\ air'.missed = air.missed \cup lost
       /\ dec'.seen = dec.seen \cup {BinOf(At(n) + late) : n \in new}
       /\ dec'.pendStart = to
       /\ \E more \in Seq(Decoded) :
             /\ frames' = frames \o more /\ Len(more) = Len(order)
             /\ \A k \in DOMAIN order :
                   more[k].n = order[k] /\ more[k].t = At(order[k]) + late

LEMMA DecodeAtKeeps ==
    ASSUME BlockInv, NEW len, NEW to, BlockStep(len, to)
    PROVE  /\ BlockInv'
           /\ \E late \in {0, 1}, lost \in SUBSET FrameNos :
                 /\ lost \subseteq Whole(dec.pendStart, len, late)
                 /\ \E order \in Seq(FrameNos) : Gives(len, to, late, lost, order)
<1> DEFINE start == dec.pendStart
<1>1. /\ phase \in Phases /\ dec \in Lengths /\ fed \in 0 .. End /\ start \in Nat
      /\ frames \in Seq(Decoded) /\ Frame \in Nat \ {0} /\ End \in Nat
      /\ dec.seen \subseteq Nat /\ dec.processed \in Nat
  BY BlockConstants DEF BlockInv, BlockTypeOK, Lengths
<1>2. /\ air.start \in Nat /\ air.tried \subseteq FrameNos /\ air.found \subseteq FrameNos
      /\ air.missed \subseteq FrameNos /\ air.given \in Seq(FrameNos) /\ air.faults \in Nat
      /\ air.pins \in Nat /\ air.short \in BOOLEAN
  BY DEF BlockInv, BlockTypeOK, AirHistory
<1>3. PICK late \in {0, 1}, lost \in SUBSET UNION {Whole(start, len, x) : x \in {0, 1}} :
          /\ lost \subseteq Whole(start, len, late)
          /\ DecodeBlock(Whole(start, len, late), lost, late, to, start + len)
  <2>1. DecodeAt(start, len, to)
    BY DEF BlockStep
  <2> QED BY <2>1, Zenon DEF DecodeAt
<1> DEFINE whole == Whole(start, len, late)
           found == whole \ lost
<1>4. PICK d \in TryLock(dec, found) :
          \E spoiled \in SUBSET Fresh(d, found, late) :
              \E order \in Sorted(Fresh(d, found, late)) :
                  /\ air.faults + Cardinality(lost) + Cardinality(spoiled) <= MaxFaults
                  /\ dec' = [MarkNew(d, {BinOf(At(n) + late) : n \in Fresh(d, found, late)})
                               EXCEPT !.pendStart = to,
                                      !.processed = IF start + len > @ THEN start + len ELSE @]
                  /\ GiveFrames(whole, lost, late, d, spoiled, order)
  BY <1>3 DEF DecodeBlock
<1> DEFINE new == Fresh(d, found, late)
           bins == {BinOf(At(n) + late) : n \in new}
<1>42. PICK spoiled \in SUBSET new, order \in Sorted(new) :
          /\ dec' = [MarkNew(d, bins) EXCEPT
                !.pendStart = to,
                !.processed = IF start + len > @ THEN start + len ELSE @]
          /\ GiveFrames(whole, lost, late, d, spoiled, order)
  BY <1>4
<1>5. whole \subseteq FrameNos /\ found \subseteq whole /\ lost \subseteq whole
      /\ new \subseteq found /\ spoiled \subseteq new
  BY <1>3 DEF Whole, Fresh
<1>6. \A n \in whole : At(n) \in Nat /\ start <= At(n) /\ At(n) + late + Frame <= start + len
  BY <1>1, <1>5, AtType DEF Whole
<1>7. d \in Lengths /\ Fits(d) /\ SameRest(dec, d)
  BY <1>1, <1>5, TryLockFits DEF BlockStep
<1>8. order \in Seq(new) /\ Range(order) = new
  BY <1>5, SortedKeeps
<1> DEFINE times == [k \in DOMAIN order |->
              [n |-> order[k], t |-> At(order[k]) + late,
               ok |-> d.scramble = "own" /\ order[k] \notin spoiled]]
<1>9. bins \subseteq Nat
  <2> SUFFICES ASSUME NEW n \in new PROVE BinOf(At(n) + late) \in Nat
    OBVIOUS
  <2>1. At(n) \in Nat
    BY <1>5, <1>6
  <2>2. 2 * (At(n) + late) + Frame \div 2 \in Nat
    BY <1>1, <2>1
  <2> QED BY <1>1, <2>2 DEF BinOf
<1>10. times \in Seq(Decoded)
  <2>1. \A k \in DOMAIN order : order[k] \in new
    BY <1>8
  <2>2. ASSUME NEW k \in DOMAIN order
        PROVE  times[k] \in Decoded
    <3>1. order[k] \in FrameNos /\ order[k] \in whole
      BY <1>5, <2>1
    <3> DEFINE ok == d.scramble = "own" /\ order[k] \notin spoiled
               t == At(order[k]) + late
    <3>2. t \in 0 .. End
      BY <1>1, <1>6, <3>1 DEF BlockStep
    <3>3. times[k] = [n |-> order[k], t |-> t, ok |-> ok]
      OBVIOUS
    <3>4. ok \in BOOLEAN
      OBVIOUS
    <3> HIDE DEF times, t, ok
    <3> QED BY <3>1, <3>2, <3>3, <3>4 DEF Decoded
  <2>3. DOMAIN order = 1 .. Len(order) /\ Len(order) \in Nat
    BY <1>8
  <2>4. times \in [1 .. Len(order) -> Decoded]
    BY <2>2, <2>3
  <2> QED BY <2>3, <2>4
<1>11. dec' = [MarkNew(d, bins) EXCEPT
              !.pendStart = to,
              !.processed = IF start + len > @ THEN start + len ELSE @]
  BY <1>42
<1>12. frames' = frames \o times
  BY <1>42 DEF GiveFrames
<1>13. air' = [air EXCEPT
              !.tried = @ \cup whole, !.found = @ \cup found,
              !.missed = @ \cup lost, !.given = @ \o order,
              !.faults = @ + Cardinality(lost) + Cardinality(spoiled)]
  BY <1>42 DEF GiveFrames
<1>14. Cardinality(lost) \in Nat /\ Cardinality(spoiled) \in Nat
  BY <1>5, FramesFinite
<1> HIDE DEF times, bins, new, found, whole
<1>15. air.given \o order \in Seq(FrameNos) /\ Range(air.given \o order) = Range(air.given) \cup new
  <2>1. new \subseteq FrameNos
    BY <1>5
  <2>2. order \in Seq(FrameNos)
    BY <1>8, <2>1
  <2> QED BY <1>2, <1>8, <2>2, RangeGrows
<1>16. /\ air'.start = air.start /\ air'.tried = air.tried \cup whole
       /\ air'.found = air.found \cup found /\ air'.missed = air.missed \cup lost
       /\ air'.given = air.given \o order /\ air'.short = air.short /\ air'.pins = air.pins
  BY <1>13 DEF BlockInv, BlockTypeOK, AirHistory
<1>17. air' \in AirHistory
  <2>1. air \in AirHistory
    BY DEF BlockInv, BlockTypeOK
  <2> DEFINE tried == air.tried \cup whole
             all == air.found \cup found
             gone == air.missed \cup lost
             given == air.given \o order
             faults == air.faults + Cardinality(lost) + Cardinality(spoiled)
  <2>2. tried \subseteq FrameNos /\ all \subseteq FrameNos /\ gone \subseteq FrameNos
    BY <1>2, <1>5
  <2>3. given \in Seq(FrameNos) /\ faults \in Nat
    BY <1>2, <1>14, <1>15
  <2>4. air' = [air EXCEPT !.tried = tried, !.found = all, !.missed = gone,
                           !.given = given, !.faults = faults]
    BY <1>13
  <2> HIDE DEF tried, all, gone, given, faults
  <2> QED BY <2>1, <2>2, <2>3, <2>4 DEF AirHistory
<1>18. /\ dec'.pendStart = to /\ dec'.blockLen = d.blockLen /\ dec'.overlap = d.overlap
       /\ dec'.seen = dec.seen \cup bins
       /\ dec'.processed = IF start + len > dec.processed THEN start + len ELSE dec.processed
  BY <1>7, <1>11 DEF MarkNew, Lengths, SameRest
<1>19. dec' \in Lengths
  <2>1. start + len \in Nat /\ to \in Nat
    BY <1>1 DEF BlockStep
  <2>2. MarkNew(d, bins) \in Lengths
    BY <1>7, <1>9 DEF MarkNew, Lengths
  <2> QED BY <1>11, <2>1, <2>2 DEF Lengths
<1>20. BlockTypeOK'
  <2>1. frames' \in Seq(Decoded)
    BY <1>1, <1>10, <1>12
  <2> QED BY <1>1, <1>17, <1>18, <1>19, <2>1 DEF BlockTypeOK, BlockStep, Lengths
<1>21. Fits(dec')
  BY <1>7, <1>18 DEF Fits
<1>22. \A n \in FrameNos : At(n)' = At(n)
  BY DEF At, BlockStep
<1>23. DoneBefore'
  <2> SUFFICES ASSUME ~flushed', NEW n \in FrameNos, At(n) >= air.start, At(n) < to
               PROVE  n \in air.tried \cup whole
    BY <1>16, <1>18, <1>22 DEF DoneBefore
  <2>1. At(n) \in Nat
    BY <1>1, AtType
  <2>2. CASE At(n) < start
    BY <2>2 DEF BlockInv, DoneBefore, BlockStep
  <2>3. CASE At(n) >= start
    <3>1. At(n) + late + Frame <= start + len
      BY <1>1, <2>1 DEF BlockStep
    <3> QED BY <2>3, <3>1 DEF whole, Whole
  <2> QED BY <1>1, <2>1, <2>2, <2>3
<1>24. NothingSkipped'
  <2> SUFFICES ASSUME NEW n \in FrameNos, At(n) >= air.start,
                      At(n) + Frame < dec'.processed, ~air.short
               PROVE  n \in air.tried \cup whole
    BY <1>16, <1>22 DEF NothingSkipped
  <2>1. At(n) \in Nat
    BY <1>1, AtType
  <2>2. CASE At(n) < start
    BY <2>2 DEF BlockInv, DoneBefore, BlockStep
  <2>3. CASE At(n) >= start /\ At(n) + Frame < start + len
    <3>1. At(n) + late + Frame <= start + len
      BY <1>1, <2>1, <2>3 DEF BlockStep
    <3> QED BY <2>3, <3>1 DEF whole, Whole
  <2>4. CASE At(n) + Frame < dec.processed
    BY <2>4 DEF BlockInv, NothingSkipped
  <2> QED BY <1>1, <1>18, <2>1, <2>2, <2>3, <2>4
<1>25. SeenIsGiven'
  <2> SUFFICES ASSUME NEW b \in dec.seen \cup bins
               PROVE  \E n \in Range(air.given) \cup new, x \in {0, 1} : b = BinOf(At(n) + x)
    <3>2. Range(air'.given) = Range(air.given) \cup new
      BY <1>15, <1>16
    <3>3. Range(air'.given) \subseteq FrameNos
      BY <1>2, <1>5, <3>2 DEF Range
    <3> QED BY <1>18, <1>22, <3>2, <3>3 DEF SeenIsGiven, BinOf
  <2>1. CASE b \in dec.seen
    BY <2>1 DEF BlockInv, SeenIsGiven
  <2>2. CASE b \in bins
    BY <2>2 DEF bins
  <2> QED BY <2>1, <2>2
<1>26. FoundIsGiven'
  <2> SUFFICES ASSUME NEW n \in air.found \cup found
               PROVE  n \in Range(air.given) \cup new
    BY <1>15, <1>16 DEF FoundIsGiven
  <2>1. CASE n \in air.found
    BY <2>1 DEF BlockInv, FoundIsGiven
  <2>2. CASE n \in found
    <3>1. n \in FrameNos
      BY <1>5, <2>2 DEF found
    <3>2. CASE BinOf(At(n) + late) \notin dec.seen
      BY <1>7, <2>2, <3>2 DEF new, Fresh, SameRest
    <3>3. CASE BinOf(At(n) + late) \in dec.seen
      <4>1. PICK m \in Range(air.given), x \in {0, 1} : BinOf(At(n) + late) = BinOf(At(m) + x)
        BY <3>3 DEF BlockInv, SeenIsGiven
      <4>2. m \in FrameNos
        BY <1>2 DEF Range
      <4>3. m = n
        BY <1>1, <3>1, <4>1, <4>2, BinsApart
      <4> QED BY <4>3
    <3> QED BY <3>2, <3>3
  <2> QED BY <2>1, <2>2
<1>27. Gives(len, to, late, lost, order)
  <2>1. new = Fresh(dec, found, late)
    BY <1>7 DEF new, Fresh, SameRest
  <2>2. order \in Sorted(new)
    BY <1>42 DEF new
  <2>3. Len(times) = Len(order)
    <3>1. DOMAIN order = 1 .. Len(order) /\ Len(order) \in Nat
      BY <1>8
    <3>2. DOMAIN times = DOMAIN order
      BY DEF times
    <3>3. DOMAIN times = 1 .. Len(times) /\ Len(times) \in Nat
      BY <1>10
    <3> QED BY <3>1, <3>2, <3>3
  <2>4. \A k \in DOMAIN order : times[k].n = order[k] /\ times[k].t = At(order[k]) + late
    BY DEF times
  <2>5. \E more \in Seq(Decoded) :
           /\ frames' = frames \o more /\ Len(more) = Len(order)
           /\ \A k \in DOMAIN order : more[k].n = order[k] /\ more[k].t = At(order[k]) + late
    BY <1>10, <1>12, <2>3, <2>4
  <2> QED BY <1>16, <1>18, <2>1, <2>2, <2>5 DEF Gives, bins, found, whole
<1>28. lost \in SUBSET FrameNos /\ order \in Seq(FrameNos) /\ lost \subseteq Whole(start, len, late)
  <2>1. new \subseteq FrameNos
    BY <1>5
  <2>2. order \in Seq(FrameNos)
    BY <1>8, <2>1
  <2> QED BY <1>5, <2>2 DEF whole
<1> QED BY <1>20, <1>21, <1>23, <1>24, <1>25, <1>26, <1>27, <1>28 DEF BlockInv, BlockStep

-----------------------------------------------------------------------------
(* Steps.                                                                  *)

LEMMA InitBlock == BlockInit => BlockInv
<1> SUFFICES ASSUME BlockInit PROVE BlockInv
  OBVIOUS
<1>1. PICK start \in Starts, value \in {None, "own"} : dec = New(start, value) /\ fed = start
  BY DEF BlockInit
<1>2. start \in 0 .. End /\ End \in Nat
  BY BlockConstants
<1>3. dec \in Lengths /\ dec.blockLen = 0 /\ dec.pendStart = start /\ dec.processed = start
      /\ dec.seen = {}
  BY <1>1, <1>2 DEF New, Lengths, ScrambleValues, None
<1>4. /\ air = [start |-> fed, tried |-> {}, found |-> {}, missed |-> {}, given |-> <<>>,
                faults |-> 0, pins |-> 0, short |-> FALSE]
      /\ phase \in Phases /\ feeding = FALSE /\ frames = <<>> /\ flushed = FALSE
  BY DEF BlockInit
<1>5. BlockTypeOK
  <2>1. air \in AirHistory
    <3>1. fed \in Nat /\ <<>> \in Seq(FrameNos)
      BY <1>1, <1>2
    <3> QED BY <1>4, <3>1 DEF AirHistory
  <2>2. fed \in 0 .. End /\ frames \in Seq(Decoded) /\ dec.pendStart <= fed
    BY <1>1, <1>2, <1>3, <1>4
  <2> QED BY <1>3, <1>4, <2>1, <2>2 DEF BlockTypeOK, Lengths
<1>6. \A n \in FrameNos : ~(At(n) >= air.start /\ At(n) < dec.pendStart)
  BY <1>1, <1>2, <1>3, <1>4, AtType
<1>7. \A n \in FrameNos : ~(At(n) >= air.start /\ At(n) + Frame < dec.processed)
  BY <1>1, <1>2, <1>3, <1>4, AtType, BlockConstants
<1> QED BY <1>1, <1>3, <1>4, <1>5, <1>6, <1>7
        DEF BlockInv, DoneBefore, NothingSkipped, SeenIsGiven, FoundIsGiven

\* What is said of frames says nothing of lengths, samples and what is handled.
LEMMA RestKeeps ==
    ASSUME BlockInv, phase' = phase, SameRest(dec, dec'), flushed' = flushed,
           air'.start = air.start, air'.tried = air.tried, air'.found = air.found,
           air'.given = air.given, air'.short = air.short
    PROVE  DoneBefore' /\ NothingSkipped' /\ SeenIsGiven' /\ FoundIsGiven'
<1>1. \A n : At(n)' = At(n)
  BY DEF At
<1>2. Range(air'.given) = Range(air.given)
  OBVIOUS
<1>3. DoneBefore'
  BY <1>1 DEF BlockInv, DoneBefore, SameRest
<1>4. NothingSkipped'
  BY <1>1 DEF BlockInv, NothingSkipped, SameRest
<1>5. SeenIsGiven'
  BY <1>1, <1>2 DEF BlockInv, SeenIsGiven, SameRest, BinOf
<1>6. FoundIsGiven'
  BY <1>2 DEF BlockInv, FoundIsGiven
<1> QED BY <1>3, <1>4, <1>5, <1>6

LEMMA FeedKeeps == ASSUME BlockInv, Feed PROVE BlockInv'
<1>1. PICK k \in Chunks :
        /\ ~feeding /\ ~flushed /\ frames = <<>>
        /\ fed + k <= End
        /\ fed' = fed + k
        /\ dec' = IF dec.blockLen = 0 THEN SetBlockLen(dec) ELSE dec
        /\ feeding' = TRUE
        /\ UNCHANGED <<phase, frames, flushed, air>>
  BY DEF Feed
<1>2. k \in Nat /\ fed \in Nat /\ dec \in Lengths /\ dec.pendStart \in Nat
      /\ End \in Nat /\ dec.pendStart <= fed
  BY BlockConstants DEF BlockInv, BlockTypeOK, Lengths
<1>3. dec' \in Lengths /\ Fits(dec') /\ SameRest(dec, dec')
  BY <1>1, <1>2, SetBlockLenFits DEF BlockInv, SameRest
<1>4. dec'.pendStart <= fed' /\ fed' \in 0 .. End
  BY <1>1, <1>2, <1>3 DEF SameRest
<1>5. BlockTypeOK'
  BY <1>1, <1>3, <1>4 DEF BlockInv, BlockTypeOK, Lengths, Decoded, FrameNos
<1>6. DoneBefore' /\ NothingSkipped' /\ SeenIsGiven' /\ FoundIsGiven'
  BY <1>1, <1>3, RestKeeps
<1> QED BY <1>1, <1>3, <1>5, <1>6 DEF BlockInv

LEMMA FeedBlockSteps ==
    ASSUME BlockInv, FeedBlock
    PROVE  \E len, to \in Nat : BlockStep(len, to)
<1>1. Fits(dec) /\ ~flushed
  BY DEF BlockInv, FeedBlock
<1>2. /\ dec.pendStart \in Nat /\ dec.blockLen \in Nat /\ dec.overlap \in Nat
      /\ fed \in Nat /\ Frame \in Nat
  BY BlockConstants DEF BlockInv, BlockTypeOK
<1>3. dec.pendStart + dec.blockLen <= fed
  BY <1>2 DEF FeedBlock, Pending
<1> DEFINE to == dec.pendStart + dec.blockLen - dec.overlap
<1>4. to \in Nat /\ to <= fed /\ to + Frame <= dec.pendStart + dec.blockLen
      /\ dec.pendStart <= to
  BY <1>1, <1>2, <1>3 DEF Fits
<1>5. feeding' \in BOOLEAN /\ flushed' = FALSE /\ phase' = phase /\ fed' = fed
  BY <1>1 DEF FeedBlock, BlockInv, BlockTypeOK
<1>6. DecodeAt(dec.pendStart, dec.blockLen, to)
  BY DEF FeedBlock
<1> HIDE DEF to
<1>7. BlockStep(dec.blockLen, to)
  BY <1>1, <1>2, <1>3, <1>4, <1>5, <1>6 DEF BlockStep
<1> QED BY <1>2, <1>4, <1>7

LEMMA FeedBlockKeeps == ASSUME BlockInv, FeedBlock PROVE BlockInv'
BY FeedBlockSteps, DecodeAtKeeps

LEMMA FeedEndsKeeps == ASSUME BlockInv, FeedEnds PROVE BlockInv'
<1>1. feeding' = FALSE /\ UNCHANGED <<phase, dec, fed, frames, flushed, air>> /\ feeding
  BY DEF FeedEnds
<1>2. DoneBefore' /\ NothingSkipped' /\ SeenIsGiven' /\ FoundIsGiven'
  BY <1>1, RestKeeps DEF SameRest
<1>3. BlockTypeOK'
  BY <1>1 DEF BlockInv, BlockTypeOK, Decoded, FrameNos
<1> QED BY <1>1, <1>2, <1>3 DEF BlockInv, Fits

LEMMA LongFlushSteps ==
    ASSUME BlockInv, Flush, Pending >= 2 * Frame
    PROVE  \E len, to \in Nat : BlockStep(len, to)
<1>1. /\ dec.pendStart \in Nat /\ fed \in Nat /\ dec.pendStart <= fed
      /\ Frame \in Nat \ {0} /\ Pending \in Nat /\ dec.pendStart + Pending <= fed
  BY BlockConstants DEF BlockInv, BlockTypeOK, Pending
<1>2. ~feeding /\ ~flushed /\ flushed' = TRUE /\ UNCHANGED <<phase, fed, feeding>>
  BY DEF Flush
<1>3. Fits(dec)
  <2>1. dec.pendStart # fed
    BY <1>1 DEF Pending
  <2> QED BY <2>1 DEF BlockInv
<1>4. DecodeAt(dec.pendStart, Pending, fed)
  BY DEF Flush
<1>5. feeding' = FALSE /\ flushed' = TRUE /\ phase' = phase /\ fed' = fed
  BY <1>2 DEF BlockInv, BlockTypeOK
<1> DEFINE len == Pending
           to == fed
<1>6. DecodeAt(dec.pendStart, len, to) /\ len \in Nat /\ dec.pendStart + len <= fed
      /\ to \in Nat /\ to <= fed /\ dec.pendStart <= to
  BY <1>1, <1>4
<1> HIDE DEF len, to
<1>7. BlockStep(len, to)
  BY <1>2, <1>3, <1>5, <1>6 DEF BlockStep
<1> QED BY <1>6, <1>7

LEMMA FlushKeeps == ASSUME BlockInv, Flush PROVE BlockInv'
<1>1. /\ dec.pendStart \in Nat /\ fed \in Nat /\ dec.pendStart <= fed /\ fed <= End
      /\ Frame \in Nat \ {0} /\ End \in Nat /\ dec \in Lengths /\ dec.processed \in Nat
  BY BlockConstants DEF BlockInv, BlockTypeOK, Lengths
<1>2. ~feeding /\ ~flushed /\ flushed' = TRUE /\ UNCHANGED <<phase, fed, feeding>>
  BY DEF Flush
<1>3. CASE Pending >= 2 * Frame
  BY <1>3, LongFlushSteps, DecodeAtKeeps
<1>4. CASE ~(Pending >= 2 * Frame)
  <2>1. /\ dec' = [dec EXCEPT !.pendStart = fed,
                              !.processed = IF fed > @ THEN fed ELSE @]
        /\ air' = [air EXCEPT !.short = TRUE]
        /\ UNCHANGED frames
    BY <1>4 DEF Flush
  <2>2. dec' \in Lengths /\ dec'.pendStart = fed /\ dec'.seen = dec.seen
        /\ dec'.blockLen = dec.blockLen /\ dec'.overlap = dec.overlap
    BY <1>1, <2>1 DEF Lengths
  <2>3. /\ air'.short = TRUE /\ air'.given = air.given /\ air'.found = air.found
        /\ air' \in AirHistory
    <3>1. air \in AirHistory
      BY DEF BlockInv, BlockTypeOK
    <3> QED BY <2>1, <3>1 DEF AirHistory
  <2>4. BlockTypeOK'
    <3>1. phase' \in Phases /\ fed' \in 0 .. End /\ feeding' \in BOOLEAN
          /\ flushed' \in BOOLEAN /\ frames' \in Seq(Decoded)
      BY <1>1, <1>2, <2>1 DEF BlockInv, BlockTypeOK
    <3>2. dec'.pendStart <= fed'
      BY <1>1, <1>2, <2>2
    <3> QED BY <2>2, <2>3, <3>1, <3>2 DEF BlockTypeOK, Lengths
  <2>5. \A n : At(n)' = At(n)
    BY <1>2 DEF At
  <2>6. DoneBefore' /\ NothingSkipped'
    BY <1>2, <2>3 DEF DoneBefore, NothingSkipped
  <2>7. SeenIsGiven' /\ FoundIsGiven'
    <3>1. Range(air'.given) = Range(air.given)
      BY <2>3
    <3> QED BY <2>2, <2>3, <2>5, <3>1 DEF BlockInv, SeenIsGiven, FoundIsGiven, BinOf
  <2>8. Fits(dec') \/ (dec'.blockLen = 0 /\ ~feeding' /\ fed' = dec'.pendStart)
    BY <1>2, <2>2 DEF BlockInv, Fits
  <2> QED BY <1>2, <2>4, <2>6, <2>7, <2>8 DEF BlockInv
<1> QED BY <1>3, <1>4

LEMMA PinScrambleKeeps == ASSUME BlockInv, PinScramble PROVE BlockInv'
<1>1. /\ ~feeding /\ ~flushed
      /\ dec' = SetScramble(dec, "own", TRUE) \/ dec' = Unpinned(dec)
      /\ air' = [air EXCEPT !.pins = @ + 1]
      /\ UNCHANGED <<phase, fed, feeding, frames, flushed>>
  BY DEF PinScramble
<1>2. dec \in Lengths /\ "own" \in ScrambleValues
  BY DEF BlockInv, BlockTypeOK, Lengths, ScrambleValues
<1>3. Fits(dec) => dec.blockLen # 0
  BY <1>2, BlockConstants DEF Fits, Lengths
<1>4. /\ dec' \in Lengths /\ SameRest(dec, dec')
      /\ Fits(dec') \/ (dec.blockLen = 0 /\ dec'.blockLen = 0)
  BY <1>1, <1>2, SetScrambleFits, UnpinnedFits
<1>5. /\ air'.start = air.start /\ air'.tried = air.tried /\ air'.found = air.found
      /\ air'.given = air.given /\ air'.short = air.short
      /\ air' \in AirHistory
  <2>1. air \in AirHistory
    BY DEF BlockInv, BlockTypeOK
  <2> QED BY <1>1, <2>1 DEF AirHistory
<1>6. BlockTypeOK'
  <2>1. phase' \in Phases /\ fed' \in 0 .. End /\ feeding' \in BOOLEAN
        /\ flushed' \in BOOLEAN /\ frames' \in Seq(Decoded) /\ dec'.pendStart <= fed'
    BY <1>1, <1>4 DEF BlockInv, BlockTypeOK, SameRest
  <2> QED BY <1>4, <1>5, <2>1 DEF BlockTypeOK, Lengths
<1>7. DoneBefore' /\ NothingSkipped' /\ SeenIsGiven' /\ FoundIsGiven'
  BY <1>1, <1>4, <1>5, RestKeeps
<1>8. Fits(dec') \/ (dec'.blockLen = 0 /\ ~feeding' /\ fed' = dec'.pendStart)
  BY <1>1, <1>3, <1>4 DEF BlockInv, SameRest
<1> QED BY <1>1, <1>6, <1>7, <1>8 DEF BlockInv

\* The caller takes a frame.
LEMMA TakeFrameKeeps ==
    ASSUME BlockInv, frames # <<>>, frames' = Tail(frames),
           UNCHANGED <<phase, dec, fed, feeding, flushed, air>>
    PROVE  BlockInv'
<1>1. frames' \in Seq(Decoded)
  BY DEF BlockInv, BlockTypeOK
<1>2. DoneBefore' /\ NothingSkipped' /\ SeenIsGiven' /\ FoundIsGiven'
  BY RestKeeps DEF SameRest
<1>3. BlockTypeOK'
  BY <1>1 DEF BlockInv, BlockTypeOK
<1> QED BY <1>2, <1>3 DEF BlockInv, Fits

LEMMA BlockStutters ==
    ASSUME BlockInv, UNCHANGED blockVars
    PROVE  BlockInv'
<1>1. DoneBefore' /\ NothingSkipped' /\ SeenIsGiven' /\ FoundIsGiven'
  BY RestKeeps DEF SameRest, blockVars
<1>2. BlockTypeOK'
  BY DEF BlockInv, BlockTypeOK, blockVars
<1> QED BY <1>1, <1>2 DEF BlockInv, Fits, blockVars

LEMMA BlocksKeep == BlockInv /\ [Next]_vars => BlockInv'
<1> SUFFICES ASSUME BlockInv, [Next]_vars PROVE BlockInv'
  OBVIOUS
<1>1. CASE Samples
  BY <1>1, FeedKeeps, FeedBlockKeeps, FeedEndsKeeps, FlushKeeps, PinScrambleKeeps
  DEF Samples, BlockNext
<1>2. CASE HandleVoice
  BY <1>2, TakeFrameKeeps DEF HandleVoice
<1>3. CASE HandleOther
  BY <1>3, TakeFrameKeeps DEF HandleOther
<1>4. CASE Assemble
  BY <1>4, BlockStutters DEF Assemble
<1>5. CASE UNCHANGED vars
  BY <1>5, BlockStutters DEF vars
<1> QED BY <1>1, <1>2, <1>3, <1>4, <1>5 DEF Next

\* What the receiver does with the assembler, the assembler may do.
LEMMA AssemblerSteps == BlockInv /\ [Next]_vars => [AsmNext]_asmVars
<1> SUFFICES ASSUME BlockInv, [Next]_vars PROVE AsmNext \/ UNCHANGED asmVars
  OBVIOUS
<1>1. CASE Samples
  BY <1>1 DEF Samples
<1>2. CASE HandleVoice
  <2> DEFINE f == Head(frames)
  <2>1. f \in Decoded
    BY <1>2 DEF HandleVoice, BlockInv, BlockTypeOK
  <2>2. f.t \in Times /\ f.n \in Voices /\ f.n \in Int
    BY <2>1, FeedConstants DEF Decoded, FrameNos
  <2>3. SerialOf(f.n) \in SN
    BY <2>2 DEF SerialOf, SN
  <2>4. Push(f.t, SerialOf(f.n), f.n)
    BY <1>2 DEF HandleVoice
  <2> HIDE DEF f
  <2> QED BY <2>2, <2>3, <2>4 DEF AsmNext
<1>3. CASE HandleOther
  BY <1>3 DEF HandleOther, asmVars
<1>4. CASE Assemble
  BY <1>4 DEF Assemble, AsmNext
<1>5. CASE UNCHANGED vars
  BY <1>5 DEF vars
<1> QED BY <1>1, <1>2, <1>3, <1>4, <1>5 DEF Next

-----------------------------------------------------------------------------
(* How often and in which order frames are given.                          *)

\* The bins a frame may fall into.
BinsOf(n) == {BinOf(At(n)), BinOf(At(n) + 1)}

\* A frame is given once for each of its bins that is seen.
OncePerBin == \A n \in FrameNos : GivenTimes(n) <= Cardinality(BinsOf(n) \cap dec.seen)

\* A bin of a frame found is seen.
FoundIsSeen == \A n \in air.found : BinsOf(n) \cap dec.seen # {}

\* A frame that may still come, though a later one was given, was found or missed.
TriedUpTo ==
    \A m \in Range(air.given), n \in FrameNos :
        n <= m /\ At(n) >= dec.pendStart => n \in air.missed \cup air.found

GivenInv == OncePerBin /\ FoundIsSeen /\ TriedUpTo /\ LateOnlyIfMissed

\* How often a sequence has a value.
Occurrences(q, n) == Cardinality({k \in DOMAIN q : q[k] = n})

LEMMA OneMoreGiven ==
    ASSUME NEW p \in Seq(FrameNos), NEW S \in SUBSET FrameNos, NEW q \in Sorted(S),
           NEW n \in FrameNos
    PROVE  Occurrences(p \o q, n) <= Occurrences(p, n) + (IF n \in S THEN 1 ELSE 0)
<1>1. q \in Seq(S) /\ Range(q) = S /\ q \in Seq(FrameNos)
  BY SortedKeeps
<1>2. Len(p) \in Nat /\ Len(q) \in Nat /\ Len(p \o q) = Len(p) + Len(q)
      /\ p \o q \in Seq(FrameNos)
  BY <1>1
<1>3. DOMAIN p = 1 .. Len(p) /\ DOMAIN q = 1 .. Len(q) /\ DOMAIN (p \o q) = 1 .. Len(p \o q)
  BY <1>1, <1>2
<1>4. \A k \in 1 .. Len(p \o q) :
          (p \o q)[k] = IF k <= Len(p) THEN p[k] ELSE q[k - Len(p)]
  BY <1>1
<1> DEFINE both == {k \in DOMAIN (p \o q) : (p \o q)[k] = n}
           first == {k \in DOMAIN p : p[k] = n}
<1>5. IsFiniteSet(first) /\ Cardinality(first) \in Nat
  <2>1. IsFiniteSet(1 .. Len(p)) /\ first \subseteq 1 .. Len(p)
    BY <1>2, <1>3, FS_Interval
  <2>2. IsFiniteSet(first)
    BY <2>1, FS_Subset
  <2> HIDE DEF first
  <2> QED BY <2>2, FS_CardinalityType
<1>6. CASE n \notin S
  <2>1. both \subseteq first
    <3> SUFFICES ASSUME NEW k \in both PROVE k \in first
      OBVIOUS
    <3>1. k \in 1 .. Len(p \o q) /\ (p \o q)[k] = n
      BY <1>3
    <3>2. CASE k <= Len(p)
      BY <1>2, <1>3, <1>4, <3>1, <3>2
    <3>3. CASE k > Len(p)
      <4>1. k - Len(p) \in DOMAIN q /\ q[k - Len(p)] = n
        BY <1>2, <1>3, <1>4, <3>1, <3>3
      <4>2. n \in Range(q)
        BY <4>1 DEF Range
      <4> QED BY <1>1, <1>6, <4>2
    <3> QED BY <1>2, <3>1, <3>2, <3>3
  <2> HIDE DEF both, first
  <2>2. Cardinality(both) <= Cardinality(first)
    BY <1>5, <2>1, FS_Subset
  <2>3. Cardinality(both) <= Cardinality(first) + (IF n \in S THEN 1 ELSE 0)
    BY <1>5, <1>6, <2>2
  <2> QED BY <2>3 DEF both, first, Occurrences
<1>7. CASE n \in S
  <2>1. PICK i \in DOMAIN q : q[i] = n
    BY <1>1, <1>7 DEF Range
  <2>2. \A j \in DOMAIN q : q[j] = n => j = i
    <3> SUFFICES ASSUME NEW j \in DOMAIN q, q[j] = n, j # i PROVE FALSE
      OBVIOUS
    <3>1. \A x, y \in DOMAIN q : x < y => q[x] < q[y]
      BY DEF Sorted
    <3>2. i < j \/ j < i
      BY <1>2, <1>3
    <3>3. q[i] < q[j] \/ q[j] < q[i]
      BY <3>1, <3>2
    <3> QED BY <2>1, <3>3 DEF FrameNos
  <2>3. both \subseteq first \cup {i + Len(p)}
    <3> SUFFICES ASSUME NEW k \in both PROVE k \in first \/ k = i + Len(p)
      OBVIOUS
    <3>1. k \in 1 .. Len(p \o q) /\ (p \o q)[k] = n
      BY <1>3
    <3>2. CASE k <= Len(p)
      BY <1>2, <1>3, <1>4, <3>1, <3>2
    <3>3. CASE k > Len(p)
      <4>1. k - Len(p) \in DOMAIN q /\ q[k - Len(p)] = n
        BY <1>2, <1>3, <1>4, <3>1, <3>3
      <4>2. k - Len(p) = i
        BY <2>2, <4>1
      <4> QED BY <1>2, <1>3, <3>1, <4>2
    <3> QED BY <1>2, <3>1, <3>2, <3>3
  <2> HIDE DEF both, first
  <2> DEFINE x == i + Len(p)
             more == first \cup {x}
  <2>4. IsFiniteSet(more) /\ Cardinality(more) <= Cardinality(first) + 1
    <3> HIDE DEF x
    <3>1. IsFiniteSet(more)
          /\ Cardinality(more) = IF x \in first THEN Cardinality(first) ELSE Cardinality(first) + 1
      BY <1>5, FS_AddElement
    <3> QED BY <1>5, <3>1
  <2> HIDE DEF more
  <2>5. both \subseteq more
    BY <2>3 DEF more
  <2>6. IsFiniteSet(both) /\ Cardinality(both) <= Cardinality(more)
    BY <2>4, <2>5, FS_Subset
  <2>7. Cardinality(both) \in Nat /\ Cardinality(more) \in Nat
    BY <2>4, <2>6, FS_CardinalityType
  <2>8. Cardinality(both) <= Cardinality(first) + (IF n \in S THEN 1 ELSE 0)
    BY <1>5, <1>7, <2>4, <2>6, <2>7
  <2> QED BY <2>8 DEF both, first, Occurrences
<1> QED BY <1>6, <1>7

LEMMA OccurrencesType ==
    ASSUME NEW q \in Seq(FrameNos), NEW n
    PROVE  Occurrences(q, n) \in Nat
<1> DEFINE at == {k \in DOMAIN q : q[k] = n}
<1>1. Len(q) \in Nat /\ at \in SUBSET (1 .. Len(q))
  OBVIOUS
<1> HIDE DEF at
<1>2. IsFiniteSet(1 .. Len(q))
  BY <1>1, FS_Interval
<1>3. IsFiniteSet(at)
  BY <1>1, <1>2, FS_Subset
<1>4. Cardinality(at) \in Nat
  BY <1>3, FS_CardinalityType
<1> QED BY <1>4 DEF at, Occurrences

LEMMA GivenTimesType ==
    ASSUME BlockInv, NEW n
    PROVE  GivenTimes(n) \in Nat
<1>1. air.given \in Seq(FrameNos)
  BY DEF BlockInv, BlockTypeOK, AirHistory
<1>2. GivenTimes(n) = Occurrences(air.given, n)
  BY DEF GivenTimes, Occurrences
<1> QED BY <1>1, <1>2, OccurrencesType

LEMMA FewBins ==
    ASSUME NEW n, NEW seen
    PROVE  /\ IsFiniteSet(BinsOf(n)) /\ IsFiniteSet(BinsOf(n) \cap seen)
           /\ Cardinality(BinsOf(n) \cap seen) \in Nat
           /\ Cardinality(BinsOf(n) \cap seen) <= IF Steady(n) THEN 1 ELSE 2
<1> DEFINE a == BinOf(At(n))
           b == BinOf(At(n) + 1)
<1>1. BinsOf(n) = {a} \cup {b} /\ (Steady(n) <=> a = b)
  BY DEF BinsOf, Steady
<1> HIDE DEF a, b
<1>2. IsFiniteSet({a}) /\ Cardinality({a}) = 1
  BY FS_Singleton
<1>3. IsFiniteSet({a} \cup {b})
      /\ Cardinality({a} \cup {b}) = IF b \in {a} THEN 1 ELSE 1 + 1
  BY <1>2, FS_AddElement
<1>4. Cardinality({a} \cup {b}) = IF Steady(n) THEN 1 ELSE 2
  BY <1>1, <1>3
<1> DEFINE all == BinsOf(n)
           some == BinsOf(n) \cap seen
<1>5. IsFiniteSet(all) /\ some \subseteq all /\ Cardinality(all) = IF Steady(n) THEN 1 ELSE 2
  BY <1>1, <1>3, <1>4
<1> HIDE DEF all, some
<1>6. IsFiniteSet(some) /\ Cardinality(some) <= Cardinality(all)
  BY <1>5, FS_Subset
<1>7. Cardinality(some) \in Nat
  BY <1>6, FS_CardinalityType
<1>8. Cardinality(some) <= IF Steady(n) THEN 1 ELSE 2
  BY <1>5, <1>6
<1> QED BY <1>5, <1>6, <1>7, <1>8 DEF all, some

\* A block gives what it finds once, and nothing late that it or an earlier block
\* could have given before.
LEMMA GivesKeep ==
    ASSUME BlockInv, GivenInv, phase' = phase, BlockInv',
           NEW len \in Nat, NEW to \in Nat, dec.pendStart <= to,
           NEW late \in {0, 1}, NEW lost \in SUBSET FrameNos,
           NEW order \in Seq(FrameNos), Gives(len, to, late, lost, order)
    PROVE  GivenInv'
<1> DEFINE whole == Whole(dec.pendStart, len, late)
           found == whole \ lost
           new == Fresh(dec, found, late)
           bins == {BinOf(At(n) + late) : n \in new}
<1>1. /\ order \in Sorted(new) /\ air'.given = air.given \o order
      /\ air'.found = air.found \cup found /\ air'.missed = air.missed \cup lost
      /\ dec'.seen = dec.seen \cup bins /\ dec'.pendStart = to
  BY DEF Gives
<1>2. /\ whole \subseteq FrameNos /\ new \subseteq FrameNos /\ found \subseteq whole
      /\ new = {n \in found : BinOf(At(n) + late) \notin dec.seen}
      /\ whole = {n \in FrameNos : dec.pendStart <= At(n)
                                   /\ At(n) + late + Frame <= dec.pendStart + len}
      /\ found = whole \ lost
  BY DEF Whole, Fresh
<1>3. phase \in Phases /\ dec.pendStart \in Nat /\ air.given \in Seq(FrameNos)
      /\ air.found \subseteq FrameNos
  BY DEF BlockInv, BlockTypeOK, AirHistory
<1>4. \A n : At(n)' = At(n) /\ BinsOf(n)' = BinsOf(n) /\ Steady(n)' = Steady(n)
  BY DEF At, BinsOf, BinOf, Steady
<1>5. \A n \in FrameNos : BinOf(At(n) + late) \in BinsOf(n)
  <2> SUFFICES ASSUME NEW n \in FrameNos PROVE BinOf(At(n) + late) \in BinsOf(n)
    OBVIOUS
  <2>1. At(n) + 0 = At(n)
    BY <1>3, AtType
  <2>2. CASE late = 0
    BY <2>1, <2>2 DEF BinsOf
  <2>3. CASE late = 1
    BY <2>3 DEF BinsOf
  <2> QED BY <2>2, <2>3
<1> HIDE DEF whole, found, new, bins
<1>6. OncePerBin'
  <2> SUFFICES ASSUME NEW n \in FrameNos
               PROVE  GivenTimes(n)' <= Cardinality(BinsOf(n) \cap dec'.seen)
    BY <1>4 DEF OncePerBin
  <2> DEFINE before == BinsOf(n) \cap dec.seen
             after == BinsOf(n) \cap dec'.seen
             b == BinOf(At(n) + late)
  <2>1. GivenTimes(n)' = Cardinality({k \in DOMAIN (air.given \o order) :
                                         (air.given \o order)[k] = n})
    BY <1>1 DEF GivenTimes
  <2>2. GivenTimes(n)' <= GivenTimes(n) + (IF n \in new THEN 1 ELSE 0)
    <3>1. Occurrences(air.given \o order, n)
             <= Occurrences(air.given, n) + (IF n \in new THEN 1 ELSE 0)
      <4>1. new \in SUBSET FrameNos /\ order \in Sorted(new) /\ air.given \in Seq(FrameNos)
        BY <1>1, <1>2, <1>3
      <4> QED BY <4>1, OneMoreGiven
    <3> QED BY <2>1, <3>1 DEF GivenTimes, Occurrences
  <2>3. /\ IsFiniteSet(before) /\ Cardinality(before) \in Nat
        /\ IsFiniteSet(after) /\ Cardinality(after) \in Nat
    BY FewBins
  <2>4. GivenTimes(n) <= Cardinality(before)
    BY DEF GivenInv, OncePerBin
  <2>5. before \subseteq after
    BY <1>1
  <2>6. n \in new => b \notin before /\ b \in after
    BY <1>1, <1>2, <1>5 DEF bins
  <2>7. GivenTimes(n) \in Nat /\ GivenTimes(n)' \in Nat
    <3>1. air.given \o order \in Seq(FrameNos)
      BY <1>3
    <3>2. GivenTimes(n)' = Occurrences(air.given \o order, n)
      BY <2>1 DEF Occurrences
    <3> QED BY <3>1, <3>2, GivenTimesType, OccurrencesType
  <2> HIDE DEF before, after, b
  <2>8. CASE n \notin new
    <3>1. Cardinality(before) <= Cardinality(after)
      BY <2>3, <2>5, FS_Subset
    <3>2. GivenTimes(n)' <= Cardinality(after)
      BY <2>2, <2>3, <2>4, <2>7, <2>8, <3>1
    <3> QED BY <3>2 DEF after
  <2>9. CASE n \in new
    <3> DEFINE more == before \cup {b}
    <3>1. IsFiniteSet(more) /\ Cardinality(more) = Cardinality(before) + 1
      BY <2>3, <2>6, <2>9, FS_AddElement
    <3>2. more \subseteq after
      BY <2>5, <2>6, <2>9
    <3> HIDE DEF more
    <3>3. Cardinality(more) <= Cardinality(after)
      BY <2>3, <3>2, FS_Subset
    <3>4. GivenTimes(n)' <= Cardinality(after)
      BY <2>2, <2>3, <2>4, <2>7, <2>9, <3>1, <3>3
    <3> QED BY <3>4 DEF after
  <2> QED BY <2>8, <2>9
<1>7. FoundIsSeen'
  <2> SUFFICES ASSUME NEW n \in air.found \cup found PROVE BinsOf(n) \cap dec'.seen # {}
    BY <1>1, <1>4 DEF FoundIsSeen
  <2>1. CASE n \in air.found
    BY <1>1, <2>1 DEF GivenInv, FoundIsSeen
  <2>2. CASE n \in found
    <3>1. n \in FrameNos /\ (BinOf(At(n) + late) \in dec.seen \/ n \in new)
      BY <1>2, <2>2
    <3>2. BinOf(At(n) + late) \in dec'.seen
      BY <1>1, <3>1 DEF bins
    <3> QED BY <1>5, <3>1, <3>2
  <2> QED BY <2>1, <2>2
<1>8. Range(air'.given) = Range(air.given) \cup new /\ Range(order) = new
  BY <1>1, <1>2, <1>3, SortedKeeps, RangeGrows
<1>9. TriedUpTo'
  <2> SUFFICES ASSUME NEW m \in Range(air.given) \cup new, NEW n \in FrameNos,
                      n <= m, At(n) >= to
               PROVE  n \in air.missed \cup lost \cup air.found \cup found
    BY <1>1, <1>4, <1>8 DEF TriedUpTo
  <2>1. At(n) \in Nat /\ At(n) >= dec.pendStart
    BY <1>3, AtType
  <2>2. CASE m \in Range(air.given)
    BY <2>1, <2>2 DEF GivenInv, TriedUpTo
  <2>3. CASE m \in new
    <3>1. m \in whole /\ m \in FrameNos
      BY <1>2, <2>3
    <3>2. At(n) <= At(m)
      <4>1. CASE n = m
        BY <2>1, <4>1
      <4>2. CASE n < m
        <5>1. At(m) >= At(n) + Frame
          BY <1>3, <3>1, <4>2, FramesApart
        <5>2. At(m) \in Nat /\ Frame \in Nat
          BY <1>3, <3>1, AtType, BlockConstants
        <5> QED BY <2>1, <5>1, <5>2
      <4> QED BY <3>1, <4>1, <4>2 DEF FrameNos
    <3>3. n \in whole
      <4>1. At(m) \in Nat /\ Frame \in Nat
        BY <1>3, <3>1, AtType, BlockConstants
      <4>2. At(m) + late + Frame <= dec.pendStart + len
        BY <1>2, <3>1
      <4>3. At(n) + late + Frame <= dec.pendStart + len
        BY <1>3, <2>1, <3>2, <4>1, <4>2
      <4> QED BY <1>2, <2>1, <4>3
    <3> QED BY <1>2, <3>3
  <2> QED BY <2>2, <2>3
<1>10. LateOnlyIfMissed'
  <2> DEFINE p == air.given
             q == order
  <2> SUFFICES ASSUME NEW j \in DOMAIN (p \o q), NEW k \in DOMAIN (p \o q),
                      j < k, (p \o q)[j] >= (p \o q)[k]
               PROVE  (p \o q)[k] \in air.missed \cup lost \/ ~Steady((p \o q)[k])
    BY <1>1, <1>4 DEF LateOnlyIfMissed
  <2>1. Len(p) \in Nat /\ Len(q) \in Nat /\ Len(p \o q) = Len(p) + Len(q)
        /\ DOMAIN p = 1 .. Len(p) /\ DOMAIN q = 1 .. Len(q)
        /\ DOMAIN (p \o q) = 1 .. Len(p \o q)
    BY <1>3
  <2>2. \A i \in 1 .. Len(p \o q) :
            (p \o q)[i] = IF i <= Len(p) THEN p[i] ELSE q[i - Len(p)]
    BY <1>3
  <2>6. \A x, y \in DOMAIN q : x < y => q[x] < q[y]
    BY <1>1 DEF Sorted
  <2>7. \A x \in DOMAIN q : q[x] \in Int
    <3>1. \A x \in DOMAIN q : q[x] \in FrameNos
      OBVIOUS
    <3> QED BY <3>1 DEF FrameNos
  <2>8. j \in 1 .. Len(p \o q) /\ k \in 1 .. Len(p \o q)
    BY <2>1
  <2>3. CASE k <= Len(p)
    <3>1. k \in DOMAIN p /\ j \in DOMAIN p /\ (p \o q)[k] = p[k] /\ (p \o q)[j] = p[j]
      BY <2>1, <2>2, <2>3
    <3> QED BY <3>1 DEF GivenInv, LateOnlyIfMissed
  <2>4. CASE k > Len(p) /\ j > Len(p)
    <3>1. k - Len(p) \in DOMAIN q /\ j - Len(p) \in DOMAIN q /\ j - Len(p) < k - Len(p)
      <4> HIDE DEF p, q
      <4> QED BY <2>1, <2>4, <2>8
    <3>2. (p \o q)[k] = q[k - Len(p)] /\ (p \o q)[j] = q[j - Len(p)]
      BY <2>1, <2>2, <2>4
    <3>3. q[j - Len(p)] < q[k - Len(p)]
      BY <2>6, <3>1
    <3>4. q[j - Len(p)] \in Int /\ q[k - Len(p)] \in Int
      BY <2>7, <3>1
    <3>5. q[j - Len(p)] >= q[k - Len(p)]
      BY <3>2
    <3> QED BY <3>3, <3>4, <3>5
  <2>5. CASE k > Len(p) /\ j <= Len(p)
    <3> DEFINE m == (p \o q)[j]
               n == (p \o q)[k]
    <3>1. k - Len(p) \in DOMAIN q /\ j \in DOMAIN p /\ m = p[j] /\ n = q[k - Len(p)]
      BY <2>1, <2>2, <2>5
    <3>2. m \in Range(air.given) /\ n \in new
      BY <1>8, <3>1 DEF Range
    <3>3. n \in FrameNos /\ At(n) >= dec.pendStart /\ n \in found
      BY <1>2, <1>3, <3>2, AtType
    <3>4. n <= m
      BY <3>2, <3>3, <1>3 DEF FrameNos, Range
    <3> HIDE DEF m, n
    <3>5. n \in air.missed \cup air.found
      BY <3>2, <3>3, <3>4 DEF GivenInv, TriedUpTo
    <3>6. ASSUME n \in air.found PROVE ~Steady(n)
      <4>1. BinsOf(n) \cap dec.seen # {} /\ BinOf(At(n) + late) \notin dec.seen
        BY <1>2, <3>2, <3>6 DEF GivenInv, FoundIsSeen
      <4>2. BinOf(At(n)) # BinOf(At(n) + 1)
        BY <1>5, <3>3, <4>1 DEF BinsOf
      <4> QED BY <4>2 DEF Steady
    <3>7. n \in air.missed \/ ~Steady(n)
      BY <3>5, <3>6
    <3> QED BY <3>7 DEF n
  <2>9. \/ k <= Len(p)
        \/ k > Len(p) /\ j > Len(p)
        \/ k > Len(p) /\ j <= Len(p)
    <3> HIDE DEF p, q
    <3> QED BY <2>1, <2>8
  <2> QED BY <2>3, <2>4, <2>5, <2>9
<1> QED BY <1>6, <1>7, <1>9, <1>10 DEF GivenInv

\* What changes nothing that was given keeps it so, as long as decoding goes forward.
LEMMA GivenRest ==
    ASSUME GivenInv, phase' = phase, air'.given = air.given, air'.found = air.found,
           air'.missed = air.missed, dec'.seen = dec.seen, phase \in Phases,
           dec.pendStart \in Nat, dec'.pendStart \in Nat, dec.pendStart <= dec'.pendStart
    PROVE  GivenInv'
<1>1. \A n : At(n)' = At(n) /\ BinsOf(n)' = BinsOf(n) /\ Steady(n)' = Steady(n)
  BY DEF At, BinsOf, BinOf, Steady
<1>2. \A n : GivenTimes(n)' = GivenTimes(n)
  BY DEF GivenTimes
<1>3. OncePerBin'
  BY <1>1, <1>2 DEF GivenInv, OncePerBin
<1>4. FoundIsSeen'
  BY <1>1 DEF GivenInv, FoundIsSeen
<1>5. TriedUpTo'
  <2>1. \A n \in FrameNos : At(n) \in Nat
    BY AtType
  <2> QED BY <1>1, <2>1 DEF GivenInv, TriedUpTo
<1>6. LateOnlyIfMissed'
  BY <1>1 DEF GivenInv, LateOnlyIfMissed
<1> QED BY <1>3, <1>4, <1>5, <1>6 DEF GivenInv

LEMMA GivenInit == BlockInit => GivenInv
<1> SUFFICES ASSUME BlockInit PROVE GivenInv
  OBVIOUS
<1>1. air.given = <<>> /\ air.found = {}
  BY DEF BlockInit
<1>2. OncePerBin
  <2> SUFFICES ASSUME NEW n \in FrameNos
               PROVE  GivenTimes(n) <= Cardinality(BinsOf(n) \cap dec.seen)
    BY DEF OncePerBin
  <2>1. {k \in DOMAIN air.given : air.given[k] = n} = {}
    BY <1>1
  <2>2. GivenTimes(n) = 0
    BY <2>1, FS_EmptySet DEF GivenTimes
  <2>3. Cardinality(BinsOf(n) \cap dec.seen) \in Nat
    BY FewBins
  <2> QED BY <2>2, <2>3
<1>3. FoundIsSeen /\ TriedUpTo /\ LateOnlyIfMissed
  BY <1>1 DEF FoundIsSeen, TriedUpTo, LateOnlyIfMissed, Range
<1> QED BY <1>2, <1>3 DEF GivenInv

\* A block that is decoded.
LEMMA GivenStep ==
    ASSUME BlockInv, GivenInv, BlockInv', \E len, to \in Nat : BlockStep(len, to)
    PROVE  GivenInv'
<1>1. PICK len \in Nat, to \in Nat : BlockStep(len, to)
  OBVIOUS
<1>2. PICK late \in {0, 1}, lost \in SUBSET FrameNos, order \in Seq(FrameNos) :
          Gives(len, to, late, lost, order)
  BY <1>1, DecodeAtKeeps
<1>3. phase' = phase /\ dec.pendStart <= to
  BY <1>1 DEF BlockStep
<1> QED BY <1>2, <1>3, GivesKeep

\* What gives no frame.
LEMMA GivenBlocks ==
    ASSUME BlockInv, GivenInv, BlockInv', BlockNext
    PROVE  GivenInv'
<1>1. phase \in Phases /\ dec \in Lengths /\ dec.pendStart \in Nat /\ air \in AirHistory
      /\ fed \in Nat /\ dec.pendStart <= fed /\ dec'.pendStart \in Nat
  BY DEF BlockInv, BlockTypeOK, Lengths
<1>2. CASE Feed
  <2>1. /\ dec' = IF dec.blockLen = 0 THEN SetBlockLen(dec) ELSE dec
        /\ UNCHANGED <<phase, air>>
    BY <1>2 DEF Feed
  <2>2. SameRest(dec, dec')
    BY <1>1, <2>1, SetBlockLenFits DEF SameRest
  <2> QED BY <1>1, <2>1, <2>2, GivenRest DEF SameRest
<1>3. CASE FeedBlock
  BY <1>3, FeedBlockSteps, GivenStep
<1>4. CASE FeedEnds
  BY <1>1, <1>4, GivenRest DEF FeedEnds
<1>5. CASE Flush
  <2>1. CASE Pending >= 2 * Frame
    BY <1>5, <2>1, LongFlushSteps, GivenStep
  <2>2. CASE ~(Pending >= 2 * Frame)
    <3>1. /\ dec' = [dec EXCEPT !.pendStart = fed,
                                !.processed = IF fed > @ THEN fed ELSE @]
          /\ air' = [air EXCEPT !.short = TRUE]
          /\ phase' = phase
      BY <1>5, <2>2 DEF Flush
    <3>2. dec'.pendStart = fed /\ dec'.seen = dec.seen
      BY <1>1, <3>1 DEF Lengths
    <3>3. air'.given = air.given /\ air'.found = air.found /\ air'.missed = air.missed
      BY <1>1, <3>1 DEF AirHistory
    <3> QED BY <1>1, <3>1, <3>2, <3>3, GivenRest
  <2> QED BY <2>1, <2>2
<1>6. CASE PinScramble
  <2>1. /\ dec' = SetScramble(dec, "own", TRUE) \/ dec' = Unpinned(dec)
        /\ air' = [air EXCEPT !.pins = @ + 1]
        /\ phase' = phase
    BY <1>6 DEF PinScramble
  <2>2. "own" \in ScrambleValues
    BY DEF ScrambleValues
  <2>3. SameRest(dec, dec')
    BY <1>1, <2>1, <2>2, SetScrambleFits, UnpinnedFits
  <2>4. air'.given = air.given /\ air'.found = air.found /\ air'.missed = air.missed
    BY <1>1, <2>1 DEF AirHistory
  <2> QED BY <1>1, <2>1, <2>3, <2>4, GivenRest DEF SameRest
<1> QED BY <1>2, <1>3, <1>4, <1>5, <1>6 DEF BlockNext

LEMMA GivensKeep == BlockInv /\ BlockInv' /\ GivenInv /\ [Next]_vars => GivenInv'
<1> SUFFICES ASSUME BlockInv, BlockInv', GivenInv, [Next]_vars PROVE GivenInv'
  OBVIOUS
<1>1. CASE Samples
  BY <1>1, GivenBlocks DEF Samples
<1>2. CASE UNCHANGED <<phase, dec, air>>
  <2>1. phase \in Phases /\ dec.pendStart \in Nat
    BY DEF BlockInv, BlockTypeOK
  <2> QED BY <1>2, <2>1, GivenRest
<1>3. Samples \/ UNCHANGED <<phase, dec, air>>
  BY DEF Next, HandleVoice, HandleOther, Assemble, vars, blockVars
<1> QED BY <1>1, <1>2, <1>3

-----------------------------------------------------------------------------
(* The time of the sound.                                                  *)

\* A frame is dated by its place on the air, late or not.
DatedAs(t, n) == t \in {At(n), At(n) + 1}

\* Frames that wait were given, and have the times of the air.
FramesDated ==
    \A i \in DOMAIN frames :
        DatedAs(frames[i].t, frames[i].n) /\ frames[i].n \in Range(air.given)

Growing(q) == \A j, k \in DOMAIN q : j < k => q[j] < q[k]
WaitGrowing(f) == \A i, j \in DOMAIN f : i < j => f[i].n < f[j].n
GivenGrows == InAirOrder => Growing(air.given) /\ WaitGrowing(frames)

\* How many frames push1 was given, received or filled in.
Pushed == received + asm.filled

\* What was pushed as number k is the frame k + d of the air, or was filled in.
VoiceAt(half, d) == half.voice # Lost => half.voice = half.nth + d
Voiced(s, d) == \A k \in DOMAIN s : VoiceAt(s[k][1], d) /\ VoiceAt(s[k][2], d)
VoicesIn(a, taken, d) ==
    /\ Voiced(taken, d) /\ Voiced(a.out, d)
    /\ a.pending # <<>> => VoiceAt(a.pending[1], d)

\* Superframes hold what was pushed without a break; only what came before the
\* first of them was dropped.
InRow(s, from) == \A k \in DOMAIN s : s[k][1].nth = from + 2 * k - 1
RowIn(a, taken) == InRow(taken, a.dropped) /\ InRow(a.out, 2 * Len(taken) + a.dropped)

\* After the frame n, whose serial number is sn: a first half waits for its second.
After(n, sn) == sn = SerialOf(n) /\ (asm.pending # <<>> <=> sn = 0)

\* Frames still to come are later than n.
Ahead(n) == n \in Range(air.given) /\ \A i \in DOMAIN frames : n < frames[i].n

\* Between two calls, and in one.
Resting(d) ==
    asm.haveLast =>
        /\ Pushed + d \in FrameNos /\ DatedAs(asm.lastT, Pushed + d)
        /\ After(Pushed + d, asm.lastSN) /\ Ahead(Pushed + d)
Pushing(d) ==
    /\ call.voice = Pushed + call.left + 1 + d /\ call.voice \in FrameNos
    /\ DatedAs(call.t, call.voice) /\ call.frameSN = SerialOf(call.voice)
    /\ Ahead(call.voice)
    /\ asm.haveLast => After(Pushed + d, call.sn)

NothingYet ==
    ~asm.haveLast =>
        /\ received = 0 /\ asm.filled = 0 /\ asm.dropped = 0
        /\ asm.pending = <<>> /\ asm.out = <<>> /\ pendSFs = <<>>
        /\ call # NoCall => call.left = 0

InTime(d) ==
    /\ RowIn(asm, pendSFs) /\ VoicesIn(asm, pendSFs, d)
    /\ call = NoCall => Resting(d)
    /\ call # NoCall => Pushing(d)
Straight == InAirOrder /\ asm.capped = 0
TimeInv ==
    /\ FramesDated /\ GivenGrows /\ NothingYet
    /\ Straight => \E d \in Int : InTime(d)

\* The quotient of a number between two multiples.
LEMMA Quotient ==
    ASSUME NEW a \in Int, NEW b \in Nat \ {0}, NEW q \in Int,
           b * q <= a, a < b * q + b
    PROVE  a \div b = q
<1> DEFINE p == a \div b
<1>1. p \in Int /\ b * p <= a /\ a < b * p + b
  BY SMT
<1> HIDE DEF p
<1>2. \A x, y \in Int : x + 1 <= y => b * x + b <= b * y
  <2> SUFFICES ASSUME NEW x \in Int, NEW y \in Int, x + 1 <= y PROVE b * x + b <= b * y
    OBVIOUS
  <2>1. y - (x + 1) \in Nat
    OBVIOUS
  <2> DEFINE e == y - (x + 1)
  <2>2. b * e \in Nat
    BY <2>1
  <2>3. y = x + 1 + e
    OBVIOUS
  <2> HIDE DEF e
  <2>4. e \in Int
    BY <2>1 DEF e
  <2>5. b * (x + 1 + e) = b * x + b + b * e
    BY <2>4, SMT
  <2> QED BY <2>2, <2>3, <2>5
<1>3. CASE p < q
  <2>1. b * p + b <= b * q
    BY <1>1, <1>2, <1>3
  <2>2. b * p \in Int /\ b * q \in Int
    BY <1>1
  <2> QED BY <1>1, <2>1, <2>2
<1>4. CASE q < p
  <2>1. b * q + b <= b * p
    BY <1>1, <1>2, <1>4
  <2>2. b * p \in Int /\ b * q \in Int
    BY <1>1
  <2> QED BY <1>1, <2>1, <2>2
<1> QED BY <1>1, <1>3, <1>4 DEF p

\* The frames between two that were received are counted rightly, whichever of
\* them a block dated late.
LEMMA GapCounted ==
    ASSUME phase \in Phases, NEW m \in FrameNos, NEW n \in FrameNos, m < n,
           NEW t, NEW u, DatedAs(t, m), DatedAs(u, n)
    PROVE  RoundDiv(u - t, Period) = n - m
<1>1. /\ Frame \in Nat \ {0} /\ Frame > 2 /\ Period = Frame /\ phase \in Nat
      /\ m \in Nat /\ n \in Nat /\ n - m \in Nat \ {0}
  BY BlockConstants, FeedConstants DEF FrameNos
<1> DEFINE g == n - m
<1>2. /\ At(m) \in Nat /\ At(n) \in Nat /\ At(n) = At(m) + Frame * g
  <2>1. At(m) \in Nat /\ At(n) \in Nat
    BY AtType
  <2>2. \A f, i, j \in Int : (j - 1) * f = (i - 1) * f + f * (j - i)
    BY SMT
  <2>3. (n - 1) * Frame = (m - 1) * Frame + Frame * (n - m)
    BY <1>1, <2>2
  <2>4. (m - 1) * Frame \in Int /\ (n - 1) * Frame \in Int /\ Frame * (n - m) \in Int
    BY <1>1
  <2> QED BY <1>1, <2>1, <2>3, <2>4 DEF At
<1> DEFINE x == Frame * g
<1>3. g \in Nat \ {0} /\ x \in Nat /\ x >= Frame
  <2>1. \A a, b \in Nat : b # 0 => a * b >= a
    BY SMT
  <2> QED BY <1>1, <2>1
<1>4. PICK e \in {-1, 0, 1} : u - t = x + e
  BY <1>2, <1>3 DEF DatedAs
<1>5. 2 * Frame * g = 2 * x
  <2>1. \A a, b \in Int : 2 * a * b = 2 * (a * b)
    BY SMT
  <2> QED BY <1>1, <2>1
<1> HIDE DEF x, g
<1> DEFINE b == 2 * Frame
           a == 2 * (u - t) + Frame
<1>6. b \in Nat \ {0} /\ a \in Int /\ b * g = 2 * x /\ u - t >= 0
  BY <1>1, <1>3, <1>4, <1>5
<1>7. b * g <= a /\ a < b * g + b
  BY <1>1, <1>3, <1>4, <1>6
<1>8. RoundDiv(u - t, Period) = a \div b
  BY <1>1, <1>6 DEF RoundDiv
<1> HIDE DEF a, b
<1>9. a \div b = g
  BY <1>3, <1>6, <1>7, Quotient
<1> QED BY <1>8, <1>9 DEF g

-----------------------------------------------------------------------------
(* Frames come and are taken.                                              *)

\* The facts about two sequences put together.
Join(p, q, r) ==
    /\ Len(r) = Len(p) + Len(q) /\ Len(p) \in Nat /\ Len(q) \in Nat
    /\ DOMAIN p = 1 .. Len(p) /\ DOMAIN q = 1 .. Len(q) /\ DOMAIN r = 1 .. Len(r)
    /\ \A i \in DOMAIN p : i \in DOMAIN r /\ r[i] = p[i]
    /\ \A i \in DOMAIN q : Len(p) + i \in DOMAIN r /\ r[Len(p) + i] = q[i]
    /\ \A i \in DOMAIN r : i \notin DOMAIN p => i - Len(p) \in DOMAIN q /\ r[i] = q[i - Len(p)]

LEMMA Joined ==
    ASSUME NEW S, NEW p \in Seq(S), NEW q \in Seq(S)
    PROVE  p \o q \in Seq(S) /\ Join(p, q, p \o q)
<1> DEFINE r == p \o q
<1>1. /\ r \in Seq(S) /\ Len(r) = Len(p) + Len(q) /\ Len(p) \in Nat /\ Len(q) \in Nat
      /\ DOMAIN p = 1 .. Len(p) /\ DOMAIN q = 1 .. Len(q) /\ DOMAIN r = 1 .. Len(r)
  OBVIOUS
<1>2. \A i \in 1 .. Len(p) + Len(q) : r[i] = IF i <= Len(p) THEN p[i] ELSE q[i - Len(p)]
  OBVIOUS
<1> HIDE DEF r
<1>3. \A i \in DOMAIN p : i \in DOMAIN r /\ r[i] = p[i]
  BY <1>1, <1>2
<1>4. \A i \in DOMAIN q : Len(p) + i \in DOMAIN r /\ r[Len(p) + i] = q[i]
  BY <1>1, <1>2
<1>5. \A i \in DOMAIN r : i \notin DOMAIN p => i - Len(p) \in DOMAIN q /\ r[i] = q[i - Len(p)]
  BY <1>1, <1>2
<1>6. r \in Seq(S) /\ Join(p, q, r)
  BY <1>1, <1>3, <1>4, <1>5 DEF Join
<1> QED BY <1>6 DEF r

\* What a block gives in order comes behind what was given before.
LEMMA MoreInOrder ==
    ASSUME NEW g \in Seq(FrameNos), NEW order \in Seq(FrameNos), Growing(order),
           NEW r, r = g \o order, \A k \in 1 .. Len(r) - 1 : r[k] < r[k + 1],
           Growing(g)
    PROVE  /\ \A n \in Range(g), k \in DOMAIN order : n < order[k]
           /\ Growing(r)
<1>1. /\ r \in Seq(FrameNos) /\ Len(r) = Len(g) + Len(order)
      /\ Len(g) \in Nat /\ Len(order) \in Nat
      /\ DOMAIN g = 1 .. Len(g) /\ DOMAIN order = 1 .. Len(order) /\ DOMAIN r = 1 .. Len(r)
      /\ \A i \in DOMAIN g : i \in DOMAIN r /\ r[i] = g[i]
      /\ \A i \in DOMAIN order : Len(g) + i \in DOMAIN r /\ r[Len(g) + i] = order[i]
      /\ \A i \in DOMAIN r : i \notin DOMAIN g => i - Len(g) \in DOMAIN order /\ r[i] = order[i - Len(g)]
  <2>1. r \in Seq(FrameNos) /\ Join(g, order, r)
    BY Joined
  <2> QED BY <2>1 DEF Join
<1>2. /\ \A i \in DOMAIN g : g[i] \in Int
      /\ \A k \in DOMAIN order : order[k] \in Int
  <2>1. /\ \A i \in DOMAIN g : g[i] \in FrameNos
        /\ \A k \in DOMAIN order : order[k] \in FrameNos
    OBVIOUS
  <2> QED BY <2>1 DEF FrameNos
<1>3. ASSUME NEW j \in DOMAIN g, NEW k \in DOMAIN order PROVE g[j] < order[k]
  <2>1. Len(g) \in DOMAIN g /\ 1 \in DOMAIN order /\ Len(g) \in 1 .. Len(r) - 1
    BY <1>1, <1>3
  <2>2. r[Len(g)] = g[Len(g)] /\ r[Len(g) + 1] = order[1]
    BY <1>1, <2>1
  <2>3. g[Len(g)] < order[1]
    BY <2>1, <2>2
  <2>4. j = Len(g) \/ g[j] < g[Len(g)]
    BY <1>1, <1>3, <2>1 DEF Growing
  <2>5. k = 1 \/ order[1] < order[k]
    <3>1. k \in Int /\ k >= 1
      BY <1>1
    <3>2. k = 1 \/ 1 < k
      BY <3>1
    <3> QED BY <2>1, <3>2 DEF Growing
  <2> QED BY <1>2, <1>3, <2>1, <2>3, <2>4, <2>5
<1>4. \A n \in Range(g), k \in DOMAIN order : n < order[k]
  BY <1>3 DEF Range
<1>5. ASSUME NEW j \in DOMAIN r, NEW k \in DOMAIN r, j < k PROVE r[j] < r[k]
  <2>1. CASE k \in DOMAIN g
    <3>1. j \in DOMAIN g
      BY <1>1, <1>5, <2>1
    <3> QED BY <1>1, <1>5, <2>1, <3>1 DEF Growing
  <2>2. CASE j \in DOMAIN g /\ k \notin DOMAIN g
    BY <1>1, <1>3, <2>2
  <2>3. CASE j \notin DOMAIN g /\ k \notin DOMAIN g
    <3>1. j - Len(g) \in DOMAIN order /\ k - Len(g) \in DOMAIN order
          /\ r[j] = order[j - Len(g)] /\ r[k] = order[k - Len(g)]
      BY <1>1, <2>3
    <3>2. j - Len(g) < k - Len(g)
      BY <1>1, <1>5
    <3> QED BY <3>1, <3>2 DEF Growing
  <2>4. k \notin DOMAIN g \/ j \in DOMAIN g
    BY <1>1, <1>5
  <2> QED BY <2>1, <2>2, <2>3, <2>4
<1> QED BY <1>4, <1>5 DEF Growing

\* The assembler's part of the invariant, when the assembler stands still.
LEMMA AsmRests ==
    ASSUME TimeInv, UNCHANGED asmVars, phase' = phase, FramesDated', GivenGrows',
           InAirOrder' => InAirOrder,
           InAirOrder' => \A n : Ahead(n) => Ahead(n)'
    PROVE  TimeInv'
<1>1. /\ asm' = asm /\ call' = call /\ pendSFs' = pendSFs /\ received' = received
      /\ Pushed' = Pushed
  BY DEF asmVars, Pushed
<1>2. NothingYet'
  BY <1>1 DEF TimeInv, NothingYet
<1>3. \A t, n : DatedAs(t, n)' <=> DatedAs(t, n)
  BY DEF DatedAs, At
<1>4. ASSUME Straight' PROVE (\E d \in Int : InTime(d))'
  <2>1. Straight /\ \A n : Ahead(n) => Ahead(n)'
    BY <1>1, <1>4 DEF Straight
  <2>2. PICK d \in Int : InTime(d)
    BY <2>1 DEF TimeInv
  <2>3. RowIn(asm', pendSFs') /\ VoicesIn(asm', pendSFs', d)
    BY <1>1, <2>2 DEF InTime
  <2>4. \A n, sn : After(n, sn)' <=> After(n, sn)
    BY <1>1 DEF After
  <2>5. call' = NoCall => Resting(d)'
    <3>1. call = NoCall => Resting(d)
      BY <2>2 DEF InTime
    <3> QED BY <1>1, <1>3, <2>1, <2>4, <3>1 DEF Resting
  <2>6. call' # NoCall => Pushing(d)'
    <3>1. call # NoCall => Pushing(d)
      BY <2>2 DEF InTime
    <3> QED BY <1>1, <1>3, <2>1, <2>4, <3>1 DEF Pushing
  <2>7. InTime(d)'
    BY <2>3, <2>5, <2>6 DEF InTime, RowIn, InRow, VoicesIn, Voiced, VoiceAt
  <2> QED BY <2>7
<1> QED BY <1>2, <1>4 DEF TimeInv

\* A block that gives frames.
LEMMA BlockInTime ==
    ASSUME BlockInv, TimeInv, UNCHANGED asmVars, phase' = phase,
           NEW late \in {0, 1}, NEW order \in Seq(FrameNos), Growing(order),
           NEW more \in Seq(Decoded), Len(more) = Len(order),
           \A k \in DOMAIN order : more[k].n = order[k] /\ more[k].t = At(order[k]) + late,
           frames' = frames \o more, air'.given = air.given \o order
    PROVE  TimeInv'
<1> PICK g : g = air.given
  OBVIOUS
<1> PICK r : r = air'.given
  OBVIOUS
<1> PICK f : f = frames
  OBVIOUS
<1> PICK h : h = frames'
  OBVIOUS
<1>0. /\ g \in Seq(FrameNos) /\ f \in Seq(Decoded) /\ r = g \o order /\ h = f \o more
      /\ phase \in Phases
  BY DEF BlockInv, BlockTypeOK, AirHistory
<1>1. /\ r \in Seq(FrameNos) /\ Len(r) = Len(g) + Len(order)
      /\ Len(g) \in Nat /\ Len(order) \in Nat
      /\ DOMAIN g = 1 .. Len(g) /\ DOMAIN order = 1 .. Len(order) /\ DOMAIN r = 1 .. Len(r)
      /\ \A i \in DOMAIN g : i \in DOMAIN r /\ r[i] = g[i]
      /\ \A i \in DOMAIN order : Len(g) + i \in DOMAIN r /\ r[Len(g) + i] = order[i]
  <2>1. r \in Seq(FrameNos) /\ Join(g, order, r)
    BY <1>0, Joined
  <2> QED BY <2>1 DEF Join
<1>2. /\ Len(f) \in Nat /\ DOMAIN f = 1 .. Len(f) /\ DOMAIN more = DOMAIN order
      /\ \A i \in DOMAIN f : i \in DOMAIN h /\ h[i] = f[i]
      /\ \A i \in DOMAIN h : i \notin DOMAIN f => i - Len(f) \in DOMAIN more /\ h[i] = more[i - Len(f)]
      /\ DOMAIN h = 1 .. Len(h)
  <2>1. /\ Len(f) \in Nat /\ DOMAIN f = 1 .. Len(f) /\ DOMAIN more = 1 .. Len(more)
        /\ \A i \in DOMAIN f : i \in DOMAIN h /\ h[i] = f[i]
        /\ \A i \in DOMAIN h : i \notin DOMAIN f => i - Len(f) \in DOMAIN more /\ h[i] = more[i - Len(f)]
        /\ DOMAIN h = 1 .. Len(h)
    <3>1. Join(f, more, h)
      BY <1>0, Joined
    <3> QED BY <3>1 DEF Join
  <2> QED BY <1>1, <2>1
<1>3. Range(g) \subseteq Range(r) /\ \A k \in DOMAIN order : order[k] \in Range(r)
  <2>1. ASSUME NEW n \in Range(g) PROVE n \in Range(r)
    <3>1. PICK i \in DOMAIN g : n = g[i]
      BY <2>1 DEF Range
    <3>2. i \in DOMAIN r /\ r[i] = n
      BY <1>1, <3>1
    <3> QED BY <3>2 DEF Range
  <2>2. ASSUME NEW k \in DOMAIN order PROVE order[k] \in Range(r)
    <3>1. Len(g) + k \in DOMAIN r /\ r[Len(g) + k] = order[k]
      BY <1>1
    <3> QED BY <3>1 DEF Range
  <2> QED BY <2>1, <2>2
\* A frame that waits now waited before, or is one of the new ones.
<1>4. \A i \in DOMAIN h :
          \/ i \in DOMAIN f /\ h[i] = f[i]
          \/ \E k \in DOMAIN order : /\ i = Len(f) + k /\ i \notin DOMAIN f
                                     /\ h[i].n = order[k] /\ h[i].t = At(order[k]) + late
  <2> SUFFICES ASSUME NEW i \in DOMAIN h, i \notin DOMAIN f
               PROVE  \E k \in DOMAIN order : /\ i = Len(f) + k
                                              /\ h[i].n = order[k] /\ h[i].t = At(order[k]) + late
    BY <1>2
  <2>1. i - Len(f) \in DOMAIN order /\ h[i] = more[i - Len(f)]
    BY <1>2
  <2>2. i = Len(f) + (i - Len(f))
    BY <1>2
  <2> QED BY <2>1, <2>2
<1>5. \A n : At(n)' = At(n)
  BY DEF At
<1>6. FramesDated'
  <2>1. ASSUME NEW i \in DOMAIN h
        PROVE  h[i].t \in {At(h[i].n), At(h[i].n) + 1} /\ h[i].n \in Range(r)
    <3>1. CASE i \in DOMAIN f /\ h[i] = f[i]
      BY <1>3, <3>1 DEF TimeInv, FramesDated, DatedAs
    <3>2. ASSUME NEW k \in DOMAIN order, h[i].n = order[k], h[i].t = At(order[k]) + late
          PROVE  h[i].t \in {At(h[i].n), At(h[i].n) + 1} /\ h[i].n \in Range(r)
      <4>1. At(order[k]) \in Nat
        BY <1>0, AtType
      <4> QED BY <1>3, <3>2, <4>1
    <3> QED BY <1>4, <3>1, <3>2
  <2> QED BY <1>5, <2>1 DEF FramesDated, DatedAs
<1>7. InAirOrder' <=> \A k \in 1 .. Len(r) - 1 : r[k] < r[k + 1]
  BY DEF InAirOrder
<1>8. InAirOrder' => InAirOrder
  <2> SUFFICES ASSUME InAirOrder', NEW k \in 1 .. Len(g) - 1 PROVE g[k] < g[k + 1]
    BY DEF InAirOrder
  <2>1. k \in 1 .. Len(r) - 1 /\ k \in DOMAIN g /\ k + 1 \in DOMAIN g
    BY <1>1
  <2> QED BY <1>1, <1>7, <2>1
<1>9. InAirOrder' => /\ \A n \in Range(g), k \in DOMAIN order : n < order[k]
                     /\ Growing(r) /\ Growing(g) /\ WaitGrowing(f)
  <2> SUFFICES ASSUME InAirOrder'
               PROVE  /\ \A n \in Range(g), k \in DOMAIN order : n < order[k]
                      /\ Growing(r) /\ Growing(g) /\ WaitGrowing(f)
    OBVIOUS
  <2>1. Growing(g) /\ WaitGrowing(f)
    BY <1>8 DEF TimeInv, GivenGrows
  <2> QED BY <1>0, <1>7, <2>1, MoreInOrder
<1>10. \A i \in DOMAIN f : f[i].n \in Range(g)
  BY DEF TimeInv, FramesDated
<1>11. GivenGrows'
  <2> SUFFICES ASSUME InAirOrder', NEW i \in DOMAIN h, NEW j \in DOMAIN h, i < j
               PROVE  h[i].n < h[j].n
    BY <1>9 DEF GivenGrows, Growing, WaitGrowing
  <2>1. CASE i \in DOMAIN f /\ j \in DOMAIN f
    <3>1. WaitGrowing(f)
      BY <1>9
    <3> QED BY <1>2, <2>1, <3>1 DEF WaitGrowing
  <2>2. CASE i \in DOMAIN f /\ j \notin DOMAIN f
    <3>1. PICK l \in DOMAIN order : h[j].n = order[l]
      BY <1>4, <2>2
    <3>2. h[i] = f[i] /\ f[i].n \in Range(g)
      BY <1>2, <1>10, <2>2
    <3> QED BY <1>9, <3>1, <3>2
  <2>3. CASE i \notin DOMAIN f /\ j \notin DOMAIN f
    <3>1. PICK k \in DOMAIN order : i = Len(f) + k /\ h[i].n = order[k]
      BY <1>4, <2>3
    <3>2. PICK l \in DOMAIN order : j = Len(f) + l /\ h[j].n = order[l]
      BY <1>4, <2>3
    <3>3. k < l
      BY <1>1, <1>2, <3>1, <3>2
    <3> QED BY <3>1, <3>2, <3>3 DEF Growing
  <2>4. i \in DOMAIN f \/ j \notin DOMAIN f
    BY <1>2
  <2> QED BY <2>1, <2>2, <2>3, <2>4
<1>12. InAirOrder' => \A n : Ahead(n) => Ahead(n)'
  <2> SUFFICES ASSUME InAirOrder', NEW n, Ahead(n) PROVE Ahead(n)'
    OBVIOUS
  <2>1. n \in Range(g) /\ \A i \in DOMAIN f : n < f[i].n
    BY DEF Ahead
  <2>2. ASSUME NEW i \in DOMAIN h PROVE n < h[i].n
    BY <1>4, <1>9, <2>1
  <2> QED BY <1>3, <2>1, <2>2 DEF Ahead
<1> QED BY <1>6, <1>8, <1>11, <1>12, AsmRests

\* A block that is decoded.
LEMMA StepInTime ==
    ASSUME BlockInv, TimeInv, UNCHANGED asmVars, \E len, to \in Nat : BlockStep(len, to)
    PROVE  TimeInv'
<1>1. PICK len \in Nat, to \in Nat : BlockStep(len, to)
  OBVIOUS
<1>2. PICK late \in {0, 1}, lost \in SUBSET FrameNos, order \in Seq(FrameNos) :
          Gives(len, to, late, lost, order)
  BY <1>1, DecodeAtKeeps
<1>3. PICK new : order \in Sorted(new)
  BY <1>2 DEF Gives
<1>4. Growing(order)
  BY <1>3 DEF Sorted, Growing
<1>5. PICK more \in Seq(Decoded) :
          /\ frames' = frames \o more /\ Len(more) = Len(order)
          /\ \A k \in DOMAIN order : more[k].n = order[k] /\ more[k].t = At(order[k]) + late
  BY <1>2 DEF Gives
<1>6. air'.given = air.given \o order
  BY <1>2 DEF Gives
<1>7. phase' = phase
  BY <1>1 DEF BlockStep
<1> QED BY <1>4, <1>5, <1>6, <1>7, BlockInTime

\* What gives no frame and takes none.
LEMMA NothingComes ==
    ASSUME TimeInv, UNCHANGED asmVars, phase' = phase, frames' = frames,
           air'.given = air.given
    PROVE  TimeInv'
<1>1. \A n, t : DatedAs(t, n)' <=> DatedAs(t, n)
  BY DEF DatedAs, At
<1>2. Range(air'.given) = Range(air.given)
  OBVIOUS
<1>3. FramesDated'
  BY <1>1, <1>2 DEF TimeInv, FramesDated
<1>4. InAirOrder' <=> InAirOrder
  BY DEF InAirOrder
<1>5. GivenGrows'
  BY <1>4 DEF TimeInv, GivenGrows, Growing, WaitGrowing
<1>6. \A n : Ahead(n) => Ahead(n)'
  BY <1>2 DEF Ahead
<1> QED BY <1>3, <1>4, <1>5, <1>6, AsmRests

LEMMA SamplesInTime ==
    ASSUME BlockInv, TimeInv, UNCHANGED asmVars, BlockNext
    PROVE  TimeInv'
<1>1. air \in AirHistory
  BY DEF BlockInv, BlockTypeOK
<1>2. CASE Feed
  BY <1>2, NothingComes DEF Feed
<1>3. CASE FeedBlock
  BY <1>3, FeedBlockSteps, StepInTime
<1>4. CASE FeedEnds
  BY <1>4, NothingComes DEF FeedEnds
<1>5. CASE Flush
  <2>1. CASE Pending >= 2 * Frame
    BY <1>5, <2>1, LongFlushSteps, StepInTime
  <2>2. CASE ~(Pending >= 2 * Frame)
    <3>1. air' = [air EXCEPT !.short = TRUE] /\ phase' = phase /\ frames' = frames
      BY <1>5, <2>2 DEF Flush
    <3>2. air'.given = air.given
      BY <1>1, <3>1 DEF AirHistory
    <3> QED BY <3>1, <3>2, NothingComes
  <2> QED BY <2>1, <2>2
<1>6. CASE PinScramble
  <2>1. air' = [air EXCEPT !.pins = @ + 1] /\ phase' = phase /\ frames' = frames
    BY <1>6 DEF PinScramble
  <2>2. air'.given = air.given
    BY <1>1, <2>1 DEF AirHistory
  <2> QED BY <2>1, <2>2, NothingComes
<1> QED BY <1>2, <1>3, <1>4, <1>5, <1>6 DEF BlockNext

\* The first frame that waits is taken; the others come after it.
LEMMA FirstTaken ==
    ASSUME BlockInv, TimeInv, frames # <<>>, phase' = phase, air' = air,
           frames' = Tail(frames)
    PROVE  /\ FramesDated' /\ GivenGrows' /\ (InAirOrder' <=> InAirOrder)
           /\ \A n : Ahead(n) => Ahead(n)' /\ n < Head(frames).n
           /\ Head(frames) \in Decoded /\ DatedAs(Head(frames).t, Head(frames).n)
           /\ InAirOrder => \A n : n = Head(frames).n => Ahead(n)'
<1> PICK f : f = frames
  OBVIOUS
<1> PICK h : h = frames'
  OBVIOUS
<1>1. f \in Seq(Decoded) /\ f # <<>> /\ h = Tail(f)
  BY DEF BlockInv, BlockTypeOK
<1>2. /\ h \in Seq(Decoded) /\ Len(f) \in Nat /\ Len(h) = Len(f) - 1 /\ Len(f) >= 1
      /\ DOMAIN f = 1 .. Len(f) /\ DOMAIN h = 1 .. Len(h)
      /\ \A i \in 1 .. Len(h) : h[i] = f[i + 1]
      /\ Head(f) = f[1]
  BY <1>1
<1>3. /\ 1 \in DOMAIN f
      /\ \A i \in DOMAIN h : i + 1 \in DOMAIN f /\ 1 < i + 1 /\ h[i] = f[i + 1]
  BY <1>2
<1>4. \A n, t : DatedAs(t, n)' <=> DatedAs(t, n)
  BY DEF DatedAs, At
<1>5. FramesDated'
  <2>1. ASSUME NEW i \in DOMAIN h PROVE DatedAs(h[i].t, h[i].n) /\ h[i].n \in Range(air.given)
    BY <1>3 DEF TimeInv, FramesDated
  <2> QED BY <1>4, <2>1 DEF FramesDated
<1>6. InAirOrder' <=> InAirOrder
  BY DEF InAirOrder
<1>7. GivenGrows'
  <2>1. ASSUME WaitGrowing(f) PROVE WaitGrowing(h)
    <3> SUFFICES ASSUME NEW i \in DOMAIN h, NEW j \in DOMAIN h, i < j PROVE h[i].n < h[j].n
      BY DEF WaitGrowing
    <3>1. i + 1 < j + 1
      BY <1>2
    <3> QED BY <1>3, <2>1, <3>1 DEF WaitGrowing
  <2>2. GivenGrows
    BY DEF TimeInv
  <2> QED BY <1>6, <2>1, <2>2 DEF GivenGrows
<1>8. ASSUME NEW n, Ahead(n) PROVE Ahead(n)' /\ n < f[1].n
  <2>1. n \in Range(air.given) /\ \A i \in DOMAIN f : n < f[i].n
    BY <1>8 DEF Ahead
  <2>2. \A i \in DOMAIN h : n < h[i].n
    BY <1>3, <2>1
  <2> QED BY <1>3, <2>1, <2>2 DEF Ahead
<1>9. f[1] \in Decoded
  BY <1>1, <1>3
<1>10. DatedAs(f[1].t, f[1].n) /\ f[1].n \in Range(air.given)
  BY <1>3 DEF TimeInv, FramesDated
<1>11. ASSUME InAirOrder, NEW n, n = f[1].n PROVE Ahead(n)'
  <2>1. WaitGrowing(f)
    BY <1>11 DEF TimeInv, GivenGrows
  <2>2. \A i \in DOMAIN h : n < h[i].n
    BY <1>3, <1>11, <2>1 DEF WaitGrowing
  <2> QED BY <1>10, <1>11, <2>2 DEF Ahead
<1>12. Head(frames) = f[1]
  BY <1>2
<1>13. \A n : Ahead(n) => Ahead(n)' /\ n < Head(frames).n
  BY <1>8, <1>12
<1>14. Head(frames) \in Decoded /\ DatedAs(Head(frames).t, Head(frames).n)
  BY <1>9, <1>10, <1>12
<1>15. InAirOrder => \A n : n = Head(frames).n => Ahead(n)'
  <2>1. Head(frames).n = f[1].n
    BY <1>12
  <2> QED BY <1>11, <2>1
<1> QED BY <1>5, <1>6, <1>7, <1>13, <1>14, <1>15

\* A frame that is not voice is passed over.
LEMMA OtherInTime == ASSUME BlockInv, TimeInv, HandleOther PROVE TimeInv'
<1>1. frames # <<>> /\ phase' = phase /\ air' = air /\ frames' = Tail(frames)
      /\ UNCHANGED asmVars
  BY DEF HandleOther
<1>2. /\ FramesDated' /\ GivenGrows' /\ (InAirOrder' <=> InAirOrder)
      /\ \A n : Ahead(n) => Ahead(n)'
  BY <1>1, FirstTaken
<1> QED BY <1>1, <1>2, AsmRests

-----------------------------------------------------------------------------
(* Frames are pushed.                                                      *)

\* push1 keeps superframes in a row and their voices in time, when a second half
\* comes just when a first one waits, or nothing was pushed yet.
LEMMA PushInTime ==
    ASSUME AsmInv, NEW d \in Int, RowIn(asm, pendSFs), VoicesIn(asm, pendSFs, d),
           NEW sn \in SN, NEW voice \in Voices \cup {Lost},
           voice # Lost => voice = Pushed + 1 + d,
           \/ asm.pending # <<>> <=> sn = 1
           \/ asm.pending = <<>> /\ asm.out = <<>> /\ pendSFs = <<>>,
           NEW b, b = Push1(asm, sn, voice)
    PROVE  /\ RowIn(b, pendSFs) /\ VoicesIn(b, pendSFs, d)
           /\ b.pending # <<>> <=> sn = 0
<1> DEFINE half == [voice |-> voice, nth |-> Nth(asm)]
<1>1. /\ asm \in Assembler /\ asm.pending \in Seq(Half) /\ asm.out \in Seq(Superframe)
      /\ asm.dropped \in Nat /\ asm.filled \in Nat /\ received \in Nat
      /\ Len(asm.pending) \in {0, 1} /\ pendSFs \in Seq(Superframe)
  BY DEF AsmInv, AsmTypeOK, Assembler
<1>2. half \in Half /\ half.nth = Pushed + 1 /\ half.voice = voice /\ Pushed \in Nat
  BY <1>1 DEF Nth, Half, Pushed
<1>3. VoiceAt(half, d)
  BY <1>2 DEF VoiceAt
<1>4. b = IF sn = 0 THEN Begin(asm, half) ELSE Complete(asm, half)
  BY DEF Push1
<1>5. Len(asm.out) \in Nat /\ Len(pendSFs) \in Nat
  BY <1>1
<1>6. Pushed = 2 * (Len(pendSFs) + Len(asm.out)) + Len(asm.pending) + asm.dropped
  BY DEF AsmInv, FramesAccounted, Pushed
<1> HIDE DEF half
<1>7. CASE sn = 0
  <2>1. asm.pending = <<>> /\ Len(asm.pending) = 0
    BY <1>1, <1>7
  <2>2. b = Begin(asm, half)
    BY <1>4, <1>7
  <2> DEFINE p == <<half>>
             n == asm.dropped + (IF asm.pending # <<>> THEN 1 ELSE 0)
  <2>3. b = [asm EXCEPT !.pending = p, !.dropped = n]
    BY <2>2 DEF Begin
  <2>4. p \in Seq(Half) /\ p = <<half>> /\ n = asm.dropped /\ n \in Nat
    BY <1>1, <1>2, <2>1
  <2> HIDE DEF p, n
  <2>5. b.pending = <<half>> /\ b.dropped = asm.dropped /\ b.out = asm.out
    <3>1. asm \in Assembler /\ n \in Nat /\ p \in Seq(Half)
      BY <1>1, <2>4
    <3>2. b \in Assembler /\ b.pending = p /\ b.dropped = n /\ b.out = asm.out /\ Same(asm, b)
      BY <2>3, <3>1, PendingChanges
    <3> QED BY <2>4, <3>2
  <2>6. b.pending # <<>> /\ b.pending[1] = half
    BY <2>5
  <2> QED BY <1>3, <1>7, <2>5, <2>6 DEF RowIn, VoicesIn
<1>8. CASE sn = 1 /\ asm.pending = <<>>
  <2>1. asm.out = <<>> /\ pendSFs = <<>>
    BY <1>8
  <2>2. b = [asm EXCEPT !.dropped = asm.dropped + 1]
    BY <1>4, <1>8 DEF Complete
  <2>3. b.pending = <<>> /\ b.out = <<>>
    BY <1>1, <1>8, <2>1, <2>2 DEF Assembler
  <2> QED BY <1>8, <2>1, <2>3 DEF RowIn, InRow, VoicesIn, Voiced
<1>9. CASE sn = 1 /\ asm.pending # <<>>
  <2> DEFINE pair == <<asm.pending[1], half>>
             o == Append(asm.out, pair)
             p == <<>>
  <2>1. Len(asm.pending) = 1
    <3>1. Len(asm.pending) # 0
      BY <1>1, <1>9
    <3> QED BY <1>1, <3>1
  <2>2. asm.pending[1] \in Half /\ asm.pending[1].nth = Pushed /\ VoiceAt(asm.pending[1], d)
    BY <1>1, <1>9, <2>1 DEF AsmInv, Waiting, WaitsAs, Pushed, VoicesIn
  <2>3. pair \in Superframe /\ pair[1] = asm.pending[1] /\ pair[2] = half
    BY <1>2, <2>2 DEF Superframe
  <2>4. b = [asm EXCEPT !.out = o, !.pending = p]
    BY <1>4, <1>9 DEF Complete
  <2> HIDE DEF pair
  <2>5. o \in Seq(Superframe) /\ Len(o) = Len(asm.out) + 1 /\ p \in Seq(Half) /\ p = <<>>
    BY <1>1, <2>3
  <2>6. /\ \A k \in 1 .. Len(asm.out) : o[k] = asm.out[k]
        /\ o[Len(asm.out) + 1] = pair /\ DOMAIN o = 1 .. Len(asm.out) + 1
        /\ DOMAIN asm.out = 1 .. Len(asm.out)
    BY <1>1, <2>3
  <2> HIDE DEF o, p
  <2>7. b.pending = <<>> /\ b.dropped = asm.dropped /\ b.out = o
    <3>1. asm \in Assembler /\ o \in Seq(Superframe) /\ p \in Seq(Half)
      BY <1>1, <2>5
    <3>2. b \in Assembler /\ b.pending = p /\ b.dropped = asm.dropped /\ b.out = o /\ Same(asm, b)
      BY <2>4, <3>1, OutGrows
    <3> QED BY <2>5, <3>2
  <2>8. ASSUME NEW k \in DOMAIN o PROVE k \in DOMAIN asm.out \/ k = Len(asm.out) + 1
    BY <1>5, <2>6
  <2>9. InRow(o, 2 * Len(pendSFs) + asm.dropped)
    <3> DEFINE from == 2 * Len(pendSFs) + asm.dropped
    <3>1. InRow(asm.out, from)
      BY DEF RowIn
    <3>2. Pushed = from + 2 * (Len(asm.out) + 1) - 1
      BY <1>1, <1>5, <1>6, <2>1
    <3> HIDE DEF from
    <3>3. ASSUME NEW k \in DOMAIN o PROVE o[k][1].nth = from + 2 * k - 1
      <4>1. CASE k \in DOMAIN asm.out
        BY <2>6, <3>1, <4>1 DEF InRow
      <4>2. CASE k = Len(asm.out) + 1
        BY <2>2, <2>3, <2>6, <3>2, <4>2
      <4> QED BY <2>8, <4>1, <4>2
    <3> QED BY <3>3 DEF InRow, from
  <2>10. Voiced(o, d)
    <3>1. Voiced(asm.out, d)
      BY DEF VoicesIn
    <3>2. ASSUME NEW k \in DOMAIN o PROVE VoiceAt(o[k][1], d) /\ VoiceAt(o[k][2], d)
      <4>1. CASE k \in DOMAIN asm.out
        BY <2>6, <3>1, <4>1 DEF Voiced
      <4>2. CASE k = Len(asm.out) + 1
        BY <1>3, <2>2, <2>3, <2>6, <4>2
      <4> QED BY <2>8, <4>1, <4>2
    <3> QED BY <3>2 DEF Voiced
  <2> QED BY <1>9, <2>7, <2>9, <2>10 DEF RowIn, VoicesIn
<1> QED BY <1>7, <1>8, <1>9 DEF SN

\* The next serial number is the other one.
LEMMA NextSerial ==
    ASSUME NEW m \in Int
    PROVE  SerialOf(m) \in SN /\ SerialOf(m + 1) = 1 - SerialOf(m)
BY DEF SerialOf, SN

\* What does not touch frames leaves their order and what is ahead.
LEMMA FramesRest ==
    ASSUME TimeInv, UNCHANGED blockVars
    PROVE  /\ FramesDated' /\ GivenGrows' /\ (InAirOrder' <=> InAirOrder)
           /\ \A n : Ahead(n)' <=> Ahead(n)
           /\ \A n, t : DatedAs(t, n)' <=> DatedAs(t, n)
<1>1. frames' = frames /\ air' = air /\ phase' = phase
  BY DEF blockVars
<1>2. \A n, t : DatedAs(t, n)' <=> DatedAs(t, n)
  BY <1>1 DEF DatedAs, At
<1>3. FramesDated'
  BY <1>1, <1>2 DEF TimeInv, FramesDated
<1>4. InAirOrder' <=> InAirOrder
  BY <1>1 DEF InAirOrder
<1>5. GivenGrows'
  BY <1>1, <1>4 DEF TimeInv, GivenGrows, Growing, WaitGrowing
<1>6. \A n : Ahead(n)' <=> Ahead(n)
  BY <1>1 DEF Ahead
<1> QED BY <1>2, <1>3, <1>4, <1>5, <1>6

\* Push finds as many frames missing as the air lost.
LEMMA VoiceInTime == ASSUME BlockInv, AsmInv, TimeInv, HandleVoice PROVE TimeInv'
<1> PICK n : n = Head(frames).n
  OBVIOUS
<1> PICK t : t = Head(frames).t
  OBVIOUS
<1> DEFINE miss == MissingBefore(asm, t)
           fill == FillCount(miss)
           c == asm.capped + (miss - fill)
<1>1. /\ Idle /\ frames # <<>> /\ Push(t, SerialOf(n), n)
      /\ frames' = Tail(frames) /\ phase' = phase /\ air' = air
  BY DEF HandleVoice
<1>2. /\ FramesDated' /\ GivenGrows' /\ (InAirOrder' <=> InAirOrder)
      /\ \A m : Ahead(m) => Ahead(m)' /\ m < n
      /\ n \in FrameNos /\ t \in 0 .. End /\ DatedAs(t, n)
      /\ InAirOrder => Ahead(n)'
  BY <1>1, FirstTaken DEF Decoded
<1>3. \A m, u : DatedAs(u, m)' <=> DatedAs(u, m)
  BY <1>1 DEF DatedAs, At
<1>4. /\ AsmTypeOK /\ asm \in Assembler /\ asm.filled \in Nat /\ received \in Nat
      /\ asm.capped \in Nat /\ t \in Times /\ MaxGap \in Nat
  BY <1>2, FeedConstants, SuperframeConstants DEF AsmInv, AsmTypeOK, Assembler
<1>5. miss \in Nat /\ fill \in 0 .. MaxGap /\ fill <= miss
  BY <1>4, GapIsBounded
<1>6. /\ call = NoCall /\ asm' = [asm EXCEPT !.capped = c]
      /\ call' = [left |-> fill, sn |-> asm.lastSN, t |-> t,
                  frameSN |-> SerialOf(n), voice |-> n]
      /\ pendSFs' = pendSFs /\ received' = received
  BY <1>1 DEF Push
<1> HIDE DEF fill, miss, c
<1>7. /\ asm'.pending = asm.pending /\ asm'.out = asm.out /\ asm'.dropped = asm.dropped
      /\ asm'.haveLast = asm.haveLast /\ asm'.lastT = asm.lastT /\ asm'.lastSN = asm.lastSN
      /\ asm'.filled = asm.filled /\ asm'.capped = c
  BY <1>4, <1>6 DEF Assembler
<1>8. Pushed' = Pushed /\ Pushed \in Nat
  BY <1>4, <1>6, <1>7 DEF Pushed
<1>9. call' # NoCall /\ call'.left = fill
  <2>1. call'.left = fill /\ NoCall.left = -1
    BY <1>6 DEF NoCall
  <2> QED BY <1>4, <1>5, <2>1
<1>10. fill = FillCount(miss) /\ miss = MissingBefore(asm, t) /\ c = asm.capped + (miss - fill)
  BY DEF fill, miss, c
<1>11. ~asm.haveLast => miss = 0 /\ fill = 0
  BY <1>4, <1>10 DEF MissingBefore, FillCount
<1>12. NothingYet'
  BY <1>6, <1>7, <1>9, <1>11 DEF TimeInv, NothingYet
<1>13. ASSUME Straight' PROVE \E d \in Int : InTime(d)'
  <2>1. Straight /\ miss = fill
    BY <1>2, <1>4, <1>5, <1>7, <1>10, <1>13 DEF Straight
  <2>2. PICK d \in Int : InTime(d)
    BY <2>1 DEF TimeInv
  <2>3. Ahead(n)' /\ n \in Int /\ n >= 1
    BY <1>2, <2>1 DEF Straight, FrameNos
  \* All but the last conjunct: the call's voice follows the frames filled in.
  <2>4. ASSUME NEW e \in Int, RowIn(asm, pendSFs), VoicesIn(asm, pendSFs, e),
               n = Pushed + fill + 1 + e,
               asm.haveLast => After(Pushed + e, asm.lastSN)
        PROVE  InTime(e)'
    <3>1. RowIn(asm', pendSFs')
      BY <1>6, <1>7, <2>4 DEF RowIn
    <3>2. VoicesIn(asm', pendSFs', e)
      BY <1>6, <1>7, <2>4 DEF VoicesIn
    <3>3. /\ call'.voice = n /\ call'.t = t /\ call'.frameSN = SerialOf(n)
          /\ call'.sn = asm.lastSN
      BY <1>6
    <3>4. Pushing(e)'
      <4>1. call'.voice = Pushed' + call'.left + 1 + e
        BY <1>8, <1>9, <2>4, <3>3
      <4>2. (DatedAs(call.t, call.voice))'
        BY <1>1, <1>2, <3>3 DEF DatedAs, At
      <4>3. (Ahead(call.voice))'
        BY <2>3, <3>3 DEF Ahead
      <4>4. (asm.haveLast => After(Pushed + e, call.sn))'
        BY <1>7, <1>8, <2>4, <3>3 DEF After, SerialOf
      <4>5. call'.voice \in FrameNos /\ call'.frameSN = SerialOf(call'.voice)
        BY <1>2, <3>3
      <4> QED BY <4>1, <4>2, <4>3, <4>4, <4>5 DEF Pushing, SerialOf
    <3> QED BY <1>9, <3>1, <3>2, <3>4 DEF InTime, RowIn, InRow, VoicesIn, Voiced, VoiceAt
  <2>5. CASE asm.haveLast
    <3>1. /\ Pushed + d \in FrameNos /\ DatedAs(asm.lastT, Pushed + d)
          /\ After(Pushed + d, asm.lastSN) /\ Ahead(Pushed + d)
      BY <1>6, <2>2, <2>5 DEF InTime, Resting
    <3>2. Pushed + d < n
      BY <1>2, <3>1
    <3>3. phase \in Phases
      BY DEF BlockInv, BlockTypeOK
    <3>4. RoundDiv(t - asm.lastT, Period) = n - (Pushed + d)
      BY <1>2, <3>1, <3>2, <3>3, GapCounted
    <3>5. miss = n - (Pushed + d) - 1
      BY <1>8, <1>10, <2>3, <2>5, <3>2, <3>4 DEF MissingBefore
    <3>6. n = Pushed + fill + 1 + d
      BY <1>8, <2>1, <2>3, <3>5
    <3> QED BY <2>2, <2>4, <3>1, <3>6 DEF InTime
  <2>6. CASE ~asm.haveLast
    <3>1. /\ received = 0 /\ asm.filled = 0 /\ asm.pending = <<>> /\ asm.out = <<>>
          /\ pendSFs = <<>> /\ fill = 0
      BY <1>11, <2>6 DEF TimeInv, NothingYet
    <3>2. n = Pushed + fill + 1 + (n - 1) /\ n - 1 \in Int
      BY <2>3, <3>1 DEF Pushed
    <3>3. RowIn(asm, pendSFs) /\ VoicesIn(asm, pendSFs, n - 1)
      BY <3>1 DEF RowIn, InRow, VoicesIn, Voiced
    <3> QED BY <2>4, <2>6, <3>2, <3>3
  <2> QED BY <2>5, <2>6
<1> QED BY <1>2, <1>12, <1>13 DEF TimeInv

\* One frame is filled in.
LEMMA FillInTime ==
    ASSUME AsmInv, AsmInv', TimeInv, Fill, UNCHANGED blockVars
    PROVE  TimeInv'
<1> DEFINE sn == 1 - call.sn
           b == Push1(asm, sn, Lost)
<1>1. /\ asm \in Assembler /\ Len(asm.pending) \in {0, 1} /\ received \in Nat
      /\ pendSFs \in Seq(Superframe) /\ call \in Calls /\ call.sn \in SN
      /\ call.left \in Int /\ asm.filled \in Nat
  BY DEF AsmInv, AsmTypeOK, Calls, Assembler
<1>2. /\ call.left > 0 /\ asm' = [b EXCEPT !.filled = @ + 1]
      /\ call' = [call EXCEPT !.left = @ - 1, !.sn = sn]
      /\ pendSFs' = pendSFs /\ received' = received
  BY DEF Fill
<1>3. sn \in SN /\ sn = 1 - call.sn /\ (sn = 1 <=> call.sn = 0) /\ (sn = 0 <=> call.sn = 1)
  BY <1>1 DEF SN
<1>4. b \in Assembler /\ Same(asm, b)
  <2>1. WaitsAs(asm, received + asm.filled) /\ Neighbours(asm.out)
    BY DEF AsmInv, Waiting
  <2>2. b = Push1(asm, sn, Lost) /\ Lost \in Voices \cup {Lost}
    OBVIOUS
  <2> HIDE DEF b, sn
  <2>3. /\ b \in Assembler /\ Len(b.pending) \in {0, 1}
        /\ Settled(b, pendSFs) = Settled(asm, pendSFs) + 1
        /\ Same(asm, b) /\ WaitsAs(b, received + asm.filled + 1) /\ Neighbours(b.out)
    BY <1>1, <1>3, <2>1, <2>2, Push1Settles
  <2> QED BY <2>3
<1>5. b = Push1(asm, sn, Lost)
  OBVIOUS
<1> HIDE DEF b, sn
<1>6. /\ asm'.pending = b.pending /\ asm'.out = b.out /\ asm'.dropped = b.dropped
      /\ asm'.filled = asm.filled + 1 /\ asm'.capped = asm.capped
      /\ asm'.haveLast = asm.haveLast
  BY <1>2, <1>4 DEF Assembler, Same
<1>7. /\ call'.left = call.left - 1 /\ call'.sn = sn /\ call'.voice = call.voice
      /\ call'.t = call.t /\ call'.frameSN = call.frameSN
  BY <1>1, <1>2 DEF Calls
<1>8. call # NoCall /\ call' # NoCall
  <2>1. NoCall.left = -1 /\ call'.left # -1 /\ call.left # -1
    BY <1>1, <1>2, <1>7 DEF NoCall
  <2> QED BY <2>1
<1>9. asm.haveLast
  BY <1>2, <1>8 DEF TimeInv, NothingYet
<1>10. Pushed' = Pushed + 1 /\ Pushed \in Nat
  <2>1. received \in Nat /\ received' = received
    BY <1>1, <1>2
  <2>2. asm.filled \in Nat /\ asm'.filled = asm.filled + 1
    BY <1>1, <1>6
  <2> QED BY <2>1, <2>2 DEF Pushed
<1>11. NothingYet'
  BY <1>6, <1>9 DEF NothingYet
<1>12. ASSUME Straight' PROVE \E d \in Int : InTime(d)'
  <2>1. Straight
    BY <1>6, <1>12, FramesRest DEF Straight
  <2>2. PICK d \in Int : InTime(d)
    BY <2>1 DEF TimeInv
  <2>3. Pushing(d) /\ RowIn(asm, pendSFs) /\ VoicesIn(asm, pendSFs, d)
    BY <1>8, <2>2 DEF InTime
  <2>4. After(Pushed + d, call.sn)
    BY <1>9, <2>3 DEF Pushing
  <2>5. asm.pending # <<>> <=> sn = 1
    BY <1>3, <2>4 DEF After
  <2>6. /\ RowIn(b, pendSFs) /\ VoicesIn(b, pendSFs, d)
        /\ b.pending # <<>> <=> sn = 0
    <3>1. Lost \in Voices \cup {Lost} /\ (Lost # Lost => Lost = Pushed + 1 + d)
      OBVIOUS
    <3> QED BY <1>3, <1>5, <2>3, <2>5, <3>1, PushInTime
  <2>7. RowIn(asm', pendSFs') /\ VoicesIn(asm', pendSFs', d)
    BY <1>2, <1>6, <2>6 DEF RowIn, VoicesIn
  <2>8. call'.voice = Pushed' + call'.left + 1 + d
    BY <1>1, <1>7, <1>10, <2>3 DEF Pushing
  <2>9. (After(Pushed + d, call.sn))'
    <3> PICK m : m = Pushed + d
      OBVIOUS
    <3>1. m \in Int /\ Pushed' + d = m + 1
      BY <1>10
    <3>2. SerialOf(m + 1) = 1 - SerialOf(m)
      BY <3>1, NextSerial
    <3>3. call'.sn = SerialOf(m + 1)
      BY <1>3, <1>7, <2>4, <3>2 DEF After
    <3>4. call'.sn = SerialOf(Pushed' + d)
      BY <3>1, <3>3
    <3> QED BY <1>6, <1>7, <2>6, <3>4 DEF After, SerialOf
  <2>10. Pushing(d)'
    <3>1. DatedAs(call.t, call.voice) /\ Ahead(call.voice)
      BY <2>3 DEF Pushing
    <3>2. (DatedAs(call.t, call.voice))'
      BY <1>7, <3>1 DEF DatedAs, At, blockVars
    <3>3. (Ahead(call.voice))'
      BY <1>7, <3>1 DEF Ahead, blockVars
    <3>4. call'.voice \in FrameNos /\ call'.frameSN = SerialOf(call'.voice)
      BY <1>7, <2>3 DEF Pushing
    <3> QED BY <2>8, <2>9, <3>2, <3>3, <3>4 DEF Pushing, SerialOf
  <2> QED BY <1>8, <2>7, <2>10 DEF InTime, RowIn, InRow, VoicesIn, Voiced, VoiceAt
<1> QED BY <1>11, <1>12, FramesRest DEF TimeInv

\* The frame itself is pushed.
LEMMA AcceptInTime ==
    ASSUME AsmInv, TimeInv, Accept, UNCHANGED blockVars
    PROVE  TimeInv'
<1> DEFINE b == Push1(asm, call.frameSN, call.voice)
<1>1. /\ asm \in Assembler /\ Len(asm.pending) \in {0, 1} /\ received \in Nat
      /\ pendSFs \in Seq(Superframe) /\ call \in Calls /\ call.frameSN \in SN
      /\ call.sn \in SN /\ call.voice \in Voices \cup {Lost} /\ asm.filled \in Nat
  BY DEF AsmInv, AsmTypeOK, Calls, Assembler
<1>2. /\ call.left = 0 /\ call' = NoCall /\ received' = received + 1
      /\ asm' = [b EXCEPT !.haveLast = TRUE, !.lastT = call.t, !.lastSN = call.frameSN]
      /\ pendSFs' = pendSFs
  BY DEF Accept
<1>3. b = Push1(asm, call.frameSN, call.voice)
  OBVIOUS
<1> HIDE DEF b
<1>4. b \in Assembler /\ Same(asm, b)
  <2>1. WaitsAs(asm, received + asm.filled) /\ Neighbours(asm.out)
    BY DEF AsmInv, Waiting
  <2>2. /\ b \in Assembler /\ Len(b.pending) \in {0, 1}
        /\ Settled(b, pendSFs) = Settled(asm, pendSFs) + 1
        /\ Same(asm, b) /\ WaitsAs(b, received + asm.filled + 1) /\ Neighbours(b.out)
    BY <1>1, <1>3, <2>1, Push1Settles
  <2> QED BY <2>2
<1>5. /\ asm'.pending = b.pending /\ asm'.out = b.out /\ asm'.dropped = b.dropped
      /\ asm'.filled = asm.filled /\ asm'.capped = asm.capped
      /\ asm'.haveLast = TRUE /\ asm'.lastT = call.t /\ asm'.lastSN = call.frameSN
  BY <1>2, <1>4 DEF Assembler, Same
<1>6. call # NoCall
  <2>1. NoCall.left = -1
    BY DEF NoCall
  <2> QED BY <1>2, <2>1
<1>7. Pushed' = Pushed + 1 /\ Pushed \in Nat
  <2>1. received \in Nat /\ received' = received + 1
    BY <1>1, <1>2
  <2>2. asm.filled \in Nat /\ asm'.filled = asm.filled
    BY <1>1, <1>5
  <2> QED BY <2>1, <2>2 DEF Pushed
<1>8. NothingYet'
  BY <1>5 DEF NothingYet
<1>9. ASSUME Straight' PROVE \E d \in Int : InTime(d)'
  <2>1. Straight
    BY <1>5, <1>9, FramesRest DEF Straight
  <2>2. PICK d \in Int : InTime(d)
    BY <2>1 DEF TimeInv
  <2>3. Pushing(d) /\ RowIn(asm, pendSFs) /\ VoicesIn(asm, pendSFs, d)
    BY <1>6, <2>2 DEF InTime
  <2>4. call.voice = Pushed + 1 + d /\ call.voice \in FrameNos /\ call.frameSN = SerialOf(call.voice)
    BY <1>2, <1>7, <2>3 DEF Pushing
  \* A second half comes just when a first one waits, or this is the first frame.
  <2>5. \/ asm.pending # <<>> <=> call.frameSN = 1
        \/ asm.pending = <<>> /\ asm.out = <<>> /\ pendSFs = <<>>
    <3>1. CASE asm.haveLast
      <4> PICK m : m = Pushed + d
        OBVIOUS
      <4>1. m \in Int /\ call.voice = m + 1
        BY <1>7, <2>4
      <4>2. SerialOf(m + 1) = 1 - SerialOf(m)
        BY <4>1, NextSerial
      <4>3. call.sn = SerialOf(m) /\ (asm.pending # <<>> <=> call.sn = 0)
        BY <2>3, <3>1 DEF Pushing, After
      <4>4. call.frameSN = 1 - call.sn
        BY <2>4, <4>1, <4>2, <4>3
      <4>5. call.frameSN = 1 <=> call.sn = 0
        BY <1>1, <4>4 DEF SN
      <4> QED BY <4>3, <4>5
    <3>2. CASE ~asm.haveLast
      BY <3>2 DEF TimeInv, NothingYet
    <3> QED BY <3>1, <3>2
  <2>6. /\ RowIn(b, pendSFs) /\ VoicesIn(b, pendSFs, d)
        /\ b.pending # <<>> <=> call.frameSN = 0
    BY <1>1, <1>3, <2>3, <2>4, <2>5, PushInTime
  <2>7. RowIn(asm', pendSFs') /\ VoicesIn(asm', pendSFs', d)
    BY <1>2, <1>5, <2>6 DEF RowIn, VoicesIn
  <2>8. Resting(d)'
    <3>1. Pushed' + d = call.voice
      BY <1>7, <2>4
    <3>2. DatedAs(call.t, call.voice) /\ Ahead(call.voice)
      BY <2>3 DEF Pushing
    <3>3. (DatedAs(asm.lastT, Pushed + d))'
      BY <1>5, <3>1, <3>2 DEF DatedAs, At, blockVars
    <3>4. (Ahead(Pushed + d))'
      BY <3>1, <3>2 DEF Ahead, blockVars
    <3>5. (After(Pushed + d, asm.lastSN))'
      BY <1>5, <2>4, <2>6, <3>1 DEF After, SerialOf
    <3> QED BY <2>4, <3>1, <3>3, <3>4, <3>5 DEF Resting
  <2> QED BY <1>2, <2>7, <2>8 DEF InTime, RowIn, InRow, VoicesIn, Voiced, VoiceAt
<1> QED BY <1>8, <1>9, FramesRest DEF TimeInv

\* Two rows of superframes, one after the other.
LEMMA RowsJoin ==
    ASSUME NEW p \in Seq(Superframe), NEW q \in Seq(Superframe), NEW from \in Int, NEW d \in Int,
           InRow(p, from), InRow(q, 2 * Len(p) + from), Voiced(p, d), Voiced(q, d)
    PROVE  InRow(p \o q, from) /\ Voiced(p \o q, d)
<1> DEFINE r == p \o q
<1>1. Join(p, q, r)
  BY Joined
<1> HIDE DEF r
<1>2. ASSUME NEW k \in DOMAIN r
      PROVE  /\ r[k][1].nth = from + 2 * k - 1
             /\ VoiceAt(r[k][1], d) /\ VoiceAt(r[k][2], d)
  <2>1. CASE k \in DOMAIN p
    BY <1>1, <2>1 DEF Join, InRow, Voiced
  <2>2. CASE k \notin DOMAIN p
    <3>1. k - Len(p) \in DOMAIN q /\ r[k] = q[k - Len(p)] /\ Len(p) \in Nat /\ k \in Int
      BY <1>1, <2>2 DEF Join
    <3>2. /\ q[k - Len(p)][1].nth = 2 * Len(p) + from + 2 * (k - Len(p)) - 1
          /\ VoiceAt(q[k - Len(p)][1], d) /\ VoiceAt(q[k - Len(p)][2], d)
      BY <3>1 DEF InRow, Voiced
    <3>3. 2 * Len(p) + from + 2 * (k - Len(p)) - 1 = from + 2 * k - 1
      BY <3>1
    <3> QED BY <3>1, <3>2, <3>3
  <2> QED BY <2>1, <2>2
<1> QED BY <1>2 DEF r, InRow, Voiced

\* The caller takes superframes.
LEMMA TakeInTime ==
    ASSUME AsmInv, TimeInv, TakeSuperframes, UNCHANGED blockVars
    PROVE  TimeInv'
<1>1. /\ asm \in Assembler /\ asm.out \in Seq(Superframe) /\ pendSFs \in Seq(Superframe)
      /\ asm.dropped \in Nat
  BY DEF AsmInv, AsmTypeOK, Assembler
<1>2. /\ call = NoCall /\ call' = NoCall /\ received' = received /\ asm.out # <<>>
      /\ asm' = [asm EXCEPT !.out = <<>>] /\ pendSFs' = pendSFs \o asm.out
  BY DEF TakeSuperframes
<1>3. /\ asm'.pending = asm.pending /\ asm'.out = <<>> /\ asm'.dropped = asm.dropped
      /\ asm'.filled = asm.filled /\ asm'.capped = asm.capped
      /\ asm'.haveLast = asm.haveLast /\ asm'.lastT = asm.lastT /\ asm'.lastSN = asm.lastSN
  BY <1>1, <1>2 DEF Assembler
<1>4. asm.haveLast
  BY <1>2 DEF TimeInv, NothingYet
<1>5. NothingYet'
  BY <1>3, <1>4 DEF NothingYet
<1>6. Pushed' = Pushed
  BY <1>2, <1>3 DEF Pushed
<1>7. ASSUME Straight' PROVE \E d \in Int : InTime(d)'
  <2>1. Straight
    BY <1>3, <1>7, FramesRest DEF Straight
  <2>2. PICK d \in Int : InTime(d)
    BY <2>1 DEF TimeInv
  <2>3. Resting(d) /\ RowIn(asm, pendSFs) /\ VoicesIn(asm, pendSFs, d)
    BY <1>2, <2>2 DEF InTime
  <2>4. InRow(pendSFs', asm.dropped) /\ Voiced(pendSFs', d)
    BY <1>1, <1>2, <2>3, RowsJoin DEF RowIn, VoicesIn
  <2>5. RowIn(asm', pendSFs') /\ VoicesIn(asm', pendSFs', d)
    BY <1>3, <2>3, <2>4 DEF RowIn, InRow, VoicesIn, Voiced
  <2>6. Resting(d)'
    <3>1. /\ Pushed + d \in FrameNos /\ DatedAs(asm.lastT, Pushed + d)
          /\ After(Pushed + d, asm.lastSN) /\ Ahead(Pushed + d)
      BY <1>4, <2>3 DEF Resting
    <3>2. (DatedAs(asm.lastT, Pushed + d))'
      BY <1>3, <1>6, <3>1 DEF DatedAs, At, blockVars
    <3>3. (Ahead(Pushed + d))'
      BY <1>6, <3>1 DEF Ahead, blockVars
    <3>4. (After(Pushed + d, asm.lastSN))'
      BY <1>3, <1>6, <3>1 DEF After, SerialOf
    <3> QED BY <1>6, <3>1, <3>2, <3>3, <3>4 DEF Resting
  <2> QED BY <1>2, <2>5, <2>6 DEF InTime, RowIn, InRow, VoicesIn, Voiced, VoiceAt
<1> QED BY <1>5, <1>7, FramesRest DEF TimeInv

LEMMA TimeInit == Init => TimeInv
<1> SUFFICES ASSUME Init PROVE TimeInv
  OBVIOUS
<1>1. /\ frames = <<>> /\ air.given = <<>> /\ asm.out = <<>> /\ asm.pending = <<>>
      /\ asm.haveLast = FALSE /\ asm.filled = 0 /\ asm.dropped = 0
      /\ pendSFs = <<>> /\ received = 0 /\ call = NoCall
  BY DEF Init, BlockInit, AsmInit
<1>2. FramesDated /\ GivenGrows
  BY <1>1 DEF FramesDated, GivenGrows, Growing, WaitGrowing
<1>3. NothingYet
  BY <1>1 DEF NothingYet
<1>4. InTime(0)
  BY <1>1 DEF InTime, RowIn, InRow, VoicesIn, Voiced, Resting
<1> QED BY <1>2, <1>3, <1>4 DEF TimeInv

LEMMA TimesKeep == BlockInv /\ AsmInv /\ TimeInv /\ [Next]_vars => TimeInv'
<1> SUFFICES ASSUME BlockInv, AsmInv, TimeInv, [Next]_vars PROVE TimeInv'
  OBVIOUS
<1>0. AsmInv'
  <2>1. [AsmNext]_asmVars
    BY AssemblerSteps
  <2> QED BY <2>1, StepKeeps
<1>1. CASE Samples
  BY <1>1, SamplesInTime DEF Samples
<1>2. CASE HandleVoice
  BY <1>2, VoiceInTime
<1>3. CASE HandleOther
  BY <1>3, OtherInTime
<1>4. CASE Fill /\ UNCHANGED blockVars
  BY <1>0, <1>4, FillInTime
<1>5. CASE Accept /\ UNCHANGED blockVars
  BY <1>5, AcceptInTime
<1>6. CASE TakeSuperframes /\ UNCHANGED blockVars
  BY <1>6, TakeInTime
<1>7. CASE UNCHANGED vars
  BY <1>7, NothingComes DEF vars, blockVars
<1> QED BY <1>1, <1>2, <1>3, <1>4, <1>5, <1>6, <1>7 DEF Next, Assemble

\* In time, every voice is as far from the start of the superframes as on the air.
LEMMA InTimeIsKept == ASSUME AsmInv, TimeInv PROVE TimeKept
<1> SUFFICES ASSUME Straight, NEW p \in 1 .. 2 * Len(Made), NEW q \in 1 .. 2 * Len(Made),
                    Played(p) # Lost, Played(q) # Lost
             PROVE  Played(p) - Played(q) = p - q
  BY DEF TimeKept, Straight
<1>1. PICK d \in Int : InTime(d)
  BY DEF TimeInv
<1>2. /\ asm.out \in Seq(Superframe) /\ pendSFs \in Seq(Superframe) /\ asm.dropped \in Nat
      /\ Neighbours(pendSFs) /\ Neighbours(asm.out)
  BY DEF AsmInv, AsmTypeOK, Assembler
<1>3. Made \in Seq(Superframe) /\ Len(Made) \in Nat /\ DOMAIN Made = 1 .. Len(Made)
  BY <1>2 DEF Made
<1>4. InRow(Made, asm.dropped) /\ Voiced(Made, d)
  BY <1>1, <1>2, RowsJoin DEF Made, InTime, RowIn, VoicesIn
<1>5. Neighbours(Made)
  BY <1>2, NeighboursConcat DEF Made
<1>6. ASSUME NEW x \in 1 .. 2 * Len(Made), Played(x) # Lost
      PROVE  Played(x) = asm.dropped + x + d
  <2> PICK k : k = (x + 1) \div 2
    OBVIOUS
  <2>1. k \in 1 .. Len(Made) /\ k \in DOMAIN Made /\ k \in Int /\ x \in Int
    BY <1>3
  <2>2. /\ Made[k][1].nth = asm.dropped + 2 * k - 1 /\ Made[k][2].nth = Made[k][1].nth + 1
        /\ VoiceAt(Made[k][1], d) /\ VoiceAt(Made[k][2], d)
    BY <1>4, <1>5, <2>1 DEF InRow, Voiced, Neighbours
  <2>3. CASE x % 2 = 1
    <3>1. x = 2 * k - 1 /\ 2 - (x % 2) = 1
      BY <2>1, <2>3
    <3>2. Played(x) = Made[k][1].voice
      BY <3>1 DEF Played
    <3>3. Made[k][1].nth = asm.dropped + x
      <4>1. asm.dropped \in Int /\ k \in Int
        BY <1>2, <2>1
      <4>2. asm.dropped + 2 * k - 1 = asm.dropped + x
        BY <3>1, <4>1
      <4> QED BY <2>2, <4>2
    <3>4. Made[k][1].voice = Made[k][1].nth + d
      BY <1>6, <2>2, <3>2 DEF VoiceAt
    <3> QED BY <3>2, <3>3, <3>4
  <2>4. CASE x % 2 = 0
    <3>1. x = 2 * k /\ 2 - (x % 2) = 2
      BY <2>1, <2>4
    <3>2. Played(x) = Made[k][2].voice
      BY <3>1 DEF Played
    <3>3. Made[k][2].nth = asm.dropped + x
      <4> PICK u : u = Made[k][1].nth
        OBVIOUS
      <4>1. u = asm.dropped + 2 * k - 1 /\ Made[k][2].nth = u + 1
        BY <2>2
      <4>2. u + 1 = asm.dropped + x
        <5>1. asm.dropped \in Int /\ k \in Int
          BY <1>2, <2>1
        <5> QED BY <3>1, <4>1, <5>1
      <4> QED BY <4>1, <4>2
    <3>4. Made[k][2].voice = Made[k][2].nth + d
      BY <1>6, <2>2, <3>2 DEF VoiceAt
    <3> QED BY <3>2, <3>3, <3>4
  <2> QED BY <2>1, <2>3, <2>4
<1>7. Played(p) = asm.dropped + p + d /\ Played(q) = asm.dropped + q + d
  BY <1>6
<1> QED BY <1>2, <1>7

-----------------------------------------------------------------------------
(* Theorems.                                                               *)

\* Types, lengths of blocks, bins and frames tried hold together in every state of
\* the receiver.
THEOREM BlockInvariant == Spec => []BlockInv
<1>1. Init => BlockInv
  BY InitBlock DEF Init
<1> QED BY <1>1, BlocksKeep, PTL DEF Spec

\* Feed, Flush and PinScramble (decoder.go) never let a frame fall between two
\* blocks, though the length of a block changes while samples wait.
THEOREM NothingEverSkipped == Spec => []NothingSkipped
<1>1. BlockInv => NothingSkipped
  BY DEF BlockInv
<1> QED BY <1>1, BlockInvariant, PTL

\* The bins of half a frame (markNew) never take a frame for another: what is found
\* is given.
THEOREM FoundAlwaysGiven == Spec => []FoundIsGiven
<1>1. BlockInv => FoundIsGiven
  BY DEF BlockInv
<1> QED BY <1>1, BlockInvariant, PTL

\* The receiver uses the assembler as Superframes says it may be used.
THEOREM FeedsAssembler == Spec => AsmSpec
<1>1. Init => AsmInit
  BY DEF Init
<1> QED BY <1>1, AssemblerSteps, BlockInvariant, PTL DEF Spec, AsmSpec

\* So in the receiver, too, every voice frame is in a superframe, waits, or is
\* counted as dropped (amrwbp.go).
THEOREM ReceiverAccounts == Spec => []FramesAccounted
BY FeedsAssembler, EveryFrameAccounted, PTL

\* Decoder and assembler keep their types.
THEOREM ReceiverTypes == Spec => []TypeOK
<1>1. BlockInv /\ AsmTypeOK => TypeOK
  BY DEF BlockInv, TypeOK
<1> QED BY <1>1, BlockInvariant, FeedsAssembler, AssemblerTypes, PTL

\* A frame is given at most once for each bin its time may fall into, and none late
\* but one that was missed or whose bin is not sure (markNew and the sort by time).
THEOREM GivenInvariant == Spec => []GivenInv
<1>1. Init => GivenInv
  BY GivenInit DEF Init
<1> QED BY <1>1, GivensKeep, BlockInvariant, PTL DEF Spec

\* The frames of the blocks (decoder.go Feed, Flush, decodeAt): none falls between
\* two blocks, one that was found is given, once or, at the edge of a bin, twice, and
\* late only if it was missed at first.
THEOREM ReceiverFrames == Spec => []FramesInv
<1>1. BlockInv /\ GivenInv => NothingSkipped /\ FoundIsGiven /\ LateOnlyIfMissed
  BY DEF BlockInv, GivenInv
<1>2. BlockInv /\ GivenInv => OncePerFrame
  <2> SUFFICES ASSUME BlockInv, GivenInv, NEW n \in FrameNos
               PROVE  GivenTimes(n) <= IF Steady(n) THEN 1 ELSE 2
    BY DEF OncePerFrame
  <2> DEFINE size == Cardinality(BinsOf(n) \cap dec.seen)
  <2>1. size \in Nat /\ size <= IF Steady(n) THEN 1 ELSE 2
    BY FewBins
  <2>2. GivenTimes(n) <= size
    BY DEF GivenInv, OncePerBin
  <2>3. GivenTimes(n) \in Int
    BY GivenTimesType
  <2> HIDE DEF size
  <2> QED BY <2>1, <2>2, <2>3
<1>3. TypeOK /\ NothingSkipped /\ FoundIsGiven /\ OncePerFrame /\ LateOnlyIfMissed
          => FramesInv
  BY DEF FramesInv
<1> QED BY <1>1, <1>2, <1>3, BlockInvariant, GivenInvariant, ReceiverTypes, PTL

\* What waits, was pushed and is under way lies on the grid of the air.
THEOREM TimeInvariant == Spec => []TimeInv
<1> QED BY TimeInit, TimesKeep, BlockInvariant, FeedsAssembler, AsmInvariant, PTL DEF Spec

\* The sound keeps the time of the air (Push of amrwbp.go fed by decoder.go): while
\* frames come in order and no gap is longer than MaxGapFrames, two radio frames in
\* the superframes are as far from one another as on the air, for every length of
\* frame and block, every input and every fault.
THEOREM SoundKeepsTime == Spec => []TimeKept
<1> QED BY InTimeIsKept, TimeInvariant, FeedsAssembler, AsmInvariant, PTL
=============================================================================
