------------------------------ MODULE Superframes ------------------------------
(***************************************************************************)
(* amrwbp.Assembler (internal/std-t115/qpsknarrow/amrwbp/amrwbp.go): pairs   *)
(* of radio frames, told apart by a serial number of one bit, become super-  *)
(* frames of the voice decoder; radio frames missing between two pushes are  *)
(* filled in, so that the sound keeps its time.                              *)
(*                                                                         *)
(* Push is a call with a loop in it: Push begins it, Fill is one turn of the *)
(* loop, Accept pushes the frame itself.  Abstracted: a radio frame carries  *)
(* two payloads of 30 bytes, which stay together; it is known by its number  *)
(* on the air, Lost for one that was filled in.                              *)
(***************************************************************************)
EXTENDS Integers, Sequences

CONSTANTS
    Period,   \* RadioFrameSec, in units of time
    MaxGap,   \* MaxGapFrames (63)
    Times,    \* moments at which frames may have been received
    Voices    \* numbers of frames on the air, positive

ASSUME SuperframeConstants ==
    /\ Period \in Nat \ {0} /\ MaxGap \in Nat
    /\ Times \subseteq Int /\ Voices \subseteq Nat \ {0}

VARIABLES
    asm,       \* the Assembler
    call,      \* the Push under way
    pendSFs,   \* what Superframes() has returned
    received,  \* number of frames pushed (history)
    missed     \* number of frames found missing before them (history)

asmVars == <<asm, call, pendSFs, received, missed>>

Lost == 0
SN == {0, 1}

\* A radio frame in a superframe; "nth" counts what push1 was given.
Half == [voice : Voices \cup {Lost}, nth : Nat]
Superframe == Half \X Half

Assembler ==
    [pending : Seq(Half), out : Seq(Superframe), dropped : Nat,
     haveLast : BOOLEAN, lastT : Int, lastSN : SN, filled : Nat, capped : Nat]

NoCall == [left |-> -1, sn |-> 0, t |-> 0, frameSN |-> 0, voice |-> Lost]
Calls == [left : Int, sn : SN, t : Int, frameSN : SN, voice : Voices \cup {Lost}]

AsmTypeOK ==
    /\ asm \in Assembler /\ Len(asm.pending) \in {0, 1}
    /\ call \in Calls /\ call.left \in -1 .. MaxGap
    /\ pendSFs \in Seq(Superframe)
    /\ received \in Nat /\ missed \in Nat

AsmInit ==
    /\ asm = [pending |-> <<>>, out |-> <<>>, dropped |-> 0, haveLast |-> FALSE,
              lastT |-> 0, lastSN |-> 0, filled |-> 0, capped |-> 0]
    /\ call = NoCall
    /\ pendSFs = <<>>
    /\ received = 0 /\ missed = 0

-----------------------------------------------------------------------------
(* math.Round: to the nearest, halves away from zero.                      *)

RoundDiv(a, b) ==
    IF a >= 0 THEN (2 * a + b) \div (2 * b) ELSE -((b - 2 * a) \div (2 * b))

\* Slip: the time between two frames is cut off instead of rounded.
MissingCutOff(a, t) ==
    LET m == (t - a.lastT) \div Period - 1
    IN IF a.haveLast /\ m > 0 THEN m ELSE 0

\* Frames that should have come since the last one.
MissingBefore(a, t) ==
    LET m == RoundDiv(t - a.lastT, Period) - 1
    IN IF a.haveLast /\ m > 0 THEN m ELSE 0

\* Frames filled in for those missing.
FillCount(miss) == IF miss > MaxGap THEN MaxGap ELSE miss

\* push1: 0 begins a superframe, 1 completes it; a frame without its partner
\* is dropped.
Begin(a, half) ==
    [a EXCEPT !.pending = <<half>>,
              !.dropped = @ + (IF a.pending # <<>> THEN 1 ELSE 0)]

Complete(a, half) ==
    IF a.pending = <<>>
    THEN [a EXCEPT !.dropped = @ + 1]
    ELSE [a EXCEPT !.out = Append(@, <<a.pending[1], half>>), !.pending = <<>>]

Nth(a) == received + a.filled + 1

\* Slip: a first half whose partner never came is overwritten uncounted.
Push1Unpaired(a, sn, voice) ==
    LET half == [voice |-> voice, nth |-> Nth(a)]
    IN IF sn = 0 THEN [a EXCEPT !.pending = <<half>>] ELSE Complete(a, half)

Push1(a, sn, voice) ==
    LET half == [voice |-> voice, nth |-> Nth(a)]
    IN IF sn = 0 THEN Begin(a, half) ELSE Complete(a, half)

-----------------------------------------------------------------------------
(* Push.                                                                   *)

Push(t, sn, voice) ==
    /\ call = NoCall
    /\ LET miss == MissingBefore(asm, t)
           fill == FillCount(miss)
       IN /\ call' = [left |-> fill, sn |-> asm.lastSN, t |-> t,
                      frameSN |-> sn, voice |-> voice]
          /\ asm' = [asm EXCEPT !.capped = @ + (miss - fill)]
          /\ missed' = missed + miss
    /\ UNCHANGED <<pendSFs, received>>

Fill ==
    /\ call.left > 0
    /\ call' = [call EXCEPT !.left = @ - 1, !.sn = 1 - @]
    /\ asm' = [Push1(asm, 1 - call.sn, Lost) EXCEPT !.filled = @ + 1]
    /\ UNCHANGED <<pendSFs, received, missed>>

Accept ==
    /\ call.left = 0
    /\ asm' = [Push1(asm, call.frameSN, call.voice) EXCEPT
                 !.haveLast = TRUE, !.lastT = call.t, !.lastSN = call.frameSN]
    /\ call' = NoCall
    /\ received' = received + 1
    /\ UNCHANGED <<pendSFs, missed>>

\* Superframes: the caller takes what is complete.
TakeSuperframes ==
    /\ call = NoCall /\ asm.out # <<>>
    /\ asm' = [asm EXCEPT !.out = <<>>]
    /\ pendSFs' = pendSFs \o asm.out
    /\ UNCHANGED <<call, received, missed>>

AsmNext ==
    \/ \E t \in Times, sn \in SN, v \in Voices : Push(t, sn, v)
    \/ Fill \/ Accept \/ TakeSuperframes

AsmSpec == AsmInit /\ [][AsmNext]_asmVars

-----------------------------------------------------------------------------
(* Properties.                                                             *)

Made == pendSFs \o asm.out

\* Every radio frame, received or filled in, is in a superframe, waits for its
\* partner, or was counted as dropped (quality.VoiceDrop, VoiceFilled), and every
\* frame found missing was filled in or counted as capped.
FramesAccounted ==
    /\ received + asm.filled = 2 * (Len(pendSFs) + Len(asm.out))
                               + Len(asm.pending) + asm.dropped
    /\ missed = asm.filled + asm.capped + (IF call.left > 0 THEN call.left ELSE 0)

\* A superframe is made of two frames pushed one right after the other, however
\* serial numbers repeat or gaps of odd length turn them round.
PairsAreNeighbours ==
    \A k \in 1 .. Len(Made) : Made[k][2].nth = Made[k][1].nth + 1
=============================================================================
