------------------------------ MODULE VoiceFrame ------------------------------
(* A voice frame of std-t86 on the air (scodec/transmission.go): which bit of the *)
(* frame goes where in the 512 bits of a TCH slot and where the decoder looks for *)
(* it, and what the CRC of its protected half finds.  There are two layouts, that *)
(* of the standard and that of the stations received ("OTA").  The code between   *)
(* them is ConvCode's.  The state goes through the places of a slot one by one,   *)
(* and clocks the CRC's register along.                                           *)
EXTENDS Integers, Sequences, FiniteSets, SequencesExt

TCHBits == 512
NUnprotected == 130
NProtected == 190
CodedLen == 408
PuncLen == 382
CVinLen == 197

VARIABLES at,  \* the place looked at
          rems \* the register of CRC7OTA after a one and then zeros
frameVars == <<at, rems>>

Xor(A, B) == (A \ B) \cup (B \ A)

\* A zero into the register of CRC7OTA: x^7 + x^5 + x^3 + 1; the divisor of CRC7 too.
ShiftIn(r) ==
    IF 6 \in r THEN Xor({b + 1 : b \in r \ {6}}, {0, 3, 5}) ELSE {b + 1 : b \in r}

-----------------------------------------------------------------------------
(* Interleaving and puncturing.                                               *)

\* ilSrc: where in the frame the bit comes from that is sent at place i.
IlSrc(i) == 8 * i - (i \div 64) * 510 - (i \div 256) * 7

\* specDeint: its inverse.
SpecDeint(v) == CHOOSE j \in 0..TCHBits - 1 : IlSrc(j) = v

Rotl9(x, r) == ((x * 2^r) % 512) + x \div 2^(9 - r)

\* Exclusive or with three.
Flip3(x) == x - (x % 4) + (3 - (x % 4))

\* The place the standard's place j is in the stations' slots.
SentAt(j) == Flip3(Rotl9(j, 2))

\* Deinterleave: where the stations send bit i of the frame.
Deinterleave(i) == SentAt(SpecDeint(i))

\* Slip: the punctured bits are one place off.
PunctureLate(i) == i + (i + 9) \div 15

\* Puncture: the coded bit that is the i-th of those sent.
Puncture(i) == i + (i + 10) \div 15

PuncturePos(j) == j % 16 = 5

\* Depuncture: which of the bits received is coded bit j; the punctured are erased.
Depuncture(j) == Cardinality({h \in 0..j - 1 : ~PuncturePos(h)})

\* The slot's places of coded bit j as the encoders fill them (TransmissionEncode,
\* TransmissionEncodeOTA): none if it is punctured.
SpecPlaces(j) ==
    {p \in 0..TCHBits - 1 :
        LET i == IlSrc(p) - NUnprotected IN i >= 0 /\ Puncture(i) = j}
OTAPlaces(j) ==
    {Deinterleave(NUnprotected + i) : i \in {h \in 0..PuncLen - 1 : Puncture(h) = j}}

\* Where the decoders read it (TransmissionDecode, TransmissionDecodeOTA).
SpecRead(j) == IF PuncturePos(j) THEN {} ELSE {SpecDeint(NUnprotected + Depuncture(j))}
OTARead(j) == IF PuncturePos(j) THEN {} ELSE {Deinterleave(NUnprotected + Depuncture(j))}

-----------------------------------------------------------------------------
(* The protected bits and their CRC.                                          *)

\* cvinFromPayload, cvinToPayload: what is at place x of the code's input.
Cvin(x) ==
    IF x < 4 THEN <<"crc", x>>
    ELSE IF x < 99 THEN <<"bit", 2 * x - 8>>
    ELSE IF x < 194 THEN <<"bit", 2 * x - 197>>
    ELSE <<"crc", x - 190>>

\* The same of TransmissionEncodeOTA and TransmissionDecodeOTA.
InfoOTA(x) ==
    IF x < 3 THEN <<"crc", x>>
    ELSE IF x < 98 THEN <<"bit", 2 * (x - 3)>>
    ELSE IF x < 193 THEN <<"bit", 2 * (x - 98) + 1>>
    ELSE <<"crc", x - 190>>

\* What a damaged bit at place x of the code's input changes in the comparison of the
\* CRCs.  CRC7 divides the payload, its first bit the lowest, shifted by nine; CRC7OTA
\* shifts in the places 3 to 192 as they are, and seven zeros.
SpecChange(x) == rems[1 + IF Cvin(x)[1] = "crc" THEN Cvin(x)[2] ELSE 9 + Cvin(x)[2]]
OTAChange(x) == rems[1 + IF InfoOTA(x)[1] = "crc" THEN InfoOTA(x)[2] ELSE 7 + 192 - x]

Changes(change(_), damaged) ==
    {b \in 0..6 : Cardinality({x \in damaged : b \in change(x)}) % 2 = 1}

-----------------------------------------------------------------------------
FrameInit == at = 0 /\ rems = <<{0}>>

NextPlace ==
    /\ at < TCHBits - 1
    /\ at' = at + 1
    /\ rems' = IF at < 199 THEN Append(rems, ShiftIn(Last(rems))) ELSE rems

FrameSpec == FrameInit /\ [][NextPlace]_frameVars

FrameTypeOK == at \in 0..TCHBits - 1 /\ \A i \in DOMAIN rems : rems[i] \subseteq 0..6

\* Every bit of the air slot is one bit of the frame, in both layouts, and the
\* decoder looks for every coded bit where the encoder put it, and takes for
\* erased just the bits that were not sent: the encoder skips them by a formula, the
\* decoder by a table (Puncture, Depuncture, puncturePos, ilSrc, Deinterleave).
CodedBitsFound ==
    /\ Cardinality({i \in 0..TCHBits - 1 : IlSrc(i) = at}) = 1
    /\ Cardinality({j \in 0..TCHBits - 1 : SentAt(j) = at}) = 1
    /\ at < CodedLen => SpecRead(at) = SpecPlaces(at) /\ OTARead(at) = OTAPlaces(at)

\* Every bit of the payload and of the CRC has one place in the input of the code.
PayloadPlaced ==
    LET all == {<<"bit", i>> : i \in 0..NProtected - 1} \cup {<<"crc", i>> : i \in 0..6}
    IN at < CVinLen => /\ Cvin(at) \in all /\ InfoOTA(at) \in all
                       /\ \A x \in 0..at - 1 : Cvin(x) # Cvin(at) /\ InfoOTA(x) # InfoOTA(at)

\* A run of damaged bits out of the Viterbi decoder does not pass for a good frame:
\* up to six bits long in the stations' layout, up to four in the standard's, whatever
\* in between is damaged, the CRC's own bits at both ends included (CRC7, CRC7OTA).
RunsFound ==
    at >= 200 /\ at - 200 < CVinLen =>
        LET run(n) == {{at - 200} \cup rest :
                rest \in SUBSET {x \in at - 199..at - 201 + n : x < CVinLen}}
        IN /\ \A damaged \in run(6) : Changes(OTAChange, damaged) # {}
           /\ \A damaged \in run(4) : Changes(SpecChange, damaged) # {}
=============================================================================
