----------------------------- MODULE ControlCodes -----------------------------
(* The codes around a control slot of std-t86 (fec/scrambler.go, fec/crc.go,      *)
(* fec/seedsearch.go, control/cac.go): the noise a seed scrambles with, the       *)
(* syndrome by which seeds are told apart before anything is decoded, and the     *)
(* CRC.  A string of bits is the set of the places of its ones, from 0; a         *)
(* register or a polynomial is the set of the weights of its ones.  The state is  *)
(* the scrambler's register as it is clocked: it runs through all the seeds, and  *)
(* the noise of a seed is what it gives from there on.                            *)
EXTENDS Naturals, Sequences, FiniteSets, SequencesExt
CONSTANTS CACLen,     \* coded bits of a control slot, 256
          PayloadLen, \* bits of its payload, 104
          G1, G2      \* the polynomials of the control code, 53 and 75 octal

VARIABLES reg, \* the register of LFSRPN, nine bits
          pn,  \* the noise it gave so far
          k,   \* how often it was clocked
          rems \* the CRC's register after a one and then zeros, clock by clock
noiseVars == <<reg, pn, k, rems>>

Odd(T) == Cardinality(T) % 2 = 1
Xor(A, B) == (A \ B) \cup (B \ A)

\* One clock of LFSRPN: right by one, bits 0 and 4 fed back.
Clocked(r) == {b - 1 : b \in r \ {0}} \cup (IF Odd(r \cap {0, 4}) THEN {8} ELSE {})

\* ControlConvEncode: two coded bits for each bit and each of the five of the tail.
ConvEncode(input) ==
    {2 * i : i \in {n \in 0..CACLen \div 2 - 1 : Odd({t \in G1 : t <= n /\ n - t \in input})}}
    \cup {2 * i + 1 : i \in {n \in 0..CACLen \div 2 - 1 : Odd({t \in G2 : t <= n /\ n - t \in input})}}

\* Slip: each coded bit is checked by its own polynomial.
SyndromeUncrossed(cac) ==
    {i \in 0..CACLen \div 2 + 4 :
        Odd({<<1, t>> : t \in {u \in G1 : u <= i /\ 2 * (i - u) \in cac}}
            \cup {<<2, t>> : t \in {u \in G2 : u <= i /\ 2 * (i - u) + 1 \in cac}})}

\* syndromeOf: each coded bit times the polynomial of the other.
Syndrome(cac) ==
    {i \in 0..CACLen \div 2 + 4 :
        Odd({<<2, t>> : t \in {u \in G2 : u <= i /\ 2 * (i - u) \in cac}}
            \cup {<<1, t>> : t \in {u \in G1 : u <= i /\ 2 * (i - u) + 1 \in cac}})}

Up(r) == {b + 1 : b \in r \ {15}}

\* CRC16CCITT, one bit into the register: x^16 + x^12 + x^5 + 1.
ShiftIn(r, one) ==
    IF (15 \in r) # one THEN Xor(Up(r), {0, 5, 12}) ELSE Up(r)

\* ExtractCAC: the place in the slot of each coded bit; four bits of pilot are left out.
ExtractCAC(offset) == [i \in 0..CACLen - 1 |-> offset + i + (IF i < 232 THEN 0 ELSE 4)]

\* The fields of a FACCH message (ParseFACCHMessage): first and last bit.
NotifyFields ==
    {<<8, 8>>, <<9, 15>>, <<16, 47>>, <<48, 51>>, <<52, 55>>, <<56, 71>>, <<72, 87>>,
     <<88, 103>>, <<104, 119>>, <<120, 231>>}

-----------------------------------------------------------------------------
NoiseInit == reg = {0} /\ pn = {} /\ k = 0 /\ rems = <<{0}>>

\* LFSRPN, one bit: the lowest of the register is given before it is clocked.
Clock ==
    /\ k < 511 + CACLen
    /\ pn' = pn \cup (IF 0 \in reg THEN {k} ELSE {})
    /\ reg' = Clocked(reg)
    /\ k' = k + 1
    /\ rems' = IF k < PayloadLen + 15 THEN Append(rems, ShiftIn(Last(rems), FALSE)) ELSE rems

NoiseSpec == NoiseInit /\ [][Clock]_noiseVars

\* The noise that started CACLen clocks ago, from the seed that was in the register.
Noise == {n - (k - CACLen) : n \in {m \in pn : m >= k - CACLen}}

\* Descramble, and Scramble, which is the same.
Descramble(input, noise) == Xor(input, noise)

NoiseTypeOK ==
    /\ \A i \in DOMAIN rems : rems[i] \subseteq 0..15
    /\ reg \subseteq 0..8 /\ pn \subseteq 0..510 + CACLen /\ k \in 0..511 + CACLen

\* Whether the CRC of what DecodeCAC decodes is still good with these bits of payload
\* and CRC turned over: what each changes in the register must cancel out.
CRCOK(turned) ==
    \A b \in 0..15 : ~Odd({i \in turned : i < PayloadLen + 16 /\ b \in rems[PayloadLen + 16 - i]})

\* The bits whose code a codeword is: x^4 + x + 1 times
\* G1 and x^4 + x^3 + x^2 times G2 are one.
InfoOf(codeword) ==
    {n \in 0..CACLen \div 2 - 1 :
        Odd({<<1, t>> : t \in {u \in {0, 1, 4} : u <= n /\ 2 * (n - u) \in codeword}}
            \cup {<<2, t>> : t \in {u \in {2, 3, 4} : u <= n /\ 2 * (n - u) + 1 \in codeword}})}

\* Every seed is on one cycle of the register, 511 clocks long, and none stands
\* still; the seed a slot was scrambled with is the lightest of all.  The syndromes of two
\* seeds differ in the ends of the slot only, so that damage between them adds the
\* same to each; and those of a few seeds do not differ at all: the noise between
\* them is a codeword, but not one with a CRC, so that only one of them passes
\* (LFSRPN, syndromeOf, Push, DecodeCAC).
SeedsToldApart ==
    /\ reg # {} /\ (reg = {0} <=> k \in {0, 511})
    /\ k >= CACLen =>
        LET syn == Syndrome(Noise)
        IN /\ \A p \in {10, 11, CACLen \div 2, CACLen - 12, CACLen - 11} :
                Cardinality(Xor(syn, Syndrome({p}))) = Cardinality(syn) + Cardinality(Syndrome({p}))
           /\ syn = {} => ConvEncode(InfoOf(Noise)) = Noise /\ ~CRCOK(InfoOf(Noise))

\* A codeword has no syndrome, whatever bits it codes: of a scrambled slot only the
\* noise is left, and with the same noise the codeword comes back (ConvEncode,
\* Descramble, syndromeOf); one bit of the input at a time, the code being linear.
OnlyNoiseIsLeft ==
    k \in CACLen..CACLen + CACLen \div 2 - 6 =>
        LET sent == ConvEncode({k - CACLen})
            slot == Descramble(sent, Noise)
        IN Syndrome(slot) = Syndrome(Noise) /\ Descramble(slot, Noise) = sent

\* A slot with one damaged bit, or two, or a run of up to sixteen, does not pass its
\* CRC: what they change in the register does not cancel out (CRC16CCITT).
DamageFound ==
    LET n == Len(rems)
        run[i \in 0..Min({16, n})] == IF i = 0 THEN {} ELSE Xor(run[i - 1], rems[n - i + 1])
    IN /\ \A i \in 1..n - 1 : rems[i] # rems[n]
       /\ \A i \in 1..Min({16, n}) : run[i] # {}

\* A slot's coded bits are apart from each other and from the pilot, and end within
\* the slot; the fields of a message share no bit and leave none out.
SlotLaidOut ==
    LET places == ExtractCAC(320)
    IN /\ k < CACLen => /\ \A i \in 0..k - 1 : places[i] < places[k]
                        /\ places[k] < 600 /\ places[k] \notin 552..555
       /\ k \in 8..231 => Cardinality({f \in NotifyFields : k \in f[1]..f[2]}) = 1
=============================================================================
