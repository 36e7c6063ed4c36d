------------------------------ MODULE RateMatch ------------------------------
(***************************************************************************)
(* Rate matching of the T115 channels and the search for the scrambling    *)
(* word that lives on it (fec/ratematch.go, tch.go, scrambler.go,           *)
(* scramblesearch.go).                                                      *)
(*                                                                          *)
(* The control channel repeats some of its 348 turbo bits to fill 612, the *)
(* voice channel drops parity bits of 1572 to fit 804.  The scrambler's 16 *)
(* bit starting word is not known: the finder compares the two copies of   *)
(* every repeated bit, each of which says whether the scrambling sequence  *)
(* is equal at the two places, a linear equation on the word, and solves   *)
(* the equations by one Walsh transform over all 65536 words.  The loops   *)
(* of the code are the steps of the model.  Soft values are +1 and -1; a   *)
(* damaged pair has one wrong sign.                                        *)
(***************************************************************************)
EXTENDS Integers, Sequences, FiniteSets, FiniteSetsExt

CONSTANTS CCHTurboOut, CCHCodedBits,   \* the control channel: bits in, out
          TCHTurboOut, TCHCodedBits,   \* the voice channel: bits in, out
          MinConfidence,               \* percent: scrambleMinConfidence
          Stations,                    \* scrambling words on the air
          Damages                      \* 0: none, n: every n-th pair damaged

VARIABLES phase, i, e, src, e2, e3, txMap, regs, basis, pairs, masks, station, acc

rmVars == <<phase, i, e, src, e2, e3, txMap, regs, basis, pairs, masks, station, acc>>

Thirds == TCHTurboOut \div 3
Dropped2 == (TCHTurboOut - TCHCodedBits) \div 2
Dropped3 == (TCHTurboOut - TCHCodedBits) - Dropped2
Words == 0..65535
Rows == 0..255                                 \* the word's table, kept as 256 rows of 256
Axes == 0..15                                  \* bit b of a word has weight 2^(15-b)

RateInit ==
    /\ phase = "repeat" /\ i = 0
    /\ e = 1 /\ src = <<>> /\ e2 = Thirds /\ e3 = Thirds /\ txMap = <<>>
    /\ regs = [b \in Axes |-> 2^(15 - b)] /\ basis = [b \in Axes |-> <<>>]
    /\ pairs = <<>> /\ masks = <<>> /\ station = 0 /\ acc = <<>>

Copies(was, plus) == IF was > 0 THEN 1 ELSE 2 + ((-was) \div plus)

\* One turn of RepetitionPattern: the bit is sent once, and once more for
\* every time the error term must be lifted above zero.
RepetitionPattern ==
    /\ phase = "repeat"
    /\ LET plus == 2 * CCHTurboOut
           was == e - 2 * (CCHCodedBits - CCHTurboOut)
           n == Copies(was, plus)
       IN /\ e' = was + plus * (n - 1)
          /\ src' = src \o [j \in 1..n |-> i]
    /\ i' = (i + 1) % CCHTurboOut
    /\ phase' = IF i' = 0 THEN "puncture" ELSE phase
    /\ UNCHANGED <<e2, e3, txMap, regs, basis, pairs, masks, station, acc>>

Kept(was) == was > 0

Lifted(was, plus) == IF Kept(was) THEN was ELSE was + plus

\* One turn of TCHTxMap with its two PuncturePatterns: the systematic bit is
\* always sent, each parity bit unless its pattern drops it.
TCHTxMap ==
    /\ phase = "puncture"
    /\ LET was2 == e2 - 2 * Dropped2
           was3 == e3 - Dropped3
       IN /\ e2' = Lifted(was2, 2 * Thirds) /\ e3' = Lifted(was3, Thirds)
          /\ txMap' = txMap \o <<3 * i>>
                            \o (IF Kept(was2) THEN <<3 * i + 1>> ELSE <<>>)
                            \o (IF Kept(was3) THEN <<3 * i + 2>> ELSE <<>>)
    /\ i' = (i + 1) % Thirds
    /\ phase' = IF i' = 0 THEN "basis" ELSE phase
    /\ UNCHANGED <<e, src, regs, basis, pairs, masks, station, acc>>

Bit(reg, j) == (reg \div 2^(15 - j)) % 2

\* One clock of Scramble's register: what it sends is Bit(reg, 0).
Clocked(reg) == ((2 * reg) % 65536) + ((Bit(reg, 0) + Bit(reg, 2) + Bit(reg, 3) + Bit(reg, 5)) % 2)

\* scrambleBasis: the sequences of the sixteen words with one bit set.
ScrambleBasis ==
    /\ phase = "basis"
    /\ basis' = [b \in Axes |-> Append(basis[b], Bit(regs[b], 0))]
    /\ regs' = [b \in Axes |-> Clocked(regs[b])]
    /\ i' = (i + 1) % CCHCodedBits
    /\ phase' = IF i' = 0 THEN "pairs" ELSE phase
    /\ UNCHANGED <<e, src, e2, e3, txMap, pairs, masks, station, acc>>

\* One turn of cchRepetitionPairs: a place that repeats a bit is paired with the
\* first place of that bit.
RepetitionPairs ==
    /\ phase = "pairs"
    /\ LET first == CHOOSE q \in 0..i : /\ src[q + 1] = src[i + 1]
                                       /\ \A r \in 0..(q - 1) : src[r + 1] # src[i + 1]
       IN pairs' = IF first = i THEN pairs ELSE Append(pairs, <<first, i>>)
    /\ i' = (i + 1) % CCHCodedBits
    /\ phase' = IF i' = 0 THEN "masks" ELSE phase
    /\ UNCHANGED <<e, src, e2, e3, txMap, regs, basis, masks, station, acc>>

\* Slip: the word's bits in the wrong order.
WeightTurned(b) == 2^b

Weight(b) == 2^(15 - b)

WordOf(axes) == MapThenSumSet(Weight, axes)

\* NewScrambleFinder: a pair's mask has the word's bits that make the scrambling
\* sequence differ between its two places.
NewScrambleFinder ==
    /\ phase = "masks"
    /\ masks' = [n \in DOMAIN pairs |->
                    WordOf({b \in Axes : basis[b][pairs[n][1] + 1] # basis[b][pairs[n][2] + 1]})]
    /\ phase' = "idle"
    /\ basis' = [b \in Axes |-> <<>>] /\ regs' = [b \in Axes |-> 0]
    /\ UNCHANGED <<i, e, src, e2, e3, txMap, pairs, station, acc>>

\* A station comes on the air, and its scrambler runs over one burst.
OnAir(s) ==
    /\ phase = "idle" /\ station' = s
    /\ regs' = [b \in {0} |-> s] /\ basis' = [b \in {0} |-> <<>>]
    /\ phase' = "onair"
    /\ UNCHANGED <<i, e, src, e2, e3, txMap, pairs, masks, acc>>

Scramble ==
    /\ phase = "onair"
    /\ basis' = [b \in {0} |-> Append(basis[b], Bit(regs[b], 0))]
    /\ regs' = [b \in {0} |-> Clocked(regs[b])]
    /\ i' = (i + 1) % CCHCodedBits
    /\ phase' = IF i' = 0 THEN "heard" ELSE phase
    /\ UNCHANGED <<e, src, e2, e3, txMap, pairs, masks, station, acc>>

\* The weight of pair n: its copies agree, or not; a damaged one lies.
PairWeight(n, damage) ==
    LET same == basis[0][pairs[n][1] + 1] = basis[0][pairs[n][2] + 1]
        lies == damage > 0 /\ n % damage = 0
    IN IF same # lies THEN 1 ELSE -1

\* Add: the weight of every pair is added at its mask.
Add(damage) ==
    /\ phase = "heard"
    /\ LET WeightAt(m) == LET at == {n \in DOMAIN masks : masks[n] = m}
                              up == Cardinality({n \in at : PairWeight(n, damage) = 1})
                          IN 2 * up - Cardinality(at)
       IN \E hit \in {{masks[n] : n \in DOMAIN masks}} :
              acc' = [h \in Rows |-> [l \in Rows |->
                         IF 256 * h + l \in hit THEN WeightAt(256 * h + l) ELSE 0]]
    /\ phase' = "walsh" /\ i' = 0
    /\ basis' = <<>> /\ regs' = <<>>
    /\ UNCHANGED <<e, src, e2, e3, txMap, pairs, masks, station>>

Score(x, s) == x[s \div 256][s % 256]

\* One pass of walshHadamard.
WalshHadamard ==
    /\ phase = "walsh"
    /\ LET Butterfly(j, length) ==
               IF (j \div length) % 2 = 0 THEN Score(acc, j) + Score(acc, j + length)
               ELSE Score(acc, j - length) - Score(acc, j)
       IN \E length \in {2^i} :
              acc' = [h \in Rows |-> [l \in Rows |-> Butterfly(256 * h + l, length)]]
    /\ i' = i + 1
    /\ phase' = IF i' = 16 THEN "scored" ELSE phase
    /\ UNCHANGED <<e, src, e2, e3, txMap, regs, basis, pairs, masks, station>>

RateNext == \/ RepetitionPattern \/ TCHTxMap \/ ScrambleBasis \/ RepetitionPairs \/ NewScrambleFinder
            \/ \E s \in Stations : OnAir(s)
            \/ Scramble
            \/ \E d \in Damages : Add(d)
            \/ WalshHadamard

RateSpec == RateInit /\ [][RateNext]_rmVars

\* Best leaves word 0 out.
BestWord ==
    LET scores == {Score(acc, s) : s \in Words \ {0}}
        top == CHOOSE x \in scores : \A y \in scores : x >= y
    IN CHOOSE s \in Words \ {0} : Score(acc, s) = top

-----------------------------------------------------------------------------
\* The variables keep their types.
RateTypeOK ==
    /\ phase \in {"repeat", "puncture", "basis", "pairs", "masks", "idle", "onair", "heard", "walsh", "scored"}
    /\ Len(src) <= CCHCodedBits /\ Len(txMap) <= TCHCodedBits
    /\ \A n \in DOMAIN masks : masks[n] \in Words
    /\ station \in Stations \cup {0}

\* Once the patterns are complete they fill their channels exactly, every turbo
\* bit of the control channel is sent once or twice, every systematic bit of the
\* voice channel is sent, its two parities lose one bit in every three or four
\* sent and never keep both of the same step: the receiver that reads 612 and 804
\* bits loses none and no run of bits is left without parity (RepetitionPattern,
\* PuncturePattern, TCHTxMap).
PatternsFit ==
    phase = "pairs" /\ i = 0 =>
        LET sent == {txMap[n] : n \in DOMAIN txMap}
        IN /\ Len(src) = CCHCodedBits /\ Len(txMap) = TCHCodedBits
           /\ \A m \in 0..(CCHTurboOut - 1) : \E p \in DOMAIN src : src[p] = m
           /\ \A p \in 3..Len(src) : src[p - 2] # src[p]
           /\ \A m \in 0..(Thirds - 1) :
                  /\ 3 * m \in sent
                  /\ ~({3 * m + 1, 3 * m + 2} \subseteq sent)
           /\ \A par \in {1, 2} : \A m \in 0..(Thirds - 4) :
                  Cardinality({3 * n + par : n \in m..(m + 3)} \cap sent) \in {1, 2}

\* Whatever word the station scrambles with, and with one pair in every six
\* damaged, the word that scores best is the station's, it reaches the confidence
\* the decoder locks at and no other word does: the search neither misses the
\* lock nor locks to another word (Best, scrambleMinConfidence).
WordFound ==
    phase = "scored" =>
        LET Convinces(s) == 100 * Score(acc, s) >= MinConfidence * Len(masks)
        IN /\ {s \in Words \ {0} : Convinces(s)} = {station}
           /\ BestWord = station
=============================================================================
