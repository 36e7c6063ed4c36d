------------------------------- MODULE ConvCode -------------------------------
(* The convolutional codes of std-t86 (fec/conv.go): the encoder as a shift       *)
(* register, and the Viterbi decoder step by step, over a channel that flips      *)
(* bits and erases the punctured ones.  A register is a number, a generator       *)
(* polynomial the set of the exponents of its terms.                              *)
EXTENDS Naturals, Sequences, FiniteSets, FiniteSetsExt
CONSTANTS K,         \* constraint length
          Polys,     \* the generator polynomials, a sequence
          Erased,    \* places of the coded bits, from 0, that are punctured
          MsgLen,    \* bound: bits of the message
          MaxErrors  \* bits the channel flips

VARIABLES sent,      \* the bits fed to the encoder, the tail included
          got,       \* history: the coded bits received, 2 for an erasure
          errors,    \* bits flipped so far
          metric,    \* pm: the distance of the best path to each state
          survivors  \* prev: per step, whether it comes from the upper half
codeVars == <<sent, got, errors, metric, survivors>>

N == Len(Polys)
S == 2^(K - 1)
States == 0..S - 1
Inf == 2^30
Steps == MsgLen + K - 1
Erasure == 2

BitOf(reg, k) == (reg \div 2^k) % 2
Shifted(s, b) == 2 * s + b

\* The coded bits a register gives, one for each polynomial (viterbiTable).
OutOf(reg) ==
    [j \in 1..N |-> Cardinality({k \in Polys[j] : BitOf(reg, k) = 1}) % 2]

\* The register's state after the bits of input.
StateAfter(input) ==
    LET after[t \in 0..Len(input)] ==
            IF t = 0 THEN 0 ELSE Shifted(after[t - 1], input[t]) % S
    IN after

\* ConvEncode, without the tail: a sequence of the coded bits of each step.
Encoded(input) ==
    LET state == StateAfter(input)
    IN [t \in DOMAIN input |-> OutOf(Shifted(state[t - 1], input[t]))]

\* The branch metric: the bits that differ, erasures apart.
Distance(coded, sym) == Cardinality({j \in 1..N : sym[j] # Erasure /\ coded[j] # sym[j]})

Parent(ns, up) == (ns \div 2) + up * (S \div 2)
Cost(pm, ns, up, sym) ==
    pm[Parent(ns, up)] + Distance(OutOf(Shifted(Parent(ns, up), ns % 2)), sym)

GoesUp(pm, ns, sym) == Cost(pm, ns, 1, sym) < Cost(pm, ns, 0, sym)

\* One step of ViterbiDecode.
DecodeStep(sym) ==
    LET up(ns) == IF GoesUp(metric, ns, sym) THEN 1 ELSE 0
    IN /\ metric' = [ns \in States |-> Cost(metric, ns, up(ns), sym)]
       /\ survivors' = Append(survivors, [ns \in States |-> up(ns)])

\* The traceback from a state: the input of the path that survived to it.
Trace(state) ==
    LET T == Len(survivors)
        at[t \in 0..T] == IF t = T THEN state ELSE Parent(at[t + 1], survivors[t + 1][at[t + 1]])
    IN [t \in 1..T |-> at[t] % 2]

\* ViterbiDecode of a terminated code: from state 0, less the tail.
Decoded == SubSeq(Trace(0), 1, Len(survivors) - (K - 1))

\* Of a code without a tail: from the best state, the lowest of equals.
BestState == Min({s \in States : \A r \in States : metric[s] <= metric[r]})

-----------------------------------------------------------------------------
CodeInit ==
    /\ sent = <<>> /\ got = <<>> /\ errors = 0 /\ survivors = <<>>
    /\ metric = [s \in States |-> IF s = 0 THEN 0 ELSE Inf]

\* A bit is coded, damaged on its way, and decoded: message first, then the tail.
SendBit ==
    /\ Len(sent) < Steps
    /\ \E b \in (IF Len(sent) < MsgLen THEN {0, 1} ELSE {0}), flips \in SUBSET (1..N) :
        LET place(j) == Len(sent) * N + j - 1
            coded == OutOf(Shifted(StateAfter(sent)[Len(sent)], b))
            sym == [j \in 1..N |-> IF place(j) \in Erased THEN Erasure
                                   ELSE IF j \in flips THEN 1 - coded[j] ELSE coded[j]]
        IN /\ errors + Cardinality(flips) <= MaxErrors
           /\ \A j \in flips : place(j) \notin Erased
           /\ sent' = Append(sent, b)
           /\ got' = Append(got, sym)
           /\ errors' = errors + Cardinality(flips)
           /\ DecodeStep(sym)

CodeNext == SendBit

CodeSpec == CodeInit /\ [][CodeNext]_codeVars

-----------------------------------------------------------------------------
CodeTypeOK ==
    /\ Len(sent) <= Steps /\ errors \in 0..MaxErrors
    /\ metric \in [States -> Nat] /\ Len(survivors) = Len(sent)
    /\ \A t \in DOMAIN survivors : survivors[t] \in [States -> 0..1]

\* What the channel damages within the power of the code is decoded as it was sent,
\* punctured bits and tail included (ViterbiDecode, terminated).
Corrects == Len(sent) = Steps => Decoded = SubSeq(sent, 1, MsgLen)

TotalDistance(input) ==
    LET coded == Encoded(input)
        sum[t \in 0..Len(input)] ==
            IF t = 0 THEN 0 ELSE sum[t - 1] + Distance(coded[t], got[t])
    IN sum[Len(input)]

\* The path that survived to the best state does lead there, at the distance its
\* metric says: metrics and survivors are of the same paths (pm, prev and the
\* traceback), and no path is nearer than what was sent (not terminated).
SurvivorsTrue ==
    metric[BestState] <= errors /\
        LET s == BestState
             input == Trace(s)
        IN StateAfter(input)[Len(input)] = s /\ TotalDistance(input) = metric[s]
=============================================================================
