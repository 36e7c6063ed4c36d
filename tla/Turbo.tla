-------------------------------- MODULE Turbo --------------------------------
(***************************************************************************)
(* The turbo code of the T115 channels (fec/turbo.go, interleaver.go): two *)
(* recursive encoders, the second fed through an interleaver, both driven   *)
(* back to state 0 by three tail bits; decoded by two max-log BCJR decoders *)
(* that pass each other what they learnt.                                   *)
(*                                                                          *)
(* Each trellis step of a decoder is a step here.  The interleavers of the *)
(* two block lengths in use are built by the same operators, but only a     *)
(* block of K bits is sent and decoded.  Soft values are +Level and -Level; *)
(* metrics are twice the code's, to stay whole.                             *)
(***************************************************************************)
EXTENDS Integers, Sequences, FiniteSets

CONSTANTS Lens,        \* block lengths of the receiver
          K,           \* the length that is sent and decoded
          Messages,    \* blocks sent, sequences of K bits
          MaxErrors,   \* bits of a codeword received wrong
          Level,       \* strength of a received bit
          Iters        \* rounds of TurboDecode

VARIABLES perm, msg, llr, round, half, alpha, beta, la, le, out

turboVars == <<perm, msg, llr, round, half, alpha, beta, la, le, out>>

Largest(S) == CHOOSE x \in S : \A y \in S : x >= y
Least(S) == CHOOSE x \in S : \A y \in S : x <= y
-----------------------------------------------------------------------------
(* interleaver.go *)

\* The prime of each row length with its primitive root, as far as the lengths
\* in use reach into primitiveRoots.
PrimitiveRoots == <<<<7, 3>>, <<11, 2>>, <<13, 2>>, <<17, 3>>, <<19, 2>>, <<23, 5>>, <<29, 2>>,
                    <<31, 3>>, <<37, 2>>, <<41, 6>>, <<43, 3>>, <<47, 5>>, <<53, 2>>>>

RowsOf(k) == IF k \in 40..159 THEN 5
             ELSE IF k \in 160..200 \cup 481..530 THEN 10 ELSE 20

PrimeOf(k) ==
    IF k \in 481..530 THEN <<53, 2>>
    ELSE PrimitiveRoots[Least({n \in DOMAIN PrimitiveRoots :
                                  k <= RowsOf(k) * (PrimitiveRoots[n][1] + 1)})]

ColumnsOf(k) ==
    LET p == PrimeOf(k)[1]
    IN IF k \in 481..530 THEN p
       ELSE IF k <= RowsOf(k) * (p - 1) THEN p - 1
       ELSE IF k <= RowsOf(k) * p THEN p ELSE p + 1

RowOrder(rows) ==
    CASE rows = 5 -> <<4, 3, 2, 1, 0>>
      [] rows = 10 -> <<9, 8, 7, 6, 5, 4, 3, 2, 1, 0>>
      [] OTHER -> <<19, 9, 14, 4, 0, 2, 5, 7, 12, 18, 10, 8, 13, 17, 3, 1, 16, 6, 15, 11>>

Divides(d, n) == n % d = 0
IsPrime(n) == n > 1 /\ \A d \in 2..(n - 1) : ~Divides(d, n)

Coprime(c, n) == \A d \in 2..c : ~(Divides(d, c) /\ Divides(d, n))

\* q of row i: 1 for the first, then the next prime from 7 on with no factor
\* in common with p - 1.
StrideOf(i, p) ==
    IF i = 0 THEN 1
    ELSE LET primes == {c \in 7..127 : IsPrime(c) /\ Coprime(c, p - 1)}
         IN CHOOSE c \in primes : Cardinality({d \in primes : d < c}) = i - 1

\* The powers of the root, s, and the place U[row][j] a row keeps for column j.
Powers(p, v) == LET s[j \in 0..(p - 2)] == IF j = 0 THEN 1 ELSE (v * s[j - 1]) % p IN s

Placed(k, row, stride, s, j) ==
    LET p == PrimeOf(k)[1]
        C == ColumnsOf(k)
        swaps == C = p + 1 /\ k = RowsOf(k) * C /\ row = RowsOf(k) - 1
        Kept(c) == IF c = p THEN p ELSE IF c = p - 1 THEN 0 ELSE s[(c * stride) % (p - 1)]
    IN IF C = p - 1 THEN s[(j * stride) % (p - 1)] - 1
       ELSE IF swaps /\ j \in {0, p} THEN Kept(p - j)
       ELSE Kept(j)

\* TurboInterleaver: column by column, the rows in their order, places past the
\* block left out.
Interleaver(k) ==
    LET R == RowsOf(k)
        C == ColumnsOf(k)
        p == PrimeOf(k)[1]
        T == RowOrder(R)
        s == Powers(p, PrimeOf(k)[2])
        Index(n) == LET i == n % R
                    IN T[i + 1] * C + Placed(k, T[i + 1], StrideOf(i, p), s, n \div R)
        all == [n \in 1..(R * C) |-> Index(n - 1)]
    IN SelectSeq(all, LAMBDA x : x < k)
-----------------------------------------------------------------------------
(* turbo.go *)

States == {0, 1} \X {0, 1} \X {0, 1}           \* <<r1, r2, r3>>
Zero == <<0, 0, 0>>

Fed(s, u) == (u + s[2] + s[3]) % 2
Next3(s, u) == <<Fed(s, u), s[1], s[2]>>       \* rscStep: the next state
Parity(s, u) == (Fed(s, u) + s[1] + s[3]) % 2  \* rscStep: the parity bit
TailBit(s) == (s[2] + s[3]) % 2                \* rscTailStep

\* One constituent encoder on the block x: its states, parity and tail bits.
Trace(x) == LET n[i \in 0..(K + 3)] ==
                   IF i = 0 THEN Zero
                   ELSE IF i <= K THEN Next3(n[i - 1], x[i])
                   ELSE Next3(n[i - 1], TailBit(n[i - 1]))
            IN n

Encoded(x) ==
    LET n == Trace(x)
        TailPair(t) == <<TailBit(n[K + t]), Parity(n[K + t], TailBit(n[K + t]))>>
    IN [parity |-> [i \in 1..K |-> Parity(n[i - 1], x[i])],
        tail |-> TailPair(0) \o TailPair(1) \o TailPair(2)]

Interleaved(x) == [i \in 1..K |-> x[perm[i] + 1]]

TurboEncode(x) ==
    LET one == Encoded(x)
        two == Encoded(Interleaved(x))
        Bit(n) == CASE n % 3 = 0 -> x[(n \div 3) + 1]
                    [] n % 3 = 1 -> one.parity[(n \div 3) + 1]
                    [] OTHER -> two.parity[(n \div 3) + 1]
    IN [n \in 1..(3 * K) |-> Bit(n - 1)] \o one.tail \o two.tail

OutLen == 3 * K + 12
NegInf == -10000
None == [i \in 1..K |-> 0]

\* What the decoder of this half round reads: the systematic and parity values,
\* the tail values, and what the other decoder learnt.
Systematic == [i \in 1..K |-> llr[3 * (i - 1) + 1]]
Lx == IF half = 1 THEN Systematic ELSE Interleaved(Systematic)
Lz == [i \in 1..K |-> llr[3 * (i - 1) + 1 + half]]
LxTail(t) == llr[3 * K + 6 * (half - 1) + 2 * t - 1]
LzTail(t) == llr[3 * K + 6 * (half - 1) + 2 * t]

Sign(b) == 1 - 2 * b

Gam(i, s, u) == Sign(u) * (Lx[i] + la[i]) + Sign(Parity(s, u)) * Lz[i]
GamTail(t, s) == Sign(TailBit(s)) * LxTail(t) + Sign(Parity(s, TailBit(s))) * LzTail(t)

\* A branch of the trellis at place i: from, to, the bit, and its metric.
Branches(i) ==
    IF i <= K
    THEN {[from |-> s, to |-> Next3(s, u), bit |-> u, gam |-> Gam(i, s, u)] :
              s \in States, u \in {0, 1}}
    ELSE {[from |-> s, to |-> Next3(s, TailBit(s)), bit |-> TailBit(s),
           gam |-> GamTail(i - K, s)] : s \in States}

TurboInit ==
    /\ perm = <<>> /\ msg = <<>> /\ llr = <<>>
    /\ round = 0 /\ half = 1 /\ alpha = <<>> /\ beta = <<>>
    /\ la = None /\ le = <<None, None>> /\ out = <<>>

\* The table of one block length is built.
TurboInterleaver(k) ==
    /\ perm = <<>>
    /\ perm' = Interleaver(k)
    /\ UNCHANGED <<msg, llr, round, half, alpha, beta, la, le, out>>

Received(word, wrong) == [n \in 1..OutLen |-> Level * Sign(word[n]) * (IF n \in wrong THEN -1 ELSE 1)]

\* A block is encoded, sent, and received with some of its bits wrong.
Send(x, wrong) ==
    /\ Len(perm) = K /\ msg = <<>>
    /\ msg' = x
    /\ \E word \in {TurboEncode(x)} : llr' = Received(word, wrong)
    /\ UNCHANGED <<perm, round, half, alpha, beta, la, le, out>>

Decoding == msg # <<>> /\ round < Iters

\* Slip: paths may begin and end in any state.
Anywhere == [s \in States |-> 0]

\* Every path begins and ends in state 0.
Start == [s \in States |-> IF s = Zero THEN 0 ELSE NegInf]

\* bcjr, forward: the best path into each state, one place further.
Forward ==
    /\ Decoding /\ Len(alpha) < K + 4
    /\ IF alpha = <<>> THEN alpha' = <<Start>>
       ELSE \E br \in {Branches(Len(alpha))} :
                LET last == alpha[Len(alpha)]
                IN alpha' = Append(alpha, [s \in States |->
                       Largest({last[b.from] + b.gam :
                                   b \in {c \in br : c.to = s /\ last[c.from] # NegInf}}
                               \cup {NegInf})])
    /\ UNCHANGED <<perm, msg, llr, round, half, beta, la, le, out>>

\* bcjr, backward: the best path out of each state, one place earlier.
Backward ==
    /\ Decoding /\ Len(alpha) = K + 4 /\ Len(beta) < K + 4
    /\ IF beta = <<>> THEN beta' = <<Start>>
       ELSE \E br \in {Branches(K + 4 - Len(beta))} :
                beta' = <<[s \in States |->
                       Largest({beta[1][b.to] + b.gam :
                                   b \in {c \in br : c.from = s /\ beta[1][c.to] # NegInf}}
                               \cup {NegInf})]>> \o beta
    /\ UNCHANGED <<perm, msg, llr, round, half, alpha, la, le, out>>

\* What this decoder learns of bit i beyond what it was told.
Extrinsic(i) ==
    LET br == Branches(i)
        m(u) == Largest({alpha[i][b.from] + b.gam + beta[i + 1][b.to] :
                            b \in {c \in br : /\ c.bit = u /\ alpha[i][c.from] # NegInf
                                              /\ beta[i + 1][c.to] # NegInf}} \cup {NegInf})
    IN IF m(0) = NegInf \/ m(1) = NegInf THEN 0
       ELSE ((m(0) - m(1)) \div 2) - Lx[i] - la[i]

Told(x) == IF half = 1 THEN Interleaved(x)
           ELSE [i \in 1..K |-> x[CHOOSE j \in 1..K : perm[j] + 1 = i]]

\* The end of a half round: the other decoder is told; after the last round the
\* bits are decided.
Exchange ==
    /\ Decoding /\ Len(beta) = K + 4
    /\ \E x \in {[i \in 1..K |-> Extrinsic(i)]} : \E told \in {Told(x)} :
           /\ le' = [le EXCEPT ![half] = x]
           /\ la' = told
           /\ out' = IF half = 2 /\ round + 1 = Iters
                     THEN [i \in 1..K |-> IF Systematic[i] + le[1][i] + told[i] < 0 THEN 1 ELSE 0]
                     ELSE out
    /\ half' = 3 - half
    /\ round' = IF half = 2 THEN round + 1 ELSE round
    /\ alpha' = <<>> /\ beta' = <<>>
    /\ UNCHANGED <<perm, msg, llr>>

Wrongs == {{}} \cup UNION {{{a, b} : b \in 1..OutLen} : a \in 1..OutLen}

TurboNext == \/ \E k \in Lens \cup {K} : TurboInterleaver(k)
             \/ \E x \in Messages, wrong \in {w \in Wrongs : Cardinality(w) <= MaxErrors} :
                    Send(x, wrong)
             \/ Forward \/ Backward \/ Exchange

TurboSpec == TurboInit /\ [][TurboNext]_turboVars

-----------------------------------------------------------------------------
\* The variables keep their types.
TurboTypeOK ==
    /\ round \in 0..Iters /\ half \in {1, 2}
    /\ Len(alpha) <= K + 4 /\ Len(beta) <= K + 4
    /\ DOMAIN la = 1..K /\ Len(out) \in {0, K}

\* An interleaver sends every bit of its block once, and no two neighbours of a
\* real block stay neighbours, so that a run of damaged bits looks different to
\* the two decoders (TurboInterleaver).
InterleaverMixes ==
    LET k == Len(perm)
    IN /\ {perm[i] : i \in 1..k} = 0..(k - 1)
       /\ k > 0 => k \in Lens \cup {K}
       /\ k \in Lens => \A i \in 1..(k - 1) : perm[i + 1] - perm[i] \notin {-1, 1}

\* A decoder's forward and backward passes are complete when it says, of every
\* bit, by how much the best codeword that has a 0 there beats the best that has
\* a 1, among all codewords of its encoder that end in state 0: no path is lost or
\* counted twice (bcjr).
BestPaths ==
    Len(beta) = K + 4 =>
        LET Blocks == [1..K -> {0, 1}]
            SumTo[i \in 0..K, x \in Blocks] ==
                IF i = 0 THEN 0
                ELSE SumTo[i - 1, x] + Sign(x[i]) * (Lx[i] + la[i])
                     + Sign(Encoded(x).parity[i]) * Lz[i]
            TailSum(x) == LET t == Encoded(x).tail
                              T(j) == Sign(t[2 * j - 1]) * LxTail(j) + Sign(t[2 * j]) * LzTail(j)
                          IN T(1) + T(2) + T(3)
            metric == [x \in Blocks |-> SumTo[K, x] + TailSum(x)]
            Best(i, u) == Largest({metric[x] : x \in {y \in Blocks : y[i] = u}})
        IN \A i \in 1..K :
               2 * (Extrinsic(i) + Lx[i] + la[i]) = Best(i, 0) - Best(i, 1)

\* With at most MaxErrors bits of the codeword wrong the block is decoded as it
\* was sent (TurboEncode, TurboDecode).
BlockCorrected == out # <<>> => out = msg
=============================================================================
