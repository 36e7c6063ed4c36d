---------------------------- MODULE Kernels_proofs ----------------------------
(***************************************************************************)
(* Two of the algorithms of MCKernels.  The search for the scramble seed     *)
(* takes that of a station it heard (SeedIsHeard), for every number of       *)
(* seeds, window, length of round, budget and threshold.  The sound of a     *)
(* broadcast keeps its time and is counted rightly (SoundInTime), for every  *)
(* number of rings, length of a slot, jitter below half a slot, cap on what  *)
(* is filled in, threshold of the tracker, length of a batch and bound.      *)
(***************************************************************************)
EXTENDS MCKernels, Integers, Sequences, FiniteSetTheorems, WellFoundedInduction, TLAPS

-----------------------------------------------------------------------------
(* Numbers and sequences.                                                  *)

\* A set of natural numbers that is not empty has a least one.
LEMMA LeastNatural ==
  ASSUME NEW T, T \subseteq Nat, T # {}
  PROVE  \E x \in T : \A y \in T : x <= y
<1> DEFINE R == OpToRel(<, Nat)
<1>1. \A x, y \in T : y < x => <<y, x>> \in R
  BY SMT DEF OpToRel
<1>2. IsWellFoundedOn(R, Nat) BY NatLessThanWellFounded
<1> HIDE DEF R
<1>3. PICK x \in T : \A y \in T : <<y, x>> \notin R BY <1>2, WFMin
<1>4. \A y \in T : ~(y < x) BY <1>1, <1>3
<1> QED BY <1>4

\* Min of such a set is its least number.
LEMMA MinFacts ==
  ASSUME NEW T, T \subseteq Nat, T # {}
  PROVE  Search!Min(T) \in T /\ \A y \in T : Search!Min(T) <= y
<1>1. \E x \in T : \A y \in T : x <= y BY LeastNatural
<1> QED BY <1>1 DEF Search!Min

\* The last n elements of a sequence are at most n, and elements of it.
LEMMA LastOfFacts ==
  ASSUME NEW S, NEW q \in Seq(S), NEW n \in Nat, NEW p, p = Search!LastOf(q, n)
  PROVE  /\ p \in Seq(S) /\ Len(p) \in Nat /\ Len(p) <= n
         /\ \A i \in 1 .. Len(p) : \E j \in 1 .. Len(q) : p[i] = q[j]
<1>1. Len(q) \in Nat OBVIOUS
<1>2. CASE Len(q) > n
  <2>1. p = SubSeq(q, Len(q) - n + 1, Len(q)) BY <1>2 DEF Search!LastOf
  <2>2. p \in Seq(S) /\ Len(p) = n BY <1>1, <1>2, <2>1
  <2>3. \A i \in 1 .. Len(p) : p[i] = q[Len(q) - n + i] BY <1>1, <1>2, <2>1, <2>2
  <2>4. \A i \in 1 .. Len(p) : Len(q) - n + i \in 1 .. Len(q) BY <1>1, <1>2, <2>2
  <2>5. ASSUME NEW i \in 1 .. Len(p) PROVE \E j \in 1 .. Len(q) : p[i] = q[j]
    BY <2>3, <2>4
  <2>6. Len(p) \in Nat /\ Len(p) <= n BY <2>2
  <2> QED BY <2>2, <2>5, <2>6
<1>3. CASE ~(Len(q) > n)
  <2>1. p = SubSeq(q, 1, Len(q)) BY <1>3 DEF Search!LastOf
  <2>2. p \in Seq(S) /\ Len(p) = Len(q) BY <1>1, <2>1
  <2>3. \A i \in 1 .. Len(p) : p[i] = q[i] BY <1>1, <2>1, <2>2
  <2> QED BY <1>1, <1>3, <2>2, <2>3
<1> QED BY <1>2, <1>3

\* What is given place by place up to n is a sequence of length n.
LEMMA SeqBy ==
  ASSUME NEW n \in Nat, NEW q, q = [i \in 1 .. n |-> q[i]]
  PROVE  Len(q) = n /\ DOMAIN q = 1 .. n /\ (q = <<>> <=> n = 0)
<1> DEFINE S == {q[i] : i \in 1 .. n}
<1>1. q \in [1 .. n -> S] OBVIOUS
<1>2. q \in Seq(S) BY <1>1
<1>3. Len(q) = n BY <1>1, <1>2
<1> QED BY <1>2, <1>3

-----------------------------------------------------------------------------
(* The search for the seed.                                                *)

\* The instance counts as this module does.
LEMMA SameCardinality ==
  ASSUME NEW S
  PROVE  Search!Cardinality(S) = Cardinality(S)
BY DEF Search!Cardinality, Cardinality

\* The candidates are a sequence of at most Top.
Candidate(q) == \E n \in 0 .. Top : q = [i \in 1 .. n |-> q[i]]

\* What has a good CRC is of a station that was heard.
HeardOf(round, known) ==
    \A i \in 1 .. Len(round) : round[i].crc => round[i].of \in known

\* Candidates are scored up to the n-th, all on the same slots.
ScoredUpTo(sc, cands, n) == DOMAIN sc = {cands[i] : i \in 1 .. n}
ScoredOn(sc, cacs) == \A s \in DOMAIN sc : sc[s] = Search!ScoreOf(cacs, s)

\* The scores of a round are those of its candidates up to the cursor, on its slots.
RoundRight(round, known) ==
    /\ Candidate(round.cands) /\ round.cursor \in 0 .. Top
    /\ round.cacs \in Seq(Search!Looks) /\ Len(round.cacs) <= ScoreCACs
    /\ HeardOf(round.cacs, known)
    /\ ScoredOn(round.scores, round.cacs)
    /\ round.cands # <<>> =>
          /\ round.cursor <= Len(round.cands)
          /\ ScoredUpTo(round.scores, round.cands, round.cursor)

Round == [cands |-> v3, cacs |-> v4, scores |-> v5, cursor |-> v6]

SearchInv ==
    /\ v1 \in Seq(Search!Looks) /\ Len(v1) <= Window /\ HeardOf(v1, v13)
    /\ v2 \in [Seeds -> 0 .. WeightCap]
    /\ RoundRight(Round, v13)
    /\ v7 \in 0 .. PerFeed
    /\ v8 = 0 \/ v8 \in v13
    /\ v9 \in Seeds \ {0} /\ v13 \subseteq Seeds

\* What is believed has been heard: it has a good CRC among the slots of the round.
LEMMA BelievedHeard ==
  ASSUME NEW known, NEW cacs \in Seq(Search!Looks), HeardOf(cacs, known), NEW s,
         Search!ScoreOf(cacs, s).crc >= 1
  PROVE  s \in known
<1> DEFINE shown == {i \in DOMAIN cacs : cacs[i].of = s /\ s # 0}
           good == {i \in shown : cacs[i].crc}
<1>1. Search!ScoreOf(cacs, s).crc = Search!Cardinality(good) BY DEF Search!ScoreOf
<1>2. CASE good = {}
  <2>1. Search!Cardinality(good) = 0 BY <1>2, FS_EmptySet, SameCardinality
  <2> QED BY <1>1, <2>1
<1>3. CASE good # {}
  <2>1. PICK i \in DOMAIN cacs : cacs[i].of = s /\ cacs[i].crc BY <1>3
  <2>2. i \in 1 .. Len(cacs) BY <2>1
  <2> QED BY <2>1, <2>2 DEF HeardOf
<1> QED BY <1>2, <1>3

\* A slot is stored behind the others; what was stored and heard stays so.
LEMMA StoredFacts ==
  ASSUME NEW q \in Seq(Search!Looks), NEW look \in Search!Looks, NEW known, NEW known2,
         HeardOf(q, known), known \subseteq known2, look.crc => look.of \in known2,
         NEW n \in Nat, NEW p, p = Search!LastOf(Append(q, look), n)
  PROVE  p \in Seq(Search!Looks) /\ Len(p) <= n /\ HeardOf(p, known2)
<1>1. PICK r : r = Append(q, look) OBVIOUS
<1>2. r \in Seq(Search!Looks) /\ Len(r) = Len(q) + 1 /\ Len(q) \in Nat BY <1>1
<1>3. \A i \in 1 .. Len(r) : r[i].crc => r[i].of \in known2
  <2> TAKE i \in 1 .. Len(r)
  <2>1. CASE i = Len(q) + 1 BY <1>1, <1>2, <2>1
  <2>2. CASE i # Len(q) + 1
    <3>1. i \in 1 .. Len(q) /\ r[i] = q[i] BY <1>1, <1>2, <2>2
    <3> QED BY <3>1 DEF HeardOf
  <2> QED BY <2>1, <2>2
<1>4. /\ p \in Seq(Search!Looks) /\ Len(p) <= n
      /\ \A i \in 1 .. Len(p) : \E j \in 1 .. Len(r) : p[i] = r[j]
  <2>1. PICK S : S = Search!Looks OBVIOUS
  <2>2. r \in Seq(S) /\ p = Search!LastOf(r, n) BY <1>1, <1>2, <2>1
  <2> HIDE <2>1
  <2>3. /\ p \in Seq(S) /\ Len(p) <= n
        /\ \A i \in 1 .. Len(p) : \E j \in 1 .. Len(r) : p[i] = r[j]
    BY <2>2, LastOfFacts
  <2> QED BY <2>1, <2>3
<1> QED BY <1>3, <1>4 DEF HeardOf

\* Weights are counted from the least of them, up to the cap.
LEMMA WeighedFacts ==
  ASSUME v2 \in [Seeds -> 0 .. WeightCap], NEW look
  PROVE  Search!Weighed(look) \in [Seeds -> 0 .. WeightCap]
<1> DEFINE sum == [s \in Seeds |-> v2[s] + Search!WeightOf(look, s)]
           T == {sum[s] : s \in Seeds}
<1>1. \A s \in Seeds : sum[s] \in Nat BY SearchBounds DEF Search!WeightOf
<1>2. T \subseteq Nat /\ T # {} BY <1>1, SearchBounds
<1> HIDE DEF sum
<1>3. PICK least : least = Search!Min(T) OBVIOUS
<1>4. least \in Nat /\ \A s \in Seeds : least <= sum[s] BY <1>2, <1>3, MinFacts
<1>5. ASSUME NEW s \in Seeds PROVE Search!Min({WeightCap, sum[s] - least}) \in 0 .. WeightCap
  <2>1. {WeightCap, sum[s] - least} \subseteq Nat BY <1>1, <1>4, SearchBounds
  <2>2. Search!Min({WeightCap, sum[s] - least}) <= WeightCap BY <2>1, MinFacts
  <2>3. Search!Min({WeightCap, sum[s] - least}) \in Nat BY <2>1, MinFacts
  <2> QED BY <2>2, <2>3, SearchBounds
<1>6. Search!Weighed(look) = [s \in Seeds |-> Search!Min({WeightCap, sum[s] - least})]
  BY <1>3 DEF Search!Weighed, sum
<1> QED BY <1>5, <1>6

\* A round that is begun, or goes on, is right.
LEMMA RoundOfFacts ==
  ASSUME NEW stored \in Seq(Search!Looks), NEW known, HeardOf(stored, known), NEW w,
         NEW was, RoundRight(Round, was), was \subseteq known
  PROVE  /\ RoundRight(Search!RoundOf(stored, w), known)
         /\ Search!RoundOf(stored, w).cursor <= Len(Search!RoundOf(stored, w).cands)
<1>1. CASE v3 = <<>>
  <2>1. PICK round : round = Search!RoundOf(stored, w) OBVIOUS
  <2>2. /\ round.cands = Search!Candidates(w) /\ round.cursor = 0
        /\ round.cacs = Search!LastOf(stored, ScoreCACs) /\ round.scores = Search!Nothing
    BY <1>1, <2>1 DEF Search!RoundOf
  <2>3. PICK n : n = Search!Min({Top, Search!Cardinality(Seeds)}) OBVIOUS
  <2>4. n \in Nat /\ n <= Top
    <3>1. Search!Cardinality(Seeds) \in Nat
      BY SearchBounds, FS_CardinalityType, SameCardinality
    <3>2. {Top, Search!Cardinality(Seeds)} \subseteq Nat BY <3>1, SearchBounds
    <3> QED BY <2>3, <3>2, MinFacts
  <2>5. round.cands = [i \in 1 .. n |-> round.cands[i]]
    BY <2>2, <2>3 DEF Search!Candidates
  <2>6. Candidate(round.cands)
    <3>1. n \in 0 .. Top BY <2>4, SearchBounds
    <3> QED BY <3>1, <2>5 DEF Candidate
  <2>7. /\ round.cacs \in Seq(Search!Looks) /\ Len(round.cacs) <= ScoreCACs
        /\ \A i \in 1 .. Len(round.cacs) : \E j \in 1 .. Len(stored) : round.cacs[i] = stored[j]
    BY <2>2, LastOfFacts, SearchBounds
  <2>8. HeardOf(round.cacs, known) BY <2>7 DEF HeardOf
  <2>9. Len(round.cands) = n BY <2>4, <2>5, SeqBy
  <2>10. DOMAIN round.scores = {} /\ ScoredOn(round.scores, round.cacs)
    BY <2>2 DEF Search!Nothing, ScoredOn
  <2>11. ScoredUpTo(round.scores, round.cands, round.cursor) BY <2>2, <2>10 DEF ScoredUpTo
  <2> QED BY <2>1, <2>2, <2>4, <2>6, <2>7, <2>8, <2>9, <2>10, <2>11, SearchBounds DEF RoundRight
<1>2. CASE v3 # <<>>
  <2>1. Search!RoundOf(stored, w) = Round BY <1>2 DEF Search!RoundOf, Round
  <2>2. RoundRight(Search!RoundOf(stored, w), known) BY <2>1 DEF RoundRight, HeardOf
  <2>3. Round.cursor <= Len(Round.cands) BY <1>2 DEF RoundRight, Round
  <2> QED BY <2>1, <2>2, <2>3
<1> QED BY <1>1, <1>2

\* Scoring more candidates keeps a round right.
LEMMA ScoredFacts ==
  ASSUME NEW round, NEW known, RoundRight(round, known), NEW n, n \in round.cursor .. Len(round.cands),
         NEW sc, sc = Search!Scored(round, n)
  PROVE  /\ ScoredOn(sc, round.cacs)
         /\ round.cands # <<>> => ScoredUpTo(sc, round.cands, n)
<1> DEFINE new == {round.cands[k] : k \in round.cursor + 1 .. n}
<1>1. sc = [s \in DOMAIN round.scores \cup new |->
                IF s \in new THEN Search!ScoreOf(round.cacs, s) ELSE round.scores[s]]
  BY DEF Search!Scored
<1>2. \A s \in DOMAIN round.scores : round.scores[s] = Search!ScoreOf(round.cacs, s)
  BY DEF RoundRight, ScoredOn
<1>3. DOMAIN sc = DOMAIN round.scores \cup new BY <1>1
<1>4. \A s \in DOMAIN sc : sc[s] = Search!ScoreOf(round.cacs, s) BY <1>1, <1>2
<1>5. ScoredOn(sc, round.cacs) BY <1>4 DEF ScoredOn
<1>6. ASSUME round.cands # <<>> PROVE ScoredUpTo(sc, round.cands, n)
  <2>1. DOMAIN round.scores = {round.cands[i] : i \in 1 .. round.cursor}
    BY <1>6 DEF RoundRight, ScoredUpTo
  <2>2. round.cursor \in Nat /\ n \in Int /\ round.cursor <= n BY DEF RoundRight
  <2>3. \A i : i \in 1 .. n <=> i \in 1 .. round.cursor \/ i \in round.cursor + 1 .. n BY <2>2
  <2> QED BY <1>3, <2>1, <2>3 DEF ScoredUpTo
<1> QED BY <1>5, <1>6

\* The candidates tried: nobody is believed who was not heard.
LEMMA TrialsFacts ==
  ASSUME NEW round, NEW known, RoundRight(round, known),
         NEW last, last \in round.cursor .. Len(round.cands),
         NEW tried, tried = Search!Trials(round, last)
  PROVE  /\ tried.cursor \in round.cursor .. last
         /\ ScoredOn(tried.scores, round.cacs)
         /\ round.cands # <<>> => ScoredUpTo(tried.scores, round.cands, tried.cursor)
         /\ tried.believed \subseteq known
<1> DEFINE stops(x) == x = last \/ Search!Believed(round, x) # {}
           first(x) == stops(x) /\ \A y \in round.cursor .. x - 1 : ~stops(y)
           n == CHOOSE x \in round.cursor .. last : first(x)
           may == {x \in round.cursor .. last : stops(x)}
<1>0. round.cursor \in Nat /\ last \in Nat BY DEF RoundRight
<1>1. \E x \in round.cursor .. last : first(x)
  <2>1. may \subseteq Nat /\ last \in may BY <1>0
  <2>2. PICK x \in may : \A y \in may : x <= y BY <2>1, LeastNatural
  <2>3. \A y \in round.cursor .. x - 1 : y \notin may BY <1>0, <2>2
  <2>4. \A y \in round.cursor .. x - 1 : y \in round.cursor .. last BY <1>0, <2>2
  <2> QED BY <2>2, <2>3, <2>4
<1>2. n \in round.cursor .. last BY <1>1
<1>3. /\ tried.scores = Search!Scored(round, n) /\ tried.cursor = n
      /\ tried.believed \subseteq Search!Believed(round, n)
  BY DEF Search!Trials
<1> HIDE DEF n
<1>4. PICK k, sc : k = n /\ sc = Search!Scored(round, k) OBVIOUS
<1>5. k \in round.cursor .. Len(round.cands)
  <2>1. Len(round.cands) \in Int
    <3>1. PICK m \in 0 .. Top : round.cands = [i \in 1 .. m |-> round.cands[i]]
      BY DEF RoundRight, Candidate
    <3>2. m \in Nat BY SearchBounds
    <3> QED BY <3>1, <3>2, SeqBy
  <2> QED BY <1>0, <1>2, <1>4, <2>1
<1>6. /\ ScoredOn(sc, round.cacs)
      /\ round.cands # <<>> => ScoredUpTo(sc, round.cands, k)
  BY <1>4, <1>5, ScoredFacts
<1>7. ASSUME NEW s \in Search!Believed(round, n) PROVE s \in known
  <2>1. s \in DOMAIN sc /\ Search!Confident(sc, Len(round.cacs), s)
    BY <1>4 DEF Search!Believed
  <2>2. sc[s].crc >= 1 BY <2>1 DEF Search!Confident
  <2>3. Search!ScoreOf(round.cacs, s).crc >= 1 BY <1>6, <2>1, <2>2 DEF ScoredOn
  <2>4. round.cacs \in Seq(Search!Looks) /\ HeardOf(round.cacs, known) BY DEF RoundRight
  <2> QED BY <2>3, <2>4, BelievedHeard
<1> QED BY <1>2, <1>3, <1>4, <1>6, <1>7

\* The search begins anew: nothing is stored, weighed or scored.
LEMMA FreshFacts ==
  ASSUME Search!Fresh
  PROVE  \A known : /\ v1' \in Seq(Search!Looks) /\ Len(v1') <= Window /\ HeardOf(v1', known)
                    /\ v2' \in [Seeds -> 0 .. WeightCap]
                    /\ RoundRight(Round', known)
                    /\ v7' \in 0 .. PerFeed
<1> DEFINE none == <<>>
<1>1. /\ v1' = none /\ v2' = [s \in Seeds |-> 0] /\ v3' = none /\ v4' = none
      /\ v5' = Search!Nothing /\ v6' = 0 /\ v7' = 0
  BY DEF Search!Fresh
<1>2. none \in Seq(Search!Looks) /\ Len(none) = 0 OBVIOUS
<1>3. \A known : HeardOf(none, known) BY <1>2 DEF HeardOf
<1>4. none = [i \in 1 .. 0 |-> none[i]] OBVIOUS
<1>5. 0 \in 0 .. Top /\ 0 \in 0 .. PerFeed /\ 0 \in 0 .. WeightCap /\ 0 <= Window
      /\ 0 <= ScoreCACs
  BY SearchBounds
<1>6. Candidate(none) BY <1>4, <1>5 DEF Candidate
<1> HIDE DEF none
<1>7. Round'.cands = none /\ Round'.cacs = none /\ Round'.scores = Search!Nothing /\ Round'.cursor = 0
  BY <1>1 DEF Round
<1>8. ScoredOn(Search!Nothing, none) BY DEF Search!Nothing, ScoredOn
<1>9. none = <<>> BY DEF none
<1>10. \A known : RoundRight(Round', known)
  BY <1>2, <1>3, <1>5, <1>6, <1>7, <1>8, <1>9 DEF RoundRight
<1> QED BY <1>1, <1>2, <1>3, <1>5, <1>10

\* push keeps the search right: a slot with a good CRC is of a station heard by now.
LEMMA PushKeeps ==
  ASSUME SearchInv, NEW look \in Search!Looks, Search!Push(look), v9' = v9,
         v13 \subseteq v13', v13' \subseteq Seeds, look.crc => look.of \in v13'
  PROVE  SearchInv'
<1>1. PICK stored : stored = Search!LastOf(Append(v1, look), Window) OBVIOUS
<1>2. PICK w : w = Search!Weighed(look) OBVIOUS
<1>3. stored \in Seq(Search!Looks) /\ Len(stored) <= Window /\ HeardOf(stored, v13')
  BY <1>1, SearchBounds, StoredFacts DEF SearchInv
<1>4. w \in [Seeds -> 0 .. WeightCap] BY <1>2, WeighedFacts DEF SearchInv
<1>5. CASE Len(stored) < MinSlots \/ v7 = 0
  <2>1. v1' = stored /\ v2' = w /\ UNCHANGED <<v3, v4, v5, v6, v7, v8>>
    BY <1>1, <1>2, <1>5 DEF Search!Push
  <2>2. Round' = Round BY <2>1 DEF Round
  <2>3. RoundRight(Round', v13') BY <2>2 DEF SearchInv, RoundRight, HeardOf
  <2> QED BY <1>3, <1>4, <2>1, <2>3 DEF SearchInv
<1>6. CASE ~(Len(stored) < MinSlots \/ v7 = 0)
  <2>1. PICK round : round = Search!RoundOf(stored, w) OBVIOUS
  <2>2. PICK last : last = Search!Min({Len(round.cands), round.cursor + v7}) OBVIOUS
  <2>3. PICK tried : tried = Search!Trials(round, last) OBVIOUS
  <2>4. RoundRight(round, v13') /\ round.cursor <= Len(round.cands)
    BY <1>3, <2>1, RoundOfFacts DEF SearchInv
  <2>5. PICK m \in 0 .. Top : /\ round.cands = [i \in 1 .. m |-> round.cands[i]]
                              /\ Len(round.cands) = m
    <3>1. PICK m \in 0 .. Top : round.cands = [i \in 1 .. m |-> round.cands[i]]
      BY <2>4 DEF RoundRight, Candidate
    <3>2. m \in Nat BY SearchBounds
    <3> QED BY <3>1, <3>2, SeqBy
  <2>6. m \in Nat /\ v7 \in Nat /\ round.cursor \in Nat
    BY <2>4, SearchBounds DEF SearchInv, RoundRight
  <2>7. last \in round.cursor .. Len(round.cands) /\ last <= round.cursor + v7
    <3>1. {Len(round.cands), round.cursor + v7} \subseteq Nat BY <2>5, <2>6
    <3>2. /\ last \in {Len(round.cands), round.cursor + v7}
          /\ last <= Len(round.cands) /\ last <= round.cursor + v7
      BY <2>2, <3>1, MinFacts
    <3> QED BY <2>4, <2>5, <2>6, <3>2
  <2>8. /\ tried.cursor \in round.cursor .. last
        /\ ScoredOn(tried.scores, round.cacs)
        /\ round.cands # <<>> => ScoredUpTo(tried.scores, round.cands, tried.cursor)
        /\ tried.believed \subseteq v13'
    BY <2>3, <2>4, <2>7, TrialsFacts
  <2>9. \/ v8' \in tried.believed /\ Search!Fresh
        \/ /\ v1' = stored /\ v2' = w /\ v4' = round.cacs
           /\ v5' = tried.scores /\ v6' = tried.cursor
           /\ v7' = v7 - (tried.cursor - round.cursor)
           /\ v3' = Search!CandsLeft(round, tried.cursor)
           /\ v8' = v8
    BY <1>1, <1>2, <1>6, <2>1, <2>2, <2>3 DEF Search!Push
  <2>10. CASE v8' \in tried.believed /\ Search!Fresh
    BY <2>8, <2>10, FreshFacts DEF SearchInv
  <2>11. CASE /\ v1' = stored /\ v2' = w /\ v4' = round.cacs
              /\ v5' = tried.scores /\ v6' = tried.cursor
              /\ v7' = v7 - (tried.cursor - round.cursor)
              /\ v3' = Search!CandsLeft(round, tried.cursor)
              /\ v8' = v8
    <3>0. PICK c, r : c = tried.cursor /\ r = round.cursor OBVIOUS
    <3>1. tried.cursor \in 0 .. Len(round.cands) /\ tried.cursor \in 0 .. Top
      <4>1. r \in Nat /\ c \in r .. last /\ last \in r .. m /\ Len(round.cands) = m
        BY <2>5, <2>6, <2>7, <2>8, <3>0
      <4>2. c \in 0 .. m BY <4>1, <2>6
      <4>3. m <= Top /\ Top \in Nat BY SearchBounds
      <4> QED BY <3>0, <4>1, <4>2, <4>3, <2>6
    <3>2. v7' \in 0 .. PerFeed
      <4>1. /\ r \in Nat /\ c \in r .. last /\ last \in Int /\ last <= r + v7
            /\ v7' = v7 - (c - r)
        BY <2>5, <2>6, <2>7, <2>8, <2>11, <3>0
      <4>2. v7' \in Nat /\ v7' <= v7 BY <4>1, <2>6
      <4> QED BY <4>2, SearchBounds DEF SearchInv
    <3>3. v3' = <<>> \/ v3' = round.cands BY <2>11 DEF Search!CandsLeft
    <3>4. Candidate(v3')
      <4>1. CASE v3' = <<>>
        <5>1. v3' = [i \in 1 .. 0 |-> v3'[i]] BY <4>1
        <5>2. 0 \in 0 .. Top BY SearchBounds
        <5> QED BY <5>1, <5>2 DEF Candidate
      <4>2. CASE v3' = round.cands BY <4>2, <2>4 DEF RoundRight
      <4> QED BY <3>3, <4>1, <4>2
    <3>5. v3' # <<>> => v3' = round.cands BY <3>3
    <3>6. /\ Round'.cands = v3' /\ Round'.cacs = round.cacs /\ Round'.scores = tried.scores
          /\ Round'.cursor = tried.cursor
      BY <2>11 DEF Round
    <3>7. RoundRight(Round', v13')
      BY <2>4, <2>8, <3>1, <3>4, <3>5, <3>6 DEF RoundRight
    <3> QED BY <1>3, <1>4, <2>11, <3>2, <3>7 DEF SearchInv
  <2> QED BY <2>9, <2>10, <2>11
<1> QED BY <1>5, <1>6

\* A search that begins has heard and stored nothing.
LEMMA SearchStarts == Search!SearchInit => SearchInv
<1> SUFFICES ASSUME Search!SearchInit PROVE SearchInv OBVIOUS
<1> DEFINE none == <<>>
<1>1. /\ v1 = none /\ v2 = [s \in Seeds |-> 0] /\ v3 = none /\ v4 = none
      /\ v5 = Search!Nothing /\ v6 = 0 /\ v7 = 0 /\ v8 = 0 /\ v9 \in Seeds \ {0} /\ v13 = {}
  BY DEF Search!SearchInit
<1>2. none \in Seq(Search!Looks) /\ Len(none) = 0 OBVIOUS
<1>3. HeardOf(none, v13) BY <1>2 DEF HeardOf
<1>4. none = [i \in 1 .. 0 |-> none[i]] OBVIOUS
<1>5. 0 \in 0 .. Top /\ 0 \in 0 .. PerFeed /\ 0 \in 0 .. WeightCap /\ 0 <= Window
      /\ 0 <= ScoreCACs
  BY SearchBounds
<1>6. Candidate(none) BY <1>4, <1>5 DEF Candidate
<1> HIDE DEF none
<1>7. Round.cands = none /\ Round.cacs = none /\ Round.scores = Search!Nothing /\ Round.cursor = 0
  BY <1>1 DEF Round
<1>8. ScoredOn(Search!Nothing, none) BY DEF Search!Nothing, ScoredOn
<1>9. none = <<>> BY DEF none
<1>10. RoundRight(Round, v13)
  BY <1>2, <1>3, <1>5, <1>6, <1>7, <1>8, <1>9 DEF RoundRight
<1> QED BY <1>1, <1>2, <1>3, <1>5, <1>10 DEF SearchInv

\* Each step of the search keeps its invariant.
LEMMA SearchStep == SearchInv /\ [Search!SearchNext]_(Search!searchVars) => SearchInv'
<1> SUFFICES ASSUME SearchInv, [Search!SearchNext]_(Search!searchVars) PROVE SearchInv' OBVIOUS
<1>1. CASE UNCHANGED Search!searchVars
  <2>1. UNCHANGED <<v1, v2, v3, v4, v5, v6, v7, v8, v9, v13>> BY <1>1 DEF Search!searchVars
  <2>2. Round' = Round BY <2>1 DEF Round
  <2> QED BY <2>1, <2>2 DEF SearchInv
<1>2. CASE Search!BeginFeed
  <2>1. UNCHANGED <<v1, v2, v3, v4, v5, v6, v8, v9, v13>> /\ v7' = PerFeed
    BY <1>2 DEF Search!BeginFeed
  <2>2. Round' = Round BY <2>1 DEF Round
  <2> QED BY <2>1, <2>2, SearchBounds DEF SearchInv
<1>3. CASE Search!GoodSlot
  <2>1. PICK look \in Search!GoodSlots : Search!Push(look) BY <1>3 DEF Search!GoodSlot
  <2>2. v13' = v13 \cup {v9} /\ v9' = v9 BY <1>3 DEF Search!GoodSlot
  <2>3. look.of = v9 /\ look \in Search!Looks
    BY <2>1 DEF SearchInv, Search!GoodSlots, Search!Looks
  <2> QED BY <2>1, <2>2, <2>3, PushKeeps DEF SearchInv
<1>4. CASE Search!NoisySlot
  <2>1. PICK look \in Search!NoisySlots : Search!Push(look) BY <1>4 DEF Search!NoisySlot
  <2>2. v13' = v13 /\ v9' = v9 BY <1>4 DEF Search!NoisySlot
  <2>3. ~look.crc /\ look \in Search!Looks BY <2>1 DEF Search!NoisySlots, Search!Looks
  <2> QED BY <2>1, <2>2, <2>3, PushKeeps DEF SearchInv
<1>5. CASE Search!OtherStation
  <2>1. UNCHANGED <<v1, v2, v3, v4, v5, v6, v7, v8, v13>> /\ v9' \in Seeds \ {0}
    BY <1>5 DEF Search!OtherStation, Search!search
  <2>2. Round' = Round BY <2>1 DEF Round
  <2> QED BY <2>1, <2>2 DEF SearchInv
<1>6. CASE Search!ResetSeed
  <2>1. v8' = 0 /\ v13' = {} /\ v9' \in Seeds \ {0} /\ Search!Fresh
    BY <1>6 DEF Search!ResetSeed
  <2> QED BY <2>1, FreshFacts DEF SearchInv
<1> QED BY <1>1, <1>2, <1>3, <1>4, <1>5, <1>6 DEF Search!SearchNext

\* What the invariant says of the search.
LEMMA SearchSaid == SearchInv => Search!SearchTypeOK /\ Search!ScoresOfOneRound /\ Search!FoundWasHeard
<1> SUFFICES ASSUME SearchInv
             PROVE  Search!SearchTypeOK /\ Search!ScoresOfOneRound /\ Search!FoundWasHeard
  OBVIOUS
<1>1. Round.cands = v3 /\ Round.cacs = v4 /\ Round.scores = v5 /\ Round.cursor = v6 BY DEF Round
<1>2. PICK m \in 0 .. Top : v3 = [i \in 1 .. m |-> v3[i]] BY <1>1 DEF SearchInv, RoundRight, Candidate
<1>3. m \in Nat /\ m <= Top BY SearchBounds
<1>4. Len(v3) <= Top BY <1>2, <1>3, SeqBy
<1>5. \A i \in DOMAIN v1 : v1[i] \in Search!Looks BY DEF SearchInv
<1>6. Search!SearchTypeOK
  BY <1>1, <1>4, <1>5, SearchBounds DEF SearchInv, RoundRight, Search!SearchTypeOK
<1>7. Search!ScoresOfOneRound
  <2>1. \A s \in DOMAIN v5 : v5[s] = Search!ScoreOf(v4, s) BY <1>1 DEF SearchInv, RoundRight, ScoredOn
  <2>2. v3 # <<>> => DOMAIN v5 = {v3[i] : i \in 1 .. v6}
    BY <1>1 DEF SearchInv, RoundRight, ScoredUpTo
  <2> QED BY <2>1, <2>2 DEF Search!ScoresOfOneRound
<1>8. Search!FoundWasHeard BY DEF SearchInv, Search!FoundWasHeard
<1> QED BY <1>6, <1>7, <1>8

\* The seeds a round of the search compares were scored on the same slots, and the seed
\* found is that of a station heard since the last reset (seed.go push, confidentInfo).
THEOREM SeedWasHeard == Spec => []SeedIsHeard
<1> DEFINE Inv == part = "search" => SearchInv
<1>1. Init => Inv BY SearchStarts DEF Init
<1>2. Inv /\ [Next]_vars => Inv'
  <2>1. ASSUME part = "search", [Next]_vars
        PROVE  part' = part /\ [Search!SearchNext]_(Search!searchVars)
    BY <2>1 DEF Next, vars, Search!searchVars
  <2>2. [Next]_vars => part' = part BY DEF Next, vars
  <2> QED BY <2>1, <2>2, SearchStep
<1>3. Inv => SeedIsHeard BY SearchSaid DEF SeedIsHeard
<1> QED BY <1>1, <1>2, <1>3, PTL DEF Spec

-----------------------------------------------------------------------------
(* The sound of a broadcast.                                               *)

Marks == {"good", "bad", "gap"}
Signs == {"o", "x", "X", "-", "_"}
Actions == {"none", "repeat", "mute"}
Concealers == [lastGood : BOOLEAN, run : Nat]

\* One of the first m letters is that of a good frame; one not too far before i is.
GoodTo(p, m) == \E j \in 1 .. m : p[j] = "o"
GoodNear(p, i) == \E j \in Nat : 1 <= j /\ j < i /\ i <= j + MaxRepeat /\ p[j] = "o"

\* The last good one of m was run before the m-th.
GoodAt(run, p, m) ==
    run < m /\ p[m - run] = "o" /\ \A j \in m - run + 1 .. m : p[j] # "o"

\* The concealer c has followed the first m letters of p.
Follows(c, p, m) ==
    /\ c \in Concealers
    /\ c.lastGood <=> GoodTo(p, m)
    /\ c.lastGood => GoodAt(c.run, p, m)

\* The first m letters of p tell whether the frame was repeated.
StripRight(p, m) ==
    \A i \in 1 .. m : p[i] # "o" => (p[i] \in {"x", "-"} <=> GoodNear(p, i))

\* Concealing an entry and telling its letter keeps both.
LEMMA OneLetter ==
  ASSUME NEW c, NEW p, NEW m \in Nat, Follows(c, p, m), StripRight(p, m),
         NEW e \in Marks, p[m + 1] = Sound!Letter(e, Sound!Action(c, e)),
         NEW d, d = Sound!Conceal(c, e)
  PROVE  Follows(d, p, m + 1) /\ StripRight(p, m + 1)
<1>0. c \in Concealers /\ c.run \in Nat /\ c.lastGood \in BOOLEAN /\ MaxRepeat \in Nat
  BY SoundBounds DEF Follows, Concealers
<1>1. e = "good" <=> p[m + 1] = "o" BY DEF Sound!Letter, Marks
<1>2. e # "good" =>
        (p[m + 1] \in {"x", "-"} <=> c.lastGood /\ c.run < MaxRepeat)
  BY DEF Sound!Letter, Sound!Action, Marks
<1>3. c.lastGood /\ c.run < MaxRepeat <=> GoodNear(p, m + 1)
  <2>1. ASSUME c.lastGood, c.run < MaxRepeat
        PROVE  GoodNear(p, m + 1)
    <3>1. GoodAt(c.run, p, m) BY <2>1 DEF Follows
    <3>2. PICK j : j = m - c.run OBVIOUS
    <3>3. j \in Nat /\ 1 <= j /\ j < m + 1 /\ m + 1 <= j + MaxRepeat /\ p[j] = "o"
      BY <1>0, <2>1, <3>1, <3>2 DEF GoodAt
    <3> QED BY <3>3 DEF GoodNear
  <2>2. ASSUME GoodNear(p, m + 1)
        PROVE  c.lastGood /\ c.run < MaxRepeat
    <3>0. PICK j \in Nat : 1 <= j /\ j < m + 1 /\ m + 1 <= j + MaxRepeat /\ p[j] = "o"
      BY <2>2 DEF GoodNear
    <3>1. GoodTo(p, m) BY <3>0 DEF GoodTo
    <3>2. c.lastGood BY <3>1 DEF Follows
    <3>3. \A k \in m - c.run + 1 .. m : p[k] # "o" BY <3>2 DEF Follows, GoodAt
    <3>4. j <= m - c.run BY <1>0, <3>0, <3>3
    <3> QED BY <1>0, <3>0, <3>2, <3>4
  <2> QED BY <2>1, <2>2
<1>4. StripRight(p, m + 1)
  <2>1. p[m + 1] # "o" => (p[m + 1] \in {"x", "-"} <=> GoodNear(p, m + 1))
    BY <1>1, <1>2, <1>3
  <2>2. \A i \in 1 .. m + 1 : i \in 1 .. m \/ i = m + 1 OBVIOUS
  <2> QED BY <2>1, <2>2 DEF StripRight
<1>5. CASE e = "good"
  <2>1. d = [lastGood |-> TRUE, run |-> 0] BY <1>5 DEF Sound!Conceal
  <2>2. d \in Concealers /\ d.lastGood /\ d.run = 0 BY <2>1 DEF Concealers
  <2>3. p[m + 1] = "o" /\ m + 1 \in 1 .. m + 1 BY <1>1, <1>5
  <2>5. GoodTo(p, m + 1) BY <2>3 DEF GoodTo
  <2>6. GoodAt(d.run, p, m + 1)
    <3>1. m + 1 - 0 = m + 1 /\ m + 1 - 0 + 1 .. m + 1 = {} OBVIOUS
    <3> QED BY <2>2, <2>3, <3>1 DEF GoodAt
  <2>4. Follows(d, p, m + 1) BY <2>2, <2>3, <2>5, <2>6 DEF Follows
  <2> QED BY <1>4, <2>4
<1>6. CASE e # "good"
  <2>1. d = [c EXCEPT !.run = @ + 1] BY <1>6 DEF Sound!Conceal
  <2>2. d \in Concealers /\ d.lastGood = c.lastGood /\ d.run = c.run + 1
    BY <1>0, <2>1 DEF Concealers
  <2>3. p[m + 1] # "o" BY <1>1, <1>6
  <2>4. GoodTo(p, m) <=> GoodTo(p, m + 1)
    <3>1. \A j \in 1 .. m + 1 : j \in 1 .. m \/ j = m + 1 OBVIOUS
    <3>2. \A j \in 1 .. m : j \in 1 .. m + 1 OBVIOUS
    <3> QED BY <2>3, <3>1, <3>2 DEF GoodTo
  <2>5. ASSUME d.lastGood
        PROVE  GoodAt(d.run, p, m + 1)
    <3>1. c.run < m /\ p[m - c.run] = "o" /\ \A j \in m - c.run + 1 .. m : p[j] # "o"
      BY <2>2, <2>5 DEF Follows, GoodAt
    <3>2. m + 1 - d.run = m - c.run BY <1>0, <2>2
    <3>3. \A j \in m + 1 - d.run + 1 .. m + 1 : j \in m - c.run + 1 .. m \/ j = m + 1
      BY <1>0, <2>2
    <3> QED BY <1>0, <2>2, <2>3, <3>1, <3>2, <3>3 DEF GoodAt
  <2>7. d.lastGood <=> GoodTo(p, m + 1) BY <2>2, <2>4 DEF Follows
  <2>8. Follows(d, p, m + 1) BY <2>2, <2>5, <2>7 DEF Follows
  <2> QED BY <1>4, <2>8
<1> QED BY <1>5, <1>6

\* The recursion of Concealing is one.
LEMMA ConcealingSteps ==
  ASSUME NEW e \in Seq(Marks), NEW after, after = Sound!Concealing(e)
  PROVE  /\ after[0] = v3
         /\ \A k \in 1 .. Len(e) : after[k] = Sound!Conceal(after[k - 1], e[k])
<1> DEFINE Steps(f, n) ==
               f = [k \in 0 .. n |-> IF k = 0 THEN v3 ELSE Sound!Conceal(f[k - 1], e[k])]
           L == Len(e)
           bad == {n \in 0 .. L : ~\E f : Steps(f, n)}
<1>0. L \in Nat OBVIOUS
<1>1. bad = {}
  <2> SUFFICES ASSUME bad # {} PROVE FALSE OBVIOUS
  <2>1. bad \subseteq Nat BY <1>0
  <2> HIDE DEF bad
  <2>2. PICK n \in bad : \A m \in bad : n <= m BY <2>1, LeastNatural
  <2> USE DEF bad
  <2>3. n \in 0 .. L /\ ~\E f : Steps(f, n) OBVIOUS
  <2>4. CASE n = 0
    <3>1. \A f : f = [k \in 0 .. 0 |-> v3] => Steps(f, 0) OBVIOUS
    <3> QED BY <2>3, <2>4, <3>1
  <2>5. CASE n # 0
    <3>1. n - 1 \in 0 .. L /\ n - 1 \notin bad BY <1>0, <2>2, <2>3, <2>5
    <3>2. PICK f : Steps(f, n - 1) BY <3>1
    <3>3. PICK g : g = [k \in 0 .. n |-> IF k = n THEN Sound!Conceal(f[n - 1], e[n]) ELSE f[k]]
      OBVIOUS
    <3>4. \A k \in 0 .. n - 1 : f[k] = IF k = 0 THEN v3 ELSE Sound!Conceal(f[k - 1], e[k])
      BY <3>2
    <3>5. \A k \in 0 .. n - 1 : g[k] = f[k] BY <2>3, <3>3
    <3>6. g[n] = Sound!Conceal(g[n - 1], e[n]) BY <2>3, <2>5, <3>3, <3>5
    <3>7. \A k \in 0 .. n - 1 : g[k] = IF k = 0 THEN v3 ELSE Sound!Conceal(g[k - 1], e[k])
      <4> SUFFICES ASSUME NEW k \in 0 .. n - 1
                   PROVE  g[k] = IF k = 0 THEN v3 ELSE Sound!Conceal(g[k - 1], e[k])
        OBVIOUS
      <4>1. CASE k = 0 BY <3>4, <3>5, <4>1
      <4>2. CASE k # 0
        <5>1. k - 1 \in 0 .. n - 1 BY <2>3, <4>2
        <5> QED BY <3>4, <3>5, <4>2, <5>1
      <4> QED BY <4>1, <4>2
    <3>8. \A k \in 0 .. n : k \in 0 .. n - 1 \/ k = n BY <2>3
    <3>9. \A k \in 0 .. n : g[k] = IF k = 0 THEN v3 ELSE Sound!Conceal(g[k - 1], e[k])
      BY <2>5, <3>6, <3>7, <3>8
    <3>10. g = [k \in 0 .. n |-> g[k]] BY <3>3
    <3>11. [k \in 0 .. n |-> g[k]]
             = [k \in 0 .. n |-> IF k = 0 THEN v3 ELSE Sound!Conceal(g[k - 1], e[k])]
      BY <3>9
    <3>12. Steps(g, n) BY <3>10, <3>11
    <3> QED BY <2>3, <3>12
  <2> QED BY <2>4, <2>5
<1>2. \E f : Steps(f, L) BY <1>0, <1>1
<1>3. Steps(after, L) BY <1>2 DEF Sound!Concealing
<1> QED BY <1>0, <1>3

\* What is given place by place is a sequence over what it is given.
LEMMA SeqOver ==
  ASSUME NEW T, NEW n \in Nat, NEW q, q = [i \in 1 .. n |-> q[i]],
         \A i \in 1 .. n : q[i] \in T
  PROVE  q \in Seq(T) /\ Len(q) = n
<1>1. q \in [1 .. n -> T] OBVIOUS
<1> QED BY <1>1

\* What stands in a sequence and in what follows it.
LEMMA JoinedSeq ==
  ASSUME NEW T, NEW q \in Seq(T), NEW l \in Seq(T)
  PROVE  /\ q \o l \in Seq(T) /\ Len(q \o l) = Len(q) + Len(l)
         /\ \A j \in 1 .. Len(q) : (q \o l)[j] = q[j]
         /\ \A j \in 1 .. Len(l) : (q \o l)[Len(q) + j] = l[j]
OBVIOUS

\* Letters in common are read alike.
LEMMA SamePrefix ==
  ASSUME NEW c, NEW q, NEW p, NEW m \in Nat, \A j \in 1 .. m : p[j] = q[j],
         Follows(c, q, m), StripRight(q, m)
  PROVE  Follows(c, p, m) /\ StripRight(p, m)
<1>1. GoodTo(p, m) <=> GoodTo(q, m) BY DEF GoodTo
<1>2. c \in Concealers /\ (c.lastGood <=> GoodTo(q, m)) BY DEF Follows
<1>3. ASSUME c.lastGood PROVE GoodAt(c.run, p, m)
  <2>1. GoodAt(c.run, q, m) /\ c.run \in Nat BY <1>3 DEF Follows, Concealers
  <2>2. m - c.run \in 1 .. m BY <2>1 DEF GoodAt
  <2>3. \A j \in m - c.run + 1 .. m : j \in 1 .. m BY <2>1 DEF GoodAt
  <2> QED BY <2>1, <2>2, <2>3 DEF GoodAt
<1>4. Follows(c, p, m) BY <1>1, <1>2, <1>3 DEF Follows
<1>5. \A i \in 1 .. m : GoodNear(p, i) <=> GoodNear(q, i)
  <2>1. \A i \in 1 .. m : \A j \in Nat : 1 <= j /\ j < i => j \in 1 .. m OBVIOUS
  <2> QED BY <2>1 DEF GoodNear
<1>6. StripRight(p, m) BY <1>5 DEF StripRight
<1> QED BY <1>4, <1>6

\* A batch is told in letters that go on from the strip, and the concealer follows.
LEMMA LettersFollow ==
  ASSUME NEW q \in Seq(Signs), Follows(v3, q, Len(q)), StripRight(q, Len(q)),
         NEW e \in Seq(Marks), NEW l \in Seq(Signs), Len(l) = Len(e),
         \A i \in 1 .. Len(e) :
            l[i] = Sound!Letter(e[i], Sound!Action(Sound!Concealing(e)[i - 1], e[i]))
  PROVE  /\ Follows(Sound!Concealing(e)[Len(e)], q \o l, Len(q) + Len(e))
         /\ StripRight(q \o l, Len(q) + Len(e))
<1>0. PICK p, after : p = q \o l /\ after = Sound!Concealing(e) OBVIOUS
<1> DEFINE m == Len(q)
           n == Len(e)
           right(k) == Follows(after[k], p, m + k) /\ StripRight(p, m + k)
           bad == {k \in 0 .. n : ~right(k)}
<1>1. m \in Nat /\ n \in Nat /\ DOMAIN e = 1 .. n OBVIOUS
<1>5. /\ \A j \in 1 .. m : p[j] = q[j]
      /\ \A j \in 1 .. n : p[m + j] = l[j]
  BY <1>0, JoinedSeq
<1>6. bad = {}
  <2> SUFFICES ASSUME bad # {} PROVE FALSE OBVIOUS
  <2>1. bad \subseteq Nat BY <1>1
  <2> HIDE DEF bad
  <2>2. PICK k \in bad : \A x \in bad : k <= x BY <2>1, LeastNatural
  <2> USE DEF bad
  <2>3. k \in 0 .. n /\ ~right(k) OBVIOUS
  <2>4. CASE k = 0
    <3>1. after[0] = v3 BY <1>0, ConcealingSteps
    <3>2. m + 0 = m BY <1>1
    <3> QED BY <1>1, <1>5, <2>3, <2>4, <3>1, <3>2, SamePrefix
  <2>5. CASE k # 0
    <3>1. k - 1 \in 0 .. n /\ k - 1 \notin bad BY <1>1, <2>2, <2>3, <2>5
    <3>2. right(k - 1) BY <3>1
    <3>3. PICK j : j = m + (k - 1) OBVIOUS
    <3>4. j \in Nat /\ j + 1 = m + k /\ k \in 1 .. n BY <1>1, <2>3, <2>5, <3>3
    <3>5. e[k] \in Marks BY <1>1, <3>4
    <3>6. p[j + 1] = Sound!Letter(e[k], Sound!Action(after[k - 1], e[k]))
      BY <1>0, <1>1, <1>5, <3>4
    <3>7. after[k] = Sound!Conceal(after[k - 1], e[k]) BY <1>0, <3>4, ConcealingSteps
    <3>8. Follows(after[k - 1], p, j) /\ StripRight(p, j) BY <3>2, <3>3
    <3>9. Follows(after[k], p, j + 1) /\ StripRight(p, j + 1)
      BY <3>4, <3>5, <3>6, <3>7, <3>8, OneLetter
    <3> QED BY <2>3, <3>4, <3>9
  <2> QED BY <2>4, <2>5
<1>7. n \in 0 .. n BY <1>1
<1>8. right(n) BY <1>6, <1>7
<1> QED BY <1>0, <1>8

-----------------------------------------------------------------------------
(* Counting.                                                               *)

\* A set whose elements are named one to one by those of another is as large.
LEMMA NamedOneToOne ==
  ASSUME NEW A, IsFiniteSet(A), NEW B, NEW f, f \in [A -> B],
         \A x, y \in A : f[x] = f[y] => x = y, \A b \in B : \E x \in A : f[x] = b
  PROVE  IsFiniteSet(B) /\ Cardinality(B) = Cardinality(A)
<1>1. f \in Bijection(A, B) BY DEF Bijection, Injection, Surjection, IsInjective
<1>2. ExistsBijection(A, B) BY <1>1 DEF ExistsBijection
<1> QED BY <1>2, FS_Bijection

\* The instance counts as this module does.
LEMMA SoundCounts ==
  ASSUME NEW S
  PROVE  Sound!Cardinality(S) = Cardinality(S)
BY DEF Sound!Cardinality, Cardinality

\* Count is a number, at most the length of the sequence.
LEMMA CountFacts ==
  ASSUME NEW T, NEW s \in Seq(T), NEW S
  PROVE  /\ Sound!Count(s, S) = Cardinality({i \in 1 .. Len(s) : s[i] \in S})
         /\ IsFiniteSet({i \in 1 .. Len(s) : s[i] \in S})
         /\ Sound!Count(s, S) \in Nat /\ Sound!Count(s, S) <= Len(s)
<1> DEFINE I == {i \in 1 .. Len(s) : s[i] \in S}
<1>1. Len(s) \in Nat /\ DOMAIN s = 1 .. Len(s) OBVIOUS
<1>2. IsFiniteSet(1 .. Len(s)) /\ Cardinality(1 .. Len(s)) = Len(s) BY <1>1, FS_Interval
<1>3. I \in SUBSET (1 .. Len(s)) OBVIOUS
<1>4. IsFiniteSet(I) /\ Cardinality(I) \in Nat /\ Cardinality(I) <= Len(s)
  BY <1>2, <1>3, FS_Subset, FS_CardinalityType
<1>5. Sound!Count(s, S) = Cardinality(I) BY <1>1, SoundCounts DEF Sound!Count
<1> QED BY <1>4, <1>5

\* Sequences that are alike, place by place, count the same.
LEMMA CountAlike ==
  ASSUME NEW s, NEW t, DOMAIN s = DOMAIN t, NEW S, NEW R,
         \A i \in DOMAIN s : s[i] \in S <=> t[i] \in R
  PROVE  Sound!Count(s, S) = Sound!Count(t, R)
<1>1. PICK I, J : I = {i \in DOMAIN s : s[i] \in S} /\ J = {i \in DOMAIN t : t[i] \in R}
  OBVIOUS
<1>2. I = J BY <1>1
<1>3. Sound!Count(s, S) = Cardinality(I) BY <1>1, SoundCounts DEF Sound!Count
<1>4. Sound!Count(t, R) = Cardinality(J) BY <1>1, SoundCounts DEF Sound!Count
<1> QED BY <1>2, <1>3, <1>4

\* What is counted in a sequence and in what follows it is counted in both.
LEMMA CountJoined ==
  ASSUME NEW T, NEW s \in Seq(T), NEW t \in Seq(T), NEW S
  PROVE  Sound!Count(s \o t, S) = Sound!Count(s, S) + Sound!Count(t, S)
<1>1. PICK u, m, n : u = s \o t /\ m = Len(s) /\ n = Len(t) OBVIOUS
<1>2. /\ u \in Seq(T) /\ m \in Nat /\ n \in Nat /\ Len(u) = m + n
      /\ \A i \in 1 .. m : u[i] = s[i]
      /\ \A i \in 1 .. n : u[m + i] = t[i]
  BY <1>1
<1> DEFINE A == {i \in 1 .. m : s[i] \in S}
           B == {i \in 1 .. n : t[i] \in S}
           C == {i \in m + 1 .. m + n : u[i] \in S}
           D == {i \in 1 .. m + n : u[i] \in S}
           f == [i \in B |-> m + i]
<1>3. IsFiniteSet(A) /\ IsFiniteSet(B) BY <1>1, CountFacts
<1>4. IsFiniteSet(C) /\ Cardinality(C) = Cardinality(B)
  <2>1. \A i \in B : m + i \in C BY <1>2
  <2>2. f \in [B -> C] BY <2>1
  <2>3. \A x, y \in B : f[x] = f[y] => x = y BY <1>2
  <2>4. ASSUME NEW c \in C PROVE \E x \in B : f[x] = c
    <3>1. c - m \in 1 .. n /\ m + (c - m) = c BY <1>2
    <3>2. c - m \in B BY <1>2, <3>1
    <3> QED BY <3>1, <3>2
  <2> HIDE DEF f, B, C
  <2> QED BY <1>3, <2>2, <2>3, <2>4, NamedOneToOne
<1>5. D = A \cup C
  <2>1. \A i : i \in 1 .. m + n <=> i \in 1 .. m \/ i \in m + 1 .. m + n BY <1>2
  <2> QED BY <1>2, <2>1
<1>6. A \cap C = {} BY <1>2
<1>7. Cardinality(A) \in Nat /\ Cardinality(C) \in Nat
  BY <1>3, <1>4, FS_CardinalityType
<1>8. Sound!Count(s, S) = Cardinality(A) BY CountFacts, <1>1
<1>9. Sound!Count(t, S) = Cardinality(B) BY CountFacts, <1>1
<1>10. Sound!Count(u, S) = Cardinality(D)
  <2>1. Sound!Count(u, S) = Cardinality({i \in 1 .. Len(u) : u[i] \in S}) BY <1>2, CountFacts
  <2> QED BY <1>2, <2>1
<1> HIDE DEF A, B, C, D
<1>11. Cardinality(D) = Cardinality(A) + Cardinality(C)
  <2>1. Cardinality(A \cap C) = 0 BY <1>6, FS_EmptySet
  <2>2. Cardinality(A \cup C) = Cardinality(A) + Cardinality(C) - Cardinality(A \cap C)
    BY <1>3, <1>4, FS_Union
  <2> QED BY <1>5, <1>7, <2>1, <2>2
<1> QED BY <1>1, <1>4, <1>8, <1>9, <1>10, <1>11

-----------------------------------------------------------------------------
(* The invariant of the sound of a broadcast.                              *)

StatsOK(s) ==
    /\ s \in [frames : Nat, filled : Nat, crcOK : Nat, crcFail : Nat, plcRepeat : Nat,
             plcMute : Nat, stale : Nat, staleTold : Nat, quality : Seq(Signs)]
    /\ s.staleTold <= s.stale

\* The counters are those of the strip.
LettersCounted(s) ==
    /\ s.crcOK = Sound!Count(s.quality, {"o"})
    /\ s.crcFail = Sound!Count(s.quality, {"x", "X"})
    /\ s.plcRepeat = Sound!Count(s.quality, {"x", "-"})
    /\ s.plcMute = Sound!Count(s.quality, {"X", "_"})

\* All but what is pending has been told, dropped or decoded.
Decoded ==
    /\ v1 \in BOOLEAN /\ v5 \in Nat /\ v8 \in Nat
    /\ StatsOK(v4) /\ LettersCounted(v4)
    /\ v4.frames + v4.filled = v8 + Len(v4.quality)
    /\ Follows(v3, v4.quality, Len(v4.quality))
    /\ StripRight(v4.quality, Len(v4.quality))
    /\ v5 <= Len(v4.quality)

SoundInv ==
    /\ Decoded
    /\ v2 \in Seq(Marks) /\ Len(v2) < BatchFrames
    /\ v6 \in BOOLEAN /\ v7 \in Seq(Marks)
    /\ Len(v7) = Len(v2) + v8 + Len(v4.quality)

\* What a batch adds to the counters of the strip.
LEMMA BatchCounted ==
  ASSUME NEW e \in Seq(Marks), NEW a \in Seq(Actions), Len(a) = Len(e),
         \A i \in 1 .. Len(e) : e[i] = "good" <=> a[i] = "none",
         NEW l \in Seq(Signs), Len(l) = Len(e),
         \A i \in 1 .. Len(e) : l[i] = Sound!Letter(e[i], a[i])
  PROVE  /\ Sound!Count(l, {"o"}) = Sound!Count(e, {"good"})
         /\ Sound!Count(l, {"x", "X"}) = Sound!Count(e, {"bad"})
         /\ Sound!Count(l, {"x", "-"}) = Sound!Count(a, {"repeat"})
         /\ Sound!Count(l, {"X", "_"}) = Sound!Count(a, {"mute"})
<1>0. DOMAIN l = DOMAIN e /\ DOMAIN l = DOMAIN a OBVIOUS
<1>1. \A i \in DOMAIN l : /\ e[i] \in Marks /\ a[i] \in Actions
                          /\ l[i] = Sound!Letter(e[i], a[i])
                          /\ e[i] = "good" <=> a[i] = "none"
  OBVIOUS
<1>2. \A i \in DOMAIN l : /\ l[i] \in {"o"} <=> e[i] \in {"good"}
                          /\ l[i] \in {"x", "X"} <=> e[i] \in {"bad"}
                          /\ l[i] \in {"x", "-"} <=> a[i] \in {"repeat"}
                          /\ l[i] \in {"X", "_"} <=> a[i] \in {"mute"}
  BY <1>1 DEF Sound!Letter, Marks, Actions
<1>3. PICK o, x, r, m, good, bad, rep, mute :
         /\ o = {"o"} /\ x = {"x", "X"} /\ r = {"x", "-"} /\ m = {"X", "_"}
         /\ good = {"good"} /\ bad = {"bad"} /\ rep = {"repeat"} /\ mute = {"mute"}
  OBVIOUS
<1>4. \A i \in DOMAIN l : /\ l[i] \in o <=> e[i] \in good
                          /\ l[i] \in x <=> e[i] \in bad
                          /\ l[i] \in r <=> a[i] \in rep
                          /\ l[i] \in m <=> a[i] \in mute
  BY <1>2, <1>3
<1>5. Sound!Count(l, o) = Sound!Count(e, good) BY <1>0, <1>4, CountAlike
<1>6. Sound!Count(l, x) = Sound!Count(e, bad) BY <1>0, <1>4, CountAlike
<1>7. Sound!Count(l, r) = Sound!Count(a, rep) BY <1>0, <1>4, CountAlike
<1>8. Sound!Count(l, m) = Sound!Count(a, mute) BY <1>0, <1>4, CountAlike
<1> QED BY <1>3, <1>5, <1>6, <1>7, <1>8

\* decodeBatch: the entries are dropped, or decoded, concealed and told.
LEMMA BatchKeeps ==
  ASSUME Decoded, v1' = v1, NEW e \in Seq(Marks), NEW ok \in BOOLEAN,
         Sound!DecodeBatch(e, ok)
  PROVE  /\ Decoded' /\ v2' = <<>>
         /\ v8' + Len(v4'.quality) = v8 + Len(v4.quality) + Len(e)
<1> DEFINE after == Sound!Concealing(e)
           acts == [i \in DOMAIN e |-> Sound!Action(after[i - 1], e[i])]
           l == [i \in DOMAIN e |-> Sound!Letter(e[i], acts[i])]
           real == Sound!Count(e, {"good", "bad"})
           n == Len(e)
<1>0. e \in Seq(Marks) OBVIOUS
<1>1. n \in Nat /\ DOMAIN e = 1 .. n OBVIOUS
<1>2. real \in Nat /\ real <= n BY CountFacts
<1>3. CASE e = <<>>
  <2>1. v3' = v3 /\ v4' = v4 /\ v5' = v5 /\ v8' = v8 /\ v2' = <<>>
    BY <1>3 DEF Sound!DecodeBatch
  <2>2. n = 0 BY <1>3
  <2> QED BY <2>1, <2>2 DEF Decoded
<1>4. CASE e # <<>> /\ ~v1
  <2>1. /\ v4' = [v4 EXCEPT !.frames = @ + real, !.filled = @ + n - real,
                           !.staleTold = v4.stale]
        /\ v8' = v8 + n /\ v3' = v3 /\ v5' = v5 /\ v2' = <<>>
    BY <1>4 DEF Sound!DecodeBatch
  <2> HIDE DEF real, n
  <2>5. v4 \in [frames : Nat, filled : Nat, crcOK : Nat, crcFail : Nat, plcRepeat : Nat,
                plcMute : Nat, stale : Nat, staleTold : Nat, quality : Seq(Signs)]
    BY DEF Decoded, StatsOK
  <2>6. PICK f, g : f = v4.frames + real /\ g = v4.filled + n - real OBVIOUS
  <2>7. f \in Nat /\ g \in Nat
    <3>1. PICK x, y : x = v4.frames /\ y = v4.filled OBVIOUS
    <3>2. x \in Nat /\ y \in Nat BY <2>5, <3>1
    <3>3. f = x + real /\ g = y + n - real BY <2>6, <3>1
    <3> QED BY <1>1, <1>2, <3>2, <3>3
  <2>8. v4' = [v4 EXCEPT !.frames = f, !.filled = g, !.staleTold = v4.stale] BY <2>1, <2>6
  <2>9. /\ v4'.quality = v4.quality /\ v4'.crcOK = v4.crcOK /\ v4'.crcFail = v4.crcFail
        /\ v4'.plcRepeat = v4.plcRepeat /\ v4'.plcMute = v4.plcMute
        /\ v4'.stale = v4.stale /\ v4'.staleTold = v4.stale
        /\ v4'.frames = f /\ v4'.filled = g
    BY <2>5, <2>8
  <2>10. v4' \in [frames : Nat, filled : Nat, crcOK : Nat, crcFail : Nat, plcRepeat : Nat,
                  plcMute : Nat, stale : Nat, staleTold : Nat, quality : Seq(Signs)]
    BY <2>5, <2>7, <2>8
  <2>2. StatsOK(v4') /\ v4'.quality = v4.quality /\ LettersCounted(v4')
    <3>1. StatsOK(v4') BY <2>5, <2>9, <2>10 DEF StatsOK
    <3>2. LettersCounted(v4) BY DEF Decoded
    <3>3. LettersCounted(v4') BY <2>9, <3>2 DEF LettersCounted
    <3> QED BY <2>9, <3>1, <3>3
  <2>4. Len(v4.quality) \in Nat BY DEF Decoded, StatsOK
  <2>3. v4'.frames + v4'.filled = v8' + Len(v4'.quality)
    <3>1. v8' = v8 + n BY <2>1
    <3>2. v4.frames + v4.filled = v8 + Len(v4.quality) /\ v8 \in Nat BY DEF Decoded
    <3>3. v4.frames \in Nat /\ v4.filled \in Nat BY <2>5
    <3>4. PICK x, y, w, k : x = v4.frames /\ y = v4.filled /\ w = v8 /\ k = Len(v4.quality)
      OBVIOUS
    <3>5. x + y = w + k /\ x \in Nat /\ y \in Nat /\ w \in Nat /\ k \in Nat
      BY <2>4, <3>2, <3>3, <3>4
    <3>6. f = x + real /\ g = y + n - real BY <2>6, <3>4
    <3>7. f + g = w + n + k BY <1>1, <1>2, <3>5, <3>6
    <3> QED BY <2>9, <3>1, <3>4, <3>7
  <2> QED BY <1>1, <2>1, <2>2, <2>3, <2>4 DEF Decoded
<1>5. CASE e # <<>> /\ v1
  <2>1. /\ v3' = after[n] /\ v8' = v8 /\ v2' = <<>>
        /\ v5' = IF ok THEN v5 + n ELSE v5
        /\ v4' = [[v4 EXCEPT !.frames = @ + real, !.filled = @ + n - real,
                            !.staleTold = v4.stale] EXCEPT
                     !.crcOK = @ + Sound!Count(e, {"good"}),
                     !.crcFail = @ + Sound!Count(e, {"bad"}),
                     !.plcRepeat = @ + Sound!Count(acts, {"repeat"}),
                     !.plcMute = @ + Sound!Count(acts, {"mute"}),
                     !.quality = @ \o l]
    BY <1>5 DEF Sound!DecodeBatch
  <2>2. PICK q, p : q = v4.quality /\ p = q \o l OBVIOUS
  <2>3. q \in Seq(Signs) /\ Follows(v3, q, Len(q)) /\ StripRight(q, Len(q))
    BY <2>2 DEF Decoded, StatsOK
  <2>4. \A i \in 1 .. n : acts[i] = Sound!Action(after[i - 1], e[i]) BY <1>1
  <2>5. \A i \in 1 .. n : l[i] = Sound!Letter(e[i], acts[i]) BY <1>1
  <2>6. acts = [i \in 1 .. n |-> acts[i]] /\ l = [i \in 1 .. n |-> l[i]] BY <1>1
  <2>7. after = Sound!Concealing(e) OBVIOUS
  <2> HIDE DEF after, acts, l, real
  <2>8. acts \in Seq(Actions) /\ Len(acts) = Len(e)
    <3>1. \A i \in 1 .. n : acts[i] \in Actions BY <2>4 DEF Sound!Action, Actions
    <3> QED BY <1>1, <2>6, <3>1, SeqOver
  <2>22. l \in Seq(Signs) /\ Len(l) = Len(e)
    <3>1. \A i \in 1 .. n : l[i] \in Signs BY <2>5 DEF Sound!Letter, Signs
    <3> QED BY <1>1, <2>6, <3>1, SeqOver
  <2>23. \A i \in 1 .. Len(e) : e[i] = "good" <=> acts[i] = "none"
    BY <2>4 DEF Sound!Action
  <2>24. \A i \in 1 .. Len(e) :
            l[i] = Sound!Letter(e[i], Sound!Action(Sound!Concealing(e)[i - 1], e[i]))
    BY <2>4, <2>5, <2>7
  <2>25. \A i \in 1 .. Len(e) : l[i] = Sound!Letter(e[i], acts[i]) BY <2>5
  <2>9. /\ p \in Seq(Signs) /\ Len(p) = Len(q) + n
        /\ Follows(after[n], p, Len(p)) /\ StripRight(p, Len(p))
    <3>1. /\ Follows(Sound!Concealing(e)[Len(e)], q \o l, Len(q) + Len(e))
          /\ StripRight(q \o l, Len(q) + Len(e))
      BY <2>3, <2>7, <2>22, <2>24, LettersFollow
    <3>2. p \in Seq(Signs) /\ Len(p) = Len(q) + Len(l) BY <2>2, <2>3, <2>22, JoinedSeq
    <3> QED BY <2>2, <2>7, <2>22, <3>1, <3>2
  <2>10. /\ Sound!Count(p, {"o"}) = Sound!Count(q, {"o"}) + Sound!Count(e, {"good"})
         /\ Sound!Count(p, {"x", "X"}) = Sound!Count(q, {"x", "X"}) + Sound!Count(e, {"bad"})
         /\ Sound!Count(p, {"x", "-"}) = Sound!Count(q, {"x", "-"}) + Sound!Count(acts, {"repeat"})
         /\ Sound!Count(p, {"X", "_"}) = Sound!Count(q, {"X", "_"}) + Sound!Count(acts, {"mute"})
    <3>1. /\ Sound!Count(l, {"o"}) = Sound!Count(e, {"good"})
          /\ Sound!Count(l, {"x", "X"}) = Sound!Count(e, {"bad"})
          /\ Sound!Count(l, {"x", "-"}) = Sound!Count(acts, {"repeat"})
          /\ Sound!Count(l, {"X", "_"}) = Sound!Count(acts, {"mute"})
      BY <2>8, <2>22, <2>23, <2>25, BatchCounted
    <3>2. \A S : Sound!Count(p, S) = Sound!Count(q, S) + Sound!Count(l, S)
      BY <2>2, <2>3, <2>22, CountJoined
    <3> QED BY <3>1, <3>2
  <2>11. PICK good, bad, rep, mute :
            /\ good = Sound!Count(e, {"good"}) /\ bad = Sound!Count(e, {"bad"})
            /\ rep = Sound!Count(acts, {"repeat"}) /\ mute = Sound!Count(acts, {"mute"})
    OBVIOUS
  <2>12. v4 \in [frames : Nat, filled : Nat, crcOK : Nat, crcFail : Nat, plcRepeat : Nat,
                 plcMute : Nat, stale : Nat, staleTold : Nat, quality : Seq(Signs)]
    BY DEF Decoded, StatsOK
  <2>13. PICK f, g, c1, c2, c3, c4 :
            /\ f = v4.frames + real /\ g = v4.filled + n - real
            /\ c1 = v4.crcOK + good /\ c2 = v4.crcFail + bad
            /\ c3 = v4.plcRepeat + rep /\ c4 = v4.plcMute + mute
    OBVIOUS
  <2>14. v4' = [v4 EXCEPT !.frames = f, !.filled = g, !.staleTold = v4.stale, !.crcOK = c1,
                          !.crcFail = c2, !.plcRepeat = c3, !.plcMute = c4, !.quality = p]
    BY <2>1, <2>2, <2>11, <2>12, <2>13
  <2>15. /\ v4'.quality = p /\ v4'.crcOK = c1 /\ v4'.crcFail = c2
         /\ v4'.plcRepeat = c3 /\ v4'.plcMute = c4
         /\ v4'.stale = v4.stale /\ v4'.staleTold = v4.stale
         /\ v4'.frames = f /\ v4'.filled = g
    BY <2>12, <2>14
  <2>21. LettersCounted(v4')
    <3>1. LettersCounted(v4) BY DEF Decoded
    <3> QED BY <2>2, <2>10, <2>11, <2>13, <2>15, <3>1 DEF LettersCounted
  <2>16. StatsOK(v4')
    <3>1. \A S : Sound!Count(p, S) \in Nat BY <2>9, CountFacts
    <3>6. /\ c1 = Sound!Count(p, {"o"}) /\ c2 = Sound!Count(p, {"x", "X"})
          /\ c3 = Sound!Count(p, {"x", "-"}) /\ c4 = Sound!Count(p, {"X", "_"})
      <4>1. LettersCounted(v4') BY <2>21
      <4>2. /\ v4'.crcOK = Sound!Count(v4'.quality, {"o"})
            /\ v4'.crcFail = Sound!Count(v4'.quality, {"x", "X"})
            /\ v4'.plcRepeat = Sound!Count(v4'.quality, {"x", "-"})
            /\ v4'.plcMute = Sound!Count(v4'.quality, {"X", "_"})
        BY <4>1 DEF LettersCounted
      <4> QED BY <2>15, <4>2
    <3>2. c1 \in Nat /\ c2 \in Nat /\ c3 \in Nat /\ c4 \in Nat
      <4>1. PICK o, x, r, m : o = {"o"} /\ x = {"x", "X"} /\ r = {"x", "-"} /\ m = {"X", "_"}
        OBVIOUS
      <4>2. /\ c1 = Sound!Count(p, o) /\ c2 = Sound!Count(p, x)
            /\ c3 = Sound!Count(p, r) /\ c4 = Sound!Count(p, m)
        BY <3>6, <4>1
      <4>3. c1 \in Nat BY <3>1, <4>2
      <4>4. c2 \in Nat BY <3>1, <4>2
      <4>5. c3 \in Nat BY <3>1, <4>2
      <4>6. c4 \in Nat BY <3>1, <4>2
      <4> QED BY <4>3, <4>4, <4>5, <4>6
    <3>3. f \in Nat /\ g \in Nat
      <4>1. PICK x, y : x = v4.frames /\ y = v4.filled OBVIOUS
      <4>2. x \in Nat /\ y \in Nat BY <2>12, <4>1
      <4>3. f = x + real /\ g = y + n - real BY <2>13, <4>1
      <4> QED BY <1>1, <1>2, <4>2, <4>3
    <3>4. v4' \in [frames : Nat, filled : Nat, crcOK : Nat, crcFail : Nat, plcRepeat : Nat,
                   plcMute : Nat, stale : Nat, staleTold : Nat, quality : Seq(Signs)]
      BY <2>9, <2>12, <2>14, <3>2, <3>3
    <3> QED BY <2>12, <2>15, <3>4 DEF StatsOK
  <2>17. v4'.frames + v4'.filled = v8' + Len(v4'.quality)
    <3>1. v8' = v8 BY <2>1
    <3>2. v4.frames + v4.filled = v8 + Len(q) /\ v8 \in Nat BY <2>2 DEF Decoded
    <3>3. v4.frames \in Nat /\ v4.filled \in Nat BY <2>12
    <3>4. Len(q) \in Nat BY <2>3
    <3>5. PICK x, y, w, k : x = v4.frames /\ y = v4.filled /\ w = v8 /\ k = Len(q)
      OBVIOUS
    <3>6. x + y = w + k /\ x \in Nat /\ y \in Nat /\ w \in Nat /\ k \in Nat
      BY <3>2, <3>3, <3>4, <3>5
    <3>7. f = x + real /\ g = y + n - real BY <2>13, <3>5
    <3>8. f + g = w + (k + n) BY <1>1, <1>2, <3>6, <3>7
    <3> QED BY <2>9, <2>15, <3>1, <3>5, <3>8
  <2>18. Len(q) \in Nat BY <2>3
  <2>19. v5' \in Nat /\ v5' <= Len(p)
    BY <1>1, <2>1, <2>2, <2>9, <2>18 DEF Decoded
  <2>20. Follows(v3', v4'.quality, Len(v4'.quality)) /\ StripRight(v4'.quality, Len(v4'.quality))
    BY <2>1, <2>9, <2>15
  <2> QED BY <1>1, <2>1, <2>2, <2>9, <2>15, <2>16, <2>17, <2>18, <2>19, <2>20, <2>21 DEF Decoded
<1> QED BY <1>3, <1>4, <1>5 DEF Decoded

\* The sound of a broadcast that begins is empty.
LEMMA SoundStarts == Sound!SoundInit => SoundInv
<1> SUFFICES ASSUME Sound!SoundInit PROVE SoundInv OBVIOUS
<1>1. PICK none : none = <<>> OBVIOUS
<1>2. /\ v1 \in BOOLEAN /\ v2 = none /\ v3 = [lastGood |-> FALSE, run |-> 0] /\ v5 = 0
      /\ v6 = TRUE /\ v7 = none /\ v8 = 0
      /\ v4 = [frames |-> 0, filled |-> 0, crcOK |-> 0, crcFail |-> 0, plcRepeat |-> 0,
               plcMute |-> 0, stale |-> 0, staleTold |-> 0, quality |-> none]
  BY <1>1 DEF Sound!SoundInit
<1>3. none \in Seq(Marks) /\ none \in Seq(Signs) /\ Len(none) = 0 BY <1>1
<1>4. \A S : Sound!Count(none, S) = 0
  <2>1. \A S : {i \in DOMAIN none : none[i] \in S} = {} BY <1>1
  <2>2. \A S : Sound!Count(none, S) = Cardinality({i \in DOMAIN none : none[i] \in S})
    BY SoundCounts DEF Sound!Count
  <2> QED BY <2>1, <2>2, FS_EmptySet
<1>5. StatsOK(v4) /\ v4.quality = none BY <1>2, <1>3 DEF StatsOK
<1>6. LettersCounted(v4)
  <2>1. v4.crcOK = 0 /\ v4.crcFail = 0 /\ v4.plcRepeat = 0 /\ v4.plcMute = 0 BY <1>2
  <2> QED BY <1>4, <1>5, <2>1 DEF LettersCounted
<1>7. Follows(v3, none, 0) /\ StripRight(none, 0)
  <2>1. v3 \in Concealers /\ v3.lastGood = FALSE BY <1>2 DEF Concealers
  <2>2. ~GoodTo(none, 0) BY DEF GoodTo
  <2> QED BY <2>1, <2>2 DEF Follows, StripRight
<1>8. v4.frames = 0 /\ v4.filled = 0 BY <1>2
<1>9. Decoded BY <1>2, <1>3, <1>5, <1>6, <1>7, <1>8 DEF Decoded
<1> QED BY <1>2, <1>3, <1>5, <1>9, SoundBounds DEF SoundInv

\* The invariant is kept if as much is made as is decoded, dropped or left pending.
LEMMA SoundKept ==
  ASSUME SoundInv, Decoded', v6' \in BOOLEAN,
         v7' \in Seq(Marks), v2' \in Seq(Marks), Len(v2') < BatchFrames,
         NEW more \in Nat, Len(v7') = Len(v7) + more,
         Len(v2') + (v8' + Len(v4'.quality)) = Len(v2) + more + (v8 + Len(v4.quality))
  PROVE  SoundInv'
<1>1. PICK a, b, c, d : a = Len(v7) /\ b = Len(v2) /\ c = v8 /\ d = Len(v4.quality) OBVIOUS
<1>2. PICK x, y, z, w : x = Len(v7') /\ y = Len(v2') /\ z = v8' /\ w = Len(v4'.quality)
  OBVIOUS
<1>3. /\ v2 \in Seq(Marks) /\ v7 \in Seq(Marks) /\ v8 \in Nat /\ v4.quality \in Seq(Signs)
      /\ Len(v7) = Len(v2) + v8 + Len(v4.quality)
  <2>1. Decoded /\ v2 \in Seq(Marks) /\ v7 \in Seq(Marks) BY DEF SoundInv
  <2>2. Len(v7) = Len(v2) + v8 + Len(v4.quality) BY DEF SoundInv
  <2>3. v8 \in Nat /\ StatsOK(v4) BY <2>1 DEF Decoded
  <2>4. v4.quality \in Seq(Signs) BY <2>3 DEF StatsOK
  <2>5. v2 \in Seq(Marks) /\ v7 \in Seq(Marks) BY <2>1
  <2>6. v8 \in Nat BY <2>3
  <2> QED BY ONLY <2>2, <2>4, <2>5, <2>6
<1>4. a \in Nat /\ b \in Nat /\ c \in Nat /\ d \in Nat /\ a = b + c + d
  <2>1. a = b + c + d BY ONLY <1>1, <1>3
  <2>2. v2 \in Seq(Marks) /\ v7 \in Seq(Marks) /\ v8 \in Nat /\ v4.quality \in Seq(Signs)
    BY <1>3
  <2>3. Len(v2) \in Nat /\ Len(v7) \in Nat /\ v8 \in Nat /\ Len(v4.quality) \in Nat
    BY ONLY <2>2
  <2> QED BY ONLY <1>1, <2>1, <2>3
<1>5. v8' \in Nat /\ v4'.quality \in Seq(Signs) BY DEF Decoded, StatsOK
<1>6. x \in Nat /\ y \in Nat /\ z \in Nat /\ w \in Nat BY <1>2, <1>5
<1>7. x = a + more /\ y + (z + w) = b + more + (c + d) BY <1>1, <1>2
<1>8. x = y + z + w BY <1>4, <1>6, <1>7
<1>9. Len(v7') = Len(v2') + v8' + Len(v4'.quality) BY <1>2, <1>8
<1> QED BY <1>9 DEF SoundInv

\* Each step of the worker keeps the invariant of the sound.
LEMMA SoundStep == SoundInv /\ [Sound!SoundNext]_(Sound!soundVars) => SoundInv'
<1> SUFFICES ASSUME SoundInv, [Sound!SoundNext]_(Sound!soundVars) PROVE SoundInv' OBVIOUS
<1>0. /\ Decoded /\ v2 \in Seq(Marks) /\ Len(v2) < BatchFrames /\ v6 \in BOOLEAN
      /\ v7 \in Seq(Marks) /\ Len(v7) = Len(v2) + v8 + Len(v4.quality)
      /\ v8 \in Nat /\ v4.quality \in Seq(Signs) /\ Len(v4.quality) \in Nat
      /\ BatchFrames \in Nat \ {0}
  <2>1. /\ Decoded /\ v2 \in Seq(Marks) /\ Len(v2) < BatchFrames /\ v6 \in BOOLEAN
        /\ v7 \in Seq(Marks)
    BY DEF SoundInv
  <2>2. Len(v7) = Len(v2) + v8 + Len(v4.quality) BY DEF SoundInv
  <2>3. v8 \in Nat /\ StatsOK(v4) BY <2>1 DEF Decoded
  <2>4. v4.quality \in Seq(Signs) BY <2>3 DEF StatsOK
  <2> QED BY <2>1, <2>2, <2>3, <2>4, SoundBounds
<1>1. CASE UNCHANGED Sound!soundVars
  <2>1. UNCHANGED <<v1, v2, v3, v4, v5, v6, v7, v8>> BY <1>1 DEF Sound!soundVars
  <2> QED BY <2>1 DEF SoundInv, Decoded
<1>2. ASSUME NEW filled \in 0 .. SoundFill, NEW e \in {"good", "bad"},
             Sound!Take(filled, e), UNCHANGED <<v1, v6>>
      PROVE  SoundInv'
  <2>1. PICK made, all : made = [i \in 1 .. filled |-> "gap"] \o <<e>> /\ all = v2 \o made
    OBVIOUS
  <2>2. made \in Seq(Marks) /\ Len(made) \in Nat
    <3>1. e \in Marks /\ "gap" \in Marks BY DEF Marks
    <3>2. filled \in Nat BY SoundBounds
    <3>3. PICK g : g = [i \in 1 .. filled |-> "gap"] OBVIOUS
    <3>4. g \in [1 .. filled -> Marks] BY <3>1, <3>3
    <3>5. g \in Seq(Marks) BY <3>2, <3>4
    <3>6. <<e>> \in Seq(Marks) BY <3>1
    <3> QED BY <2>1, <3>3, <3>5, <3>6
  <2>3. /\ all \in Seq(Marks) /\ Len(all) = Len(v2) + Len(made)
        /\ v7 \o made \in Seq(Marks) /\ Len(v7 \o made) = Len(v7) + Len(made)
    <3>1. all \in Seq(Marks) /\ Len(all) = Len(v2) + Len(made)
      BY <1>0, <2>1, <2>2, JoinedSeq
    <3>2. v7 \in Seq(Marks) /\ made \in Seq(Marks) BY <1>0, <2>2
    <3>3. v7 \o made \in Seq(Marks) /\ Len(v7 \o made) = Len(v7) + Len(made)
      BY <3>2, JoinedSeq
    <3> QED BY <3>1, <3>3
  <2>4. v7' = v7 \o made /\ v1' = v1 /\ v6' = v6 BY <1>2, <2>1 DEF Sound!Take
  <2>5. CASE Len(all) >= BatchFrames
    <3>1. PICK ok \in BOOLEAN : Sound!DecodeBatch(all, ok) BY <1>2, <2>1, <2>5 DEF Sound!Take
    <3>2. /\ Decoded' /\ v2' = <<>>
          /\ v8' + Len(v4'.quality) = v8 + Len(v4.quality) + Len(all)
      BY <1>0, <2>3, <2>4, <3>1, BatchKeeps
    <3>3. PICK none : none = <<>> OBVIOUS
    <3>4. none \in Seq(Marks) /\ Len(none) = 0 /\ Len(none) < BatchFrames BY <1>0, <3>3
    <3>5. PICK c, d, m, l : c = v8 /\ d = Len(v4.quality) /\ m = Len(made) /\ l = Len(v2)
      OBVIOUS
    <3>6. c \in Nat /\ d \in Nat /\ m \in Nat /\ l \in Nat BY <1>0, <2>2, <3>5
    <3>7. v8' + Len(v4'.quality) = c + d + (l + m) BY <2>3, <3>2, <3>5
    <3>8. Len(none) + (v8' + Len(v4'.quality)) = l + m + (c + d) BY <3>4, <3>6, <3>7
    <3>9. v2' = none /\ v6' \in BOOLEAN /\ Decoded' BY <1>0, <2>4, <3>2, <3>3
    <3>10. /\ v7' \in Seq(Marks) /\ v2' \in Seq(Marks) /\ Len(v2') < BatchFrames
           /\ m \in Nat /\ Len(v7') = Len(v7) + m
      BY <2>3, <2>4, <3>4, <3>5, <3>6, <3>9
    <3>11. Len(v2') + (v8' + Len(v4'.quality)) = Len(v2) + m + (v8 + Len(v4.quality))
      BY <3>5, <3>8, <3>9
    <3> QED BY <3>9, <3>10, <3>11, SoundKept
  <2>6. CASE ~(Len(all) >= BatchFrames)
    <3>1. v2' = all /\ v3' = v3 /\ v4' = v4 /\ v5' = v5 /\ v8' = v8
      BY <1>2, <2>1, <2>6 DEF Sound!Take
    <3>2. Decoded' BY <1>0, <2>4, <3>1 DEF Decoded
    <3>3. Len(all) \in Nat BY <2>3
    <3>4. Len(all) < BatchFrames BY <1>0, <2>6, <3>3
    <3>5. Len(all) + (v8' + Len(v4'.quality)) = Len(v2) + Len(made) + (v8 + Len(v4.quality))
      BY <2>3, <3>1
    <3>6. v2' = all /\ v6' \in BOOLEAN BY <1>0, <2>4, <3>1
    <3>7. PICK m : m = Len(made) OBVIOUS
    <3>8. /\ v7' \in Seq(Marks) /\ v2' \in Seq(Marks) /\ Len(v2') < BatchFrames
          /\ m \in Nat /\ Len(v7') = Len(v7) + m
      BY <2>2, <2>3, <2>4, <3>4, <3>6, <3>7
    <3>9. Len(v2') + (v8' + Len(v4'.quality)) = Len(v2) + m + (v8 + Len(v4.quality))
      BY <3>5, <3>6, <3>7
    <3> QED BY <3>2, <3>6, <3>8, <3>9, SoundKept
  <2> QED BY <2>5, <2>6
<1>3. CASE Sound!Frame
  BY <1>2, <1>3 DEF Sound!Frame
<1>4. CASE Sound!StaleFrame
  <2>1. /\ v4' = [v4 EXCEPT !.stale = @ + 1]
        /\ UNCHANGED <<v1, v2, v3, v5, v6, v7, v8>>
    BY <1>4 DEF Sound!StaleFrame
  <2>2. StatsOK(v4) /\ LettersCounted(v4) BY <1>0 DEF Decoded
  <2>3. /\ StatsOK(v4') /\ v4'.quality = v4.quality
        /\ v4'.crcOK = v4.crcOK /\ v4'.crcFail = v4.crcFail
        /\ v4'.plcRepeat = v4.plcRepeat /\ v4'.plcMute = v4.plcMute
        /\ v4'.frames = v4.frames /\ v4'.filled = v4.filled
    <3>1. /\ v4 \in [frames : Nat, filled : Nat, crcOK : Nat, crcFail : Nat, plcRepeat : Nat,
                   plcMute : Nat, stale : Nat, staleTold : Nat, quality : Seq(Signs)]
          /\ v4.staleTold <= v4.stale
      BY <2>2 DEF StatsOK
    <3>2. PICK k, m : k = v4.stale /\ m = v4.staleTold OBVIOUS
    <3>3. k \in Nat /\ m \in Nat /\ m <= k + 1 /\ k + 1 \in Nat BY <3>1, <3>2
    <3>4. v4' = [v4 EXCEPT !.stale = k + 1] BY <2>1, <3>1, <3>2
    <3>5. /\ v4' \in [frames : Nat, filled : Nat, crcOK : Nat, crcFail : Nat, plcRepeat : Nat,
                    plcMute : Nat, stale : Nat, staleTold : Nat, quality : Seq(Signs)]
          /\ v4'.stale = k + 1 /\ v4'.staleTold = m
      BY <3>1, <3>2, <3>3, <3>4
    <3>6. StatsOK(v4') BY <3>3, <3>5 DEF StatsOK
    <3>7. /\ v4'.quality = v4.quality
          /\ v4'.crcOK = v4.crcOK /\ v4'.crcFail = v4.crcFail
          /\ v4'.plcRepeat = v4.plcRepeat /\ v4'.plcMute = v4.plcMute
          /\ v4'.frames = v4.frames /\ v4'.filled = v4.filled
      BY <3>1, <3>4
    <3> QED BY <3>6, <3>7
  <2>4. LettersCounted(v4') BY <2>2, <2>3 DEF LettersCounted
  <2>5. Decoded' BY <1>0, <2>1, <2>3, <2>4 DEF Decoded
  <2> QED BY <1>0, <2>1, <2>3, <2>5 DEF SoundInv
<1>5. CASE Sound!SeedFound
  <2>1. v1' = TRUE /\ UNCHANGED <<v2, v3, v4, v5, v6, v7, v8>> BY <1>5 DEF Sound!SeedFound
  <2> QED BY <1>0, <2>1 DEF SoundInv, Decoded
<1>6. CASE Sound!CloseSound
  <2>1. PICK ok \in BOOLEAN : Sound!DecodeBatch(v2, ok) BY <1>6 DEF Sound!CloseSound
  <2>2. v6' = FALSE /\ v1' = v1 /\ v7' = v7 BY <1>6 DEF Sound!CloseSound
  <2>3. /\ Decoded' /\ v2' = <<>>
        /\ v8' + Len(v4'.quality) = v8 + Len(v4.quality) + Len(v2)
    BY <1>0, <2>1, <2>2, BatchKeeps
  <2>4. PICK none : none = <<>> OBVIOUS
  <2>5. none \in Seq(Marks) /\ Len(none) = 0 /\ Len(none) < BatchFrames BY <1>0, <2>4
  <2>6. PICK c, d, l, t : c = v8 /\ d = Len(v4.quality) /\ l = Len(v2) /\ t = Len(v7)
    OBVIOUS
  <2>7. c \in Nat /\ d \in Nat /\ l \in Nat /\ t \in Nat
    <3>1. v2 \in Seq(Marks) /\ v7 \in Seq(Marks) /\ c \in Nat /\ d \in Nat BY <1>0, <2>6
    <3>2. Len(v2) \in Nat /\ Len(v7) \in Nat BY ONLY <3>1
    <3> QED BY <2>6, <3>1, <3>2
  <2>8. v8' + Len(v4'.quality) = c + d + l BY <2>3, <2>6
  <2>9. Len(none) + (v8' + Len(v4'.quality)) = l + 0 + (c + d) BY <2>5, <2>7, <2>8
  <2>10. t = t + 0 BY <2>7
  <2>11. v2' = none /\ v6' \in BOOLEAN /\ Decoded' /\ v7' = v7 BY <2>2, <2>3, <2>4
  <2>12. PICK m : m = 0 OBVIOUS
  <2>13. /\ v7' \in Seq(Marks) /\ v2' \in Seq(Marks) /\ Len(v2') < BatchFrames
         /\ m \in Nat /\ Len(v7') = Len(v7) + m
    BY <1>0, <2>5, <2>6, <2>10, <2>11, <2>12
  <2>14. Len(v2') + (v8' + Len(v4'.quality)) = Len(v2) + m + (v8 + Len(v4.quality))
    BY <2>6, <2>9, <2>11, <2>12
  <2> QED BY <2>11, <2>13, <2>14, SoundKept
<1> QED BY <1>1, <1>3, <1>4, <1>5, <1>6 DEF Sound!SoundNext

\* What the invariant says of the strip, the counters and the sound.
LEMMA SoundSaid ==
  ASSUME SoundInv
  PROVE  Sound!SoundTypeOK /\ Sound!ConcealedAsWhole /\ Sound!CountersAgree
<1>1. PICK q : q = v4.quality OBVIOUS
<1>2. /\ q \in Seq(Signs) /\ Len(q) \in Nat /\ DOMAIN q = 1 .. Len(q) /\ StripRight(q, Len(q))
      /\ v4.staleTold <= v4.stale
  <2>1. Decoded BY DEF SoundInv
  <2>2. StatsOK(v4) /\ StripRight(q, Len(q)) BY <1>1, <2>1 DEF Decoded
  <2>3. q \in Seq(Signs) /\ v4.staleTold <= v4.stale BY <1>1, <2>2 DEF StatsOK
  <2> QED BY <2>2, <2>3
<1>3. Sound!SoundTypeOK
  <2>1. \A i \in DOMAIN v2 : v2[i] \in {"good", "bad", "gap"} BY DEF SoundInv, Marks
  <2>2. \A i \in DOMAIN v4.quality : v4.quality[i] \in {"o", "x", "X", "-", "_"}
    <3>1. \A i \in DOMAIN q : q[i] \in Signs BY <1>2
    <3> QED BY <1>1, <3>1 DEF Signs
  <2> QED BY <1>2, <2>1, <2>2 DEF SoundInv, Decoded, Sound!SoundTypeOK
<1>4. ASSUME NEW i \in DOMAIN q, q[i] # "o"
      PROVE  q[i] \in {"x", "-"}
               <=> \E j \in Sound!Max({1, i - MaxRepeat}) .. i - 1 : q[j] = "o"
  <2>1. i \in 1 .. Len(q) /\ i \in Int /\ MaxRepeat \in Nat BY <1>2, SoundBounds
  <2>2. q[i] \in {"x", "-"} <=> GoodNear(q, i) BY <1>2, <1>4, <2>1 DEF StripRight
  <2>3. PICK m : m = Sound!Max({1, i - MaxRepeat}) OBVIOUS
  <2>4. m \in Int /\ m >= 1 /\ m >= i - MaxRepeat /\ (m = 1 \/ m = i - MaxRepeat)
    <3>1. CASE 1 >= i - MaxRepeat
      <4>1. 1 \in {1, i - MaxRepeat} /\ \A y \in {1, i - MaxRepeat} : 1 >= y BY <2>1, <3>1
      <4>2. m \in {1, i - MaxRepeat} /\ \A y \in {1, i - MaxRepeat} : m >= y
        BY <2>3, <4>1 DEF Sound!Max
      <4> QED BY <2>1, <4>2
    <3>2. CASE ~(1 >= i - MaxRepeat)
      <4>1. /\ i - MaxRepeat \in {1, i - MaxRepeat}
            /\ \A y \in {1, i - MaxRepeat} : i - MaxRepeat >= y
        BY <2>1, <3>2
      <4>2. m \in {1, i - MaxRepeat} /\ \A y \in {1, i - MaxRepeat} : m >= y
        BY <2>3, <4>1 DEF Sound!Max
      <4> QED BY <2>1, <4>2
    <3> QED BY <3>1, <3>2
  <2>5. \A j \in Int : j \in m .. i - 1 <=> j \in Nat /\ 1 <= j /\ j < i /\ i <= j + MaxRepeat
    BY <2>1, <2>4
  <2>6. GoodNear(q, i) <=> \E j \in m .. i - 1 : q[j] = "o"
    <3>1. ASSUME GoodNear(q, i) PROVE \E j \in m .. i - 1 : q[j] = "o"
      BY <2>5, <3>1 DEF GoodNear
    <3>2. ASSUME NEW j \in m .. i - 1, q[j] = "o" PROVE GoodNear(q, i)
      <4>1. j \in Nat /\ 1 <= j /\ j < i /\ i <= j + MaxRepeat BY <2>1, <2>4, <2>5
      <4> QED BY <3>2, <4>1 DEF GoodNear
    <3> QED BY <3>1, <3>2
  <2> QED BY <2>2, <2>3, <2>6
<1>5. Sound!ConcealedAsWhole BY <1>1, <1>4 DEF Sound!ConcealedAsWhole
<1>6. Sound!CountersAgree
  BY DEF SoundInv, Decoded, LettersCounted, Sound!CountersAgree
<1> QED BY <1>3, <1>5, <1>6

-----------------------------------------------------------------------------
(* Slots and frames.                                                       *)

\* A number is so many times another, and a rest.
LEMMA QuotientAndRest ==
  ASSUME NEW a \in Int, NEW b \in Nat \ {0}
  PROVE  a \div b \in Int /\ a % b \in 0 .. b - 1 /\ a = b * (a \div b) + (a % b)
<1>1. a \div b \in Int BY SMT
<1>2. a % b \in 0 .. b - 1 BY SMT
<1>3. a = b * (a \div b) + (a % b) BY SMT
<1> QED BY <1>1, <1>2, <1>3

\* There is only one such quotient and rest.
LEMMA OneQuotient ==
  ASSUME NEW a \in Int, NEW b \in Nat \ {0}, NEW k \in Int, NEW e \in 0 .. b - 1, a = b * k + e
  PROVE  a \div b = k /\ a % b = e
<1>1. PICK p, f : p = a \div b /\ f = a % b OBVIOUS
<1>2. p \in Int /\ f \in 0 .. b - 1 /\ a = b * p + f BY <1>1, QuotientAndRest
<1>3. PICK d : d = p - k OBVIOUS
<1>4. d \in Int /\ p = k + d BY <1>2, <1>3
<1>5. b * (k + d) = b * k + b * d BY <1>4, SMT
<1>6. PICK x : x = b * d OBVIOUS
<1>7. x \in Int BY <1>4, <1>6
<1>8. PICK y : y = b * k OBVIOUS
<1>9. y \in Int BY <1>8
<1>10. y + e = y + x + f BY <1>2, <1>4, <1>5, <1>6, <1>8
<1>11. x = e - f BY <1>2, <1>7, <1>9, <1>10
<1>12. -b < x /\ x < b BY <1>2, <1>11
<1>13. d = 0
  <2>1. \A z \in Int : z >= 1 => b * z >= b BY SMT
  <2>2. \A z \in Int : z <= -1 => b * z <= -b BY SMT
  <2> QED BY <1>4, <1>6, <1>12, <2>1, <2>2
<1>14. x = 0 BY <1>6, <1>13
<1> QED BY <1>1, <1>2, <1>4, <1>11, <1>13, <1>14

\* The rest does not see whole multiples, before or after.
LEMMA SameRest ==
  ASSUME NEW a \in Int, NEW b \in Nat \ {0}, NEW k \in Int
  PROVE  (a + b * k) % b = a % b
<1>1. PICK p, f : p = a \div b /\ f = a % b OBVIOUS
<1>2. p \in Int /\ f \in 0 .. b - 1 /\ a = b * p + f BY <1>1, QuotientAndRest
<1>3. PICK c : c = a + b * k OBVIOUS
<1>4. b * (p + k) = b * p + b * k BY <1>2, SMT
<1>5. c \in Int /\ p + k \in Int BY <1>2, <1>3
<1>6. b * p \in Int /\ b * k \in Int BY <1>2
<1>7. c = b * (p + k) + f BY <1>2, <1>3, <1>4, <1>6
<1>8. c % b = f BY <1>2, <1>5, <1>7, OneQuotient
<1> QED BY <1>1, <1>3, <1>8

\* What is added to a rest may be added to the number.
LEMMA RestOfSum ==
  ASSUME NEW a \in Int, NEW b \in Nat \ {0}, NEW j \in Int
  PROVE  ((a % b) + j) % b = (a + j) % b
<1>1. PICK p, f : p = a \div b /\ f = a % b OBVIOUS
<1>2. p \in Int /\ f \in 0 .. b - 1 /\ a = b * p + f BY <1>1, QuotientAndRest
<1>3. b * p \in Int BY <1>2
<1>4. a + j = (f + j) + b * p BY <1>2, <1>3
<1>5. f + j \in Int BY <1>2
<1>6. ((f + j) + b * p) % b = (f + j) % b BY <1>2, <1>5, SameRest
<1> QED BY <1>1, <1>4, <1>6

\* A gap that is off by less than half a slot is rounded to the slots it has.
LEMMA RoundedRight ==
  ASSUME NEW d \in Int, NEW j \in Int, 2 * j < SlotLen, -SlotLen < 2 * j,
         NEW gap, gap = SlotLen * d + j
  PROVE  Gaps!RoundHalfEven(gap) = d
<1>0. SlotLen \in Nat \ {0} BY GapBounds
<1>1. PICK x : x = SlotLen * d OBVIOUS
<1>2. x \in Int /\ gap \in Int /\ gap = x + j BY <1>0, <1>1
<1>3. CASE j >= 0
  <2>1. gap \div SlotLen = d /\ gap % SlotLen = j BY <1>0, <1>2, <1>3, OneQuotient
  <2>2. ~(2 * j > SlotLen) /\ 2 * j # SlotLen BY <1>0
  <2> QED BY <2>1, <2>2 DEF Gaps!RoundHalfEven
<1>4. CASE j < 0
  <2>1. PICK w, e : w = d - 1 /\ e = SlotLen + j OBVIOUS
  <2>2. w \in Int /\ e \in 0 .. SlotLen - 1 BY <1>0, <1>4, <2>1
  <2>3. SlotLen * (d - 1) = SlotLen * d - SlotLen BY <1>0, SMT
  <2>4. gap = SlotLen * w + e BY <1>0, <1>1, <1>2, <2>1, <2>3
  <2>5. gap \div SlotLen = w /\ gap % SlotLen = e BY <1>0, <1>2, <2>2, <2>4, OneQuotient
  <2>6. 2 * e > SlotLen BY <1>0, <2>1
  <2>7. Gaps!RoundHalfEven(gap) = w + 1 BY <2>5, <2>6 DEF Gaps!RoundHalfEven
  <2> QED BY <2>1, <2>7
<1> QED BY <1>3, <1>4

-----------------------------------------------------------------------------
(* The slots of some rings.                                                *)

InRings(lo, hi, V) == {t \in lo .. hi : t % Rings \in V}

\* They are finitely many.
LEMMA InRingsFacts ==
  ASSUME NEW lo \in Int, NEW hi \in Int, NEW V
  PROVE  IsFiniteSet(InRings(lo, hi, V)) /\ Cardinality(InRings(lo, hi, V)) \in Nat
<1>1. IsFiniteSet(lo .. hi) BY FS_Interval
<1>2. InRings(lo, hi, V) \in SUBSET (lo .. hi) BY DEF InRings
<1> QED BY <1>1, <1>2, FS_Subset, FS_CardinalityType

\* They are those up to a slot and those after it.
LEMMA InRingsSplit ==
  ASSUME NEW lo \in Int, NEW hi \in Int, NEW mid \in Int, lo <= mid + 1, mid <= hi, NEW V
  PROVE  Cardinality(InRings(lo, hi, V))
           = Cardinality(InRings(lo, mid, V)) + Cardinality(InRings(mid + 1, hi, V))
<1>1. PICK A, B, C : /\ A = InRings(lo, mid, V) /\ B = InRings(mid + 1, hi, V)
                     /\ C = InRings(lo, hi, V)
  OBVIOUS
<1>2. /\ IsFiniteSet(A) /\ IsFiniteSet(B) /\ Cardinality(A) \in Nat /\ Cardinality(B) \in Nat
  BY <1>1, InRingsFacts
<1>3. \A t : t \in C <=> t \in A \/ t \in B
  <2>1. \A t : t \in lo .. hi <=> t \in lo .. mid \/ t \in mid + 1 .. hi OBVIOUS
  <2> QED BY <1>1, <2>1 DEF InRings
<1>4. C = A \cup B BY <1>3
<1>5. A \cap B = {} BY <1>1 DEF InRings
<1>6. Cardinality(A \cap B) = 0 BY <1>5, FS_EmptySet
<1>7. Cardinality(A \cup B) = Cardinality(A) + Cardinality(B) - Cardinality(A \cap B)
  BY <1>2, FS_Union
<1> QED BY <1>1, <1>2, <1>4, <1>6, <1>7

\* A single slot.
LEMMA InRingsOne ==
  ASSUME NEW s \in Int, NEW V
  PROVE  Cardinality(InRings(s, s, V)) = IF s % Rings \in V THEN 1 ELSE 0
<1>1. \A t : t \in s .. s <=> t = s OBVIOUS
<1>2. CASE s % Rings \in V
  <2>1. InRings(s, s, V) = {s} BY <1>1, <1>2 DEF InRings
  <2> QED BY <1>2, <2>1, FS_Singleton
<1>3. CASE s % Rings \notin V
  <2>1. InRings(s, s, V) = {} BY <1>1, <1>3 DEF InRings
  <2> QED BY <1>3, <2>1, FS_EmptySet
<1> QED BY <1>2, <1>3

\* As many slots as a frame has, wherever they begin, have each ring once.
LEMMA OneFrame ==
  ASSUME NEW x \in Int, NEW V, V \subseteq 0 .. Rings - 1
  PROVE  Cardinality(InRings(x + 1, x + Rings, V)) = Cardinality(V)
<1>0. Rings \in Nat \ {0} BY GapBounds
<1>1. PICK A : A = InRings(x + 1, x + Rings, V) OBVIOUS
<1>2. IsFiniteSet(A) BY <1>0, <1>1, InRingsFacts
<1>3. PICK f : f = [t \in A |-> t % Rings] OBVIOUS
<1>4. f \in [A -> V] BY <1>1, <1>3 DEF InRings
<1>5. ASSUME NEW t \in A, NEW u \in A, f[t] = f[u] PROVE t = u
  <2>1. /\ t \in Int /\ u \in Int /\ t % Rings = u % Rings
        /\ -Rings < t - u /\ t - u < Rings
    BY <1>0, <1>1, <1>3, <1>5 DEF InRings
  <2>2. PICK p, q, e : p = t \div Rings /\ q = u \div Rings /\ e = t % Rings OBVIOUS
  <2>3. /\ p \in Int /\ q \in Int /\ e \in Int
        /\ t = Rings * p + e /\ u = Rings * q + e
    BY <1>0, <2>1, <2>2, QuotientAndRest
  <2>4. Rings * (p - q) = Rings * p - Rings * q BY <1>0, <2>3, SMT
  <2>5. PICK y, z : y = Rings * p /\ z = Rings * q OBVIOUS
  <2>6. y \in Int /\ z \in Int BY <1>0, <2>3, <2>5
  <2>7. t - u = Rings * (p - q) BY <2>3, <2>4, <2>5, <2>6
  <2>8. PICK d : d = p - q OBVIOUS
  <2>9. d \in Int BY <2>3, <2>8
  <2>10. \A k \in Int : k >= 1 => Rings * k >= Rings BY <1>0, SMT
  <2>11. \A k \in Int : k <= -1 => Rings * k <= -Rings BY <1>0, SMT
  <2>12. PICK w : w = Rings * d OBVIOUS
  <2>13. w \in Int /\ -Rings < w /\ w < Rings BY <1>0, <2>1, <2>7, <2>8, <2>9, <2>12
  <2>14. ~(d >= 1) BY <1>0, <2>9, <2>10, <2>12, <2>13
  <2>15. ~(d <= -1) BY <1>0, <2>9, <2>11, <2>12, <2>13
  <2>16. d = 0 BY <2>9, <2>14, <2>15
  <2> QED BY <2>3, <2>8, <2>16
<1>6. ASSUME NEW r \in V PROVE \E t \in A : f[t] = r
  <2>1. r \in 0 .. Rings - 1 /\ r \in Int BY <1>0
  <2>2. PICK a : a = r - (x + 1) OBVIOUS
  <2>3. PICK k, e : k = a \div Rings /\ e = a % Rings OBVIOUS
  <2>4. a \in Int BY <2>1, <2>2
  <2>5. k \in Int /\ e \in 0 .. Rings - 1 /\ a = Rings * k + e
    BY <1>0, <2>3, <2>4, QuotientAndRest
  <2>6. PICK t : t = x + 1 + e OBVIOUS
  <2>7. PICK y : y = Rings * k OBVIOUS
  <2>8. y \in Int BY <1>0, <2>5, <2>7
  <2>9. t \in x + 1 .. x + Rings /\ t \in Int /\ r = t + y
    BY <1>0, <2>1, <2>2, <2>5, <2>6, <2>7, <2>8
  <2>10. (t + Rings * k) % Rings = t % Rings BY <1>0, <2>5, <2>9, SameRest
  <2>11. r % Rings = r
    <3>1. r = Rings * 0 + r BY <1>0, <2>1
    <3> QED BY <1>0, <2>1, <3>1, OneQuotient
  <2>12. t % Rings = r BY <2>7, <2>9, <2>10, <2>11
  <2>13. t \in A BY <1>1, <2>9, <2>12 DEF InRings
  <2> QED BY <1>3, <2>12, <2>13
<1>7. Cardinality(V) = Cardinality(A) BY <1>2, <1>4, <1>5, <1>6, NamedOneToOne
<1> QED BY <1>1, <1>7

\* k frames after the slot a, and a rest of e slots.
FramesAndRest(a, k, e, V) ==
    Cardinality(InRings(a + 1, a + Rings * k + e, V))
      = k * Cardinality(V) + Cardinality(InRings(a + 1, a + e, V))

\* Whole frames have their voice rings once each, and the rest what it has.
LEMMA WholeFrames ==
  ASSUME NEW a \in Int, NEW k \in Nat, NEW e \in 0 .. Rings - 1,
         NEW V, V \subseteq 0 .. Rings - 1
  PROVE  FramesAndRest(a, k, e, V)
<1>0. Rings \in Nat \ {0} /\ e \in Nat BY GapBounds
<1>1. PICK c, z : c = Cardinality(V) /\ z = Cardinality(InRings(a + 1, a + e, V)) OBVIOUS
<1>2. c \in Nat /\ z \in Nat
  <2>1. IsFiniteSet(0 .. Rings - 1) BY <1>0, FS_Interval
  <2>2. IsFiniteSet(V) BY <2>1, FS_Subset
  <2> QED BY <1>0, <1>1, <2>2, FS_CardinalityType, InRingsFacts
<1> DEFINE right(n) == Cardinality(InRings(a + 1, a + Rings * n + e, V)) = n * c + z
           bad == {n \in Nat : ~right(n)}
<1>3. bad = {}
  <2> SUFFICES ASSUME bad # {} PROVE FALSE OBVIOUS
  <2>1. bad \subseteq Nat OBVIOUS
  <2> HIDE DEF bad
  <2>2. PICK n \in bad : \A x \in bad : n <= x BY <2>1, LeastNatural
  <2> USE DEF bad
  <2>3. n \in Nat /\ ~right(n) OBVIOUS
  <2>4. CASE n = 0
    <3>1. a + Rings * 0 + e = a + e /\ 0 * c + z = z BY <1>0, <1>2
    <3> QED BY <1>1, <2>3, <2>4, <3>1
  <2>5. CASE n # 0
    <3>1. PICK m : m = n - 1 OBVIOUS
    <3>2. m \in Nat /\ n = m + 1 BY <2>3, <2>5, <3>1
    <3>3. m \notin bad BY <2>2, <3>2
    <3>4. right(m) BY <3>2, <3>3
    <3>5. PICK mid, end : mid = a + Rings * m + e /\ end = a + Rings * n + e OBVIOUS
    <3>6. Rings * (m + 1) = Rings * m + Rings BY <1>0, <3>2, SMT
    <3>7. PICK w : w = Rings * m OBVIOUS
    <3>8. w \in Nat BY <1>0, <3>2, <3>7
    <3>9. mid = a + w + e /\ end = a + (w + Rings) + e BY <3>2, <3>5, <3>6, <3>7
    <3>10. mid \in Int /\ end \in Int /\ a + 1 \in Int /\ a + 1 <= mid + 1 /\ mid <= end
           /\ end = mid + Rings
      BY <1>0, <3>8, <3>9
    <3>11. Cardinality(InRings(a + 1, end, V))
             = Cardinality(InRings(a + 1, mid, V)) + Cardinality(InRings(mid + 1, end, V))
      BY <3>10, InRingsSplit
    <3>12. Cardinality(InRings(mid + 1, end, V)) = c BY <1>1, <3>10, OneFrame
    <3>13. Cardinality(InRings(a + 1, mid, V)) = m * c + z BY <3>4, <3>5
    <3>14. (m + 1) * c = m * c + c BY <1>2, <3>2, SMT
    <3>15. PICK u : u = m * c OBVIOUS
    <3>16. u \in Nat BY <1>2, <3>2, <3>15
    <3>17. (u + z) + c = (u + c) + z BY <1>2, <3>16
    <3>18. Cardinality(InRings(a + 1, end, V)) = n * c + z
      BY <3>2, <3>11, <3>12, <3>13, <3>14, <3>15, <3>17
    <3> QED BY <2>3, <3>5, <3>18
  <2> QED BY <2>4, <2>5
<1>4. right(k) BY <1>3
<1> QED BY <1>1, <1>4 DEF FramesAndRest

\* The slots after a slot, told by how far they are from it.
LEMMA SlotsAfter ==
  ASSUME NEW a \in Int, NEW e \in Nat, NEW V
  PROVE  Cardinality(InRings(a + 1, a + e, V))
           = Cardinality({k \in 1 .. e : (a + k) % Rings \in V})
<1>1. PICK A, B : /\ A = {k \in 1 .. e : (a + k) % Rings \in V}
                  /\ B = InRings(a + 1, a + e, V)
  OBVIOUS
<1>2. IsFiniteSet(A)
  <2>1. IsFiniteSet(1 .. e) BY FS_Interval
  <2>2. A \in SUBSET (1 .. e) BY <1>1
  <2> QED BY <2>1, <2>2, FS_Subset
<1>3. PICK f : f = [k \in A |-> a + k] OBVIOUS
<1>4. f \in [A -> B] BY <1>1, <1>3 DEF InRings
<1>5. \A x, y \in A : f[x] = f[y] => x = y BY <1>1, <1>3
<1>6. ASSUME NEW t \in B PROVE \E k \in A : f[k] = t
  <2>1. t \in Int /\ t \in a + 1 .. a + e /\ t % Rings \in V BY <1>1 DEF InRings
  <2>2. PICK k : k = t - a OBVIOUS
  <2>3. k \in 1 .. e /\ a + k = t BY <2>1, <2>2
  <2>4. k \in A BY <1>1, <2>1, <2>3
  <2> QED BY <1>3, <2>3, <2>4
<1>7. Cardinality(B) = Cardinality(A) BY <1>2, <1>4, <1>5, <1>6, NamedOneToOne
<1> QED BY <1>1, <1>7

\* The instance counts as this module does.
LEMMA GapCounts ==
  ASSUME NEW S
  PROVE  Gaps!Cardinality(S) = Cardinality(S)
BY DEF Gaps!Cardinality, Cardinality

\* The rings the tracker takes for voice rings.
VoiceRings == {r \in Gaps!Slots : Gaps!IsVoiceRing(r)}

\* Missing is the number of slots of voice rings between two frames.
LEMMA MissingCounted ==
  ASSUME NEW a \in Nat, v3.ring = a % Rings, NEW d \in Nat \ {0}
  PROVE  Gaps!Missing(d) = Cardinality(InRings(a + 1, a + d - 1, VoiceRings))
<1>0. Rings \in Nat \ {0} BY GapBounds
<1>00. a \in Int OBVIOUS
<1>1. PICK V : V = VoiceRings OBVIOUS
<1>2. V \subseteq 0 .. Rings - 1 BY <1>1 DEF VoiceRings, Gaps!Slots
<1>3. PICK m : m = d - 1 OBVIOUS
<1>4. m \in Nat /\ m \in Int BY <1>3
<1>5. PICK q, e : q = m \div Rings /\ e = m % Rings OBVIOUS
<1>6. q \in Int /\ e \in 0 .. Rings - 1 /\ m = Rings * q + e
  BY <1>0, <1>4, <1>5, QuotientAndRest
<1>7. q \in Nat
  <2>1. \A k \in Int : k <= -1 => Rings * k <= -Rings BY <1>0, SMT
  <2>2. PICK w : w = Rings * q OBVIOUS
  <2>3. w \in Int BY <1>0, <1>6, <2>2
  <2>4. w > -Rings BY <1>0, <1>4, <1>6, <2>2, <2>3
  <2> QED BY <1>0, <1>6, <2>1, <2>2, <2>4
<1>8. \A k \in 1 .. e : (v3.ring + k) % Rings = (a + k) % Rings
  <2> SUFFICES ASSUME NEW k \in 1 .. e PROVE (v3.ring + k) % Rings = (a + k) % Rings
    OBVIOUS
  <2>1. k \in Int BY <1>0, <1>6
  <2>2. ((a % Rings) + k) % Rings = (a + k) % Rings BY <1>0, <1>00, <2>1, RestOfSum
  <2> QED BY <2>2
<1>9. \A x \in Int : x % Rings \in V <=> Gaps!IsVoiceRing(x % Rings)
  <2> SUFFICES ASSUME NEW x \in Int PROVE x % Rings \in V <=> Gaps!IsVoiceRing(x % Rings)
    OBVIOUS
  <2>1. x % Rings \in 0 .. Rings - 1 BY <1>0, QuotientAndRest
  <2> QED BY <1>1, <2>1 DEF VoiceRings, Gaps!Slots
<1>10. PICK A : A = {k \in 1 .. e : (a + k) % Rings \in V} OBVIOUS
<1>11. A = {k \in 1 .. e : Gaps!IsVoiceRing((v3.ring + k) % Rings)}
  <2>1. \A k \in 1 .. e : a + k \in Int BY <1>6
  <2> QED BY <1>8, <1>9, <1>10, <2>1
<1>12. Gaps!Missing(d) = q * Cardinality(V) + Cardinality(A)
  <2>1. Gaps!Cardinality(V) = Cardinality(V) /\ Gaps!Cardinality(A) = Cardinality(A)
    BY GapCounts
  <2> QED BY <1>1, <1>3, <1>5, <1>11, <2>1 DEF Gaps!Missing, Gaps!VoiceRingCount, VoiceRings
<1>13. Cardinality(A) = Cardinality(InRings(a + 1, a + e, V))
  <2>1. e \in Nat /\ a \in Int BY <1>6
  <2> QED BY <1>10, <2>1, SlotsAfter
<1>14. Cardinality(InRings(a + 1, a + Rings * q + e, V))
         = q * Cardinality(V) + Cardinality(InRings(a + 1, a + e, V))
  <2>1. e \in 0 .. Rings - 1 BY <1>6
  <2>2. FramesAndRest(a, q, e, V) BY <1>00, <1>2, <1>7, <2>1, WholeFrames
  <2> QED BY <2>2 DEF FramesAndRest
<1>15. a + Rings * q + e = a + d - 1
  <2>1. PICK w : w = Rings * q OBVIOUS
  <2>2. w \in Int BY <1>0, <1>6, <2>1
  <2> QED BY <1>3, <1>6, <2>1, <2>2
<1> QED BY <1>1, <1>12, <1>13, <1>14, <1>15

-----------------------------------------------------------------------------
(* What the tracker knows of the rings.                                    *)

SeenFrames == Nat \X Nat
RingStats == [count : Nat, first : Nat, last : Nat]

\* The frames of a ring.
At(q, r) == {i \in DOMAIN q : q[i][1] % Rings = r}

\* Their ends.
Ends(q, T, lo, hi) == lo \in T /\ hi \in T /\ \A i \in T : lo <= i /\ i <= hi

\* The statistics of a ring are those of its frames.
RingOK(x, q, r) ==
    /\ x \in RingStats
    /\ x.count = Cardinality(At(q, r))
    /\ At(q, r) # {} =>
          \E lo, hi \in 1 .. Len(q) :
             Ends(q, At(q, r), lo, hi) /\ x.first = q[lo][2] /\ x.last = q[hi][2]

\* They are some of the frames, finitely many.
LEMMA AtFacts ==
  ASSUME NEW q \in Seq(SeenFrames), NEW r
  PROVE  /\ At(q, r) \subseteq 1 .. Len(q) /\ At(q, r) \subseteq Nat
         /\ IsFiniteSet(At(q, r)) /\ Cardinality(At(q, r)) \in Nat
         /\ (Cardinality(At(q, r)) = 0 <=> At(q, r) = {})
<1>1. Len(q) \in Nat /\ DOMAIN q = 1 .. Len(q) OBVIOUS
<1>2. At(q, r) \subseteq 1 .. Len(q) BY <1>1 DEF At
<1>3. IsFiniteSet(1 .. Len(q)) BY <1>1, FS_Interval
<1>4. IsFiniteSet(At(q, r)) BY <1>2, <1>3, FS_Subset
<1>5. \A i \in 1 .. Len(q) : i \in Nat BY <1>1
<1>6. At(q, r) \subseteq Nat BY <1>2, <1>5
<1> QED BY <1>2, <1>4, <1>6, FS_CardinalityType, FS_EmptySet

\* The frames of a sequence and the one that is appended to it.
LEMMA Appended ==
  ASSUME NEW q \in Seq(SeenFrames), NEW f \in SeenFrames, NEW p, p = Append(q, f),
         NEW n, n = Len(q)
  PROVE  /\ p \in Seq(SeenFrames) /\ Len(p) = n + 1 /\ n \in Nat /\ p # <<>>
         /\ \A i \in 1 .. n : p[i] = q[i]
         /\ p[n + 1] = f
         /\ DOMAIN p = 1 .. n + 1 /\ DOMAIN q = 1 .. n
OBVIOUS

\* One more frame of a ring, or of another.
LEMMA AtAppended ==
  ASSUME NEW q \in Seq(SeenFrames), NEW f \in SeenFrames, NEW r
  PROVE  /\ f[1] % Rings = r => At(Append(q, f), r) = At(q, r) \cup {Len(q) + 1}
         /\ f[1] % Rings # r => At(Append(q, f), r) = At(q, r)
<1>0. PICK p, n : p = Append(q, f) /\ n = Len(q) OBVIOUS
<1>1. /\ n \in Nat /\ DOMAIN p = 1 .. n + 1 /\ DOMAIN q = 1 .. n
      /\ \A i \in 1 .. n : p[i] = q[i]
      /\ p[n + 1] = f
  BY <1>0, Appended
<1>2. \A i : i \in 1 .. n + 1 <=> i \in 1 .. n \/ i = n + 1 BY <1>1
<1>3. \A i : i \in At(p, r) <=> i \in At(q, r) \/ (i = n + 1 /\ f[1] % Rings = r)
  BY <1>1, <1>2 DEF At
<1>4. ASSUME f[1] % Rings = r PROVE At(p, r) = At(q, r) \cup {n + 1} BY <1>3, <1>4
<1>5. ASSUME f[1] % Rings # r PROVE At(p, r) = At(q, r) BY <1>3, <1>5
<1> QED BY <1>0, <1>4, <1>5

\* What one more frame makes of them.
NewStat(x, pos) ==
    [count |-> x.count + 1, last |-> pos, first |-> IF x.count = 0 THEN pos ELSE x.first]

\* The statistics of a ring follow its frames.
LEMMA RingFollows ==
  ASSUME NEW q \in Seq(SeenFrames), NEW f \in SeenFrames, NEW r, f[1] % Rings = r,
         NEW x, RingOK(x, q, r)
  PROVE  RingOK(NewStat(x, f[2]), Append(q, f), r)
<1>00. PICK p, y : p = Append(q, f) /\ y = NewStat(x, f[2]) OBVIOUS
<1>0. PICK n, A, B : n = Len(q) /\ A = At(q, r) /\ B = At(p, r) OBVIOUS
<1>1. /\ n \in Nat /\ p \in Seq(SeenFrames) /\ Len(p) = n + 1
      /\ \A i \in 1 .. n : p[i] = q[i]
      /\ p[n + 1] = f
  BY <1>0, <1>00, Appended
<1>2. B = A \cup {n + 1} BY <1>0, <1>00, AtAppended
<1>3. /\ A \subseteq 1 .. n /\ IsFiniteSet(A) /\ Cardinality(A) \in Nat
      /\ (Cardinality(A) = 0 <=> A = {})
  BY <1>0, AtFacts
<1>4. n + 1 \notin A BY <1>1, <1>3
<1>5. Cardinality(B) = Cardinality(A) + 1 BY <1>2, <1>3, <1>4, FS_AddElement
<1>6. x \in RingStats /\ x.count = Cardinality(A) BY <1>0 DEF RingOK
<1>7. f[2] \in Nat BY DEF SeenFrames
<1>8. /\ y.count = x.count + 1 /\ y.last = f[2]
      /\ y.first = IF x.count = 0 THEN f[2] ELSE x.first
  BY <1>00 DEF NewStat
<1>9. y \in RingStats BY <1>00, <1>6, <1>7 DEF RingStats, NewStat
<1>10. y.count = Cardinality(B) BY <1>5, <1>6, <1>8
<1>11. \E lo, hi \in 1 .. n + 1 :
          Ends(p, B, lo, hi) /\ y.first = p[lo][2] /\ y.last = p[hi][2]
  <2>1. n + 1 \in 1 .. n + 1 BY <1>1
  <2>2. CASE A = {}
    <3>1. B = {n + 1} BY <1>2, <2>2
    <3>2. Ends(p, B, n + 1, n + 1) BY <1>1, <3>1 DEF Ends
    <3>3. y.first = f[2] BY <1>3, <1>6, <1>8, <2>2
    <3> QED BY <1>1, <1>8, <2>1, <3>2, <3>3
  <2>3. CASE A # {}
    <3>1. PICK lo, hi \in 1 .. n :
             Ends(q, A, lo, hi) /\ x.first = q[lo][2] /\ x.last = q[hi][2]
      BY <1>0, <2>3 DEF RingOK
    <3>2. \A i \in A : i <= n + 1 /\ lo <= i BY <1>1, <1>3, <3>1 DEF Ends
    <3>3. lo <= n + 1 /\ lo \in 1 .. n + 1 BY <1>1, <3>1
    <3>4. Ends(p, B, lo, n + 1) BY <1>1, <1>2, <3>1, <3>2, <3>3 DEF Ends
    <3>5. y.first = x.first BY <1>3, <1>6, <1>8, <2>3
    <3>6. p[lo] = q[lo] BY <1>1, <3>1
    <3>7. y.first = p[lo][2] BY <3>1, <3>5, <3>6
    <3> QED BY <1>1, <1>8, <2>1, <3>3, <3>4, <3>7
  <2> QED BY <2>2, <2>3
<1>12. RingOK(y, p, r) BY <1>0, <1>1, <1>9, <1>10, <1>11 DEF RingOK
<1> QED BY <1>00, <1>12

\* The other rings stay.
LEMMA RingStays ==
  ASSUME NEW q \in Seq(SeenFrames), NEW f \in SeenFrames, NEW r, f[1] % Rings # r,
         NEW x, RingOK(x, q, r)
  PROVE  RingOK(x, Append(q, f), r)
<1>0. PICK n, A, p : n = Len(q) /\ A = At(q, r) /\ p = Append(q, f) OBVIOUS
<1>1. n \in Nat /\ Len(p) = n + 1 /\ \A i \in 1 .. n : p[i] = q[i] BY <1>0, Appended
<1>2. At(p, r) = A BY <1>0, AtAppended
<1>3. x \in RingStats /\ x.count = Cardinality(A) BY <1>0 DEF RingOK
<1>4. ASSUME A # {}
      PROVE  \E lo, hi \in 1 .. n + 1 :
                Ends(p, A, lo, hi) /\ x.first = p[lo][2] /\ x.last = p[hi][2]
  <2>1. PICK lo, hi \in 1 .. n :
           Ends(q, A, lo, hi) /\ x.first = q[lo][2] /\ x.last = q[hi][2]
    BY <1>0, <1>4 DEF RingOK
  <2>2. lo \in 1 .. n + 1 /\ hi \in 1 .. n + 1 BY <1>1, <2>1
  <2>3. Ends(p, A, lo, hi) BY <2>1 DEF Ends
  <2> QED BY <1>1, <2>1, <2>2, <2>3
<1>5. RingOK(x, p, r) BY <1>1, <1>2, <1>3, <1>4 DEF RingOK
<1> QED BY <1>0, <1>5

-----------------------------------------------------------------------------
(* The invariant of the gaps.                                              *)

\* A position is late by less than half a slot.
InTime(f) == \E late \in Nat : f[2] = SlotLen * f[1] + late /\ 2 * late < SlotLen

\* The tracker is where the last frame is.
AtLast(t, q) ==
    /\ t.start = q[1][2] /\ t.last = q[Len(q)][2] /\ t.ring = q[Len(q)][1] % Rings
    /\ InTime(q[Len(q)])

Trackers == [started : BOOLEAN, last : Nat, ring : Gaps!Slots, start : Nat,
             rings : [Gaps!Slots -> RingStats]]

TrackOK(t, q) ==
    /\ t \in Trackers
    /\ t.started <=> q # <<>>
    /\ q # <<>> => AtLast(t, q)
    /\ \A r \in Gaps!Slots : RingOK(t.rings[r], q, r)

\* The first frame starts the tracker.
LEMMA TrackStarts ==
  ASSUME TrackOK(v3, v6), v6 = <<>>, NEW f \in SeenFrames, InTime(f), f[1] % Rings = 0,
         NEW p, p = Append(v6, f), NEW t, t = Gaps!First(f[2])
  PROVE  TrackOK(t, p)
<1>0. Rings \in Nat \ {0} BY GapBounds
<1>1. PICK q : q = v6 OBVIOUS
<1>2. q \in Seq(SeenFrames) /\ Len(q) = 0 BY <1>1
<1>3. p \in Seq(SeenFrames) /\ Len(p) = 1 /\ p # <<>> /\ p[1] = f
  <2>1. 0 + 1 = 1 OBVIOUS
  <2> QED BY <1>1, <1>2, <2>1, Appended
<1>4. PICK none, new : none = Gaps!NoStat /\ new = NewStat(none, f[2]) OBVIOUS
<1>5. f[2] \in Nat BY DEF SeenFrames
<1>6. none \in RingStats BY <1>4 DEF Gaps!NoStat, RingStats
<1>7. new \in RingStats BY <1>4, <1>5, <1>6 DEF RingStats, NewStat
<1>8. t = [started |-> TRUE, last |-> f[2], ring |-> 0, start |-> f[2],
           rings |-> [[r \in Gaps!Slots |-> none] EXCEPT ![0] = new]]
  <2>1. 0 \in Gaps!Slots BY <1>0 DEF Gaps!Slots
  <2> QED BY <1>4, <2>1 DEF Gaps!First, Gaps!Observed, NewStat
<1>9. \A r : RingOK(none, q, r)
  <2> SUFFICES ASSUME NEW r PROVE RingOK(none, q, r) OBVIOUS
  <2>0. 1 .. Len(q) = {} BY <1>2
  <2>1. At(q, r) = {} BY <1>2, <2>0, AtFacts
  <2>2. none.count = 0 BY <1>4 DEF Gaps!NoStat
  <2> QED BY <1>6, <2>1, <2>2, FS_EmptySet DEF RingOK
<1>10. RingOK(new, p, 0)
  <2>1. RingOK(none, q, 0) BY <1>9
  <2> QED BY <1>1, <1>2, <1>4, <2>1, RingFollows
<1>11. \A r \in Gaps!Slots : RingOK(t.rings[r], p, r)
  <2> SUFFICES ASSUME NEW r \in Gaps!Slots PROVE RingOK(t.rings[r], p, r) OBVIOUS
  <2>1. CASE r = 0 BY <1>8, <1>10, <2>1
  <2>2. CASE r # 0
    <3>1. t.rings[r] = none BY <1>8, <2>2
    <3>2. f[1] % Rings # r /\ RingOK(none, q, r) BY <1>9, <2>2
    <3> QED BY <1>1, <1>2, <3>1, <3>2, RingStays
  <2> QED BY <2>1, <2>2
<1>12. t \in Trackers
  <2>1. 0 \in Gaps!Slots BY <1>0 DEF Gaps!Slots
  <2> QED BY <1>5, <1>6, <1>7, <1>8, <2>1 DEF Trackers
<1>13. AtLast(t, p) BY <1>3, <1>8 DEF AtLast
<1>14. t.started BY <1>8
<1> QED BY <1>3, <1>11, <1>12, <1>13, <1>14 DEF TrackOK

\* The next one moves it on.
LEMMA TrackSteps ==
  ASSUME TrackOK(v3, v6), v6 \in Seq(SeenFrames), v6 # <<>>, NEW f \in SeenFrames, InTime(f),
         NEW d \in Nat, f[1] = v6[Len(v6)][1] + d,
         NEW p, p = Append(v6, f), NEW t, t = Gaps!Stepped(f[2], d)
  PROVE  TrackOK(t, p)
<1>0. Rings \in Nat \ {0} BY GapBounds
<1>1. PICK q, n, k : q = v6 /\ n = Len(v6) /\ k = v3 OBVIOUS
<1>2. /\ q \in Seq(SeenFrames) /\ q # <<>> /\ n = Len(q) /\ TrackOK(k, q)
      /\ f[1] = q[n][1] + d /\ p = Append(q, f)
  BY <1>1
<1>3. /\ p \in Seq(SeenFrames) /\ Len(p) = n + 1 /\ n \in Nat /\ p # <<>>
      /\ \A i \in 1 .. n : p[i] = q[i]
      /\ p[n + 1] = f
  BY <1>2, Appended
<1>4. n >= 1 /\ 1 \in 1 .. n /\ n \in 1 .. n BY <1>2
<1>5. k \in Trackers /\ AtLast(k, q) BY <1>2 DEF TrackOK
<1>6. q[n] \in SeenFrames BY <1>2, <1>4
<1>7. PICK a : a = q[n][1] OBVIOUS
<1>8. a \in Nat /\ a \in Int /\ d \in Int /\ f[1] = a + d
  <2>1. a \in Nat BY <1>6, <1>7 DEF SeenFrames
  <2>2. f[1] = a + d BY <1>2, <1>7
  <2> QED BY <2>1, <2>2
<1>9. PICK r : r = (k.ring + d) % Rings OBVIOUS
<1>10. r = f[1] % Rings
  <2>1. k.ring = a % Rings BY <1>2, <1>5, <1>7 DEF AtLast
  <2>2. ((a % Rings) + d) % Rings = (a + d) % Rings BY <1>0, <1>8, RestOfSum
  <2> QED BY <1>8, <1>9, <2>1, <2>2
<1>11. r \in Gaps!Slots
  <2>1. f[1] \in Int BY <1>8
  <2>2. r \in 0 .. Rings - 1 BY <1>0, <1>10, <2>1, QuotientAndRest
  <2> QED BY <2>2 DEF Gaps!Slots
<1>12. PICK x, new : x = k.rings[r] /\ new = NewStat(x, f[2]) OBVIOUS
<1>13. t = [[k EXCEPT !.rings[r] = new] EXCEPT !.ring = r, !.last = f[2]]
  BY <1>1, <1>9, <1>12 DEF Gaps!Stepped, Gaps!Observed, NewStat
<1>14. f[2] \in Nat BY DEF SeenFrames
<1>15. x \in RingStats BY <1>5, <1>11, <1>12 DEF Trackers
<1>16. new \in RingStats
  <2>1. PICK c, g : c = x.count + 1 /\ g = IF x.count = 0 THEN f[2] ELSE x.first OBVIOUS
  <2>2. c \in Nat /\ g \in Nat BY <1>14, <1>15, <2>1 DEF RingStats
  <2>3. new = [count |-> c, last |-> f[2], first |-> g] BY <1>12, <2>1 DEF NewStat
  <2> QED BY <1>14, <2>2, <2>3 DEF RingStats
<1>17. /\ t \in Trackers /\ t.started = k.started /\ t.start = k.start
       /\ t.ring = r /\ t.last = f[2]
       /\ t.rings = [k.rings EXCEPT ![r] = new]
  <2>1. k.rings \in [Gaps!Slots -> RingStats] BY <1>5 DEF Trackers
  <2>2. PICK rings : rings = [k.rings EXCEPT ![r] = new] OBVIOUS
  <2>3. rings \in [Gaps!Slots -> RingStats] BY <1>11, <1>16, <2>1, <2>2
  <2>4. t = [k EXCEPT !.rings = rings, !.ring = r, !.last = f[2]]
    BY <1>5, <1>13, <2>2 DEF Trackers
  <2> QED BY <1>5, <1>11, <1>14, <2>2, <2>3, <2>4 DEF Trackers
<1>18. \A s \in Gaps!Slots : RingOK(k.rings[s], q, s) BY <1>2 DEF TrackOK
<1>19. \A s \in Gaps!Slots : RingOK(t.rings[s], p, s)
  <2> SUFFICES ASSUME NEW s \in Gaps!Slots PROVE RingOK(t.rings[s], p, s) OBVIOUS
  <2>0. k.rings \in [Gaps!Slots -> RingStats] BY <1>5 DEF Trackers
  <2>1. CASE s = r
    <3>1. t.rings[s] = new BY <1>11, <1>17, <2>0, <2>1
    <3>2. RingOK(x, q, r) BY <1>11, <1>12, <1>18
    <3>3. RingOK(new, p, r) BY <1>2, <1>10, <1>12, <3>2, RingFollows
    <3> QED BY <2>1, <3>1, <3>3
  <2>2. CASE s # r
    <3>1. t.rings[s] = k.rings[s] BY <1>17, <2>0, <2>2
    <3>2. RingOK(k.rings[s], q, s) BY <1>18
    <3> QED BY <1>2, <1>10, <2>2, <3>1, <3>2, RingStays
  <2> QED BY <2>1, <2>2
<1>20. AtLast(t, p)
  <2>1. t.start = q[1][2] BY <1>5, <1>17 DEF AtLast
  <2>2. p[1] = q[1] BY <1>3, <1>4
  <2> QED BY <1>3, <1>10, <1>17, <2>1, <2>2 DEF AtLast
<1>21. t.started BY <1>2, <1>17 DEF TrackOK
<1> QED BY <1>3, <1>17, <1>19, <1>20, <1>21 DEF TrackOK

\* A ring is taken for a voice ring by what was seen of it.
LEMMA VoiceRingSeen ==
  ASSUME TrackOK(v3, v6), v6 \in Seq(SeenFrames), v6 # <<>>, NEW r \in Gaps!Slots
  PROVE  /\ Gaps!IsVoiceRing(r) <=> Gaps!Known(r)
         /\ Gaps!IsVoiceRing(r) =>
               /\ At(v6, r) # {}
               /\ \/ Cardinality(At(v6, r)) >= MinSightings
                  \/ \E i \in At(v6, r) :
                        v6[i][2] - v6[1][2] < SettleFrames * Rings * SlotLen
<1>1. PICK q, n, t, x, A, c : /\ q = v6 /\ n = Len(q) /\ t = v3 /\ x = t.rings[r]
                              /\ A = At(q, r) /\ c = SettleFrames * Rings * SlotLen
  OBVIOUS
<1>2. q \in Seq(SeenFrames) /\ TrackOK(t, q) /\ q # <<>> BY <1>1
<1>3. AtLast(t, q) /\ RingOK(x, q, r) BY <1>1, <1>2 DEF TrackOK
<1>4. x \in RingStats /\ x.count = Cardinality(A) BY <1>1, <1>3 DEF RingOK
<1>5. t.start = q[1][2] /\ t.last = q[n][2] BY <1>1, <1>3 DEF AtLast
<1>6. /\ A \subseteq Nat /\ Cardinality(A) \in Nat /\ (Cardinality(A) = 0 <=> A = {})
  BY <1>1, <1>2, AtFacts
<1>7. Gaps!Sightings(r) = A BY <1>1 DEF Gaps!Sightings, At
<1>8. Gaps!IsVoiceRing(r)
        <=> /\ x.count >= IF x.first - t.start < c THEN 1 ELSE MinSightings
            /\ t.last - x.last <= ActiveSlots * SlotLen
  BY <1>1 DEF Gaps!IsVoiceRing
<1>9. CASE A = {}
  <2>1. x.count = 0 BY <1>4, <1>6, <1>9
  <2>2. MinSightings \in Nat \ {0} BY GapBounds
  <2>3. ~(0 >= 1) /\ ~(0 >= MinSightings) BY <2>2
  <2>4. ~Gaps!IsVoiceRing(r) BY <1>8, <2>1, <2>3
  <2>5. ~Gaps!Known(r) BY <1>7, <1>9 DEF Gaps!Known
  <2> QED BY <2>4, <2>5
<1>10. CASE A # {}
  <2>1. PICK lo, hi \in 1 .. n : Ends(q, A, lo, hi) /\ x.first = q[lo][2] /\ x.last = q[hi][2]
    BY <1>1, <1>3, <1>10 DEF RingOK
  <2>2. lo \in A /\ hi \in A /\ \A i \in A : lo <= i /\ i <= hi BY <2>1 DEF Ends
  <2>3. Gaps!Min(A) = lo
    <3>1. \A y \in A : (\A z \in A : y <= z) => y = lo BY <1>6, <2>2
    <3> QED BY <2>2, <3>1 DEF Gaps!Min
  <2>4. Gaps!Max(A) = hi
    <3>1. \A y \in A : (\A z \in A : y >= z) => y = hi BY <1>6, <2>2
    <3>2. \A z \in A : hi >= z BY <1>6, <2>2
    <3> QED BY <2>2, <3>1, <3>2 DEF Gaps!Max
  <2>5. Gaps!Cardinality(A) = Cardinality(A) BY GapCounts
  <2>6. Gaps!Known(r)
          <=> /\ x.first - t.start < c \/ Cardinality(A) >= MinSightings
              /\ t.last - x.last <= ActiveSlots * SlotLen
    BY <1>1, <1>5, <1>7, <1>10, <2>1, <2>3, <2>4, <2>5 DEF Gaps!Known
  <2>7. PICK k : k = Cardinality(A) OBVIOUS
  <2>8. k \in Nat /\ k >= 1
    <3>1. k # 0 BY <1>6, <1>10, <2>7
    <3>2. k \in Nat BY <1>6, <2>7
    <3> QED BY <3>1, <3>2
  <2>9. x.count >= (IF x.first - t.start < c THEN 1 ELSE MinSightings)
          <=> x.first - t.start < c \/ Cardinality(A) >= MinSightings
    <3>1. x.count = k BY <1>4, <2>7
    <3> QED BY <2>7, <2>8, <3>1
  <2>10. Gaps!IsVoiceRing(r) <=> Gaps!Known(r) BY <1>8, <2>6, <2>9
  <2>11. Gaps!IsVoiceRing(r) => q[lo][2] - q[1][2] < c \/ Cardinality(A) >= MinSightings
    BY <1>5, <1>8, <2>1, <2>9
  <2> QED BY <1>1, <1>10, <2>2, <2>10, <2>11
<1> QED BY <1>1, <1>9, <1>10

-----------------------------------------------------------------------------
(* The entries of the sound.                                               *)

LastSeen(q) == q[Len(q)][1]

\* The bursts misread as voice, the voice slots and both.
Strayed(q, V) == {i \in DOMAIN q : q[i][1] % Rings \notin V}
Voices(q, V) == InRings(q[1][1], LastSeen(q), V)
Total(q, V) == Cardinality(Voices(q, V)) + Cardinality(Strayed(q, V))

\* The slots of the rings that were seen.
SeenRings(q) == {r \in Gaps!Slots : At(q, r) # {}}
Heard(q) == InRings(q[1][1], LastSeen(q), SeenRings(q))

\* Bursts are misread as voice late and seldom.
Quiet(q, V) ==
    /\ \A i \in Strayed(q, V) : q[i][2] - q[1][2] >= SettleFrames * Rings * SlotLen
    /\ \A r \in Gaps!Slots \ V : Cardinality(At(q, r)) < MinSightings

EntriesRight(n, q, V, cut) ==
    /\ cut => n = Total(q, V)
    /\ n <= Cardinality(Heard(q))
    /\ Quiet(q, V) => n <= Total(q, V)

\* The first frame is that of slot 0, and the last is of a slot.
InOrder(q) == q[1][1] = 0 /\ LastSeen(q) \in Nat

\* They are finitely many.
LEMMA StrayedFacts ==
  ASSUME NEW q \in Seq(SeenFrames), NEW V
  PROVE  IsFiniteSet(Strayed(q, V)) /\ Cardinality(Strayed(q, V)) \in Nat
<1>1. Len(q) \in Nat /\ DOMAIN q = 1 .. Len(q) OBVIOUS
<1>2. Strayed(q, V) \subseteq 1 .. Len(q) BY <1>1 DEF Strayed
<1>3. IsFiniteSet(1 .. Len(q)) BY <1>1, FS_Interval
<1> QED BY <1>2, <1>3, FS_Subset, FS_CardinalityType

\* One more frame may be one more burst misread as voice.
LEMMA StrayedAppended ==
  ASSUME NEW q \in Seq(SeenFrames), NEW f \in SeenFrames, NEW V
  PROVE  Cardinality(Strayed(Append(q, f), V))
           = Cardinality(Strayed(q, V)) + (IF f[1] % Rings \in V THEN 0 ELSE 1)
<1>0. PICK p, n, A, B : /\ p = Append(q, f) /\ n = Len(q)
                        /\ A = Strayed(q, V) /\ B = Strayed(p, V)
  OBVIOUS
<1>1. /\ n \in Nat /\ DOMAIN p = 1 .. n + 1 /\ DOMAIN q = 1 .. n
      /\ \A i \in 1 .. n : p[i] = q[i]
      /\ p[n + 1] = f
  BY <1>0, Appended
<1>2. \A i : i \in 1 .. n + 1 <=> i \in 1 .. n \/ i = n + 1 BY <1>1
<1>3. \A i : i \in B <=> i \in A \/ (i = n + 1 /\ f[1] % Rings \notin V)
  BY <1>0, <1>1, <1>2 DEF Strayed
<1>4. IsFiniteSet(A) /\ Cardinality(A) \in Nat BY <1>0, StrayedFacts
<1>5. CASE f[1] % Rings \in V
  <2>1. B = A BY <1>3, <1>5
  <2> QED BY <1>0, <1>4, <1>5, <2>1
<1>6. CASE f[1] % Rings \notin V
  <2>1. B = A \cup {n + 1} BY <1>3, <1>6
  <2>2. n + 1 \notin A BY <1>0, <1>1 DEF Strayed
  <2>3. Cardinality(B) = Cardinality(A) + 1 BY <1>4, <2>1, <2>2, FS_AddElement
  <2> QED BY <1>0, <1>6, <2>3
<1> QED BY <1>5, <1>6

\* The slots up to a frame are those up to the last one, those between and its own.
LEMMA SlotsUpTo ==
  ASSUME NEW a \in Nat, NEW s \in Nat, a < s, NEW V
  PROVE  Cardinality(InRings(0, s, V))
           = Cardinality(InRings(0, a, V)) + Cardinality(InRings(a + 1, s - 1, V))
                + (IF s % Rings \in V THEN 1 ELSE 0)
<1>1. PICK x, y, z, w : /\ x = Cardinality(InRings(0, a, V))
                        /\ y = Cardinality(InRings(a + 1, s - 1, V))
                        /\ z = Cardinality(InRings(s, s, V))
                        /\ w = Cardinality(InRings(a + 1, s, V))
  OBVIOUS
<1>2. PICK b, c : b = a + 1 /\ c = s - 1 OBVIOUS
<1>3. /\ a \in Int /\ s \in Int /\ b \in Int /\ c \in Int /\ 0 \in Int
      /\ 0 <= b /\ a <= s /\ b <= s /\ c <= s /\ c + 1 = s
  BY <1>2
<1>4. x \in Nat /\ y \in Nat /\ z \in Nat /\ w \in Nat BY <1>1, <1>2, <1>3, InRingsFacts
<1>5. Cardinality(InRings(0, s, V)) = x + w BY <1>1, <1>2, <1>3, InRingsSplit
<1>6. w = y + z BY <1>1, <1>2, <1>3, InRingsSplit
<1>7. z = IF s % Rings \in V THEN 1 ELSE 0 BY <1>1, <1>3, InRingsOne
<1>8. x + w = x + y + z BY <1>4, <1>6
<1> QED BY <1>1, <1>5, <1>7, <1>8

\* More rings have more slots.
LEMMA MoreRings ==
  ASSUME NEW lo \in Int, NEW hi \in Int, NEW V, NEW W, V \subseteq W
  PROVE  Cardinality(InRings(lo, hi, V)) <= Cardinality(InRings(lo, hi, W))
<1>1. PICK A, B : A = InRings(lo, hi, V) /\ B = InRings(lo, hi, W) OBVIOUS
<1>2. A \subseteq B BY <1>1 DEF InRings
<1>3. IsFiniteSet(B) BY <1>1, InRingsFacts
<1> QED BY <1>1, <1>2, <1>3, FS_Subset

\* One more frame adds the voice slots before it and one.
LEMMA TotalGrows ==
  ASSUME NEW q \in Seq(SeenFrames), q # <<>>, InOrder(q), NEW f \in SeenFrames,
         LastSeen(q) < f[1], NEW V
  PROVE  /\ Total(Append(q, f), V)
              = Total(q, V) + Cardinality(InRings(LastSeen(q) + 1, f[1] - 1, V)) + 1
         /\ Total(q, V) \in Nat
<1>0. PICK p, n, a, s : p = Append(q, f) /\ n = Len(q) /\ a = LastSeen(q) /\ s = f[1] OBVIOUS
<1>1. /\ Len(p) = n + 1 /\ \A i \in 1 .. n : p[i] = q[i]
      /\ p[n + 1] = f
  BY <1>0, Appended
<1>2. n \in Nat /\ 1 \in 1 .. n BY <1>0
<1>3. a \in Nat /\ s \in Nat /\ a < s /\ q[1][1] = 0 BY <1>0 DEF InOrder, SeenFrames
<1>4. p[1][1] = 0 /\ LastSeen(p) = s BY <1>0, <1>1, <1>2, <1>3 DEF LastSeen
<1>5. PICK x, y, u, v : /\ x = Cardinality(InRings(0, a, V))
                        /\ y = Cardinality(InRings(a + 1, s - 1, V))
                        /\ u = Cardinality(Strayed(q, V)) /\ v = Cardinality(Strayed(p, V))
  OBVIOUS
<1>6. x \in Nat /\ y \in Nat /\ u \in Nat
  <2>1. a + 1 \in Int /\ s - 1 \in Int /\ a \in Int /\ 0 \in Int BY <1>3
  <2> QED BY <1>5, <2>1, InRingsFacts, StrayedFacts
<1>7. Cardinality(InRings(0, s, V)) = x + y + (IF s % Rings \in V THEN 1 ELSE 0)
  BY <1>3, <1>5, SlotsUpTo
<1>8. v = u + (IF s % Rings \in V THEN 0 ELSE 1) BY <1>0, <1>5, StrayedAppended
<1>9. Total(p, V) = Cardinality(InRings(0, s, V)) + v BY <1>4, <1>5 DEF Total, Voices
<1>10. Total(q, V) = x + u BY <1>0, <1>3, <1>5 DEF Total, Voices
<1>11. Total(p, V) = x + u + y + 1
  <2>1. CASE s % Rings \in V BY <1>6, <1>7, <1>8, <1>9, <2>1
  <2>2. CASE s % Rings \notin V BY <1>6, <1>7, <1>8, <1>9, <2>2
  <2> QED BY <2>1, <2>2
<1>12. Cardinality(InRings(LastSeen(q) + 1, f[1] - 1, V)) = y BY <1>0, <1>5
<1>13. Total(Append(q, f), V) = Total(q, V) + y + 1 BY <1>0, <1>10, <1>11
<1>14. Total(q, V) \in Nat BY <1>6, <1>10
<1> QED BY <1>12, <1>13, <1>14

\* It adds the slots before it of rings that were seen, and one.
LEMMA HeardGrows ==
  ASSUME NEW q \in Seq(SeenFrames), q # <<>>, InOrder(q), NEW f \in SeenFrames,
         LastSeen(q) < f[1], NEW W, W \subseteq SeenRings(q)
  PROVE  /\ Cardinality(Heard(q)) + Cardinality(InRings(LastSeen(q) + 1, f[1] - 1, W)) + 1
              <= Cardinality(Heard(Append(q, f)))
         /\ Cardinality(Heard(q)) \in Nat /\ Cardinality(Heard(Append(q, f))) \in Nat
<1>0. PICK p, n, a, s : p = Append(q, f) /\ n = Len(q) /\ a = LastSeen(q) /\ s = f[1] OBVIOUS
<1>1. /\ Len(p) = n + 1 /\ \A i \in 1 .. n : p[i] = q[i]
      /\ p[n + 1] = f
  BY <1>0, Appended
<1>2. n \in Nat /\ 1 \in 1 .. n BY <1>0
<1>3. a \in Nat /\ s \in Nat /\ a < s /\ q[1][1] = 0 BY <1>0 DEF InOrder, SeenFrames
<1>4. p[1][1] = 0 /\ LastSeen(p) = s BY <1>0, <1>1, <1>2, <1>3 DEF LastSeen
<1>5. PICK U, X : U = SeenRings(q) /\ X = SeenRings(p) OBVIOUS
<1>6. \A r : At(q, r) \subseteq At(p, r) BY <1>0, AtAppended
<1>7. U \subseteq X /\ W \subseteq X BY <1>5, <1>6 DEF SeenRings
<1>8. s % Rings \in X
  <2>1. s \in Int /\ Rings \in Nat \ {0} BY <1>3, GapBounds
  <2>2. s % Rings \in Gaps!Slots BY <2>1, QuotientAndRest DEF Gaps!Slots
  <2>3. n + 1 \in At(p, s % Rings) BY <1>0, AtAppended
  <2> QED BY <1>5, <2>2, <2>3 DEF SeenRings
<1>9. PICK x, y, xx, yy : /\ x = Cardinality(InRings(0, a, U))
                          /\ xx = Cardinality(InRings(0, a, X))
                          /\ y = Cardinality(InRings(a + 1, s - 1, W))
                          /\ yy = Cardinality(InRings(a + 1, s - 1, X))
  OBVIOUS
<1>10. x \in Nat /\ y \in Nat /\ xx \in Nat /\ yy \in Nat /\ x <= xx /\ y <= yy
  <2>1. a + 1 \in Int /\ s - 1 \in Int /\ a \in Int /\ 0 \in Int BY <1>3
  <2>2. x \in Nat /\ y \in Nat /\ xx \in Nat /\ yy \in Nat BY <1>9, <2>1, InRingsFacts
  <2>3. x <= xx BY <1>7, <1>9, <2>1, MoreRings
  <2>4. y <= yy BY <1>7, <1>9, <2>1, MoreRings
  <2> QED BY <2>2, <2>3, <2>4
<1>11. Cardinality(InRings(0, s, X)) = xx + yy + 1 BY <1>3, <1>8, <1>9, SlotsUpTo
<1>12. Cardinality(Heard(p)) = xx + yy + 1 BY <1>4, <1>5, <1>11 DEF Heard
<1>13. Cardinality(Heard(q)) = x BY <1>0, <1>3, <1>5, <1>9 DEF Heard
<1>14. x + y + 1 <= xx + yy + 1 /\ xx + yy + 1 \in Nat BY <1>10
<1> QED BY <1>0, <1>9, <1>10, <1>12, <1>13, <1>14

-----------------------------------------------------------------------------
(* The invariant of the gaps.                                              *)

GapInv ==
    /\ v1 \subseteq Gaps!Slots /\ v2 \in 0 .. LastSlot + 1
    /\ v4 \in Nat /\ v5 \in 0 .. 1 /\ v7 \in BOOLEAN
    /\ v6 \in Seq(SeenFrames) /\ TrackOK(v3, v6)
    /\ v6 = <<>> => v2 = 0
    /\ v6 # <<>> => InOrder(v6) /\ LastSeen(v6) < v2 /\ EntriesRight(v4, v6, v1, v7)

\* Bursts that are misread as voice late and seldom make no ring a voice ring.
LEMMA QuietRings ==
  ASSUME TrackOK(v3, v6), v6 \in Seq(SeenFrames), v6 # <<>>, Quiet(v6, v1)
  PROVE  VoiceRings \subseteq v1
<1> SUFFICES ASSUME NEW r \in VoiceRings, r \notin v1 PROVE FALSE OBVIOUS
<1>1. r \in Gaps!Slots /\ Gaps!IsVoiceRing(r) BY DEF VoiceRings
<1>2. PICK c, k : c = SettleFrames * Rings * SlotLen /\ k = Cardinality(At(v6, r)) OBVIOUS
<1>3. k < MinSightings BY <1>1, <1>2 DEF Quiet
<1>4. k \in Nat /\ MinSightings \in Nat BY <1>2, AtFacts, GapBounds
<1>5. PICK i \in At(v6, r) : v6[i][2] - v6[1][2] < c
  <2>1. ~(k >= MinSightings) BY <1>3, <1>4
  <2> QED BY <1>1, <1>2, <2>1, VoiceRingSeen
<1>6. i \in Strayed(v6, v1) BY DEF At, Strayed
<1>7. v6[i][2] - v6[1][2] >= c BY <1>2, <1>6 DEF Quiet
<1>8. v6[i] \in SeenFrames /\ v6[1] \in SeenFrames
  <2>1. Len(v6) \in Nat /\ 1 \in 1 .. Len(v6) OBVIOUS
  <2>2. i \in 1 .. Len(v6) BY AtFacts
  <2> QED BY <2>1, <2>2
<1>9. v6[i][2] \in Nat /\ v6[1][2] \in Nat BY <1>8 DEF SeenFrames
<1>10. c \in Int BY <1>2, GapBounds
<1> QED BY <1>5, <1>7, <1>9, <1>10

\* A quiet stream has been quiet.
LEMMA QuietBefore ==
  ASSUME NEW q \in Seq(SeenFrames), q # <<>>, NEW f \in SeenFrames, NEW V, Quiet(Append(q, f), V)
  PROVE  Quiet(q, V)
<1>0. PICK p, n : p = Append(q, f) /\ n = Len(q) OBVIOUS
<1>1. /\ n \in Nat /\ DOMAIN p = 1 .. n + 1 /\ DOMAIN q = 1 .. n
      /\ \A i \in 1 .. n : p[i] = q[i]
      /\ p \in Seq(SeenFrames)
  BY <1>0, Appended
<1>2. 1 \in 1 .. n BY <1>0, <1>1
<1>3. \A i \in 1 .. n : i \in 1 .. n + 1 BY <1>1
<1>4. ASSUME NEW i \in Strayed(q, V)
      PROVE  q[i][2] - q[1][2] >= SettleFrames * Rings * SlotLen
  <2>1. i \in 1 .. n /\ p[i] = q[i] /\ p[1] = q[1] BY <1>1, <1>2 DEF Strayed
  <2>2. i \in Strayed(p, V) BY <1>1, <1>3, <2>1 DEF Strayed
  <2>3. p[i][2] - p[1][2] >= SettleFrames * Rings * SlotLen BY <1>0, <2>2 DEF Quiet
  <2> QED BY <2>1, <2>3
<1>5. ASSUME NEW r \in Gaps!Slots \ V
      PROVE  Cardinality(At(q, r)) < MinSightings
  <2>1. At(q, r) \subseteq At(p, r) BY <1>0, AtAppended
  <2>2. IsFiniteSet(At(p, r)) /\ Cardinality(At(p, r)) \in Nat BY <1>1, AtFacts
  <2>3. Cardinality(At(q, r)) <= Cardinality(At(p, r)) BY <2>1, <2>2, FS_Subset
  <2>4. Cardinality(At(p, r)) < MinSightings BY <1>0 DEF Quiet
  <2>5. Cardinality(At(q, r)) \in Nat /\ MinSightings \in Nat BY AtFacts, GapBounds
  <2> QED BY <2>2, <2>3, <2>4, <2>5
<1> QED BY <1>4, <1>5 DEF Quiet

\* The first frame makes one entry.
LEMMA FirstEntry ==
  ASSUME NEW f \in SeenFrames, f[1] = 0, NEW V, NEW cut, NEW p, p = Append(<<>>, f)
  PROVE  InOrder(p) /\ EntriesRight(1, p, V, cut)
<1>0. PICK q, none : q = <<>> /\ none = InRings(0, 0, V) OBVIOUS
<1>1. q \in Seq(SeenFrames) /\ Len(q) = 0 BY <1>0
<1>2. Len(p) = 1 /\ p[1] = f /\ p # <<>>
  <2>1. 0 + 1 = 1 OBVIOUS
  <2> QED BY <1>0, <1>1, <2>1, Appended
<1>3. p[1][1] = 0 /\ LastSeen(p) = 0 BY <1>2 DEF LastSeen
<1>4. InOrder(p) BY <1>3 DEF InOrder
<1>5. 0 % Rings = 0
  <2>1. Rings \in Nat \ {0} BY GapBounds
  <2>2. 0 \in 0 .. Rings - 1 /\ 0 = Rings * 0 + 0 BY <2>1
  <2> QED BY <2>1, <2>2, OneQuotient
<1>6. Cardinality(Voices(p, V)) = IF 0 \in V THEN 1 ELSE 0
  BY <1>3, <1>5, InRingsOne DEF Voices
<1>7. Cardinality(Strayed(p, V)) = IF 0 \in V THEN 0 ELSE 1
  <2>1. \A i : i \notin Strayed(q, V) BY <1>0 DEF Strayed
  <2>2. Cardinality(Strayed(q, V)) = 0 BY <2>1, FS_EmptySet
  <2>3. Cardinality(Strayed(Append(q, f), V))
          = Cardinality(Strayed(q, V)) + (IF f[1] % Rings \in V THEN 0 ELSE 1)
    BY ONLY <1>1, StrayedAppended, f \in SeenFrames
  <2>4. Append(q, f) = p BY <1>0
  <2> QED BY <1>5, <2>2, <2>3, <2>4
<1>8. Total(p, V) = 1 BY <1>6, <1>7 DEF Total
<1>9. Cardinality(Heard(p)) = 1
  <2>1. 1 \in DOMAIN p BY <1>2
  <2>2. 1 \in At(p, 0) BY <1>2, <1>3, <1>5, <2>1 DEF At
  <2>3. 0 \in SeenRings(p) BY <2>2, GapBounds DEF SeenRings, Gaps!Slots
  <2> QED BY <1>3, <1>5, <2>3, InRingsOne DEF Heard
<1> QED BY <1>4, <1>8, <1>9 DEF EntriesRight

\* The next one makes those that are missing before it, and one.
LEMMA NextEntries ==
  ASSUME NEW q \in Seq(SeenFrames), q # <<>>, InOrder(q), NEW f \in SeenFrames,
         LastSeen(q) < f[1], NEW V, NEW W, W \subseteq SeenRings(q),
         NEW cut, NEW more, NEW n \in Nat, EntriesRight(n, q, V, cut),
         NEW fill \in Nat,
         fill <= Cardinality(InRings(LastSeen(q) + 1, f[1] - 1, W)),
         more => /\ cut
                 /\ fill = Cardinality(InRings(LastSeen(q) + 1, f[1] - 1, V)),
         Quiet(q, V) => W \subseteq V
  PROVE  EntriesRight(n + fill + 1, Append(q, f), V, more)
<1>0. PICK p, lo, hi, k : /\ p = Append(q, f) /\ lo = LastSeen(q) + 1 /\ hi = f[1] - 1
                          /\ k = n + fill + 1
  OBVIOUS
<1>1. lo \in Int /\ hi \in Int
  <2>1. PICK a, s : a = LastSeen(q) /\ s = f[1] OBVIOUS
  <2>2. a \in Nat BY <2>1 DEF InOrder
  <2>3. s \in Nat BY <2>1 DEF SeenFrames
  <2> QED BY <1>0, <2>1, <2>2, <2>3
<1>2. PICK x, y, t, tt, h, hh :
         /\ x = Cardinality(InRings(lo, hi, W)) /\ y = Cardinality(InRings(lo, hi, V))
         /\ t = Total(q, V) /\ tt = Total(p, V)
         /\ h = Cardinality(Heard(q)) /\ hh = Cardinality(Heard(p))
  OBVIOUS
<1>3. x \in Nat /\ y \in Nat BY <1>1, <1>2, InRingsFacts
<1>4. tt = t + y + 1 /\ t \in Nat BY <1>0, <1>2, TotalGrows
<1>5. h + x + 1 <= hh /\ h \in Nat /\ hh \in Nat BY <1>0, <1>2, HeardGrows
<1>6. fill <= x BY <1>0, <1>2
<1>7. k \in Nat /\ k = n + fill + 1 BY <1>0
<1>8. ASSUME more PROVE k = tt
  <2>1. fill = y BY <1>0, <1>2, <1>8
  <2>2. n = t BY <1>2, <1>8 DEF EntriesRight
  <2> QED BY <1>3, <1>4, <1>7, <2>1, <2>2
<1>9. k <= hh
  <2>1. n <= h BY <1>2 DEF EntriesRight
  <2> QED BY <1>3, <1>5, <1>6, <1>7, <2>1
<1>10. ASSUME Quiet(p, V) PROVE k <= tt
  <2>1. Quiet(q, V) BY <1>0, <1>10, QuietBefore
  <2>2. n <= t BY <1>2, <2>1 DEF EntriesRight
  <2>3. x <= y BY <1>1, <1>2, <2>1, MoreRings
  <2> QED BY <1>3, <1>4, <1>6, <1>7, <2>2, <2>3
<1>11. EntriesRight(k, p, V, more) BY <1>2, <1>8, <1>9, <1>10 DEF EntriesRight
<1> QED BY <1>0, <1>11

\* A frame counts the slots since the last one rightly.
LEMMA SlotsSince ==
  ASSUME NEW a \in Nat, NEW s \in Nat, NEW x, NEW y, InTime(<<a, x>>), InTime(<<s, y>>)
  PROVE  Gaps!RoundHalfEven(y - x) = s - a
<1>0. SlotLen \in Nat \ {0} BY GapBounds
<1>1. PICK i \in Nat : x = SlotLen * a + i /\ 2 * i < SlotLen BY DEF InTime
<1>2. PICK j \in Nat : y = SlotLen * s + j /\ 2 * j < SlotLen BY DEF InTime
<1>3. PICK d, e : d = s - a /\ e = j - i OBVIOUS
<1>4. d \in Int /\ e \in Int /\ 2 * e < SlotLen /\ -SlotLen < 2 * e BY <1>0, <1>1, <1>2, <1>3
<1>5. SlotLen * (s - a) = SlotLen * s - SlotLen * a BY <1>0, SMT
<1>6. PICK u, v : u = SlotLen * s /\ v = SlotLen * a OBVIOUS
<1>7. u \in Int /\ v \in Int BY <1>0, <1>6
<1>8. y - x = (u - v) + e BY <1>1, <1>2, <1>3, <1>6, <1>7
<1>9. PICK gap : gap = y - x OBVIOUS
<1>10. gap = SlotLen * d + e BY <1>3, <1>5, <1>6, <1>8, <1>9
<1>11. Gaps!RoundHalfEven(gap) = d BY <1>4, <1>10, RoundedRight
<1> QED BY <1>3, <1>9, <1>11

\* A frame, at its slot and in time, keeps the invariant.
LEMMA FrameKeeps ==
  ASSUME GapInv, NEW pos, InTime(<<v2, pos>>), pos \in Nat, v2 <= LastSlot,
         Gaps!Step(v2, pos), v2' = v2 + 1, v1' = v1, v5' = v5
  PROVE  GapInv'
<1>0. PICK s, q, f, p : s = v2 /\ q = v6 /\ f = <<s, pos>> /\ p = Append(q, f) OBVIOUS
<1>1. /\ s \in Nat /\ s <= LastSlot /\ LastSlot \in Nat /\ q \in Seq(SeenFrames)
      /\ TrackOK(v3, q)
  BY <1>0, GapBounds DEF GapInv
<1>2. f \in SeenFrames /\ f[1] = s /\ f[2] = pos /\ InTime(f) BY <1>0, <1>1 DEF SeenFrames
<1>3. p \in Seq(SeenFrames) /\ p # <<>> /\ v6' = p
  <2>1. v6' = p BY <1>0 DEF Gaps!Step
  <2> QED BY <1>0, <1>1, <1>2, <2>1, Appended
<1>4. LastSeen(p) = s
  <2>1. Len(p) = Len(q) + 1 /\ p[Len(q) + 1] = f BY <1>0, <1>1, <1>2, Appended
  <2> QED BY <1>2, <2>1 DEF LastSeen
<1>5. v2' \in 0 .. LastSlot + 1 /\ LastSeen(p) < v2' BY <1>0, <1>1, <1>4
<1>6. SUFFICES /\ v4' \in Nat /\ v7' \in BOOLEAN /\ TrackOK(v3', p)
               /\ InOrder(p) /\ EntriesRight(v4', p, v1, v7')
  BY <1>3, <1>5 DEF GapInv
<1>7. CASE q = <<>>
  <2>1. s = 0 BY <1>0, <1>7 DEF GapInv
  <2>2. ~v3.started BY <1>1, <1>7 DEF TrackOK
  <2>3. v3' = Gaps!First(pos) /\ v4' = 1 /\ v7' = v7 BY <2>2 DEF Gaps!Step
  <2>4. f[1] % Rings = 0
    <3>1. Rings \in Nat \ {0} BY GapBounds
    <3>2. 0 \in 0 .. Rings - 1 /\ 0 = Rings * 0 + 0 BY <3>1
    <3>3. 0 % Rings = 0 BY <3>1, <3>2, OneQuotient
    <3> QED BY <1>2, <2>1, <3>3
  <2>5. TrackOK(v3', p) BY <1>0, <1>1, <1>2, <1>7, <2>3, <2>4, TrackStarts
  <2>6. p = Append(<<>>, f) BY <1>0, <1>7
  <2>7. f[1] = 0 BY <1>2, <2>1
  <2>8. InOrder(p) /\ EntriesRight(1, p, v1, v7') BY <1>2, <2>6, <2>7, FirstEntry
  <2>9. v7' \in BOOLEAN BY <2>3 DEF GapInv
  <2> QED BY <2>3, <2>5, <2>8, <2>9
<1>8. CASE q # <<>>
  <2>1. PICK n, a, d : n = Len(q) /\ a = LastSeen(q) /\ d = s - a OBVIOUS
  <2>2. InOrder(q) /\ a < s /\ EntriesRight(v4, q, v1, v7)
    BY <1>0, <1>8, <2>1 DEF GapInv
  <2>3. a \in Nat /\ d \in Nat \ {0} /\ d \in Nat /\ s = a + d
    BY <1>1, <2>1, <2>2 DEF InOrder
  <2>4. v3.started /\ AtLast(v3, q) BY <1>1, <1>8 DEF TrackOK
  <2>5. q[n] \in SeenFrames /\ q[n][1] = a
    <3>1. n \in 1 .. Len(q) BY <1>1, <1>8, <2>1
    <3>2. q[n] \in SeenFrames BY <1>1, <3>1
    <3> QED BY <2>1, <3>2 DEF LastSeen
  <2>6. PICK x : x = q[n][2] OBVIOUS
  <2>7. q[n] = <<a, x>> BY <2>5, <2>6 DEF SeenFrames
  <2>8. v3.last = x /\ v3.ring = a % Rings /\ InTime(<<a, x>>)
    <3>1. v3.last = q[n][2] /\ v3.ring = q[n][1] % Rings /\ InTime(q[n])
      BY <2>1, <2>4 DEF AtLast
    <3> QED BY <2>5, <2>6, <2>7, <3>1
  <2>9. Gaps!RoundHalfEven(pos - v3.last) = d
    <3>1. InTime(<<s, pos>>) BY <1>0, <1>2
    <3>2. Gaps!RoundHalfEven(pos - x) = s - a BY <1>1, <2>3, <2>8, <3>1, SlotsSince
    <3> QED BY <2>1, <2>8, <3>2
  <2>10. PICK m, fill : m = Gaps!Missing(d) /\ fill = Gaps!Min({m, GapFill}) OBVIOUS
  <2>11. PICK lo, hi : lo = a + 1 /\ hi = s - 1 OBVIOUS
  <2>12. PICK between, voiced : between = lo .. hi /\ voiced = InRings(lo, hi, v1) OBVIOUS
  <2>13. /\ v3' = Gaps!Stepped(pos, d)
         /\ v4' = v4 + fill + 1
         /\ v7' = (/\ v7
                   /\ Gaps!Cardinality({t \in between : t % Rings \in v1}) <= GapFill
                   /\ \A t \in between : Gaps!Known(t % Rings) <=> t % Rings \in v1)
    <3>1. between = q[n][1] + 1 .. s - 1 BY <2>5, <2>11, <2>12
    <3> QED BY <1>0, <2>1, <2>4, <2>9, <2>10, <3>1 DEF Gaps!Step
  <2>14. TrackOK(v3', p)
    <3>1. f[1] = v6[Len(v6)][1] + d BY <1>0, <1>2, <2>1, <2>3, <2>5
    <3>2. v3' = Gaps!Stepped(f[2], d) BY <1>2, <2>13
    <3> QED BY <1>0, <1>1, <1>2, <1>8, <2>3, <3>1, <3>2, TrackSteps
  <2>15. lo \in Int /\ hi \in Int /\ a + d - 1 = hi /\ a + 1 = lo BY <1>1, <2>3, <2>11
  <2>16. m = Cardinality(InRings(lo, hi, VoiceRings))
    BY <2>3, <2>8, <2>10, <2>15, MissingCounted
  <2>17. m \in Nat /\ GapFill \in Nat BY <2>15, <2>16, InRingsFacts, GapBounds
  <2>18. fill \in Nat /\ fill <= m /\ (m <= GapFill => fill = m)
    <3>1. \A z \in {m, GapFill} : z = m \/ z = GapFill OBVIOUS
    <3>2. \E z \in {m, GapFill} : \A w \in {m, GapFill} : z <= w
      <4>1. CASE m <= GapFill BY <2>17, <4>1
      <4>2. CASE GapFill <= m BY <2>17, <4>2
      <4> QED BY <2>17, <4>1, <4>2
    <3>3. fill \in {m, GapFill} /\ \A w \in {m, GapFill} : fill <= w
      BY <2>10, <3>2 DEF Gaps!Min
    <3>4. fill <= m /\ fill <= GapFill /\ (fill = m \/ fill = GapFill) BY <3>3
    <3> QED BY <2>17, <3>4
  <2>19. VoiceRings \subseteq SeenRings(q)
    <3> SUFFICES ASSUME NEW r \in VoiceRings PROVE r \in SeenRings(q) OBVIOUS
    <3>1. r \in Gaps!Slots /\ Gaps!IsVoiceRing(r) BY DEF VoiceRings
    <3>2. At(v6, r) # {} BY <1>0, <1>1, <1>8, <3>1, VoiceRingSeen
    <3> QED BY <1>0, <3>1, <3>2 DEF SeenRings
  <2>20. ASSUME v7'
         PROVE  v7 /\ fill = Cardinality(voiced)
    <3>1. Gaps!Cardinality({t \in between : t % Rings \in v1}) <= GapFill BY <2>13, <2>20
    <3>2. {t \in between : t % Rings \in v1} = voiced BY <2>12 DEF InRings
    <3>3. Cardinality(voiced) <= GapFill BY <3>1, <3>2, GapCounts
    <3>4. \A t \in between : t % Rings \in VoiceRings <=> t % Rings \in v1
      <4> SUFFICES ASSUME NEW t \in between
                   PROVE  t % Rings \in VoiceRings <=> t % Rings \in v1
        OBVIOUS
      <4>1. t \in Int BY <2>12, <2>15
      <4>2. t % Rings \in Gaps!Slots
        <5>1. Rings \in Nat \ {0} BY GapBounds
        <5> QED BY <4>1, <5>1, QuotientAndRest DEF Gaps!Slots
      <4>3. Gaps!IsVoiceRing(t % Rings) <=> Gaps!Known(t % Rings)
        BY <1>0, <1>1, <1>8, <4>2, VoiceRingSeen
      <4>4. Gaps!Known(t % Rings) <=> t % Rings \in v1 BY <2>13, <2>20
      <4> QED BY <4>2, <4>3, <4>4 DEF VoiceRings
    <3>5. InRings(lo, hi, VoiceRings) = voiced BY <2>12, <3>4 DEF InRings
    <3> QED BY <2>13, <2>16, <2>18, <2>20, <3>3, <3>5
  <2>21. Quiet(q, v1) => VoiceRings \subseteq v1 BY <1>0, <1>1, <1>8, QuietRings
  <2>22. v4 \in Nat BY DEF GapInv
  <2>23. PICK W, V : W = VoiceRings /\ V = v1 OBVIOUS
  <2>24. /\ LastSeen(q) < f[1] /\ W \subseteq SeenRings(q)
         /\ fill <= Cardinality(InRings(LastSeen(q) + 1, f[1] - 1, W))
         /\ v7' => v7 /\ fill = Cardinality(InRings(LastSeen(q) + 1, f[1] - 1, V))
         /\ Quiet(q, V) => W \subseteq V
         /\ EntriesRight(v4, q, V, v7)
    <3>1. LastSeen(q) + 1 = lo /\ f[1] - 1 = hi BY <1>2, <2>1, <2>11
    <3> QED BY <1>2, <2>1, <2>2, <2>12, <2>16, <2>18, <2>19, <2>20, <2>21, <2>23, <3>1
  <2>25. EntriesRight(v4 + fill + 1, Append(q, f), V, v7')
    <3>1. PICK cut, more, k : cut = v7 /\ more = v7' /\ k = v4 OBVIOUS
    <3>2. k \in Nat /\ EntriesRight(k, q, V, cut) BY <2>22, <2>24, <3>1
    <3>3. more => cut /\ fill = Cardinality(InRings(LastSeen(q) + 1, f[1] - 1, V))
      BY <2>24, <3>1
    <3>4. EntriesRight(k + fill + 1, Append(q, f), V, more)
      BY <1>1, <1>2, <1>8, <2>2, <2>18, <2>24, <3>2, <3>3, NextEntries
    <3> QED BY <3>1, <3>4
  <2>26. InOrder(p)
    <3>1. p[1] = q[1] BY <1>0, <1>1, <1>8
    <3> QED BY <1>1, <1>4, <2>2, <3>1 DEF InOrder
  <2>27. v4' \in Nat BY <2>13, <2>18, <2>22
  <2>28. v7' \in BOOLEAN BY <2>13
  <2> QED BY <1>0, <2>13, <2>14, <2>23, <2>25, <2>26, <2>27, <2>28
<1> QED BY <1>7, <1>8

\* The broadcast begins before its first frame.
LEMMA GapsStart == Gaps!GapInit => GapInv
<1> SUFFICES ASSUME Gaps!GapInit PROVE GapInv OBVIOUS
<1>0. Rings \in Nat \ {0} /\ LastSlot \in Nat BY GapBounds
<1>1. /\ v1 \subseteq Gaps!Slots /\ v2 = 0 /\ v4 = 0 /\ v5 = 0 /\ v6 = <<>> /\ v7 = TRUE
      /\ v3 = [started |-> FALSE, last |-> 0, ring |-> 0, start |-> 0,
               rings |-> [r \in Gaps!Slots |-> Gaps!NoStat]]
  BY DEF Gaps!GapInit
<1>2. Gaps!NoStat \in RingStats /\ Gaps!NoStat.count = 0 BY DEF Gaps!NoStat, RingStats
<1>3. 0 \in Gaps!Slots BY <1>0 DEF Gaps!Slots
<1>4. \A r : At(v6, r) = {} BY <1>1 DEF At
<1>5. \A r : RingOK(Gaps!NoStat, v6, r) BY <1>2, <1>4, FS_EmptySet DEF RingOK
<1>6. TrackOK(v3, v6) BY <1>1, <1>2, <1>3, <1>5 DEF TrackOK, Trackers
<1>7. v6 \in Seq(SeenFrames) BY <1>1
<1> QED BY <1>0, <1>1, <1>6, <1>7 DEF GapInv

\* Each step of the gaps keeps their invariant.
LEMMA GapsStep == GapInv /\ [Gaps!GapNext]_(Gaps!gapVars) => GapInv'
<1> SUFFICES ASSUME GapInv, [Gaps!GapNext]_(Gaps!gapVars) PROVE GapInv' OBVIOUS
<1>0. /\ v2 \in 0 .. LastSlot + 1 /\ LastSlot \in Nat /\ SlotLen \in Nat \ {0} /\ v2 \in Nat
      /\ TrackOK(v3, v6)
  BY GapBounds DEF GapInv
<1>1. CASE UNCHANGED Gaps!gapVars
  <2>1. UNCHANGED <<v1, v2, v3, v4, v5, v6, v7>> BY <1>1 DEF Gaps!gapVars
  <2> QED BY <2>1 DEF GapInv
<1>2. ASSUME NEW late \in Nat, 2 * late < SlotLen, v2 <= LastSlot,
             Gaps!Step(v2, v2 * SlotLen + late), v2' = v2 + 1, v1' = v1, v5' = v5
      PROVE  GapInv'
  <2>1. PICK pos : pos = v2 * SlotLen + late OBVIOUS
  <2>2. v2 * SlotLen = SlotLen * v2 /\ SlotLen * v2 \in Nat BY <1>0
  <2>3. pos = SlotLen * v2 + late /\ pos \in Nat BY <2>1, <2>2
  <2>4. InTime(<<v2, pos>>) BY <1>2, <2>3 DEF InTime
  <2> QED BY <1>2, <2>1, <2>3, <2>4, FrameKeeps
<1>3. CASE Gaps!Burst
  <2>1. PICK late \in Jitter :
           /\ v2 <= LastSlot /\ Gaps!Step(v2, v2 * SlotLen + late)
           /\ v2' = v2 + 1 /\ v1' = v1 /\ v5' = v5
    BY <1>3 DEF Gaps!Burst
  <2>2. late \in Nat /\ 2 * late < SlotLen BY GapBounds
  <2> QED BY <1>2, <2>1, <2>2
<1>4. CASE Gaps!StrayBurst
  <2>1. /\ v2 <= LastSlot /\ Gaps!Step(v2, v2 * SlotLen)
        /\ v2' = v2 + 1 /\ v1' = v1 /\ v5' = v5
    BY <1>4 DEF Gaps!StrayBurst
  <2>2. v2 * SlotLen \in Nat BY <1>0
  <2>3. v2 * SlotLen = v2 * SlotLen + 0 /\ 2 * 0 < SlotLen BY <1>0, <2>2
  <2>4. Gaps!Step(v2, v2 * SlotLen + 0) BY <2>1, <2>3
  <2>5. PICK late : late = 0 OBVIOUS
  <2> QED BY <1>2, <2>1, <2>3, <2>4, <2>5
<1>5. CASE Gaps!StaleBurst
  <2>1. v5 = 0 /\ v5' = v5 + 1 /\ UNCHANGED <<v1, v2, v3, v4, v6, v7>>
    BY <1>5 DEF Gaps!StaleBurst
  <2>2. v5' \in 0 .. 1 BY <2>1
  <2> QED BY <2>1, <2>2 DEF GapInv
<1>6. CASE Gaps!Pass
  <2>1. v2 <= LastSlot /\ v3.started /\ v2' = v2 + 1 /\ UNCHANGED <<v1, v3, v4, v5, v6, v7>>
    BY <1>6 DEF Gaps!Pass
  <2>2. v6 # <<>> BY <1>0, <2>1 DEF TrackOK
  <2>3. v2' \in 0 .. LastSlot + 1 BY <1>0, <2>1
  <2>4. InOrder(v6) /\ LastSeen(v6) < v2 BY <2>2 DEF GapInv
  <2>5. LastSeen(v6) < v2'
    <3>1. PICK a : a = LastSeen(v6) OBVIOUS
    <3>2. a \in Nat /\ a < v2 BY <2>4, <3>1 DEF InOrder
    <3> QED BY <1>0, <2>1, <3>1, <3>2
  <2> QED BY <2>1, <2>2, <2>3, <2>5 DEF GapInv
<1> QED BY <1>1, <1>3, <1>4, <1>5, <1>6 DEF Gaps!GapNext

\* What the invariant says of the entries.
LEMMA GapsSaid ==
  ASSUME GapInv
  PROVE  Gaps!GapTypeOK /\ Gaps!TimeKept /\ Gaps!NeverAhead /\ Gaps!StraysNotFilled
<1>1. Gaps!GapTypeOK
  <2>1. v3 \in Trackers BY DEF GapInv, TrackOK
  <2> QED BY <2>1 DEF GapInv, Trackers, Gaps!GapTypeOK
<1>2. CASE v6 = <<>>
  BY <1>1, <1>2 DEF Gaps!TimeKept, Gaps!NeverAhead, Gaps!StraysNotFilled
<1>3. CASE v6 # <<>>
  <2>1. EntriesRight(v4, v6, v1, v7) /\ InOrder(v6) /\ v6 \in Seq(SeenFrames)
    BY <1>3 DEF GapInv
  <2>2. Gaps!Strays = Strayed(v6, v1) BY DEF Gaps!Strays, Strayed
  <2>3. Gaps!VoiceSlots(v6[1][1], v6[Len(v6)][1]) = Voices(v6, v1)
    BY DEF Gaps!VoiceSlots, Voices, InRings, LastSeen
  <2>4. {s \in v6[1][1] .. v6[Len(v6)][1] : Gaps!Sightings(s % Rings) # {}} = Heard(v6)
    <3>1. \A r : Gaps!Sightings(r) = At(v6, r) BY DEF Gaps!Sightings, At
    <3>2. ASSUME NEW s \in v6[1][1] .. v6[Len(v6)][1] PROVE s % Rings \in Gaps!Slots
      <4>1. v6[1][1] \in Int /\ v6[Len(v6)][1] \in Int BY <2>1 DEF InOrder, LastSeen
      <4>2. s \in Int /\ Rings \in Nat \ {0} BY <4>1, GapBounds
      <4> QED BY <4>2, QuotientAndRest DEF Gaps!Slots
    <3> QED BY <3>1, <3>2 DEF Heard, InRings, SeenRings, LastSeen
  <2>5. /\ Gaps!Cardinality(Strayed(v6, v1)) = Cardinality(Strayed(v6, v1))
        /\ Gaps!Cardinality(Voices(v6, v1)) = Cardinality(Voices(v6, v1))
        /\ Gaps!Cardinality(Heard(v6)) = Cardinality(Heard(v6))
    BY GapCounts
  <2>6. Cardinality(Strayed(v6, v1)) \in Nat /\ Cardinality(Voices(v6, v1)) \in Nat
    <3>1. v6[1][1] \in Int /\ LastSeen(v6) \in Int BY <2>1 DEF InOrder
    <3> QED BY <2>1, <3>1, StrayedFacts, InRingsFacts DEF Voices
  <2>7. PICK x, y : x = Cardinality(Voices(v6, v1)) /\ y = Cardinality(Strayed(v6, v1))
    OBVIOUS
  <2>8. x + y = y + x /\ Total(v6, v1) = x + y BY <2>6, <2>7 DEF Total
  <2>9. Gaps!TimeKept BY <2>1, <2>2, <2>3, <2>5, <2>7, <2>8 DEF EntriesRight, Gaps!TimeKept
  <2>10. Gaps!NeverAhead BY <2>1, <2>4, <2>5 DEF EntriesRight, Gaps!NeverAhead
  <2>11. Gaps!StraysNotFilled
    <3>1. ASSUME /\ \A i \in Gaps!Strays :
                       v6[i][2] - v6[1][2] >= SettleFrames * Rings * SlotLen
                 /\ \A r \in Gaps!Slots \ v1 :
                       Gaps!Cardinality(Gaps!Sightings(r)) < MinSightings
          PROVE  v4 <= y + x
      <4>1. \A r : Gaps!Cardinality(Gaps!Sightings(r)) = Cardinality(At(v6, r))
        <5>1. \A r : Gaps!Sightings(r) = At(v6, r) BY DEF Gaps!Sightings, At
        <5> QED BY <5>1, GapCounts
      <4>2. Quiet(v6, v1) BY <2>2, <3>1, <4>1 DEF Quiet
      <4> QED BY <2>1, <2>8, <4>2 DEF EntriesRight
    <3> QED BY <2>2, <2>3, <2>5, <2>7, <3>1 DEF Gaps!StraysNotFilled
  <2> QED BY <1>1, <2>9, <2>10, <2>11
<1> QED BY <1>2, <1>3

-----------------------------------------------------------------------------
\* The sound of a broadcast keeps its time and is counted rightly: one entry for each
\* voice slot, never more than there were slots, concealment batch by batch is that of
\* the whole stream, and the counters, the strip and the sound agree, however late the
\* frames are, whatever is misread as voice and however the batches fall
\* (conceal.go Step, ApplyTraced, audio.go decodeBatch).
THEOREM SoundKeepsTime == Spec => []SoundInTime
<1> DEFINE Inv == (part = "gaps" => GapInv) /\ (part = "sound" => SoundInv)
<1>1. Init => Inv BY GapsStart, SoundStarts DEF Init
<1>2. Inv /\ [Next]_vars => Inv'
  <2>1. ASSUME part = "gaps", [Next]_vars
        PROVE  part' = part /\ [Gaps!GapNext]_(Gaps!gapVars)
    BY <2>1, SMTT(30) DEF Next, vars, Gaps!gapVars
  <2>2. ASSUME part = "sound", [Next]_vars
        PROVE  part' = part /\ [Sound!SoundNext]_(Sound!soundVars)
    BY <2>2, SMTT(30) DEF Next, vars, Sound!soundVars
  <2>3. [Next]_vars => part' = part BY DEF Next, vars
  <2> QED BY <2>1, <2>2, <2>3, GapsStep, SoundStep
<1>3. Inv => SoundInTime BY GapsSaid, SoundSaid DEF SoundInTime
<1> QED BY <1>1, <1>2, <1>3, PTL DEF Spec
=============================================================================
