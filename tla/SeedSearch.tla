------------------------------ MODULE SeedSearch ------------------------------
(* The search for the scramble seed of std-t86 (decoder/seed.go, with the ranking *)
(* of fec/seedsearch.go and the scores of control/seed.go).  Every control slot   *)
(* adds to the weight of each seed; a round takes the lightest seeds and decodes  *)
(* the latest slots with one after the other, a few in each feed, until one seed  *)
(* is far ahead.  What a slot shows is abstracted to the one seed it looks right  *)
(* for: the station's own, with a good CRC, another by chance, or none.           *)
EXTENDS Naturals, Sequences, FiniteSets, FiniteSetsExt
CONSTANTS Seeds,      \* the seeds, 0..511
          Top,        \* seedTop, 48
          MinSlots,   \* seedMinSlots, 8
          ScoreCACs,  \* seedScoreCACs, 12
          PerFeed,    \* seedScorePerFeed, 48
          Window,     \* seedWindow, 96
          MinScore,   \* the score below which no seed is believed, 6
          WeightCap,  \* bound: a weight is counted up to this much above the least
          MaxNoise,   \* bound: slots that do not show the station's seed
          MaxChanges, \* bound: changes of station and resets of the seed
          FeedSlots   \* bound: control slots of a feed

VARIABLES slots,    \* the stored slots, the latest Window of them
          weights,  \* pre.weights, less the least of them
          cands,    \* the candidates of the round, <<>> between rounds
          cacs,     \* the slots of the round
          scores,   \* what the candidates of the round scored
          cursor,   \* candidates scored
          budget,   \* candidates that may still be scored in this feed
          seed,     \* the decoder's Seed, 0 while it searches
          station,  \* environment: the seed of the station received
          left,     \* environment: slots left in the feed
          noise, changes, \* environment: so far
          heard     \* history: stations with a good slot since the last reset
searchVars == <<slots, weights, cands, cacs, scores, cursor, budget, seed,
                station, left, noise, changes, heard>>
search == <<slots, weights, cands, cacs, scores, cursor, budget>>

Nothing == [s \in {} |-> 0]

\* Slip: a reset that leaves the slots.
FreshButSlots ==
    /\ UNCHANGED <<slots, weights>> /\ cands' = <<>> /\ cacs' = <<>>
    /\ scores' = Nothing /\ cursor' = 0 /\ budget' = 0

\* newSeedSearch and reset.
Fresh ==
    /\ slots' = <<>> /\ weights' = [s \in Seeds |-> 0] /\ cands' = <<>> /\ cacs' = <<>>
    /\ scores' = Nothing /\ cursor' = 0 /\ budget' = 0

\* What a slot looks like: of a seed, by a good CRC or only by its message type, and
\* with a manufacturer that is known or not; of = 0 with crc = FALSE is noise.
GoodSlots == [of : {station}, crc : {TRUE}, mfr : BOOLEAN]
NoisySlots == [of : Seeds, crc : {FALSE}, mfr : BOOLEAN]
Looks == [of : Seeds, crc : BOOLEAN, mfr : BOOLEAN]

\* The distance of the slot's syndrome to that of a seed (Push of the searcher).
WeightOf(look, s) == IF look.of = 0 THEN 1 ELSE IF look.of = s THEN 0 ELSE 2

Weighed(look) ==
    LET sum == [s \in Seeds |-> weights[s] + WeightOf(look, s)]
        least == Min({sum[s] : s \in Seeds})
    IN [s \in Seeds |-> Min({WeightCap, sum[s] - least})]

\* Candidates: by weight, equal ones by seed (the sort is stable).
Candidates(w) ==
    LET before(s) == {r \in Seeds : w[r] < w[s] \/ (w[r] = w[s] /\ r < s)}
    IN [i \in 1..Min({Top, Cardinality(Seeds)}) |->
            CHOOSE s \in Seeds : Cardinality(before(s)) = i - 1]

LastOf(s, n) == SubSeq(s, IF Len(s) > n THEN Len(s) - n + 1 ELSE 1, Len(s))

\* ScoreSeed: good CRCs, known messages and known manufacturers.
ScoreOf(round, s) ==
    LET known == {i \in DOMAIN round : round[i].of = s /\ s # 0}
        crc == {i \in known : round[i].crc}
        mfr == {i \in known : round[i].mfr}
    IN [score |-> 3 * Cardinality(crc) + Cardinality(known) + 2 * Cardinality(mfr),
        crc |-> Cardinality(crc), known |-> Cardinality(known)]

\* The order of confidentInfo: by score, CRCs, known messages, the higher seed first.
Beats(sc, a, b) ==
    \/ sc[a].score > sc[b].score
    \/ /\ sc[a].score = sc[b].score
       /\ \/ sc[a].crc > sc[b].crc
          \/ /\ sc[a].crc = sc[b].crc
             /\ \/ sc[a].known > sc[b].known
                \/ sc[a].known = sc[b].known /\ a > b

\* confidentInfo: s leads the seeds scored so far, clearly, with a good CRC.
Confident(sc, n, s) ==
    /\ Cardinality(DOMAIN sc) >= 2
    /\ \A r \in DOMAIN sc \ {s} :
        Beats(sc, s, r) /\ 2 * sc[s].score >= 3 * Max({1, sc[r].score})
    /\ sc[s].crc >= 1 /\ sc[s].score >= MinScore /\ 2 * sc[s].score >= n

\* startRound, if no round is under way.
RoundOf(stored, w) ==
    IF cands = <<>>
    THEN [cands |-> Candidates(w), cacs |-> LastOf(stored, ScoreCACs),
          scores |-> Nothing, cursor |-> 0]
    ELSE [cands |-> cands, cacs |-> cacs, scores |-> scores, cursor |-> cursor]

\* The scores of a round once its candidates up to place n are scored, and who is
\* believed then.
Scored(round, n) ==
    LET new == {round.cands[k] : k \in round.cursor + 1..n}
    IN [s \in DOMAIN round.scores \cup new |->
            IF s \in new THEN ScoreOf(round.cacs, s) ELSE round.scores[s]]
Believed(round, n) ==
    LET sc == Scored(round, n)
    IN {s \in DOMAIN sc : Confident(sc, Len(round.cacs), s)}

\* The candidates of a round are scored up to its last, or until one is believed.
Trials(round, last) ==
    LET stops(n) == n = last \/ Believed(round, n) # {}
        n == CHOOSE n \in round.cursor..last :
                 stops(n) /\ \A m \in round.cursor..n - 1 : ~stops(m)
    IN [scores |-> Scored(round, n), cursor |-> n, believed |-> Believed(round, n)]

\* Slip: a round that is over is not ended.
RoundKept(round, n) == round.cands

\* The candidates after n are scored: none are left, and the next push starts anew.
CandsLeft(round, n) == IF n = Len(round.cands) THEN <<>> ELSE round.cands

\* push: the slot is stored and weighed; from MinSlots on, and while the budget lasts,
\* candidates are scored until a seed is believed.  Then the decoder takes it, decodes
\* the stored slots with it, and the search is reset (applyDetectedSeed).
Push(look) ==
    \E stored \in {LastOf(Append(slots, look), Window)}, w \in {Weighed(look)} :
    IF Len(stored) < MinSlots \/ budget = 0
    THEN /\ slots' = stored /\ weights' = w
         /\ UNCHANGED <<cands, cacs, scores, cursor, budget, seed>>
    ELSE \E round \in {RoundOf(stored, w)} :
         \E tried \in {Trials(round, Min({Len(round.cands), round.cursor + budget}))} :
            IF tried.believed # {}
            THEN seed' \in tried.believed /\ Fresh
            ELSE /\ slots' = stored /\ weights' = w /\ cacs' = round.cacs
                 /\ scores' = tried.scores /\ cursor' = tried.cursor
                 /\ budget' = budget - (tried.cursor - round.cursor)
                 /\ cands' = CandsLeft(round, tried.cursor)
                 /\ UNCHANGED seed

-----------------------------------------------------------------------------
SearchInit ==
    /\ slots = <<>> /\ weights = [s \in Seeds |-> 0] /\ cands = <<>> /\ cacs = <<>>
    /\ scores = Nothing /\ cursor = 0 /\ budget = 0 /\ seed = 0
    /\ station \in Seeds \ {0} /\ left = 0 /\ noise = 0 /\ changes = 0 /\ heard = {}

\* Feed, while the seed is not known.
BeginFeed ==
    /\ seed = 0 /\ left = 0
    /\ left' \in 1..FeedSlots /\ budget' = PerFeed
    /\ UNCHANGED <<slots, weights, cands, cacs, scores, cursor, seed, station, noise, changes, heard>>

\* A control slot of the feed; those after the seed is found are decoded with it.
GoodSlot ==
    /\ seed = 0 /\ left > 0 /\ left' = left - 1
    /\ \E look \in GoodSlots : Push(look)
    /\ heard' = heard \cup {station}
    /\ UNCHANGED <<station, noise, changes>>

NoisySlot ==
    /\ seed = 0 /\ left > 0 /\ left' = left - 1 /\ noise < MaxNoise /\ noise' = noise + 1
    /\ \E look \in NoisySlots : Push(look)
    /\ UNCHANGED <<station, changes, heard>>

\* Another station is received: while the search runs, nothing tells it.
OtherStation ==
    /\ seed = 0 /\ changes < MaxChanges /\ changes' = changes + 1
    /\ station' \in Seeds \ {0, station}
    /\ UNCHANGED <<search, seed, left, noise, heard>>

\* ResetSeed, by the operator or for another station: between feeds.
ResetSeed ==
    /\ changes < MaxChanges /\ changes' = changes + 1
    /\ left = 0 \/ seed # 0
    /\ seed' = 0 /\ left' = 0 /\ Fresh /\ heard' = {}
    /\ station' \in Seeds \ {0}
    /\ UNCHANGED noise

SearchNext == BeginFeed \/ GoodSlot \/ NoisySlot \/ OtherStation \/ ResetSeed

\* Feeds go on, and control slots are received.
SearchFairness == WF_searchVars(BeginFeed) /\ WF_searchVars(GoodSlot)

SearchSpec == SearchInit /\ [][SearchNext]_searchVars /\ SearchFairness

-----------------------------------------------------------------------------
SearchTypeOK ==
    /\ Len(slots) <= Window /\ Len(cacs) <= ScoreCACs
    /\ \A i \in DOMAIN slots : slots[i] \in Looks
    /\ weights \in [Seeds -> 0..WeightCap] /\ Len(cands) <= Top
    /\ cursor \in 0..Top /\ budget \in 0..PerFeed /\ {seed, station} \subseteq Seeds

\* The seeds a round compares were all scored on the same slots, though other slots
\* come while it runs over several feeds (startRound, push, confidentInfo).
ScoresOfOneRound ==
    /\ \A s \in DOMAIN scores : scores[s] = ScoreOf(cacs, s)
    /\ cands # <<>> => DOMAIN scores = {cands[i] : i \in 1..cursor}

\* The seed found is that of a station whose slots were good since the last reset:
\* neither chance nor the station before makes one (confidentInfo, reset).
FoundWasHeard == seed # 0 => seed \in heard

Found == seed # 0

\* Once good slots keep coming the search ends, whatever came before: a round scored
\* on bad slots, another station's weights, a feed that ended in the middle.
SearchEnds == []<>Found
=============================================================================
