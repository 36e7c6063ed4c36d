------------------------------ MODULE MCKernels ------------------------------
(* The algorithms that stand alone, each on its own: one part runs in a       *)
(* behaviour, and the parts' variables are the same v1 to v13, in the order    *)
(* in which the part's module declares its own.                                *)
EXTENDS Naturals, FiniteSets
CONSTANTS Seeds, Top, MinSlots, ScoreCACs, PerFeed, Window, MinScore, WeightCap,
          MaxNoise, MaxChanges, FeedSlots,            \* of the search
          Rings, SlotLen, Jitter, GapFill, ActiveSlots, SettleFrames, MinSightings,
          LastSlot,                                   \* of the gaps
          SoundFill, BatchFrames, MaxRepeat, MaxEntries \* of the sound

\* The seeds are numbers and 0, for none, is one of them.
ASSUME SearchBounds ==
    /\ Seeds \subseteq Nat /\ 0 \in Seeds /\ IsFiniteSet(Seeds)
    /\ Top \in Nat /\ MinSlots \in Nat /\ ScoreCACs \in Nat /\ PerFeed \in Nat
    /\ Window \in Nat /\ MinScore \in Nat /\ WeightCap \in Nat
    /\ MaxNoise \in Nat /\ MaxChanges \in Nat /\ FeedSlots \in Nat

\* A position is late by less than half a slot, and a ring that was never seen is
\* no voice ring.
ASSUME GapBounds ==
    /\ Rings \in Nat \ {0} /\ SlotLen \in Nat \ {0}
    /\ Jitter \subseteq Nat /\ \A late \in Jitter : 2 * late < SlotLen
    /\ GapFill \in Nat /\ ActiveSlots \in Nat /\ SettleFrames \in Nat
    /\ MinSightings \in Nat \ {0} /\ LastSlot \in Nat

ASSUME SoundBounds ==
    /\ SoundFill \in Nat /\ BatchFrames \in Nat \ {0} /\ MaxRepeat \in Nat
    /\ MaxEntries \in Nat

VARIABLES part, v1, v2, v3, v4, v5, v6, v7, v8, v9, v10, v11, v12, v13
vars == <<part, v1, v2, v3, v4, v5, v6, v7, v8, v9, v10, v11, v12, v13>>

Votes == INSTANCE VoiceVote WITH
    Win <- 1, Rings <- 2, SlotLen <- 4, Jitter <- {0, 1}, LastSlot <- 5,
    waiting <- v1, hist <- v2, last <- v3, bursts <- v4, verdicts <- v5,
    clock <- v6, heard <- v7
Gaps == INSTANCE SlotGaps WITH
    MaxFill <- GapFill, voiced <- v1, clock <- v2, tracker <- v3, entries <- v4,
    stale <- v5, seen <- v6, uncut <- v7
Sound == INSTANCE VoiceSound WITH
    MaxFill <- SoundFill, seedKnown <- v1, pending <- v2, conceal <- v3, stats <- v4,
    pcm <- v5, open <- v6, told <- v7, skipped <- v8
Search == INSTANCE SeedSearch WITH
    slots <- v1, weights <- v2, cands <- v3, cacs <- v4, scores <- v5, cursor <- v6,
    budget <- v7, seed <- v8, station <- v9, left <- v10, noise <- v11,
    changes <- v12, heard <- v13
ControlCode == INSTANCE ConvCode WITH
    K <- 6, Polys <- <<{0, 1, 3, 5}, {0, 2, 3, 4, 5}>>, Erased <- {}, MsgLen <- 1,
    MaxErrors <- 3, sent <- v1, got <- v2, errors <- v3, metric <- v4,
    survivors <- v5
VoiceCode == INSTANCE ConvCode WITH
    K <- 8, Polys <- <<{0, 1, 2, 5, 7}, {0, 3, 4, 5, 6, 7}>>, Erased <- {5},
    MsgLen <- 1, MaxErrors <- 2, sent <- v1, got <- v2, errors <- v3, metric <- v4,
    survivors <- v5
Noise == INSTANCE ControlCodes WITH
    CACLen <- 256, PayloadLen <- 104, G1 <- {0, 1, 3, 5}, G2 <- {0, 2, 3, 4, 5},
    reg <- v1, pn <- v2, k <- v3, rems <- v4
Frame == INSTANCE VoiceFrame WITH
    at <- v1, rems <- v2
Mux == INSTANCE Multiplex WITH
    TotalBits <- 10, ProtectedBits <- 4, MaxLength <- 4, fwd <- v1, rev <- v2,
    toggle <- v3, out <- v4, refused <- v5
Rates == INSTANCE RateMatch WITH
    CCHTurboOut <- 348, CCHCodedBits <- 612, TCHTurboOut <- 1572,
    TCHCodedBits <- 804, MinConfidence <- 60, Stations <- {48879}, Damages <- {6},
    phase <- v1, i <- v2, e <- v3, src <- v4, e2 <- v5, e3 <- v6, txMap <- v7,
    regs <- v8, basis <- v9, pairs <- v10, masks <- v11, station <- v12,
    acc <- v13
Blocks == INSTANCE Turbo WITH
    Lens <- {112, 520}, K <- 4, Messages <- {<<1, 0, 1, 1>>}, MaxErrors <- 1,
    Level <- 2, Iters <- 2, perm <- v1, msg <- v2, llr <- v3, round <- v4,
    half <- v5, alpha <- v6, beta <- v7, la <- v8, le <- v9, out <- v10
Fields == INSTANCE MessageFields WITH
    raw <- v1, len <- v2, msg <- v3, shown <- v4

\* The variables from v2, v3, ... on are not used by the part, and stay.
Unused13 == v13 = 0
Unused12 == v12 = 0 /\ Unused13
Unused11 == v11 = 0 /\ Unused12
Unused10 == v10 = 0 /\ Unused11
Unused9 == v9 = 0 /\ Unused10
Unused8 == v8 = 0 /\ Unused9
Unused7 == v7 = 0 /\ Unused8
Unused6 == v6 = 0 /\ Unused7
Unused5 == v5 = 0 /\ Unused6
Unused4 == v4 = 0 /\ Unused5
Unused3 == v3 = 0 /\ Unused4
Same13 == v13' = v13
Same12 == v12' = v12 /\ Same13
Same11 == v11' = v11 /\ Same12
Same10 == v10' = v10 /\ Same11
Same9 == v9' = v9 /\ Same10
Same8 == v8' = v8 /\ Same9
Same7 == v7' = v7 /\ Same8
Same6 == v6' = v6 /\ Same7
Same5 == v5' = v5 /\ Same6
Same4 == v4' = v4 /\ Same5
Same3 == v3' = v3 /\ Same4

Init ==
    \/ part = "votes" /\ Votes!VoteInit /\ Unused8
    \/ part = "gaps" /\ Gaps!GapInit /\ Unused8
    \/ part = "sound" /\ Sound!SoundInit /\ Unused9
    \/ part = "search" /\ Search!SearchInit
    \/ part = "control code" /\ ControlCode!CodeInit /\ Unused6
    \/ part = "voice code" /\ VoiceCode!CodeInit /\ Unused6
    \/ part = "noise" /\ Noise!NoiseInit /\ Unused5
    \/ part = "frame" /\ Frame!FrameInit /\ Unused3
    \/ part = "multiplex" /\ Mux!MuxInit /\ Unused6
    \/ part = "rates" /\ Rates!RateInit
    \/ part = "turbo" /\ Blocks!TurboInit /\ Unused11
    \/ part = "fields" /\ Fields!FieldsInit /\ Unused5

Next ==
    /\ UNCHANGED part
    /\ \/ part = "votes" /\ Votes!VoteNext /\ Same8
       \/ part = "gaps" /\ Gaps!GapNext /\ Same8
       \/ part = "sound" /\ Sound!SoundNext /\ Same9
       \/ part = "search" /\ Search!SearchNext
       \/ part = "control code" /\ ControlCode!CodeNext /\ Same6
       \/ part = "voice code" /\ VoiceCode!CodeNext /\ Same6
       \/ part = "noise" /\ Noise!Clock /\ Same5
       \/ part = "frame" /\ Frame!NextPlace /\ Same3
       \/ part = "multiplex" /\ Mux!MuxNext /\ Same6
       \/ part = "rates" /\ Rates!RateNext
       \/ part = "turbo" /\ Blocks!TurboNext /\ Same11
       \/ part = "fields" /\ Fields!FieldsNext /\ Same5

\* Only the search for the seed is asked whether it ends.
Spec ==
    /\ Init /\ [][Next]_vars
    /\ WF_vars(part = "search" /\ Search!BeginFeed /\ UNCHANGED part)
    /\ WF_vars(part = "search" /\ Search!GoodSlot /\ UNCHANGED part)

\* T86: two readings of one ring fall into one ring of the vote, a burst is voted on
\* with the readings of its own ring only, and none waits for its vote for longer than
\* the window, however bursts are released (voice.go).
VotesAgree ==
    part = "votes" =>
        /\ Votes!VoteTypeOK
        /\ Votes!RingsAgree
        /\ Votes!VotesAsWhole
        /\ Votes!VotedInTime

\* T86: one entry of sound for each voice slot and never more than there were slots, a
\* burst misread as voice adds itself and no filling, concealment batch by batch is that
\* of the whole stream, and the counters, the strip and the sound count the same frames
\* (conceal.go, audio.go decodeBatch).
SoundInTime ==
    /\ part = "gaps" =>
           /\ Gaps!GapTypeOK
           /\ Gaps!TimeKept
           /\ Gaps!NeverAhead
           /\ Gaps!StraysNotFilled
    /\ part = "sound" =>
           /\ Sound!SoundTypeOK
           /\ Sound!ConcealedAsWhole
           /\ Sound!CountersAgree

\* T86: the seeds a round of the search compares were scored on the same slots, and the
\* seed found is that of a station heard since the last reset (seed.go).
SeedIsHeard ==
    part = "search" =>
        /\ Search!SearchTypeOK
        /\ Search!ScoresOfOneRound
        /\ Search!FoundWasHeard

\* T86: once good slots keep coming the search for the seed ends (seed.go).
SearchEnds == []<>(part = "search" => Search!Found)

\* Damage within the power of a code is corrected: both convolutional codes of T86 with
\* their survivors, the turbo code of T115 with its interleaver and the paths its
\* decoders compare (conv.go, turbo.go).
DamageCorrected ==
    /\ part = "control code" =>
           /\ ControlCode!CodeTypeOK
           /\ ControlCode!Corrects
           /\ ControlCode!SurvivorsTrue
    /\ part = "voice code" =>
           /\ VoiceCode!CodeTypeOK
           /\ VoiceCode!Corrects
           /\ VoiceCode!SurvivorsTrue
    /\ part = "turbo" =>
           /\ Blocks!TurboTypeOK
           /\ Blocks!InterleaverMixes
           /\ Blocks!BestPaths
           /\ Blocks!BlockCorrected

\* T86: the seed of a slot is the lightest of all, of a scrambled slot only the noise is
\* left, a damaged slot does not pass its CRC, and the bits and fields of a slot lie
\* apart (scrambler.go, seedsearch.go, crc.go, cac.go).
SlotsTrusted ==
    part = "noise" =>
        /\ Noise!NoiseTypeOK
        /\ Noise!SeedsToldApart
        /\ Noise!OnlyNoiseIsLeft
        /\ Noise!DamageFound
        /\ Noise!SlotLaidOut

\* T86: the decoder looks for every coded bit of a voice frame where the encoder put it,
\* every bit of payload and CRC has one place, a short run of damaged bits does not pass
\* for a good frame, and code words do not overlap (transmission.go, multiplex.go).
FramesLaidOut ==
    /\ part = "frame" =>
           /\ Frame!FrameTypeOK
           /\ Frame!CodedBitsFound
           /\ Frame!PayloadPlaced
           /\ Frame!RunsFound
    /\ part = "multiplex" => Mux!MuxTypeOK /\ Mux!WordsApart

\* T115: the patterns of rate matching fill their channels and lose no bit, and the
\* scrambling word found is that of the station, and the only one believed
\* (ratematch.go, scramblesearch.go).
WordFound ==
    part = "rates" => Rates!RateTypeOK /\ Rates!PatternsFit /\ Rates!WordFound

\* T115: every bit of a message is shown once, and what the page shows is what the
\* decoder reads (bits.go, message.go).
MessagesRead ==
    part = "fields" =>
        /\ Fields!FieldsTypeOK
        /\ Fields!EveryBitShown
        /\ Fields!DescriptionsAgree
==============================================================================
