------------------------------ MODULE VoiceVote ------------------------------
(* The voice smoother of std-t86 (decoder/voice.go): whether a TCH burst carries *)
(* voice is read off the burst, then decided by a vote of the bursts of its own  *)
(* slot in the frames around it.  Votes are cast as a stream: a burst waits for  *)
(* win later bursts of its ring, or until none can come within the horizon.      *)
(* Positions are in units of which a slot has SlotLen; slot and clock are the    *)
(* true time, which the code only sees as positions that jitter.                 *)
EXTENDS Integers, Sequences, FiniteSets, FiniteSetsExt
CONSTANTS Win,       \* newVoiceSmoother(win), 2
          Rings,     \* slots of a frame, 6
          SlotLen,   \* slotSamples
          Jitter,    \* what a position may be late by
          LastSlot   \* bound: the slots the environment runs through

VARIABLES waiting,   \* pending: bursts not voted on yet
          hist,      \* hist: the last win raw readings of each ring
          last,      \* hasLast, lastPos, lastRng: <<>> or the last burst
          bursts,    \* history: every burst pushed, with its true slot
          verdicts,  \* history: the votes released, in order
          clock,     \* the next slot
          heard      \* the highest highWater so far
voteVars == <<waiting, hist, last, bursts, verdicts, clock, heard>>

Horizon == (Rings * Win + 2) * SlotLen

\* roundHalfEven(gap / slotSamples), for a gap that is not negative.
RoundHalfEven(gap) ==
    LET whole == gap \div SlotLen
        rest == 2 * (gap % SlotLen)
    IN IF rest > SlotLen \/ (rest = SlotLen /\ whole % 2 = 1) THEN whole + 1 ELSE whole

RingOf(pos) ==
    IF last = <<>> THEN 0
    ELSE (last[1].ring + RoundHalfEven(pos - last[1].pos)) % Rings

LastOf(s, n) == SubSeq(s, 1 + Max({0, Len(s) - n}), Len(s))
Readings(s) == [i \in DOMAIN s |-> s[i].voice]
OfRing(s, r) == SelectSeq(s, LAMBDA b : b.ring = r)

\* Slip: the burst after, whatever its ring.
MatesOfAnyRing(s, i) ==
    LET later == SelectSeq(SubSeq(s, i + 1, Len(s)), LAMBDA b : b.pos <= s[i].pos + Horizon)
    IN SubSeq(Readings(later), 1, Min({Win, Len(later)}))

\* The readings of the first win bursts after place i of s that are its ring's.
Mates(s, i) ==
    LET later == SelectSeq(OfRing(SubSeq(s, i + 1, Len(s)), s[i].ring),
                           LAMBDA b : b.pos <= s[i].pos + Horizon)
    IN SubSeq(Readings(later), 1, Min({Win, Len(later)}))

\* A burst still waits: a mate is missing and may come within the horizon.
MustWait(s, i, highWater) == Len(Mates(s, i)) < Win /\ highWater <= s[i].pos + Horizon

Majority(readings) == 2 * Cardinality({i \in DOMAIN readings : readings[i]}) > Len(readings)

\* The raw readings of ring r once the first k of s are voted on.
HistAfter(s, k, r) == LastOf(hist[r] \o Readings(OfRing(SubSeq(s, 1, k), r)), Win)

Vote(s, i) == Majority(HistAfter(s, i - 1, s[i].ring) \o <<s[i].voice>> \o Mates(s, i))

\* The first k of s leave with their votes; the others stay pending.
Decide(s, k) ==
    /\ verdicts' = verdicts \o [i \in 1..k |-> Vote(s, i)]
    /\ hist' = [r \in 0..Rings - 1 |-> HistAfter(s, k, r)]
    /\ waiting' = SubSeq(s, k + 1, Len(s))

\* release(highWater): from the front, up to the first that must wait.
Release(s, highWater) ==
    /\ Decide(s, Min({i - 1 : i \in {j \in DOMAIN s : MustWait(s, j, highWater)}} \cup {Len(s)}))
    /\ heard' = Max({heard, highWater})

VoteInit ==
    /\ waiting = <<>> /\ hist = [r \in 0..Rings - 1 |-> <<>>] /\ last = <<>>
    /\ bursts = <<>> /\ verdicts = <<>> /\ clock = 0 /\ heard = 0

\* push: the ring by the distance to the last burst, then what can be decided.
Push ==
    \E late \in Jitter, voice \in BOOLEAN :
        LET b == [pos |-> clock * SlotLen + late, ring |-> RingOf(clock * SlotLen + late),
                  voice |-> voice]
        IN /\ clock <= LastSlot
           /\ last' = <<b>>
           /\ bursts' = Append(bursts, [burst |-> b, slot |-> clock])
           /\ clock' = clock + 1
           /\ Release(Append(waiting, b), b.pos)

\* A slot without a burst.
NoBurst == clock <= LastSlot /\ clock' = clock + 1 /\ UNCHANGED <<waiting, hist, last, bursts, verdicts, heard>>

\* The release of Feed, at a position before which no burst is to come.
ReleaseAll ==
    /\ heard < clock * SlotLen
    /\ Release(waiting, clock * SlotLen)
    /\ UNCHANGED <<last, bursts, clock>>

\* flush at the end of the stream.
FlushVotes ==
    /\ clock > LastSlot /\ waiting # <<>>
    /\ Decide(waiting, Len(waiting))
    /\ UNCHANGED <<last, bursts, clock, heard>>

VoteNext == Push \/ NoBurst \/ ReleaseAll \/ FlushVotes

VoteSpec == VoteInit /\ [][VoteNext]_voteVars

-----------------------------------------------------------------------------
VoteTypeOK ==
    /\ \A i \in DOMAIN waiting : waiting[i] \in [pos : Nat, ring : 0..Rings - 1, voice : BOOLEAN]
    /\ hist \in [0..Rings - 1 -> UNION {[1..n -> BOOLEAN] : n \in 0..Win}]
    /\ Len(last) <= 1 /\ clock \in 0..LastSlot + 1 /\ heard \in Nat
    /\ Len(bursts) = Len(verdicts) + Len(waiting)

\* Two bursts are of one ring exactly when they are a whole number of frames
\* apart, however the jitter of the positions between them adds up (ringOf).
RingsAgree ==
    \A i, j \in DOMAIN bursts :
        (bursts[i].burst.ring = bursts[j].burst.ring)
            <=> ((bursts[i].slot - bursts[j].slot) % Rings = 0)

\* Each vote is the majority over the whole stream: the win bursts of the same slot
\* before it, itself, and the first win after it within the horizon.  When the
\* bursts were released or flushed makes no difference (push, release, flush, vote).
VotesAsWhole ==
    \A n \in DOMAIN verdicts :
        LET b == bursts[n]
            mates == {i \in DOMAIN bursts : (bursts[i].slot - b.slot) % Rings = 0}
            nearest(S, before) ==
                {i \in S : Cardinality({j \in S : IF before THEN j > i ELSE j < i}) < Win}
            voters == nearest({i \in mates : i < n}, TRUE) \cup {n}
                \cup nearest({i \in mates : i > n /\ bursts[i].burst.pos <= b.burst.pos + Horizon}, FALSE)
        IN verdicts[n] <=> 2 * Cardinality({i \in voters : bursts[i].burst.voice}) > Cardinality(voters)

\* No burst waits once the stream is a horizon past it (release's second test):
\* the broadcast that waits for it can be let go.
VotedInTime == \A i \in DOMAIN waiting : heard <= waiting[i].pos + Horizon
=============================================================================
