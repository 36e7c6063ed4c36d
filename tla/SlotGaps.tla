------------------------------- MODULE SlotGaps -------------------------------
(* How the sound of a broadcast of std-t86 keeps the time: the gap tracker of     *)
(* scodec/conceal.go.  Voice frames come at the slots of a few rings; the tracker *)
(* learns which, from the positions alone, and says how many frames are missing   *)
(* before each one.  Positions are in units of which a slot has SlotLen; voiced   *)
(* and clock are the truth, which the tracker never sees.                         *)
EXTENDS Integers, Sequences, FiniteSets, FiniteSetsExt
CONSTANTS Rings,         \* slots of a frame, 6
          SlotLen,       \* SlotSamples
          Jitter,        \* what a position may be late by
          MaxFill,       \* frames filled in at a time, 250
          ActiveSlots,   \* slots after which a silent ring carries no voice, 150
          SettleFrames,  \* frames in which one sighting makes a ring a voice ring, 4
          MinSightings,  \* sightings it takes afterwards, 8
          LastSlot       \* bound: the slots of the broadcast

VARIABLES voiced,    \* environment: the slots of a frame that carry voice
          clock,     \* environment: the next slot
          tracker,   \* SlotGapTracker: last, ring, start and the rings' statistics
          entries,   \* frames the sound has so far, filled in or not
          stale,     \* staleCnt
          seen,      \* history: the frames accepted, <<slot, pos>>
          uncut      \* history: the rings of every gap were known, none was cut
gapVars == <<voiced, clock, tracker, entries, stale, seen, uncut>>

Slots == 0..Rings - 1
NoStat == [count |-> 0, first |-> 0, last |-> 0]

RoundHalfEven(gap) ==
    LET whole == gap \div SlotLen
        rest == 2 * (gap % SlotLen)
    IN IF rest > SlotLen \/ (rest = SlotLen /\ whole % 2 = 1) THEN whole + 1 ELSE whole

\* A ring carries voice: seen often enough, or early, and not silent for long.
IsVoiceRing(r) ==
    LET s == tracker.rings[r]
        early == s.first - tracker.start < SettleFrames * Rings * SlotLen
    IN /\ s.count >= (IF early THEN 1 ELSE MinSightings)
       /\ tracker.last - s.last <= ActiveSlots * SlotLen

VoiceRingCount == Cardinality({r \in Slots : IsVoiceRing(r)})

\* Slip: the slot the gap ends with is filled too.
MissingToo(dq) ==
    (dq \div Rings) * VoiceRingCount
        + Cardinality({k \in 1..(dq % Rings) : IsVoiceRing((tracker.ring + k) % Rings)})

\* The frames missing in a gap of dq slots: of its whole frames, and of the rest.
Missing(dq) ==
    ((dq - 1) \div Rings) * VoiceRingCount
        + Cardinality({k \in 1..((dq - 1) % Rings) : IsVoiceRing((tracker.ring + k) % Rings)})

Observed(t, r, pos) ==
    LET s == t.rings[r]
    IN [t EXCEPT !.rings[r] = [count |-> s.count + 1, last |-> pos,
                               first |-> IF s.count = 0 THEN pos ELSE s.first]]

First(pos) ==
    Observed([started |-> TRUE, last |-> pos, ring |-> 0, start |-> pos,
              rings |-> [r \in Slots |-> NoStat]], 0, pos)

Stepped(pos, dq) ==
    LET ring == (tracker.ring + dq) % Rings
    IN [Observed(tracker, ring, pos) EXCEPT !.ring = ring, !.last = pos]

-----------------------------------------------------------------------------
GapInit ==
    /\ voiced \in {R \in SUBSET Slots : 0 \in R} /\ clock = 0
    /\ tracker = [started |-> FALSE, last |-> 0, ring |-> 0, start |-> 0,
                  rings |-> [r \in Slots |-> NoStat]]
    /\ entries = 0 /\ stale = 0 /\ seen = <<>> /\ uncut = TRUE

VoiceSlots(a, b) == {s \in a..b : s % Rings \in voiced}

\* What IsVoiceRing is to find, from the frames seen alone.
Sightings(r) == {i \in DOMAIN seen : seen[i][1] % Rings = r}
Known(r) ==
    /\ Sightings(r) # {}
    /\ \/ seen[Min(Sightings(r))][2] - seen[1][2] < SettleFrames * Rings * SlotLen
       \/ Cardinality(Sightings(r)) >= MinSightings
    /\ seen[Len(seen)][2] - seen[Max(Sightings(r))][2] <= ActiveSlots * SlotLen

\* Step, at the position of a frame that is in slot s.
Step(s, pos) ==
    LET dq == RoundHalfEven(pos - tracker.last)
        between == seen[Len(seen)][1] + 1..s - 1
    IN /\ seen' = Append(seen, <<s, pos>>)
       /\ IF ~tracker.started
          THEN /\ tracker' = First(pos) /\ entries' = 1 /\ UNCHANGED uncut
          ELSE /\ dq > 0
               /\ tracker' = Stepped(pos, dq)
               /\ entries' = entries + Min({Missing(dq), MaxFill}) + 1
               /\ uncut' = (/\ uncut
                            /\ Cardinality({t \in between : t % Rings \in voiced}) <= MaxFill
                            /\ \A t \in between : Known(t % Rings) <=> t % Rings \in voiced)

\* A voice frame arrives.
Burst ==
    \E late \in Jitter :
        /\ clock <= LastSlot /\ clock % Rings \in voiced
        /\ Step(clock, clock * SlotLen + late)
        /\ clock' = clock + 1
        /\ UNCHANGED <<voiced, stale>>

\* A burst misread as voice, at a slot that carries none: accepted all the same.
StrayBurst ==
    /\ clock <= LastSlot /\ clock % Rings \notin voiced /\ tracker.started
    /\ Step(clock, clock * SlotLen)
    /\ clock' = clock + 1
    /\ UNCHANGED <<voiced, stale>>

\* A frame no later than the last one is stale: counted, and changes nothing else.
StaleBurst ==
    /\ tracker.started /\ stale = 0
    /\ \E late \in Jitter : RoundHalfEven(seen[Len(seen)][1] * SlotLen + late - tracker.last) <= 0
    /\ stale' = stale + 1
    /\ UNCHANGED <<voiced, clock, tracker, entries, seen, uncut>>

\* The slot passes: it has no voice, or its frame is lost.
Pass ==
    /\ clock <= LastSlot /\ tracker.started
    /\ clock' = clock + 1
    /\ UNCHANGED <<voiced, tracker, entries, stale, seen, uncut>>

GapNext == Burst \/ StrayBurst \/ StaleBurst \/ Pass

GapSpec == GapInit /\ [][GapNext]_gapVars

-----------------------------------------------------------------------------
GapTypeOK ==
    /\ voiced \subseteq Slots /\ clock \in 0..LastSlot + 1 /\ uncut \in BOOLEAN
    /\ tracker.ring \in Slots /\ tracker.started \in BOOLEAN
    /\ entries \in Nat /\ stale \in 0..1

\* The bursts misread as voice.
Strays == {i \in DOMAIN seen : seen[i][1] % Rings \notin voiced}

\* The sound keeps the time: as long as the voice rings of each gap were known and
\* none was longer than the cap, there is one entry for each voice slot from the
\* first frame to the last, heard or filled in, whatever the jitter, and one for each
\* burst misread as voice (Step).
TimeKept ==
    uncut /\ seen # <<>> =>
        entries = Cardinality(VoiceSlots(seen[1][1], seen[Len(seen)][1])) + Cardinality(Strays)

\* The sound never runs ahead: even with bursts misread as voice there are no more
\* entries than slots of the rings that were seen (Step, isVoiceRing).
NeverAhead ==
    seen # <<>> =>
        entries <= Cardinality({s \in seen[1][1]..seen[Len(seen)][1] : Sightings(s % Rings) # {}})

\* One burst misread as voice after the stream has settled adds itself and no filling:
\* all the entries but such bursts are voice slots (isVoiceRing, MinSightings).
StraysNotFilled ==
    LET settled(i) == seen[i][2] - seen[1][2] >= SettleFrames * Rings * SlotLen
    IN (/\ seen # <<>>
        /\ \A i \in Strays : settled(i)
        /\ \A r \in Slots \ voiced : Cardinality(Sightings(r)) < MinSightings)
            => entries <= Cardinality(Strays)
                   + Cardinality(VoiceSlots(seen[1][1], seen[Len(seen)][1]))
=============================================================================
