------------------------------- MODULE BlockFeed -------------------------------
(***************************************************************************)
(* Decoder of STD-T115 (internal/std-t115/qpsknarrow/decoder/decoder.go):    *)
(* samples are decoded in blocks that overlap, short ones while the scramble *)
(* value is searched for; a frame found in two blocks is told by the half-   *)
(* frame bin of its time.                                                  *)
(*                                                                         *)
(* Abstracted: the air carries frames of known kind back to back; a block    *)
(* may miss a frame that lies in it or find its checksum wrong, and dates    *)
(* all its frames by its own grid of symbols, Late by one unit or not.       *)
(* Signal processing, the wording of frames and the display are left out.    *)
(***************************************************************************)
EXTENDS Integers, Sequences, FiniteSets, Functions

CONSTANTS
    Frame,      \* samples of a frame, even (80 ms)
    BlockSec,   \* samples of a block (0.5 s)
    AcquireSec, \* of a block while searching (scrambleAcquireSec, 0.25 s)
    OverlapSec, \* samples asked for as overlap (0.25 s)
    NFrames,    \* frames on the air, numbered from 1
    Control,    \* those that are SB0; the others carry voice
    Phases,     \* where the first frame may begin
    Starts,     \* where decoding may start (-start)
    Chunks,     \* samples fed at once
    End,        \* bound: samples of the input
    MaxFaults,  \* bound: frames missed or spoiled
    MaxPins     \* bound: PinScramble calls

ASSUME BlockConstants ==
    /\ Frame \in Nat \ {0} /\ Frame % 2 = 0
    /\ BlockSec \in Nat /\ AcquireSec \in Nat /\ OverlapSec \in Nat
    /\ AcquireSec >= 2 * Frame /\ BlockSec >= AcquireSec /\ OverlapSec >= Frame
    /\ Starts \subseteq 0 .. End /\ Phases \subseteq Nat
    /\ Chunks \subseteq Nat \ {0} /\ NFrames \in Nat /\ End \in Nat

VARIABLES
    phase,      \* where the first frame begins
    dec,        \* the Decoder
    fed,        \* end of the samples fed
    feeding,    \* Feed is in its loop
    frames,     \* decoded and not yet handled
    flushed,    \* Flush was called
    air         \* history: what was tried, found, missed and given, and the bounds

blockVars == <<phase, dec, fed, feeding, frames, flushed, air>>

FrameNos == 1 .. NFrames
At(n) == phase + (n - 1) * Frame

None == "none"
ScrambleValues == {None, "own", "other"}

Decoded == [n : FrameNos, t : 0 .. End, ok : BOOLEAN]

AirHistory ==
    [start : Nat, tried : SUBSET FrameNos, found : SUBSET FrameNos,
     missed : SUBSET FrameNos, given : Seq(FrameNos), faults : Nat, pins : Nat,
     short : BOOLEAN]

BlockTypeOK ==
    /\ phase \in Phases
    /\ dec \in [pendStart : Nat, blockLen : Nat, overlap : Nat, processed : Nat,
                searching : BOOLEAN, heard : Nat, scramble : ScrambleValues,
                pinned : BOOLEAN, seen : SUBSET Nat]
    /\ fed \in 0 .. End /\ feeding \in BOOLEAN /\ flushed \in BOOLEAN
    /\ frames \in Seq(Decoded)
    /\ dec.pendStart <= fed
    /\ air \in AirHistory

-----------------------------------------------------------------------------
(* The length of a block.                                                  *)

\* Slip: an overlap as long as the block is left alone.
FittingLong(overlap, blockLen) ==
    IF overlap > blockLen THEN blockLen \div 2 ELSE overlap

Fitting(overlap, blockLen) ==
    IF overlap >= blockLen THEN blockLen \div 2 ELSE overlap

SetBlockLen(d) ==
    LET len == IF d.searching /\ AcquireSec < BlockSec THEN AcquireSec ELSE BlockSec
    IN [d EXCEPT !.blockLen = len, !.overlap = Fitting(OverlapSec, len)]

\* Before the first Feed there is no length to adapt.
Adapted(d) == IF d.blockLen = 0 THEN d ELSE SetBlockLen(d)

SetScramble(d, value, pinned) ==
    Adapted([d EXCEPT !.scramble = value, !.pinned = pinned, !.searching = FALSE])

\* PinScramble(0): back to searching.
Unpinned(d) ==
    Adapted([d EXCEPT !.scramble = None, !.pinned = FALSE, !.searching = TRUE,
                      !.heard = 0])

New(start, value) ==
    [pendStart |-> start, blockLen |-> 0, overlap |-> 0, processed |-> start,
     searching |-> value = None, heard |-> 0, scramble |-> value,
     pinned |-> value # None, seen |-> {}]

BlockInit ==
    /\ phase \in Phases
    /\ \E start \in Starts, value \in {None, "own"} :
          dec = New(start, value) /\ fed = start
    /\ feeding = FALSE /\ frames = <<>> /\ flushed = FALSE
    /\ air = [start |-> fed, tried |-> {}, found |-> {}, missed |-> {}, given |-> <<>>,
              faults |-> 0, pins |-> 0, short |-> FALSE]

-----------------------------------------------------------------------------
(* decodeAt.                                                               *)

\* Slip: bins as long as two frames.
BinOfWide(t) == (t + Frame) \div (2 * Frame)

\* math.Round(sec / (FrameDurationSec / 2)).
BinOf(t) == (2 * t + Frame \div 2) \div Frame

\* Frames a block dated late or not can hold as a whole.
Whole(start, len, late) ==
    {n \in FrameNos : start <= At(n) /\ At(n) + late + Frame <= start + len}

\* The SB0 frames found feed the search, seen before or not, and the search may
\* lock, rightly or not, before the block is decoded.
TryLock(d, found) ==
    LET heard == d.heard + Cardinality(found \cap Control)
        on == [d EXCEPT !.heard = heard]
    IN IF ~d.searching THEN {d}
       ELSE {on} \cup (IF heard > 0 THEN {SetScramble(on, v, FALSE) : v \in {"own", "other"}}
                       ELSE {})

\* By time: the members of a set in ascending order, the only such sequence.
Sorted(set) ==
    {q \in [1 .. Cardinality(set) -> set] :
        \A j, k \in DOMAIN q : j < k => q[j] < q[k]}

MarkNew(d, bins) == [d EXCEPT !.seen = @ \cup bins]

\* The frames found whose bin is not seen.
Fresh(d, found, late) == {n \in found : BinOf(At(n) + late) \notin d.seen}

\* A frame is ok when the scramble value is known and right and the checksum holds.
GiveFrames(whole, lost, late, d, spoiled, order) ==
    /\ frames' = frames \o [k \in DOMAIN order |->
          [n |-> order[k], t |-> At(order[k]) + late,
           ok |-> d.scramble = "own" /\ order[k] \notin spoiled]]
    /\ air' = [air EXCEPT
          !.tried = @ \cup whole, !.found = @ \cup (whole \ lost),
          !.missed = @ \cup lost, !.given = @ \o order,
          !.faults = @ + Cardinality(lost) + Cardinality(spoiled)]

\* A block with these frames lost: the others are found, and of those the ones not
\* seen before are given, some of them with a wrong checksum.
DecodeBlock(whole, lost, late, to, end) ==
    \E d \in TryLock(dec, whole \ lost) :
        LET new == Fresh(d, whole \ lost, late)
        IN \E spoiled \in SUBSET new : \E order \in Sorted(new) :
              /\ air.faults + Cardinality(lost) + Cardinality(spoiled) <= MaxFaults
              /\ dec' = [MarkNew(d, {BinOf(At(n) + late) : n \in new}) EXCEPT
                    !.pendStart = to,
                    !.processed = IF end > @ THEN end ELSE @]
              /\ GiveFrames(whole, lost, late, d, spoiled, order)

\* Any frame in the block may be lost, and the block may date late.
DecodeAt(start, len, to) ==
    \E late \in {0, 1} : \E lost \in SUBSET Whole(start, len, late) :
        DecodeBlock(Whole(start, len, late), lost, late, to, start + len)

-----------------------------------------------------------------------------
(* Operations.                                                             *)

Pending == fed - dec.pendStart

\* The source gives samples and Feed appends them.
Feed ==
    \E k \in Chunks :
        /\ ~feeding /\ ~flushed /\ frames = <<>>
        /\ fed + k <= End
        /\ fed' = fed + k
        /\ dec' = IF dec.blockLen = 0 THEN SetBlockLen(dec) ELSE dec
        /\ feeding' = TRUE
        /\ UNCHANGED <<phase, frames, flushed, air>>

\* One turn of Feed's loop: the length is read before the block is decoded,
\* which may change it.
FeedBlock ==
    /\ feeding /\ Pending >= dec.blockLen
    /\ DecodeAt(dec.pendStart, dec.blockLen, dec.pendStart + dec.blockLen - dec.overlap)
    /\ UNCHANGED <<phase, fed, feeding, flushed>>

FeedEnds ==
    /\ feeding /\ Pending < dec.blockLen
    /\ feeding' = FALSE
    /\ UNCHANGED <<phase, dec, fed, frames, flushed, air>>

\* What is left, less than a block; too little for decodeAt when it is shorter
\* than two frames, but counted as processed.
Flush ==
    /\ ~feeding /\ ~flushed /\ frames = <<>>
    /\ flushed' = TRUE
    /\ IF Pending >= 2 * Frame
       THEN DecodeAt(dec.pendStart, Pending, fed)
       ELSE /\ dec' = [dec EXCEPT !.pendStart = fed,
                                  !.processed = IF fed > @ THEN fed ELSE @]
            /\ air' = [air EXCEPT !.short = TRUE]
            /\ UNCHANGED frames
    /\ UNCHANGED <<phase, fed, feeding>>

\* The operator pins the right value, or lets go; between two Feeds.
PinScramble ==
    /\ ~feeding /\ ~flushed /\ frames = <<>>
    /\ air.pins < MaxPins
    /\ \/ dec' = SetScramble(dec, "own", TRUE)
       \/ dec' = Unpinned(dec)
    /\ air' = [air EXCEPT !.pins = @ + 1]
    /\ UNCHANGED <<phase, fed, feeding, frames, flushed>>

BlockNext == Feed \/ FeedBlock \/ FeedEnds \/ Flush \/ PinScramble

-----------------------------------------------------------------------------
(* Properties.                                                             *)

\* No frame falls between two blocks, whatever the lengths are changed to while
\* frames wait: one that ended before the samples processed was whole in some
\* block. Only the end of the input may be too short to decode.
NothingSkipped ==
    \A n \in FrameNos :
        At(n) >= air.start /\ At(n) + Frame < dec.processed /\ ~air.short
            => n \in air.tried

\* A frame is not taken for its neighbour: what was found was given.
FoundIsGiven == air.found \subseteq Range(air.given)

GivenTimes(n) == Cardinality({k \in DOMAIN air.given : air.given[k] = n})

\* The bin of a frame does not depend on the grid of the block.
Steady(n) == BinOf(At(n)) = BinOf(At(n) + 1)

\* A frame is given once, unless its time lies at the edge of a bin; then twice.
OncePerFrame ==
    \A n \in FrameNos : GivenTimes(n) <= (IF Steady(n) THEN 1 ELSE 2)

\* Frames come in the order of the air, but for one that an earlier block missed
\* or whose bin is not sure.
LateOnlyIfMissed ==
    \A j, k \in DOMAIN air.given :
        j < k /\ air.given[j] >= air.given[k]
            => air.given[k] \in air.missed \/ ~Steady(air.given[k])

\* Every Feed ends.
FeedsEnd == feeding ~> ~feeding
=============================================================================
