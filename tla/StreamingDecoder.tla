--------------------------- MODULE StreamingDecoder ---------------------------
(***************************************************************************)
(* decoder.StreamingDecoder (internal/std-t86/decoder/decoder.go): a Feed   *)
(* is BeginFeed, the slots of the chunk one by one, and EndFeed; between    *)
(* two Feeds the caller may reset or pin.  Positions are slot numbers.      *)
(*                                                                         *)
(* The scramble value (seed) of a station is the key its control slots are *)
(* decoded with.  While it is unknown the slots are held; once the search  *)
(* is confident they are decoded again from the oldest, one step each      *)
(* (the loop of applyDetectedSeed).  Voice bursts wait in the smoother for  *)
(* their ring mates, and in pendingVoice while the seed is unknown.         *)
(*                                                                         *)
(* Abstracted: signal processing (a slot arrives or not), the scores of the *)
(* seed search (it may or may not become confident once enough slots are   *)
(* held), the vote on a burst (every burst counts as voice).               *)
(***************************************************************************)
EXTENDS BroadcastWindows

CONSTANTS
    Stations,   \* seeds of the stations that may be on air
    AirSlots,   \* control slots they send, [station : Stations, msg : Message]
    Ring,       \* TDMA slots a talk slot comes back after (6)
    Win,        \* ring mates the smoother votes with (2)
    MinSlots,   \* control slots held before seeds are scored (8)
    SeedWindow, \* control slots held at most (96)
    VoiceCap,   \* bound of pendingVoice (1000)
    MaxPos      \* bound: the recording ends here

ASSUME DecoderConstants ==
    /\ Stations \subseteq Nat \ {0}
    /\ AirSlots \subseteq [station : Stations, msg : Message]
    /\ Ring \in Nat \ {0} /\ Win \in Nat \ {0}
    /\ MinSlots \in Nat \ {0} /\ SeedWindow \in Nat \ {0}
    /\ VoiceCap \in Nat /\ MaxPos \in Nat

VARIABLES
    seed,         \* StreamingDecoder.Seed, 0 while unknown
    held,         \* seedSearch.slots
    tracker,      \* the BroadcastTracker
    pending,      \* positions of the bursts in the smoother
    pendingVoice, \* positions of decided bursts waiting for the seed
    backlog,      \* endedBacklog, the closed windows not reported yet
    now,          \* FinalizedPos: the slots before it have been handled
    pc,           \* where the caller is: "idle", "feed", "replay", "done"
    res,          \* the FeedResult under construction, or the last one
    handled,      \* bursts the last step took in (a history variable)
    told          \* what the caller has been told of each window (history)

decoderVars == <<seed, held, tracker, pending, pendingVoice, backlog, now, pc,
                 res, handled, told>>

HeldSlot == [pos : Nat, station : Stations, msg : Message]
VoiceEvent == [pos : Nat, id : Nat]

Result == [control : BOOLEAN, valid : BOOLEAN, detected : Stations \cup {0},
           started : Seq(Nat), updated : Seq(Nat), ended : Seq(Window),
           voice : Seq(VoiceEvent)]

NoResult == [control |-> FALSE, valid |-> FALSE, detected |-> 0,
             started |-> <<>>, updated |-> <<>>, ended |-> <<>>, voice |-> <<>>]

DecoderTypeOK ==
    /\ seed \in Stations \cup {0}
    /\ held \in Seq(HeldSlot) /\ Len(held) <= SeedWindow
    /\ tracker \in Tracker
    /\ pending \in Seq(Nat)
    /\ pendingVoice \in Seq(Nat) /\ Len(pendingVoice) <= VoiceCap
    /\ backlog \in Seq(Window)
    /\ now \in Nat
    /\ pc \in {"idle", "feed", "replay", "done"}
    /\ res \in Result
    /\ handled \in Seq(Nat)
    /\ told \in [started : SUBSET Nat, ended : SUBSET Nat, cut : SUBSET Nat,
                voice : VoiceEvent]

DecoderInit ==
    /\ seed \in Stations \cup {0}
    /\ held = <<>>
    /\ tracker = NewTracker
    /\ pending = <<>> /\ pendingVoice = <<>> /\ backlog = <<>>
    /\ now = 0
    /\ pc = "idle"
    /\ res = NoResult
    /\ handled = <<>>
    /\ told = [started |-> {}, ended |-> {}, cut |-> {},
               voice |-> [pos |-> 0, id |-> 0]]

-----------------------------------------------------------------------------
(* Voice: the smoother and emitVoice.                                      *)

Horizon == Ring * Win + 2

Mates(p, i) ==
    {j \in i + 1 .. Len(p) : p[j] % Ring = p[i] % Ring /\ p[j] <= p[i] + Horizon}

Decidable(p, i, highWater) ==
    Cardinality(Mates(p, i)) >= Win \/ highWater > p[i] + Horizon

\* voiceSmoother.release decides from the head until one has to wait.
Releases(p, highWater, n) ==
    /\ n \in 0 .. Len(p)
    /\ \A i \in 1 .. n : Decidable(p, i, highWater)
    /\ n < Len(p) => ~Decidable(p, n + 1, highWater)

Upto(s, n) == SubSeq(s, 1, n)
From(s, n) == SubSeq(s, n + 1, Len(s))

\* appendVoice labels each burst with its window.
Labelled(t, s) == [i \in 1 .. Len(s) |-> [pos |-> s[i], id |-> WindowFor(t, s[i])]]

\* Slip: decided bursts overtake those that waited.
WaitingBehind(decided) == decided \o pendingVoice

\* Slip: nothing waits for the seed.
LeaveAtOnce(all) == Len(all)

\* emitVoice: bursts that waited for the seed go first; while it is unknown
\* only those beyond the cap go.
Waiting(decided) == pendingVoice \o decided
LeaveCount(all) ==
    IF seed # 0 THEN Len(all)
    ELSE IF Len(all) > VoiceCap THEN Len(all) - VoiceCap ELSE 0

StillWaiting(decided) == From(Waiting(decided), LeaveCount(Waiting(decided)))
Emitted(decided, r) ==
    [r EXCEPT !.voice =
        @ \o Labelled(tracker, Upto(Waiting(decided), LeaveCount(Waiting(decided))))]

\* History: the last burst delivered with a window, unless the cap forced it
\* out before the control slots around it could be read.
NoteVoice(decided) ==
    LET hits == {i \in DOMAIN Waiting(decided) :
                    /\ i <= LeaveCount(Waiting(decided))
                    /\ WindowFor(tracker, Waiting(decided)[i]) # 0}
        last == CHOOSE i \in hits : \A j \in hits : j <= i
    IN IF hits = {} \/ (seed = 0 /\ Len(Waiting(decided)) > VoiceCap) THEN told
       ELSE [told EXCEPT !.voice = [pos |-> Waiting(decided)[last],
                                    id |-> WindowFor(tracker, Waiting(decided)[last])]]

-----------------------------------------------------------------------------
(* Control slots.                                                          *)

\* A slot decoded with another station's seed fails its CRC and may look like
\* any message.
Decoded(slot, key) ==
    IF slot.station = key THEN {slot.msg}
    ELSE {[slot.msg EXCEPT !.crc = FALSE, !.type = type] : type \in MsgTypes}

WindowOf(t, id) == CHOOSE w \in Windows(t) : w.id = id

Elements(s) == {s[i] : i \in DOMAIN s}

\* The elements of s at the indices I, in their order (a SelectSeq, in a form
\* that can be reasoned about).
Picked(s, I) ==
    [k \in 1 .. Cardinality(I) |->
        s[CHOOSE i \in I : Cardinality({j \in I : j <= i}) = k]]

\* Of the windows OnControl returned, the one that is open is reported as
\* started; the others have been closed again.
StillOpen(t) == {i \in DOMAIN t.changed : t.changed[i] = t.open.id}
StartedIn(t) == Picked(t.changed, StillOpen(t))
EndedIn(t) == Picked(t.changed, DOMAIN t.changed \ StillOpen(t))
EndedWindows(t) == [i \in 1 .. Len(EndedIn(t)) |-> WindowOf(t, EndedIn(t)[i])]

\* History: windows that one slot opened and closed.
CutShort(t) ==
    {id \in Elements(EndedIn(t)) : id >= tracker.nextID /\ id \notin told.started}

\* decodeControl reports the starts and keeps the ends back.
DecodeControl(slot, key, r) ==
    \E m \in Decoded(slot, key) :
        LET t == OnControl(tracker, slot.pos, m)
        IN /\ tracker' = [t EXCEPT !.changed = <<>>, !.updated = <<>>]
           /\ backlog' = backlog \o EndedWindows(t)
           /\ res' = [r EXCEPT !.control = TRUE, !.valid = @ \/ m.crc,
                               !.started = @ \o StartedIn(t),
                               !.updated = @ \o t.updated]
           /\ told' = [told EXCEPT !.started = @ \cup Elements(StartedIn(t)),
                                   !.cut = @ \cup CutShort(t)]

\* seedSearch.push: the slot is held, and the search may settle on the station
\* of one of the held slots, which are then decoded again.
HoldSlot(slot) ==
    /\ held' = LastOf(Append(held, slot), SeedWindow)
    /\ \/ UNCHANGED <<seed, pc, res>>
       \/ /\ Len(held') >= MinSlots
          /\ \E i \in DOMAIN held' :
                /\ seed' = held'[i].station
                /\ res' = [res EXCEPT !.detected = held'[i].station]
          /\ pc' = "replay"
    /\ UNCHANGED <<tracker, backlog, told>>

-----------------------------------------------------------------------------
(* Feed.                                                                   *)

BeginFeed ==
    /\ pc = "idle" /\ now < MaxPos
    /\ pc' = "feed"
    /\ res' = NoResult
    /\ handled' = <<>>
    /\ UNCHANGED <<seed, held, tracker, pending, pendingVoice, backlog, now, told>>

\* The front end keeps the samples while it acquires the carrier: Feed returns
\* at once.
EmptyFeed ==
    /\ pc = "idle"
    /\ res' = NoResult
    /\ handled' = <<>>
    /\ UNCHANGED <<seed, held, tracker, pending, pendingVoice, backlog, now, pc, told>>

\* A control slot (SW S1, S5 or S6).
ControlSlot(air) ==
    LET slot == [pos |-> now, station |-> air.station, msg |-> air.msg]
    IN /\ pc = "feed" /\ now < MaxPos
       /\ now' = now + 1
       /\ handled' = <<>>
       /\ IF seed = 0 THEN HoldSlot(slot)
          ELSE DecodeControl(slot, seed, res) /\ UNCHANGED <<seed, held, pc>>
       /\ UNCHANGED <<pending, pendingVoice>>

Replay ==
    /\ pc = "replay"
    /\ DecodeControl(Head(held), seed, res)
    /\ held' = Tail(held)
    /\ pc' = IF Len(held) = 1 THEN "feed" ELSE "replay"
    /\ handled' = <<>>
    /\ UNCHANGED <<seed, pending, pendingVoice, now>>

\* A talk burst.
VoiceSlot ==
    /\ pc = "feed" /\ now < MaxPos
    /\ now' = now + 1
    /\ handled' = <<now>>
    /\ LET all == Append(pending, now)
       IN \E n \in 0 .. Len(all) :
             /\ Releases(all, now, n)
             /\ pending' = From(all, n)
             /\ pendingVoice' = StillWaiting(Upto(all, n))
             /\ res' = Emitted(Upto(all, n), res)
             /\ told' = NoteVoice(Upto(all, n))
    /\ UNCHANGED <<seed, held, tracker, backlog, pc>>

\* A FACCH burst in a talk slot carries a control message the tracker does not
\* see; it cannot be told from a talk burst before the seed is known.  With a
\* bad CRC it counts only if it looks like a known message.
FacchSlot(air) ==
    \/ seed = 0 /\ VoiceSlot
    \/ /\ seed # 0 /\ pc = "feed" /\ now < MaxPos
       /\ now' = now + 1
       /\ handled' = <<>>
       /\ LET good == air.station = seed /\ air.msg.crc
          IN \E known \in {TRUE, good} :
                res' = [res EXCEPT !.control = @ \/ known, !.valid = @ \/ good]
       /\ UNCHANGED <<seed, held, tracker, pending, pendingVoice, backlog, pc, told>>

\* A slot in which no burst is found.
EmptySlot ==
    /\ pc = "feed" /\ now < MaxPos
    /\ now' = now + 1
    /\ handled' = <<>>
    /\ UNCHANGED <<seed, held, tracker, pending, pendingVoice, backlog, pc, res, told>>

Least(S) == CHOOSE x \in S : \A y \in S : x <= y

\* Slip: the bursts in the smoother are forgotten.
WatermarkFinalized(p) == now

Watermark(p) == Least({now} \cup (IF p = <<>> THEN {} ELSE {p[1]}))

Over(p) == {i \in DOMAIN backlog : backlog[i].closePos < Watermark(p)}

\* Slip: a window that was reported stays in the backlog.
ReleaseEndedKeeps(p, r, heard) ==
    LET done == Picked(backlog, Over(p))
    IN /\ backlog' = backlog
       /\ told' = [heard EXCEPT !.ended = @ \cup {done[i].id : i \in DOMAIN done}]
       /\ res' = [r EXCEPT !.ended = done]

\* releaseEnded: a closed window is reported once no burst of it can follow.
ReleaseEnded(p, r, heard) ==
    LET done == Picked(backlog, Over(p))
    IN /\ backlog' = Picked(backlog, DOMAIN backlog \ Over(p))
       /\ told' = [heard EXCEPT !.ended = @ \cup {done[i].id : i \in DOMAIN done}]
       /\ res' = [r EXCEPT !.ended = done]

EndFeed ==
    /\ pc = "feed"
    /\ pc' = "idle"
    /\ handled' = <<>>
    /\ \E n \in 0 .. Len(pending) :
          /\ Releases(pending, now, n)
          /\ pending' = From(pending, n)
          /\ pendingVoice' = StillWaiting(Upto(pending, n))
          /\ ReleaseEnded(pending', Emitted(Upto(pending, n), res),
                          NoteVoice(Upto(pending, n)))
    /\ UNCHANGED <<seed, held, tracker, now>>

-----------------------------------------------------------------------------
(* What the caller does between two Feeds.                                 *)

\* PinSeed with a seed; with 0 it is ResetSeed.
PinSeed(key) ==
    /\ pc = "idle"
    /\ key # 0
    /\ seed' = key
    /\ held' = <<>>
    /\ pendingVoice' = <<>>
    /\ res' = [NoResult EXCEPT !.voice = Labelled(tracker, pendingVoice)]
    /\ handled' = <<>>
    /\ UNCHANGED <<tracker, pending, backlog, now, pc, told>>

ResetSeed ==
    /\ pc = "idle"
    /\ seed' = 0
    /\ held' = <<>>
    /\ res' = NoResult
    /\ handled' = <<>>
    /\ UNCHANGED <<tracker, pending, pendingVoice, backlog, now, pc, told>>

\* ResetBroadcast returns the window it abandons, and every caller reports it
\* at once.
ResetBroadcast ==
    /\ pc \in {"idle", "done"}
    /\ tracker' = [Abandon(tracker, now) EXCEPT !.changed = <<>>]
    /\ told' = [told EXCEPT !.ended = IF IsOpen(tracker)
                                      THEN @ \cup {tracker.open.id} ELSE @]
    /\ res' = NoResult
    /\ handled' = <<>>
    /\ UNCHANGED <<seed, held, pending, pendingVoice, backlog, now, pc>>

SignalLost ==
    /\ pc = "idle"
    /\ tracker' = ArmMidJoin(tracker)
    /\ res' = NoResult
    /\ handled' = <<>>
    /\ UNCHANGED <<seed, held, pending, pendingVoice, backlog, now, pc, told>>

\* Flush empties everything at the end of the stream.
Flush ==
    /\ pc = "idle"
    /\ pc' = "done"
    /\ LET d == Upto(pending, Len(pending))
           r == Emitted(d, NoResult)
       IN res' = [r EXCEPT !.voice = @ \o Labelled(tracker, StillWaiting(d)),
                           !.ended = backlog]
    /\ told' = [told EXCEPT !.ended = @ \cup {backlog[i].id : i \in DOMAIN backlog}]
    /\ pending' = <<>> /\ pendingVoice' = <<>> /\ backlog' = <<>>
    /\ handled' = <<>>
    /\ UNCHANGED <<seed, held, tracker, now>>

Slot ==
    \/ \E air \in AirSlots : ControlSlot(air) \/ FacchSlot(air)
    \/ VoiceSlot
    \/ EmptySlot

Feeding == BeginFeed \/ EmptyFeed \/ Slot \/ Replay \/ EndFeed

Calling ==
    \/ \E key \in Stations : PinSeed(key)
    \/ ResetSeed
    \/ ResetBroadcast
    \/ SignalLost
    \/ Flush

DecoderNext == Feeding \/ Calling

DecoderSpec == DecoderInit /\ [][DecoderNext]_decoderVars

-----------------------------------------------------------------------------
(* Properties.                                                             *)

Positions(v) == [i \in DOMAIN v |-> v[i].pos]

\* Every burst that enters the smoother comes out exactly once and in order:
\* what a step delivers, together with what still waits after it, is what
\* waited before it and what it took in (decoder.go emitVoice, voice.go
\* release).  Between two Feeds the result has been taken.
VoiceConserved ==
    [][LET taken == IF pc \in {"idle", "done"} THEN <<>> ELSE Positions(res.voice)
       IN taken \o pendingVoice \o pending \o handled'
             = Positions(res'.voice) \o pendingVoice' \o pending']_decoderVars

AbandonedIds == {w.id : w \in {x \in Windows(tracker) : x.cause = "abandoned"}}

\* A window is reported as ended only after its last burst: no burst the
\* smoother still holds lies in a reported window (decoder.go releaseEnded).
\* A window abandoned by the caller is reported at once.
EndedComplete ==
    \A i \in DOMAIN pending :
        WindowFor(tracker, pending[i]) \in told.ended => 
            WindowFor(tracker, pending[i]) \in AbandonedIds

\* A burst is never delivered with a window that turns out to have ended
\* before it, although its control slots may have had to wait for the seed
\* (decoder.go emitVoice, pendingVoice).
VoiceInItsWindow ==
    \A w \in Windows(tracker) :
        w.id # 0 /\ w.id = told.voice.id => Contains(w, told.voice.pos)

BacklogIds == {backlog[i].id : i \in DOMAIN backlog}
OpenIds == IF IsOpen(tracker) THEN {tracker.open.id} ELSE {}

\* No broadcast is lost between the tracker and the caller, and none ends twice:
\* one reported as started is open, or waits in endedBacklog, or has been reported
\* as ended, just one of the three; an end follows a start, and endedBacklog, which
\* is filtered in place, holds no window twice, unless one slot opened and closed it
\* (decoder.go releaseEnded, Flush, ResetBroadcast).
StartsAccounted ==
    /\ told.started \subseteq OpenIds \cup BacklogIds \cup told.ended
    /\ told.ended \cup BacklogIds \cup OpenIds \subseteq told.started \cup told.cut
    /\ OpenIds \cap (BacklogIds \cup told.ended) = {}
    /\ BacklogIds \cap told.ended = {}
    /\ \A i, j \in DOMAIN backlog :
          i # j /\ backlog[i].id = backlog[j].id => backlog[i].id \in told.cut
=============================================================================
