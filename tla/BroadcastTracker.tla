--------------------------- MODULE BroadcastTracker ---------------------------
(***************************************************************************)
(* The broadcast tracker fed with control slots in the order of their      *)
(* positions, as the decoder does while the scramble seed is known (what   *)
(* the replay of the slots held by the seed search adds is in              *)
(* StreamingDecoder).  "now" is SlotTracker.FinalizedPos: no later slot    *)
(* has a smaller position.                                                 *)
(***************************************************************************)
EXTENDS BroadcastWindows

CONSTANTS
    Messages,   \* the messages the air may carry, a subset of Message
    Gaps,       \* distances between a slot and the next, positive
    MaxPos      \* bound: the recording ends here

ASSUME AirConstants ==
    /\ Messages \subseteq Message
    /\ Gaps \subseteq Nat \ {0}
    /\ MaxPos \in Nat

VARIABLES
    tracker,    \* the BroadcastTracker
    now,        \* position everything before which has been delivered
    heard       \* what the last step handled (a history variable)

vars == <<tracker, now, heard>>

TypeOK ==
    /\ tracker \in Tracker
    /\ now \in Nat
    /\ heard \in {"nothing", "header", "badCRC", "other"}

Heard(m) == IF ~m.crc THEN "badCRC"
            ELSE IF HasHeader(m) THEN "header" ELSE "other"

Init ==
    /\ tracker = NewTracker
    /\ now = 0
    /\ heard = "nothing"

\* decodeControl takes what OnControl returned and the updated targets.
Taken(t) == [t EXCEPT !.changed = <<>>, !.updated = <<>>]

Control(m) ==
    \E gap \in Gaps :
        /\ now + gap <= MaxPos
        /\ tracker' = Taken(OnControl(tracker, now + gap, m))
        /\ now' = now + gap
        /\ heard' = Heard(m)

\* dspLoop's resets: ResetBroadcast abandons at FinalizedPos, which has moved
\* on with the samples.
Reset ==
    \E gap \in Gaps \cup {0} :
        /\ now + gap <= MaxPos
        /\ tracker' = Taken(Abandon(tracker, now + gap))
        /\ now' = now + gap
        /\ heard' = "nothing"

SignalLoss ==
    /\ tracker' = ArmMidJoin(tracker)
    /\ heard' = "nothing"
    /\ UNCHANGED now

\* Pipeline.SetBroadcastStrict writes the flag between two slots.
SetStrict ==
    /\ tracker' = [tracker EXCEPT !.strict = ~@]
    /\ heard' = "nothing"
    /\ UNCHANGED now

Next ==
    \/ \E m \in Messages : Control(m)
    \/ Reset
    \/ SignalLoss
    \/ SetStrict

Spec == Init /\ [][Next]_vars

-----------------------------------------------------------------------------
(* Safety.                                                                 *)

\* The inductive invariant behind the next property.
TrackerWellFormed == WellFormed(tracker, now)

\* A voice burst belongs to one broadcast: no position lies in two of the
\* windows WindowFor chooses from, although a mid-join opens its window in the
\* past (broadcast.go onKH, OpenPos = khOnPos).
WindowsDisjoint ==
    \A v, w \in Windows(tracker) :
        v # w => \A pos \in 0 .. now : ~(Contains(v, pos) /\ Contains(w, pos))

\* The hold-off timers of onKH end: once a header has been handled, a window
\* whose on-air flag has been down since khZeroAt is gone if that was
\* KHCloseDelay ago, and a join under way for MidJoinDelay has its window.
TimersExpire ==
    heard = "header" =>
        /\ tracker.khZeroAt >= 0 =>
              IsOpen(tracker) /\ now - tracker.khZeroAt < KHCloseDelay
        /\ tracker.midJoin /\ ~IsOpen(tracker) =>
              now - tracker.khOnPos < MidJoinDelay

-----------------------------------------------------------------------------
(* Action properties.                                                      *)

\* In strict mode a message that failed its CRC neither opens nor closes a
\* window (broadcast.go confirmed; the monitor calls it "厳格（CRC 一致必須）").
StrictNeedsCRC ==
    [][tracker.strict /\ heard' = "badCRC" =>
          /\ tracker'.open = tracker.open
          /\ tracker'.recent = tracker.recent]_vars

WindowsStay ==
    \A v \in Windows(tracker), w \in Windows(tracker') : v.id = w.id =>
        /\ v.closed => w = v
        /\ v.openPos = w.openPos
        /\ v.targetOK => w.target = v.target /\ w.targetOK

IdsAreFresh ==
    /\ tracker'.nextID >= tracker.nextID
    /\ \A w \in Windows(tracker') :
          (\A v \in Windows(tracker) : v.id # w.id) => w.id >= tracker.nextID

\* What the web monitor was told about a window stays true: a closed window is
\* never reopened, moved or re-targeted, a target confirmed by a CRC is never
\* replaced, and a window that appears has an id greater than every id seen
\* before, so a late event is not taken for one of a newer broadcast
\* (broadcast.go refreshTarget, closeOpen, openWindow).
HistoryIsFrozen == [][WindowsStay /\ IdsAreFresh]_vars
=============================================================================
