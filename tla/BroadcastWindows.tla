--------------------------- MODULE BroadcastWindows ---------------------------
(***************************************************************************)
(* The operations of decoder.BroadcastTracker (internal/std-t86/decoder/   *)
(* broadcast.go) as operators on a tracker record: each takes the tracker  *)
(* before the call and gives the tracker after it.  BroadcastTracker runs  *)
(* them as a state machine of their own, StreamingDecoder inside the       *)
(* decoder.                                                                *)
(*                                                                         *)
(* A window with id 0 is Go's nil *BroadcastWindow: ids start at 1.  The   *)
(* field "changed" is what the last OnControl returned; it holds window    *)
(* ids because Go returns pointers, read after the call is over.           *)
(***************************************************************************)
EXTENDS Integers, Sequences, FiniteSets

CONSTANTS
    Calls,          \* call numbers (BroadcastFields.CallNo)
    IDBits,         \* values of BCCHFields.IDValidBits
    ConfirmWindow,  \* span in which repeats of a message confirm it
    ConfirmCount,   \* repeats that confirm a message whose CRC failed
    MidJoinDelay,   \* how long the on-air flag stands before a mid-join
    KHCloseDelay,   \* how long it is down before the window is closed
    Keep            \* closed windows remembered

ASSUME WindowConstants ==
    /\ Calls \subseteq Nat
    /\ IDBits \subseteq Nat
    /\ ConfirmWindow \in Nat
    /\ ConfirmCount \in Nat
    /\ MidJoinDelay \in Nat
    /\ KHCloseDelay \in Nat \ {0}
    /\ Keep \in Nat \ {0}

-----------------------------------------------------------------------------
(* Messages: what OnControl reads of control.Message.  Every type but the  *)
(* radio control request carries the CCH header (bcast = Broadcasting,     *)
(* slots = UsedSlots is not empty); idle messages carry IDValidBits.       *)

Starts == {"start", "delayed"}
Confirmable == Starts \cup {"release"}
MsgTypes == Confirmable \cup {"idle", "radio"}

Message == [type : MsgTypes, crc : BOOLEAN, bcast : BOOLEAN, slots : BOOLEAN,
            call : Calls, bits : IDBits]

HasHeader(m) == m.type # "radio"

NoTarget == [call |-> -1, bits |-> 0]
Target == [call : Calls, bits : Nat] \cup {NoTarget}

\* control.BroadcastTarget: the same ids give another target when the number
\* of valid id bits differs.
BroadcastTarget(t, m) == [call |-> m.call, bits |-> t.idBits]

-----------------------------------------------------------------------------
(* Windows and the tracker.                                                *)

Causes == {"none", "release", "kh", "newCall", "abandoned"}

Window == [id : Nat, openPos : Nat, closePos : Nat, closed : BOOLEAN,
           target : Target, targetOK : BOOLEAN, midJoin : BOOLEAN,
           cause : Causes]

NoWindow == [id |-> 0, openPos |-> 0, closePos |-> 0, closed |-> FALSE,
             target |-> NoTarget, targetOK |-> FALSE, midJoin |-> FALSE,
             cause |-> "none"]

Contains(w, pos) == w.openPos <= pos /\ (w.closed => pos < w.closePos)

Tracker == [strict : BOOLEAN, idBits : Nat, updated : Seq(Nat),
            open : Window, recent : Seq(Window), nextID : Nat \ {0},
            hist : [Confirmable -> SUBSET Nat],
            khSeen : BOOLEAN, midJoin : BOOLEAN,
            khOnPos : Nat, khZeroAt : Nat \cup {-1},
            changed : Seq(Nat)]

NewTracker ==
    [strict |-> TRUE, idBits |-> 0, updated |-> <<>>,
     open |-> NoWindow, recent |-> <<>>, nextID |-> 1,
     hist |-> [c \in Confirmable |-> {}],
     khSeen |-> FALSE, midJoin |-> FALSE, khOnPos |-> 0, khZeroAt |-> -1,
     changed |-> <<>>]

IsOpen(t) == t.open.id # 0

\* Variant with a slip, for the runs that show the properties can fail: the
\* id is not consumed.
OpenWindowSameId(t, pos, target, targetOK, midJoin) ==
    [t EXCEPT
       !.open = [NoWindow EXCEPT !.id = t.nextID, !.openPos = pos,
                                 !.target = target, !.targetOK = targetOK,
                                 !.midJoin = midJoin],
       !.midJoin = FALSE,
       !.changed = Append(@, t.nextID)]

OpenWindow(t, pos, target, targetOK, midJoin) ==
    [t EXCEPT
       !.open = [NoWindow EXCEPT !.id = t.nextID, !.openPos = pos,
                                 !.target = target, !.targetOK = targetOK,
                                 !.midJoin = midJoin],
       !.nextID = @ + 1,
       !.midJoin = FALSE,
       !.changed = Append(@, t.nextID)]

LastOf(s, n) == IF Len(s) > n THEN SubSeq(s, Len(s) - n + 1, Len(s)) ELSE s

ClosedWindow(w, pos, cause) ==
    [w EXCEPT !.closePos = pos, !.closed = TRUE, !.cause = cause]

\* Slip: a join under way survives the close of another window.
CloseOpenKeepsJoin(t, pos, cause) ==
    [t EXCEPT
       !.recent = LastOf(Append(@, ClosedWindow(t.open, pos, cause)), Keep),
       !.open = NoWindow,
       !.khZeroAt = -1,
       !.changed = Append(@, t.open.id)]

CloseOpen(t, pos, cause) ==
    [t EXCEPT
       !.recent = LastOf(Append(@, ClosedWindow(t.open, pos, cause)), Keep),
       !.open = NoWindow,
       !.khZeroAt = -1,
       !.midJoin = FALSE,
       !.changed = Append(@, t.open.id)]

-----------------------------------------------------------------------------
(* The on-air flag of the header (onKH): it opens a window when the        *)
(* receiver joined a broadcast under way, and closes one whose forced      *)
(* release was missed.                                                     *)

OnAir(m) == m.bcast /\ m.slots

FirstHeader(t, pos, m) ==
    IF t.khSeen THEN t
    ELSE [t EXCEPT !.khSeen = TRUE, !.midJoin = OnAir(m), !.khOnPos = pos]

JoinUnderWay(t, pos, m) ==
    IF ~OnAir(m) THEN [t EXCEPT !.midJoin = FALSE]
    ELSE IF t.midJoin /\ ~IsOpen(t) /\ pos - t.khOnPos >= MidJoinDelay
         THEN OpenWindow(t, t.khOnPos, NoTarget, FALSE, TRUE)
         ELSE t

\* Slip: the window is closed one slot late.
HoldOffLate(t, pos, m) ==
    IF m.bcast \/ ~IsOpen(t) THEN [t EXCEPT !.khZeroAt = -1]
    ELSE IF t.khZeroAt < 0 THEN [t EXCEPT !.khZeroAt = pos]
    ELSE IF pos - t.khZeroAt > KHCloseDelay THEN CloseOpen(t, pos, "kh")
    ELSE t

HoldOff(t, pos, m) ==
    IF m.bcast \/ ~IsOpen(t) THEN [t EXCEPT !.khZeroAt = -1]
    ELSE IF t.khZeroAt < 0 THEN [t EXCEPT !.khZeroAt = pos]
    ELSE IF pos - t.khZeroAt >= KHCloseDelay THEN CloseOpen(t, pos, "kh")
    ELSE t

OnKH(t, pos, m) ==
    LET seen == FirstHeader(t, pos, m)
        joined == JoinUnderWay(seen, pos, m)
    IN HoldOff(joined, pos, m)

-----------------------------------------------------------------------------
(* OnControl and what it calls.                                            *)

NoteIDBits(t, m) ==
    IF m.crc /\ m.type = "idle" /\ m.bits <= 8
    THEN [t EXCEPT !.idBits = 8 + m.bits] ELSE t

\* Slip: a confirmed target is refreshed again.
RefreshAlways(t, m) ==
    IF ~IsOpen(t) \/ ~m.crc THEN t
    ELSE [t EXCEPT !.open = [@ EXCEPT !.target = BroadcastTarget(t, m),
                                      !.targetOK = TRUE]]

\* A start message with a good CRC settles the target of a window opened
\* without one.
RefreshTarget(t, m) ==
    IF ~IsOpen(t) \/ t.open.targetOK \/ ~m.crc THEN t
    ELSE LET target == BroadcastTarget(t, m)
             settled == [t EXCEPT !.open = [@ EXCEPT !.target = target,
                                                     !.targetOK = TRUE]]
         IN IF t.open.target = target THEN settled
            ELSE [settled EXCEPT !.updated = Append(@, t.open.id)]

\* confirmed() keeps the positions of repeats only when it has to count them.
Repeats(t, pos, m) ==
    {p \in t.hist[m.type] \cup {pos} : pos - p <= ConfirmWindow}

NoteRepeat(t, pos, m) ==
    IF m.crc \/ t.strict THEN t
    ELSE [t EXCEPT !.hist = [@ EXCEPT ![m.type] = Repeats(t, pos, m)]]

\* Slip: the repeats noted before the monitor was set to strict still count.
ConfirmedByCount(t, m) ==
    m.crc \/ Cardinality(t.hist[m.type]) >= ConfirmCount

Confirmed(t, m) ==
    m.crc \/ (~t.strict /\ Cardinality(t.hist[m.type]) >= ConfirmCount)

IsNewCall(t, m) ==
    /\ m.type \in Starts /\ m.crc
    /\ IsOpen(t) /\ t.open.targetOK /\ t.open.target # NoTarget
    /\ m.call # t.open.target.call

StartOrRelease(t, pos, m) ==
    LET cut == IF IsNewCall(t, m) THEN CloseOpen(t, pos, "newCall") ELSE t
    IN CASE m.type \in Starts /\ ~IsOpen(cut) ->
              OpenWindow(cut, pos, BroadcastTarget(cut, m), m.crc, FALSE)
         [] m.type = "release" /\ IsOpen(cut) -> CloseOpen(cut, pos, "release")
         [] OTHER -> cut

OnControl(t, pos, m) ==
    LET fresh == NoteIDBits([t EXCEPT !.changed = <<>>], m)
        keyed == IF m.crc /\ HasHeader(m) THEN OnKH(fresh, pos, m) ELSE fresh
        aimed == IF m.type \in Starts THEN RefreshTarget(keyed, m) ELSE keyed
        noted == NoteRepeat(aimed, pos, m)
    IN IF m.type \notin Confirmable THEN keyed
       ELSE IF Confirmed(noted, m) THEN StartOrRelease(noted, pos, m)
       ELSE noted

-----------------------------------------------------------------------------
(* Calls from outside the message stream.                                  *)

ArmMidJoin(t) ==
    [t EXCEPT !.khSeen = FALSE, !.midJoin = FALSE, !.khZeroAt = -1]

Abandon(t, pos) ==
    LET armed == [ArmMidJoin(t) EXCEPT !.hist = NewTracker.hist,
                                       !.changed = <<>>]
        at == IF pos < t.open.openPos THEN t.open.openPos ELSE pos
    IN IF IsOpen(t) THEN CloseOpen(armed, at, "abandoned") ELSE armed

\* WindowFor: the open window first, then the newest closed one; 0 if none.
WindowFor(t, pos) ==
    LET hits == {i \in DOMAIN t.recent : Contains(t.recent[i], pos)}
    IN IF IsOpen(t) /\ Contains(t.open, pos) THEN t.open.id
       ELSE IF hits = {} THEN 0
       ELSE t.recent[CHOOSE i \in hits : \A j \in hits : j <= i].id

-----------------------------------------------------------------------------
(* What a tracker must look like once every position up to "now" has been  *)
(* seen; the parts are invariants of BroadcastTracker.                     *)

Windows(t) == {t.recent[i] : i \in DOMAIN t.recent}
                \cup (IF IsOpen(t) THEN {t.open} ELSE {})

OpenOK(t, now) ==
    IsOpen(t) => /\ ~t.open.closed /\ t.open.cause = "none"
                 /\ t.open.id < t.nextID /\ t.open.openPos <= now

RecentOK(t, now) ==
    \A i \in DOMAIN t.recent :
        LET w == t.recent[i]
        IN /\ w.closed /\ w.openPos <= w.closePos /\ w.closePos <= now
           /\ w.id \in 1 .. t.nextID - 1

InOrder(t) ==
    /\ \A i, j \in DOMAIN t.recent :
          i < j => /\ t.recent[i].closePos <= t.recent[j].openPos
                   /\ t.recent[i].id < t.recent[j].id
    /\ IsOpen(t) =>
          \A i \in DOMAIN t.recent : /\ t.recent[i].closePos <= t.open.openPos
                                     /\ t.recent[i].id < t.open.id

\* A window still to be joined will open at khOnPos, after every closed one.
JoinAhead(t, now) ==
    /\ t.khSeen => t.khOnPos <= now
    /\ t.midJoin =>
          t.khSeen /\ \A i \in DOMAIN t.recent : t.recent[i].closePos <= t.khOnPos

WellFormed(t, now) ==
    /\ t \in Tracker
    /\ OpenOK(t, now) /\ RecentOK(t, now) /\ InOrder(t) /\ JoinAhead(t, now)
=============================================================================
