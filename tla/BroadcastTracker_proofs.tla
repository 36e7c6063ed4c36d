------------------------ MODULE BroadcastTracker_proofs ------------------------
(***************************************************************************)
(* Proofs about the broadcast tracker, for every set of call numbers,      *)
(* every delay and every message stream whose positions do not go back.    *)
(***************************************************************************)
EXTENDS BroadcastTracker, TLAPS

-----------------------------------------------------------------------------
(* The records.                                                            *)

LEMMA NoWindowType == NoWindow \in Window
BY DEF NoWindow, Window, NoTarget, Target, Causes

LEMMA NewTrackerWellFormed == WellFormed(NewTracker, 0)
<1>1. NewTracker \in Tracker
  BY NoWindowType DEF NewTracker, Tracker
<1>2. ~IsOpen(NewTracker)
  BY DEF NewTracker, IsOpen, NoWindow
<1>3. DOMAIN NewTracker.recent = {}
  BY DEF NewTracker
<1>4. ~NewTracker.khSeen /\ ~NewTracker.midJoin
  BY DEF NewTracker
<1>. QED
  BY <1>1, <1>2, <1>3, <1>4
  DEF WellFormed, OpenOK, RecentOK, InOrder, JoinAhead

\* The tracker remembers a suffix of the windows it has closed.
LEMMA LastOfSuffix ==
  ASSUME NEW s \in Seq(Window), NEW n \in Nat \ {0}
  PROVE  /\ LastOf(s, n) \in Seq(Window)
         /\ \E d \in Nat : /\ Len(LastOf(s, n)) = Len(s) - d
                           /\ \A i \in 1 .. Len(LastOf(s, n)) :
                                 /\ i + d \in 1 .. Len(s)
                                 /\ LastOf(s, n)[i] = s[i + d]
<1>1. CASE Len(s) <= n
  <2>1. LastOf(s, n) = s
    BY <1>1 DEF LastOf
  <2>. QED
    <3>1. /\ Len(LastOf(s, n)) = Len(s) - 0
          /\ \A i \in 1 .. Len(LastOf(s, n)) :
                i + 0 \in 1 .. Len(s) /\ LastOf(s, n)[i] = s[i + 0]
      BY <2>1
    <3>. QED BY <2>1, <3>1
<1>2. CASE Len(s) > n
  <2> DEFINE d == Len(s) - n
  <2>1. LastOf(s, n) = SubSeq(s, d + 1, Len(s))
    BY <1>2 DEF LastOf
  <2>2. d \in Nat /\ d + 1 \in Nat /\ Len(s) \in Nat
    BY <1>2
  <2>3. /\ Len(LastOf(s, n)) = Len(s) - d
        /\ \A i \in 1 .. Len(LastOf(s, n)) :
              i + d \in 1 .. Len(s) /\ LastOf(s, n)[i] = s[i + d]
    BY <1>2, <2>1, <2>2
  <2>4. LastOf(s, n) \in Seq(Window)
    BY <1>2, <2>1, <2>2
  <2>. QED BY <2>2, <2>3, <2>4
<1>. QED BY <1>1, <1>2

\* Nothing in WellFormed is lost when time passes.
LEMMA LaterWellFormed ==
  ASSUME NEW t, NEW a \in Nat, NEW b \in Nat, a <= b, WellFormed(t, a)
  PROVE  WellFormed(t, b)
<1> USE DEF WellFormed
<1>1. OpenOK(t, b)
  BY DEF OpenOK, Tracker, Window
<1>2. RecentOK(t, b)
  <2> SUFFICES ASSUME NEW i \in DOMAIN t.recent
               PROVE  t.recent[i].closePos <= b
    BY DEF RecentOK
  <2>1. t.recent[i] \in Window
    BY DEF Tracker
  <2>. QED BY <2>1 DEF RecentOK, Window
<1>3. JoinAhead(t, b)
  BY DEF JoinAhead, Tracker
<1>. QED BY <1>1, <1>2, <1>3

-----------------------------------------------------------------------------
(* Opening and closing a window.                                           *)

LEMMA OpenWindowWellFormed ==
  ASSUME NEW t, NEW upto \in Nat, WellFormed(t, upto), ~IsOpen(t),
         NEW pos \in Nat, pos <= upto,
         \A i \in DOMAIN t.recent : t.recent[i].closePos <= pos,
         NEW target \in Target, NEW ok \in BOOLEAN, NEW mid \in BOOLEAN
  PROVE  WellFormed(OpenWindow(t, pos, target, ok, mid), upto)
<1> DEFINE u == OpenWindow(t, pos, target, ok, mid)
           w == [NoWindow EXCEPT !.id = t.nextID, !.openPos = pos,
                                 !.target = target, !.targetOK = ok,
                                 !.midJoin = mid]
<1> USE DEF WellFormed
<1>1. w \in Window
  BY NoWindowType DEF Window, Tracker
<1>2. /\ w.id = t.nextID /\ w.openPos = pos
      /\ ~w.closed /\ w.cause = "none"
  BY NoWindowType DEF Window, NoWindow
<1>3. /\ u.open = w /\ u.recent = t.recent /\ u.nextID = t.nextID + 1
      /\ ~u.midJoin /\ u.khSeen = t.khSeen /\ u.khOnPos = t.khOnPos
  BY DEF OpenWindow, Tracker
<1>4. u \in Tracker
  <2>1. t.nextID + 1 \in Nat \ {0} /\ Append(t.changed, t.nextID) \in Seq(Nat)
    BY DEF Tracker
  <2>. HIDE DEF w
  <2>2. u = [t EXCEPT !.open = w, !.nextID = t.nextID + 1, !.midJoin = FALSE,
                      !.changed = Append(t.changed, t.nextID)]
    BY DEF OpenWindow, w
  <2>. QED BY <1>1, <2>1, <2>2 DEF Tracker
<1>5. t.nextID \in Nat \ {0}
  BY DEF Tracker
<1> HIDE DEF u, w
<1>6. OpenOK(u, upto)
  BY <1>2, <1>3, <1>5 DEF OpenOK
<1>7. RecentOK(u, upto)
  BY <1>3, <1>5 DEF RecentOK
<1>8. InOrder(u)
  BY <1>2, <1>3, <1>5 DEF InOrder, RecentOK
<1>9. JoinAhead(u, upto)
  BY <1>3 DEF JoinAhead
<1>. QED BY <1>4, <1>6, <1>7, <1>8, <1>9 DEF u

LEMMA CloseOpenWellFormed ==
  ASSUME NEW t, NEW upto \in Nat, WellFormed(t, upto), IsOpen(t),
         NEW pos \in Nat, pos <= upto, t.open.openPos <= pos,
         NEW cause \in Causes
  PROVE  WellFormed(CloseOpen(t, pos, cause), upto)
<1> DEFINE u == CloseOpen(t, pos, cause)
           w == ClosedWindow(t.open, pos, cause)
           all == Append(t.recent, w)
<1> USE DEF WellFormed
<1>1. t.open \in Window /\ t.recent \in Seq(Window) /\ t.nextID \in Nat \ {0}
  BY DEF Tracker
<1>2. w \in Window
  BY <1>1 DEF ClosedWindow, Window
<1>3. /\ w.id = t.open.id /\ w.openPos = t.open.openPos
      /\ w.closePos = pos /\ w.closed
  BY <1>1 DEF ClosedWindow, Window
<1>4. all \in Seq(Window)
  BY <1>1, <1>2
<1>5. Keep \in Nat \ {0}
  BY WindowConstants
<1>6. u.recent \in Seq(Window) /\ u.recent = LastOf(all, Keep)
  <2>1. u.recent = LastOf(all, Keep)
    BY DEF CloseOpen, Tracker
  <2>. QED BY <2>1, <1>4, <1>5, LastOfSuffix
<1>7. u \in Tracker
  <2>1. t.open.id \in Nat
    BY <1>1 DEF Window
  <2>2. Append(t.changed, t.open.id) \in Seq(Nat)
    BY <2>1 DEF Tracker
  <2>3. u = [t EXCEPT !.recent = u.recent, !.open = NoWindow, !.khZeroAt = -1,
                      !.midJoin = FALSE, !.changed = Append(t.changed, t.open.id)]
    BY <1>6 DEF CloseOpen
  <2>4. -1 \in Nat \cup {-1}
    OBVIOUS
  <2>. HIDE DEF u
  <2>. QED BY <2>2, <2>3, <2>4, <1>6, NoWindowType, ZenonT(40) DEF Tracker
<1>8. /\ u.open = NoWindow /\ u.nextID = t.nextID /\ ~u.midJoin
      /\ u.khSeen = t.khSeen /\ u.khOnPos = t.khOnPos
  BY DEF CloseOpen, Tracker
<1>9. ~IsOpen(u)
  BY <1>8 DEF IsOpen, NoWindow
<1>10. PICK d \in Nat : /\ Len(u.recent) = Len(all) - d
                         /\ \A i \in 1 .. Len(u.recent) :
                               i + d \in 1 .. Len(all) /\ u.recent[i] = all[i + d]
  <2> DEFINE rest == LastOf(all, Keep)
  <2>. HIDE DEF u, all
  <2>1. \E d \in Nat : /\ Len(LastOf(all, Keep)) = Len(all) - d
                      /\ \A i \in 1 .. Len(LastOf(all, Keep)) :
                            /\ i + d \in 1 .. Len(all)
                            /\ LastOf(all, Keep)[i] = all[i + d]
    BY <1>4, <1>5, LastOfSuffix
  <2>2. u.recent = rest
    BY <1>6
  <2>. HIDE DEF rest
  <2>3. \E d \in Nat : /\ Len(rest) = Len(all) - d
                      /\ \A i \in 1 .. Len(rest) :
                            i + d \in 1 .. Len(all) /\ rest[i] = all[i + d]
    BY <2>1 DEF rest
  <2>. QED BY <2>2, <2>3
<1>11. /\ DOMAIN u.recent = 1 .. Len(u.recent)
       /\ DOMAIN t.recent = 1 .. Len(t.recent)
       /\ Len(all) = Len(t.recent) + 1
       /\ Len(t.recent) \in Nat
       /\ \A i \in 1 .. Len(t.recent) : all[i] = t.recent[i]
       /\ all[Len(t.recent) + 1] = w
  BY <1>1, <1>2, <1>6
<1>12. \A i \in 1 .. Len(t.recent) : t.recent[i] \in Window
  BY <1>1
<1> HIDE DEF u, w, all
<1>13. /\ \A i \in 1 .. Len(all) :
             /\ all[i].closed /\ all[i].openPos <= all[i].closePos
             /\ all[i].closePos <= upto /\ all[i].id \in 1 .. t.nextID - 1
       /\ \A i, j \in 1 .. Len(all) :
             i < j => /\ all[i].closePos <= all[j].openPos
                      /\ all[i].id < all[j].id
  <2>1. w.closed /\ w.openPos <= w.closePos /\ w.closePos <= upto
        /\ w.id \in 1 .. t.nextID - 1
    BY <1>1, <1>3 DEF OpenOK, Window, IsOpen
  <2>2. \A i \in 1 .. Len(all) : i \in 1 .. Len(t.recent) \/ i = Len(t.recent) + 1
    BY <1>11
  <2>3. \A i \in 1 .. Len(t.recent) :
           /\ t.recent[i].closed /\ t.recent[i].openPos <= t.recent[i].closePos
           /\ t.recent[i].closePos <= upto /\ t.recent[i].id \in 1 .. t.nextID - 1
           /\ t.recent[i].closePos <= w.openPos /\ t.recent[i].id < w.id
    BY <1>3, <1>11 DEF RecentOK, InOrder
  <2>4. \A i, j \in 1 .. Len(t.recent) :
           i < j => /\ t.recent[i].closePos <= t.recent[j].openPos
                    /\ t.recent[i].id < t.recent[j].id
    BY <1>11 DEF InOrder
  <2>5. \A i, j \in 1 .. Len(all) : i < j => i \in 1 .. Len(t.recent)
    BY <1>11
  <2>6. ASSUME NEW i \in 1 .. Len(all)
        PROVE  /\ all[i].closed /\ all[i].openPos <= all[i].closePos
               /\ all[i].closePos <= upto /\ all[i].id \in 1 .. t.nextID - 1
    <3>1. CASE i \in 1 .. Len(t.recent)
      BY <3>1, <2>3, <1>11
    <3>2. CASE i = Len(t.recent) + 1
      BY <3>2, <2>1, <1>11
    <3>. QED BY <3>1, <3>2, <2>2
  <2>7. ASSUME NEW i \in 1 .. Len(all), NEW j \in 1 .. Len(all), i < j
        PROVE  /\ all[i].closePos <= all[j].openPos
               /\ all[i].id < all[j].id
    <3>1. i \in 1 .. Len(t.recent) /\ all[i] = t.recent[i]
      BY <2>5, <2>7, <1>11
    <3>2. CASE j \in 1 .. Len(t.recent)
      BY <3>1, <3>2, <2>4, <2>7, <1>11
    <3>3. CASE j = Len(t.recent) + 1
      BY <3>1, <3>3, <2>3, <1>11
    <3>. QED BY <3>2, <3>3, <2>2
  <2>. QED BY <2>6, <2>7
<1>14. OpenOK(u, upto)
  BY <1>9 DEF OpenOK
<1>15. RecentOK(u, upto)
  BY <1>8, <1>10, <1>11, <1>13 DEF RecentOK
<1>16. InOrder(u)
  <2> SUFFICES ASSUME NEW i \in 1 .. Len(u.recent), NEW j \in 1 .. Len(u.recent),
                      i < j
               PROVE  /\ u.recent[i].closePos <= u.recent[j].openPos
                      /\ u.recent[i].id < u.recent[j].id
    BY <1>9, <1>11 DEF InOrder
  <2>1. /\ i + d \in 1 .. Len(all) /\ j + d \in 1 .. Len(all)
        /\ u.recent[i] = all[i + d] /\ u.recent[j] = all[j + d]
    BY <1>10
  <2>2. i + d < j + d
    OBVIOUS
  <2>. QED BY <2>1, <2>2, <1>13
<1>17. JoinAhead(u, upto)
  BY <1>8 DEF JoinAhead
<1>. QED BY <1>7, <1>14, <1>15, <1>16, <1>17 DEF u

-----------------------------------------------------------------------------
(* The on-air flag.                                                        *)

LEMMA FirstHeaderWellFormed ==
  ASSUME NEW t, NEW pos \in Nat, NEW m \in Message, WellFormed(t, pos)
  PROVE  /\ WellFormed(FirstHeader(t, pos, m), pos)
         /\ FirstHeader(t, pos, m).khSeen
<1> DEFINE u == FirstHeader(t, pos, m)
<1> USE DEF WellFormed
<1>1. OnAir(m) \in BOOLEAN
  BY DEF OnAir
<1>2. CASE t.khSeen
  BY <1>2 DEF FirstHeader
<1>3. CASE ~t.khSeen
  <2>1. u = [t EXCEPT !.khSeen = TRUE, !.midJoin = OnAir(m), !.khOnPos = pos]
    BY <1>3 DEF FirstHeader
  <2>2. u \in Tracker
    BY <1>1, <2>1 DEF Tracker
  <2>3. /\ u.open = t.open /\ u.recent = t.recent /\ u.nextID = t.nextID
        /\ u.khSeen = TRUE /\ u.khOnPos = pos
    BY <2>1 DEF Tracker
  <2> HIDE DEF u
  <2>4. OpenOK(u, pos)
    BY <2>3 DEF OpenOK, IsOpen
  <2>5. RecentOK(u, pos)
    BY <2>3 DEF RecentOK
  <2>6. InOrder(u)
    BY <2>3 DEF InOrder, IsOpen
  <2>7. JoinAhead(u, pos)
    BY <2>3 DEF JoinAhead, RecentOK
  <2>. QED BY <2>2, <2>3, <2>4, <2>5, <2>6, <2>7 DEF u
<1>. QED BY <1>2, <1>3

\* Fields the order of the windows does not depend on.
LEMMA OtherFieldsWellFormed ==
  ASSUME NEW t, NEW u \in Tracker, NEW upto \in Nat, WellFormed(t, upto),
         u.open = t.open, u.recent = t.recent, u.nextID = t.nextID,
         \/ u.midJoin = t.midJoin /\ u.khSeen = t.khSeen
         \/ u.midJoin = FALSE /\ u.khSeen \in {t.khSeen, FALSE},
         u.khOnPos = t.khOnPos
  PROVE  WellFormed(u, upto)
<1> USE DEF WellFormed
<1>1. OpenOK(u, upto)
  BY DEF OpenOK, IsOpen
<1>2. RecentOK(u, upto)
  BY DEF RecentOK
<1>3. InOrder(u)
  BY DEF InOrder, IsOpen
<1>4. JoinAhead(u, upto)
  BY DEF JoinAhead
<1>. QED BY <1>1, <1>2, <1>3, <1>4

LEMMA JoinUnderWayWellFormed ==
  ASSUME NEW t, NEW pos \in Nat, NEW m \in Message, WellFormed(t, pos), t.khSeen
  PROVE  WellFormed(JoinUnderWay(t, pos, m), pos)
<1>1. CASE ~OnAir(m)
  <2> DEFINE u == [t EXCEPT !.midJoin = FALSE]
  <2>1. u \in Tracker /\ u.open = t.open /\ u.recent = t.recent
        /\ u.nextID = t.nextID /\ u.midJoin = FALSE /\ u.khSeen = t.khSeen
        /\ u.khOnPos = t.khOnPos
    BY DEF WellFormed, Tracker
  <2>2. JoinUnderWay(t, pos, m) = u
    BY <1>1 DEF JoinUnderWay
  <2> HIDE DEF u
  <2>. QED BY <2>1, <2>2, OtherFieldsWellFormed
<1>2. CASE OnAir(m) /\ t.midJoin /\ ~IsOpen(t) /\ pos - t.khOnPos >= MidJoinDelay
  <2>1. /\ t.khOnPos \in Nat /\ t.khOnPos <= pos
        /\ \A i \in DOMAIN t.recent : t.recent[i].closePos <= t.khOnPos
    BY <1>2 DEF WellFormed, JoinAhead, Tracker
  <2>2. NoTarget \in Target
    BY DEF Target
  <2>3. JoinUnderWay(t, pos, m) = OpenWindow(t, t.khOnPos, NoTarget, FALSE, TRUE)
    BY <1>2 DEF JoinUnderWay
  <2>. QED BY <1>2, <2>1, <2>2, <2>3, OpenWindowWellFormed
<1>3. CASE OnAir(m) /\ ~(t.midJoin /\ ~IsOpen(t) /\ pos - t.khOnPos >= MidJoinDelay)
  BY <1>3 DEF JoinUnderWay
<1>. QED BY <1>1, <1>2, <1>3

LEMMA HoldOffWellFormed ==
  ASSUME NEW t, NEW pos \in Nat, NEW m \in Message, WellFormed(t, pos)
  PROVE  WellFormed(HoldOff(t, pos, m), pos)
<1> DEFINE at(z) == [t EXCEPT !.khZeroAt = z]
<1>1. ASSUME NEW z \in Nat \cup {-1}
      PROVE  WellFormed(at(z), pos)
  <2>1. at(z) \in Tracker /\ at(z).open = t.open /\ at(z).recent = t.recent
        /\ at(z).nextID = t.nextID /\ at(z).midJoin = t.midJoin
        /\ at(z).khSeen = t.khSeen /\ at(z).khOnPos = t.khOnPos
    BY DEF WellFormed, Tracker
  <2> HIDE DEF at
  <2>. QED BY <2>1, OtherFieldsWellFormed
<1>2. -1 \in Nat \cup {-1} /\ pos \in Nat \cup {-1}
  OBVIOUS
<1>3. CASE m.bcast \/ ~IsOpen(t)
  BY <1>1, <1>2, <1>3 DEF HoldOff
<1>4. CASE ~(m.bcast \/ ~IsOpen(t)) /\ t.khZeroAt < 0
  BY <1>1, <1>2, <1>4 DEF HoldOff
<1>5. CASE /\ ~(m.bcast \/ ~IsOpen(t)) /\ ~(t.khZeroAt < 0)
           /\ pos - t.khZeroAt >= KHCloseDelay
  <2>1. t.open.openPos <= pos
    BY <1>5 DEF WellFormed, OpenOK
  <2>2. HoldOff(t, pos, m) = CloseOpen(t, pos, "kh")
    BY <1>5 DEF HoldOff
  <2>3. WellFormed(CloseOpen(t, pos, "kh"), pos)
    BY <1>5, <2>1, CloseOpenWellFormed DEF Causes
  <2>. QED BY <2>2, <2>3
<1>6. CASE /\ ~(m.bcast \/ ~IsOpen(t)) /\ ~(t.khZeroAt < 0)
           /\ ~(pos - t.khZeroAt >= KHCloseDelay)
  BY <1>6 DEF HoldOff
<1>. QED BY <1>3, <1>4, <1>5, <1>6

LEMMA OnKHWellFormed ==
  ASSUME NEW t, NEW pos \in Nat, NEW m \in Message, WellFormed(t, pos)
  PROVE  WellFormed(OnKH(t, pos, m), pos)
<1>1. FirstHeader(t, pos, m).khSeen /\ WellFormed(FirstHeader(t, pos, m), pos)
  BY FirstHeaderWellFormed
<1>. DEFINE seen == FirstHeader(t, pos, m)
            joined == JoinUnderWay(seen, pos, m)
<1>2. WellFormed(joined, pos)
  BY <1>1, JoinUnderWayWellFormed
<1>3. WellFormed(HoldOff(joined, pos, m), pos)
  <2> HIDE DEF joined
  <2>. QED BY <1>2, HoldOffWellFormed
<1>. QED BY <1>3 DEF OnKH

-----------------------------------------------------------------------------
(* The operations.                                                         *)

LEMMA NoteIDBitsWellFormed ==
  ASSUME NEW t, NEW upto \in Nat, NEW m \in Message, WellFormed(t, upto)
  PROVE  WellFormed(NoteIDBits([t EXCEPT !.changed = <<>>], m), upto)
<1> DEFINE f == [t EXCEPT !.changed = <<>>]
           u == NoteIDBits(f, m)
<1>1. m.bits \in Nat
  BY WindowConstants DEF Message
<1>2. u \in Tracker /\ u.open = t.open /\ u.recent = t.recent
      /\ u.nextID = t.nextID /\ u.midJoin = t.midJoin
      /\ u.khSeen = t.khSeen /\ u.khOnPos = t.khOnPos
  <2>0. <<>> \in Seq(Nat)
    OBVIOUS
  <2>1. f \in Tracker /\ f.open = t.open /\ f.recent = t.recent
        /\ f.nextID = t.nextID /\ f.midJoin = t.midJoin
        /\ f.khSeen = t.khSeen /\ f.khOnPos = t.khOnPos
    BY <2>0 DEF WellFormed, Tracker
  <2> DEFINE n == 8 + m.bits
  <2>2. n \in Nat
    BY <1>1
  <2>3. u = f \/ u = [f EXCEPT !.idBits = n]
    BY DEF NoteIDBits
  <2> HIDE DEF f, u, n
  <2>4. CASE u = f
    BY <2>1, <2>4
  <2>5. CASE u = [f EXCEPT !.idBits = n]
    BY <2>1, <2>2, <2>5 DEF Tracker
  <2>. QED BY <2>3, <2>4, <2>5
<1> HIDE DEF u
<1>. QED BY <1>2, OtherFieldsWellFormed DEF u

LEMMA RefreshTargetWellFormed ==
  ASSUME NEW t, NEW upto \in Nat, NEW m \in Message, WellFormed(t, upto)
  PROVE  WellFormed(RefreshTarget(t, m), upto)
<1> DEFINE target == BroadcastTarget(t, m)
           w == [t.open EXCEPT !.target = target, !.targetOK = TRUE]
<1>1. target \in Target
  BY DEF BroadcastTarget, Target, Message, WellFormed, Tracker
<1>2. w \in Window /\ w.id = t.open.id /\ w.openPos = t.open.openPos
      /\ w.closed = t.open.closed /\ w.cause = t.open.cause
  <2>1. t.open \in Window
    BY DEF WellFormed, Tracker
  <2> HIDE DEF target
  <2>. QED BY <1>1, <2>1 DEF Window
<1> HIDE DEF w
<1>3. ASSUME NEW up \in Seq(Nat)
      PROVE  WellFormed([t EXCEPT !.open = w, !.updated = up], upto)
  <2> DEFINE u == [t EXCEPT !.open = w, !.updated = up]
  <2>1. u \in Tracker /\ u.open = w /\ u.recent = t.recent
        /\ u.nextID = t.nextID /\ u.midJoin = t.midJoin
        /\ u.khSeen = t.khSeen /\ u.khOnPos = t.khOnPos
    BY <1>2 DEF WellFormed, Tracker
  <2> HIDE DEF u
  <2>2. OpenOK(u, upto)
    BY <1>2, <2>1 DEF WellFormed, OpenOK, IsOpen
  <2>3. RecentOK(u, upto)
    BY <2>1 DEF WellFormed, RecentOK
  <2>4. InOrder(u)
    BY <1>2, <2>1 DEF WellFormed, InOrder, IsOpen
  <2>5. JoinAhead(u, upto)
    BY <2>1 DEF WellFormed, JoinAhead
  <2>6. WellFormed(u, upto)
    BY <2>1, <2>2, <2>3, <2>4, <2>5 DEF WellFormed
  <2>. QED BY <2>6 DEF u
<1>4. CASE ~IsOpen(t) \/ t.open.targetOK \/ ~m.crc
  BY <1>4 DEF RefreshTarget
<1>5. CASE ~(~IsOpen(t) \/ t.open.targetOK \/ ~m.crc)
  <2>1. t.updated \in Seq(Nat) /\ Append(t.updated, t.open.id) \in Seq(Nat)
    BY DEF WellFormed, Tracker, Window
  <2>2. [t EXCEPT !.open = w, !.updated = t.updated] = [t EXCEPT !.open = w]
    BY DEF WellFormed, Tracker
  <2> DEFINE settled == [t EXCEPT !.open = w]
             noted == [settled EXCEPT !.updated = Append(settled.updated, t.open.id)]
  <2>3. RefreshTarget(t, m) = IF t.open.target = target THEN settled ELSE noted
    BY <1>5 DEF RefreshTarget, w
  <2>4. settled.updated = t.updated
    BY DEF WellFormed, Tracker
  <2>5. noted = [t EXCEPT !.open = w, !.updated = Append(t.updated, t.open.id)]
    BY <2>4 DEF WellFormed, Tracker
  <2>6. WellFormed(settled, upto)
    BY <1>3, <2>1, <2>2
  <2>7. WellFormed(noted, upto)
    BY <1>3, <2>1, <2>5
  <2> HIDE DEF settled, noted, target
  <2>. QED BY <2>3, <2>6, <2>7
<1>. QED BY <1>4, <1>5

LEMMA NoteRepeatWellFormed ==
  ASSUME NEW t, NEW pos \in Nat, NEW m \in Message, WellFormed(t, pos),
         m.type \in Confirmable
  PROVE  WellFormed(NoteRepeat(t, pos, m), pos)
<1>1. CASE m.crc \/ t.strict
  BY <1>1 DEF NoteRepeat
<1>2. CASE ~(m.crc \/ t.strict)
  <2> DEFINE h == [t.hist EXCEPT ![m.type] = Repeats(t, pos, m)]
             u == [t EXCEPT !.hist = h]
  <2>1. h \in [Confirmable -> SUBSET Nat]
    <3>1. t.hist \in [Confirmable -> SUBSET Nat]
      BY DEF WellFormed, Tracker
    <3>2. Repeats(t, pos, m) \in SUBSET Nat
      BY <3>1 DEF Repeats
    <3>. QED BY <3>1, <3>2
  <2>2. NoteRepeat(t, pos, m) = u
    BY <1>2 DEF NoteRepeat
  <2> HIDE DEF h
  <2>3. u \in Tracker /\ u.open = t.open /\ u.recent = t.recent
        /\ u.nextID = t.nextID /\ u.midJoin = t.midJoin
        /\ u.khSeen = t.khSeen /\ u.khOnPos = t.khOnPos
    BY <2>1 DEF WellFormed, Tracker
  <2> HIDE DEF u
  <2>. QED BY <2>2, <2>3, OtherFieldsWellFormed
<1>. QED BY <1>1, <1>2

LEMMA StartOrReleaseWellFormed ==
  ASSUME NEW t, NEW pos \in Nat, NEW m \in Message, WellFormed(t, pos)
  PROVE  WellFormed(StartOrRelease(t, pos, m), pos)
<1> DEFINE cut == IF IsNewCall(t, m) THEN CloseOpen(t, pos, "newCall") ELSE t
<1>1. ASSUME NEW u, WellFormed(u, pos), IsOpen(u), NEW cause \in Causes
      PROVE  WellFormed(CloseOpen(u, pos, cause), pos)
  <2>1. u.open.openPos <= pos
    BY <1>1 DEF WellFormed, OpenOK
  <2>. QED BY <1>1, <2>1, CloseOpenWellFormed
<1>2. WellFormed(cut, pos)
  <2>1. IsNewCall(t, m) => IsOpen(t)
    BY DEF IsNewCall
  <2>. QED BY <1>1, <2>1 DEF Causes
<1>3. StartOrRelease(t, pos, m) =
        CASE m.type \in Starts /\ ~IsOpen(cut) ->
               OpenWindow(cut, pos, BroadcastTarget(cut, m), m.crc, FALSE)
          [] m.type = "release" /\ IsOpen(cut) -> CloseOpen(cut, pos, "release")
          [] OTHER -> cut
  BY DEF StartOrRelease
<1> HIDE DEF cut
<1>4. CASE m.type \in Starts /\ ~IsOpen(cut)
  <2>1. BroadcastTarget(cut, m) \in Target
    BY <1>2 DEF BroadcastTarget, Target, Message, WellFormed, Tracker
  <2>2. \A i \in DOMAIN cut.recent : cut.recent[i].closePos <= pos
    BY <1>2 DEF WellFormed, RecentOK
  <2>3. m.crc \in BOOLEAN
    BY DEF Message
  <2> DEFINE target == BroadcastTarget(cut, m)
             crc == m.crc
  <2>4. StartOrRelease(t, pos, m) = OpenWindow(cut, pos, target, crc, FALSE)
    BY <1>3, <1>4 DEF Starts
  <2>5. target \in Target /\ crc \in BOOLEAN
    BY <2>1, <2>3
  <2> HIDE DEF target, crc
  <2>6. WellFormed(OpenWindow(cut, pos, target, crc, FALSE), pos)
    <3>1. ASSUME NEW p \in Nat, p <= pos,
                 \A i \in DOMAIN cut.recent : cut.recent[i].closePos <= p
          PROVE  WellFormed(OpenWindow(cut, p, target, crc, FALSE), pos)
      BY <1>2, <1>4, <2>5, <3>1, OpenWindowWellFormed
    <3>2. \A p \in Nat : p = pos => WellFormed(OpenWindow(cut, p, target, crc, FALSE), pos)
      <4> SUFFICES ASSUME NEW p \in Nat, p = pos
                   PROVE  WellFormed(OpenWindow(cut, p, target, crc, FALSE), pos)
        OBVIOUS
      <4>1. p <= pos /\ \A i \in DOMAIN cut.recent : cut.recent[i].closePos <= p
        BY <2>2
      <4>. QED BY <3>1, <4>1
    <3>. QED BY <3>2
  <2>. QED BY <2>4, <2>6
<1>5. CASE m.type = "release" /\ IsOpen(cut)
  <2>1. StartOrRelease(t, pos, m) = CloseOpen(cut, pos, "release")
    BY <1>3, <1>5 DEF Starts
  <2>. QED BY <1>1, <1>2, <1>5, <2>1 DEF Causes
<1>6. CASE /\ ~(m.type \in Starts /\ ~IsOpen(cut))
           /\ ~(m.type = "release" /\ IsOpen(cut))
  <2>1. StartOrRelease(t, pos, m) = cut
    BY <1>3, <1>6
  <2>. QED BY <1>2, <2>1
<1>. QED BY <1>4, <1>5, <1>6

LEMMA OnControlWellFormed ==
  ASSUME NEW t, NEW pos \in Nat, NEW m \in Message, WellFormed(t, pos)
  PROVE  WellFormed(OnControl(t, pos, m), pos)
<1> DEFINE fresh == NoteIDBits([t EXCEPT !.changed = <<>>], m)
           keyed == IF m.crc /\ HasHeader(m) THEN OnKH(fresh, pos, m) ELSE fresh
           aimed == IF m.type \in Starts THEN RefreshTarget(keyed, m) ELSE keyed
           noted == NoteRepeat(aimed, pos, m)
<1>1. WellFormed(fresh, pos)
  BY NoteIDBitsWellFormed
<1> HIDE DEF fresh
<1>2. WellFormed(keyed, pos)
  BY <1>1, OnKHWellFormed
<1> HIDE DEF keyed
<1>3. WellFormed(aimed, pos)
  BY <1>2, RefreshTargetWellFormed
<1> HIDE DEF aimed
<1>4. m.type \in Confirmable => WellFormed(noted, pos)
  BY <1>3, NoteRepeatWellFormed
<1> HIDE DEF noted
<1>5. m.type \in Confirmable => WellFormed(StartOrRelease(noted, pos, m), pos)
  BY <1>4, StartOrReleaseWellFormed
<1>6. OnControl(t, pos, m) =
        IF m.type \notin Confirmable THEN keyed
        ELSE IF Confirmed(noted, m) THEN StartOrRelease(noted, pos, m)
        ELSE noted
  BY DEF OnControl, fresh, keyed, aimed, noted
<1>. QED BY <1>2, <1>4, <1>5, <1>6

LEMMA ArmMidJoinWellFormed ==
  ASSUME NEW t, NEW upto \in Nat, WellFormed(t, upto)
  PROVE  WellFormed(ArmMidJoin(t), upto)
<1> DEFINE u == ArmMidJoin(t)
<1>1. u \in Tracker /\ u.open = t.open /\ u.recent = t.recent
      /\ u.nextID = t.nextID /\ u.midJoin = FALSE /\ u.khSeen = FALSE
      /\ u.khOnPos = t.khOnPos
  BY DEF ArmMidJoin, WellFormed, Tracker
<1> HIDE DEF u
<1>. QED BY <1>1, OtherFieldsWellFormed DEF u

LEMMA AbandonWellFormed ==
  ASSUME NEW t, NEW pos \in Nat, WellFormed(t, pos)
  PROVE  WellFormed(Abandon(t, pos), pos)
<1> DEFINE arm == ArmMidJoin(t)
           armed == [arm EXCEPT !.hist = NewTracker.hist, !.changed = <<>>]
<1>1. WellFormed(arm, pos)
  BY ArmMidJoinWellFormed
<1>2. arm.open = t.open
  BY DEF ArmMidJoin, WellFormed, Tracker
<1> HIDE DEF arm
<1>3. armed \in Tracker /\ armed.open = arm.open /\ armed.recent = arm.recent
      /\ armed.nextID = arm.nextID /\ armed.midJoin = arm.midJoin
      /\ armed.khSeen = arm.khSeen /\ armed.khOnPos = arm.khOnPos
  <2> DEFINE h == NewTracker.hist
  <2>1. h \in [Confirmable -> SUBSET Nat] /\ <<>> \in Seq(Nat)
    BY DEF NewTracker
  <2> HIDE DEF h
  <2>2. armed = [arm EXCEPT !.hist = h, !.changed = <<>>]
    BY DEF h
  <2> HIDE DEF armed
  <2>. QED BY <1>1, <2>1, <2>2 DEF WellFormed, Tracker
<1> HIDE DEF armed
<1>4. WellFormed(armed, pos)
  BY <1>1, <1>3, OtherFieldsWellFormed
<1>5. IsOpen(t) => /\ IsOpen(armed) /\ armed.open.openPos <= pos
                   /\ ~(pos < t.open.openPos)
  BY <1>2, <1>3, SMTT(30) DEF IsOpen, WellFormed, OpenOK, Tracker, Window
<1>6. Abandon(t, pos) = IF IsOpen(t) THEN CloseOpen(armed, pos, "abandoned")
                        ELSE armed
  BY <1>5 DEF Abandon, arm, armed
<1>7. IsOpen(t) => WellFormed(CloseOpen(armed, pos, "abandoned"), pos)
  BY <1>4, <1>5, CloseOpenWellFormed DEF Causes
<1>. QED BY <1>4, <1>6, <1>7

\* What decodeControl takes away is no part of the order of the windows.
LEMMA TakenWellFormed ==
  ASSUME NEW t, NEW upto \in Nat, WellFormed(t, upto)
  PROVE  WellFormed(Taken(t), upto)
<1> DEFINE u == Taken(t)
<1>1. <<>> \in Seq(Nat)
  OBVIOUS
<1>2. u \in Tracker /\ u.open = t.open /\ u.recent = t.recent
      /\ u.nextID = t.nextID /\ u.midJoin = t.midJoin
      /\ u.khSeen = t.khSeen /\ u.khOnPos = t.khOnPos
  BY <1>1 DEF Taken, WellFormed, Tracker
<1> HIDE DEF u
<1>. QED BY <1>2, OtherFieldsWellFormed DEF u

-----------------------------------------------------------------------------
(* The state machine.                                                      *)

IInv == now \in Nat /\ WellFormed(tracker, now)

LEMMA InitIInv == Init => IInv
BY NewTrackerWellFormed DEF Init, IInv

LEMMA NextIInv == IInv /\ [Next]_vars => IInv'
<1> SUFFICES ASSUME IInv, [Next]_vars PROVE IInv'
  OBVIOUS
<1> USE DEF IInv
<1>1. ASSUME NEW m \in Messages, Control(m) PROVE IInv'
  <2>1. PICK gap \in Gaps :
           /\ tracker' = Taken(OnControl(tracker, now + gap, m))
           /\ now' = now + gap
    BY <1>1 DEF Control
  <2>2. m \in Message /\ now + gap \in Nat /\ now <= now + gap
    BY AirConstants
  <2>3. WellFormed(tracker, now + gap)
    BY <2>2, LaterWellFormed
  <2>4. WellFormed(OnControl(tracker, now + gap, m), now + gap)
    BY <2>2, <2>3, OnControlWellFormed
  <2>5. WellFormed(Taken(OnControl(tracker, now + gap, m)), now + gap)
    BY <2>2, <2>4, TakenWellFormed
  <2>. QED BY <2>1, <2>2, <2>5
<1>2. ASSUME Reset PROVE IInv'
  <2>1. PICK gap \in Gaps \cup {0} :
           /\ tracker' = Taken(Abandon(tracker, now + gap))
           /\ now' = now + gap
    BY <1>2 DEF Reset
  <2>2. now + gap \in Nat /\ now <= now + gap
    BY AirConstants
  <2>3. WellFormed(tracker, now + gap)
    BY <2>2, LaterWellFormed
  <2>4. WellFormed(Abandon(tracker, now + gap), now + gap)
    BY <2>2, <2>3, AbandonWellFormed
  <2>5. WellFormed(Taken(Abandon(tracker, now + gap)), now + gap)
    BY <2>2, <2>4, TakenWellFormed
  <2>. QED BY <2>1, <2>2, <2>5
<1>3. ASSUME SignalLoss PROVE IInv'
  BY <1>3, ArmMidJoinWellFormed DEF SignalLoss
<1>4. ASSUME SetStrict PROVE IInv'
  <2> DEFINE u == [tracker EXCEPT !.strict = ~@]
  <2>1. u \in Tracker /\ u.open = tracker.open /\ u.recent = tracker.recent
        /\ u.nextID = tracker.nextID /\ u.midJoin = tracker.midJoin
        /\ u.khSeen = tracker.khSeen /\ u.khOnPos = tracker.khOnPos
    BY DEF WellFormed, Tracker
  <2>2. tracker' = u /\ now' = now
    BY <1>4 DEF SetStrict
  <2> HIDE DEF u
  <2>3. WellFormed(u, now)
    BY <2>1, OtherFieldsWellFormed
  <2>. QED BY <2>2, <2>3
<1>5. ASSUME UNCHANGED vars PROVE IInv'
  BY <1>5 DEF vars
<1>. QED BY <1>1, <1>2, <1>3, <1>4, <1>5 DEF Next

\* The windows of the tracker stay in order (the inductive invariant): every
\* closed one ends before the next begins, ids increase, and a mid-join still
\* to come (broadcast.go onKH) will open after all of them.
THEOREM WellFormedAlways == Spec => []TrackerWellFormed
<1>1. IInv => TrackerWellFormed
  BY DEF IInv, TrackerWellFormed
<1>. QED BY InitIInv, NextIInv, <1>1, PTL DEF Spec

\* Every variable keeps its type.
THEOREM TypeCorrect == Spec => []TypeOK
<1> DEFINE Inv == IInv /\ heard \in {"nothing", "header", "badCRC", "other"}
<1>1. Init => Inv
  BY InitIInv DEF Init
<1>2. Inv /\ [Next]_vars => Inv'
  <2> SUFFICES ASSUME Inv, [Next]_vars
               PROVE  heard' \in {"nothing", "header", "badCRC", "other"}
    BY NextIInv
  <2>. QED BY DEF Next, vars, Control, Heard, Reset, SignalLoss, SetStrict
<1>3. Inv => TypeOK
  BY DEF IInv, WellFormed, TypeOK
<1>. QED BY <1>1, <1>2, <1>3, PTL DEF Spec

LEMMA WellFormedDisjoint ==
  ASSUME NEW t, NEW upto \in Nat, WellFormed(t, upto),
         NEW v \in Windows(t), NEW w \in Windows(t), v # w,
         NEW pos \in Nat
  PROVE  ~(Contains(v, pos) /\ Contains(w, pos))
<1>1. t.recent \in Seq(Window) /\ t.open \in Window
  BY DEF WellFormed, Tracker
<1>2. \A i \in DOMAIN t.recent : t.recent[i] \in Window /\ t.recent[i].closed
  BY <1>1 DEF WellFormed, RecentOK
<1>3. ASSUME NEW i \in DOMAIN t.recent, NEW j \in DOMAIN t.recent, i < j
      PROVE  ~(Contains(t.recent[i], pos) /\ Contains(t.recent[j], pos))
  <2>1. t.recent[i].closePos <= t.recent[j].openPos
    BY <1>3 DEF WellFormed, InOrder
  <2>. QED BY <1>2, <2>1 DEF Contains, Window
<1>4. ASSUME NEW i \in DOMAIN t.recent, IsOpen(t)
      PROVE  ~(Contains(t.recent[i], pos) /\ Contains(t.open, pos))
  <2>1. t.recent[i].closePos <= t.open.openPos
    BY <1>4 DEF WellFormed, InOrder
  <2>. QED BY <1>1, <1>2, <2>1 DEF Contains, Window
<1>5. \A x \in Windows(t) : (\E i \in DOMAIN t.recent : x = t.recent[i])
                              \/ (IsOpen(t) /\ x = t.open)
  BY DEF Windows
<1>6. CASE \E i, j \in DOMAIN t.recent : v = t.recent[i] /\ w = t.recent[j]
  <2>1. PICK i \in DOMAIN t.recent, j \in DOMAIN t.recent :
           v = t.recent[i] /\ w = t.recent[j]
    BY <1>6
  <2>2. i # j /\ i \in Nat /\ j \in Nat
    BY <1>1, <2>1
  <2>. QED BY <1>3, <2>1, <2>2
<1>7. CASE ~\E i, j \in DOMAIN t.recent : v = t.recent[i] /\ w = t.recent[j]
  BY <1>4, <1>5, <1>7
<1>. QED BY <1>6, <1>7

\* A position lies in at most one window, so a voice burst has one broadcast.
THEOREM DisjointAlways == Spec => []WindowsDisjoint
<1>1. IInv => WindowsDisjoint
  BY WellFormedDisjoint DEF IInv, WindowsDisjoint
<1>. QED BY InitIInv, NextIInv, <1>1, PTL DEF Spec

-----------------------------------------------------------------------------
(* What a call of the tracker may do to the windows: the relation every    *)
(* operation keeps, and which two operations in a row keep too.            *)

Kept(v, w) ==
    /\ w.id = v.id /\ w.openPos = v.openPos
    /\ v.closed => w = v
    /\ v.targetOK => w.targetOK /\ w.target = v.target

Evolves(t, u) ==
    /\ t.nextID \in Nat /\ u.nextID \in Nat /\ t.nextID <= u.nextID
    /\ \A w \in Windows(u) :
          \/ \E v \in Windows(t) : Kept(v, w)
          \/ w.id \in Nat /\ t.nextID <= w.id

LEMMA EvolvesTwice ==
  ASSUME NEW s, NEW t, NEW u, Evolves(s, t), Evolves(t, u)
  PROVE  Evolves(s, u)
<1>1. s.nextID \in Nat /\ u.nextID \in Nat /\ s.nextID <= u.nextID
  BY DEF Evolves
<1>2. ASSUME NEW w \in Windows(u)
      PROVE  \/ \E v \in Windows(s) : Kept(v, w)
             \/ w.id \in Nat /\ s.nextID <= w.id
  <2>1. CASE \E v \in Windows(t) : Kept(v, w)
    <3>1. PICK v \in Windows(t) : Kept(v, w)
      BY <2>1
    <3>2. CASE \E x \in Windows(s) : Kept(x, v)
      <4>1. PICK x \in Windows(s) : Kept(x, v)
        BY <3>2
      <4>2. Kept(x, w)
        BY <3>1, <4>1 DEF Kept
      <4>. QED BY <4>2
    <3>3. CASE v.id \in Nat /\ s.nextID <= v.id
      BY <3>1, <3>3 DEF Kept
    <3>. QED BY <3>2, <3>3 DEF Evolves
  <2>2. CASE w.id \in Nat /\ t.nextID <= w.id
    BY <2>2 DEF Evolves
  <2>. QED BY <2>1, <2>2 DEF Evolves
<1>. QED BY <1>1, <1>2 DEF Evolves

LEMMA KeptItself == ASSUME NEW v PROVE Kept(v, v)
BY DEF Kept

LEMMA SameWindowsEvolve ==
  ASSUME NEW t \in Tracker, NEW u,
         u.open = t.open, u.recent = t.recent, u.nextID = t.nextID
  PROVE  Evolves(t, u)
<1>1. Windows(u) = Windows(t)
  BY DEF Windows, IsOpen
<1>2. t.nextID \in Nat
  BY DEF Tracker
<1>. QED BY <1>1, <1>2, KeptItself DEF Evolves

LEMMA OpenWindowFields ==
  ASSUME NEW t \in Tracker, NEW pos, NEW target, NEW ok, NEW mid,
         NEW u, u = OpenWindow(t, pos, target, ok, mid)
  PROVE  /\ u.open.id = t.nextID /\ u.recent = t.recent
         /\ u.nextID = t.nextID + 1 /\ IsOpen(u)
         /\ u.khZeroAt = t.khZeroAt
<1> DEFINE w == [NoWindow EXCEPT !.id = t.nextID, !.openPos = pos,
                                 !.target = target, !.targetOK = ok,
                                 !.midJoin = mid]
<1>1. w.id = t.nextID
  BY DEF NoWindow
<1>2. t.nextID # 0
  BY DEF Tracker
<1>3. u = [t EXCEPT !.open = w, !.nextID = t.nextID + 1, !.midJoin = FALSE,
                    !.changed = Append(t.changed, t.nextID)]
  BY DEF OpenWindow, w
<1>. HIDE DEF w
<1>4. /\ u.open = w /\ u.recent = t.recent /\ u.nextID = t.nextID + 1
      /\ u.khZeroAt = t.khZeroAt
  BY <1>3 DEF Tracker
<1>5. IsOpen(u)
  BY <1>1, <1>2, <1>4 DEF IsOpen
<1>. QED BY <1>1, <1>4, <1>5

LEMMA OpenWindowEndsJoin ==
  ASSUME NEW t \in Tracker, NEW pos, NEW target, NEW ok, NEW mid,
         NEW u, u = OpenWindow(t, pos, target, ok, mid)
  PROVE  u.midJoin = FALSE
<1> DEFINE w == [NoWindow EXCEPT !.id = t.nextID, !.openPos = pos,
                                 !.target = target, !.targetOK = ok,
                                 !.midJoin = mid]
<1>1. u = [t EXCEPT !.open = w, !.nextID = t.nextID + 1, !.midJoin = FALSE,
                    !.changed = Append(t.changed, t.nextID)]
  BY DEF OpenWindow, w
<1>. HIDE DEF w
<1>. QED BY <1>1 DEF Tracker

LEMMA CloseOpenFields ==
  ASSUME NEW t \in Tracker, NEW pos, NEW cause
  PROVE  LET u == CloseOpen(t, pos, cause)
         IN /\ u.open = NoWindow /\ ~IsOpen(u) /\ u.nextID = t.nextID
            /\ u.recent = LastOf(Append(t.recent, ClosedWindow(t.open, pos, cause)), Keep)
            /\ u.midJoin = FALSE /\ u.khZeroAt = -1
<1> DEFINE r == LastOf(Append(t.recent, ClosedWindow(t.open, pos, cause)), Keep)
           u == CloseOpen(t, pos, cause)
<1>1. u = [t EXCEPT !.recent = r, !.open = NoWindow, !.khZeroAt = -1,
                    !.midJoin = FALSE, !.changed = Append(t.changed, t.open.id)]
  BY DEF CloseOpen
<1>. HIDE DEF r, u
<1>2. /\ u.open = NoWindow /\ u.nextID = t.nextID /\ u.recent = r
      /\ u.midJoin = FALSE /\ u.khZeroAt = -1
  BY <1>1 DEF Tracker
<1>3. ~IsOpen(u)
  BY <1>2 DEF IsOpen, NoWindow
<1>. QED BY <1>2, <1>3 DEF u, r

LEMMA OpenWindowEvolves ==
  ASSUME NEW t \in Tracker, ~IsOpen(t), NEW pos, NEW target, NEW ok, NEW mid
  PROVE  Evolves(t, OpenWindow(t, pos, target, ok, mid))
<1> DEFINE u == OpenWindow(t, pos, target, ok, mid)
<1>0. u = OpenWindow(t, pos, target, ok, mid)
  OBVIOUS
<1>. HIDE DEF u
<1>1. /\ u.open.id = t.nextID /\ u.recent = t.recent
      /\ u.nextID = t.nextID + 1 /\ IsOpen(u)
  BY <1>0, OpenWindowFields
<1>2. t.nextID \in Nat
  BY DEF Tracker
<1>3. \A w \in Windows(u) : w \in Windows(t) \/ w = u.open
  BY <1>1 DEF Windows
<1>4. Evolves(t, u)
  BY <1>1, <1>2, <1>3, KeptItself DEF Evolves
<1>. QED BY <1>4 DEF u

LEMMA CloseOpenEvolves ==
  ASSUME NEW t, NEW upto \in Nat, WellFormed(t, upto), IsOpen(t),
         NEW pos \in Nat, NEW cause \in Causes
  PROVE  Evolves(t, CloseOpen(t, pos, cause))
<1> DEFINE u == CloseOpen(t, pos, cause)
           w == ClosedWindow(t.open, pos, cause)
           all == Append(t.recent, w)
<1>1. /\ t \in Tracker /\ t.open \in Window /\ t.recent \in Seq(Window)
      /\ t.nextID \in Nat /\ ~t.open.closed
  BY DEF WellFormed, OpenOK, Tracker
<1>2. /\ w \in Window /\ w.id = t.open.id /\ w.openPos = t.open.openPos
      /\ w.target = t.open.target /\ w.targetOK = t.open.targetOK
  BY <1>1 DEF ClosedWindow, Window
<1>3. Kept(t.open, w)
  BY <1>1, <1>2 DEF Kept
<1>4. u.recent = LastOf(all, Keep) /\ ~IsOpen(u) /\ u.nextID = t.nextID
  BY <1>1, CloseOpenFields, ZenonT(40)
<1>. HIDE DEF u, w
<1>5. all \in Seq(Window) /\ Keep \in Nat \ {0}
  BY <1>1, <1>2, WindowConstants
<1>6. \A i \in 1 .. Len(all) : all[i] = w \/ (i \in DOMAIN t.recent /\ all[i] = t.recent[i])
  BY <1>1, <1>2
<1>. HIDE DEF all
<1>7. \A x \in Windows(u) : \E i \in 1 .. Len(all) : x = all[i]
  <2> DEFINE rest == LastOf(all, Keep)
  <2>1. /\ rest \in Seq(Window)
        /\ \A i \in 1 .. Len(rest) : \E j \in 1 .. Len(all) : rest[i] = all[j]
    BY <1>5, LastOfSuffix
  <2>2. u.recent = rest
    BY <1>4
  <2>. HIDE DEF rest
  <2>3. DOMAIN u.recent = 1 .. Len(rest)
    BY <2>1, <2>2
  <2>. QED BY <1>4, <2>1, <2>2, <2>3 DEF Windows
<1>8. \A i \in DOMAIN t.recent : t.recent[i] \in Windows(t)
  BY DEF Windows
<1>9. t.open \in Windows(t)
  BY DEF Windows
<1>10. \A x \in Windows(u) : \E v \in Windows(t) : Kept(v, x)
  BY <1>3, <1>6, <1>7, <1>8, <1>9, KeptItself
<1>11. Evolves(t, u)
  BY <1>1, <1>4, <1>10 DEF Evolves
<1>. QED BY <1>11 DEF u

LEMMA FirstHeaderEvolves ==
  ASSUME NEW t \in Tracker, NEW pos, NEW m
  PROVE  Evolves(t, FirstHeader(t, pos, m))
<1>1. LET u == FirstHeader(t, pos, m)
      IN u.open = t.open /\ u.recent = t.recent /\ u.nextID = t.nextID
  BY DEF FirstHeader, Tracker
<1>. QED BY <1>1, SameWindowsEvolve

LEMMA JoinUnderWayEvolves ==
  ASSUME NEW t \in Tracker, NEW pos, NEW m
  PROVE  Evolves(t, JoinUnderWay(t, pos, m))
<1>1. CASE ~OnAir(m)
  <2>1. LET u == JoinUnderWay(t, pos, m)
        IN u.open = t.open /\ u.recent = t.recent /\ u.nextID = t.nextID
    BY <1>1 DEF JoinUnderWay, Tracker
  <2>. QED BY <2>1, SameWindowsEvolve
<1>2. CASE OnAir(m) /\ t.midJoin /\ ~IsOpen(t) /\ pos - t.khOnPos >= MidJoinDelay
  BY <1>2, OpenWindowEvolves DEF JoinUnderWay
<1>3. CASE OnAir(m) /\ ~(t.midJoin /\ ~IsOpen(t) /\ pos - t.khOnPos >= MidJoinDelay)
  BY <1>3, SameWindowsEvolve DEF JoinUnderWay
<1>. QED BY <1>1, <1>2, <1>3

LEMMA HoldOffEvolves ==
  ASSUME NEW t, NEW pos \in Nat, NEW m, WellFormed(t, pos)
  PROVE  Evolves(t, HoldOff(t, pos, m))
<1>1. t \in Tracker
  BY DEF WellFormed
<1>2. CASE HoldOff(t, pos, m) = CloseOpen(t, pos, "kh") /\ IsOpen(t)
  BY <1>2, CloseOpenEvolves DEF Causes
<1>3. CASE \E z : HoldOff(t, pos, m) = [t EXCEPT !.khZeroAt = z]
  <2>1. LET u == HoldOff(t, pos, m)
        IN u.open = t.open /\ u.recent = t.recent /\ u.nextID = t.nextID
    BY <1>1, <1>3 DEF Tracker
  <2>. QED BY <1>1, <2>1, SameWindowsEvolve
<1>4. CASE HoldOff(t, pos, m) = t
  BY <1>1, <1>4, SameWindowsEvolve
<1>. QED BY <1>2, <1>3, <1>4 DEF HoldOff

LEMMA OnKHEvolves ==
  ASSUME NEW t, NEW pos \in Nat, NEW m \in Message, WellFormed(t, pos)
  PROVE  Evolves(t, OnKH(t, pos, m))
<1>. DEFINE seen == FirstHeader(t, pos, m)
            joined == JoinUnderWay(seen, pos, m)
<1>1. seen.khSeen /\ WellFormed(seen, pos)
  BY FirstHeaderWellFormed
<1>2. Evolves(t, seen)
  BY FirstHeaderEvolves DEF WellFormed
<1>. HIDE DEF seen
<1>3. WellFormed(joined, pos)
  BY <1>1, JoinUnderWayWellFormed
<1>4. Evolves(seen, joined)
  BY <1>1, JoinUnderWayEvolves DEF WellFormed
<1>. HIDE DEF joined
<1>5. Evolves(joined, HoldOff(joined, pos, m))
  BY <1>3, HoldOffEvolves
<1>6. Evolves(t, HoldOff(joined, pos, m))
  BY <1>2, <1>4, <1>5, EvolvesTwice
<1>. QED BY <1>6 DEF OnKH, joined, seen

LEMMA NoteIDBitsFields ==
  ASSUME NEW t \in Tracker, NEW m
  PROVE  LET u == NoteIDBits([t EXCEPT !.changed = <<>>], m)
         IN /\ u.open = t.open /\ u.recent = t.recent /\ u.nextID = t.nextID
            /\ u.strict = t.strict
BY DEF NoteIDBits, Tracker

LEMMA RefreshTargetFields ==
  ASSUME NEW t \in Tracker, IsOpen(t) => ~t.open.closed,
         NEW m, NEW u, u = RefreshTarget(t, m)
  PROVE  /\ u.recent = t.recent /\ u.nextID = t.nextID
         /\ IsOpen(u) <=> IsOpen(t)
         /\ Kept(t.open, u.open)
         /\ u.khZeroAt = t.khZeroAt /\ u.midJoin = t.midJoin
         /\ u.khOnPos = t.khOnPos
         /\ ~m.crc => u = t
<1> DEFINE w == [t.open EXCEPT !.target = BroadcastTarget(t, m), !.targetOK = TRUE]
<1>1. CASE u = t
  BY <1>1, KeptItself
<1>2. CASE /\ ~(~IsOpen(t) \/ t.open.targetOK \/ ~m.crc)
           /\ \E up : u = [t EXCEPT !.open = w, !.updated = up]
  <2>1. w.id = t.open.id /\ w.openPos = t.open.openPos /\ w.closed = t.open.closed
    BY DEF Tracker, Window
  <2>2. ~t.open.targetOK /\ m.crc /\ ~t.open.closed
    BY <1>2
  <2>. HIDE DEF w
  <2>3. /\ u.open = w /\ u.recent = t.recent /\ u.nextID = t.nextID
        /\ u.khZeroAt = t.khZeroAt /\ u.midJoin = t.midJoin
        /\ u.khOnPos = t.khOnPos
    BY <1>2 DEF Tracker
  <2>4. IsOpen(u) <=> IsOpen(t)
    BY <2>1, <2>3 DEF IsOpen
  <2>5. Kept(t.open, u.open)
    BY <2>1, <2>2, <2>3 DEF Kept
  <2>. QED BY <2>2, <2>3, <2>4, <2>5
<1>3. u = t \/ (/\ ~(~IsOpen(t) \/ t.open.targetOK \/ ~m.crc)
                /\ \E up : u = [t EXCEPT !.open = w, !.updated = up])
  <2>1. [t EXCEPT !.open = w] = [t EXCEPT !.open = w, !.updated = t.updated]
    BY DEF Tracker
  <2>. QED BY <2>1 DEF RefreshTarget
<1>. QED BY <1>1, <1>2, <1>3

LEMMA RefreshTargetEvolves ==
  ASSUME NEW t, NEW upto \in Nat, WellFormed(t, upto), NEW m
  PROVE  Evolves(t, RefreshTarget(t, m))
<1> DEFINE u == RefreshTarget(t, m)
<1>1. t \in Tracker /\ (IsOpen(t) => ~t.open.closed) /\ t.nextID \in Nat
  BY DEF WellFormed, OpenOK, Tracker
<1>. HIDE DEF u
<1>2. /\ u.recent = t.recent /\ u.nextID = t.nextID
      /\ IsOpen(u) <=> IsOpen(t)
      /\ Kept(t.open, u.open)
  BY <1>1, RefreshTargetFields DEF u
<1>3. ASSUME NEW w \in Windows(u) PROVE \E v \in Windows(t) : Kept(v, w)
  <2>1. CASE \E i \in DOMAIN t.recent : w = t.recent[i]
    BY <2>1, KeptItself DEF Windows
  <2>2. CASE IsOpen(t) /\ w = u.open
    BY <2>2, <1>2 DEF Windows
  <2>. QED BY <2>1, <2>2, <1>2 DEF Windows
<1>4. Evolves(t, u)
  BY <1>1, <1>2, <1>3 DEF Evolves
<1>. QED BY <1>4 DEF u

LEMMA NoteRepeatFields ==
  ASSUME NEW t \in Tracker, NEW pos, NEW m, NEW u, u = NoteRepeat(t, pos, m)
  PROVE  /\ u.open = t.open /\ u.recent = t.recent /\ u.nextID = t.nextID
         /\ u.khZeroAt = t.khZeroAt /\ u.midJoin = t.midJoin
         /\ u.khOnPos = t.khOnPos
         /\ (m.crc \/ t.strict) => u = t
<1>1. CASE u = t
  BY <1>1
<1>2. CASE ~(m.crc \/ t.strict) /\ \E h : u = [t EXCEPT !.hist = h]
  BY <1>2 DEF Tracker
<1>. QED BY <1>1, <1>2 DEF NoteRepeat

LEMMA NoteRepeatEvolves ==
  ASSUME NEW t \in Tracker, NEW pos, NEW m
  PROVE  Evolves(t, NoteRepeat(t, pos, m))
<1> DEFINE u == NoteRepeat(t, pos, m)
<1>. HIDE DEF u
<1>1. u.open = t.open /\ u.recent = t.recent /\ u.nextID = t.nextID
  BY NoteRepeatFields DEF u
<1>2. Evolves(t, u)
  BY <1>1, SameWindowsEvolve
<1>. QED BY <1>2 DEF u

\* The window that StartOrRelease opens.
Started(t, pos, m) == OpenWindow(t, pos, BroadcastTarget(t, m), m.crc, FALSE)

LEMMA StartOrReleaseCases ==
  ASSUME NEW t, NEW pos \in Nat, NEW m \in Message, WellFormed(t, pos),
         NEW u, u = StartOrRelease(t, pos, m)
  PROVE  \E cut :
            /\ WellFormed(cut, pos)
            /\ \/ cut = t
               \/ IsOpen(t) /\ cut = CloseOpen(t, pos, "newCall")
            /\ \/ u = cut
               \/ IsOpen(cut) /\ u = CloseOpen(cut, pos, "release")
               \/ /\ ~IsOpen(cut)
                  /\ u = Started(cut, pos, m)
<1> DEFINE cut == IF IsNewCall(t, m) THEN CloseOpen(t, pos, "newCall") ELSE t
<1>1. \/ cut = t
      \/ IsOpen(t) /\ cut = CloseOpen(t, pos, "newCall")
  BY DEF IsNewCall
<1>2. WellFormed(cut, pos)
  <2>1. IsOpen(t) => t.open.openPos <= pos
    BY DEF WellFormed, OpenOK
  <2>. QED BY <1>1, <2>1, CloseOpenWellFormed DEF Causes
<1>3. u = CASE m.type \in Starts /\ ~IsOpen(cut) ->
                 OpenWindow(cut, pos, BroadcastTarget(cut, m), m.crc, FALSE)
            [] m.type = "release" /\ IsOpen(cut) -> CloseOpen(cut, pos, "release")
            [] OTHER -> cut
  BY DEF StartOrRelease
<1>. HIDE DEF cut
<1>4. \/ u = cut
      \/ IsOpen(cut) /\ u = CloseOpen(cut, pos, "release")
      \/ /\ ~IsOpen(cut)
         /\ u = Started(cut, pos, m)
  BY <1>3 DEF Starts, Started
<1>. QED BY <1>1, <1>2, <1>4

LEMMA StartOrReleaseEvolves ==
  ASSUME NEW t, NEW pos \in Nat, NEW m \in Message, WellFormed(t, pos)
  PROVE  Evolves(t, StartOrRelease(t, pos, m))
<1> DEFINE u == StartOrRelease(t, pos, m)
<1>0. u = StartOrRelease(t, pos, m)
  OBVIOUS
<1>. HIDE DEF u
<1>1. PICK cut :
         /\ WellFormed(cut, pos)
         /\ \/ cut = t
            \/ IsOpen(t) /\ cut = CloseOpen(t, pos, "newCall")
         /\ \/ u = cut
            \/ IsOpen(cut) /\ u = CloseOpen(cut, pos, "release")
            \/ /\ ~IsOpen(cut)
               /\ u = Started(cut, pos, m)
  BY <1>0, StartOrReleaseCases
<1>2. \A s : s \in Tracker => Evolves(s, s)
  BY SameWindowsEvolve
<1>3. t \in Tracker /\ cut \in Tracker
  BY <1>1 DEF WellFormed
<1>4. Evolves(t, cut)
  BY <1>1, <1>2, <1>3, CloseOpenEvolves DEF Causes
<1>5. Evolves(cut, u)
  <2>1. CASE u = cut
    BY <2>1, <1>2, <1>3
  <2>2. CASE IsOpen(cut) /\ u = CloseOpen(cut, pos, "release")
    BY <2>2, <1>1, CloseOpenEvolves DEF Causes
  <2>3. CASE /\ ~IsOpen(cut)
             /\ u = Started(cut, pos, m)
    BY <2>3, <1>3, OpenWindowEvolves DEF Started
  <2>. QED BY <1>1, <2>1, <2>2, <2>3
<1>6. Evolves(t, u)
  BY <1>4, <1>5, EvolvesTwice
<1>. QED BY <1>6 DEF u

LEMMA OnControlEvolves ==
  ASSUME NEW t, NEW pos \in Nat, NEW m \in Message, WellFormed(t, pos)
  PROVE  Evolves(t, OnControl(t, pos, m))
<1> DEFINE fresh == NoteIDBits([t EXCEPT !.changed = <<>>], m)
           keyed == IF m.crc /\ HasHeader(m) THEN OnKH(fresh, pos, m) ELSE fresh
           aimed == IF m.type \in Starts THEN RefreshTarget(keyed, m) ELSE keyed
           noted == NoteRepeat(aimed, pos, m)
<1>1. \A s : s \in Tracker => Evolves(s, s)
  BY SameWindowsEvolve
<1>2. WellFormed(fresh, pos)
  BY NoteIDBitsWellFormed
<1>3. Evolves(t, fresh)
  <2>1. t \in Tracker
    BY DEF WellFormed
  <2>2. fresh.open = t.open /\ fresh.recent = t.recent /\ fresh.nextID = t.nextID
    BY <2>1, NoteIDBitsFields
  <2>. HIDE DEF fresh
  <2>. QED BY <2>1, <2>2, SameWindowsEvolve
<1> HIDE DEF fresh
<1>4. WellFormed(keyed, pos) /\ Evolves(fresh, keyed)
  BY <1>1, <1>2, OnKHWellFormed, OnKHEvolves DEF WellFormed
<1> HIDE DEF keyed
<1>5. WellFormed(aimed, pos) /\ Evolves(keyed, aimed)
  BY <1>1, <1>4, RefreshTargetWellFormed, RefreshTargetEvolves DEF WellFormed
<1> HIDE DEF aimed
<1>6. m.type \in Confirmable => WellFormed(noted, pos) /\ Evolves(aimed, noted)
  BY <1>5, NoteRepeatWellFormed, NoteRepeatEvolves DEF WellFormed
<1> HIDE DEF noted
<1>7. m.type \in Confirmable => Evolves(noted, StartOrRelease(noted, pos, m))
  BY <1>6, StartOrReleaseEvolves
<1> DEFINE ended == StartOrRelease(noted, pos, m)
<1>8. OnControl(t, pos, m) =
        IF m.type \notin Confirmable THEN keyed
        ELSE IF Confirmed(noted, m) THEN ended
        ELSE noted
  BY DEF OnControl, fresh, keyed, aimed, noted
<1> HIDE DEF ended
<1>9. Evolves(t, keyed)
  BY <1>3, <1>4, EvolvesTwice
<1>10. Evolves(t, aimed)
  BY <1>9, <1>5, EvolvesTwice
<1>11. m.type \in Confirmable => Evolves(t, noted)
  BY <1>10, <1>6, EvolvesTwice
<1>12. m.type \in Confirmable => Evolves(t, ended)
  BY <1>11, <1>7, EvolvesTwice DEF ended
<1>. QED BY <1>8, <1>9, <1>11, <1>12

LEMMA AbandonEvolves ==
  ASSUME NEW t, NEW pos \in Nat, WellFormed(t, pos)
  PROVE  Evolves(t, Abandon(t, pos))
<1> DEFINE arm == ArmMidJoin(t)
           armed == [arm EXCEPT !.hist = NewTracker.hist, !.changed = <<>>]
           at == IF pos < t.open.openPos THEN t.open.openPos ELSE pos
<1>0. at \in Nat
  BY DEF WellFormed, Tracker, Window
<1>1. WellFormed(arm, pos) /\ arm.open = t.open /\ arm.recent = t.recent
      /\ arm.nextID = t.nextID
  BY ArmMidJoinWellFormed DEF ArmMidJoin, WellFormed, Tracker
<1> HIDE DEF arm, at
<1>2. armed \in Tracker /\ armed.open = arm.open /\ armed.recent = arm.recent
      /\ armed.nextID = arm.nextID /\ armed.midJoin = arm.midJoin
      /\ armed.khSeen = arm.khSeen /\ armed.khOnPos = arm.khOnPos
  <2> DEFINE h == NewTracker.hist
  <2>1. h \in [Confirmable -> SUBSET Nat] /\ <<>> \in Seq(Nat)
    BY DEF NewTracker
  <2> HIDE DEF h
  <2>2. armed = [arm EXCEPT !.hist = h, !.changed = <<>>]
    BY DEF h
  <2> HIDE DEF armed
  <2>. QED BY <1>1, <2>1, <2>2 DEF WellFormed, Tracker
<1>3. Abandon(t, pos) = IF IsOpen(t) THEN CloseOpen(armed, at, "abandoned")
                        ELSE armed
  BY DEF Abandon, arm, armed, at
<1> HIDE DEF armed
<1>4. WellFormed(armed, pos)
  BY <1>1, <1>2, OtherFieldsWellFormed
<1>5. t \in Tracker
  BY DEF WellFormed
<1>6. Evolves(t, armed)
  BY <1>1, <1>2, <1>5, SameWindowsEvolve
<1>7. IsOpen(t) => IsOpen(armed)
  BY <1>1, <1>2 DEF IsOpen
<1>8. IsOpen(t) => Evolves(armed, CloseOpen(armed, at, "abandoned"))
  BY <1>0, <1>4, <1>7, CloseOpenEvolves DEF Causes
<1>9. IsOpen(t) => Evolves(t, CloseOpen(armed, at, "abandoned"))
  BY <1>6, <1>8, EvolvesTwice
<1>. QED BY <1>3, <1>6, <1>9

LEMMA TakenEvolves ==
  ASSUME NEW t, NEW u, Evolves(t, u), u \in Tracker
  PROVE  Evolves(t, Taken(u))
<1>1. Taken(u).open = u.open /\ Taken(u).recent = u.recent
      /\ Taken(u).nextID = u.nextID
  BY DEF Taken, Tracker
<1>2. Evolves(u, Taken(u))
  BY <1>1, SameWindowsEvolve
<1>. QED BY <1>2, EvolvesTwice

\* The windows of a well-formed tracker have different ids, below nextID.
LEMMA IdsDiffer ==
  ASSUME NEW t, NEW upto \in Nat, WellFormed(t, upto)
  PROVE  /\ \A v \in Windows(t) : v.id \in Nat /\ v.id < t.nextID
         /\ \A v, w \in Windows(t) : v.id = w.id => v = w
<1>1. /\ t.recent \in Seq(Window) /\ t.open \in Window /\ t.nextID \in Nat
      /\ \A i \in DOMAIN t.recent : i \in Nat /\ t.recent[i].id \in 1 .. t.nextID - 1
  BY DEF WellFormed, RecentOK, Tracker
<1>2. /\ \A i, j \in DOMAIN t.recent : i < j => t.recent[i].id < t.recent[j].id
      /\ IsOpen(t) => /\ t.open.id \in Nat /\ t.open.id < t.nextID
                      /\ \A i \in DOMAIN t.recent : t.recent[i].id < t.open.id
  BY <1>1 DEF WellFormed, InOrder, OpenOK, Window
<1>3. \A x \in Windows(t) : \/ \E i \in DOMAIN t.recent : x = t.recent[i]
                            \/ IsOpen(t) /\ x = t.open
  BY DEF Windows
<1>4. \A i, j \in DOMAIN t.recent : t.recent[i].id = t.recent[j].id => i = j
  BY <1>1, <1>2
<1>5. \A v \in Windows(t) : v.id \in Nat /\ v.id < t.nextID
  BY <1>1, <1>2, <1>3
<1>6. \A v, w \in Windows(t) : v.id = w.id => v = w
  <2> SUFFICES ASSUME NEW v \in Windows(t), NEW w \in Windows(t), v.id = w.id
               PROVE  v = w
    OBVIOUS
  <2>1. CASE \E i, j \in DOMAIN t.recent : v = t.recent[i] /\ w = t.recent[j]
    BY <2>1, <1>4
  <2>2. CASE ~\E i, j \in DOMAIN t.recent : v = t.recent[i] /\ w = t.recent[j]
    BY <2>2, <1>1, <1>2, <1>3
  <2>. QED BY <2>1, <2>2
<1>. QED BY <1>5, <1>6

LEMMA NextEvolves ==
  ASSUME IInv, [Next]_vars
  PROVE  Evolves(tracker, tracker')
<1> USE DEF IInv
<1>1. ASSUME NEW m \in Messages, Control(m) PROVE Evolves(tracker, tracker')
  <2>1. PICK gap \in Gaps : tracker' = Taken(OnControl(tracker, now + gap, m))
    BY <1>1 DEF Control
  <2>2. m \in Message /\ now + gap \in Nat /\ now <= now + gap
    BY AirConstants
  <2>3. WellFormed(tracker, now + gap)
    BY <2>2, LaterWellFormed
  <2>4. /\ WellFormed(OnControl(tracker, now + gap, m), now + gap)
        /\ Evolves(tracker, OnControl(tracker, now + gap, m))
    BY <2>2, <2>3, OnControlWellFormed, OnControlEvolves
  <2>. QED BY <2>1, <2>4, TakenEvolves DEF WellFormed
<1>2. ASSUME Reset PROVE Evolves(tracker, tracker')
  <2>1. PICK gap \in Gaps \cup {0} : tracker' = Taken(Abandon(tracker, now + gap))
    BY <1>2 DEF Reset
  <2>2. now + gap \in Nat /\ now <= now + gap
    BY AirConstants
  <2>3. WellFormed(tracker, now + gap)
    BY <2>2, LaterWellFormed
  <2>4. /\ WellFormed(Abandon(tracker, now + gap), now + gap)
        /\ Evolves(tracker, Abandon(tracker, now + gap))
    BY <2>2, <2>3, AbandonWellFormed, AbandonEvolves
  <2>. QED BY <2>1, <2>4, TakenEvolves DEF WellFormed
<1>3. tracker \in Tracker
  BY DEF WellFormed
<1>4. ASSUME SignalLoss \/ SetStrict \/ UNCHANGED vars
      PROVE  Evolves(tracker, tracker')
  <2>1. tracker'.open = tracker.open /\ tracker'.recent = tracker.recent
        /\ tracker'.nextID = tracker.nextID
    BY <1>3, <1>4 DEF SignalLoss, SetStrict, vars, ArmMidJoin, Tracker
  <2>. QED BY <1>3, <2>1, SameWindowsEvolve
<1>. QED BY <1>1, <1>2, <1>4 DEF Next

\* What the monitor was told of a window stays true (broadcast.go refreshTarget,
\* closeOpen, openWindow): a closed window never changes, an open one keeps its
\* opening and a confirmed target, a window that appears has an id above every
\* one seen before.
THEOREM HistoryFrozen == Spec => HistoryIsFrozen
<1>1. ASSUME IInv, [Next]_vars
      PROVE  WindowsStay /\ IdsAreFresh
  <2>1. Evolves(tracker, tracker')
    BY <1>1, NextEvolves
  <2>2. /\ \A v \in Windows(tracker) : v.id \in Nat /\ v.id < tracker.nextID
        /\ \A v, w \in Windows(tracker) : v.id = w.id => v = w
    BY <1>1, IdsDiffer DEF IInv
  <2>3. ASSUME NEW v \in Windows(tracker), NEW w \in Windows(tracker'),
               v.id = w.id
        PROVE  Kept(v, w)
    <3>1. ~(w.id \in Nat /\ tracker.nextID <= w.id)
      BY <2>1, <2>2, <2>3 DEF Evolves
    <3>2. PICK x \in Windows(tracker) : Kept(x, w)
      BY <2>1, <3>1 DEF Evolves
    <3>3. x = v
      BY <2>2, <2>3, <3>2 DEF Kept
    <3>. QED BY <3>2, <3>3
  <2>4. WindowsStay
    BY <2>3 DEF WindowsStay, Kept
  <2>5. tracker'.nextID >= tracker.nextID
    BY <2>1 DEF Evolves
  <2>6. ASSUME NEW w \in Windows(tracker'),
               \A v \in Windows(tracker) : v.id # w.id
        PROVE  w.id >= tracker.nextID
    BY <2>1, <2>6 DEF Evolves, Kept
  <2>. QED BY <2>4, <2>5, <2>6 DEF IdsAreFresh
<1>. QED BY <1>1, InitIInv, NextIInv, PTL DEF Spec, HistoryIsFrozen

-----------------------------------------------------------------------------
(* The strict mode.                                                        *)

LEMMA BadCRCInStrictMode ==
  ASSUME NEW t \in Tracker, IsOpen(t) => ~t.open.closed, t.strict,
         NEW pos, NEW m, ~m.crc
  PROVE  /\ OnControl(t, pos, m).open = t.open
         /\ OnControl(t, pos, m).recent = t.recent
<1> DEFINE f == [t EXCEPT !.changed = <<>>]
           aimed == IF m.type \in Starts THEN RefreshTarget(f, m) ELSE f
           noted == NoteRepeat(aimed, pos, m)
<1>0. <<>> \in Seq(Nat)
  OBVIOUS
<1>1. /\ f \in Tracker /\ f.open = t.open /\ f.recent = t.recent
      /\ f.strict = t.strict
  BY <1>0 DEF Tracker
<1>. HIDE DEF f
<1>2. NoteIDBits(f, m) = f
  BY DEF NoteIDBits
<1>3. aimed = f
  BY <1>1 DEF RefreshTarget
<1>4. noted = f
  BY <1>1, <1>3 DEF NoteRepeat
<1>. HIDE DEF noted
<1>5. ~Confirmed(noted, m)
  BY <1>1, <1>4 DEF Confirmed
<1>6. OnControl(t, pos, m) = IF m.type \notin Confirmable THEN f
                             ELSE IF Confirmed(noted, m)
                                  THEN StartOrRelease(noted, pos, m) ELSE noted
  BY <1>2 DEF OnControl, f, noted
<1>7. OnControl(t, pos, m) = f
  BY <1>4, <1>5, <1>6
<1>. QED BY <1>1, <1>7

\* In strict mode a message that failed its CRC neither opens nor closes a
\* window, whatever repeats were noted before (broadcast.go confirmed).
THEOREM StrictWorks == Spec => StrictNeedsCRC
<1>1. ASSUME IInv, [Next]_vars, ~UNCHANGED vars, tracker.strict, heard' = "badCRC"
      PROVE  tracker'.open = tracker.open /\ tracker'.recent = tracker.recent
  <2>1. PICK m \in Messages : Control(m) /\ ~m.crc
    BY <1>1 DEF Next, Reset, SignalLoss, SetStrict, Control, Heard
  <2>2. PICK pos : tracker' = Taken(OnControl(tracker, pos, m))
    BY <2>1 DEF Control
  <2>3. tracker \in Tracker /\ (IsOpen(tracker) => ~tracker.open.closed)
    BY <1>1 DEF IInv, WellFormed, OpenOK
  <2>4. /\ OnControl(tracker, pos, m).open = tracker.open
        /\ OnControl(tracker, pos, m).recent = tracker.recent
    BY <1>1, <2>1, <2>3, BadCRCInStrictMode
  <2>. QED BY <2>2, <2>4 DEF Taken
<1>. QED BY <1>1, InitIInv, NextIInv, PTL DEF Spec, StrictNeedsCRC

-----------------------------------------------------------------------------
(* The hold-off timers.                                                    *)

Timed(t, pos) ==
    /\ t.khZeroAt >= 0 => IsOpen(t) /\ pos - t.khZeroAt < KHCloseDelay
    /\ t.midJoin /\ ~IsOpen(t) => pos - t.khOnPos < MidJoinDelay

LEMMA OnKHTimed ==
  ASSUME NEW t, NEW pos \in Nat, NEW m \in Message, WellFormed(t, pos)
  PROVE  Timed(OnKH(t, pos, m), pos)
<1>. DEFINE seen == FirstHeader(t, pos, m)
            joined == JoinUnderWay(seen, pos, m)
            held == HoldOff(joined, pos, m)
<1>1. seen.khSeen /\ WellFormed(seen, pos)
  BY FirstHeaderWellFormed
<1>2. WellFormed(joined, pos)
  BY <1>1, JoinUnderWayWellFormed
<1>3. joined.midJoin /\ ~IsOpen(joined) => pos - joined.khOnPos < MidJoinDelay
  <2>0. seen \in Tracker
    BY <1>1 DEF WellFormed
  <2>. HIDE DEF seen, joined
  <2>1. CASE ~OnAir(m)
    <3>1. joined = [seen EXCEPT !.midJoin = FALSE]
      BY <2>1 DEF JoinUnderWay, joined
    <3>2. joined.midJoin = FALSE
      BY <2>0, <3>1 DEF Tracker
    <3>. QED BY <3>2
  <2>2. CASE OnAir(m) /\ seen.midJoin /\ ~IsOpen(seen) /\ pos - seen.khOnPos >= MidJoinDelay
    <3>1. joined = OpenWindow(seen, seen.khOnPos, NoTarget, FALSE, TRUE)
      BY <2>2 DEF JoinUnderWay, joined
    <3>2. IsOpen(joined)
      BY <2>0, <3>1, OpenWindowFields
    <3>. QED BY <3>2
  <2>3. CASE OnAir(m) /\ ~(seen.midJoin /\ ~IsOpen(seen) /\ pos - seen.khOnPos >= MidJoinDelay)
    <3>1. joined = seen
      BY <2>3 DEF JoinUnderWay, joined
    <3>2. seen.khOnPos \in Nat /\ MidJoinDelay \in Nat
      BY <2>0, WindowConstants DEF Tracker
    <3>. QED BY <2>3, <3>1, <3>2
  <2>. QED BY <2>1, <2>2, <2>3
<1>. SUFFICES Timed(held, pos)
  BY DEF OnKH
<1>. HIDE DEF joined, held
<1>4. joined \in Tracker /\ joined.khZeroAt \in Nat \cup {-1}
      /\ KHCloseDelay \in Nat \ {0}
  BY <1>2, WindowConstants DEF WellFormed, Tracker
<1>5. ASSUME NEW z, held = [joined EXCEPT !.khZeroAt = z]
      PROVE  /\ held.khZeroAt = z /\ held.midJoin = joined.midJoin
             /\ held.khOnPos = joined.khOnPos /\ (IsOpen(held) <=> IsOpen(joined))
  BY <1>4, <1>5 DEF Tracker, IsOpen
<1>6. CASE m.bcast \/ ~IsOpen(joined)
  <2>1. held = [joined EXCEPT !.khZeroAt = -1]
    BY <1>6 DEF HoldOff, held
  <2>2. held.khZeroAt = -1
    BY <1>5, <2>1
  <2>. QED BY <1>3, <1>5, <2>1, <2>2 DEF Timed
<1>7. CASE ~(m.bcast \/ ~IsOpen(joined)) /\ joined.khZeroAt < 0
  <2>1. held = [joined EXCEPT !.khZeroAt = pos]
    BY <1>7 DEF HoldOff, held
  <2>2. held.khZeroAt = pos /\ IsOpen(held)
    BY <1>5, <1>7, <2>1
  <2>. QED BY <1>4, <2>2 DEF Timed
<1>8. CASE /\ ~(m.bcast \/ ~IsOpen(joined)) /\ ~(joined.khZeroAt < 0)
           /\ pos - joined.khZeroAt >= KHCloseDelay
  <2>1. held = CloseOpen(joined, pos, "kh")
    BY <1>8 DEF HoldOff, held
  <2>2. held.khZeroAt = -1 /\ held.midJoin = FALSE
    BY <1>4, <2>1, CloseOpenFields
  <2>. QED BY <2>2 DEF Timed
<1>9. CASE /\ ~(m.bcast \/ ~IsOpen(joined)) /\ ~(joined.khZeroAt < 0)
           /\ ~(pos - joined.khZeroAt >= KHCloseDelay)
  <2>1. held = joined
    BY <1>9 DEF HoldOff, held
  <2>. QED BY <1>3, <1>4, <1>9, <2>1 DEF Timed
<1>. QED BY <1>6, <1>7, <1>8, <1>9

\* Fields the timers do not depend on.
LEMMA OtherFieldsTimed ==
  ASSUME NEW t, NEW u, NEW pos, Timed(t, pos), IsOpen(u) <=> IsOpen(t),
         u.khZeroAt = t.khZeroAt, u.midJoin = t.midJoin, u.khOnPos = t.khOnPos
  PROVE  Timed(u, pos)
BY DEF Timed

LEMMA CloseOpenTimed ==
  ASSUME NEW t \in Tracker, NEW pos, NEW cause, NEW upto
  PROVE  Timed(CloseOpen(t, pos, cause), upto)
<1> DEFINE u == CloseOpen(t, pos, cause)
<1>1. u.khZeroAt = -1 /\ u.midJoin = FALSE
  BY CloseOpenFields
<1>. HIDE DEF u
<1>2. Timed(u, upto)
  BY <1>1 DEF Timed
<1>. QED BY <1>2 DEF u

LEMMA StartOrReleaseTimed ==
  ASSUME NEW t, NEW pos \in Nat, NEW m \in Message, WellFormed(t, pos), Timed(t, pos)
  PROVE  Timed(StartOrRelease(t, pos, m), pos)
<1> DEFINE u == StartOrRelease(t, pos, m)
<1>0. u = StartOrRelease(t, pos, m)
  OBVIOUS
<1>. SUFFICES Timed(u, pos)
  OBVIOUS
<1>. HIDE DEF u
<1>1. PICK cut :
         /\ WellFormed(cut, pos)
         /\ \/ cut = t
            \/ IsOpen(t) /\ cut = CloseOpen(t, pos, "newCall")
         /\ \/ u = cut
            \/ IsOpen(cut) /\ u = CloseOpen(cut, pos, "release")
            \/ /\ ~IsOpen(cut)
               /\ u = Started(cut, pos, m)
  BY <1>0, StartOrReleaseCases
<1>2. t \in Tracker /\ cut \in Tracker
  BY <1>1 DEF WellFormed
<1>3. Timed(cut, pos)
  BY <1>1, <1>2, CloseOpenTimed
<1>4. CASE u = cut
  BY <1>3, <1>4
<1>5. CASE IsOpen(cut) /\ u = CloseOpen(cut, pos, "release")
  BY <1>2, <1>5, CloseOpenTimed
<1>6. CASE /\ ~IsOpen(cut)
           /\ u = Started(cut, pos, m)
  <2>0. PICK target, ok, mid : u = OpenWindow(cut, pos, target, ok, mid)
    BY <1>6 DEF Started
  <2>1. u.khZeroAt = cut.khZeroAt
    BY <1>2, <2>0, OpenWindowFields
  <2>3. u.midJoin = FALSE
    BY <1>2, <2>0, OpenWindowEndsJoin
  <2>2. ~(cut.khZeroAt >= 0)
    BY <1>3, <1>6 DEF Timed
  <2>. QED BY <2>1, <2>2, <2>3 DEF Timed
<1>. QED BY <1>1, <1>4, <1>5, <1>6

LEMMA OnControlTimed ==
  ASSUME NEW t, NEW pos \in Nat, NEW m \in Message, WellFormed(t, pos),
         m.crc, HasHeader(m)
  PROVE  Timed(OnControl(t, pos, m), pos)
<1> DEFINE fresh == NoteIDBits([t EXCEPT !.changed = <<>>], m)
           keyed == OnKH(fresh, pos, m)
           aimed == IF m.type \in Starts THEN RefreshTarget(keyed, m) ELSE keyed
           noted == NoteRepeat(aimed, pos, m)
<1>1. WellFormed(fresh, pos)
  BY NoteIDBitsWellFormed
<1> HIDE DEF fresh
<1>2. WellFormed(keyed, pos) /\ Timed(keyed, pos)
  BY <1>1, OnKHWellFormed, OnKHTimed
<1> HIDE DEF keyed
<1>3. WellFormed(aimed, pos) /\ Timed(aimed, pos)
  <2>1. keyed \in Tracker /\ (IsOpen(keyed) => ~keyed.open.closed)
    BY <1>2 DEF WellFormed, OpenOK
  <2>2. Timed(RefreshTarget(keyed, m), pos)
    <3> DEFINE u == RefreshTarget(keyed, m)
    <3>. HIDE DEF u
    <3>1. /\ IsOpen(u) <=> IsOpen(keyed)
          /\ u.khZeroAt = keyed.khZeroAt /\ u.midJoin = keyed.midJoin
          /\ u.khOnPos = keyed.khOnPos
      BY <2>1, RefreshTargetFields DEF u
    <3>2. Timed(u, pos)
      BY <1>2, <3>1, OtherFieldsTimed
    <3>. QED BY <3>2 DEF u
  <2>. QED BY <1>2, <2>2, RefreshTargetWellFormed
<1> HIDE DEF aimed
<1>4. m.type \in Confirmable => WellFormed(noted, pos)
  BY <1>3, NoteRepeatWellFormed
<1>5. noted = aimed
  BY DEF NoteRepeat
<1> HIDE DEF noted
<1>6. m.type \in Confirmable => Timed(StartOrRelease(noted, pos, m), pos)
  BY <1>3, <1>4, <1>5, StartOrReleaseTimed
<1>7. OnControl(t, pos, m) =
        IF m.type \notin Confirmable THEN keyed
        ELSE IF Confirmed(noted, m) THEN StartOrRelease(noted, pos, m)
        ELSE noted
  BY DEF OnControl, fresh, keyed, aimed, noted
<1>. QED BY <1>2, <1>3, <1>5, <1>6, <1>7

\* The timers of onKH end: no header is handled that leaves a window whose
\* on-air flag has been down for KHCloseDelay, or a join that has been waiting
\* for MidJoinDelay without its window.
THEOREM TimersDoExpire == Spec => []TimersExpire
<1> DEFINE Inv == heard = "header" => Timed(tracker, now)
<1>1. Init => Inv
  BY DEF Init
<1>2. ASSUME IInv, Inv, [Next]_vars PROVE Inv'
  <2> SUFFICES ASSUME heard' = "header" PROVE Timed(tracker', now')
    OBVIOUS
  <2>1. CASE UNCHANGED vars
    BY <1>2, <2>1 DEF vars
  <2>2. CASE ~UNCHANGED vars
    <3>1. PICK m \in Messages : Control(m) /\ m.crc /\ HasHeader(m)
      BY <1>2, <2>2 DEF Next, Reset, SignalLoss, SetStrict, Control, Heard
    <3>2. PICK gap \in Gaps :
             /\ tracker' = Taken(OnControl(tracker, now + gap, m))
             /\ now' = now + gap
      BY <3>1 DEF Control
    <3>3. m \in Message /\ now \in Nat /\ now + gap \in Nat /\ now <= now + gap
      BY <1>2, AirConstants DEF IInv
    <3>4. WellFormed(tracker, now + gap)
      BY <1>2, <3>3, LaterWellFormed DEF IInv
    <3> DEFINE u == OnControl(tracker, now + gap, m)
    <3>5. Timed(u, now + gap) /\ WellFormed(u, now + gap)
      BY <3>1, <3>3, <3>4, OnControlTimed, OnControlWellFormed
    <3>. HIDE DEF u
    <3>6. /\ Taken(u).open = u.open
          /\ Taken(u).khZeroAt = u.khZeroAt /\ Taken(u).midJoin = u.midJoin
          /\ Taken(u).khOnPos = u.khOnPos
      BY <3>5 DEF Taken, WellFormed, Tracker
    <3>7. Timed(Taken(u), now + gap)
      BY <3>5, <3>6, OtherFieldsTimed DEF IsOpen
    <3>. QED BY <3>2, <3>7 DEF u
  <2>. QED BY <2>1, <2>2
<1>3. Inv => TimersExpire
  BY DEF TimersExpire, Timed
<1>. QED BY <1>1, <1>2, <1>3, InitIInv, NextIInv, PTL DEF Spec

=============================================================================
