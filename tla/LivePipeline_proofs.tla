-------------------------- MODULE LivePipeline_proofs --------------------------
(***************************************************************************)
(* dspLoop of the STD-T86 monitor: the decoder, the monitor and the audio   *)
(* worker agree on the seed, every broadcast that was announced is closed,  *)
(* and the one that is shown is followed.                                   *)
(***************************************************************************)
EXTENDS LivePipeline, SequenceTheorems, FiniteSetTheorems, TLAPS

-----------------------------------------------------------------------------
(* The decoder on its own: what it delivers and what it reports, for every  *)
(* ring, horizon, cap, station and stream of slots.  Every talk burst is    *)
(* delivered once and in order (BurstsConserved); a window is reported as   *)
(* ended after its last burst, a burst is delivered with the window it lies *)
(* in, and no broadcast is lost between the tracker and the caller (from    *)
(* the invariant DInv).  The second part rests on what one call of          *)
(* OnControl may do to the windows (Leads) and on what picking elements of  *)
(* a sequence gives (RankProperties, PickedIndices).                        *)

\* A sequence of voice events whose window ids are taken from S.
Events(S) == Seq([pos : Nat, id : S])
IsEvents(v) == \E S : v \in Events(S)

-----------------------------------------------------------------------------
(* Sequences.                                                              *)

LEMMA SplitSeq ==
  ASSUME NEW s \in Seq(Nat), NEW k \in 0 .. Len(s)
  PROVE  /\ Upto(s, k) \in Seq(Nat) /\ From(s, k) \in Seq(Nat)
         /\ Upto(s, k) \o From(s, k) = s
<1>1. Len(s) \in Nat /\ \A i \in 1 .. Len(s) : s[i] \in Nat
  BY ElementOfSeq
<1>2. /\ Upto(s, k) \in Seq(Nat) /\ Len(Upto(s, k)) = k
      /\ \A i \in 1 .. k : Upto(s, k)[i] = s[i]
  BY <1>1 DEF Upto
<1>3. /\ From(s, k) \in Seq(Nat) /\ Len(From(s, k)) = Len(s) - k
      /\ \A i \in 1 .. Len(s) - k : From(s, k)[i] = s[i + k]
  BY <1>1 DEF From
<1> DEFINE u == Upto(s, k)
           f == From(s, k)
<1> HIDE DEF u, f
<1>4. u \in Seq(Nat) /\ f \in Seq(Nat) /\ Len(u) = k /\ Len(f) = Len(s) - k
  BY <1>2, <1>3 DEF u, f
<1>5. /\ \A i \in 1 .. k : u[i] = s[i]
      /\ \A i \in 1 .. Len(s) - k : f[i] = s[i + k]
  BY <1>2, <1>3 DEF u, f
<1>6. /\ u \o f \in Seq(Nat) /\ Len(u \o f) = Len(s)
      /\ \A i \in 1 .. Len(s) : (u \o f)[i] = IF i <= k THEN u[i] ELSE f[i - k]
  <2>1. k \in Nat /\ k + (Len(s) - k) = Len(s)
    BY <1>1
  <2>2. u \in Seq(Nat) /\ f \in Seq(Nat)
    BY <1>4
  <2>3. /\ u \o f \in Seq(Nat) /\ Len(u \o f) = Len(u) + Len(f)
        /\ \A i \in 1 .. Len(u) + Len(f) :
              (u \o f)[i] = IF i <= Len(u) THEN u[i] ELSE f[i - Len(u)]
    BY <2>2, ConcatProperties
  <2>. QED BY <1>4, <2>1, <2>3
<1>7. \A i \in 1 .. Len(s) : (u \o f)[i] = s[i]
  BY <1>1, <1>5, <1>6, SMTT(30)
<1>8. u \o f = s
  BY <1>6, <1>7, SeqEqual
<1>. QED BY <1>2, <1>3, <1>8 DEF u, f

LEMMA LabelledEvents ==
  ASSUME NEW t, NEW s \in Seq(Nat)
  PROVE  IsEvents(Labelled(t, s)) /\ Positions(Labelled(t, s)) = s
<1> DEFINE S == {WindowFor(t, s[i]) : i \in 1 .. Len(s)}
           v == Labelled(t, s)
<1>1. Len(s) \in Nat /\ \A i \in 1 .. Len(s) : s[i] \in Nat
  BY ElementOfSeq
<1>2. v = [i \in 1 .. Len(s) |-> [pos |-> s[i], id |-> WindowFor(t, s[i])]]
  BY DEF Labelled
<1>3. \A i \in 1 .. Len(s) : v[i] = [pos |-> s[i], id |-> WindowFor(t, s[i])]
  BY <1>2
<1>4. ASSUME NEW i \in 1 .. Len(s)
      PROVE  v[i] \in [pos : Nat, id : S] /\ v[i].pos = s[i]
  <2>1. WindowFor(t, s[i]) \in S /\ s[i] \in Nat
    BY <1>1
  <2>2. v[i] = [pos |-> s[i], id |-> WindowFor(t, s[i])]
    BY <1>3
  <2> HIDE DEF v, S
  <2>. QED BY <2>1, <2>2
<1>5. DOMAIN v = 1 .. Len(s)
  BY <1>2
<1>6. v \in [1 .. Len(s) -> [pos : Nat, id : S]]
  <2> HIDE DEF S
  <2>. QED BY <1>2, <1>4
<1> HIDE DEF v, S
<1>7. v \in Events(S)
  <2> DEFINE E == [pos : Nat, id : S]
             n == Len(s)
  <2>1. n \in Nat /\ v \in [1 .. n -> E]
    BY <1>1, <1>6
  <2> HIDE DEF E, n
  <2>2. v \in Seq(E)
    BY <2>1
  <2>. QED BY <2>2 DEF Events, E
<1>8. Positions(v) = [i \in 1 .. Len(s) |-> s[i]]
  BY <1>4, <1>5 DEF Positions
<1>9. Positions(v) = s
  BY <1>1, <1>8, LenProperties
<1>. QED BY <1>7, <1>9 DEF v, IsEvents

LEMMA ConcatIsEvents ==
  ASSUME NEW v, NEW w, IsEvents(v), IsEvents(w)
  PROVE  /\ IsEvents(v \o w)
         /\ Positions(v) \in Seq(Nat) /\ Positions(w) \in Seq(Nat)
         /\ Positions(v \o w) = Positions(v) \o Positions(w)
<1>a. PICK S : v \in Events(S)
  BY DEF IsEvents
<1>b. PICK T : w \in Events(T)
  BY DEF IsEvents
<1> DEFINE U == S \cup T
           vw == v \o w
<1>1. v \in Events(U) /\ w \in Events(U)
  <2>1. [pos : Nat, id : S] \subseteq [pos : Nat, id : U]
        /\ [pos : Nat, id : T] \subseteq [pos : Nat, id : U]
    OBVIOUS
  <2>. QED BY <1>a, <1>b, <2>1, SeqMonotonic DEF Events
<1> HIDE DEF U
<1>2. /\ vw \in Events(U) /\ Len(vw) = Len(v) + Len(w)
      /\ \A i \in 1 .. Len(v) + Len(w) :
            vw[i] = IF i <= Len(v) THEN v[i] ELSE w[i - Len(v)]
  BY <1>1, ConcatProperties DEF Events
<1>3. ASSUME NEW x \in Events(U)
      PROVE  /\ Positions(x) \in Seq(Nat) /\ Len(Positions(x)) = Len(x)
             /\ Len(x) \in Nat
             /\ \A i \in 1 .. Len(x) : Positions(x)[i] = x[i].pos
  <2>1. Len(x) \in Nat /\ DOMAIN x = 1 .. Len(x)
    BY <1>3, LenProperties DEF Events
  <2>2. \A i \in 1 .. Len(x) : x[i] \in [pos : Nat, id : U]
    BY <1>3, ElementOfSeq DEF Events
  <2>3. Positions(x) = [i \in 1 .. Len(x) |-> x[i].pos]
    BY <2>1 DEF Positions
  <2>4. Positions(x) \in [1 .. Len(x) -> Nat]
    BY <2>2, <2>3
  <2>. QED BY <2>1, <2>3, <2>4
<1> HIDE DEF vw
<1> DEFINE p == Positions(v)
           q == Positions(w)
           pq == Positions(vw)
<1>4. /\ p \in Seq(Nat) /\ q \in Seq(Nat) /\ pq \in Seq(Nat)
      /\ Len(p) = Len(v) /\ Len(q) = Len(w) /\ Len(pq) = Len(v) + Len(w)
      /\ Len(v) \in Nat /\ Len(w) \in Nat
  BY <1>1, <1>2, <1>3
<1>5. /\ \A i \in 1 .. Len(v) : p[i] = v[i].pos
      /\ \A i \in 1 .. Len(w) : q[i] = w[i].pos
      /\ \A i \in 1 .. Len(v) + Len(w) : pq[i] = vw[i].pos
  BY <1>1, <1>2, <1>3
<1> HIDE DEF p, q, pq
<1>6. /\ p \o q \in Seq(Nat) /\ Len(p \o q) = Len(v) + Len(w)
      /\ \A i \in 1 .. Len(v) + Len(w) :
            (p \o q)[i] = IF i <= Len(v) THEN p[i] ELSE q[i - Len(v)]
  <2>1. p \in Seq(Nat) /\ q \in Seq(Nat)
    BY <1>4
  <2>2. /\ p \o q \in Seq(Nat) /\ Len(p \o q) = Len(p) + Len(q)
        /\ \A i \in 1 .. Len(p) + Len(q) :
              (p \o q)[i] = IF i <= Len(p) THEN p[i] ELSE q[i - Len(p)]
    BY <2>1, ConcatProperties
  <2>. QED BY <1>4, <2>2
<1>7. ASSUME NEW i \in 1 .. Len(v) + Len(w)
      PROVE  pq[i] = (p \o q)[i]
  <2>1. i \in Nat /\ (i > Len(v) => i - Len(v) \in 1 .. Len(w))
        /\ (i <= Len(v) => i \in 1 .. Len(v))
    BY <1>4
  <2>2. CASE i <= Len(v)
    <3>1. pq[i] = v[i].pos /\ p[i] = v[i].pos /\ (p \o q)[i] = p[i]
      BY <1>2, <1>5, <1>6, <2>1, <2>2
    <3>. QED BY <3>1
  <2>3. CASE i > Len(v)
    <3>1. pq[i] = vw[i].pos /\ vw[i] = w[i - Len(v)] /\ (p \o q)[i] = q[i - Len(v)]
      BY <1>2, <1>4, <1>5, <1>6, <2>1, <2>3, SMTT(30)
    <3>2. q[i - Len(v)] = w[i - Len(v)].pos
      BY <1>5, <2>1, <2>3
    <3>. QED BY <3>1, <3>2
  <2>. QED BY <1>4, <2>1, <2>2, <2>3
<1>8. pq = p \o q
  BY <1>4, <1>6, <1>7, SeqEqual
<1>9. IsEvents(vw)
  BY <1>2 DEF IsEvents
<1>. QED BY <1>4, <1>8, <1>9 DEF p, q, pq, vw

LEMMA Associative ==
  \A s, t, u \in Seq(Nat) : (s \o t) \o u = s \o (t \o u)
<1> SUFFICES ASSUME NEW s \in Seq(Nat), NEW t \in Seq(Nat), NEW u \in Seq(Nat)
             PROVE  (s \o t) \o u = s \o (t \o u)
  OBVIOUS
<1>1. /\ s \o t \in Seq(Nat) /\ t \o u \in Seq(Nat)
      /\ (s \o t) \o u \in Seq(Nat) /\ s \o (t \o u) \in Seq(Nat)
  OBVIOUS
<1>2. Len((s \o t) \o u) = Len(s \o (t \o u))
  BY <1>1
<1>3. \A i \in 1 .. Len((s \o t) \o u) :
         ((s \o t) \o u)[i] = (s \o (t \o u))[i]
  BY <1>1
<1>. QED BY <1>1, <1>2, <1>3, SeqEqual

-----------------------------------------------------------------------------
(* emitVoice.                                                              *)

LEMMA LeaveCountRange ==
  ASSUME NEW all \in Seq(Nat)
  PROVE  LeaveCount(all) \in 0 .. Len(all)
BY DecoderConstants, LenProperties DEF LeaveCount

\* What leaves and what still waits are together what waited and what came.
LEMMA EmitConserves ==
  ASSUME NEW decided \in Seq(Nat), pendingVoice \in Seq(Nat),
         NEW r, "voice" \in DOMAIN r, IsEvents(r.voice)
  PROVE  /\ StillWaiting(decided) \in Seq(Nat)
         /\ "voice" \in DOMAIN Emitted(decided, r)
         /\ IsEvents(Emitted(decided, r).voice)
         /\ Positions(r.voice) \in Seq(Nat)
         /\ Positions(Emitted(decided, r).voice) \in Seq(Nat)
         /\ Positions(Emitted(decided, r).voice) \o StillWaiting(decided)
               = Positions(r.voice) \o (pendingVoice \o decided)
<1> DEFINE all == Waiting(decided)
           k == LeaveCount(all)
           out == Upto(all, k)
           v == Labelled(tracker, out)
           rest == StillWaiting(decided)
<1>1. all \in Seq(Nat) /\ all = pendingVoice \o decided
  BY ConcatProperties DEF Waiting
<1>2. /\ out \in Seq(Nat) /\ rest \in Seq(Nat) /\ out \o rest = all
  <2>1. k \in 0 .. Len(all)
    BY <1>1, LeaveCountRange
  <2>. HIDE DEF k
  <2>2. Upto(all, k) \in Seq(Nat) /\ From(all, k) \in Seq(Nat)
        /\ Upto(all, k) \o From(all, k) = all
    BY <1>1, <2>1, SplitSeq
  <2>. QED BY <2>2 DEF k, StillWaiting
<1>3. Emitted(decided, r) = [r EXCEPT !.voice = r.voice \o v]
  BY DEF Emitted
<1> HIDE DEF all, k, out, rest
<1>4. IsEvents(v) /\ Positions(v) = out
  BY <1>2, LabelledEvents
<1> HIDE DEF v
<1> DEFINE a == r.voice
           p == Positions(a)
<1>5. IsEvents(a \o v) /\ p \in Seq(Nat) /\ Positions(a \o v) = p \o out
  BY <1>4, ConcatIsEvents
<1>6. /\ "voice" \in DOMAIN Emitted(decided, r)
      /\ Emitted(decided, r).voice = r.voice \o v
  BY <1>3
<1> HIDE DEF p
<1>t. p \in Seq(Nat) /\ out \in Seq(Nat) /\ rest \in Seq(Nat)
  BY <1>2, <1>5
<1>7. (p \o out) \o rest = p \o (out \o rest)
  BY <1>t, Associative, SMTT(30)
<1>8. p \o out \in Seq(Nat)
  BY <1>t, ConcatProperties
<1>. QED BY <1>1, <1>2, <1>5, <1>6, <1>7, <1>8 DEF rest, p

-----------------------------------------------------------------------------
(* The steps.                                                              *)

\* The invariant: what waits and what is delivered are sequences.
Waits == /\ now \in Nat
         /\ pending \in Seq(Nat) /\ pendingVoice \in Seq(Nat)
         /\ "voice" \in DOMAIN res
         /\ IsEvents(res.voice)

Taken == IF pc \in {"idle", "done"} THEN <<>> ELSE Positions(res.voice)

Conserved ==
    Taken \o pendingVoice \o pending \o handled'
       = Positions(res'.voice) \o pendingVoice' \o pending'

\* A step that leaves the bursts alone.
LEMMA NothingMoves ==
  ASSUME Waits, now' \in Nat,
         pending' = pending, pendingVoice' = pendingVoice, handled' = <<>>,
         "voice" \in DOMAIN res',
         \/ pc \in {"idle", "done"} /\ res'.voice = <<>>
         \/ pc \notin {"idle", "done"} /\ res'.voice = res.voice
  PROVE  Waits' /\ Conserved
<1>1. IsEvents(res.voice)
  BY DEF Waits
<1>2. IsEvents(<<>>) /\ Positions(<<>>) = <<>>
  BY DEF IsEvents, Events, Positions
<1>3. Waits'
  BY <1>1, <1>2 DEF Waits
<1>4. Positions(res.voice) \in Seq(Nat)
  BY <1>1, ConcatIsEvents
<1>5. Taken = Positions(res'.voice) /\ Taken \in Seq(Nat)
  BY <1>2, <1>4 DEF Taken
<1>6. Taken \o pendingVoice \o pending \in Seq(Nat)
  BY <1>5, ConcatProperties DEF Waits
<1>7. Taken \o pendingVoice \o pending \o <<>> = Taken \o pendingVoice \o pending
  BY <1>6, ConcatEmptySeq
<1>. QED BY <1>3, <1>5, <1>7 DEF Conserved

\* Bursts decided from the head of a queue: what is emitted, what waits for the
\* seed and what stays in the queue make up what was there.
LEMMA EmitFrom ==
  ASSUME pendingVoice \in Seq(Nat), NEW all \in Seq(Nat), NEW n \in 0 .. Len(all),
         NEW r, "voice" \in DOMAIN r, IsEvents(r.voice)
  PROVE  /\ Upto(all, n) \in Seq(Nat) /\ From(all, n) \in Seq(Nat)
         /\ StillWaiting(Upto(all, n)) \in Seq(Nat)
         /\ "voice" \in DOMAIN Emitted(Upto(all, n), r)
         /\ IsEvents(Emitted(Upto(all, n), r).voice)
         /\ Positions(r.voice) \in Seq(Nat)
         /\ Positions(Emitted(Upto(all, n), r).voice)
               \o StillWaiting(Upto(all, n)) \o From(all, n)
                  = Positions(r.voice) \o pendingVoice \o all
<1> DEFINE d == Upto(all, n)
           f == From(all, n)
           w == StillWaiting(d)
           e == Emitted(d, r).voice
           p == Positions(e)
           q == Positions(r.voice)
<1>1. d \in Seq(Nat) /\ f \in Seq(Nat) /\ d \o f = all
  BY SplitSeq
<1> HIDE DEF d, f
<1>2. /\ w \in Seq(Nat)
      /\ "voice" \in DOMAIN Emitted(d, r)
      /\ IsEvents(e)
      /\ q \in Seq(Nat) /\ p \in Seq(Nat)
      /\ p \o w = q \o (pendingVoice \o d)
  BY <1>1, EmitConserves
<1> HIDE DEF w, e, p, q
<1>3. pendingVoice \o d \in Seq(Nat)
  BY <1>1, ConcatProperties
<1>4. (q \o (pendingVoice \o d)) \o f = q \o ((pendingVoice \o d) \o f)
  <2> DEFINE x == pendingVoice \o d
  <2>1. x \in Seq(Nat) /\ q \in Seq(Nat) /\ f \in Seq(Nat)
    BY <1>1, <1>2, <1>3
  <2> HIDE DEF x
  <2>2. (q \o x) \o f = q \o (x \o f)
    BY <2>1, Associative, SMTT(30)
  <2>. QED BY <2>2 DEF x
<1>5. (pendingVoice \o d) \o f = pendingVoice \o all
  BY <1>1, Associative
<1>6. q \o (pendingVoice \o all) = (q \o pendingVoice) \o all
  BY <1>2, Associative, ZenonT(40)
<1>7. (p \o w) \o f = (q \o pendingVoice) \o all
  BY <1>2, <1>4, <1>5, <1>6
<1>. QED BY <1>1, <1>2, <1>7 DEF d, f, w, e, p, q

LEMMA Empties ==
  /\ \A s \in Seq(Nat) : s \o <<>> = s /\ <<>> \o s = s
  /\ <<>> \in Seq(Nat)
  /\ IsEvents(<<>>) /\ Positions(<<>>) = <<>>
<1>1. \A s \in Seq(Nat) : s \o <<>> = s /\ <<>> \o s = s
  BY ConcatEmptySeq
<1>. QED BY <1>1 DEF IsEvents, Events, Positions

LEMMA VoiceSlotConserves ==
  ASSUME Waits, VoiceSlot
  PROVE  Waits' /\ Conserved
<1> DEFINE all == Append(pending, now)
<1>1. all \in Seq(Nat) /\ all = pending \o <<now>>
  BY AppendIsConcat, AppendProperties DEF Waits
<1>2. PICK n \in 0 .. Len(all) :
         /\ pending' = From(all, n)
         /\ pendingVoice' = StillWaiting(Upto(all, n))
         /\ res' = Emitted(Upto(all, n), res)
  BY DEF VoiceSlot
<1>3. pc = "feed" /\ now' = now + 1 /\ handled' = <<now>>
  BY DEF VoiceSlot
<1> HIDE DEF all
<1>4. /\ pending' \in Seq(Nat) /\ pendingVoice' \in Seq(Nat)
      /\ "voice" \in DOMAIN res' /\ IsEvents(res'.voice)
      /\ Positions(res.voice) \in Seq(Nat)
      /\ Positions(res'.voice) \o pendingVoice' \o pending'
            = Positions(res.voice) \o pendingVoice \o all
  BY <1>1, <1>2, EmitFrom DEF Waits
<1>5. Waits'
  BY <1>3, <1>4 DEF Waits
<1>6. Taken = Positions(res.voice)
  BY <1>3 DEF Taken
<1>7. /\ Taken \o pendingVoice \in Seq(Nat) /\ <<now>> \in Seq(Nat)
      /\ pending \in Seq(Nat)
  <2>1. Taken \in Seq(Nat) /\ pendingVoice \in Seq(Nat)
    BY <1>4, <1>6 DEF Waits
  <2>. QED BY <2>1, ConcatProperties DEF Waits
<1>8. (Taken \o pendingVoice) \o pending \o <<now>>
         = (Taken \o pendingVoice) \o all
  BY <1>1, <1>7, Associative, SMTT(30)
<1>. QED BY <1>3, <1>4, <1>5, <1>6, <1>8 DEF Conserved

LEMMA EndFeedConserves ==
  ASSUME Waits, EndFeed
  PROVE  Waits' /\ Conserved
<1>1. PICK n \in 0 .. Len(pending) :
         /\ pending' = From(pending, n)
         /\ pendingVoice' = StillWaiting(Upto(pending, n))
         /\ ReleaseEnded(pending', Emitted(Upto(pending, n), res),
                         NoteVoice(Upto(pending, n)))
  BY DEF EndFeed
<1>2. pc = "feed" /\ now' = now /\ handled' = <<>>
  BY DEF EndFeed
<1> DEFINE e == Emitted(Upto(pending, n), res)
<1>3. \E ended : res' = [e EXCEPT !.ended = ended]
  BY <1>1 DEF ReleaseEnded
<1>4. /\ pending' \in Seq(Nat) /\ pendingVoice' \in Seq(Nat)
      /\ "voice" \in DOMAIN e /\ IsEvents(e.voice)
      /\ Positions(res.voice) \in Seq(Nat)
      /\ Positions(e.voice) \o pendingVoice' \o pending'
            = Positions(res.voice) \o pendingVoice \o pending
  BY <1>1, EmitFrom DEF Waits
<1> HIDE DEF e
<1>5. "voice" \in DOMAIN res' /\ res'.voice = e.voice
  BY <1>3, <1>4
<1>6. Waits'
  BY <1>2, <1>4, <1>5 DEF Waits
<1>7. Taken = Positions(res.voice)
  BY <1>2 DEF Taken
<1>8. Taken \o pendingVoice \o pending \in Seq(Nat)
  <2>1. /\ Taken \in Seq(Nat) /\ pendingVoice \in Seq(Nat)
        /\ pending \in Seq(Nat)
    BY <1>4, <1>7 DEF Waits
  <2>. QED BY <2>1, ConcatProperties
<1>9. Taken \o pendingVoice \o pending \o <<>> = Taken \o pendingVoice \o pending
  BY <1>8, Empties
<1>. QED BY <1>2, <1>4, <1>5, <1>6, <1>7, <1>9 DEF Conserved

LEMMA PinSeedConserves ==
  ASSUME Waits, NEW key, PinSeed(key)
  PROVE  Waits' /\ Conserved
<1> DEFINE v == Labelled(tracker, pendingVoice)
<1>1. IsEvents(v) /\ Positions(v) = pendingVoice
  BY LabelledEvents DEF Waits
<1> HIDE DEF v
<1>2. /\ pc = "idle" /\ now' = now /\ pending' = pending
      /\ pendingVoice' = <<>> /\ handled' = <<>>
  BY DEF PinSeed
<1>3. res' = [NoResult EXCEPT !.voice = v]
  BY DEF PinSeed, v
<1>4. "voice" \in DOMAIN res' /\ res'.voice = v
  BY <1>3 DEF NoResult
<1>5. Waits'
  BY <1>1, <1>2, <1>4, Empties DEF Waits
<1>6. Taken = <<>>
  BY <1>2 DEF Taken
<1>7. /\ pendingVoice \in Seq(Nat) /\ pending \in Seq(Nat)
      /\ pendingVoice \o pending \in Seq(Nat)
  BY ConcatProperties DEF Waits
<1>8. /\ <<>> \o pendingVoice = pendingVoice /\ pendingVoice \o <<>> = pendingVoice
      /\ (pendingVoice \o pending) \o <<>> = pendingVoice \o pending
  BY <1>7, Empties
<1>. QED BY <1>1, <1>2, <1>4, <1>5, <1>6, <1>8 DEF Conserved

LEMMA FlushConserves ==
  ASSUME Waits, Flush
  PROVE  Waits' /\ Conserved
<1> DEFINE d == Upto(pending, Len(pending))
           e == Emitted(d, NoResult)
           w == StillWaiting(d)
           v == Labelled(tracker, w)
<1>1. pending \in Seq(Nat) /\ pendingVoice \in Seq(Nat) /\ now \in Nat
  BY DEF Waits
<1>2. d = pending
  BY <1>1, LenProperties DEF Upto
<1>3. /\ pc = "idle" /\ now' = now /\ pending' = <<>>
      /\ pendingVoice' = <<>> /\ handled' = <<>>
      /\ res' = [e EXCEPT !.voice = e.voice \o v, !.ended = backlog]
  BY DEF Flush
<1>4. "voice" \in DOMAIN NoResult /\ NoResult.voice = <<>>
  BY DEF NoResult
<1>5. /\ w \in Seq(Nat)
      /\ "voice" \in DOMAIN e /\ IsEvents(e.voice)
      /\ Positions(e.voice) \in Seq(Nat)
      /\ Positions(e.voice) \o w = <<>> \o (pendingVoice \o pending)
  <2> DEFINE r == NoResult
  <2>1. "voice" \in DOMAIN r /\ r.voice = <<>>
    BY <1>4
  <2> HIDE DEF d, r
  <2>2. d \in Seq(Nat) /\ IsEvents(r.voice)
    BY <1>1, <1>2, <2>1, Empties
  <2>3. /\ StillWaiting(d) \in Seq(Nat)
        /\ "voice" \in DOMAIN Emitted(d, r)
        /\ IsEvents(Emitted(d, r).voice)
        /\ Positions(Emitted(d, r).voice) \in Seq(Nat)
        /\ Positions(Emitted(d, r).voice) \o StillWaiting(d)
              = Positions(r.voice) \o (pendingVoice \o d)
    BY <1>1, <2>1, <2>2, EmitConserves
  <2>4. Positions(r.voice) = <<>>
    BY <2>1, Empties
  <2>. QED BY <1>2, <2>3, <2>4 DEF r
<1> HIDE DEF d, e, w
<1>6. IsEvents(v) /\ Positions(v) = w
  BY <1>5, LabelledEvents
<1> HIDE DEF v
<1>7. /\ IsEvents(e.voice \o v)
      /\ Positions(e.voice \o v) = Positions(e.voice) \o w
  BY <1>5, <1>6, ConcatIsEvents
<1>8. "voice" \in DOMAIN res' /\ res'.voice = e.voice \o v
  BY <1>3, <1>5
<1>9. Waits'
  BY <1>1, <1>3, <1>7, <1>8, Empties DEF Waits
<1>10. Taken = <<>>
  BY <1>3 DEF Taken
<1>11. pendingVoice \o pending \in Seq(Nat)
  BY <1>1, ConcatProperties
<1>12. /\ <<>> \o pendingVoice = pendingVoice
       /\ <<>> \o (pendingVoice \o pending) = pendingVoice \o pending
       /\ (pendingVoice \o pending) \o <<>> = pendingVoice \o pending
       /\ <<>> \o <<>> = <<>>
  BY <1>1, <1>11, Empties
<1>13. Positions(res'.voice) = pendingVoice \o pending
  BY <1>5, <1>7, <1>8, <1>12
<1>. QED BY <1>3, <1>9, <1>10, <1>12, <1>13 DEF Conserved

LEMMA QuietSteps ==
  ASSUME Waits,
         \/ BeginFeed \/ EmptyFeed \/ EmptySlot \/ ResetSeed \/ ResetBroadcast
         \/ SignalLost \/ Replay \/ \E air \in AirSlots : ControlSlot(air)
  PROVE  Waits' /\ Conserved
<1>0. "voice" \in DOMAIN res /\ now \in Nat
  BY DEF Waits
<1>1. CASE BeginFeed
  <2>1. /\ pc = "idle" /\ now' = now /\ res' = NoResult /\ handled' = <<>>
        /\ pending' = pending /\ pendingVoice' = pendingVoice
    BY <1>1 DEF BeginFeed
  <2>. QED BY <1>0, <2>1, NothingMoves DEF NoResult
<1>2. CASE EmptySlot
  <2>1. /\ pc = "feed" /\ now' = now + 1 /\ res' = res /\ handled' = <<>>
        /\ pending' = pending /\ pendingVoice' = pendingVoice
    BY <1>2 DEF EmptySlot
  <2>. QED BY <1>0, <2>1, NothingMoves
<1>3. CASE ResetSeed
  <2>1. /\ pc = "idle" /\ now' = now /\ res' = NoResult /\ handled' = <<>>
        /\ pending' = pending /\ pendingVoice' = pendingVoice
    BY <1>3 DEF ResetSeed
  <2>. QED BY <1>0, <2>1, NothingMoves DEF NoResult
<1>4. CASE ResetBroadcast
  <2>1. /\ pc \in {"idle", "done"} /\ now' = now /\ res' = NoResult
        /\ handled' = <<>>
        /\ pending' = pending /\ pendingVoice' = pendingVoice
    BY <1>4 DEF ResetBroadcast
  <2>. QED BY <1>0, <2>1, NothingMoves DEF NoResult
<1>5. CASE SignalLost
  <2>1. /\ pc = "idle" /\ now' = now /\ res' = NoResult /\ handled' = <<>>
        /\ pending' = pending /\ pendingVoice' = pendingVoice
    BY <1>5 DEF SignalLost
  <2>. QED BY <1>0, <2>1, NothingMoves DEF NoResult
<1>6. ASSUME NEW slot, NEW key, DecodeControl(slot, key, res)
      PROVE  "voice" \in DOMAIN res' /\ res'.voice = res.voice
  <2>1. PICK m \in Decoded(slot, key) :
           LET t == OnControl(tracker, slot.pos, m)
           IN res' = [res EXCEPT !.control = TRUE, !.valid = @ \/ m.crc,
                                 !.started = @ \o StartedIn(t),
                                 !.updated = @ \o t.updated]
    BY <1>6, Zenon DEF DecodeControl
  <2>. QED BY <1>0, <2>1
<1>7. CASE Replay
  <2>1. /\ pc = "replay" /\ now' = now /\ handled' = <<>>
        /\ pending' = pending /\ pendingVoice' = pendingVoice
        /\ DecodeControl(Head(held), seed, res)
    BY <1>7 DEF Replay
  <2>. QED BY <1>0, <1>6, <2>1, NothingMoves
<1>8. ASSUME NEW air \in AirSlots, ControlSlot(air)
      PROVE  Waits' /\ Conserved
  <2> DEFINE slot == [pos |-> now, station |-> air.station, msg |-> air.msg]
  <2>1. /\ pc = "feed" /\ now' = now + 1 /\ handled' = <<>>
        /\ pending' = pending /\ pendingVoice' = pendingVoice
        /\ IF seed = 0 THEN HoldSlot(slot) ELSE DecodeControl(slot, seed, res)
    BY <1>8 DEF ControlSlot
  <2> HIDE DEF slot
  <2>2. ASSUME HoldSlot(slot)
        PROVE  "voice" \in DOMAIN res' /\ res'.voice = res.voice
    <3>1. res' = res \/ \E d : res' = [res EXCEPT !.detected = d]
      BY <2>2 DEF HoldSlot
    <3>. QED BY <1>0, <3>1
  <2>3. "voice" \in DOMAIN res' /\ res'.voice = res.voice
    BY <1>6, <2>1, <2>2
  <2>. QED BY <1>0, <2>1, <2>3, NothingMoves
<1>9. CASE EmptyFeed
  <2>1. /\ pc = "idle" /\ now' = now /\ res' = NoResult /\ handled' = <<>>
        /\ pending' = pending /\ pendingVoice' = pendingVoice
    BY <1>9 DEF EmptyFeed
  <2>. QED BY <1>0, <2>1, NothingMoves DEF NoResult
<1>. QED BY <1>1, <1>2, <1>3, <1>4, <1>5, <1>7, <1>8, <1>9

LEMMA FacchSlotConserves ==
  ASSUME Waits, NEW air \in AirSlots, FacchSlot(air)
  PROVE  Waits' /\ Conserved
<1>1. CASE VoiceSlot
  BY <1>1, VoiceSlotConserves
<1>2. CASE ~VoiceSlot
  <2>1. /\ pc = "feed" /\ now' = now + 1 /\ handled' = <<>>
        /\ pending' = pending /\ pendingVoice' = pendingVoice
        /\ \E control, valid :
              res' = [res EXCEPT !.control = control, !.valid = valid]
    BY <1>2 DEF FacchSlot
  <2>2. "voice" \in DOMAIN res' /\ res'.voice = res.voice /\ now \in Nat
    BY <2>1 DEF Waits
  <2>. QED BY <2>1, <2>2, NothingMoves
<1>. QED BY <1>1, <1>2

LEMMA StepConserves ==
  ASSUME Waits, DecoderNext
  PROVE  Waits' /\ Conserved
<1>1. CASE \E air \in AirSlots : FacchSlot(air)
  BY <1>1, FacchSlotConserves
<1>2. CASE \E key \in Stations : PinSeed(key)
  BY <1>2, PinSeedConserves
<1>. QED BY <1>1, <1>2, QuietSteps, VoiceSlotConserves, EndFeedConserves,
            FlushConserves DEF DecoderNext, Feeding, Calling, Slot

\* Nothing of a broadcast's voice is lost, repeated or reordered on its way
\* through the smoother and the wait for the scramble value.
THEOREM BurstsConserved == DecoderSpec => VoiceConserved
<1>1. DecoderInit => Waits
  BY Empties DEF DecoderInit, Waits, NoResult
<1>2. Waits /\ [DecoderNext]_decoderVars => Waits'
  <2>1. ASSUME Waits, UNCHANGED decoderVars
        PROVE  Waits'
    BY <2>1 DEF Waits, decoderVars
  <2>. QED BY <2>1, StepConserves
<1>3. DecoderSpec => []Waits
  BY <1>1, <1>2, PTL DEF DecoderSpec
<1> DEFINE Whole == LET taken == IF pc \in {"idle", "done"} THEN <<>>
                                 ELSE Positions(res.voice)
                    IN taken \o pendingVoice \o pending \o handled'
                          = Positions(res'.voice) \o pendingVoice' \o pending'
<1>4. Waits /\ [DecoderNext]_decoderVars => [Whole]_decoderVars
  <2>1. ASSUME Waits, DecoderNext
        PROVE  Whole
    BY <2>1, StepConserves DEF Conserved, Taken
  <2>. QED BY <2>1
<1>5. DecoderSpec => [][Whole]_decoderVars
  BY <1>3, <1>4, PTL DEF DecoderSpec
<1>. QED BY <1>5 DEF VoiceConserved

-----------------------------------------------------------------------------
(* Taking some of a sequence's elements.                                   *)

Rank(I, i) == Cardinality({j \in I : j <= i})

\* The indices of a set are numbered without a gap: for each k there is one
\* index with k indices up to it.
LEMMA RankProperties ==
  ASSUME NEW n \in Nat, NEW I \in SUBSET (1 .. n)
  PROVE  /\ IsFiniteSet(I) /\ Cardinality(I) \in Nat
         /\ \A i \in I : Rank(I, i) \in 1 .. Cardinality(I)
         /\ \A i, j \in I : Rank(I, i) = Rank(I, j) => i = j
         /\ \A k \in 1 .. Cardinality(I) : \E i \in I : Rank(I, i) = k
<1> DEFINE Low(i) == {j \in I : j <= i}
           c == Cardinality(I)
<1>1. IsFiniteSet(1 .. n)
  BY FS_Interval
<1>2. IsFiniteSet(I) /\ c \in Nat
  BY <1>1, FS_Subset, FS_CardinalityType
<1>3. ASSUME NEW i \in I
      PROVE  /\ IsFiniteSet(Low(i)) /\ Cardinality(Low(i)) \in 1 .. c
  <2>1. Low(i) \in SUBSET I
    OBVIOUS
  <2>2. IsFiniteSet(Low(i)) /\ Cardinality(Low(i)) <= c
    BY <1>2, <2>1, FS_Subset
  <2>3. Cardinality(Low(i)) \in Nat
    BY <2>2, FS_CardinalityType
  <2>4. i \in Low(i)
    OBVIOUS
  <2>5. Cardinality(Low(i)) # 0
    BY <2>2, <2>4, FS_EmptySet
  <2>. HIDE DEF Low, c
  <2>. QED BY <1>2, <2>2, <2>3, <2>5
<1>4. ASSUME NEW i \in I, NEW j \in I, i < j
      PROVE  Cardinality(Low(i)) # Cardinality(Low(j))
  <2>1. Low(i) \in SUBSET Low(j)
    <3>1. i \in Nat /\ j \in Nat
      OBVIOUS
    <3>2. ASSUME NEW x \in I, x <= i
          PROVE  x <= j
      <4>1. x \in Nat
        OBVIOUS
      <4>. QED BY <1>4, <3>1, <3>2, <4>1
    <3>. QED BY <3>2
  <2>2. j \in Low(j) /\ j \notin Low(i)
    BY <1>4
  <2>. QED BY <1>3, <2>1, <2>2, FS_Subset
<1>5. ASSUME NEW i \in I, NEW j \in I, Rank(I, i) = Rank(I, j)
      PROVE  i = j
  BY <1>4, <1>5 DEF Rank
<1>6. ASSUME NEW k \in 1 .. c, \A i \in I : Rank(I, i) # k
      PROVE  FALSE
  <2> DEFINE T == (1 .. c) \ {k}
             f == [i \in I |-> Rank(I, i)]
  <2>1. IsFiniteSet(1 .. c) /\ Cardinality(1 .. c) = c
    BY <1>2, FS_Interval
  <2>2. IsFiniteSet(T) /\ Cardinality(T) = c - 1
    BY <2>1, FS_RemoveElement
  <2>3. f \in [I -> T]
    BY <1>3, <1>6 DEF Rank
  <2>4. Cardinality(T) < Cardinality(I)
    BY <1>2, <2>2
  <2>. HIDE DEF T
  <2>5. \E x, y \in I : x # y /\ f[x] = f[y]
    <3>. HIDE DEF f
    <3>. QED BY <1>2, <2>2, <2>3, <2>4, FS_PigeonHole
  <2>. QED BY <1>5, <2>5
<1>7. \A i \in I : Rank(I, i) \in 1 .. Cardinality(I)
  BY <1>3 DEF Rank
<1>. QED BY <1>2, <1>5, <1>6, <1>7

\* What is picked comes from the indices, each of them once.
LEMMA PickedIndices ==
  ASSUME NEW S, NEW s \in Seq(S), NEW I \in SUBSET DOMAIN s,
         NEW p, p = Picked(s, I)
  PROVE  /\ p \in Seq(S) /\ DOMAIN p = 1 .. Len(p)
         /\ \E at \in [DOMAIN p -> I] :
               /\ \A k \in DOMAIN p : p[k] = s[at[k]]
               /\ \A k, l \in DOMAIN p : at[k] = at[l] => k = l
               /\ \A i \in I : \E k \in DOMAIN p : at[k] = i
<1> DEFINE n == Len(s)
           c == Cardinality(I)
           at == [k \in 1 .. c |-> CHOOSE i \in I : Rank(I, i) = k]
<1>1. n \in Nat /\ DOMAIN s = 1 .. n /\ \A i \in 1 .. n : s[i] \in S
  BY ElementOfSeq, LenProperties
<1>2. I \in SUBSET (1 .. n)
  BY <1>1
<1>3. /\ c \in Nat
      /\ \A i \in I : Rank(I, i) \in 1 .. c
      /\ \A i, j \in I : Rank(I, i) = Rank(I, j) => i = j
      /\ \A k \in 1 .. c : \E i \in I : Rank(I, i) = k
  <2>. HIDE DEF n
  <2>. QED BY <1>1, <1>2, RankProperties
<1>4. \A k \in 1 .. c : at[k] \in I /\ Rank(I, at[k]) = k
  BY <1>3
<1>5. p = [k \in 1 .. c |-> s[at[k]]]
  BY DEF Picked, Rank
<1>. HIDE DEF c
<1>6. at \in [1 .. c -> I]
  BY <1>4
<1>. HIDE DEF at
<1>7. p \in [1 .. c -> S]
  BY <1>1, <1>2, <1>5, <1>6
<1>8. p \in Seq(S) /\ Len(p) = c /\ DOMAIN p = 1 .. c
  BY <1>3, <1>7
<1>9. /\ \A k \in DOMAIN p : p[k] = s[at[k]]
      /\ \A k, l \in DOMAIN p : at[k] = at[l] => k = l
      /\ \A i \in I : \E k \in DOMAIN p : at[k] = i
  <2>1. \A k \in 1 .. c : p[k] = s[at[k]]
    BY <1>5
  <2>2. \A k, l \in 1 .. c : at[k] = at[l] => k = l
    BY <1>4
  <2>3. \A i \in I : at[Rank(I, i)] = i
    BY <1>3, <1>4
  <2>. QED BY <1>3, <1>8, <2>1, <2>2, <2>3
<1>. QED BY <1>6, <1>8, <1>9

-----------------------------------------------------------------------------
(* The tracker, whatever the order of the positions: the replay of the      *)
(* slots that were held goes back in time.                                  *)

Ordered(t) ==
    /\ t \in Tracker
    /\ IsOpen(t) => /\ ~t.open.closed /\ t.open.id < t.nextID
                    /\ \A i \in DOMAIN t.recent : t.recent[i].id < t.open.id
    /\ \A i \in DOMAIN t.recent : t.recent[i].closed /\ t.recent[i].id \in 1 .. t.nextID - 1
    /\ \A i, j \in DOMAIN t.recent : i < j => t.recent[i].id < t.recent[j].id

\* What a call at pos may do to the windows: close one there, or open new ones.
Moved(v, w, pos) ==
    /\ w.id = v.id /\ w.openPos = v.openPos
    /\ v.closed => w = v
    /\ ~v.closed /\ w.closed => w.closePos >= pos

Grows(s, t, pos) ==
    /\ s.nextID <= t.nextID
    /\ \A w \in Windows(t) :
          \/ \E v \in Windows(s) : Moved(v, w, pos)
          \/ w.id >= s.nextID

\* What a call says it has changed: the window that was open if it is not any
\* more, and every one opened; only the latter can be there twice.
Reports(s, t) ==
    /\ \A id \in Elements(t.changed) :
          /\ id \in 1 .. t.nextID - 1
          /\ id = s.open.id \/ id >= s.nextID
    /\ \A id \in s.nextID .. t.nextID - 1 : id \in Elements(t.changed)
    /\ IsOpen(s) => (t.open.id # s.open.id <=> s.open.id \in Elements(t.changed))
    /\ IsOpen(t) => t.open.id = s.open.id \/ t.open.id >= s.nextID
    /\ \A i, j \in DOMAIN t.changed :
          i # j /\ t.changed[i] = t.changed[j] => t.changed[i] >= s.nextID
    /\ \A id \in Elements(t.changed) :
          id # t.open.id => \E w \in Windows(t) : w.id = id

\* No window has been closed yet in this call.
Uncut(t) == IsOpen(t) => \A id \in Elements(t.changed) : id = t.open.id

Leads(s, t, pos) ==
    Ordered(s) /\ Ordered(t) /\ Grows(s, t, pos) /\ Reports(s, t)

LEMMA OrderedTypes ==
  ASSUME NEW t, Ordered(t)
  PROVE  /\ t \in Tracker
         /\ t.open \in Window /\ t.recent \in Seq(Window)
         /\ t.nextID \in Nat \ {0} /\ t.changed \in Seq(Nat) /\ t.open.id \in Nat
         /\ t.open.closed \in BOOLEAN /\ t.open.openPos \in Nat
         /\ Len(t.recent) \in Nat /\ DOMAIN t.recent = 1 .. Len(t.recent)
         /\ \A i \in DOMAIN t.recent : t.recent[i] \in Window
         /\ \A i \in DOMAIN t.recent : t.recent[i].id \in Nat
         /\ IsOpen(t) => t.open.id # 0
<1>1. /\ t \in Tracker /\ t.open \in Window /\ t.recent \in Seq(Window)
      /\ t.nextID \in Nat \ {0} /\ t.changed \in Seq(Nat)
  BY DEF Ordered, Tracker
<1>2. t.open.id \in Nat /\ t.open.closed \in BOOLEAN /\ t.open.openPos \in Nat
  BY <1>1 DEF Window
<1>3. Len(t.recent) \in Nat /\ DOMAIN t.recent = 1 .. Len(t.recent)
  BY <1>1, LenProperties
<1>4. \A i \in DOMAIN t.recent : t.recent[i] \in Window
  BY <1>1, <1>3, ElementOfSeq
<1>5. \A i \in DOMAIN t.recent : t.recent[i].id \in Nat
  BY <1>4 DEF Window
<1>. QED BY <1>1, <1>2, <1>3, <1>4, <1>5 DEF IsOpen

\* Windows of different ids.
LEMMA OneWindowPerId ==
  ASSUME NEW t, Ordered(t), NEW v \in Windows(t), NEW w \in Windows(t), v.id = w.id
  PROVE  v = w
<1>1. \A i, j \in DOMAIN t.recent : t.recent[i].id = t.recent[j].id => i = j
  <2> SUFFICES ASSUME NEW i \in DOMAIN t.recent, NEW j \in DOMAIN t.recent,
                      t.recent[i].id = t.recent[j].id
               PROVE  i = j
    OBVIOUS
  <2>1. i \in Nat /\ j \in Nat /\ t.recent[i].id \in Nat /\ t.recent[j].id \in Nat
    BY OrderedTypes
  <2>2. /\ i < j => t.recent[i].id < t.recent[j].id
        /\ j < i => t.recent[j].id < t.recent[i].id
    BY DEF Ordered
  <2>. QED BY <2>1, <2>2
<1>2. IsOpen(t) => \A i \in DOMAIN t.recent : t.recent[i].id # t.open.id
  BY OrderedTypes DEF Ordered
<1>. QED BY <1>1, <1>2 DEF Windows

LEMMA SameWindows ==
  ASSUME NEW s, NEW t, NEW u \in Tracker, NEW pos \in Nat, Leads(s, t, pos),
         u.recent = t.recent, u.nextID = t.nextID, u.changed = t.changed,
         u.open.id = t.open.id, u.open.openPos = t.open.openPos,
         u.open.closed = t.open.closed, t.open.closed => u.open = t.open
  PROVE  /\ Leads(s, u, pos)
         /\ Uncut(t) => Uncut(u)
<1>1. IsOpen(u) <=> IsOpen(t)
  BY DEF IsOpen
<1>2. Ordered(u)
  BY <1>1 DEF Leads, Ordered
<1>3. Uncut(t) => Uncut(u)
  BY <1>1 DEF Uncut
<1>4. ASSUME NEW w \in Windows(u)
      PROVE  w \in Windows(t) \/ (IsOpen(t) /\ w = u.open /\ t.open \in Windows(t))
  BY <1>1 DEF Windows
<1>5. Grows(s, u, pos)
  <2> SUFFICES ASSUME NEW w \in Windows(u)
               PROVE  \/ \E v \in Windows(s) : Moved(v, w, pos)
                      \/ w.id >= s.nextID
    BY DEF Leads, Grows
  <2>1. CASE w \in Windows(t)
    BY <2>1 DEF Leads, Grows
  <2>2. CASE IsOpen(t) /\ w = u.open /\ t.open \in Windows(t)
    <3>1. ~t.open.closed
      BY <2>2 DEF Leads, Ordered
    <3>2. ASSUME NEW v, Moved(v, t.open, pos)
          PROVE  Moved(v, w, pos)
      <4>1. ~v.closed
        BY <3>1, <3>2 DEF Moved
      <4>. QED BY <2>2, <3>1, <3>2, <4>1 DEF Moved
    <3>. QED BY <2>2, <3>2 DEF Leads, Grows
  <2>. QED BY <1>4, <2>1, <2>2
<1>6. ASSUME NEW w \in Windows(t)
      PROVE  \E x \in Windows(u) : x.id = w.id
  BY <1>1 DEF Windows
<1>7. Reports(s, u)
  BY <1>1, <1>6 DEF Leads, Reports
<1>. QED BY <1>2, <1>3, <1>5, <1>7 DEF Leads

LEMMA LeadsItself ==
  ASSUME NEW s, NEW t, NEW pos \in Nat, Ordered(s), t = [s EXCEPT !.changed = <<>>]
  PROVE  Leads(s, t, pos) /\ t.changed = <<>>
<1>1. /\ t \in Tracker /\ t.open = s.open /\ t.recent = s.recent
      /\ t.nextID = s.nextID /\ t.changed = <<>>
  <2>1. <<>> \in Seq(Nat)
    OBVIOUS
  <2>. QED BY <2>1 DEF Ordered, Tracker
<1>2. Elements(t.changed) = {}
  BY <1>1 DEF Elements
<1>3. IsOpen(t) <=> IsOpen(s)
  BY <1>1 DEF IsOpen
<1>4. Windows(t) = Windows(s)
  BY <1>1, <1>3 DEF Windows
<1>5. Ordered(t)
  BY <1>1, <1>3 DEF Ordered
<1>6. Grows(s, t, pos)
  <2>1. s.nextID \in Nat
    BY OrderedTypes
  <2>2. \A v : Moved(v, v, pos)
    BY DEF Moved
  <2>. QED BY <1>1, <1>4, <2>1, <2>2 DEF Grows
<1>7. Reports(s, t)
  <2>1. s.nextID \in Nat
    BY OrderedTypes
  <2>. QED BY <1>1, <1>2, <1>3, <2>1 DEF Reports
<1>. QED BY <1>1, <1>5, <1>6, <1>7 DEF Leads

LEMMA NoWindowType == NoWindow \in Window
BY DEF NoWindow, Window, NoTarget, Target, Causes

\* Opening and closing a window.
LEMMA Opens ==
  ASSUME NEW s, NEW t, NEW pos \in Nat, Leads(s, t, pos), ~IsOpen(t),
         NEW p \in Nat, NEW target \in Target, NEW ok \in BOOLEAN, NEW mid \in BOOLEAN,
         NEW u, u = OpenWindow(t, p, target, ok, mid)
  PROVE  /\ Leads(s, u, pos)
         /\ t.changed = <<>> => Uncut(u)
<1> DEFINE w == [NoWindow EXCEPT !.id = t.nextID, !.openPos = p,
                                 !.target = target, !.targetOK = ok,
                                 !.midJoin = mid]
           n == t.nextID
           ch == Append(t.changed, n)
<1>0. Ordered(s) /\ Ordered(t)
  BY DEF Leads
<1>1. /\ n \in Nat \ {0} /\ s.nextID \in Nat \ {0} /\ s.nextID <= n
      /\ s.open.id \in Nat /\ t.changed \in Seq(Nat) /\ t \in Tracker
      /\ \A i \in DOMAIN t.recent : t.recent[i].id \in Nat
  BY <1>0, OrderedTypes DEF Leads, Grows
<1>2. w \in Window /\ w.id = n /\ ~w.closed
  BY <1>1, NoWindowType DEF Window, NoWindow
<1>3. /\ u.open = w /\ u.recent = t.recent /\ u.nextID = n + 1
      /\ u.changed = ch /\ u \in Tracker
  <2>1. ch \in Seq(Nat)
    BY <1>1, AppendProperties
  <2>2. u = [t EXCEPT !.open = w, !.nextID = n + 1, !.midJoin = FALSE, !.changed = ch]
    BY DEF OpenWindow
  <2>3. t \in Tracker /\ n + 1 \in Nat \ {0} /\ w \in Window
    BY <1>1, <1>2
  <2>. HIDE DEF w, ch, n
  <2>4. u.open = w /\ u.recent = t.recent /\ u.nextID = n + 1 /\ u.changed = ch
    BY <2>2, <2>3 DEF Tracker
  <2>5. u \in Tracker
    BY <2>1, <2>2, <2>3 DEF Tracker
  <2>. QED BY <2>4, <2>5
<1>. HIDE DEF w
<1>4. IsOpen(u) /\ u.open.id = n
  BY <1>1, <1>2, <1>3 DEF IsOpen
<1>5. Elements(ch) = Elements(t.changed) \cup {n}
  <2>1. /\ DOMAIN ch = 1 .. Len(t.changed) + 1 /\ ch[Len(t.changed) + 1] = n
        /\ DOMAIN t.changed = 1 .. Len(t.changed) /\ Len(t.changed) \in Nat
        /\ \A i \in 1 .. Len(t.changed) : ch[i] = t.changed[i]
    BY <1>1, AppendProperties, LenProperties
  <2>2. \A i \in 1 .. Len(t.changed) + 1 : i \in 1 .. Len(t.changed) \/ i = Len(t.changed) + 1
    BY <2>1
  <2>3. 1 .. Len(t.changed) \subseteq 1 .. Len(t.changed) + 1
        /\ Len(t.changed) + 1 \in 1 .. Len(t.changed) + 1
    BY <2>1
  <2>. HIDE DEF ch
  <2>. QED BY <2>1, <2>2, <2>3 DEF Elements
<1>6. \A i \in DOMAIN t.recent : t.recent[i].closed /\ t.recent[i].id \in 1 .. n - 1
  BY <1>0 DEF Ordered
<1>7. Ordered(u)
  <2>1. \A i \in DOMAIN u.recent : u.recent[i].closed /\ u.recent[i].id \in 1 .. u.nextID - 1
    BY <1>1, <1>3, <1>6
  <2>2. \A i \in DOMAIN u.recent : u.recent[i].id < u.open.id
    BY <1>1, <1>3, <1>4, <1>6
  <2>3. u.open.id < u.nextID
    BY <1>1, <1>3, <1>4
  <2>4. \A i, j \in DOMAIN u.recent : i < j => u.recent[i].id < u.recent[j].id
    BY <1>0, <1>3 DEF Ordered
  <2>. QED BY <1>2, <1>3, <2>1, <2>2, <2>3, <2>4 DEF Ordered
<1>8. \A x \in Windows(u) : x \in Windows(t) \/ x = u.open
  BY <1>3 DEF Windows
<1>9. Windows(t) \subseteq Windows(u)
  BY <1>3 DEF Windows
<1>10. Grows(s, u, pos)
  BY <1>1, <1>3, <1>4, <1>8 DEF Leads, Grows
<1>11. Reports(s, u)
  <2>0. t.open.id = 0
    BY DEF IsOpen
  <2>1. ASSUME NEW id \in Elements(ch)
        PROVE  /\ id \in 1 .. n /\ (id = s.open.id \/ id >= s.nextID)
               /\ id # n => \E x \in Windows(u) : x.id = id
    <3>1. CASE id \in Elements(t.changed)
      <4>1. id \in 1 .. n - 1 /\ (id = s.open.id \/ id >= s.nextID)
        BY <3>1 DEF Leads, Reports
      <4>2. id # t.open.id => \E x \in Windows(t) : x.id = id
        BY <3>1 DEF Leads, Reports
      <4>3. id # 0 /\ id \in 1 .. n
        BY <1>1, <4>1
      <4>. QED BY <1>9, <2>0, <4>1, <4>2, <4>3
    <3>2. CASE id = n
      BY <1>1, <3>2
    <3>. QED BY <1>5, <3>1, <3>2
  <2>2. \A id \in s.nextID .. n : id \in Elements(ch)
    <3>1. \A id \in s.nextID .. n : id \in s.nextID .. n - 1 \/ id = n
      BY <1>1
    <3>. QED BY <1>5, <3>1 DEF Leads, Reports
  <2>3. IsOpen(s) => s.open.id \in Elements(ch) /\ s.open.id # n
    <3>1. IsOpen(s) => s.open.id # 0 /\ s.open.id < s.nextID
      BY <1>0, OrderedTypes DEF Ordered
    <3>2. IsOpen(s) => s.open.id \in Elements(t.changed)
      BY <2>0, <3>1 DEF Leads, Reports
    <3>. QED BY <1>1, <1>5, <3>1, <3>2
  <2>4. ASSUME NEW i \in DOMAIN ch, NEW j \in DOMAIN ch, i # j, ch[i] = ch[j]
        PROVE  ch[i] >= s.nextID
    <3> DEFINE l == Len(t.changed)
    <3>1. /\ DOMAIN ch = 1 .. l + 1 /\ ch[l + 1] = n
          /\ DOMAIN t.changed = 1 .. l /\ l \in Nat
          /\ \A k \in 1 .. l : ch[k] = t.changed[k]
      BY <1>1, AppendProperties, LenProperties
    <3>2. CASE i = l + 1 \/ j = l + 1
      BY <1>1, <2>4, <3>1, <3>2
    <3>3. CASE i # l + 1 /\ j # l + 1
      <4>1. i \in 1 .. l /\ j \in 1 .. l
        BY <3>1, <3>3
      <4>2. t.changed[i] = t.changed[j] => t.changed[i] >= s.nextID
        BY <2>4, <3>1, <4>1 DEF Leads, Reports
      <4>. QED BY <2>4, <3>1, <4>1, <4>2
    <3>. QED BY <3>2, <3>3
  <2>. HIDE DEF ch
  <2>5. u.nextID - 1 = n
    BY <1>1, <1>3
  <2>6. \A i, j \in DOMAIN u.changed :
          i # j /\ u.changed[i] = u.changed[j] => u.changed[i] >= s.nextID
    BY <1>3, <2>4
  <2>7. \A id \in Elements(u.changed) :
          /\ id \in 1 .. u.nextID - 1
          /\ id = s.open.id \/ id >= s.nextID
    BY <1>3, <2>1, <2>5
  <2>8. \A id \in Elements(u.changed) :
          id # u.open.id => \E x \in Windows(u) : x.id = id
    BY <1>3, <1>4, <2>1
  <2>9. \A id \in s.nextID .. u.nextID - 1 : id \in Elements(u.changed)
    BY <1>3, <2>2, <2>5
  <2>. QED BY <1>1, <1>3, <1>4, <2>3, <2>6, <2>7, <2>8, <2>9 DEF Reports
<1>12. t.changed = <<>> => Uncut(u)
  <2>1. t.changed = <<>> => Elements(t.changed) = {}
    BY DEF Elements
  <2>. HIDE DEF ch
  <2>. QED BY <1>3, <1>4, <1>5, <2>1 DEF Uncut
<1>. QED BY <1>0, <1>7, <1>10, <1>11, <1>12 DEF Leads

\* The last elements of a sequence.
LEMMA LastOfSuffix ==
  ASSUME NEW S, NEW s \in Seq(S), NEW n \in Nat
  PROVE  /\ LastOf(s, n) \in Seq(S) /\ Len(LastOf(s, n)) <= n
         /\ \E d \in Nat : /\ Len(LastOf(s, n)) = Len(s) - d
                           /\ n > 0 /\ Len(s) > 0 => d < Len(s)
                           /\ \A i \in 1 .. Len(LastOf(s, n)) :
                                 /\ i + d \in 1 .. Len(s)
                                 /\ LastOf(s, n)[i] = s[i + d]
<1>0. Len(s) \in Nat
  BY LenProperties
<1>1. CASE Len(s) <= n
  <2>1. LastOf(s, n) = s
    BY <1>1 DEF LastOf
  <2>2. /\ Len(LastOf(s, n)) = Len(s) - 0
        /\ n > 0 /\ Len(s) > 0 => 0 < Len(s)
        /\ \A i \in 1 .. Len(LastOf(s, n)) :
              i + 0 \in 1 .. Len(s) /\ LastOf(s, n)[i] = s[i + 0]
    BY <1>0, <2>1
  <2>. QED BY <1>1, <2>1, <2>2
<1>2. CASE Len(s) > n
  <2> DEFINE d == Len(s) - n
  <2>1. LastOf(s, n) = SubSeq(s, d + 1, Len(s))
    BY <1>2 DEF LastOf
  <2>2. d \in Nat /\ d + 1 \in Nat /\ Len(s) \in Nat
    BY <1>0, <1>2
  <2>3. /\ Len(LastOf(s, n)) = Len(s) - d
        /\ \A i \in 1 .. Len(LastOf(s, n)) :
              i + d \in 1 .. Len(s) /\ LastOf(s, n)[i] = s[i + d]
    BY <1>2, <2>1, <2>2
  <2>4. LastOf(s, n) \in Seq(S)
    <3>1. \A i \in 1 .. Len(s) : s[i] \in S
      BY ElementOfSeq
    <3>. QED BY <1>2, <2>1, <2>2, <3>1
  <2>5. Len(LastOf(s, n)) <= n /\ (n > 0 => d < Len(s))
    BY <2>2, <2>3
  <2>. QED BY <2>2, <2>3, <2>4, <2>5
<1>. QED BY <1>0, <1>1, <1>2

LEMMA CloseOpenFields ==
  ASSUME NEW t, Ordered(t), IsOpen(t), NEW c \in Nat, NEW cause \in Causes,
         NEW w, w = ClosedWindow(t.open, c, cause),
         NEW u, u = CloseOpen(t, c, cause)
  PROVE  /\ w.id = t.open.id /\ w.openPos = t.open.openPos /\ w.closed
         /\ w.closePos = c /\ w.cause = cause
         /\ ~IsOpen(u) /\ u.open.id = 0 /\ u.nextID = t.nextID /\ Ordered(u)
         /\ u.changed = Append(t.changed, t.open.id)
         /\ w \in Windows(u)
         /\ \A x \in Windows(u) : x = w \/ (x \in Windows(t) /\ x # t.open /\ x.id # t.open.id)
<1> DEFINE all == Append(t.recent, w)
           rest == LastOf(all, Keep)
           ch == Append(t.changed, t.open.id)
<1>0. /\ t \in Tracker /\ t.open \in Window /\ t.recent \in Seq(Window)
      /\ t.nextID \in Nat \ {0} /\ t.changed \in Seq(Nat) /\ t.open.id \in Nat
      /\ Len(t.recent) \in Nat /\ DOMAIN t.recent = 1 .. Len(t.recent)
      /\ \A i \in DOMAIN t.recent : t.recent[i] \in Window /\ t.recent[i].id \in Nat
      /\ t.open.id # 0
  BY OrderedTypes
<1>1. /\ w \in Window
      /\ w.id = t.open.id /\ w.openPos = t.open.openPos /\ w.closed
      /\ w.closePos = c /\ w.cause = cause
  BY <1>0 DEF ClosedWindow, Window
<1>2. all \in Seq(Window) /\ Keep \in Nat \ {0}
  BY <1>0, <1>1, WindowConstants, AppendProperties
<1>3. ch \in Seq(Nat)
  BY <1>0, AppendProperties
<1>4. /\ Len(all) = Len(t.recent) + 1 /\ all[Len(t.recent) + 1] = w
      /\ \A i \in 1 .. Len(t.recent) : all[i] = t.recent[i]
  BY <1>0, <1>1, AppendProperties
<1>. HIDE DEF all
<1>5. /\ rest \in Seq(Window)
      /\ \E d \in Nat : /\ Len(rest) = Len(all) - d /\ d < Len(all)
                        /\ \A i \in 1 .. Len(rest) :
                              i + d \in 1 .. Len(all) /\ rest[i] = all[i + d]
  <2>1. Len(all) > 0 /\ Keep > 0 /\ Keep \in Nat
    BY <1>0, <1>2, <1>4
  <2>2. /\ LastOf(all, Keep) \in Seq(Window)
        /\ \E d \in Nat : /\ Len(LastOf(all, Keep)) = Len(all) - d
                          /\ Keep > 0 /\ Len(all) > 0 => d < Len(all)
                          /\ \A i \in 1 .. Len(LastOf(all, Keep)) :
                                /\ i + d \in 1 .. Len(all)
                                /\ LastOf(all, Keep)[i] = all[i + d]
    BY <1>2, <2>1, LastOfSuffix
  <2>. QED BY <2>1, <2>2
<1>6. u = [t EXCEPT !.recent = rest, !.open = NoWindow, !.khZeroAt = -1,
                    !.midJoin = FALSE, !.changed = ch]
  BY DEF CloseOpen, all
<1>. HIDE DEF rest, ch
<1>7. /\ u.recent = rest /\ u.open = NoWindow /\ u.nextID = t.nextID /\ u.changed = ch
  BY <1>0, <1>6 DEF Tracker
<1>8. u \in Tracker
  <2>1. -1 \in Nat \cup {-1}
    OBVIOUS
  <2>. QED BY <1>0, <1>3, <1>5, <1>6, <2>1, NoWindowType DEF Tracker
<1>9. ~IsOpen(u) /\ u.open.id = 0
  BY <1>7 DEF IsOpen, NoWindow
<1>10. PICK d \in Nat : /\ Len(rest) = Len(all) - d /\ d < Len(all)
                         /\ \A i \in 1 .. Len(rest) :
                               i + d \in 1 .. Len(all) /\ rest[i] = all[i + d]
  BY <1>5
<1>11. DOMAIN rest = 1 .. Len(rest) /\ Len(rest) \in Nat
  BY <1>5, LenProperties
<1>12. ASSUME NEW i \in 1 .. Len(all)
       PROVE  \/ i = Len(t.recent) + 1 /\ all[i] = w
              \/ i \in DOMAIN t.recent /\ all[i] = t.recent[i] /\ all[i].id < t.open.id
  <2>1. i \in 1 .. Len(t.recent) \/ i = Len(t.recent) + 1
    BY <1>0, <1>4
  <2>. QED BY <1>0, <1>4, <2>1 DEF Ordered
<1>13. \A i \in 1 .. Len(all) : all[i].closed /\ all[i].id \in 1 .. t.nextID - 1
  <2>1. w.closed /\ w.id \in 1 .. t.nextID - 1
    BY <1>0, <1>1 DEF Ordered
  <2>. QED BY <1>12, <2>1 DEF Ordered
<1>14. \A i, j \in 1 .. Len(all) : i < j => all[i].id < all[j].id
  <2> SUFFICES ASSUME NEW i \in 1 .. Len(all), NEW j \in 1 .. Len(all), i < j
               PROVE  all[i].id < all[j].id
    OBVIOUS
  <2>1. i # Len(t.recent) + 1
    BY <1>0, <1>4
  <2>2. i \in DOMAIN t.recent /\ all[i] = t.recent[i] /\ all[i].id < t.open.id
    BY <1>12, <2>1
  <2>3. CASE all[j] = w
    BY <1>1, <2>2, <2>3
  <2>4. CASE j \in DOMAIN t.recent /\ all[j] = t.recent[j]
    BY <2>2, <2>4 DEF Ordered
  <2>. QED BY <1>12, <2>3, <2>4
<1>15. Ordered(u)
  <2>1. \A i \in DOMAIN u.recent : u.recent[i].closed /\ u.recent[i].id \in 1 .. u.nextID - 1
    BY <1>7, <1>10, <1>11, <1>13
  <2>2. ASSUME NEW i \in DOMAIN u.recent, NEW j \in DOMAIN u.recent, i < j
        PROVE  u.recent[i].id < u.recent[j].id
    <3>1. i \in 1 .. Len(rest) /\ j \in 1 .. Len(rest)
      BY <1>7, <1>11
    <3>2. i + d \in 1 .. Len(all) /\ j + d \in 1 .. Len(all) /\ i + d < j + d
      BY <1>10, <2>2, <3>1
    <3>3. all[i + d].id < all[j + d].id
      BY <1>14, <3>2
    <3>. QED BY <1>7, <1>10, <3>1, <3>3
  <2>. QED BY <1>8, <1>9, <2>1, <2>2 DEF Ordered
<1>16. w \in Windows(u)
  <2>1. Len(rest) \in 1 .. Len(rest) /\ Len(rest) + d = Len(all)
    BY <1>0, <1>4, <1>10, <1>11
  <2>2. rest[Len(rest)] = w
    BY <1>4, <1>10, <2>1
  <2>. QED BY <1>7, <1>11, <2>1, <2>2 DEF Windows
<1>17. ASSUME NEW x \in Windows(u)
       PROVE  x = w \/ (x \in Windows(t) /\ x # t.open /\ x.id # t.open.id)
  <2>1. PICK i \in 1 .. Len(rest) : x = rest[i]
    BY <1>7, <1>9, <1>11 DEF Windows
  <2>2. PICK e \in 1 .. Len(all) : x = all[e]
    BY <1>10, <2>1
  <2>4. ASSUME NEW k \in DOMAIN t.recent, x = t.recent[k], x.id < t.open.id
        PROVE  x \in Windows(t) /\ x # t.open /\ x.id # t.open.id
    <3>1. x \in Windows(t) /\ x.id < t.open.id /\ x.id \in Nat
      BY <1>0, <2>4 DEF Windows
    <3>. QED BY <1>0, <3>1
  <2>. QED BY <1>12, <2>2, <2>4
<1>. QED BY <1>1, <1>7, <1>9, <1>15, <1>16, <1>17 DEF ch

LEMMA Closes ==
  ASSUME NEW s, NEW t, NEW pos \in Nat, Leads(s, t, pos), IsOpen(t), Uncut(t),
         NEW c \in Nat, c >= pos, NEW cause \in Causes,
         NEW u, u = CloseOpen(t, c, cause)
  PROVE  Leads(s, u, pos) /\ ~IsOpen(u)
<1> DEFINE o == t.open.id
           ch == Append(t.changed, o)
<1>0. Ordered(s) /\ Ordered(t)
  BY DEF Leads
<1>1. PICK w : w = ClosedWindow(t.open, c, cause)
  OBVIOUS
<1>2. /\ w.id = o /\ w.openPos = t.open.openPos /\ w.closed /\ w.closePos = c
      /\ ~IsOpen(u) /\ u.open.id = 0 /\ u.nextID = t.nextID /\ Ordered(u)
      /\ u.changed = ch /\ w \in Windows(u)
      /\ \A x \in Windows(u) : x = w \/ x \in Windows(t)
  <2>1. /\ w.id = t.open.id /\ w.openPos = t.open.openPos /\ w.closed
        /\ w.closePos = c /\ w.cause = cause
        /\ ~IsOpen(u) /\ u.open.id = 0 /\ u.nextID = t.nextID /\ Ordered(u)
        /\ u.changed = Append(t.changed, t.open.id)
        /\ w \in Windows(u)
        /\ \A x \in Windows(u) : x = w \/ (x \in Windows(t) /\ x # t.open /\ x.id # t.open.id)
    BY <1>0, <1>1, CloseOpenFields
  <2>. QED BY <2>1
<1>3. /\ o \in Nat \ {0} /\ o < t.nextID /\ ~t.open.closed
      /\ t.nextID \in Nat \ {0} /\ s.nextID \in Nat \ {0} /\ s.nextID <= t.nextID
      /\ s.open.id \in Nat /\ (IsOpen(s) => s.open.id # 0)
      /\ t.changed \in Seq(Nat)
  BY <1>0, OrderedTypes DEF Ordered, Leads, Grows
<1>4. Grows(s, u, pos)
  <2>1. t.open \in Windows(t)
    BY DEF Windows
  <2>2. ASSUME NEW v, Moved(v, t.open, pos)
        PROVE  Moved(v, w, pos)
    <3>1. ~v.closed
      BY <1>3, <2>2 DEF Moved
    <3>. QED BY <1>2, <2>2, <3>1 DEF Moved
  <2>3. (\E v \in Windows(s) : Moved(v, w, pos)) \/ w.id >= s.nextID
    BY <1>2, <2>1, <2>2 DEF Leads, Grows
  <2>. QED BY <1>2, <2>3 DEF Leads, Grows
<1>5. /\ Elements(ch) = Elements(t.changed) \cup {o}
      /\ \A i \in DOMAIN ch : \/ i \in DOMAIN t.changed /\ ch[i] = t.changed[i]
                              \/ i = Len(t.changed) + 1 /\ ch[i] = o
  <2> DEFINE l == Len(t.changed)
  <2>1. /\ DOMAIN ch = 1 .. l + 1 /\ ch[l + 1] = o
        /\ DOMAIN t.changed = 1 .. l /\ l \in Nat
        /\ \A i \in 1 .. l : ch[i] = t.changed[i]
    BY <1>3, AppendProperties, LenProperties
  <2>2. \A i \in 1 .. l + 1 : i \in 1 .. l \/ i = l + 1
    BY <2>1
  <2>3. 1 .. l \subseteq 1 .. l + 1 /\ l + 1 \in 1 .. l + 1
    BY <2>1
  <2>. HIDE DEF ch, o, l
  <2>4. Elements(ch) = Elements(t.changed) \cup {o}
    BY <2>1, <2>2, <2>3 DEF Elements
  <2>. QED BY <2>1, <2>2, <2>4 DEF l
<1>. HIDE DEF ch
<1>6. o = s.open.id \/ o >= s.nextID
  BY DEF Leads, Reports
<1>7. Reports(s, u)
  <2>1. ASSUME NEW id \in Elements(ch)
        PROVE  /\ id \in 1 .. t.nextID - 1 /\ (id = s.open.id \/ id >= s.nextID)
               /\ id = o
    <3>1. CASE id \in Elements(t.changed)
      BY <3>1 DEF Leads, Reports, Uncut
    <3>2. CASE id = o
      BY <1>3, <1>6, <3>2
    <3>. QED BY <1>5, <3>1, <3>2
  <2>2. \A id \in s.nextID .. t.nextID - 1 : id \in Elements(ch)
    BY <1>5 DEF Leads, Reports
  <2>3. IsOpen(s) => s.open.id \in Elements(ch)
    BY <1>5 DEF Leads, Reports
  <2>4. ASSUME NEW i \in DOMAIN ch, NEW j \in DOMAIN ch, i # j, ch[i] = ch[j]
        PROVE  ch[i] >= s.nextID
    <3>1. CASE i \in DOMAIN t.changed /\ ch[i] = t.changed[i] /\ j \in DOMAIN t.changed
               /\ ch[j] = t.changed[j]
      BY <2>4, <3>1 DEF Leads, Reports
    <3>2. CASE o \in Elements(t.changed) /\ ch[i] = o
      <4>1. IsOpen(s) => s.open.id # o
        BY <3>2 DEF Leads, Reports
      <4>2. ~IsOpen(s) => s.open.id # o
        BY <1>3 DEF IsOpen
      <4>. QED BY <1>6, <3>2, <4>1, <4>2
    <3>3. \A k \in DOMAIN t.changed : t.changed[k] \in Elements(t.changed)
      BY DEF Elements
    <3>. QED BY <1>5, <2>4, <3>1, <3>2, <3>3
  <2>5. \A id \in Elements(ch) : \E x \in Windows(u) : x.id = id
    BY <1>2, <2>1
  <2>6. IsOpen(s) => u.open.id # s.open.id
    BY <1>2, <1>3
  <2>. QED BY <1>2, <2>1, <2>2, <2>3, <2>4, <2>5, <2>6 DEF Reports
<1>. QED BY <1>0, <1>2, <1>4, <1>7 DEF Leads

\* Fields the windows do not depend on.
LEMMA OtherFields ==
  ASSUME NEW s, NEW t, NEW u \in Tracker, NEW pos \in Nat, Leads(s, t, pos),
         u.recent = t.recent, u.nextID = t.nextID, u.changed = t.changed,
         u.open = t.open
  PROVE  /\ Leads(s, u, pos)
         /\ Uncut(t) => Uncut(u)
BY SameWindows

LEMMA NothingChanged ==
  ASSUME NEW t, t.changed = <<>>
  PROVE  Uncut(t)
<1>1. Elements(t.changed) = {}
  BY DEF Elements
<1>. QED BY <1>1 DEF Uncut

LEMMA NoteIDBitsLeads ==
  ASSUME NEW s, Ordered(s), NEW pos \in Nat, NEW m \in Message,
         NEW u, u = NoteIDBits([s EXCEPT !.changed = <<>>], m)
  PROVE  Leads(s, u, pos) /\ u.changed = <<>>
<1> DEFINE f == [s EXCEPT !.changed = <<>>]
           n == 8 + m.bits
<1>1. Leads(s, f, pos) /\ f.changed = <<>>
  BY LeadsItself
<1>2. n \in Nat
  BY WindowConstants DEF Message
<1>3. u = f \/ u = [f EXCEPT !.idBits = n]
  BY DEF NoteIDBits
<1>. HIDE DEF f, n
<1>4. f \in Tracker
  BY <1>1 DEF Leads, Ordered
<1>5. CASE u = [f EXCEPT !.idBits = n]
  <2>1. /\ u.recent = f.recent /\ u.nextID = f.nextID /\ u.changed = f.changed
        /\ u.open = f.open /\ u \in Tracker
    BY <1>2, <1>4, <1>5 DEF Tracker
  <2>. QED BY <1>1, <2>1, OtherFields
<1>. QED BY <1>1, <1>3, <1>5

LEMMA FirstHeaderLeads ==
  ASSUME NEW s, NEW t, NEW pos \in Nat, Leads(s, t, pos), NEW m \in Message,
         NEW u, u = FirstHeader(t, pos, m)
  PROVE  Leads(s, u, pos) /\ u.changed = t.changed
<1>1. t \in Tracker
  BY DEF Leads, Ordered
<1>2. OnAir(m) \in BOOLEAN
  BY DEF OnAir
<1>3. CASE u = [t EXCEPT !.khSeen = TRUE, !.midJoin = OnAir(m), !.khOnPos = pos]
  <2>1. /\ u.recent = t.recent /\ u.nextID = t.nextID /\ u.changed = t.changed
        /\ u.open = t.open
    BY <1>1, <1>3 DEF Tracker
  <2>2. u \in Tracker
    BY <1>1, <1>2, <1>3 DEF Tracker
  <2>. QED BY <2>1, <2>2, OtherFields
<1>. QED BY <1>3 DEF FirstHeader

LEMMA JoinUnderWayLeads ==
  ASSUME NEW s, NEW t, NEW pos \in Nat, Leads(s, t, pos), t.changed = <<>>,
         NEW m \in Message, NEW u, u = JoinUnderWay(t, pos, m)
  PROVE  Leads(s, u, pos) /\ Uncut(u)
<1>1. t \in Tracker /\ t.khOnPos \in Nat
  BY DEF Leads, Ordered, Tracker
<1>2. CASE u = [t EXCEPT !.midJoin = FALSE]
  <2>1. /\ u.recent = t.recent /\ u.nextID = t.nextID /\ u.changed = t.changed
        /\ u.open = t.open /\ u \in Tracker
    BY <1>1, <1>2 DEF Tracker
  <2>. QED BY <2>1, OtherFields, NothingChanged
<1>3. CASE ~IsOpen(t) /\ u = OpenWindow(t, t.khOnPos, NoTarget, FALSE, TRUE)
  <2> DEFINE p == t.khOnPos
  <2>1. p \in Nat /\ NoTarget \in Target
    BY <1>1 DEF Target
  <2>2. PICK no \in BOOLEAN : ~no /\ u = OpenWindow(t, p, NoTarget, no, TRUE)
    BY <1>3
  <2>3. PICK yes \in BOOLEAN : yes /\ u = OpenWindow(t, p, NoTarget, no, yes)
    BY <2>2
  <2>. HIDE DEF p
  <2>. QED BY <1>3, <2>1, <2>3, Opens
<1>4. CASE u = t
  BY <1>4, NothingChanged
<1>. QED BY <1>2, <1>3, <1>4 DEF JoinUnderWay

LEMMA HoldOffLeads ==
  ASSUME NEW s, NEW t, NEW pos \in Nat, Leads(s, t, pos), Uncut(t), NEW m,
         NEW u, u = HoldOff(t, pos, m)
  PROVE  Leads(s, u, pos) /\ Uncut(u)
<1>1. t \in Tracker
  BY DEF Leads, Ordered
<1>2. ASSUME NEW z \in Nat \cup {-1}, u = [t EXCEPT !.khZeroAt = z]
      PROVE  Leads(s, u, pos) /\ Uncut(u)
  <2>1. /\ u.recent = t.recent /\ u.nextID = t.nextID /\ u.changed = t.changed
        /\ u.open = t.open /\ u \in Tracker
    BY <1>1, <1>2 DEF Tracker
  <2>. QED BY <2>1, OtherFields
<1>3. CASE IsOpen(t) /\ u = CloseOpen(t, pos, "kh")
  <2>1. Leads(s, u, pos) /\ ~IsOpen(u)
    <3>1. pos >= pos /\ "kh" \in Causes
      BY DEF Causes
    <3>. QED BY <1>3, <3>1, Closes
  <2>. QED BY <2>1 DEF Uncut
<1>4. -1 \in Nat \cup {-1} /\ pos \in Nat \cup {-1}
  OBVIOUS
<1>5. \/ u = [t EXCEPT !.khZeroAt = -1] \/ u = [t EXCEPT !.khZeroAt = pos]
      \/ (IsOpen(t) /\ u = CloseOpen(t, pos, "kh")) \/ u = t
  BY DEF HoldOff
<1>. QED BY <1>2, <1>3, <1>4, <1>5

LEMMA OnKHLeads ==
  ASSUME NEW s, NEW t, NEW pos \in Nat, Leads(s, t, pos), t.changed = <<>>,
         NEW m \in Message, NEW u, u = OnKH(t, pos, m)
  PROVE  Leads(s, u, pos) /\ Uncut(u)
<1>1. PICK seen : seen = FirstHeader(t, pos, m)
  OBVIOUS
<1>2. PICK joined : joined = JoinUnderWay(seen, pos, m)
  OBVIOUS
<1>3. u = HoldOff(joined, pos, m)
  BY <1>1, <1>2 DEF OnKH
<1>4. Leads(s, seen, pos) /\ seen.changed = <<>>
  BY <1>1, FirstHeaderLeads
<1>5. Leads(s, joined, pos) /\ Uncut(joined)
  BY <1>2, <1>4, JoinUnderWayLeads
<1>. QED BY <1>3, <1>5, HoldOffLeads

LEMMA RefreshTargetLeads ==
  ASSUME NEW s, NEW t, NEW pos \in Nat, Leads(s, t, pos), Uncut(t),
         NEW m \in Message, NEW u, u = RefreshTarget(t, m)
  PROVE  Leads(s, u, pos) /\ Uncut(u)
<1> DEFINE target == BroadcastTarget(t, m)
           w == [t.open EXCEPT !.target = target, !.targetOK = TRUE]
           up == Append(t.updated, t.open.id)
<1>1. /\ t \in Tracker /\ t.open \in Window /\ t.updated \in Seq(Nat)
      /\ t.open.id \in Nat /\ t.idBits \in Nat
      /\ IsOpen(t) => ~t.open.closed
  BY OrderedTypes DEF Leads, Ordered, Tracker
<1>2. target \in Target
  BY <1>1 DEF BroadcastTarget, Target, Message
<1>. HIDE DEF target
<1>3. w \in Window /\ w.id = t.open.id /\ w.openPos = t.open.openPos
      /\ w.closed = t.open.closed
  BY <1>1, <1>2 DEF Window
<1>4. up \in Seq(Nat)
  BY <1>1, AppendProperties
<1>5. \/ u = t
      \/ IsOpen(t) /\ u = [t EXCEPT !.open = w]
      \/ IsOpen(t) /\ u = [t EXCEPT !.open = w, !.updated = up]
  <2> DEFINE settled == [t EXCEPT !.open = w]
  <2>1. settled.updated = t.updated
    BY <1>1 DEF Tracker
  <2>2. [settled EXCEPT !.updated = up] = [t EXCEPT !.open = w, !.updated = up]
    OBVIOUS
  <2>3. \/ u = t
        \/ /\ IsOpen(t)
           /\ u = IF t.open.target = target THEN settled
                  ELSE [settled EXCEPT !.updated = Append(settled.updated, t.open.id)]
    BY DEF RefreshTarget, target
  <2>. QED BY <2>1, <2>2, <2>3
<1>. HIDE DEF w, up
<1>6. CASE IsOpen(t) /\ u = [t EXCEPT !.open = w]
  <2>1. /\ u.recent = t.recent /\ u.nextID = t.nextID /\ u.changed = t.changed
        /\ u.open = w
    BY <1>1, <1>6 DEF Tracker
  <2>2. u \in Tracker
    BY <1>1, <1>3, <1>6 DEF Tracker
  <2>. QED BY <1>1, <1>3, <1>6, <2>1, <2>2, SameWindows
<1>7. CASE IsOpen(t) /\ u = [t EXCEPT !.open = w, !.updated = up]
  <2>1. /\ u.recent = t.recent /\ u.nextID = t.nextID /\ u.changed = t.changed
        /\ u.open = w
    BY <1>1, <1>7 DEF Tracker
  <2>2. u \in Tracker
    BY <1>1, <1>3, <1>4, <1>7 DEF Tracker
  <2>. QED BY <1>1, <1>3, <1>7, <2>1, <2>2, SameWindows
<1>. QED BY <1>5, <1>6, <1>7

LEMMA NoteRepeatLeads ==
  ASSUME NEW s, NEW t, NEW pos \in Nat, Leads(s, t, pos), Uncut(t),
         NEW m \in Message, m.type \in Confirmable,
         NEW u, u = NoteRepeat(t, pos, m)
  PROVE  Leads(s, u, pos) /\ Uncut(u)
<1> DEFINE h == [t.hist EXCEPT ![m.type] = Repeats(t, pos, m)]
<1>1. t \in Tracker /\ t.hist \in [Confirmable -> SUBSET Nat]
  BY DEF Leads, Ordered, Tracker
<1>2. h \in [Confirmable -> SUBSET Nat]
  <2>1. Repeats(t, pos, m) \in SUBSET Nat
    BY <1>1 DEF Repeats
  <2>. QED BY <1>1, <2>1
<1>3. u = t \/ u = [t EXCEPT !.hist = h]
  BY DEF NoteRepeat
<1>. HIDE DEF h
<1>4. CASE u = [t EXCEPT !.hist = h]
  <2>1. /\ u.recent = t.recent /\ u.nextID = t.nextID /\ u.changed = t.changed
        /\ u.open = t.open
    BY <1>1, <1>4 DEF Tracker
  <2>2. u \in Tracker
    BY <1>1, <1>2, <1>4 DEF Tracker
  <2>. QED BY <2>1, <2>2, OtherFields
<1>. QED BY <1>3, <1>4

LEMMA StartOrReleaseLeads ==
  ASSUME NEW s, NEW t, NEW pos \in Nat, Leads(s, t, pos), Uncut(t),
         NEW m \in Message, NEW u, u = StartOrRelease(t, pos, m)
  PROVE  Leads(s, u, pos)
<1>1. PICK cut : cut = IF IsNewCall(t, m) THEN CloseOpen(t, pos, "newCall") ELSE t
  OBVIOUS
<1>2. pos >= pos /\ "newCall" \in Causes /\ "release" \in Causes
  BY DEF Causes
<1>3. /\ Leads(s, cut, pos)
      /\ IsOpen(cut) => cut = t
  <2>1. CASE IsOpen(t) /\ cut = CloseOpen(t, pos, "newCall")
    <3>1. Leads(s, cut, pos) /\ ~IsOpen(cut)
      BY <1>2, <2>1, Closes
    <3>. QED BY <3>1
  <2>. QED BY <1>1, <2>1 DEF IsNewCall
<1>4. u = CASE m.type \in Starts /\ ~IsOpen(cut) ->
                 OpenWindow(cut, pos, BroadcastTarget(cut, m), m.crc, FALSE)
            [] m.type = "release" /\ IsOpen(cut) -> CloseOpen(cut, pos, "release")
            [] OTHER -> cut
  BY <1>1 DEF StartOrRelease
<1>5. \/ u = cut
      \/ IsOpen(cut) /\ u = CloseOpen(cut, pos, "release")
      \/ /\ ~IsOpen(cut)
         /\ u = OpenWindow(cut, pos, BroadcastTarget(cut, m), m.crc, FALSE)
  BY <1>4 DEF Starts
<1>6. CASE IsOpen(cut) /\ u = CloseOpen(cut, pos, "release")
  BY <1>2, <1>3, <1>6, Closes
<1>7. CASE /\ ~IsOpen(cut)
           /\ u = OpenWindow(cut, pos, BroadcastTarget(cut, m), m.crc, FALSE)
  <2>1. PICK target, crc, no : /\ target = BroadcastTarget(cut, m) /\ crc = m.crc /\ no = FALSE
                               /\ u = OpenWindow(cut, pos, target, crc, no)
    BY <1>7
  <2>2. target \in Target
    BY <1>3, <2>1 DEF BroadcastTarget, Target, Message, Leads, Ordered, Tracker
  <2>3. crc \in BOOLEAN /\ no \in BOOLEAN
    BY <2>1 DEF Message
  <2>. QED BY <1>3, <1>7, <2>1, <2>2, <2>3, Opens
<1>. QED BY <1>3, <1>5, <1>6, <1>7

LEMMA OnControlLeads ==
  ASSUME NEW s, Ordered(s), NEW pos \in Nat, NEW m \in Message,
         NEW u, u = OnControl(s, pos, m)
  PROVE  Leads(s, u, pos)
<1>1. PICK fresh : fresh = NoteIDBits([s EXCEPT !.changed = <<>>], m)
  OBVIOUS
<1>2. PICK keyed : keyed = IF m.crc /\ HasHeader(m) THEN OnKH(fresh, pos, m) ELSE fresh
  OBVIOUS
<1>3. PICK aimed : aimed = IF m.type \in Starts THEN RefreshTarget(keyed, m) ELSE keyed
  OBVIOUS
<1>4. PICK noted : noted = NoteRepeat(aimed, pos, m)
  OBVIOUS
<1>5. u = IF m.type \notin Confirmable THEN keyed
          ELSE IF Confirmed(noted, m) THEN StartOrRelease(noted, pos, m)
          ELSE noted
  BY <1>1, <1>2, <1>3, <1>4 DEF OnControl
<1>6. Leads(s, fresh, pos) /\ fresh.changed = <<>>
  BY <1>1, NoteIDBitsLeads
<1>7. Leads(s, keyed, pos) /\ Uncut(keyed)
  BY <1>2, <1>6, OnKHLeads, NothingChanged
<1>8. Leads(s, aimed, pos) /\ Uncut(aimed)
  BY <1>3, <1>7, RefreshTargetLeads
<1>9. m.type \in Confirmable => Leads(s, noted, pos) /\ Uncut(noted)
  BY <1>4, <1>8, NoteRepeatLeads
<1>10. m.type \in Confirmable => \A e : e = StartOrRelease(noted, pos, m) => Leads(s, e, pos)
  BY <1>9, StartOrReleaseLeads
<1>. QED BY <1>5, <1>7, <1>9, <1>10

-----------------------------------------------------------------------------
(* The invariant.                                                          *)

QueuesInv ==
    /\ \A i, j \in DOMAIN pending : i < j => pending[i] < pending[j]
    /\ \A i \in DOMAIN pending : pending[i] < now
    /\ \A i \in DOMAIN pendingVoice : pendingVoice[i] < now
    /\ pc = "replay" => held # <<>> /\ seed # 0
    /\ pc # "replay" /\ seed # 0 => held = <<>>

VoiceInv ==
    /\ VoiceInItsWindow
    /\ told.voice.id < tracker.nextID
    /\ told.voice.id # 0 =>
          /\ told.voice.pos < now
          /\ \A i \in DOMAIN held : told.voice.pos < held[i].pos

\* No burst of the window can follow.
Past(w) ==
    /\ pc = "done" \/ w.closePos < now
    /\ \A i \in DOMAIN pending : w.closePos < pending[i]

EndInv ==
    /\ \A w \in Windows(tracker) :
          w.id \in told.ended => w.closed /\ (w.cause = "abandoned" \/ Past(w))
    /\ \A i \in DOMAIN backlog :
          /\ backlog[i].closed
          /\ \A w \in Windows(tracker) : w.id = backlog[i].id => w = backlog[i]

AccountInv ==
    /\ StartsAccounted
    /\ told.started \cup told.cut \subseteq 1 .. tracker.nextID - 1
    /\ \A i, j \in DOMAIN backlog : backlog[i].id = backlog[j].id => backlog[i] = backlog[j]

DInv == DecoderTypeOK /\ Ordered(tracker) /\ QueuesInv /\ VoiceInv /\ EndInv /\ AccountInv

-----------------------------------------------------------------------------
(* What a tracker that moves keeps.                                        *)

LEMMA SameTracker ==
  ASSUME NEW s, Ordered(s), NEW u \in Tracker, NEW pos \in Nat,
         u.open = s.open, u.recent = s.recent, u.nextID = s.nextID
  PROVE  Ordered(u) /\ Grows(s, u, pos) /\ Windows(u) = Windows(s)
<1>1. IsOpen(u) <=> IsOpen(s)
  BY DEF IsOpen
<1>2. Windows(u) = Windows(s)
  BY <1>1 DEF Windows
<1>3. Ordered(u)
  BY <1>1 DEF Ordered
<1>4. Grows(s, u, pos)
  <2>1. s.nextID \in Nat
    BY OrderedTypes
  <2>2. \A v : Moved(v, v, pos)
    BY DEF Moved
  <2>. QED BY <1>2, <2>1, <2>2 DEF Grows
<1>. QED BY <1>2, <1>3, <1>4

\* ResetBroadcast closes the open window and touches no other.
LEMMA AbandonMoves ==
  ASSUME NEW s, Ordered(s), NEW pos \in Nat,
         NEW u, u = [Abandon(s, pos) EXCEPT !.changed = <<>>]
  PROVE  /\ Ordered(u) /\ Grows(s, u, pos) /\ ~IsOpen(u) /\ u.nextID = s.nextID
         /\ IsOpen(s) => \A w \in Windows(u) :
                            w.id = s.open.id => w.closed /\ w.cause = "abandoned"
<1> DEFINE Arming == [ArmMidJoin(s) EXCEPT !.hist = NewTracker.hist, !.changed = <<>>]
           at == IF pos < s.open.openPos THEN s.open.openPos ELSE pos
<1>1. /\ Arming \in Tracker /\ Arming.open = s.open /\ Arming.recent = s.recent
      /\ Arming.nextID = s.nextID /\ Arming.changed = <<>>
  <2>1. s \in Tracker
    BY DEF Ordered
  <2>2. NewTracker.hist \in [Confirmable -> SUBSET Nat]
    BY DEF NewTracker
  <2>3. -1 \in Nat \cup {-1} /\ <<>> \in Seq(Nat)
    OBVIOUS
  <2>. QED BY <2>1, <2>2, <2>3 DEF ArmMidJoin, Tracker
<1>2. s.open.openPos \in Nat /\ s.nextID \in Nat /\ (IsOpen(s) => ~s.open.closed)
  BY OrderedTypes DEF Ordered
<1>3. at \in Nat /\ at >= pos
  BY <1>2
<1>4. Abandon(s, pos) = IF IsOpen(s) THEN CloseOpen(Arming, at, "abandoned") ELSE Arming
  BY DEF Abandon
<1>. HIDE DEF Arming, at
<1>5. Ordered(Arming) /\ Grows(s, Arming, pos) /\ Windows(Arming) = Windows(s)
  BY <1>1, SameTracker
<1>6. <<>> \in Seq(Nat)
  OBVIOUS
<1>7. CASE ~IsOpen(s)
  <2>1. u = Arming
    <3>1. u = [Arming EXCEPT !.changed = <<>>]
      BY <1>4, <1>7
    <3>. QED BY <1>1, <3>1 DEF Tracker
  <2>. QED BY <1>1, <1>5, <1>7, <2>1 DEF IsOpen
<1>8. CASE IsOpen(s)
  <2>1. PICK t : t = CloseOpen(Arming, at, "abandoned")
    OBVIOUS
  <2>2. PICK w : w = ClosedWindow(Arming.open, at, "abandoned")
    OBVIOUS
  <2>3. /\ w.id = Arming.open.id /\ w.openPos = Arming.open.openPos /\ w.closed
        /\ w.closePos = at /\ w.cause = "abandoned"
        /\ ~IsOpen(t) /\ t.open.id = 0 /\ t.nextID = Arming.nextID /\ Ordered(t)
        /\ t.changed = Append(Arming.changed, Arming.open.id)
        /\ w \in Windows(t)
        /\ \A x \in Windows(t) :
              x = w \/ (x \in Windows(Arming) /\ x # Arming.open /\ x.id # Arming.open.id)
    <3>1. IsOpen(Arming) /\ "abandoned" \in Causes
      BY <1>1, <1>8 DEF IsOpen, Causes
    <3>. QED BY <1>3, <1>5, <2>1, <2>2, <3>1, CloseOpenFields
  <2>4. u = [t EXCEPT !.changed = <<>>]
    BY <1>4, <1>8, <2>1
  <2>5. u.open = t.open /\ u.recent = t.recent /\ u.nextID = t.nextID /\ u \in Tracker
    <3>1. t \in Tracker
      BY <2>3 DEF Ordered
    <3>. QED BY <1>6, <2>4, <3>1 DEF Tracker
  <2>6. Ordered(u) /\ Windows(u) = Windows(t)
    BY <1>3, <2>3, <2>5, SameTracker
  <2>7. Grows(s, u, pos)
    <3>1. s.open \in Windows(s)
      BY <1>8 DEF Windows
    <3>2. Moved(s.open, w, pos)
      BY <1>1, <1>2, <1>3, <1>8, <2>3 DEF Moved
    <3>3. \A x : Moved(x, x, pos)
      BY DEF Moved
    <3>. QED BY <1>1, <1>2, <1>5, <2>3, <2>5, <2>6, <3>1, <3>2, <3>3 DEF Grows
  <2>8. \A x \in Windows(u) : x.id = s.open.id => x.closed /\ x.cause = "abandoned"
    BY <1>1, <2>3, <2>6
  <2>. QED BY <1>1, <2>3, <2>5, <2>6, <2>7, <2>8 DEF IsOpen
<1>. QED BY <1>7, <1>8

\* A burst stays in its window: a window closes at the position of a slot
\* after the burst.
LEMMA VoiceStays ==
  ASSUME told.voice \in VoiceEvent, now \in Nat, VoiceInv, Ordered(tracker), Ordered(tracker'),
         NEW pos \in Nat, Grows(tracker, tracker', pos),
         told.voice.id # 0 => told.voice.pos < pos,
         told'.voice = told.voice, now' \in {now, now + 1},
         told.voice.id # 0 => \A i \in DOMAIN held' : told.voice.pos < held'[i].pos
  PROVE  VoiceInv'
<1>1. /\ told.voice.id \in Nat /\ told.voice.pos \in Nat
      /\ tracker.nextID \in Nat /\ tracker'.nextID \in Nat
      /\ tracker.nextID <= tracker'.nextID
  BY OrderedTypes DEF VoiceEvent, Grows
<1>2. ASSUME NEW w \in Windows(tracker'), w.id # 0, w.id = told.voice.id
      PROVE  Contains(w, told.voice.pos)
  <2>1. w.id < tracker.nextID
    BY <1>2 DEF VoiceInv
  <2>2. PICK v \in Windows(tracker) : Moved(v, w, pos)
    BY <1>1, <1>2, <2>1 DEF Grows
  <2>3. Contains(v, told.voice.pos)
    BY <1>2, <2>2 DEF Moved, VoiceInv, VoiceInItsWindow
  <2>4. v.closed => w = v
    BY <2>2 DEF Moved
  <2>5. w \in Window
    BY OrderedTypes DEF Windows
  <2>6. ~v.closed /\ w.closed => told.voice.pos < w.closePos
    <3>1. w.closePos \in Nat
      BY <2>5 DEF Window
    <3>. QED BY <1>1, <1>2, <2>2, <3>1 DEF Moved
  <2>7. w.openPos = v.openPos
    BY <2>2 DEF Moved
  <2>. QED BY <2>3, <2>4, <2>6, <2>7 DEF Contains
<1>3. VoiceInItsWindow'
  BY <1>2 DEF VoiceInItsWindow
<1>4. (told.voice.id < tracker.nextID)'
  BY <1>1 DEF VoiceInv
<1>5. told.voice.id # 0 => told.voice.pos < now'
  BY <1>1 DEF VoiceInv
<1>. QED BY <1>3, <1>4, <1>5 DEF VoiceInv

\* So do the reports of closed windows.
LEMMA EndsStay ==
  ASSUME now \in Nat, pending \in Seq(Nat), EndInv, Ordered(tracker), Ordered(tracker'),
         NEW pos \in Nat, Grows(tracker, tracker', pos),
         now' \in {now, now + 1}, pending' = pending, pc' = "done" <=> pc = "done",
         told.ended \subseteq 1 .. tracker.nextID - 1,
         \A w \in Windows(tracker') :
            w.id \in told'.ended \ told.ended => w.closed /\ w.cause = "abandoned"
  PROVE  \A w \in Windows(tracker') :
            w.id \in told'.ended => w.closed /\ (w.cause = "abandoned" \/ Past(w)')
<1> SUFFICES ASSUME NEW w \in Windows(tracker'), w.id \in told.ended
             PROVE  w.closed /\ (w.cause = "abandoned" \/ Past(w)')
  OBVIOUS
<1>1. w \in Window /\ tracker.nextID \in Nat
  BY OrderedTypes DEF Windows
<1>2. w.id < tracker.nextID /\ w.id \in Nat /\ w.closePos \in Nat
  BY <1>1 DEF Window
<1>3. PICK v \in Windows(tracker) : Moved(v, w, pos)
  BY <1>1, <1>2 DEF Grows
<1>4. v.closed /\ (v.cause = "abandoned" \/ Past(v))
  BY <1>3 DEF EndInv, Moved
<1>5. w = v
  BY <1>3, <1>4 DEF Moved
<1>6. Past(w) => Past(w)'
  BY <1>2 DEF Past
<1>. QED BY <1>4, <1>5, <1>6

LEMMA BacklogStays ==
  ASSUME EndInv, Ordered(tracker), Ordered(tracker'),
         NEW pos \in Nat, Grows(tracker, tracker', pos),
         NEW i \in DOMAIN backlog, backlog[i].id \in 1 .. tracker.nextID - 1
  PROVE  /\ backlog[i].closed
         /\ \A w \in Windows(tracker') : w.id = backlog[i].id => w = backlog[i]
<1>0. backlog[i].closed
  BY DEF EndInv
<1> SUFFICES ASSUME NEW w \in Windows(tracker'), w.id = backlog[i].id
             PROVE  w = backlog[i]
  BY <1>0
<1>1. tracker.nextID \in Nat /\ w.id < tracker.nextID /\ w.id \in Nat
  BY OrderedTypes
<1>2. PICK v \in Windows(tracker) : Moved(v, w, pos)
  BY <1>1 DEF Grows
<1>3. v = backlog[i]
  BY <1>2 DEF EndInv, Moved
<1>. QED BY <1>0, <1>2, <1>3 DEF Moved

-----------------------------------------------------------------------------
(* A control slot is decoded.                                              *)

\* The elements of two sequences put together.
LEMMA JoinedElements ==
  ASSUME NEW S, NEW a \in Seq(S), NEW b \in Seq(S), NEW c, c = a \o b
  PROVE  /\ c \in Seq(S)
         /\ \A i \in DOMAIN c : \/ i \in DOMAIN a /\ c[i] = a[i]
                                \/ /\ i \notin DOMAIN a
                                   /\ \E k \in DOMAIN b : i = Len(a) + k /\ c[i] = b[k]
         /\ \A i \in DOMAIN a : i \in DOMAIN c /\ c[i] = a[i]
         /\ \A k \in DOMAIN b : Len(a) + k \in DOMAIN c /\ c[Len(a) + k] = b[k]
<1>1. /\ c \in Seq(S) /\ Len(c) = Len(a) + Len(b)
      /\ \A i \in 1 .. Len(a) + Len(b) : c[i] = IF i <= Len(a) THEN a[i] ELSE b[i - Len(a)]
  BY ConcatProperties
<1>2. /\ Len(a) \in Nat /\ Len(b) \in Nat /\ DOMAIN a = 1 .. Len(a)
      /\ DOMAIN b = 1 .. Len(b) /\ DOMAIN c = 1 .. Len(a) + Len(b)
  BY <1>1, LenProperties
<1>3. ASSUME NEW i \in DOMAIN a
      PROVE  i \in DOMAIN c /\ c[i] = a[i]
  BY <1>1, <1>2
<1>4. ASSUME NEW k \in DOMAIN b
      PROVE  Len(a) + k \in DOMAIN c /\ c[Len(a) + k] = b[k]
  <2>1. /\ Len(a) + k \in 1 .. Len(a) + Len(b) /\ ~(Len(a) + k <= Len(a))
        /\ Len(a) + k - Len(a) = k
    BY <1>2
  <2>. QED BY <1>1, <1>2, <2>1
<1>5. ASSUME NEW i \in DOMAIN c, i \notin DOMAIN a
      PROVE  \E k \in DOMAIN b : i = Len(a) + k /\ c[i] = b[k]
  <2>1. i - Len(a) \in DOMAIN b /\ i = Len(a) + (i - Len(a))
    BY <1>2, <1>5
  <2>. QED BY <1>4, <2>1
<1>. QED BY <1>1, <1>3, <1>4, <1>5

LEMMA PickedElements ==
  ASSUME NEW S, NEW s \in Seq(S), NEW I \in SUBSET DOMAIN s,
         NEW p, p = Picked(s, I)
  PROVE  /\ p \in Seq(S) /\ DOMAIN p = 1 .. Len(p) /\ Len(p) \in Nat
         /\ \A x \in Elements(p) : \E i \in I : x = s[i]
         /\ \A i \in I : s[i] \in Elements(p)
<1>1. PICK at \in [DOMAIN p -> I] :
         /\ \A k \in DOMAIN p : p[k] = s[at[k]]
         /\ \A i \in I : \E k \in DOMAIN p : at[k] = i
  BY PickedIndices, SMTT(30)
<1>2. /\ \A x \in Elements(p) : \E i \in I : x = s[i]
      /\ \A i \in I : s[i] \in Elements(p)
  BY <1>1 DEF Elements
<1>3. p \in Seq(S) /\ DOMAIN p = 1 .. Len(p)
  BY PickedIndices
<1>. QED BY <1>2, <1>3, LenProperties

LEMMA DecodedMessage ==
  ASSUME NEW slot \in HeldSlot, NEW key, NEW m \in Decoded(slot, key)
  PROVE  m \in Message /\ slot.pos \in Nat
<1>1. slot.msg \in Message /\ slot.pos \in Nat
  BY DEF HeldSlot
<1>2. ASSUME NEW type \in MsgTypes, m = [slot.msg EXCEPT !.crc = FALSE, !.type = type]
      PROVE  m \in Message
  BY <1>1, <1>2 DEF Message
<1>. QED BY <1>1, <1>2 DEF Decoded

Reported(t) == Elements(t.changed) \ {t.open.id}

\* What decodeControl puts into the backlog.

LEMMA IsSeq ==
  ASSUME NEW S, NEW n \in Nat, NEW b, b \in [1 .. n -> S]
  PROVE  b \in Seq(S)
OBVIOUS

\* What is said twice in what is picked was there twice.
LEMMA PickedTwice ==
  ASSUME NEW S, NEW s \in Seq(S), NEW I \in SUBSET DOMAIN s,
         NEW p, p = Picked(s, I), NEW k \in DOMAIN p, NEW l \in DOMAIN p, k # l, p[k] = p[l]
  PROVE  \E i, j \in DOMAIN s : i # j /\ s[i] = s[j] /\ s[i] = p[k]
<1>1. PICK at \in [DOMAIN p -> I] :
         /\ \A x \in DOMAIN p : p[x] = s[at[x]]
         /\ \A x, y \in DOMAIN p : at[x] = at[y] => x = y
  BY PickedIndices
<1>. QED BY <1>1

LEMMA EndedOnes ==
  ASSUME NEW s, NEW t, NEW pos \in Nat, Leads(s, t, pos),
         NEW b, b = EndedWindows(t)
  PROVE  /\ Elements(EndedIn(t)) = Reported(t)
         /\ b \in Seq(Window)
         /\ \A k \in DOMAIN b : /\ b[k] \in Windows(t) /\ b[k].closed
                                /\ b[k].id \in Reported(t)
         /\ \A id \in Reported(t) : \E k \in DOMAIN b : b[k].id = id
         /\ \A k, l \in DOMAIN b :
               k # l /\ b[k].id = b[l].id => b[k].id >= s.nextID
<1>1. PICK c, I, ended : /\ c = t.changed /\ I = DOMAIN t.changed \ StillOpen(t)
                          /\ ended = EndedIn(t)
  OBVIOUS
<1>2. I \in SUBSET DOMAIN c /\ \A i \in DOMAIN c : i \in I <=> c[i] # t.open.id
  BY <1>1 DEF StillOpen
<1>3. ended = Picked(c, I)
  BY <1>1 DEF EndedIn
<1>4. DOMAIN b = 1 .. Len(ended) /\ \A k \in 1 .. Len(ended) : b[k] = WindowOf(t, ended[k])
  BY <1>1 DEF EndedWindows
<1>5. Ordered(t) /\ c \in Seq(Nat)
  BY <1>1, OrderedTypes DEF Leads
<1>6. /\ ended \in Seq(Nat) /\ DOMAIN ended = 1 .. Len(ended) /\ Len(ended) \in Nat
      /\ \A x \in Elements(ended) : \E i \in I : x = c[i]
      /\ \A i \in I : c[i] \in Elements(ended)
  BY <1>2, <1>3, <1>5, PickedElements
<1>7. Elements(ended) = Reported(t)
  <2>1. \A i \in DOMAIN c : c[i] \in Elements(t.changed)
    BY <1>1 DEF Elements
  <2>2. \A x \in Elements(ended) : x \in Reported(t)
    BY <1>2, <1>6, <2>1 DEF Reported
  <2>3. \A x \in Reported(t) : x \in Elements(ended)
    <3>1. \A x \in Reported(t) : \E i \in DOMAIN c : x = c[i] /\ c[i] # t.open.id
      BY <1>1 DEF Elements, Reported
    <3>. QED BY <1>2, <1>6, <3>1
  <2>. QED BY <2>2, <2>3
<1>8. \A k, l \in DOMAIN ended : k # l /\ ended[k] = ended[l] => ended[k] >= s.nextID
  <2> SUFFICES ASSUME NEW k \in DOMAIN ended, NEW l \in DOMAIN ended,
                      k # l, ended[k] = ended[l]
               PROVE  ended[k] >= s.nextID
    OBVIOUS
  <2>1. PICK i, j \in DOMAIN c : i # j /\ c[i] = c[j] /\ c[i] = ended[k]
    BY <1>2, <1>3, <1>5, PickedTwice
  <2>. QED BY <1>1, <2>1 DEF Leads, Reports
<1>9. ASSUME NEW k \in 1 .. Len(ended)
      PROVE  /\ b[k] \in Windows(t) /\ b[k].id = ended[k] /\ b[k].closed
             /\ b[k] \in Window /\ ended[k] \in Reported(t)
  <2>1. ended[k] \in Reported(t)
    BY <1>6, <1>7 DEF Elements
  <2>2. \E w \in Windows(t) : w.id = ended[k]
    BY <2>1 DEF Leads, Reports, Reported
  <2>3. b[k] \in Windows(t) /\ b[k].id = ended[k]
    BY <1>4, <2>2 DEF WindowOf
  <2>4. b[k] # t.open
    BY <2>1, <2>3 DEF Reported
  <2>5. PICK i \in DOMAIN t.recent : b[k] = t.recent[i]
    BY <2>3, <2>4 DEF Windows
  <2>. QED BY <1>5, <2>1, <2>3, <2>5, OrderedTypes DEF Ordered
<1>10. \A id \in Reported(t) : \E k \in DOMAIN b : b[k].id = id
  <2>1. \A id \in Elements(ended) : \E k \in DOMAIN ended : ended[k] = id
    BY DEF Elements
  <2>2. \A k \in DOMAIN ended : k \in DOMAIN b /\ b[k].id = ended[k]
    BY <1>4, <1>6, <1>9
  <2>. QED BY <1>7, <2>1, <2>2
<1>11. \A k, l \in DOMAIN b : k # l /\ b[k].id = b[l].id => b[k].id >= s.nextID
  BY <1>4, <1>6, <1>8, <1>9
<1>12. b \in Seq(Window)
  <2>1. PICK n \in Nat : n = Len(ended)
    BY <1>6
  <2>2. b = [k \in 1 .. n |-> b[k]]
    BY <1>1, <2>1 DEF EndedWindows
  <2>3. b \in [1 .. n -> Window]
    BY <1>9, <2>1, <2>2
  <2>. QED BY <2>3, IsSeq, Zenon
<1>. QED BY <1>1, <1>4, <1>7, <1>9, <1>10, <1>11, <1>12

LEMMA StartedOnes ==
  ASSUME NEW t, t.changed \in Seq(Nat), NEW started, started = StartedIn(t)
  PROVE  /\ started \in Seq(Nat)
         /\ Elements(started) = Elements(t.changed) \cap {t.open.id}
<1>1. PICK c, I : c = t.changed /\ I = StillOpen(t)
  OBVIOUS
<1>2. c \in Seq(Nat) /\ I \in SUBSET DOMAIN c /\ \A i \in DOMAIN c : i \in I <=> c[i] = t.open.id
  BY <1>1 DEF StillOpen
<1>3. started = Picked(c, I)
  BY <1>1 DEF StartedIn
<1>4. /\ started \in Seq(Nat)
      /\ \A x \in Elements(started) : \E i \in I : x = c[i]
      /\ \A i \in I : c[i] \in Elements(started)
  BY <1>2, <1>3, PickedElements
<1>5. /\ \A i \in DOMAIN c : c[i] \in Elements(t.changed)
      /\ \A x \in Elements(t.changed) : \E i \in DOMAIN c : x = c[i]
  BY <1>1 DEF Elements
<1>. QED BY <1>2, <1>4, <1>5

\* Every id the accounts know was given out.
LEMMA KnownIds ==
  ASSUME AccountInv
  PROVE  told.ended \cup BacklogIds \cup OpenIds \subseteq 1 .. tracker.nextID - 1
BY DEF AccountInv, StartsAccounted

\* The accounts after a control slot: what OnControl reports was open, or is
\* new.
LEMMA AccountMoves ==
  ASSUME backlog \in Seq(Window), AccountInv,
         NEW t, NEW pos \in Nat, Leads(tracker, t, pos),
         tracker'.open = t.open, tracker'.nextID = t.nextID,
         NEW b \in Seq(Window), backlog' = backlog \o b,
         \A k \in DOMAIN b : b[k] \in Windows(t) /\ b[k].id \in Reported(t),
         \A id \in Reported(t) : \E k \in DOMAIN b : b[k].id = id,
         \A k, l \in DOMAIN b : k # l /\ b[k].id = b[l].id => b[k].id >= tracker.nextID,
         told'.ended = told.ended,
         told'.started = told.started \cup (Elements(t.changed) \cap {t.open.id}),
         told'.cut = told.cut \cup {id \in Reported(t) :
                                      id >= tracker.nextID /\ id \notin told.started}
  PROVE  AccountInv'
<1> DEFINE s == tracker
           ch == Elements(t.changed)
<1>0. Ordered(s) /\ Ordered(t)
  BY DEF Leads
<1>1. /\ s.nextID \in Nat /\ t.nextID \in Nat /\ s.nextID <= t.nextID
      /\ s.open.id \in Nat /\ t.open.id \in Nat
  BY <1>0, OrderedTypes DEF Leads, Grows
<1>2. /\ \A id \in ch : id \in 1 .. t.nextID - 1 /\ (id = s.open.id \/ id >= s.nextID)
      /\ \A id \in s.nextID .. t.nextID - 1 : id \in ch
      /\ IsOpen(s) => (t.open.id # s.open.id <=> s.open.id \in ch)
      /\ IsOpen(t) => t.open.id = s.open.id \/ t.open.id >= s.nextID
  BY DEF Leads, Reports
<1>3. told.ended \cup BacklogIds \cup OpenIds \subseteq 1 .. s.nextID - 1
  BY KnownIds
<1>4. /\ told.started \subseteq OpenIds \cup BacklogIds \cup told.ended
      /\ told.ended \cup BacklogIds \cup OpenIds \subseteq told.started \cup told.cut
      /\ OpenIds \cap (BacklogIds \cup told.ended) = {}
      /\ BacklogIds \cap told.ended = {}
      /\ \A i, j \in DOMAIN backlog :
            i # j /\ backlog[i].id = backlog[j].id => backlog[i].id \in told.cut
      /\ told.started \cup told.cut \subseteq 1 .. s.nextID - 1
      /\ \A i, j \in DOMAIN backlog : backlog[i].id = backlog[j].id => backlog[i] = backlog[j]
  BY DEF AccountInv, StartsAccounted
<1>5. /\ OpenIds = IF s.open.id # 0 THEN {s.open.id} ELSE {}
      /\ OpenIds' = IF t.open.id # 0 THEN {t.open.id} ELSE {}
  BY DEF OpenIds, IsOpen
<1>6. PICK all : all = backlog'
  OBVIOUS
<1>7. /\ \A i \in DOMAIN all : \/ i \in DOMAIN backlog /\ all[i] = backlog[i]
                               \/ /\ i \notin DOMAIN backlog
                                  /\ \E k \in DOMAIN b : i = Len(backlog) + k /\ all[i] = b[k]
      /\ \A i \in DOMAIN backlog : i \in DOMAIN all /\ all[i] = backlog[i]
      /\ \A k \in DOMAIN b : Len(backlog) + k \in DOMAIN all /\ all[Len(backlog) + k] = b[k]
  <2>1. all = backlog \o b
    BY <1>6
  <2>. QED BY <2>1, JoinedElements
<1>8. BacklogIds' = BacklogIds \cup Reported(t)
  <2>1. BacklogIds' = {all[i].id : i \in DOMAIN all}
    BY <1>6 DEF BacklogIds
  <2>2. \A x \in BacklogIds' : x \in BacklogIds \cup Reported(t)
    BY <1>7, <2>1 DEF BacklogIds
  <2>3. \A x \in BacklogIds : x \in BacklogIds'
    BY <1>7, <2>1, SMTT(30) DEF BacklogIds
  <2>4. \A x \in Reported(t) : x \in BacklogIds'
    <3> SUFFICES ASSUME NEW x \in Reported(t)
                 PROVE  x \in BacklogIds'
      OBVIOUS
    <3>1. PICK k \in DOMAIN b : b[k].id = x
      OBVIOUS
    <3>2. Len(backlog) + k \in DOMAIN all /\ all[Len(backlog) + k].id = x
      BY <1>7, <3>1
    <3>. QED BY <2>1, <3>2
  <2>. QED BY <2>2, <2>3, <2>4
<1>9. \A x : x \in Reported(t) <=> x \in ch /\ x # t.open.id
  BY DEF Reported
<1>10. \A x \in Reported(t) : x \in Nat /\ ((x \in OpenIds /\ x = s.open.id) \/ x >= s.nextID)
  <2> SUFFICES ASSUME NEW x \in Reported(t)
               PROVE  x \in Nat /\ ((x \in OpenIds /\ x = s.open.id) \/ x >= s.nextID)
    OBVIOUS
  <2>1. x \in 1 .. t.nextID - 1 /\ (x = s.open.id \/ x >= s.nextID)
    BY <1>2, <1>9
  <2>2. x \in Nat /\ x # 0
    BY <1>1, <2>1
  <2>. QED BY <1>5, <2>1, <2>2
<1>. HIDE DEF ch
<1>11. told'.started \subseteq OpenIds' \cup BacklogIds' \cup told'.ended
  <2> SUFFICES ASSUME NEW x \in told'.started
               PROVE  x \in OpenIds' \cup BacklogIds' \cup told'.ended
    OBVIOUS
  <2>1. CASE x \in ch /\ x = t.open.id
    <3>1. x # 0
      BY <1>1, <1>2, <2>1
    <3>. QED BY <1>5, <2>1, <3>1
  <2>2. CASE x \in OpenIds
    <3>1. x = s.open.id /\ x # 0 /\ IsOpen(s)
      BY <1>5, <2>2 DEF IsOpen
    <3>2. CASE t.open.id = x
      BY <1>5, <3>1, <3>2
    <3>3. CASE t.open.id # x
      <4>1. x \in ch
        BY <1>2, <3>1, <3>3
      <4>. QED BY <1>8, <1>9, <3>3, <4>1
    <3>. QED BY <3>2, <3>3
  <2>3. CASE x \in BacklogIds \cup told.ended
    BY <1>8, <2>3
  <2>. QED BY <1>4, <2>1, <2>2, <2>3 DEF ch
<1>12. told'.ended \cup BacklogIds' \cup OpenIds' \subseteq told'.started \cup told'.cut
  <2>1. told.ended \cup BacklogIds \cup OpenIds \subseteq told'.started \cup told'.cut
    BY <1>4
  <2>2. \A x \in Reported(t) : x \in told'.started \cup told'.cut
    BY <1>10, <2>1
  <2>3. \A x \in OpenIds' : x \in told'.started \cup told'.cut
    <3> SUFFICES ASSUME NEW x \in OpenIds'
                 PROVE  x \in told'.started \cup told'.cut
      OBVIOUS
    <3>1. x = t.open.id /\ x # 0 /\ IsOpen(t)
      BY <1>5 DEF IsOpen
    <3>2. CASE x = s.open.id
      BY <1>5, <2>1, <3>1, <3>2
    <3>3. CASE x >= s.nextID
      <4>1. x \in s.nextID .. t.nextID - 1
        <5>1. x < t.nextID
          BY <1>0, <3>1 DEF Ordered
        <5>. QED BY <1>1, <3>1, <3>3, <5>1
      <4>2. x \in ch
        BY <1>2, <4>1
      <4>. QED BY <3>1, <4>2 DEF ch
    <3>. QED BY <1>2, <3>1, <3>2, <3>3
  <2>. QED BY <1>8, <2>1, <2>2, <2>3
<1>13. OpenIds' \cap (BacklogIds' \cup told'.ended) = {}
  <2> SUFFICES ASSUME NEW x \in OpenIds', x \in BacklogIds' \cup told'.ended
               PROVE  FALSE
    OBVIOUS
  <2>1. x = t.open.id /\ x # 0 /\ IsOpen(t)
    BY <1>5 DEF IsOpen
  <2>2. x \in BacklogIds \cup told.ended
    BY <1>8, <1>9, <2>1
  <2>3. x < s.nextID /\ x \in Nat
    BY <1>1, <1>3, <2>2
  <2>4. x = s.open.id
    BY <1>1, <1>2, <2>1, <2>3
  <2>. QED BY <1>4, <1>5, <2>1, <2>2, <2>4
<1>14. BacklogIds' \cap told'.ended = {}
  <2>1. \A x \in Reported(t) : x \notin told.ended
    <3> SUFFICES ASSUME NEW x \in Reported(t), x \in told.ended
                 PROVE  FALSE
      OBVIOUS
    <3>1. x < s.nextID
      BY <1>1, <1>3
    <3>. QED BY <1>1, <1>4, <1>10, <3>1
  <2>. QED BY <1>4, <1>8, <2>1
<1>15. told'.started \cup told'.cut \subseteq 1 .. t.nextID - 1
  <2>1. told.started \cup told.cut \subseteq 1 .. t.nextID - 1
    BY <1>1, <1>4
  <2>2. \A x \in ch : x \in 1 .. t.nextID - 1
    BY <1>2
  <2>. QED BY <1>9, <2>1, <2>2 DEF ch
<1>16. ASSUME NEW i \in DOMAIN backlog, NEW k \in DOMAIN b, backlog[i].id = b[k].id
       PROVE  FALSE
  <2>1. backlog[i].id \in BacklogIds /\ b[k].id \in Reported(t)
    BY DEF BacklogIds
  <2>2. b[k].id < s.nextID
    BY <1>1, <1>3, <1>16, <2>1
  <2>. QED BY <1>1, <1>4, <1>10, <1>16, <2>1, <2>2
<1>17. ASSUME NEW i \in DOMAIN all, NEW j \in DOMAIN all, all[i].id = all[j].id
       PROVE  all[i] = all[j] /\ (i # j => all[i].id \in told'.cut)
  <2>1. CASE i \in DOMAIN backlog /\ j \in DOMAIN backlog
    BY <1>4, <1>7, <1>17, <2>1
  <2>2. CASE i \notin DOMAIN backlog /\ j \notin DOMAIN backlog
    <3>1. PICK k \in DOMAIN b : i = Len(backlog) + k /\ all[i] = b[k]
      BY <1>7, <2>2
    <3>2. PICK l \in DOMAIN b : j = Len(backlog) + l /\ all[j] = b[l]
      BY <1>7, <2>2
    <3>3. all[i] = all[j]
      BY <1>0, <1>17, <3>1, <3>2, OneWindowPerId
    <3>4. ASSUME i # j
          PROVE  all[i].id \in told'.cut
      <4>1. b[k].id >= s.nextID /\ b[k].id \in Reported(t)
        BY <1>17, <3>1, <3>2, <3>4
      <4>2. b[k].id \notin told.started
        BY <1>1, <1>4, <1>10, <4>1
      <4>. QED BY <3>1, <4>1, <4>2
    <3>. QED BY <3>3, <3>4
  <2>3. CASE i \in DOMAIN backlog /\ j \notin DOMAIN backlog
    BY <1>7, <1>16, <1>17, <2>3
  <2>4. CASE i \notin DOMAIN backlog /\ j \in DOMAIN backlog
    BY <1>7, <1>16, <1>17, <2>4
  <2>. QED BY <2>1, <2>2, <2>3, <2>4
<1>18. \A i, j \in DOMAIN backlog' :
          /\ backlog'[i].id = backlog'[j].id => backlog'[i] = backlog'[j]
          /\ i # j /\ backlog'[i].id = backlog'[j].id => backlog'[i].id \in told'.cut
  BY <1>6, <1>17
<1>19. StartsAccounted'
  BY <1>11, <1>12, <1>13, <1>14, <1>18 DEF StartsAccounted
<1>. QED BY <1>15, <1>18, <1>19 DEF AccountInv

Told == [started : SUBSET Nat, ended : SUBSET Nat, cut : SUBSET Nat, voice : VoiceEvent]

LEMMA DecodeControlMoves ==
  ASSUME DecoderTypeOK, Ordered(tracker), EndInv, AccountInv,
         NEW slot \in HeldSlot, NEW key, NEW r \in Result, DecodeControl(slot, key, r)
  PROVE  /\ Ordered(tracker') /\ Grows(tracker, tracker', slot.pos) /\ AccountInv'
         /\ backlog' \in Seq(Window) /\ res' \in Result /\ told' \in Told
         /\ told'.ended = told.ended /\ told'.voice = told.voice
         /\ \A i \in DOMAIN backlog' :
               /\ backlog'[i].closed
               /\ \A w \in Windows(tracker') : w.id = backlog'[i].id => w = backlog'[i]
<1>0. tracker \in Tracker /\ backlog \in Seq(Window) /\ told \in Told
  BY DEF DecoderTypeOK, Told
<1>1. PICK m \in Decoded(slot, key) :
         LET t == OnControl(tracker, slot.pos, m)
         IN /\ tracker' = [t EXCEPT !.changed = <<>>, !.updated = <<>>]
            /\ backlog' = backlog \o EndedWindows(t)
            /\ res' = [r EXCEPT !.control = TRUE, !.valid = @ \/ m.crc,
                                !.started = @ \o StartedIn(t),
                                !.updated = @ \o t.updated]
            /\ told' = [told EXCEPT !.started = @ \cup Elements(StartedIn(t)),
                                    !.cut = @ \cup CutShort(t)]
  BY Zenon DEF DecodeControl
<1>t. PICK t : t = OnControl(tracker, slot.pos, m)
  OBVIOUS
<1>b. PICK b, started : b = EndedWindows(t) /\ started = StartedIn(t)
  OBVIOUS
<1>u. /\ tracker' = [t EXCEPT !.changed = <<>>, !.updated = <<>>]
      /\ backlog' = backlog \o b
      /\ res' = [r EXCEPT !.control = TRUE, !.valid = @ \/ m.crc,
                          !.started = @ \o started,
                          !.updated = @ \o t.updated]
      /\ told' = [told EXCEPT !.started = @ \cup Elements(started),
                              !.cut = @ \cup CutShort(t)]
  BY <1>1, <1>t, <1>b
<1>2. m \in Message /\ slot.pos \in Nat
  BY DecodedMessage
<1>3. Leads(tracker, t, slot.pos)
  BY <1>2, <1>t, OnControlLeads
<1>4. /\ Ordered(t) /\ t \in Tracker /\ t.changed \in Seq(Nat) /\ t.updated \in Seq(Nat)
  BY <1>3 DEF Leads, Ordered, Tracker
<1>5. /\ tracker' \in Tracker /\ tracker'.open = t.open /\ tracker'.recent = t.recent
      /\ tracker'.nextID = t.nextID
  <2>1. <<>> \in Seq(Nat)
    OBVIOUS
  <2>. QED BY <1>u, <1>4, <2>1 DEF Tracker
<1>6. Ordered(tracker') /\ Windows(tracker') = Windows(t)
  BY <1>2, <1>4, <1>5, SameTracker
<1>7. Grows(tracker, tracker', slot.pos)
  BY <1>3, <1>5, <1>6 DEF Leads, Grows
<1>10. started \in Seq(Nat) /\ Elements(started) = Elements(t.changed) \cap {t.open.id}
  BY <1>4, <1>b, StartedOnes
<1>12. /\ Elements(EndedIn(t)) = Reported(t)
       /\ b \in Seq(Window)
       /\ \A k \in DOMAIN b : /\ b[k] \in Windows(t) /\ b[k].closed
                              /\ b[k].id \in Reported(t)
       /\ \A id \in Reported(t) : \E k \in DOMAIN b : b[k].id = id
       /\ \A k, l \in DOMAIN b :
             k # l /\ b[k].id = b[l].id => b[k].id >= tracker.nextID
  BY <1>2, <1>3, <1>b, EndedOnes
<1>15. /\ told' \in Told /\ told'.ended = told.ended /\ told'.voice = told.voice
       /\ told'.started = told.started \cup (Elements(t.changed) \cap {t.open.id})
       /\ told'.cut = told.cut \cup {id \in Reported(t) :
                                       id >= tracker.nextID /\ id \notin told.started}
  <2> DEFINE st == told.started \cup Elements(started)
             cu == told.cut \cup CutShort(t)
  <2>1. told' = [told EXCEPT !.started = st, !.cut = cu]
    BY <1>u
  <2>2. CutShort(t) = {id \in Reported(t) : id >= tracker.nextID /\ id \notin told.started}
    BY <1>12 DEF CutShort
  <2>3. Elements(t.changed) \subseteq Nat
    BY <1>3, OrderedTypes DEF Leads, Reports
  <2>4. Elements(started) \subseteq Nat /\ CutShort(t) \subseteq Nat
    BY <1>10, <2>2, <2>3 DEF Reported
  <2>5. st \in SUBSET Nat /\ cu \in SUBSET Nat
    BY <1>0, <2>4 DEF Told
  <2>6. /\ st = told.started \cup (Elements(t.changed) \cap {t.open.id})
        /\ cu = told.cut \cup {id \in Reported(t) :
                                 id >= tracker.nextID /\ id \notin told.started}
    BY <1>10, <2>2
  <2>. HIDE DEF st, cu
  <2>7. /\ told' \in Told /\ told'.ended = told.ended /\ told'.voice = told.voice
        /\ told'.started = st /\ told'.cut = cu
    BY <1>0, <2>1, <2>5 DEF Told
  <2>. QED BY <2>6, <2>7
<1>16. AccountInv'
  BY <1>0, <1>2, <1>3, <1>5, <1>12, <1>15, <1>u, AccountMoves
<1>17. /\ backlog' \in Seq(Window)
       /\ \A i \in DOMAIN backlog' : \/ i \in DOMAIN backlog /\ backlog'[i] = backlog[i]
                                     \/ \E k \in DOMAIN b : backlog'[i] = b[k]
  <2>1. PICK all : all = backlog'
    OBVIOUS
  <2>2. all = backlog \o b
    BY <1>u, <2>1
  <2>3. /\ all \in Seq(Window)
        /\ \A i \in DOMAIN all : \/ i \in DOMAIN backlog /\ all[i] = backlog[i]
                                 \/ \E k \in DOMAIN b : all[i] = b[k]
    BY <1>0, <1>12, <2>2, JoinedElements
  <2>. QED BY <2>1, <2>3
<1>18. \A i \in DOMAIN backlog' :
          /\ backlog'[i].closed
          /\ \A w \in Windows(tracker') : w.id = backlog'[i].id => w = backlog'[i]
  <2>1. \A i \in DOMAIN backlog :
           /\ backlog[i].closed
           /\ \A w \in Windows(tracker') : w.id = backlog[i].id => w = backlog[i]
    <3>1. \A i \in DOMAIN backlog : backlog[i].id \in 1 .. tracker.nextID - 1
      BY KnownIds DEF BacklogIds
    <3>. QED BY <1>2, <1>6, <1>7, <3>1, BacklogStays
  <2>2. \A k \in DOMAIN b :
           /\ b[k].closed
           /\ \A w \in Windows(tracker') : w.id = b[k].id => w = b[k]
    BY <1>4, <1>6, <1>12, OneWindowPerId
  <2>. QED BY <1>17, <2>1, <2>2
<1>19. res' \in Result
  <2> DEFINE st == r.started \o started
             up == r.updated \o t.updated
             va == r.valid \/ m.crc
  <2>1. r.started \in Seq(Nat) /\ r.updated \in Seq(Nat) /\ r.valid \in BOOLEAN
    BY DEF Result
  <2>2. st \in Seq(Nat) /\ up \in Seq(Nat)
    BY <1>4, <1>10, <2>1, ConcatProperties
  <2>3. va \in BOOLEAN
    BY <1>2, <2>1 DEF Message
  <2>4. res' = [r EXCEPT !.control = TRUE, !.valid = va, !.started = st, !.updated = up]
    BY <1>u
  <2>. HIDE DEF st, up, va
  <2>. QED BY <2>2, <2>3, <2>4 DEF Result
<1>. QED BY <1>6, <1>7, <1>15, <1>16, <1>17, <1>18, <1>19

-----------------------------------------------------------------------------
(* Bursts are decided.                                                     *)

\* A set of indices has a largest one.
LEMMA LargestIndex ==
  ASSUME NEW n \in Nat, NEW I \in SUBSET (1 .. n), I # {}
  PROVE  \E i \in I : \A j \in I : j <= i
<1> DEFINE c == Cardinality(I)
<1>1. IsFiniteSet(I) /\ c \in Nat /\ \A k \in 1 .. c : \E i \in I : Rank(I, i) = k
  BY RankProperties
<1>2. c # 0
  BY <1>1, FS_EmptySet
<1>3. c \in 1 .. c
  BY <1>1, <1>2
<1>4. PICK i \in I : Rank(I, i) = c
  BY <1>1, <1>3
<1>5. {j \in I : j <= i} = I
  <2> DEFINE low == {j \in I : j <= i}
  <2>1. low \in SUBSET I /\ Cardinality(low) = Cardinality(I)
    BY <1>4 DEF Rank
  <2>. HIDE DEF low
  <2>2. low = I
    BY <1>1, <2>1, FS_Subset
  <2>. QED BY <2>2 DEF low
<1>. QED BY <1>5

LEMMA WindowForWindow ==
  ASSUME NEW t, Ordered(t), NEW p \in Nat, NEW id, id = WindowFor(t, p)
  PROVE  /\ id \in Nat
         /\ id # 0 => \E w \in Windows(t) : w.id = id /\ Contains(w, p)
<1> DEFINE hits == {i \in DOMAIN t.recent : Contains(t.recent[i], p)}
<1>1. /\ t.open.id \in Nat /\ Len(t.recent) \in Nat /\ DOMAIN t.recent = 1 .. Len(t.recent)
      /\ \A i \in DOMAIN t.recent : t.recent[i].id \in Nat
  BY OrderedTypes
<1>2. CASE IsOpen(t) /\ Contains(t.open, p)
  <2>1. id = t.open.id /\ t.open \in Windows(t)
    BY <1>2 DEF WindowFor, Windows
  <2>. QED BY <1>1, <1>2, <2>1
<1>3. CASE ~(IsOpen(t) /\ Contains(t.open, p)) /\ hits = {}
  BY <1>3 DEF WindowFor
<1>4. CASE ~(IsOpen(t) /\ Contains(t.open, p)) /\ hits # {}
  <2>1. id = t.recent[CHOOSE i \in hits : \A j \in hits : j <= i].id
    BY <1>4 DEF WindowFor
  <2>2. \E i \in hits : \A j \in hits : j <= i
    <3>1. hits \in SUBSET (1 .. Len(t.recent))
      BY <1>1
    <3>. HIDE DEF hits
    <3>. QED BY <1>1, <1>4, <3>1, LargestIndex
  <2>3. PICK i \in hits : id = t.recent[i].id
    <3>. HIDE DEF hits
    <3>. QED BY <2>1, <2>2
  <2>4. t.recent[i] \in Windows(t)
    BY DEF Windows
  <2>. QED BY <1>1, <2>3, <2>4
<1>. QED BY <1>2, <1>3, <1>4

LEMMA SplitElements ==
  ASSUME NEW s \in Seq(Nat), NEW k \in 0 .. Len(s)
  PROVE  /\ Upto(s, k) \in Seq(Nat) /\ Len(Upto(s, k)) = k
         /\ \A i \in 1 .. k : Upto(s, k)[i] = s[i]
         /\ From(s, k) \in Seq(Nat) /\ Len(From(s, k)) = Len(s) - k
         /\ \A i \in 1 .. Len(s) - k : From(s, k)[i] = s[i + k]
<1>1. Len(s) \in Nat /\ \A i \in 1 .. Len(s) : s[i] \in Nat
  BY ElementOfSeq
<1>2. /\ Upto(s, k) \in Seq(Nat) /\ Len(Upto(s, k)) = k
      /\ \A i \in 1 .. k : Upto(s, k)[i] = s[i]
  BY <1>1 DEF Upto
<1>3. /\ From(s, k) \in Seq(Nat) /\ Len(From(s, k)) = Len(s) - k
      /\ \A i \in 1 .. Len(s) - k : From(s, k)[i] = s[i + k]
  BY <1>1 DEF From
<1>. QED BY <1>2, <1>3

LEMMA FromElements ==
  ASSUME NEW s \in Seq(Nat), NEW k \in 0 .. Len(s), NEW f, f = From(s, k)
  PROVE  /\ f \in Seq(Nat) /\ Len(f) = Len(s) - k
         /\ \A i \in DOMAIN f : i \in Nat \ {0} /\ i + k \in DOMAIN s /\ f[i] = s[i + k]
<1>1. Len(s) \in Nat /\ DOMAIN s = 1 .. Len(s)
  BY LenProperties
<1>2. /\ f \in Seq(Nat) /\ Len(f) = Len(s) - k
      /\ \A i \in 1 .. Len(s) - k : f[i] = s[i + k]
  BY SplitElements
<1>3. DOMAIN f = 1 .. Len(s) - k
  BY <1>2, LenProperties
<1>4. \A i \in 1 .. Len(s) - k : i \in Nat \ {0} /\ i + k \in 1 .. Len(s)
  BY <1>1
<1>. QED BY <1>1, <1>2, <1>3, <1>4

LEMMA UptoElements ==
  ASSUME NEW s \in Seq(Nat), NEW k \in 0 .. Len(s), NEW f, f = Upto(s, k)
  PROVE  /\ f \in Seq(Nat) /\ Len(f) = k
         /\ \A i \in DOMAIN f : i \in DOMAIN s /\ f[i] = s[i]
<1>1. Len(s) \in Nat /\ DOMAIN s = 1 .. Len(s)
  BY LenProperties
<1>2. /\ f \in Seq(Nat) /\ Len(f) = k /\ \A i \in 1 .. k : f[i] = s[i]
  BY SplitElements
<1>3. DOMAIN f = 1 .. k
  BY <1>2, LenProperties
<1>4. \A i \in 1 .. k : i \in 1 .. Len(s)
  BY <1>1
<1>. QED BY <1>1, <1>2, <1>3, <1>4

\* What still waits for the seed, and how much.
LEMMA WaitingElements ==
  ASSUME NEW decided \in Seq(Nat), pendingVoice \in Seq(Nat), NEW b \in Nat,
         \A i \in DOMAIN decided : decided[i] < b,
         \A i \in DOMAIN pendingVoice : pendingVoice[i] < b
  PROVE  /\ Waiting(decided) \in Seq(Nat)
         /\ \A i \in DOMAIN Waiting(decided) : Waiting(decided)[i] < b
         /\ StillWaiting(decided) \in Seq(Nat)
         /\ \A i \in DOMAIN StillWaiting(decided) : StillWaiting(decided)[i] < b
         /\ Len(StillWaiting(decided)) <= VoiceCap
<1>1. PICK all, k, rest : /\ all = Waiting(decided) /\ k = LeaveCount(all)
                          /\ rest = StillWaiting(decided)
  OBVIOUS
<1>2. all = pendingVoice \o decided
  BY <1>1 DEF Waiting
<1>3. /\ all \in Seq(Nat) /\ Len(all) = Len(pendingVoice) + Len(decided)
      /\ \A i \in 1 .. Len(pendingVoice) + Len(decided) :
            all[i] = IF i <= Len(pendingVoice) THEN pendingVoice[i]
                     ELSE decided[i - Len(pendingVoice)]
  BY <1>2, ConcatProperties
<1>4. \A i \in DOMAIN all : all[i] < b
  <2> SUFFICES ASSUME NEW i \in DOMAIN all
               PROVE  all[i] < b
    OBVIOUS
  <2>1. /\ Len(pendingVoice) \in Nat /\ DOMAIN pendingVoice = 1 .. Len(pendingVoice)
        /\ Len(decided) \in Nat /\ DOMAIN decided = 1 .. Len(decided)
        /\ DOMAIN all = 1 .. Len(pendingVoice) + Len(decided)
    BY <1>3, LenProperties
  <2>2. CASE i <= Len(pendingVoice)
    <3>1. i \in DOMAIN pendingVoice /\ all[i] = pendingVoice[i]
      BY <1>3, <2>1, <2>2
    <3>. QED BY <3>1
  <2>3. CASE ~(i <= Len(pendingVoice))
    <3>1. i - Len(pendingVoice) \in DOMAIN decided /\ all[i] = decided[i - Len(pendingVoice)]
      BY <1>3, <2>1, <2>3
    <3>. QED BY <3>1
  <2>. QED BY <2>2, <2>3
<1>5. k \in 0 .. Len(all)
  BY <1>1, <1>3, LeaveCountRange
<1>6. rest = From(all, k)
  BY <1>1 DEF StillWaiting
<1>7. /\ rest \in Seq(Nat) /\ Len(rest) = Len(all) - k
      /\ \A i \in DOMAIN rest : i \in Nat \ {0} /\ i + k \in DOMAIN all /\ rest[i] = all[i + k]
  <2>1. all \in Seq(Nat)
    BY <1>3
  <2>. QED BY <2>1, <1>5, <1>6, FromElements
<1>8. Len(all) - k <= VoiceCap
  <2>1. Len(all) \in Nat /\ VoiceCap \in Nat
    BY <1>3, LenProperties, DecoderConstants
  <2>. QED BY <1>1, <2>1 DEF LeaveCount
<1>. QED BY <1>1, <1>3, <1>4, <1>7, <1>8

LEMMA LabelledType ==
  ASSUME NEW t, Ordered(t), NEW s \in Seq(Nat), NEW v, v = Labelled(t, s)
  PROVE  v \in Seq(VoiceEvent)
<1>1. Len(s) \in Nat /\ \A i \in 1 .. Len(s) : s[i] \in Nat
  BY ElementOfSeq, LenProperties
<1>2. \A i \in 1 .. Len(s) : WindowFor(t, s[i]) \in Nat
  BY <1>1, WindowForWindow
<1>3. PICK n \in Nat : n = Len(s)
  BY <1>1
<1>4. v = [i \in 1 .. n |-> [pos |-> s[i], id |-> WindowFor(t, s[i])]]
  BY <1>3 DEF Labelled
<1>5. \A i \in 1 .. n : [pos |-> s[i], id |-> WindowFor(t, s[i])] \in VoiceEvent
  BY <1>1, <1>2, <1>3 DEF VoiceEvent
<1>6. v \in [1 .. n -> VoiceEvent]
  BY <1>4, <1>5
<1>. QED BY <1>6, IsSeq, Zenon

LEMMA EmittedType ==
  ASSUME NEW decided \in Seq(Nat), pendingVoice \in Seq(Nat), Ordered(tracker),
         NEW r \in Result, NEW e, e = Emitted(decided, r)
  PROVE  e \in Result /\ e.voice \in Seq(VoiceEvent)
<1>1. PICK all, k, u, v, w : /\ all = Waiting(decided) /\ k = LeaveCount(all)
                             /\ u = Upto(all, k) /\ v = Labelled(tracker, u)
                             /\ w = r.voice \o v
  OBVIOUS
<1>2. all \in Seq(Nat)
  BY <1>1, ConcatProperties DEF Waiting
<1>3. k \in 0 .. Len(all)
  BY <1>1, <1>2, LeaveCountRange
<1>4. u \in Seq(Nat)
  BY <1>1, <1>2, <1>3, UptoElements
<1>5. v \in Seq(VoiceEvent)
  BY <1>1, <1>4, LabelledType
<1>6. w \in Seq(VoiceEvent)
  <2>1. r.voice \in Seq(VoiceEvent)
    BY DEF Result
  <2>. QED BY <1>1, <1>5, <2>1, ConcatProperties
<1>7. e = [r EXCEPT !.voice = w]
  BY <1>1 DEF Emitted
<1>. QED BY <1>6, <1>7 DEF Result

\* The burst that is noted lies in the window it is delivered with.
LEMMA NoteVoiceKeeps ==
  ASSUME Ordered(tracker), VoiceInv, told \in Told, now \in Nat, NEW b \in {now, now + 1},
         pendingVoice \in Seq(Nat), NEW decided \in Seq(Nat),
         \A i \in DOMAIN decided : decided[i] < b,
         \A i \in DOMAIN pendingVoice : pendingVoice[i] < now,
         seed # 0 => held = <<>>,
         NEW u, u = NoteVoice(decided)
  PROVE  /\ u \in Told
         /\ u.started = told.started /\ u.ended = told.ended /\ u.cut = told.cut
         /\ u.voice.id < tracker.nextID
         /\ u.voice.id # 0 => /\ u.voice.pos < b
                              /\ \A i \in DOMAIN held : u.voice.pos < held[i].pos
         /\ \A w \in Windows(tracker) :
               w.id # 0 /\ w.id = u.voice.id => Contains(w, u.voice.pos)
<1>1. PICK all, k : all = Waiting(decided) /\ k = LeaveCount(all)
  OBVIOUS
<1>2. all \in Seq(Nat) /\ \A i \in DOMAIN all : all[i] < b
  <2>1. \A i \in DOMAIN pendingVoice : pendingVoice[i] < b
    <3>1. \A i \in DOMAIN pendingVoice : pendingVoice[i] \in Nat
      BY ElementOfSeq, LenProperties
    <3>. QED BY <3>1
  <2>2. b \in Nat
    OBVIOUS
  <2>. QED BY <1>1, <2>1, <2>2, WaitingElements
<1>3. DOMAIN all = 1 .. Len(all) /\ Len(all) \in Nat /\ \A i \in DOMAIN all : all[i] \in Nat
  BY <1>2, ElementOfSeq, LenProperties
<1> DEFINE hits == {i \in DOMAIN all : i <= k /\ WindowFor(tracker, all[i]) # 0}
           last == CHOOSE i \in hits : \A j \in hits : j <= i
           ev == [pos |-> all[last], id |-> WindowFor(tracker, all[last])]
<1>4. u = IF hits = {} \/ (seed = 0 /\ Len(all) > VoiceCap) THEN told
          ELSE [told EXCEPT !.voice = ev]
  BY <1>1 DEF NoteVoice
<1>5. CASE u = told
  <2>1. told.voice.pos \in Nat
    BY DEF Told, VoiceEvent
  <2>2. told.voice.id # 0 => told.voice.pos < b
    BY <2>1 DEF VoiceInv
  <2>. QED BY <1>5, <2>2 DEF VoiceInv, VoiceInItsWindow
<1>6. CASE hits # {} /\ ~(seed = 0 /\ Len(all) > VoiceCap) /\ u = [told EXCEPT !.voice = ev]
  <2>1. last \in hits
    <3>1. hits \in SUBSET (1 .. Len(all))
      BY <1>3
    <3>2. \E i \in hits : \A j \in hits : j <= i
      <4>. HIDE DEF hits
      <4>. QED BY <1>3, <1>6, <3>1, LargestIndex
    <3>. HIDE DEF hits
    <3>. QED BY <3>2
  <2>. HIDE DEF last
  <2>2. PICK p, id : p = all[last] /\ id = WindowFor(tracker, p)
    OBVIOUS
  <2>3. p \in Nat /\ p < b /\ id # 0
    BY <1>2, <1>3, <2>1, <2>2
  <2>4. id \in Nat /\ \E w \in Windows(tracker) : w.id = id /\ Contains(w, p)
    BY <2>2, <2>3, WindowForWindow
  <2>5. PICK w \in Windows(tracker) : w.id = id /\ Contains(w, p)
    BY <2>4
  <2>6. id < tracker.nextID
    <3>1. tracker.nextID \in Nat
      BY OrderedTypes
    <3>. QED BY <2>5, <3>1 DEF Ordered, Windows
  <2>7. \A x \in Windows(tracker) : x.id = id => Contains(x, p)
    BY <2>5, OneWindowPerId
  <2>8. seed # 0
    <3>1. seed = 0 => k = 0
      BY <1>1, <1>6 DEF LeaveCount
    <3>2. last \in 1 .. Len(all) /\ last <= k
      BY <1>3, <2>1
    <3>. QED BY <1>3, <3>1, <3>2
  <2>9. ev = [pos |-> p, id |-> id]
    BY <2>2
  <2>. HIDE DEF ev, hits
  <2>10. /\ u \in Told /\ u.voice = ev
         /\ u.started = told.started /\ u.ended = told.ended /\ u.cut = told.cut
    <3>1. ev \in VoiceEvent
      BY <2>3, <2>4, <2>9 DEF VoiceEvent
    <3>. QED BY <1>6, <3>1 DEF Told
  <2>11. u.voice.pos = p /\ u.voice.id = id
    BY <2>9, <2>10
  <2>12. \A i \in DOMAIN held : p < held[i].pos
    BY <2>8
  <2>. QED BY <2>3, <2>6, <2>7, <2>10, <2>11, <2>12
<1>. QED BY <1>4, <1>5, <1>6

-----------------------------------------------------------------------------
(* What the steps have in common.                                          *)

TrackerKept ==
    /\ Ordered(tracker') /\ tracker'.open = tracker.open
    /\ tracker'.nextID = tracker.nextID /\ Windows(tracker') = Windows(tracker)

LEMMA AccountStays ==
  ASSUME AccountInv, TrackerKept, backlog' = backlog, told'.started = told.started,
         told'.ended = told.ended, told'.cut = told.cut
  PROVE  AccountInv'
<1>1. OpenIds' = OpenIds /\ BacklogIds' = BacklogIds
  BY DEF TrackerKept, OpenIds, IsOpen, BacklogIds
<1>2. StartsAccounted'
  BY <1>1 DEF AccountInv, StartsAccounted
<1>. QED BY <1>2 DEF AccountInv, TrackerKept

LEMMA EndStays ==
  ASSUME EndInv, TrackerKept, now \in Nat, backlog' = backlog, told'.ended = told.ended,
         now' \in {now, now + 1}, pc' = "done" <=> pc = "done",
         \A i \in DOMAIN pending' :
            \/ \E j \in DOMAIN pending : pending'[i] = pending[j]
            \/ pending'[i] = now /\ pc # "done"
  PROVE  EndInv'
<1>1. ASSUME NEW w \in Windows(tracker), w.id \in told.ended
      PROVE  w.closed /\ (w.cause = "abandoned" \/ Past(w)')
  <2>1. w.closed /\ (w.cause = "abandoned" \/ Past(w))
    BY <1>1 DEF EndInv
  <2>2. w.closePos \in Nat
    BY OrderedTypes DEF Windows, TrackerKept, Window
  <2>3. Past(w) => Past(w)'
    BY <2>2 DEF Past
  <2>. QED BY <2>1, <2>3
<1>. QED BY <1>1 DEF EndInv, TrackerKept

LEMMA VoiceKeeps ==
  ASSUME told.voice \in VoiceEvent, now \in Nat, VoiceInv, TrackerKept,
         now' \in {now, now + 1}, told'.voice = told.voice,
         told.voice.id # 0 => \A i \in DOMAIN held' : told.voice.pos < held'[i].pos
  PROVE  VoiceInv'
<1>1. told.voice.pos \in Nat
  BY DEF VoiceEvent
<1>2. told.voice.id # 0 => told.voice.pos < now'
  BY <1>1 DEF VoiceInv
<1>. QED BY <1>2 DEF VoiceInv, VoiceInItsWindow, TrackerKept

LEMMA DecoderTypes ==
  ASSUME DecoderTypeOK
  PROVE  /\ seed \in Stations \cup {0} /\ held \in Seq(HeldSlot) /\ Len(held) <= SeedWindow
         /\ pending \in Seq(Nat) /\ pendingVoice \in Seq(Nat) /\ Len(pendingVoice) <= VoiceCap
         /\ backlog \in Seq(Window) /\ now \in Nat /\ res \in Result /\ handled \in Seq(Nat)
         /\ told \in Told /\ told.voice \in VoiceEvent /\ NoResult \in Result
         /\ tracker \in Tracker /\ pc \in {"idle", "feed", "replay", "done"}
<1>1. told \in Told
  BY DEF DecoderTypeOK, Told
<1>2. told.voice \in VoiceEvent
  BY <1>1 DEF Told
<1>3. NoResult \in Result
  <2>1. <<>> \in Seq(Nat) /\ <<>> \in Seq(Window) /\ <<>> \in Seq(VoiceEvent)
    OBVIOUS
  <2>. QED BY <2>1 DEF NoResult, Result
<1>. QED BY <1>1, <1>2, <1>3 DEF DecoderTypeOK

\* A step that only takes note of something.
LEMMA QuietKeeps ==
  ASSUME DInv, TrackerKept, backlog' = backlog, told' = told, pending' = pending,
         pendingVoice' \in {pendingVoice, <<>>}, now' \in {now, now + 1},
         pc \in {"idle", "feed"}, pc' \in {"idle", "feed"},
         res' \in Result, handled' = <<>>, seed' \in Stations \cup {0},
         held' = <<>> \/ (held' = held /\ seed' = seed)
  PROVE  DInv'
<1>1. AccountInv'
  BY AccountStays DEF DInv
<1>2. EndInv'
  BY DecoderTypes, EndStays DEF DInv
<1>3. VoiceInv'
  <2>1. \A i \in DOMAIN held' : held' = held
    OBVIOUS
  <2>. QED BY <2>1, DecoderTypes, VoiceKeeps DEF DInv, VoiceInv
<1>4. DecoderTypeOK'
  <2>1. now' \in Nat
    BY DecoderTypes DEF DInv
  <2>2. <<>> \in Seq(Nat) /\ <<>> \in Seq(HeldSlot) /\ Len(<<>>) = 0
    OBVIOUS
  <2>3. SeedWindow \in Nat /\ VoiceCap \in Nat
    BY DecoderConstants
  <2>4. held' \in Seq(HeldSlot) /\ Len(held') <= SeedWindow
    <3>1. held \in Seq(HeldSlot) /\ Len(held) <= SeedWindow
      BY DecoderTypes DEF DInv
    <3>2. CASE held' = <<>>
      <4>1. Len(held') = 0 /\ held' \in Seq(HeldSlot)
        BY <2>2, <3>2
      <4>. QED BY <2>3, <4>1
    <3>3. CASE held' = held
      BY <3>1, <3>3
    <3>. QED BY <3>2, <3>3
  <2>5. pendingVoice' \in Seq(Nat) /\ Len(pendingVoice') <= VoiceCap
    <3>1. pendingVoice \in Seq(Nat) /\ Len(pendingVoice) <= VoiceCap
      BY DecoderTypes DEF DInv
    <3>2. CASE pendingVoice' = <<>>
      <4>1. Len(pendingVoice') = 0 /\ pendingVoice' \in Seq(Nat)
        BY <2>2, <3>2
      <4>. QED BY <2>3, <4>1
    <3>3. CASE pendingVoice' = pendingVoice
      BY <3>1, <3>3
    <3>. QED BY <3>2, <3>3
  <2>6. tracker' \in Tracker
    BY DEF TrackerKept, Ordered
  <2>. QED BY <2>1, <2>2, <2>4, <2>5, <2>6 DEF DInv, DecoderTypeOK
<1>5. QueuesInv'
  <2>1. now \in Nat /\ pending \in Seq(Nat) /\ pendingVoice \in Seq(Nat)
    BY DecoderTypes DEF DInv
  <2>2. \A i \in DOMAIN pending : pending[i] \in Nat
    BY <2>1, ElementOfSeq, LenProperties
  <2>3. \A i \in DOMAIN pendingVoice : pendingVoice[i] \in Nat
    BY <2>1, ElementOfSeq, LenProperties
  <2>4. \A i \in DOMAIN pending' : pending'[i] < now'
    BY <2>1, <2>2 DEF DInv, QueuesInv
  <2>5. \A i \in DOMAIN pendingVoice' : pendingVoice'[i] < now'
    BY <2>1, <2>3 DEF DInv, QueuesInv
  <2>. QED BY <2>4, <2>5 DEF DInv, QueuesInv
<1>. QED BY <1>1, <1>2, <1>3, <1>4, <1>5 DEF DInv, TrackerKept

LEMMA QuietActions ==
  ASSUME DInv,
         \/ BeginFeed \/ EmptyFeed \/ EmptySlot \/ ResetSeed \/ SignalLost
         \/ \E key \in Stations : PinSeed(key)
         \/ \E air \in AirSlots : FacchSlot(air) /\ seed # 0
  PROVE  DInv'
<1>1. /\ res \in Result /\ NoResult \in Result /\ now \in Nat /\ seed \in Stations \cup {0}
      /\ tracker \in Tracker
  BY DecoderTypes DEF DInv
<1>2. tracker' = tracker => TrackerKept
  BY DEF TrackerKept, DInv
<1>3. CASE BeginFeed
  BY <1>1, <1>2, <1>3, QuietKeeps DEF BeginFeed
<1>4. CASE EmptyFeed
  BY <1>1, <1>2, <1>4, QuietKeeps DEF EmptyFeed
<1>5. CASE EmptySlot
  BY <1>1, <1>2, <1>5, QuietKeeps DEF EmptySlot
<1>6. CASE ResetSeed
  BY <1>1, <1>2, <1>6, QuietKeeps DEF ResetSeed
<1>7. CASE SignalLost
  <2>1. /\ ArmMidJoin(tracker) \in Tracker /\ ArmMidJoin(tracker).open = tracker.open
        /\ ArmMidJoin(tracker).recent = tracker.recent
        /\ ArmMidJoin(tracker).nextID = tracker.nextID
    <3>1. -1 \in Nat \cup {-1}
      OBVIOUS
    <3>. QED BY <1>1, <3>1 DEF ArmMidJoin, Tracker
  <2>2. tracker' = ArmMidJoin(tracker)
    BY <1>7 DEF SignalLost
  <2>3. TrackerKept
    BY <1>1, <2>1, <2>2, SameTracker DEF DInv, TrackerKept
  <2>. QED BY <1>1, <1>7, <2>3, QuietKeeps DEF SignalLost
<1>8. ASSUME NEW key \in Stations, PinSeed(key)
      PROVE  DInv'
  <2>1. PICK v : v = Labelled(tracker, pendingVoice)
    OBVIOUS
  <2>2. v \in Seq(VoiceEvent)
    BY <2>1, LabelledType, DecoderTypes DEF DInv
  <2>3. [NoResult EXCEPT !.voice = v] \in Result
    BY <1>1, <2>2 DEF Result
  <2>. QED BY <1>1, <1>2, <1>8, <2>1, <2>3, QuietKeeps DEF PinSeed
<1>9. ASSUME NEW air \in AirSlots, FacchSlot(air), seed # 0
      PROVE  DInv'
  <2>1. PICK a \in BOOLEAN : a = air.msg.crc
    BY DecoderConstants DEF Message
  <2>2. PICK good \in BOOLEAN : good = (air.station = seed /\ air.msg.crc)
    BY <2>1
  <2>3. res' \in Result
    <3>1. PICK known \in {TRUE, good} :
             res' = [res EXCEPT !.control = @ \/ known, !.valid = @ \/ good]
      BY <1>9, <2>2 DEF FacchSlot
    <3>2. known \in BOOLEAN
      BY <2>2
    <3>3. res.control \in BOOLEAN /\ res.valid \in BOOLEAN
      BY <1>1 DEF Result
    <3>4. PICK c \in BOOLEAN : c = (res.control \/ known)
      BY <3>2, <3>3
    <3>5. PICK d \in BOOLEAN : d = (res.valid \/ good)
      BY <3>3
    <3>6. res' = [res EXCEPT !.control = c, !.valid = d]
      BY <3>1, <3>4, <3>5
    <3>. QED BY <1>1, <3>6 DEF Result
  <2>4. pc = "feed" /\ now' = now + 1 /\ handled' = <<>>
        /\ UNCHANGED <<seed, held, tracker, pending, pendingVoice, backlog, pc, told>>
    BY <1>9 DEF FacchSlot
  <2>. QED BY <1>1, <1>2, <2>3, <2>4, QuietKeeps
<1>. QED BY <1>3, <1>4, <1>5, <1>6, <1>7, <1>8, <1>9

-----------------------------------------------------------------------------
(* Control slots.                                                          *)

\* What a held queue keeps when a slot is pushed.
LEMMA HeldSlots ==
  ASSUME NEW s \in Seq(HeldSlot), NEW slot \in HeldSlot,
         NEW h, h = LastOf(Append(s, slot), SeedWindow)
  PROVE  /\ h \in Seq(HeldSlot) /\ Len(h) <= SeedWindow
         /\ \A i \in DOMAIN h : h[i] = slot \/ \E j \in DOMAIN s : h[i] = s[j]
<1>1. PICK a : a = Append(s, slot)
  OBVIOUS
<1>2. /\ a \in Seq(HeldSlot) /\ Len(a) = Len(s) + 1 /\ Len(s) \in Nat
      /\ \A i \in 1 .. Len(s) : a[i] = s[i]
      /\ a[Len(s) + 1] = slot /\ DOMAIN s = 1 .. Len(s)
  BY <1>1, AppendProperties, LenProperties
<1>3. SeedWindow \in Nat
  BY DecoderConstants
<1>4. /\ h \in Seq(HeldSlot) /\ Len(h) <= SeedWindow
      /\ \E d \in Nat : \A i \in 1 .. Len(h) : i + d \in 1 .. Len(a) /\ h[i] = a[i + d]
  <2>1. h = LastOf(a, SeedWindow)
    BY <1>1
  <2>2. a \in Seq(HeldSlot)
    BY <1>2
  <2>3. /\ LastOf(a, SeedWindow) \in Seq(HeldSlot) /\ Len(LastOf(a, SeedWindow)) <= SeedWindow
        /\ \E d \in Nat : \A i \in 1 .. Len(LastOf(a, SeedWindow)) :
              i + d \in 1 .. Len(a) /\ LastOf(a, SeedWindow)[i] = a[i + d]
    BY <1>3, <2>2, LastOfSuffix
  <2>. QED BY <2>1, <2>3
<1>5. DOMAIN h = 1 .. Len(h)
  BY <1>4, LenProperties
<1>6. \A k \in 1 .. Len(a) : a[k] = slot \/ \E j \in DOMAIN s : a[k] = s[j]
  BY <1>2
<1>. QED BY <1>4, <1>5, <1>6

LEMMA HoldSlotKeeps ==
  ASSUME DInv, pc = "feed", seed = 0, now' = now + 1, handled' = <<>>,
         NEW slot \in HeldSlot, slot.pos = now, HoldSlot(slot),
         UNCHANGED <<pending, pendingVoice>>
  PROVE  DInv'
<1>1. /\ held \in Seq(HeldSlot) /\ now \in Nat /\ res \in Result /\ tracker \in Tracker
      /\ told \in Told /\ told.voice \in VoiceEvent /\ backlog \in Seq(Window)
      /\ pending \in Seq(Nat) /\ pendingVoice \in Seq(Nat) /\ Len(pendingVoice) <= VoiceCap
  BY DecoderTypes DEF DInv
<1>2. tracker' = tracker /\ backlog' = backlog /\ told' = told
  BY DEF HoldSlot
<1>3. TrackerKept
  BY <1>2 DEF TrackerKept, DInv
<1>4. /\ held' \in Seq(HeldSlot) /\ Len(held') <= SeedWindow
      /\ \A i \in DOMAIN held' : held'[i] = slot \/ \E j \in DOMAIN held : held'[i] = held[j]
  <2>1. held' = LastOf(Append(held, slot), SeedWindow)
    BY DEF HoldSlot
  <2>. QED BY <1>1, <2>1, HeldSlots
<1>5. AccountInv'
  BY <1>2, <1>3, AccountStays DEF DInv
<1>6. (pc' = "feed" /\ seed' = 0 /\ res' = res)
      \/ (pc' = "replay" /\ held' # <<>> /\ seed' \in Stations /\ res' \in Result)
  <2>1. CASE UNCHANGED <<seed, pc, res>>
    BY <2>1
  <2>2. CASE /\ Len(held') >= MinSlots /\ pc' = "replay"
             /\ \E i \in DOMAIN held' :
                   /\ seed' = held'[i].station
                   /\ res' = [res EXCEPT !.detected = held'[i].station]
    <3>1. PICK i \in DOMAIN held' : /\ seed' = held'[i].station
                                    /\ res' = [res EXCEPT !.detected = held'[i].station]
      BY <2>2
    <3>2. held'[i] \in HeldSlot
      BY <1>4, ElementOfSeq, LenProperties
    <3>3. held'[i].station \in Stations
      BY <3>2 DEF HeldSlot
    <3>4. held' # <<>>
      BY <3>1
    <3>. QED BY <1>1, <2>2, <3>1, <3>3, <3>4 DEF Result
  <2>. QED BY <2>1, <2>2 DEF HoldSlot
<1>7. EndInv'
  BY <1>1, <1>2, <1>3, <1>6, EndStays DEF DInv
<1>8. VoiceInv'
  <2>1. told.voice.id # 0 => \A i \in DOMAIN held' : told.voice.pos < held'[i].pos
    BY <1>4 DEF DInv, VoiceInv
  <2>. QED BY <1>1, <1>2, <1>3, <2>1, VoiceKeeps DEF DInv
<1>9. DecoderTypeOK'
  <2>1. now' \in Nat /\ <<>> \in Seq(Nat)
    BY <1>1
  <2>2. seed' \in Stations \cup {0} /\ res' \in Result /\ pc' \in {"feed", "replay"}
    BY <1>1, <1>6
  <2>. QED BY <1>1, <1>2, <1>4, <2>1, <2>2 DEF DecoderTypeOK, Told
<1>10. QueuesInv'
  <2>1. \A i \in DOMAIN pending : pending[i] \in Nat
    BY <1>1, ElementOfSeq, LenProperties
  <2>2. \A i \in DOMAIN pendingVoice : pendingVoice[i] \in Nat
    BY <1>1, ElementOfSeq, LenProperties
  <2>3. \A i \in DOMAIN pending : pending[i] < now + 1
    BY <1>1, <2>1 DEF DInv, QueuesInv
  <2>4. \A i \in DOMAIN pendingVoice : pendingVoice[i] < now + 1
    BY <1>1, <2>2 DEF DInv, QueuesInv
  <2>5. 0 \notin Stations
    BY DecoderConstants
  <2>. QED BY <1>6, <2>3, <2>4, <2>5 DEF DInv, QueuesInv
<1>. QED BY <1>3, <1>5, <1>7, <1>8, <1>9, <1>10 DEF DInv, TrackerKept

\* A slot is decoded, at its place in the stream or out of the held ones.
LEMMA DecodeKeeps ==
  ASSUME DInv, pc \in {"feed", "replay"}, pc' \in {"feed", "replay"}, seed' = seed,
         seed # 0, now' \in {now, now + 1}, handled' = <<>>,
         NEW slot \in HeldSlot, DecodeControl(slot, seed, res),
         told.voice.id # 0 => told.voice.pos < slot.pos,
         UNCHANGED <<pending, pendingVoice>>,
         held' \in Seq(HeldSlot), Len(held') <= SeedWindow,
         \A i \in DOMAIN held' : \E j \in DOMAIN held : held'[i] = held[j],
         pc' = "replay" <=> held' # <<>>
  PROVE  DInv'
<1>1. /\ now \in Nat /\ res \in Result /\ told \in Told /\ told.voice \in VoiceEvent
      /\ pending \in Seq(Nat) /\ pendingVoice \in Seq(Nat) /\ Len(pendingVoice) <= VoiceCap
  BY DecoderTypes DEF DInv
<1>2. /\ Ordered(tracker') /\ Grows(tracker, tracker', slot.pos) /\ AccountInv'
      /\ backlog' \in Seq(Window) /\ res' \in Result /\ told' \in Told
      /\ told'.ended = told.ended /\ told'.voice = told.voice
      /\ \A i \in DOMAIN backlog' :
            /\ backlog'[i].closed
            /\ \A w \in Windows(tracker') : w.id = backlog'[i].id => w = backlog'[i]
  BY <1>1, DecodeControlMoves DEF DInv
<1>3. slot.pos \in Nat
  BY DEF HeldSlot
<1>4. VoiceInv'
  <2>1. told.voice.id # 0 => \A i \in DOMAIN held' : told.voice.pos < held'[i].pos
    BY DEF DInv, VoiceInv
  <2>. QED BY <1>1, <1>2, <1>3, <2>1, VoiceStays DEF DInv
<1>5. EndInv'
  <2>1. told.ended \subseteq 1 .. tracker.nextID - 1
    BY KnownIds DEF DInv
  <2>2. \A w \in Windows(tracker') :
            w.id \in told'.ended => w.closed /\ (w.cause = "abandoned" \/ Past(w)')
    <3>1. pc' = "done" <=> pc = "done"
      OBVIOUS
    <3>2. \A w \in Windows(tracker') :
             w.id \in told'.ended \ told.ended => w.closed /\ w.cause = "abandoned"
      BY <1>2
    <3>3. Ordered(tracker) /\ EndInv /\ pending' = pending
      BY DEF DInv
    <3>. QED BY <1>1, <1>2, <1>3, <2>1, <3>1, <3>2, <3>3, EndsStay
  <2>. QED BY <1>2, <2>2 DEF EndInv
<1>6. DecoderTypeOK'
  <2>1. now' \in Nat /\ <<>> \in Seq(Nat)
    BY <1>1
  <2>2. seed' \in Stations \cup {0} /\ tracker' \in Tracker
    BY <1>2, DecoderTypes DEF DInv, Ordered
  <2>. QED BY <1>1, <1>2, <2>1, <2>2 DEF DecoderTypeOK, Told
<1>7. QueuesInv'
  <2>1. \A i \in DOMAIN pending : pending[i] \in Nat
    BY <1>1, ElementOfSeq, LenProperties
  <2>2. \A i \in DOMAIN pendingVoice : pendingVoice[i] \in Nat
    BY <1>1, ElementOfSeq, LenProperties
  <2>3. \A i \in DOMAIN pending : pending[i] < now'
    BY <1>1, <2>1 DEF DInv, QueuesInv
  <2>4. \A i \in DOMAIN pendingVoice : pendingVoice[i] < now'
    BY <1>1, <2>2 DEF DInv, QueuesInv
  <2>. QED BY <2>3, <2>4 DEF DInv, QueuesInv
<1>. QED BY <1>2, <1>4, <1>5, <1>6, <1>7 DEF DInv

LEMMA ControlSlotKeeps ==
  ASSUME DInv, NEW air \in AirSlots, ControlSlot(air)
  PROVE  DInv'
<1>1. PICK slot : slot = [pos |-> now, station |-> air.station, msg |-> air.msg]
  OBVIOUS
<1>2. /\ pc = "feed" /\ now' = now + 1 /\ handled' = <<>>
      /\ UNCHANGED <<pending, pendingVoice>>
      /\ IF seed = 0 THEN HoldSlot(slot)
         ELSE DecodeControl(slot, seed, res) /\ UNCHANGED <<seed, held, pc>>
  BY <1>1 DEF ControlSlot
<1>3. now \in Nat
  BY DecoderTypes DEF DInv
<1>4. slot \in HeldSlot /\ slot.pos = now
  BY <1>1, <1>3, DecoderConstants DEF HeldSlot
<1>5. CASE seed = 0
  BY <1>2, <1>4, <1>5, HoldSlotKeeps
<1>6. CASE seed # 0
  <2>1. held = <<>> /\ held' = <<>> /\ pc' = "feed" /\ seed' = seed
    BY <1>2, <1>6 DEF DInv, QueuesInv
  <2>2. held' \in Seq(HeldSlot) /\ Len(held') <= SeedWindow
    BY <2>1, DecoderTypes DEF DInv
  <2>3. told.voice.id # 0 => told.voice.pos < slot.pos
    BY <1>4 DEF DInv, VoiceInv
  <2>4. \A i \in DOMAIN held' : \E j \in DOMAIN held : held'[i] = held[j]
    BY <2>1
  <2>5. DecodeControl(slot, seed, res)
    BY <1>2, <1>6
  <2>. QED BY <1>2, <1>4, <1>6, <2>1, <2>2, <2>3, <2>4, <2>5, DecodeKeeps
<1>. QED BY <1>5, <1>6

LEMMA ReplayKeeps ==
  ASSUME DInv, Replay
  PROVE  DInv'
<1>1. /\ pc = "replay" /\ held' = Tail(held) /\ handled' = <<>> /\ now' = now /\ seed' = seed
      /\ pc' = IF Len(held) = 1 THEN "feed" ELSE "replay"
      /\ UNCHANGED <<pending, pendingVoice>>
      /\ DecodeControl(Head(held), seed, res)
  BY DEF Replay
<1>2. held # <<>> /\ seed # 0
  BY <1>1 DEF DInv, QueuesInv
<1>3. held \in Seq(HeldSlot) /\ Len(held) <= SeedWindow /\ Len(held) \in Nat /\ SeedWindow \in Nat
  BY DecoderTypes, DecoderConstants, LenProperties DEF DInv
<1>4. /\ Head(held) \in HeldSlot /\ Head(held) = held[1] /\ 1 \in DOMAIN held
      /\ held' \in Seq(HeldSlot) /\ Len(held') = Len(held) - 1
      /\ \A i \in 1 .. Len(held) - 1 : held'[i] = held[i + 1]
  BY <1>1, <1>2, <1>3, HeadTailProperties, LenProperties, EmptySeq
<1>5. DOMAIN held' = 1 .. Len(held) - 1 /\ DOMAIN held = 1 .. Len(held)
  BY <1>3, <1>4, LenProperties
<1>6. \A i \in DOMAIN held' : \E j \in DOMAIN held : held'[i] = held[j]
  <2>1. \A i \in 1 .. Len(held) - 1 : i + 1 \in 1 .. Len(held)
    BY <1>3
  <2>. QED BY <1>4, <1>5, <2>1
<1>7. told.voice.id # 0 => told.voice.pos < Head(held).pos
  BY <1>4 DEF DInv, VoiceInv
<1>8. pc' = "replay" <=> held' # <<>>
  <2>1. Len(held) >= 1
    BY <1>3, <1>4, <1>5
  <2>2. held' # <<>> <=> Len(held') # 0
    BY <1>4, EmptySeq
  <2>. QED BY <1>1, <1>3, <1>4, <2>1, <2>2
<1>9. Len(held') <= SeedWindow
  BY <1>3, <1>4
<1>10. pc' \in {"feed", "replay"}
  BY <1>1
<1>. QED BY <1>1, <1>2, <1>4, <1>6, <1>7, <1>8, <1>9, <1>10, DecodeKeeps

-----------------------------------------------------------------------------
(* Bursts.                                                                 *)

\* What release and emitVoice do to the queues and to the result.
LEMMA EmitKeeps ==
  ASSUME DInv, pc = "feed", NEW b \in {now, now + 1}, NEW all \in Seq(Nat),
         \A i \in DOMAIN all : all[i] < b,
         \A i, j \in DOMAIN all : i < j => all[i] < all[j],
         NEW n \in 0 .. Len(all), NEW d, d = Upto(all, n), NEW f, f = From(all, n),
         NEW pv, pv = StillWaiting(d), NEW e, e = Emitted(d, res),
         NEW u, u = NoteVoice(d)
  PROVE  /\ f \in Seq(Nat)
         /\ \A i, j \in DOMAIN f : i < j => f[i] < f[j]
         /\ \A i \in DOMAIN f : f[i] < b /\ \E j \in DOMAIN all : f[i] = all[j]
         /\ pv \in Seq(Nat) /\ Len(pv) <= VoiceCap /\ \A i \in DOMAIN pv : pv[i] < b
         /\ e \in Result /\ e.voice \in Seq(VoiceEvent)
         /\ u \in Told /\ u.started = told.started /\ u.ended = told.ended
         /\ u.cut = told.cut /\ u.voice.id < tracker.nextID
         /\ u.voice.id # 0 => /\ u.voice.pos < b
                              /\ \A i \in DOMAIN held : u.voice.pos < held[i].pos
         /\ \A w \in Windows(tracker) :
               w.id # 0 /\ w.id = u.voice.id => Contains(w, u.voice.pos)
<1>1. /\ now \in Nat /\ res \in Result /\ told \in Told /\ pendingVoice \in Seq(Nat)
      /\ Ordered(tracker) /\ VoiceInv /\ (seed # 0 => held = <<>>)
      /\ \A i \in DOMAIN pendingVoice : pendingVoice[i] < now
  BY DecoderTypes DEF DInv, QueuesInv
<1>2. b \in Nat
  BY <1>1
<1>3. /\ d \in Seq(Nat) /\ \A i \in DOMAIN d : d[i] < b
  <2>1. d \in Seq(Nat) /\ \A i \in DOMAIN d : i \in DOMAIN all /\ d[i] = all[i]
    BY UptoElements
  <2>. QED BY <2>1
<1>4. /\ f \in Seq(Nat)
      /\ \A i \in DOMAIN f : i \in Nat \ {0} /\ i + n \in DOMAIN all /\ f[i] = all[i + n]
  BY FromElements
<1>5. \A i, j \in DOMAIN f : i < j => f[i] < f[j]
  <2> SUFFICES ASSUME NEW i \in DOMAIN f, NEW j \in DOMAIN f, i < j
               PROVE  f[i] < f[j]
    OBVIOUS
  <2>1. i + n < j + n /\ i + n \in DOMAIN all /\ j + n \in DOMAIN all
    BY <1>4, LenProperties
  <2>. QED BY <1>4, <2>1
<1>6. \A i \in DOMAIN f : f[i] < b /\ \E j \in DOMAIN all : f[i] = all[j]
  BY <1>4
<1>7. /\ pv \in Seq(Nat) /\ Len(pv) <= VoiceCap /\ \A i \in DOMAIN pv : pv[i] < b
  <2>1. \A i \in DOMAIN pendingVoice : pendingVoice[i] < b
    <3>1. \A i \in DOMAIN pendingVoice : pendingVoice[i] \in Nat
      BY <1>1, ElementOfSeq, LenProperties
    <3>. QED BY <1>1, <3>1
  <2>. QED BY <1>1, <1>2, <1>3, <2>1, WaitingElements
<1>8. e \in Result /\ e.voice \in Seq(VoiceEvent)
  BY <1>1, <1>3, EmittedType
<1>9. /\ u \in Told /\ u.started = told.started /\ u.ended = told.ended
      /\ u.cut = told.cut /\ u.voice.id < tracker.nextID
      /\ u.voice.id # 0 => /\ u.voice.pos < b
                           /\ \A i \in DOMAIN held : u.voice.pos < held[i].pos
      /\ \A w \in Windows(tracker) :
            w.id # 0 /\ w.id = u.voice.id => Contains(w, u.voice.pos)
  BY <1>1, <1>3, NoteVoiceKeeps, SMTT(30)
<1>. QED BY <1>4, <1>5, <1>6, <1>7, <1>8, <1>9

LEMMA VoiceSlotKeeps ==
  ASSUME DInv, VoiceSlot
  PROVE  DInv'
<1>0. /\ pc = "feed" /\ pc' = "feed" /\ now' = now + 1 /\ handled' = <<now>>
      /\ UNCHANGED <<seed, held, tracker, backlog>>
  BY DEF VoiceSlot
<1>1. PICK all : all = Append(pending, now)
  OBVIOUS
<1>2. /\ now \in Nat /\ pending \in Seq(Nat) /\ told \in Told
      /\ \A i \in DOMAIN pending : pending[i] \in Nat
  <2>1. now \in Nat /\ pending \in Seq(Nat) /\ told \in Told
    BY DecoderTypes DEF DInv
  <2>. QED BY <2>1, ElementOfSeq, LenProperties
<1>3. /\ all \in Seq(Nat) /\ Len(pending) \in Nat /\ Len(all) = Len(pending) + 1
      /\ DOMAIN all = 1 .. Len(pending) + 1 /\ DOMAIN pending = 1 .. Len(pending)
      /\ \A i \in 1 .. Len(pending) : all[i] = pending[i]
      /\ all[Len(pending) + 1] = now
  BY <1>1, <1>2, AppendProperties, LenProperties
<1>15. \A i \in DOMAIN all :
          \/ i \in DOMAIN pending /\ all[i] = pending[i]
          \/ i = Len(pending) + 1 /\ all[i] = now
  <2> SUFFICES ASSUME NEW i \in DOMAIN all
               PROVE  \/ i \in DOMAIN pending /\ all[i] = pending[i]
                      \/ i = Len(pending) + 1 /\ all[i] = now
    OBVIOUS
  <2>1. i \in 1 .. Len(pending) \/ i = Len(pending) + 1
    BY <1>3
  <2>. QED BY <1>3, <2>1
<1>16. /\ \A i \in DOMAIN pending : pending[i] < now
       /\ \A i, j \in DOMAIN pending : i < j => pending[i] < pending[j]
  BY DEF DInv, QueuesInv
<1>4. \A i \in DOMAIN all : all[i] < now + 1
  BY <1>2, <1>15, <1>16
<1>5. \A i, j \in DOMAIN all : i < j => all[i] < all[j]
  <2> SUFFICES ASSUME NEW i \in DOMAIN all, NEW j \in DOMAIN all, i < j
               PROVE  all[i] < all[j]
    OBVIOUS
  <2>1. i \in DOMAIN pending /\ all[i] = pending[i] /\ pending[i] < now
    BY <1>3, <1>16
  <2>2. CASE j \in DOMAIN pending /\ all[j] = pending[j]
    BY <1>16, <2>1, <2>2
  <2>3. CASE all[j] = now
    BY <2>1, <2>3
  <2>. QED BY <1>15, <2>2, <2>3
<1>6. PICK n \in 0 .. Len(all) :
         /\ pending' = From(all, n) /\ pendingVoice' = StillWaiting(Upto(all, n))
         /\ res' = Emitted(Upto(all, n), res) /\ told' = NoteVoice(Upto(all, n))
  BY <1>1 DEF VoiceSlot
<1>7. PICK d : d = Upto(all, n)
  OBVIOUS
<1>8. /\ pending' \in Seq(Nat)
      /\ \A i, j \in DOMAIN pending' : i < j => pending'[i] < pending'[j]
      /\ \A i \in DOMAIN pending' :
            pending'[i] < now + 1 /\ \E j \in DOMAIN all : pending'[i] = all[j]
      /\ pendingVoice' \in Seq(Nat) /\ Len(pendingVoice') <= VoiceCap
      /\ \A i \in DOMAIN pendingVoice' : pendingVoice'[i] < now + 1
      /\ res' \in Result
      /\ told' \in Told /\ told'.started = told.started /\ told'.ended = told.ended
      /\ told'.cut = told.cut /\ told'.voice.id < tracker.nextID
      /\ told'.voice.id # 0 => /\ told'.voice.pos < now + 1
                               /\ \A i \in DOMAIN held : told'.voice.pos < held[i].pos
      /\ \A w \in Windows(tracker) :
            w.id # 0 /\ w.id = told'.voice.id => Contains(w, told'.voice.pos)
  <2>1. PICK b \in {now, now + 1} : b = now + 1
    OBVIOUS
  <2>2. /\ \A i \in DOMAIN all : all[i] < b
        /\ \A i, j \in DOMAIN all : i < j => all[i] < all[j]
    BY <1>4, <1>5, <2>1
  <2>3. /\ pending' = From(all, n) /\ pendingVoice' = StillWaiting(d)
        /\ res' = Emitted(d, res) /\ told' = NoteVoice(d)
    BY <1>6, <1>7
  <2>4. PICK f, pv, e, u : f = pending' /\ pv = pendingVoice' /\ e = res' /\ u = told'
    OBVIOUS
  <2>5. /\ f \in Seq(Nat)
        /\ \A i, j \in DOMAIN f : i < j => f[i] < f[j]
        /\ \A i \in DOMAIN f : f[i] < b /\ \E j \in DOMAIN all : f[i] = all[j]
        /\ pv \in Seq(Nat) /\ Len(pv) <= VoiceCap /\ \A i \in DOMAIN pv : pv[i] < b
        /\ e \in Result
        /\ u \in Told /\ u.started = told.started /\ u.ended = told.ended
        /\ u.cut = told.cut /\ u.voice.id < tracker.nextID
        /\ u.voice.id # 0 => /\ u.voice.pos < b
                             /\ \A i \in DOMAIN held : u.voice.pos < held[i].pos
        /\ \A w \in Windows(tracker) :
              w.id # 0 /\ w.id = u.voice.id => Contains(w, u.voice.pos)
    <3>1. /\ f = From(all, n) /\ pv = StillWaiting(d)
          /\ e = Emitted(d, res) /\ u = NoteVoice(d)
      BY <2>3, <2>4
    <3>2. all \in Seq(Nat) /\ pc = "feed"
      BY <1>0, <1>3
    <3>. QED BY <1>7, <2>2, <3>1, <3>2, EmitKeeps, SMTT(30)
  <2>. QED BY <2>1, <2>4, <2>5
<1>9. TrackerKept
  BY <1>0 DEF TrackerKept, DInv
<1>10. AccountInv'
  BY <1>0, <1>8, <1>9, AccountStays DEF DInv
<1>11. EndInv'
  <2>1. \A i \in DOMAIN pending' :
            \/ \E j \in DOMAIN pending : pending'[i] = pending[j]
            \/ pending'[i] = now /\ pc # "done"
    <3>1. \A i \in DOMAIN pending' : \E j \in DOMAIN all : pending'[i] = all[j]
      BY <1>8
    <3>. QED BY <1>0, <1>15, <3>1
  <2>. QED BY <1>0, <1>2, <1>8, <1>9, <2>1, EndStays DEF DInv
<1>12. VoiceInv'
  BY <1>0, <1>8 DEF VoiceInv, VoiceInItsWindow
<1>13. DecoderTypeOK'
  <2>1. now' \in Nat /\ handled' \in Seq(Nat)
    BY <1>0, <1>2
  <2>. QED BY <1>0, <1>8, <2>1 DEF DInv, DecoderTypeOK, Told
<1>14. QueuesInv'
  BY <1>0, <1>8 DEF DInv, QueuesInv
<1>. QED BY <1>9, <1>10, <1>11, <1>12, <1>13, <1>14 DEF DInv, TrackerKept

-----------------------------------------------------------------------------
(* The end of a Feed, and of the stream.                                   *)

LEMMA WatermarkLeast ==
  ASSUME now \in Nat, NEW p \in Seq(Nat),
         \A i, j \in DOMAIN p : i < j => p[i] < p[j],
         NEW m, m = Watermark(p)
  PROVE  m \in Nat /\ m <= now /\ \A i \in DOMAIN p : m <= p[i]
<1>1. /\ Len(p) \in Nat /\ DOMAIN p = 1 .. Len(p) /\ (p # <<>> => Len(p) > 0)
      /\ \A i \in DOMAIN p : p[i] \in Nat
  BY LenProperties, ElementOfSeq, EmptySeq
<1>2. CASE p = <<>>
  <2>1. m = Least({now})
    BY <1>2 DEF Watermark
  <2>2. m = now
    BY <2>1 DEF Least
  <2>. QED BY <1>1, <1>2, <2>2
<1>3. CASE p # <<>>
  <2>1. m = Least({now, p[1]})
    <3>1. {now} \cup {p[1]} = {now, p[1]}
      OBVIOUS
    <3>. QED BY <1>3, <3>1 DEF Watermark
  <2>2. 1 \in DOMAIN p /\ p[1] \in Nat
    BY <1>1, <1>3
  <2>3. \E x \in {now, p[1]} : \A y \in {now, p[1]} : x <= y
    BY <2>2
  <2>4. m \in {now, p[1]} /\ \A y \in {now, p[1]} : m <= y
    BY <2>1, <2>3 DEF Least
  <2>5. \A i \in DOMAIN p : p[1] <= p[i]
    <3> SUFFICES ASSUME NEW i \in DOMAIN p PROVE p[1] <= p[i]
      OBVIOUS
    <3>1. i = 1 \/ 1 < i
      BY <1>1
    <3>2. i = 1 => p[1] <= p[i]
      BY <2>2
    <3>3. 1 < i => p[1] < p[i]
      BY <2>2
    <3>. QED BY <1>1, <2>2, <3>1, <3>2, <3>3
  <2>. QED BY <1>1, <2>2, <2>4, <2>5
<1>. QED BY <1>2, <1>3

\* What is left of the backlog without the windows at I.
Leaves(I, rest) ==
    /\ \A i, j \in DOMAIN backlog : backlog[i] = backlog[j] => (i \in I <=> j \in I)
    /\ \A k \in DOMAIN rest : \E i \in DOMAIN backlog : i \notin I /\ rest[k] = backlog[i]
    /\ \A i \in DOMAIN backlog : i \notin I => \E k \in DOMAIN rest : rest[k] = backlog[i]
    /\ \A k, l \in DOMAIN rest :
          k # l /\ rest[k] = rest[l] =>
             \E i, j \in DOMAIN backlog :
                i # j /\ backlog[i] = backlog[j] /\ backlog[i] = rest[k]

AreIds(I, out) ==
    /\ \A id \in out : \E i \in I : id = backlog[i].id
    /\ \A i \in I : backlog[i].id \in out

\* The accounts when the windows I of the backlog are reported.
LEMMA ReportAccounts ==
  ASSUME AccountInv, NEW I \in SUBSET DOMAIN backlog, NEW rest, Leaves(I, rest),
         NEW out, AreIds(I, out), tracker' = tracker, backlog' = rest,
         told'.started = told.started, told'.cut = told.cut,
         told'.ended = told.ended \cup out
  PROVE  AccountInv'
<1>14. /\ \A i, j \in DOMAIN backlog : backlog[i] = backlog[j] => (i \in I <=> j \in I)
       /\ \A k \in DOMAIN rest : \E i \in DOMAIN backlog : i \notin I /\ rest[k] = backlog[i]
       /\ \A i \in DOMAIN backlog : i \notin I => \E k \in DOMAIN rest : rest[k] = backlog[i]
       /\ \A k, l \in DOMAIN rest :
             k # l /\ rest[k] = rest[l] =>
                \E i, j \in DOMAIN backlog :
                   i # j /\ backlog[i] = backlog[j] /\ backlog[i] = rest[k]
  BY DEF Leaves
<1>15. /\ \A id \in out : \E i \in I : id = backlog[i].id
       /\ \A i \in I : backlog[i].id \in out
  BY DEF AreIds
<1>1. \A i, j \in DOMAIN backlog : backlog[i].id = backlog[j].id => backlog[i] = backlog[j]
  BY DEF AccountInv
<1>2. /\ told.started \subseteq OpenIds \cup BacklogIds \cup told.ended
      /\ told.ended \cup BacklogIds \cup OpenIds \subseteq told.started \cup told.cut
      /\ OpenIds \cap (BacklogIds \cup told.ended) = {}
      /\ BacklogIds \cap told.ended = {}
      /\ \A i, j \in DOMAIN backlog :
            i # j /\ backlog[i].id = backlog[j].id => backlog[i].id \in told.cut
  BY DEF AccountInv, StartsAccounted
<1>3. \A id : id \in BacklogIds <=> \E i \in DOMAIN backlog : id = backlog[i].id
  BY DEF BacklogIds
<1>4. \A id : id \in BacklogIds' <=>
                 \E i \in DOMAIN backlog : i \notin I /\ id = backlog[i].id
  <2>1. BacklogIds' = {rest[k].id : k \in DOMAIN rest}
    BY DEF BacklogIds
  <2>2. \A id : id \in BacklogIds' <=> \E k \in DOMAIN rest : id = rest[k].id
    BY <2>1
  <2>. QED BY <1>14, <2>2
<1>5. OpenIds' = OpenIds
  BY DEF OpenIds, IsOpen
<1>6. \A k, l \in DOMAIN rest : rest[k].id = rest[l].id => rest[k] = rest[l]
  BY <1>1, <1>14
<1>7. \A k, l \in DOMAIN rest : k # l /\ rest[k].id = rest[l].id => rest[k].id \in told.cut
  <2> SUFFICES ASSUME NEW k \in DOMAIN rest, NEW l \in DOMAIN rest,
                      k # l, rest[k].id = rest[l].id
               PROVE  rest[k].id \in told.cut
    OBVIOUS
  <2>1. PICK i, j \in DOMAIN backlog :
                  i # j /\ backlog[i] = backlog[j] /\ backlog[i] = rest[k]
    BY <1>6, <1>14
  <2>. QED BY <1>2, <2>1
<1>8. \A i \in I : i \in DOMAIN backlog
  OBVIOUS
<1>9. told'.started \subseteq OpenIds' \cup BacklogIds' \cup told'.ended
  BY <1>2, <1>3, <1>4, <1>5, <1>15
<1>10. told'.ended \cup BacklogIds' \cup OpenIds' \subseteq told'.started \cup told'.cut
  BY <1>2, <1>3, <1>4, <1>5, <1>8, <1>15
<1>11. OpenIds' \cap (BacklogIds' \cup told'.ended) = {}
  BY <1>2, <1>3, <1>4, <1>5, <1>8, <1>15
<1>12. BacklogIds' \cap told'.ended = {}
  <2> SUFFICES ASSUME NEW id \in BacklogIds', id \in told'.ended
               PROVE  FALSE
    OBVIOUS
  <2>1. PICK i \in DOMAIN backlog : i \notin I /\ id = backlog[i].id
    BY <1>4
  <2>2. id \notin told.ended
    BY <1>2, <1>3, <2>1
  <2>3. PICK j \in I : id = backlog[j].id
    BY <1>15, <2>2
  <2>4. backlog[i] = backlog[j]
    <3>1. j \in DOMAIN backlog /\ backlog[i].id = backlog[j].id
      BY <1>8, <2>1, <2>3
    <3>. QED BY <1>1, <2>1, <3>1
  <2>. QED BY <1>8, <1>14, <2>1, <2>4
<1>13. StartsAccounted'
  BY <1>7, <1>9, <1>10, <1>11, <1>12 DEF StartsAccounted
<1>. QED BY <1>6, <1>13 DEF AccountInv

LEMMA EndFeedKeeps ==
  ASSUME DInv, EndFeed
  PROVE  DInv'
<1>0. /\ pc = "feed" /\ pc' = "idle" /\ handled' = <<>>
      /\ UNCHANGED <<seed, held, tracker, now>>
  BY DEF EndFeed
<1>1. /\ now \in Nat /\ pending \in Seq(Nat) /\ told \in Told /\ backlog \in Seq(Window)
      /\ \A i \in DOMAIN pending : pending[i] < now
      /\ \A i, j \in DOMAIN pending : i < j => pending[i] < pending[j]
  BY DecoderTypes DEF DInv, QueuesInv
<1>2. PICK n \in 0 .. Len(pending) :
         /\ pending' = From(pending, n)
         /\ pendingVoice' = StillWaiting(Upto(pending, n))
         /\ ReleaseEnded(pending', Emitted(Upto(pending, n), res),
                         NoteVoice(Upto(pending, n)))
  BY DEF EndFeed
<1>3. PICK d, f, pv, e, u : /\ d = Upto(pending, n) /\ f = From(pending, n)
                            /\ pv = StillWaiting(d) /\ e = Emitted(d, res) /\ u = NoteVoice(d)
  OBVIOUS
<1>4. /\ f \in Seq(Nat)
      /\ \A i, j \in DOMAIN f : i < j => f[i] < f[j]
      /\ \A i \in DOMAIN f : f[i] < now /\ \E j \in DOMAIN pending : f[i] = pending[j]
      /\ pv \in Seq(Nat) /\ Len(pv) <= VoiceCap /\ \A i \in DOMAIN pv : pv[i] < now
      /\ e \in Result
      /\ u \in Told /\ u.started = told.started /\ u.ended = told.ended
      /\ u.cut = told.cut /\ u.voice.id < tracker.nextID
      /\ u.voice.id # 0 => /\ u.voice.pos < now
                           /\ \A i \in DOMAIN held : u.voice.pos < held[i].pos
      /\ \A w \in Windows(tracker) :
            w.id # 0 /\ w.id = u.voice.id => Contains(w, u.voice.pos)
  <2>1. PICK b \in {now, now + 1} : b = now
    OBVIOUS
  <2>2. /\ \A i \in DOMAIN pending : pending[i] < b
        /\ \A i, j \in DOMAIN pending : i < j => pending[i] < pending[j]
    BY <1>1, <2>1
  <2>3. /\ f \in Seq(Nat)
        /\ \A i, j \in DOMAIN f : i < j => f[i] < f[j]
        /\ \A i \in DOMAIN f : f[i] < b /\ \E j \in DOMAIN pending : f[i] = pending[j]
        /\ pv \in Seq(Nat) /\ Len(pv) <= VoiceCap /\ \A i \in DOMAIN pv : pv[i] < b
        /\ e \in Result
        /\ u \in Told /\ u.started = told.started /\ u.ended = told.ended
        /\ u.cut = told.cut /\ u.voice.id < tracker.nextID
        /\ u.voice.id # 0 => /\ u.voice.pos < b
                             /\ \A i \in DOMAIN held : u.voice.pos < held[i].pos
        /\ \A w \in Windows(tracker) :
              w.id # 0 /\ w.id = u.voice.id => Contains(w, u.voice.pos)
    <3>1. pending \in Seq(Nat) /\ pc = "feed"
      BY <1>0, <1>1
    <3>. QED BY <1>3, <2>2, <3>1, EmitKeeps, SMTT(30)
  <2>. QED BY <2>1, <2>3
<1>5. pending' = f /\ pendingVoice' = pv /\ ReleaseEnded(f, e, u)
  BY <1>2, <1>3
<1>6. PICK I \in SUBSET DOMAIN backlog : I = Over(f)
  BY DEF Over
<1>7. PICK done : done = Picked(backlog, I)
  OBVIOUS
<1>8. PICK J \in SUBSET DOMAIN backlog : J = DOMAIN backlog \ I
  OBVIOUS
<1>9. PICK rest : rest = Picked(backlog, J)
  OBVIOUS
<1>10. /\ backlog' = rest
       /\ told' = [u EXCEPT !.ended = @ \cup {done[i].id : i \in DOMAIN done}]
       /\ res' = [e EXCEPT !.ended = done]
  BY <1>5, <1>6, <1>7, <1>8, <1>9 DEF ReleaseEnded
<1>11. /\ done \in Seq(Window) /\ rest \in Seq(Window)
       /\ \A k \in DOMAIN done : \E i \in I : done[k] = backlog[i]
       /\ \A i \in I : \E k \in DOMAIN done : done[k] = backlog[i]
       /\ \A k \in DOMAIN rest : \E i \in DOMAIN backlog : i \notin I /\ rest[k] = backlog[i]
       /\ \A i \in DOMAIN backlog : i \notin I => \E k \in DOMAIN rest : rest[k] = backlog[i]
  <2>1. /\ done \in Seq(Window)
        /\ \A x \in Elements(done) : \E i \in I : x = backlog[i]
        /\ \A i \in I : backlog[i] \in Elements(done)
    BY <1>1, <1>7, PickedElements
  <2>2. /\ rest \in Seq(Window)
        /\ \A x \in Elements(rest) : \E i \in J : x = backlog[i]
        /\ \A i \in J : backlog[i] \in Elements(rest)
    BY <1>1, <1>9, PickedElements
  <2>3. /\ \A k \in DOMAIN done : \E i \in I : done[k] = backlog[i]
        /\ \A i \in I : \E k \in DOMAIN done : done[k] = backlog[i]
    BY <2>1 DEF Elements
  <2>4. /\ \A k \in DOMAIN rest : \E i \in J : rest[k] = backlog[i]
        /\ \A i \in J : \E k \in DOMAIN rest : rest[k] = backlog[i]
    BY <2>2 DEF Elements
  <2>5. \A i : i \in J <=> i \in DOMAIN backlog /\ i \notin I
    BY <1>8
  <2>6. /\ \A k \in DOMAIN rest : \E i \in DOMAIN backlog : i \notin I /\ rest[k] = backlog[i]
        /\ \A i \in DOMAIN backlog : i \notin I => \E k \in DOMAIN rest : rest[k] = backlog[i]
    BY <2>4, <2>5
  <2>. QED BY <2>1, <2>2, <2>3, <2>6
<1>22. PICK out : out = {done[i].id : i \in DOMAIN done}
  OBVIOUS
<1>12. /\ told' \in Told /\ told'.started = told.started /\ told'.cut = told.cut
       /\ told'.voice = u.voice /\ told'.ended = told.ended \cup out
       /\ \A id \in out : \E i \in I : id = backlog[i].id
       /\ \A i \in I : backlog[i].id \in out
  <2>1. \A id : id \in out <=> \E k \in DOMAIN done : id = done[k].id
    BY <1>22
  <2>2. /\ \A id \in out : \E i \in I : id = backlog[i].id
        /\ \A i \in I : backlog[i].id \in out
    BY <1>11, <2>1
  <2>3. \A i \in DOMAIN backlog : backlog[i].id \in Nat
    <3>1. \A i \in DOMAIN backlog : backlog[i] \in Window
      BY <1>1, ElementOfSeq, LenProperties
    <3>. QED BY <3>1 DEF Window
  <2>4. out \in SUBSET Nat
    BY <2>2, <2>3
  <2>5. told' = [u EXCEPT !.ended = u.ended \cup out]
    BY <1>10, <1>22
  <2>6. /\ told' \in Told /\ told'.started = u.started /\ told'.cut = u.cut
        /\ told'.voice = u.voice /\ told'.ended = u.ended \cup out
    BY <1>4, <2>4, <2>5 DEF Told
  <2>. QED BY <1>4, <2>2, <2>6
<1>13. /\ Watermark(f) \in Nat /\ Watermark(f) <= now
       /\ \A i \in DOMAIN f : Watermark(f) <= f[i]
  BY <1>1, <1>4, WatermarkLeast
<1>14. \A i \in I : backlog[i].closePos < Watermark(f)
  BY <1>6 DEF Over
<1>15. AccountInv'
  <2>1. \A i, j \in DOMAIN backlog : backlog[i] = backlog[j] => (i \in I <=> j \in I)
    BY <1>6 DEF Over
  <2>2. \A k, l \in DOMAIN rest :
            k # l /\ rest[k] = rest[l] =>
               \E i, j \in DOMAIN backlog :
                  i # j /\ backlog[i] = backlog[j] /\ backlog[i] = rest[k]
    BY <1>1, <1>9, PickedTwice
  <2>3. Leaves(I, rest)
    BY <1>11, <2>1, <2>2 DEF Leaves
  <2>4. AreIds(I, out)
    BY <1>12 DEF AreIds
  <2>5. AccountInv /\ tracker' = tracker /\ backlog' = rest
    BY <1>0, <1>10 DEF DInv
  <2>. QED BY <1>12, <2>3, <2>4, <2>5, ReportAccounts
<1>16. ASSUME NEW w \in Windows(tracker), w.id \in told'.ended
       PROVE  w.closed /\ (w.cause = "abandoned" \/ Past(w)')
  <2>1. CASE w.id \in told.ended
    <3>1. w.closed /\ (w.cause = "abandoned" \/ Past(w))
      BY <2>1 DEF DInv, EndInv
    <3>2. Past(w) => Past(w)'
      BY <1>0, <1>4, <1>5 DEF Past
    <3>. QED BY <3>1, <3>2
  <2>2. CASE \E i \in I : w.id = backlog[i].id
    <3>1. PICK i \in I : w.id = backlog[i].id
      BY <2>2
    <3>2. backlog[i].closed /\ w = backlog[i]
      BY <3>1 DEF DInv, EndInv
    <3>3. w.closePos \in Nat /\ w.closePos < Watermark(f)
      <4>1. w \in Window
        BY <1>1, <3>2, ElementOfSeq, LenProperties
      <4>. QED BY <1>14, <3>2, <4>1 DEF Window
    <3>4. w.closePos < now'
      BY <1>0, <1>1, <1>13, <3>3
    <3>5. \A k \in DOMAIN f : w.closePos < f[k]
      <4>1. \A k \in DOMAIN f : f[k] \in Nat
        BY <1>4, ElementOfSeq, LenProperties
      <4>. QED BY <1>13, <3>3, <4>1
    <3>. QED BY <1>5, <3>2, <3>4, <3>5 DEF Past
  <2>. QED BY <1>12, <1>16, <2>1, <2>2
<1>17. EndInv'
  <2>1. \A k \in DOMAIN rest : /\ rest[k].closed
                               /\ \A w \in Windows(tracker) : w.id = rest[k].id => w = rest[k]
    BY <1>11 DEF DInv, EndInv
  <2>. QED BY <1>0, <1>10, <1>16, <2>1 DEF EndInv
<1>18. VoiceInv'
  BY <1>0, <1>4, <1>12 DEF VoiceInv, VoiceInItsWindow
<1>19. DecoderTypeOK'
  <2>1. handled' \in Seq(Nat)
    BY <1>0
  <2>2. res' \in Result
    BY <1>4, <1>10, <1>11 DEF Result
  <2>. QED BY <1>0, <1>4, <1>5, <1>10, <1>11, <1>12, <2>1, <2>2 DEF DInv, DecoderTypeOK, Told
<1>20. QueuesInv'
  BY <1>0, <1>4, <1>5 DEF DInv, QueuesInv
<1>21. Ordered(tracker)'
  BY <1>0 DEF DInv
<1>. QED BY <1>15, <1>17, <1>18, <1>19, <1>20, <1>21 DEF DInv

LEMMA ResetBroadcastKeeps ==
  ASSUME DInv, ResetBroadcast
  PROVE  DInv'
<1>1. /\ now \in Nat /\ pending \in Seq(Nat) /\ told \in Told /\ backlog \in Seq(Window)
      /\ told.voice \in VoiceEvent /\ NoResult \in Result /\ Ordered(tracker)
  BY DecoderTypes DEF DInv
<1>2. PICK u : u = [Abandon(tracker, now) EXCEPT !.changed = <<>>]
  OBVIOUS
<1>3. /\ tracker' = u /\ pc \in {"idle", "done"}
      /\ told' = [told EXCEPT !.ended = IF IsOpen(tracker)
                                        THEN @ \cup {tracker.open.id} ELSE @]
      /\ res' = NoResult /\ handled' = <<>>
      /\ UNCHANGED <<seed, held, pending, pendingVoice, backlog, now, pc>>
  BY <1>2 DEF ResetBroadcast
<1>4. /\ Ordered(u) /\ Grows(tracker, u, now) /\ ~IsOpen(u) /\ u.nextID = tracker.nextID
      /\ IsOpen(tracker) => \A w \in Windows(u) :
                               w.id = tracker.open.id => w.closed /\ w.cause = "abandoned"
  BY <1>1, <1>2, AbandonMoves
<1>5. PICK ended : ended = told.ended \cup OpenIds
  OBVIOUS
<1>6. told' = [told EXCEPT !.ended = ended]
  BY <1>3, <1>5 DEF OpenIds
<1>7. /\ told' \in Told /\ told'.started = told.started /\ told'.cut = told.cut
      /\ told'.voice = told.voice /\ told'.ended = ended
  <2>1. OpenIds \subseteq Nat
    BY <1>1, OrderedTypes DEF OpenIds
  <2>. QED BY <1>1, <1>5, <1>6, <2>1 DEF Told
<1>8. AccountInv'
  <2>1. OpenIds' = {} /\ BacklogIds' = BacklogIds
    BY <1>3, <1>4 DEF OpenIds, IsOpen, BacklogIds
  <2>2. StartsAccounted'
    <3>1. /\ told.started \subseteq OpenIds \cup BacklogIds \cup told.ended
          /\ told.ended \cup BacklogIds \cup OpenIds \subseteq told.started \cup told.cut
          /\ OpenIds \cap (BacklogIds \cup told.ended) = {}
          /\ BacklogIds \cap told.ended = {}
          /\ \A i, j \in DOMAIN backlog :
                i # j /\ backlog[i].id = backlog[j].id => backlog[i].id \in told.cut
      BY DEF DInv, AccountInv, StartsAccounted
    <3>2. backlog' = backlog
      BY <1>3
    <3>. QED BY <1>5, <1>7, <2>1, <3>1, <3>2 DEF StartsAccounted
  <2>. QED BY <1>3, <1>4, <1>7, <2>2 DEF DInv, AccountInv
<1>9. told.ended \subseteq 1 .. tracker.nextID - 1 /\ BacklogIds \subseteq 1 .. tracker.nextID - 1
  BY KnownIds DEF DInv
<1>10. EndInv'
  <2>1. \A w \in Windows(tracker') :
            w.id \in told'.ended => w.closed /\ (w.cause = "abandoned" \/ Past(w)')
    <3>1. \A w \in Windows(tracker') :
             w.id \in told'.ended \ told.ended => w.closed /\ w.cause = "abandoned"
      BY <1>3, <1>4, <1>5, <1>7 DEF OpenIds
    <3>2. /\ EndInv /\ Ordered(tracker') /\ Grows(tracker, tracker', now)
          /\ now' \in {now, now + 1} /\ pending' = pending /\ (pc' = "done" <=> pc = "done")
      BY <1>3, <1>4 DEF DInv
    <3>. QED BY <1>1, <1>9, <3>1, <3>2, EndsStay
  <2>2. \A i \in DOMAIN backlog :
            /\ backlog[i].closed
            /\ \A w \in Windows(tracker') : w.id = backlog[i].id => w = backlog[i]
    <3>1. \A i \in DOMAIN backlog : backlog[i].id \in 1 .. tracker.nextID - 1
      BY <1>9 DEF BacklogIds
    <3>. QED BY <1>1, <1>3, <1>4, <3>1, BacklogStays DEF DInv
  <2>. QED BY <1>3, <2>1, <2>2 DEF EndInv
<1>11. VoiceInv'
  <2>1. told.voice.id # 0 => \A i \in DOMAIN held' : told.voice.pos < held'[i].pos
    BY <1>3 DEF DInv, VoiceInv
  <2>2. /\ VoiceInv /\ (told.voice.id # 0 => told.voice.pos < now)
        /\ now' \in {now, now + 1} /\ Ordered(tracker') /\ Grows(tracker, tracker', now)
    BY <1>3, <1>4 DEF DInv, VoiceInv
  <2>. QED BY <1>1, <1>7, <2>1, <2>2, VoiceStays
<1>12. DecoderTypeOK'
  <2>1. tracker' \in Tracker /\ handled' \in Seq(Nat)
    BY <1>3, <1>4 DEF Ordered
  <2>. QED BY <1>1, <1>3, <1>7, <2>1 DEF DInv, DecoderTypeOK, Told
<1>13. QueuesInv'
  BY <1>3 DEF DInv, QueuesInv
<1>14. Ordered(tracker')
  BY <1>3, <1>4
<1>. QED BY <1>8, <1>10, <1>11, <1>12, <1>13, <1>14 DEF DInv

LEMMA FlushKeeps ==
  ASSUME DInv, Flush
  PROVE  DInv'
<1>1. /\ now \in Nat /\ pending \in Seq(Nat) /\ pendingVoice \in Seq(Nat) /\ told \in Told
      /\ backlog \in Seq(Window) /\ NoResult \in Result /\ Ordered(tracker)
      /\ \A i \in DOMAIN pending : pending[i] < now
      /\ \A i \in DOMAIN pendingVoice : pendingVoice[i] < now
  BY DecoderTypes DEF DInv, QueuesInv
<1>2. PICK d : d = Upto(pending, Len(pending))
  OBVIOUS
<1>3. PICK e, pv : e = Emitted(d, NoResult) /\ pv = StillWaiting(d)
  OBVIOUS
<1>4. PICK v : v = Labelled(tracker, pv)
  OBVIOUS
<1>5. /\ pc = "idle" /\ pc' = "done" /\ pending' = <<>> /\ pendingVoice' = <<>>
      /\ backlog' = <<>> /\ handled' = <<>>
      /\ UNCHANGED <<seed, held, tracker, now>>
      /\ told' = [told EXCEPT !.ended = @ \cup BacklogIds]
  BY DEF Flush, BacklogIds
<1>6. res' = [e EXCEPT !.voice = e.voice \o v, !.ended = backlog]
  BY <1>2, <1>3, <1>4 DEF Flush
<1>7. d \in Seq(Nat) /\ \A i \in DOMAIN d : d[i] < now
  <2>1. Len(pending) \in 0 .. Len(pending)
    BY <1>1, LenProperties
  <2>2. d \in Seq(Nat) /\ \A i \in DOMAIN d : i \in DOMAIN pending /\ d[i] = pending[i]
    BY <1>1, <1>2, <2>1, UptoElements
  <2>. QED BY <1>1, <2>2
<1>8. pv \in Seq(Nat)
  BY <1>1, <1>3, <1>7, WaitingElements
<1>9. e \in Result /\ e.voice \in Seq(VoiceEvent)
  BY <1>1, <1>3, <1>7, EmittedType
<1>10. v \in Seq(VoiceEvent)
  BY <1>1, <1>4, <1>8, LabelledType
<1>11. res' \in Result
  <2>1. e.voice \o v \in Seq(VoiceEvent)
    BY <1>9, <1>10, ConcatProperties
  <2>. QED BY <1>1, <1>6, <1>9, <2>1 DEF Result
<1>12. /\ told' \in Told /\ told'.started = told.started /\ told'.cut = told.cut
       /\ told'.voice = told.voice /\ told'.ended = told.ended \cup BacklogIds
  <2>1. \A i \in DOMAIN backlog : backlog[i].id \in Nat
    <3>1. \A i \in DOMAIN backlog : backlog[i] \in Window
      BY <1>1, ElementOfSeq, LenProperties
    <3>. QED BY <3>1 DEF Window
  <2>2. BacklogIds \subseteq Nat
    BY <2>1 DEF BacklogIds
  <2>. QED BY <1>1, <1>5, <2>2 DEF Told
<1>13. TrackerKept
  BY <1>1, <1>5 DEF TrackerKept
<1>14. DOMAIN <<>> = {} /\ <<>> \in Seq(Nat) /\ <<>> \in Seq(Window) /\ Len(<<>>) = 0
  OBVIOUS
<1>15. AccountInv'
  <2>1. OpenIds' = OpenIds /\ BacklogIds' = {}
    <3>1. BacklogIds' = {backlog'[i].id : i \in {}}
      BY <1>5, <1>14 DEF BacklogIds
    <3>. QED BY <1>5, <3>1 DEF OpenIds, IsOpen
  <2>2. /\ told.started \subseteq OpenIds \cup BacklogIds \cup told.ended
        /\ told.ended \cup BacklogIds \cup OpenIds \subseteq told.started \cup told.cut
        /\ OpenIds \cap (BacklogIds \cup told.ended) = {}
    BY DEF DInv, AccountInv, StartsAccounted
  <2>3. StartsAccounted'
    BY <1>5, <1>12, <1>14, <2>1, <2>2 DEF StartsAccounted
  <2>. QED BY <1>5, <1>12, <1>14, <2>3 DEF DInv, AccountInv
<1>16. ASSUME NEW w \in Windows(tracker), w.id \in told.ended \cup BacklogIds
       PROVE  w.closed /\ (w.cause = "abandoned" \/ Past(w)')
  <2>1. w.closed
    BY <1>16 DEF DInv, EndInv, BacklogIds
  <2>2. Past(w)'
    BY <1>5, <1>14 DEF Past
  <2>. QED BY <2>1, <2>2
<1>17. EndInv'
  BY <1>5, <1>12, <1>14, <1>16 DEF EndInv
<1>18. VoiceInv'
  <2>1. told.voice \in VoiceEvent /\ VoiceInv /\ held' = held /\ now' = now
    BY <1>1, <1>5 DEF DInv, Told
  <2>2. told.voice.id # 0 => \A i \in DOMAIN held' : told.voice.pos < held'[i].pos
    BY <2>1 DEF VoiceInv
  <2>. QED BY <1>1, <1>12, <1>13, <2>1, <2>2, VoiceKeeps
<1>19. DecoderTypeOK'
  <2>1. VoiceCap \in Nat
    BY DecoderConstants
  <2>2. pendingVoice' \in Seq(Nat) /\ Len(pendingVoice') <= VoiceCap
    BY <1>5, <1>14, <2>1
  <2>. QED BY <1>5, <1>11, <1>12, <1>14, <2>2 DEF DInv, DecoderTypeOK, Told
<1>20. QueuesInv'
  BY <1>5, <1>14 DEF DInv, QueuesInv
<1>21. Ordered(tracker)'
  BY <1>1, <1>5
<1>. QED BY <1>15, <1>17, <1>18, <1>19, <1>20, <1>21 DEF DInv

-----------------------------------------------------------------------------
(* The theorems.                                                           *)

LEMMA InitHolds ==
  ASSUME DecoderInit
  PROVE  DInv
<1>1. /\ seed \in Stations \cup {0} /\ held = <<>> /\ tracker = NewTracker
      /\ pending = <<>> /\ pendingVoice = <<>> /\ backlog = <<>> /\ now = 0 /\ pc = "idle"
      /\ res = NoResult /\ handled = <<>>
      /\ told = [started |-> {}, ended |-> {}, cut |-> {}, voice |-> [pos |-> 0, id |-> 0]]
  BY DEF DecoderInit
<1>2. DOMAIN <<>> = {} /\ <<>> \in Seq(Nat) /\ <<>> \in Seq(Window) /\ <<>> \in Seq(HeldSlot)
      /\ <<>> \in Seq(VoiceEvent) /\ Len(<<>>) = 0
  OBVIOUS
<1>3. /\ tracker.open = NoWindow /\ tracker.recent = <<>> /\ tracker.nextID = 1
      /\ ~IsOpen(tracker) /\ Windows(tracker) = {}
  <2>1. /\ tracker.open = NoWindow /\ tracker.recent = <<>> /\ tracker.nextID = 1
    BY <1>1 DEF NewTracker
  <2>2. NoWindow.id = 0
    BY DEF NoWindow
  <2>3. ~IsOpen(tracker)
    BY <2>1, <2>2 DEF IsOpen
  <2>. QED BY <1>2, <2>1, <2>3 DEF Windows
<1>4. tracker \in Tracker
  <2>1. NewTracker \in Tracker
    <3>1. -1 \in Nat \cup {-1} /\ 1 \in Nat \ {0}
      OBVIOUS
    <3>2. [c \in Confirmable |-> {}] \in [Confirmable -> SUBSET Nat]
      OBVIOUS
    <3>. QED BY <1>2, <3>1, <3>2, NoWindowType DEF NewTracker, Tracker
  <2>. QED BY <1>1, <2>1
<1>5. Ordered(tracker)
  BY <1>2, <1>3, <1>4 DEF Ordered
<1>6. DecoderTypeOK
  <2>1. NoResult \in Result
    BY <1>2 DEF NoResult, Result
  <2>2. told \in Told
    <3>1. [pos |-> 0, id |-> 0] \in VoiceEvent
      BY DEF VoiceEvent
    <3>. QED BY <1>1, <3>1 DEF Told
  <2>3. Len(held) <= SeedWindow /\ Len(pendingVoice) <= VoiceCap
    <3>1. SeedWindow \in Nat /\ VoiceCap \in Nat /\ Len(held) = 0 /\ Len(pendingVoice) = 0
      BY <1>1, <1>2, DecoderConstants
    <3>. QED BY <3>1
  <2>. QED BY <1>1, <1>2, <1>4, <2>1, <2>2, <2>3 DEF DecoderTypeOK, Told
<1>7. QueuesInv
  BY <1>1, <1>2 DEF QueuesInv
<1>8. told.voice.id = 0 /\ told.started = {} /\ told.ended = {} /\ told.cut = {}
  BY <1>1
<1>9. VoiceInv
  BY <1>3, <1>8 DEF VoiceInv, VoiceInItsWindow
<1>10. EndInv
  BY <1>1, <1>2, <1>3 DEF EndInv
<1>11. AccountInv
  <2>1. OpenIds = {} /\ BacklogIds = {}
    <3>1. BacklogIds = {backlog[i].id : i \in {}}
      BY <1>1, <1>2 DEF BacklogIds
    <3>. QED BY <1>3, <3>1 DEF OpenIds
  <2>. QED BY <1>1, <1>2, <1>8, <2>1 DEF AccountInv, StartsAccounted
<1>. QED BY <1>5, <1>6, <1>7, <1>9, <1>10, <1>11 DEF DInv

LEMMA NothingHappens ==
  ASSUME DInv, UNCHANGED decoderVars
  PROVE  DInv'
<1>1. /\ seed' = seed /\ held' = held /\ tracker' = tracker /\ pending' = pending
      /\ pendingVoice' = pendingVoice /\ backlog' = backlog /\ now' = now /\ pc' = pc
      /\ res' = res /\ handled' = handled /\ told' = told
  BY DEF decoderVars
<1>2. DecoderTypeOK'
  BY <1>1 DEF DInv, DecoderTypeOK
<1>3. Ordered(tracker)' /\ QueuesInv'
  BY <1>1 DEF DInv, QueuesInv
<1>4. VoiceInv'
  BY <1>1 DEF DInv, VoiceInv, VoiceInItsWindow
<1>5. EndInv'
  BY <1>1 DEF DInv, EndInv, Past
<1>6. AccountInv'
  BY <1>1 DEF DInv, AccountInv, StartsAccounted, OpenIds, BacklogIds, IsOpen
<1>. QED BY <1>2, <1>3, <1>4, <1>5, <1>6 DEF DInv

LEMMA StepHolds ==
  ASSUME DInv, DecoderNext
  PROVE  DInv'
<1>1. CASE \E air \in AirSlots : ControlSlot(air)
  BY <1>1, ControlSlotKeeps
<1>2. CASE VoiceSlot
  BY <1>2, VoiceSlotKeeps
<1>3. CASE \E air \in AirSlots : FacchSlot(air)
  <2>1. PICK air \in AirSlots : FacchSlot(air)
    BY <1>3
  <2>2. CASE seed = 0
    BY <1>2, <2>1, <2>2, VoiceSlotKeeps DEF FacchSlot
  <2>3. CASE seed # 0
    BY <2>1, <2>3, QuietActions
  <2>. QED BY <2>2, <2>3
<1>4. CASE \/ BeginFeed \/ EmptyFeed \/ EmptySlot \/ ResetSeed \/ SignalLost
           \/ \E key \in Stations : PinSeed(key)
  BY <1>4, QuietActions
<1>5. CASE Replay
  BY <1>5, ReplayKeeps
<1>6. CASE EndFeed
  BY <1>6, EndFeedKeeps
<1>7. CASE ResetBroadcast
  BY <1>7, ResetBroadcastKeeps
<1>8. CASE Flush
  BY <1>8, FlushKeeps
<1>. QED BY <1>1, <1>2, <1>3, <1>4, <1>5, <1>6, <1>7, <1>8
         DEF DecoderNext, Feeding, Calling, Slot

\* What the decoder keeps true of its queues, of the windows and of what it
\* has told its caller, whatever arrives and whatever the caller does between
\* two Feeds.
THEOREM DecoderKeeps == DecoderSpec => []DInv
<1>1. DecoderInit => DInv
  BY InitHolds
<1>2. DInv /\ [DecoderNext]_decoderVars => DInv'
  BY StepHolds, NothingHappens
<1>. QED BY <1>1, <1>2, PTL DEF DecoderSpec

\* No burst the smoother still holds lies in a window that has been reported
\* as ended, unless the caller abandoned the window (releaseEnded).
THEOREM EndsAreComplete == DecoderSpec => []EndedComplete
<1>1. DInv => EndedComplete
  <2> SUFFICES ASSUME DInv, NEW i \in DOMAIN pending,
                      WindowFor(tracker, pending[i]) \in told.ended
               PROVE  WindowFor(tracker, pending[i]) \in AbandonedIds
    BY DEF EndedComplete
  <2>1. PICK p, id : p = pending[i] /\ id = WindowFor(tracker, p)
    OBVIOUS
  <2>2. p \in Nat
    BY <2>1, DecoderTypes, ElementOfSeq, LenProperties DEF DInv
  <2>3. tracker.nextID \in Nat
    BY OrderedTypes DEF DInv
  <2>4. id # 0
    BY <2>1, <2>3, KnownIds DEF DInv
  <2>5. PICK w \in Windows(tracker) : w.id = id /\ Contains(w, p)
    BY <2>1, <2>2, <2>4, WindowForWindow DEF DInv
  <2>6. w.closed /\ (w.cause = "abandoned" \/ Past(w))
    BY <2>1, <2>5 DEF DInv, EndInv
  <2>7. ~Past(w)
    <3>1. p < w.closePos
      BY <2>5, <2>6 DEF Contains
    <3>2. w.closePos \in Nat
      BY OrderedTypes DEF DInv, Windows, Window
    <3>. QED BY <2>1, <2>2, <3>1, <3>2 DEF Past
  <2>. QED BY <2>1, <2>5, <2>6, <2>7 DEF AbandonedIds
<1>. QED BY <1>1, DecoderKeeps, PTL

\* No burst has been delivered with a window that turned out to have ended
\* before it, however long its control slots had to wait (emitVoice).
THEOREM VoiceLabelled == DecoderSpec => []VoiceInItsWindow
<1>1. DInv => VoiceInItsWindow
  BY DEF DInv, VoiceInv
<1>. QED BY <1>1, DecoderKeeps, PTL

\* Every broadcast reported as started is open, waits in the backlog or has
\* been reported as ended, just one of the three (releaseEnded, Flush,
\* ResetBroadcast).
THEOREM NoBroadcastLost == DecoderSpec => []StartsAccounted
<1>1. DInv => StartsAccounted
  BY DEF DInv, AccountInv
<1>. QED BY <1>1, DecoderKeeps, PTL

\* The decoder's type invariant, with the bounds of its two queues: slots held
\* for the seed search and bursts waiting for it.
THEOREM DecoderTyped == DecoderSpec => []DecoderTypeOK
<1>1. DInv => DecoderTypeOK
  BY DEF DInv
<1>. QED BY <1>1, DecoderKeeps, PTL

-----------------------------------------------------------------------------
(* The invariant of dspLoop.                                               *)

StageInv ==
    /\ stage = "feed" <=> pc \in {"feed", "replay"}
    /\ stage \in {"flushed", "finish", "stopped"} <=> pc = "done"
    /\ pc = "done" => backlog = <<>>
    /\ stage \in {"pin", "setPin"} => seedPin # 0

\* The seed the decoder uses is the one that is shown, or the one it has just
\* found.
KnownSeed(r) ==
    IF r.detected = 0 THEN shown.seed = seed /\ audioSeed = seed ELSE seed = r.detected

SeedInv ==
    /\ stage \notin {"feed", "seed"} => shown.seed = seed /\ audioSeed = seed
    /\ stage = "feed" => KnownSeed(res)
    /\ stage = "seed" => KnownSeed(result)
    /\ stage \notin {"pin", "setPin"} /\ FixedSeed # 0 => seed = FixedSeed
    /\ FixedSeed # 0 /\ stage = "feed" => res.detected = 0
    /\ FixedSeed # 0 /\ stage = "seed" => result.detected = 0

\* The ends that dspLoop has in hand.
Handing == IF stage \in {"seed", "handle", "flushed"} THEN EndedIds(result) ELSE {}

CloseInv == told.ended \subseteq closed \cup Handing /\ AllClosed

LoopTypes ==
    /\ stage \in Stages
    /\ requests \in [pin : Stations \cup {0, SeedPinAuto}, cfo : BOOLEAN]
    /\ carrier \in [acquired : BOOLEAN, kept : 0 .. AcquireSlots - 1]
    /\ seedPin \in Stations \cup {0, SeedPinAuto}
    /\ shown \in [seed : Stations \cup {0}, lastSeed : Stations \cup {0}, active : Nat]
    /\ audioSeed \in Stations \cup {0}
    /\ result \in Result
    /\ left \in 0 .. SlotsPerChunk + AcquireSlots - 1
    /\ armed \in BOOLEAN /\ hadValid \in BOOLEAN
    /\ sinceControl \in 0 .. ResetAfter
    /\ sinceValid \in 0 .. AbandonAfter
    /\ closed \in SUBSET Nat
    /\ asked \in 0 .. MaxRequests

LInv == DInv /\ LoopTypes /\ StageInv /\ SeedInv /\ CloseInv

-----------------------------------------------------------------------------
(* dspLoop calls the decoder as its specification allows.                  *)

LEMMA PinRange ==
  ASSUME LoopTypes
  PROVE  /\ FixedSeed \in Stations \cup {0} /\ PinnedSeed \in Stations \cup {0}
         /\ \A s \in Stations : s \in Nat \ {0}
         /\ seedPin # 0 => FixedSeed = PinnedSeed
<1>1. \A s \in Stations : s \in Nat \ {0}
  BY DecoderConstants
<1>2. seedPin \in Stations \cup {0, -1} /\ CfgSeed \in Stations \cup {0}
  BY PipelineConstants DEF LoopTypes, SeedPinAuto
<1>. QED BY <1>1, <1>2 DEF FixedSeed, PinnedSeed, SeedPinAuto

LEMMA LoopCallsDecoder ==
  ASSUME LoopTypes, Next
  PROVE  DecoderNext \/ UNCHANGED decoderVars
<1>1. CASE RequestCFOReset
  BY <1>1 DEF RequestCFOReset
<1>2. CASE \E key \in Pins : RequestSeedPin(key)
  BY <1>2 DEF RequestSeedPin
<1>3. CASE TakeChunk
  BY <1>3 DEF TakeChunk
<1>4. CASE AbandonForPin
  BY <1>4 DEF AbandonForPin, DecoderNext, Calling
<1>5. CASE SetPin
  <2>1. CASE PinnedSeed = 0
    BY <1>5, <2>1 DEF SetPin, DecoderNext, Calling
  <2>2. CASE PinnedSeed # 0
    <3>1. PinnedSeed \in Stations /\ PinSeed(PinnedSeed)
      BY <1>5, <2>2, PinRange DEF SetPin
    <3>. QED BY <3>1 DEF DecoderNext, Calling
  <2>. QED BY <2>1, <2>2
<1>6. CASE StartFeed
  BY <1>6 DEF StartFeed, DecoderNext, Feeding
<1>7. CASE SkipFeed
  BY <1>7 DEF SkipFeed, DecoderNext, Feeding
<1>8. CASE FeedStep
  BY <1>8 DEF FeedStep, DecoderNext, Feeding
<1>9. CASE EndChunk
  BY <1>9 DEF EndChunk, DecoderNext, Feeding
<1>10. CASE SeedDetected
  BY <1>10 DEF SeedDetected, DecoderNext, Calling
<1>11. CASE HandleResult
  BY <1>11 DEF HandleResult
<1>12. CASE LoseSignal
  BY <1>12 DEF LoseSignal, DecoderNext, Calling
<1>13. CASE Unlock
  BY <1>13 DEF Unlock, DecoderNext, Calling
<1>14. CASE KeepSignal
  BY <1>14 DEF KeepSignal
<1>15. CASE Watchdog
  BY <1>15 DEF Watchdog, DecoderNext, Calling
<1>16. CASE SourceEnds
  BY <1>16 DEF SourceEnds, DecoderNext, Calling
<1>17. CASE Finish
  BY <1>17 DEF Finish, DecoderNext, Calling
<1>. QED BY <1>1, <1>2, <1>3, <1>4, <1>5, <1>6, <1>7, <1>8, <1>9, <1>10, <1>11, <1>12,
            <1>13, <1>14, <1>15, <1>16, <1>17 DEF Next, Loop

LEMMA DecoderStays ==
  ASSUME DInv, LoopTypes, Next
  PROVE  DInv'
BY LoopCallsDecoder, StepHolds, NothingHappens

-----------------------------------------------------------------------------
(* What the decoder's steps do to what dspLoop relies on.                  *)

\* A control slot reports starts, of windows that are open then.
LEMMA DecodeControlStarts ==
  ASSUME DInv, NEW slot \in HeldSlot, NEW key, NEW r \in Result, DecodeControl(slot, key, r)
  PROVE  /\ res'.detected = r.detected /\ told'.ended = told.ended
         /\ \E new \in SUBSET OpenIds' :
               /\ Elements(res'.started) = Elements(r.started) \cup new
               /\ told'.started = told.started \cup new
<1>0. /\ DecoderTypeOK /\ Ordered(tracker) /\ EndInv /\ AccountInv /\ told \in Told
      /\ tracker \in Tracker
  BY DecoderTypes DEF DInv
<1>1. PICK m \in Decoded(slot, key) :
         LET t == OnControl(tracker, slot.pos, m)
         IN /\ tracker' = [t EXCEPT !.changed = <<>>, !.updated = <<>>]
            /\ backlog' = backlog \o EndedWindows(t)
            /\ res' = [r EXCEPT !.control = TRUE, !.valid = @ \/ m.crc,
                                !.started = @ \o StartedIn(t),
                                !.updated = @ \o t.updated]
            /\ told' = [told EXCEPT !.started = @ \cup Elements(StartedIn(t)),
                                    !.cut = @ \cup CutShort(t)]
  BY Zenon DEF DecodeControl
<1>2. PICK t : t = OnControl(tracker, slot.pos, m)
  OBVIOUS
<1>3. PICK started : started = StartedIn(t)
  OBVIOUS
<1>4. /\ tracker' = [t EXCEPT !.changed = <<>>, !.updated = <<>>]
      /\ res' = [r EXCEPT !.control = TRUE, !.valid = @ \/ m.crc, !.started = @ \o started,
                          !.updated = @ \o t.updated]
      /\ told' = [told EXCEPT !.started = @ \cup Elements(started),
                              !.cut = @ \cup CutShort(t)]
  BY <1>1, <1>2, <1>3
<1>5. m \in Message /\ slot.pos \in Nat
  BY DecodedMessage
<1>6. Leads(tracker, t, slot.pos)
  BY <1>0, <1>2, <1>5, OnControlLeads
<1>7. t.changed \in Seq(Nat) /\ t \in Tracker /\ \A id \in Elements(t.changed) : id # 0
  <2>1. t \in Tracker /\ t.changed \in Seq(Nat) /\ t.nextID \in Nat
    BY <1>6 DEF Leads, Ordered, Tracker
  <2>. QED BY <1>6, <2>1 DEF Leads, Reports
<1>8. started \in Seq(Nat) /\ Elements(started) = Elements(t.changed) \cap {t.open.id}
  BY <1>3, <1>7, StartedOnes
<1>9. tracker'.open = t.open
  BY <1>4, <1>7 DEF Tracker
<1>10. Elements(started) \in SUBSET OpenIds'
  BY <1>7, <1>8, <1>9 DEF OpenIds, IsOpen
<1>11. /\ res'.detected = r.detected /\ res'.started = r.started \o started
  BY <1>4 DEF Result
<1>12. told'.started = told.started \cup Elements(started) /\ told'.ended = told.ended
  BY <1>0, <1>4 DEF Told
<1>13. Elements(res'.started) = Elements(r.started) \cup Elements(started)
  <2>1. r.started \in Seq(Nat)
    BY DEF Result
  <2>2. PICK a, c : a = r.started /\ c = a \o started
    OBVIOUS
  <2>3. /\ \A i \in DOMAIN c : \/ i \in DOMAIN a /\ c[i] = a[i]
                               \/ \E k \in DOMAIN started : c[i] = started[k]
        /\ \A i \in DOMAIN a : i \in DOMAIN c /\ c[i] = a[i]
        /\ \A k \in DOMAIN started : Len(a) + k \in DOMAIN c /\ c[Len(a) + k] = started[k]
    <3>1. a \in Seq(Nat)
      BY <2>1, <2>2
    <3>2. /\ Len(a) \in Nat /\ DOMAIN a = 1 .. Len(a)
          /\ Len(started) \in Nat /\ DOMAIN started = 1 .. Len(started)
      BY <1>8, <3>1, LenProperties
    <3>3. /\ a \o started \in Seq(Nat) /\ Len(a \o started) = Len(a) + Len(started)
          /\ \A i \in 1 .. Len(a) + Len(started) :
                (a \o started)[i] = IF i <= Len(a) THEN a[i] ELSE started[i - Len(a)]
      BY <1>8, <3>1, ConcatProperties
    <3>4. DOMAIN (a \o started) = 1 .. Len(a) + Len(started)
      BY <3>3, LenProperties
    <3>5. PICK n \in Nat, k \in Nat : n = Len(a) /\ k = Len(started)
      BY <3>2
    <3>6. /\ DOMAIN a = 1 .. n /\ DOMAIN started = 1 .. k /\ DOMAIN c = 1 .. n + k
          /\ \A i \in 1 .. n + k : c[i] = IF i <= n THEN a[i] ELSE started[i - n]
      BY <2>2, <3>2, <3>3, <3>4, <3>5
    <3>7. \A i \in 1 .. n + k : \/ i \in 1 .. n /\ i <= n
                                \/ i - n \in 1 .. k /\ ~(i <= n)
      OBVIOUS
    <3>8. \A i \in 1 .. n : i \in 1 .. n + k /\ i <= n
      OBVIOUS
    <3>9. \A i \in 1 .. k : n + i \in 1 .. n + k /\ ~(n + i <= n) /\ (n + i) - n = i
      OBVIOUS
    <3>10. \A i \in DOMAIN c : \/ i \in DOMAIN a /\ c[i] = a[i]
                               \/ \E l \in DOMAIN started : c[i] = started[l]
      BY <3>6, <3>7
    <3>11. \A i \in DOMAIN a : i \in DOMAIN c /\ c[i] = a[i]
      BY <3>6, <3>8
    <3>12. \A l \in DOMAIN started : n + l \in DOMAIN c /\ c[n + l] = started[l]
      BY <3>6, <3>9
    <3>. QED BY <3>5, <3>10, <3>11, <3>12
  <2>4. Elements(c) = Elements(a) \cup Elements(started)
    BY <2>3 DEF Elements
  <2>. QED BY <1>11, <2>2, <2>4
<1>. QED BY <1>10, <1>11, <1>12, <1>13

\* A step inside a Feed reports no end, and finds a seed only without one.
LEMMA FeedStepEffects ==
  ASSUME DInv, Slot \/ Replay
  PROVE  /\ pc \in {"feed", "replay"} /\ pc' \in {"feed", "replay"}
         /\ now' = now \/ (pc = "feed" /\ now' = now + 1)
         /\ told'.ended = told.ended
         /\ \/ seed' = seed /\ res'.detected = res.detected
            \/ seed = 0 /\ seed' # 0 /\ res'.detected = seed'
<1>1. /\ now \in Nat /\ res \in Result /\ told \in Told /\ pending \in Seq(Nat)
      /\ tracker \in Tracker /\ Ordered(tracker) /\ EndInv /\ AccountInv /\ DecoderTypeOK
      /\ held \in Seq(HeldSlot)
  BY DecoderTypes DEF DInv
<1>2. ASSUME NEW slot \in HeldSlot, DecodeControl(slot, seed, res)
      PROVE  told'.ended = told.ended /\ res'.detected = res.detected
  BY <1>1, <1>2, DecodeControlStarts
<1>3. ASSUME NEW air \in AirSlots, ControlSlot(air)
      PROVE  /\ pc = "feed" /\ pc' \in {"feed", "replay"} /\ now' = now + 1
             /\ told'.ended = told.ended
             /\ \/ seed' = seed /\ res'.detected = res.detected
                \/ seed = 0 /\ seed' # 0 /\ res'.detected = seed'
  <2>1. PICK slot : slot = [pos |-> now, station |-> air.station, msg |-> air.msg]
    OBVIOUS
  <2>2. slot \in HeldSlot
    BY <1>1, <2>1, DecoderConstants DEF HeldSlot
  <2>3. /\ pc = "feed" /\ now' = now + 1
        /\ IF seed = 0 THEN HoldSlot(slot)
           ELSE DecodeControl(slot, seed, res) /\ UNCHANGED <<seed, held, pc>>
    BY <1>3, <2>1 DEF ControlSlot
  <2>4. CASE seed # 0
    BY <1>2, <2>2, <2>3, <2>4
  <2>5. CASE seed = 0
    <3>1. HoldSlot(slot) /\ told' = told
      BY <2>3, <2>5 DEF HoldSlot
    <3>2. CASE UNCHANGED <<seed, pc, res>>
      BY <2>3, <3>1, <3>2
    <3>3. CASE /\ \E i \in DOMAIN held' :
                     /\ seed' = held'[i].station
                     /\ res' = [res EXCEPT !.detected = held'[i].station]
               /\ pc' = "replay"
      <4>1. PICK i \in DOMAIN held' :
                     /\ seed' = held'[i].station
                     /\ res' = [res EXCEPT !.detected = held'[i].station]
        BY <3>3
      <4>2. held' \in Seq(HeldSlot)
        <5>1. held' = LastOf(Append(held, slot), SeedWindow)
          BY <3>1 DEF HoldSlot
        <5>. QED BY <1>1, <2>2, <5>1, HeldSlots
      <4>3. held'[i].station \in Stations
        <5>1. held'[i] \in HeldSlot
          BY <4>2, ElementOfSeq, LenProperties
        <5>. QED BY <5>1 DEF HeldSlot
      <4>4. seed' # 0
        BY <4>1, <4>3, DecoderConstants
      <4>. QED BY <1>1, <2>3, <2>5, <3>1, <3>3, <4>1, <4>4 DEF Result
    <3>. QED BY <3>1, <3>2, <3>3 DEF HoldSlot
  <2>. QED BY <2>4, <2>5
<1>4. CASE \E air \in AirSlots : ControlSlot(air)
  BY <1>3, <1>4
<1>5. ASSUME VoiceSlot
      PROVE  /\ pc = "feed" /\ pc' = "feed" /\ now' = now + 1 /\ told'.ended = told.ended
             /\ seed' = seed /\ res'.detected = res.detected
  <2>1. pc = "feed" /\ pc' = "feed" /\ now' = now + 1 /\ seed' = seed
    BY <1>5 DEF VoiceSlot
  <2>2. PICK d : res' = Emitted(d, res) /\ told' = NoteVoice(d)
    BY <1>5 DEF VoiceSlot
  <2>3. res'.detected = res.detected
    BY <1>1, <2>2 DEF Emitted, Result
  <2>4. told' = told \/ \E v : told' = [told EXCEPT !.voice = v]
    BY <2>2 DEF NoteVoice
  <2>5. told'.ended = told.ended
    BY <1>1, <2>4 DEF Told
  <2>. QED BY <2>1, <2>3, <2>5
<1>6. CASE \E air \in AirSlots : FacchSlot(air)
  <2>1. PICK air \in AirSlots : FacchSlot(air)
    BY <1>6
  <2>2. CASE VoiceSlot
    BY <1>5, <2>2
  <2>3. CASE ~VoiceSlot
    <3>1. /\ pc = "feed" /\ now' = now + 1 /\ pc' = pc /\ told' = told /\ seed' = seed
          /\ \E c, d : res' = [res EXCEPT !.control = c, !.valid = d]
      BY <2>1, <2>3 DEF FacchSlot
    <3>. QED BY <1>1, <3>1 DEF Result
  <2>. QED BY <2>2, <2>3
<1>7. CASE VoiceSlot
  BY <1>5, <1>7
<1>8. CASE EmptySlot
  BY <1>8 DEF EmptySlot
<1>9. CASE Replay
  <2>1. /\ pc = "replay" /\ now' = now /\ seed' = seed /\ pc' \in {"feed", "replay"}
        /\ DecodeControl(Head(held), seed, res)
    BY <1>9 DEF Replay
  <2>2. held # <<>>
    BY <2>1 DEF DInv, QueuesInv
  <2>3. Head(held) \in HeldSlot
    BY <1>1, <2>2, HeadTailProperties
  <2>. QED BY <1>2, <2>1, <2>3
<1>. QED BY <1>4, <1>6, <1>7, <1>8, <1>9 DEF Slot

\* The end of a Feed reports what its result says, and so does the end of the
\* stream.
LEMMA EndFeedEffects ==
  ASSUME DInv, EndFeed
  PROVE  /\ pc' = "idle" /\ seed' = seed /\ res'.detected = res.detected
         /\ res'.started = res.started /\ told'.started = told.started
         /\ told'.ended = told.ended \cup EndedIds(res')
<1>1. res \in Result /\ told \in Told
  BY DecoderTypes DEF DInv
<1>2. PICK d : /\ pc' = "idle" /\ seed' = seed
               /\ ReleaseEnded(pending', Emitted(d, res), NoteVoice(d))
  BY DEF EndFeed
<1>3. PICK done : done = Picked(backlog, Over(pending'))
  OBVIOUS
<1>4. PICK e, u : e = Emitted(d, res) /\ u = NoteVoice(d)
  OBVIOUS
<1>5. /\ res' = [e EXCEPT !.ended = done]
      /\ told' = [u EXCEPT !.ended = u.ended \cup {done[i].id : i \in DOMAIN done}]
  BY <1>2, <1>3, <1>4 DEF ReleaseEnded
<1>6. \E v : e = [res EXCEPT !.voice = v]
  BY <1>4 DEF Emitted
<1>7. u = told \/ \E v : u = [told EXCEPT !.voice = v]
  BY <1>4 DEF NoteVoice
<1>8. /\ res'.detected = res.detected /\ res'.started = res.started /\ res'.ended = done
  BY <1>1, <1>5, <1>6 DEF Result
<1>9. /\ told'.started = told.started
      /\ told'.ended = told.ended \cup {done[i].id : i \in DOMAIN done}
  BY <1>1, <1>5, <1>7 DEF Told
<1>. QED BY <1>2, <1>8, <1>9 DEF EndedIds

LEMMA FlushEffects ==
  ASSUME DInv, Flush
  PROVE  /\ pc' = "done" /\ seed' = seed /\ backlog' = <<>>
         /\ res'.started = <<>> /\ res'.detected = 0 /\ told'.started = told.started
         /\ told'.ended = told.ended \cup EndedIds(res')
<1>1. NoResult \in Result /\ told \in Told
  BY DecoderTypes DEF DInv
<1>2. PICK e : \E d : e = Emitted(d, NoResult) /\ pc' = "done" /\ seed' = seed
                      /\ backlog' = <<>>
                      /\ \E v : res' = [e EXCEPT !.voice = v, !.ended = backlog]
                      /\ told' = [told EXCEPT !.ended = @ \cup {backlog[i].id : i \in DOMAIN backlog}]
  BY DEF Flush
<1>3. \E v : e = [NoResult EXCEPT !.voice = v]
  BY <1>2 DEF Emitted
<1>4. NoResult.started = <<>> /\ NoResult.detected = 0
  BY DEF NoResult
<1>5. res'.started = <<>> /\ res'.detected = 0 /\ res'.ended = backlog
  BY <1>1, <1>2, <1>3, <1>4 DEF Result
<1>6. /\ told'.started = told.started
      /\ told'.ended = told.ended \cup {backlog[i].id : i \in DOMAIN backlog}
  BY <1>1, <1>2 DEF Told
<1>. QED BY <1>2, <1>5, <1>6 DEF EndedIds

LEMMA ResetEffects ==
  ASSUME DInv, ResetBroadcast
  PROVE  /\ seed' = seed /\ pc' = pc /\ backlog' = backlog /\ OpenIds' = {}
         /\ told'.started = told.started /\ told'.ended = told.ended \cup OpenIds
<1>1. told \in Told /\ now \in Nat /\ Ordered(tracker)
  BY DecoderTypes DEF DInv
<1>2. PICK u : u = [Abandon(tracker, now) EXCEPT !.changed = <<>>]
  OBVIOUS
<1>3. ~IsOpen(u)
  BY <1>1, <1>2, AbandonMoves
<1>4. tracker' = u /\ seed' = seed /\ pc' = pc /\ backlog' = backlog
      /\ told' = [told EXCEPT !.ended = IF IsOpen(tracker)
                                        THEN @ \cup {tracker.open.id} ELSE @]
  BY <1>2 DEF ResetBroadcast
<1>. QED BY <1>1, <1>3, <1>4 DEF Told, OpenIds, IsOpen

-----------------------------------------------------------------------------
(* The steps of dspLoop.                                                   *)

LEMMA NothingEnds == NoResult.detected = 0 /\ NoResult.started = <<>> /\ EndedIds(NoResult) = {}
<1>1. NoResult.detected = 0 /\ NoResult.started = <<>> /\ NoResult.ended = <<>>
  BY DEF NoResult
<1>2. EndedIds(NoResult) = {NoResult.ended[i].id : i \in {}}
  BY <1>1 DEF EndedIds
<1>. QED BY <1>1, <1>2

LEMMA ResultIds ==
  ASSUME NEW r \in Result
  PROVE  /\ EndedIds(r) \subseteq Nat /\ Elements(r.started) \subseteq Nat
         /\ r.started # <<>> => r.started[Len(r.started)] \in Elements(r.started)
<1>1. r.ended \in Seq(Window) /\ r.started \in Seq(Nat)
  BY DEF Result
<1>2. \A i \in DOMAIN r.ended : r.ended[i] \in Window
  BY <1>1, ElementOfSeq, LenProperties
<1>3. \A i \in DOMAIN r.ended : r.ended[i].id \in Nat
  BY <1>2 DEF Window
<1>4. \A i \in DOMAIN r.started : r.started[i] \in Nat
  BY <1>1, ElementOfSeq, LenProperties
<1>5. r.started # <<>> => Len(r.started) \in DOMAIN r.started
  BY <1>1, LenProperties, EmptySeq
<1>. QED BY <1>3, <1>4, <1>5 DEF EndedIds, Elements

LEMMA RequestsKeep ==
  ASSUME LInv, RequestCFOReset \/ \E key \in Pins : RequestSeedPin(key)
  PROVE  LoopTypes' /\ StageInv' /\ SeedInv' /\ CloseInv'
<1>1. /\ UNCHANGED <<decoderVars, stage, carrier, seedPin, shown, audioSeed, result, left,
                     closed, timers>>
      /\ asked < MaxRequests /\ asked' = asked + 1
      /\ \/ \E key \in Pins :
               requests' = [requests EXCEPT !.pin = IF key > 0 THEN key ELSE SeedPinAuto]
         \/ requests' = [requests EXCEPT !.cfo = TRUE]
  BY DEF RequestCFOReset, RequestSeedPin, Ask
<1>2. requests' \in [pin : Stations \cup {0, SeedPinAuto}, cfo : BOOLEAN]
  <2>1. requests \in [pin : Stations \cup {0, SeedPinAuto}, cfo : BOOLEAN]
    BY DEF LInv, LoopTypes
  <2>2. \A key \in Pins : (IF key > 0 THEN key ELSE SeedPinAuto) \in Stations \cup {0, SeedPinAuto}
    BY PipelineConstants
  <2>3. CASE \E key \in Pins :
                requests' = [requests EXCEPT !.pin = IF key > 0 THEN key ELSE SeedPinAuto]
    <3>1. PICK p \in Stations \cup {0, SeedPinAuto} : requests' = [requests EXCEPT !.pin = p]
      BY <2>2, <2>3
    <3>. QED BY <2>1, <3>1
  <2>4. CASE requests' = [requests EXCEPT !.cfo = TRUE]
    <3>1. PICK c \in BOOLEAN : c = TRUE
      OBVIOUS
    <3>2. requests' = [requests EXCEPT !.cfo = c]
      BY <2>4, <3>1
    <3>. QED BY <2>1, <3>2
  <2>. QED BY <1>1, <2>3, <2>4
<1>3. LoopTypes'
  <2>1. asked' \in 0 .. MaxRequests
    BY <1>1, PipelineConstants DEF LInv, LoopTypes
  <2>. QED BY <1>1, <1>2, <2>1 DEF LInv, LoopTypes, timers
<1>4. StageInv' /\ SeedInv' /\ CloseInv'
  BY <1>1 DEF LInv, StageInv, SeedInv, CloseInv, KnownSeed, FixedSeed, Handing, AllClosed,
              decoderVars
<1>. QED BY <1>3, <1>4

LEMMA TakeChunkKeeps ==
  ASSUME LInv, TakeChunk, asked' = asked
  PROVE  LoopTypes' /\ StageInv' /\ SeedInv' /\ CloseInv'
<1>1. /\ stage = "wait" /\ UNCHANGED <<decoderVars, shown, audioSeed, result, left, closed>>
      /\ stage' \in {"begin", "pin"} /\ requests' = [pin |-> 0, cfo |-> FALSE]
      /\ stage' = "begin" => seedPin' = seedPin
      /\ stage' = "pin" => seedPin' = requests.pin /\ requests.pin # 0
  BY DEF TakeChunk
<1>2. LoopTypes'
  <2>1. /\ seedPin' \in Stations \cup {0, SeedPinAuto}
        /\ requests' \in [pin : Stations \cup {0, SeedPinAuto}, cfo : BOOLEAN]
    BY <1>1 DEF LInv, LoopTypes
  <2>2. carrier' \in [acquired : BOOLEAN, kept : 0 .. AcquireSlots - 1]
    <3>1. Searching \in [acquired : BOOLEAN, kept : 0 .. AcquireSlots - 1]
      BY PipelineConstants DEF Searching
    <3>. QED BY <3>1 DEF TakeChunk, LInv, LoopTypes
  <2>3. sinceValid' \in 0 .. AbandonAfter
    <3>1. sinceValid' = Tick(sinceValid, AbandonAfter)
      BY DEF TakeChunk
    <3>. QED BY <3>1, PipelineConstants DEF Tick, LInv, LoopTypes
  <2>4. sinceControl' \in 0 .. ResetAfter
    <3>1. sinceControl' = Tick(sinceControl, ResetAfter) \/ sinceControl' = 0
      BY DEF TakeChunk
    <3>. QED BY <3>1, PipelineConstants DEF Tick, LInv, LoopTypes
  <2>5. armed' \in BOOLEAN /\ hadValid' \in BOOLEAN
    BY DEF TakeChunk, LInv, LoopTypes
  <2>. QED BY <1>1, <2>1, <2>2, <2>3, <2>4, <2>5 DEF LInv, LoopTypes, Stages
<1>3. StageInv'
  BY <1>1 DEF LInv, StageInv, decoderVars
<1>4. SeedInv'
  BY <1>1 DEF LInv, SeedInv, FixedSeed, decoderVars
<1>5. CloseInv'
  BY <1>1 DEF LInv, CloseInv, AllClosed, Handing, decoderVars
<1>. QED BY <1>2, <1>3, <1>4, <1>5

\* The window that is open is abandoned: finishWindow takes note of it.
LEMMA FinishOpenNotes ==
  ASSUME LInv, FinishOpen
  PROVE  /\ closed' = closed \cup OpenIds /\ closed' \in SUBSET Nat
         /\ shown'.seed = shown.seed /\ shown'.lastSeed = shown.lastSeed
         /\ shown' \in [seed : Stations \cup {0}, lastSeed : Stations \cup {0}, active : Nat]
         /\ shown'.active = shown.active \/ shown'.active = 0
         /\ shown'.active \notin OpenIds
<1>1. /\ shown \in [seed : Stations \cup {0}, lastSeed : Stations \cup {0}, active : Nat]
      /\ closed \in SUBSET Nat
  BY DEF LInv, LoopTypes
<1>2. IsOpen(tracker) => tracker.open.id \in Nat \ {0}
  BY OrderedTypes DEF LInv, DInv, IsOpen
<1>3. OpenIds \subseteq Nat \ {0}
  BY <1>2 DEF OpenIds
<1>4. closed' = closed \cup OpenIds
  BY DEF FinishOpen, OpenIds
<1>5. PICK a : a = IF IsOpen(tracker) /\ shown.active = tracker.open.id THEN 0 ELSE shown.active
  OBVIOUS
<1>6. shown' = [shown EXCEPT !.active = a]
  BY <1>5 DEF FinishOpen
<1>7. a \in Nat /\ (a = shown.active \/ a = 0) /\ a \notin OpenIds
  BY <1>1, <1>2, <1>5 DEF OpenIds
<1>. QED BY <1>1, <1>3, <1>4, <1>6, <1>7

LEMMA AbandonForPinKeeps ==
  ASSUME LInv, AbandonForPin, asked' = asked
  PROVE  LoopTypes' /\ StageInv' /\ SeedInv' /\ CloseInv'
<1>1. /\ stage = "pin" /\ stage' = "setPin"
      /\ UNCHANGED <<requests, carrier, seedPin, audioSeed, result, left, timers>>
      /\ \/ ResetBroadcast /\ FinishOpen
         \/ UNCHANGED <<decoderVars, shown, closed>>
  BY DEF AbandonForPin
<1>2. CASE ResetBroadcast /\ FinishOpen
  <2>1. /\ seed' = seed /\ pc' = pc /\ backlog' = backlog
        /\ told'.ended = told.ended \cup OpenIds
    BY <1>2, ResetEffects DEF LInv
  <2>2. /\ closed' = closed \cup OpenIds /\ closed' \in SUBSET Nat
        /\ shown'.seed = shown.seed
        /\ shown' \in [seed : Stations \cup {0}, lastSeed : Stations \cup {0}, active : Nat]
    BY <1>2, FinishOpenNotes
  <2>3. LoopTypes'
    BY <1>1, <2>2 DEF LInv, LoopTypes, Stages, timers
  <2>4. StageInv'
    BY <1>1, <2>1 DEF LInv, StageInv
  <2>5. SeedInv'
    BY <1>1, <2>1, <2>2 DEF LInv, SeedInv, FixedSeed
  <2>6. CloseInv'
    BY <1>1, <2>1, <2>2 DEF LInv, CloseInv, AllClosed, Handing
  <2>. QED BY <2>3, <2>4, <2>5, <2>6
<1>3. CASE UNCHANGED <<decoderVars, shown, closed>>
  <2>3. LoopTypes'
    BY <1>1, <1>3 DEF LInv, LoopTypes, Stages, timers
  <2>4. StageInv'
    BY <1>1, <1>3 DEF LInv, StageInv, decoderVars
  <2>5. SeedInv'
    BY <1>1, <1>3 DEF LInv, SeedInv, FixedSeed, decoderVars
  <2>6. CloseInv'
    BY <1>1, <1>3 DEF LInv, CloseInv, AllClosed, Handing, decoderVars
  <2>. QED BY <2>3, <2>4, <2>5, <2>6
<1>. QED BY <1>1, <1>2, <1>3

LEMMA SetPinKeeps ==
  ASSUME LInv, SetPin, asked' = asked
  PROVE  LoopTypes' /\ StageInv' /\ SeedInv' /\ CloseInv'
<1>1. /\ stage = "setPin" /\ stage' = "begin" /\ result' = res' /\ audioSeed' = PinnedSeed
      /\ UNCHANGED <<requests, carrier, seedPin, left, closed, timers>>
      /\ IF PinnedSeed = 0 THEN ResetSeed ELSE PinSeed(PinnedSeed)
  BY DEF SetPin
<1>2. /\ seed' = PinnedSeed /\ pc' = pc /\ backlog' = backlog /\ told' = told
  BY <1>1 DEF ResetSeed, PinSeed
<1>3. DInv'
  <2>1. asked' = asked /\ Loop
    BY DEF Loop
  <2>. QED BY <2>1, DecoderStays DEF LInv, Next
<1>4. PinnedSeed \in Stations \cup {0} /\ seedPin # 0 /\ FixedSeed = PinnedSeed
  BY <1>1, PinRange DEF LInv, StageInv
<1>5. /\ shown'.seed = PinnedSeed
      /\ shown' \in [seed : Stations \cup {0}, lastSeed : Stations \cup {0}, active : Nat]
  <2>1. PICK l \in Stations \cup {0} :
           shown' = [shown EXCEPT !.seed = PinnedSeed, !.lastSeed = l]
    <3>1. PICK l : l = IF PinnedSeed = 0 THEN shown.lastSeed ELSE PinnedSeed
      OBVIOUS
    <3>2. l \in Stations \cup {0}
      BY <1>4, <3>1 DEF LInv, LoopTypes
    <3>3. shown' = [shown EXCEPT !.seed = PinnedSeed, !.lastSeed = l]
      BY <3>1 DEF SetPin
    <3>. QED BY <3>2, <3>3
  <2>. QED BY <1>4, <2>1 DEF LInv, LoopTypes
<1>6. LoopTypes'
  <2>1. result' \in Result
    BY <1>1, <1>3, DecoderTypes DEF DInv, DecoderTypeOK
  <2>. QED BY <1>1, <1>4, <1>5, <2>1 DEF LInv, LoopTypes, Stages, timers
<1>7. StageInv'
  BY <1>1, <1>2 DEF LInv, StageInv
<1>8. SeedInv'
  BY <1>1, <1>2, <1>4, <1>5 DEF SeedInv, FixedSeed
<1>9. CloseInv'
  BY <1>1, <1>2 DEF LInv, CloseInv, AllClosed, Handing
<1>. QED BY <1>6, <1>7, <1>8, <1>9

LEMMA HandOnRange ==
  ASSUME LoopTypes, NEW n \in Int, HandOn(n)
  PROVE  /\ n \in 0 .. SlotsPerChunk + AcquireSlots - 1
         /\ carrier' \in [acquired : BOOLEAN, kept : 0 .. AcquireSlots - 1]
<1>1. /\ carrier \in [acquired : BOOLEAN, kept : 0 .. AcquireSlots - 1]
      /\ AcquireSlots \in Nat \ {0} /\ SlotsPerChunk \in Nat \ {0}
  BY PipelineConstants DEF LoopTypes
<1>2. PICK k \in 0 .. AcquireSlots - 1 : k = carrier.kept
  BY <1>1
<1>3. PICK m \in Nat : m = Kept /\ m = k + SlotsPerChunk
  BY <1>1, <1>2 DEF Kept
<1>4. PICK q : q = m % AcquireSlots
  OBVIOUS
<1>5. q \in 0 .. AcquireSlots - 1 /\ q <= m
  BY <1>1, <1>3, <1>4
<1>6. CASE carrier.acquired /\ n = SlotsPerChunk /\ carrier' = carrier
  BY <1>1, <1>6
<1>7. CASE n = Kept /\ carrier' = [acquired |-> TRUE, kept |-> 0]
  <2>1. n = k + SlotsPerChunk
    BY <1>3, <1>7
  <2>. QED BY <1>1, <1>7, <2>1
<1>8. CASE n = Kept - (Kept % AcquireSlots)
             /\ carrier' = [acquired |-> FALSE, kept |-> Kept % AcquireSlots]
  <2>1. n = m - q /\ carrier' = [acquired |-> FALSE, kept |-> q]
    BY <1>3, <1>4, <1>8
  <2>. QED BY <1>1, <1>3, <1>5, <2>1
<1>. QED BY <1>6, <1>7, <1>8 DEF HandOn

LEMMA StartFeedKeeps ==
  ASSUME LInv, StartFeed \/ SkipFeed, asked' = asked
  PROVE  LoopTypes' /\ StageInv' /\ SeedInv' /\ CloseInv'
<1>1. CASE StartFeed
  <2>1. /\ stage = "begin" /\ stage' = "feed" /\ pc' = "feed" /\ res' = NoResult
        /\ UNCHANGED <<requests, seedPin, shown, audioSeed, result, closed, timers, seed,
                       backlog, told>>
    BY <1>1 DEF StartFeed, BeginFeed
  <2>2. PICK n \in 1 .. Kept : HandOn(n) /\ left' = n
    BY <1>1 DEF StartFeed
  <2>3. /\ left' \in 0 .. SlotsPerChunk + AcquireSlots - 1
        /\ carrier' \in [acquired : BOOLEAN, kept : 0 .. AcquireSlots - 1]
    BY <2>2, HandOnRange DEF LInv
  <2>4. LoopTypes'
    BY <2>1, <2>3 DEF LInv, LoopTypes, Stages, timers
  <2>5. StageInv'
    BY <2>1 DEF LInv, StageInv
  <2>6. SeedInv'
    BY <2>1, NothingEnds DEF LInv, SeedInv, KnownSeed, FixedSeed
  <2>7. CloseInv'
    BY <2>1 DEF LInv, CloseInv, AllClosed, Handing
  <2>. QED BY <2>4, <2>5, <2>6, <2>7
<1>2. CASE SkipFeed
  <2>1. /\ stage = "begin" /\ stage' = "seed" /\ pc' = pc /\ result' = NoResult /\ HandOn(0)
        /\ UNCHANGED <<requests, seedPin, shown, audioSeed, left, closed, timers, seed,
                       backlog, told>>
    BY <1>2 DEF SkipFeed, EmptyFeed
  <2>2. carrier' \in [acquired : BOOLEAN, kept : 0 .. AcquireSlots - 1]
    BY <2>1, HandOnRange DEF LInv
  <2>3. NoResult \in Result
    BY DecoderTypes DEF LInv, DInv
  <2>4. LoopTypes'
    BY <2>1, <2>2, <2>3 DEF LInv, LoopTypes, Stages, timers
  <2>5. StageInv'
    BY <2>1 DEF LInv, StageInv
  <2>6. SeedInv'
    BY <2>1, NothingEnds DEF LInv, SeedInv, KnownSeed, FixedSeed
  <2>7. CloseInv'
    BY <2>1, NothingEnds DEF LInv, CloseInv, AllClosed, Handing
  <2>. QED BY <2>4, <2>5, <2>6, <2>7
<1>. QED BY <1>1, <1>2

LEMMA FeedStepKeeps ==
  ASSUME LInv, FeedStep, asked' = asked
  PROVE  LoopTypes' /\ StageInv' /\ SeedInv' /\ CloseInv'
<1>1. /\ stage = "feed" /\ stage' = "feed" /\ left' = left - (now' - now)
      /\ (pc = "feed" => left > 0) /\ (Slot \/ Replay)
      /\ UNCHANGED <<requests, carrier, seedPin, shown, audioSeed, result, closed, timers>>
  BY DEF FeedStep
<1>2. /\ pc \in {"feed", "replay"} /\ pc' \in {"feed", "replay"}
      /\ now' = now \/ (pc = "feed" /\ now' = now + 1)
      /\ told'.ended = told.ended
      /\ \/ seed' = seed /\ res'.detected = res.detected
         \/ seed = 0 /\ seed' # 0 /\ res'.detected = seed'
  BY <1>1, FeedStepEffects DEF LInv
<1>3. now \in Nat /\ left \in 0 .. SlotsPerChunk + AcquireSlots - 1
  BY DecoderTypes DEF LInv, DInv, LoopTypes
<1>4. left' \in 0 .. SlotsPerChunk + AcquireSlots - 1
  <2>1. CASE now' = now
    BY <1>1, <1>3, <2>1, PipelineConstants
  <2>2. CASE pc = "feed" /\ now' = now + 1
    <3>0. PICK n \in Nat : n = now
      BY <1>3
    <3>1. left' = left - ((n + 1) - n) /\ left > 0
      BY <1>1, <2>2, <3>0
    <3>. QED BY <1>3, <3>1, PipelineConstants
  <2>. QED BY <1>2, <2>1, <2>2
<1>5. LoopTypes'
  BY <1>1, <1>4 DEF LInv, LoopTypes, timers
<1>6. StageInv'
  BY <1>1, <1>2 DEF LInv, StageInv
<1>7. SeedInv'
  BY <1>1, <1>2 DEF LInv, SeedInv, KnownSeed, FixedSeed
<1>8. CloseInv'
  BY <1>1, <1>2 DEF LInv, CloseInv, AllClosed, Handing
<1>. QED BY <1>5, <1>6, <1>7, <1>8

LEMMA EndChunkKeeps ==
  ASSUME LInv, EndChunk, asked' = asked, DInv'
  PROVE  LoopTypes' /\ StageInv' /\ SeedInv' /\ CloseInv'
<1>1. /\ stage = "feed" /\ stage' = "seed" /\ EndFeed /\ result' = res'
      /\ UNCHANGED <<requests, carrier, seedPin, shown, audioSeed, left, closed, timers>>
  BY DEF EndChunk
<1>2. /\ pc' = "idle" /\ seed' = seed /\ res'.detected = res.detected
      /\ told'.ended = told.ended \cup EndedIds(res')
  BY <1>1, EndFeedEffects DEF LInv
<1>3. result' \in Result
  BY <1>1 DEF DInv, DecoderTypeOK
<1>4. LoopTypes'
  BY <1>1, <1>3 DEF LInv, LoopTypes, Stages, timers
<1>5. StageInv'
  BY <1>1, <1>2 DEF LInv, StageInv
<1>6. SeedInv'
  BY <1>1, <1>2 DEF LInv, SeedInv, KnownSeed, FixedSeed
<1>7. EndedIds(result)' = EndedIds(res')
  BY <1>1 DEF EndedIds
<1>8. CloseInv'
  BY <1>1, <1>2, <1>7 DEF LInv, CloseInv, AllClosed, Handing
<1>. QED BY <1>4, <1>5, <1>6, <1>8

LEMMA SeedDetectedKeeps ==
  ASSUME LInv, SeedDetected, asked' = asked
  PROVE  LoopTypes' /\ StageInv' /\ SeedInv' /\ CloseInv'
<1>1. /\ stage = "seed" /\ stage' = "handle"
      /\ UNCHANGED <<requests, carrier, seedPin, result, left, timers>>
  BY DEF SeedDetected
<1>2. EndedIds(result)' = EndedIds(result)
  BY <1>1 DEF EndedIds
<1>3. CASE result.detected = 0
  <2>1. UNCHANGED <<decoderVars, shown, audioSeed, closed>>
    BY <1>3 DEF SeedDetected
  <2>2. LoopTypes'
    BY <1>1, <2>1 DEF LInv, LoopTypes, Stages, timers
  <2>3. StageInv'
    BY <1>1, <2>1 DEF LInv, StageInv, decoderVars
  <2>4. SeedInv'
    BY <1>1, <1>3, <2>1 DEF LInv, SeedInv, KnownSeed, FixedSeed, decoderVars
  <2>5. CloseInv'
    BY <1>1, <1>2, <2>1 DEF LInv, CloseInv, AllClosed, Handing, decoderVars
  <2>. QED BY <2>2, <2>3, <2>4, <2>5
<1>4. CASE result.detected # 0
  <2>1. /\ audioSeed' = result.detected
        /\ \E on : /\ shown' = [seed |-> result.detected, lastSeed |-> result.detected,
                                active |-> on]
                   /\ on \in {0, shown.active}
        /\ \/ ResetBroadcast /\ closed' = closed \cup OpenIds
           \/ UNCHANGED <<decoderVars, closed>>
    BY <1>4 DEF SeedDetected
  <2>2. result.detected \in Stations
    BY <1>4 DEF LInv, LoopTypes, Result
  <2>3. /\ shown' \in [seed : Stations \cup {0}, lastSeed : Stations \cup {0}, active : Nat]
        /\ shown'.seed = result.detected
    BY <2>1, <2>2 DEF LInv, LoopTypes
  <2>4. /\ seed' = seed /\ pc' = pc /\ backlog' = backlog
        /\ closed' \in SUBSET Nat
        /\ \/ told'.ended = told.ended \cup OpenIds /\ closed' = closed \cup OpenIds
           \/ told'.ended = told.ended /\ closed' = closed
    <3>1. CASE ResetBroadcast /\ closed' = closed \cup OpenIds
      <4>1. OpenIds \subseteq Nat
        BY OrderedTypes DEF LInv, DInv, OpenIds
      <4>. QED BY <3>1, <4>1, ResetEffects DEF LInv, LoopTypes
    <3>2. CASE UNCHANGED <<decoderVars, closed>>
      BY <3>2 DEF decoderVars, LInv, LoopTypes
    <3>. QED BY <2>1, <3>1, <3>2
  <2>5. LoopTypes'
    BY <1>1, <2>1, <2>2, <2>3, <2>4 DEF LInv, LoopTypes, Stages, timers
  <2>6. StageInv'
    BY <1>1, <2>4 DEF LInv, StageInv
  <2>7. SeedInv'
    BY <1>1, <1>4, <2>1, <2>3, <2>4 DEF LInv, SeedInv, KnownSeed, FixedSeed
  <2>8. CloseInv'
    BY <1>1, <1>2, <2>4 DEF LInv, CloseInv, AllClosed, Handing
  <2>. QED BY <2>5, <2>6, <2>7, <2>8
<1>. QED BY <1>3, <1>4

LEMMA HandleResultKeeps ==
  ASSUME LInv, HandleResult, asked' = asked
  PROVE  LoopTypes' /\ StageInv' /\ SeedInv' /\ CloseInv'
<1>1. /\ stage \in {"handle", "flushed"}
      /\ stage' = IF stage = "handle" THEN "timers" ELSE "finish"
      /\ closed' = closed \cup EndedIds(result)
      /\ UNCHANGED <<decoderVars, requests, carrier, seedPin, audioSeed, result, left, timers>>
  BY DEF HandleResult
<1>2. /\ EndedIds(result) \subseteq Nat /\ Elements(result.started) \subseteq Nat
      /\ result.started # <<>> => result.started[Len(result.started)] \in Elements(result.started)
  BY ResultIds DEF LInv, LoopTypes
<1>3. \E a \in Nat : shown' = [shown EXCEPT !.active = a]
  <2>1. PICK on : on = IF result.started = <<>> THEN shown.active
                       ELSE result.started[Len(result.started)]
    OBVIOUS
  <2>2. PICK a : a = IF on \in EndedIds(result) THEN 0 ELSE on
    OBVIOUS
  <2>3. on \in Nat
    BY <1>2, <2>1 DEF LInv, LoopTypes
  <2>4. shown' = [shown EXCEPT !.active = a]
    BY <2>1, <2>2 DEF HandleResult
  <2>. QED BY <2>2, <2>3, <2>4
<1>4. /\ shown'.seed = shown.seed
      /\ shown' \in [seed : Stations \cup {0}, lastSeed : Stations \cup {0}, active : Nat]
  BY <1>3 DEF LInv, LoopTypes
<1>5. LoopTypes'
  BY <1>1, <1>2, <1>4 DEF LInv, LoopTypes, Stages, timers
<1>6. StageInv'
  BY <1>1 DEF LInv, StageInv, decoderVars
<1>7. SeedInv'
  BY <1>1, <1>4 DEF LInv, SeedInv, FixedSeed, decoderVars
<1>8. CloseInv'
  BY <1>1 DEF LInv, CloseInv, AllClosed, Handing, decoderVars
<1>. QED BY <1>5, <1>6, <1>7, <1>8

LEMMA TimersKeep ==
  ASSUME LInv, LoseSignal \/ KeepSignal \/ Unlock, asked' = asked
  PROVE  LoopTypes' /\ StageInv' /\ SeedInv' /\ CloseInv'
<1>1. CASE LoseSignal
  <2>1. /\ stage = "timers" /\ stage' = "unlock" /\ carrier' = Searching
        /\ armed' = FALSE /\ hadValid' = FALSE /\ sinceControl' = 0
        /\ UNCHANGED <<requests, seedPin, audioSeed, result, left, sinceValid, closed,
                       seed, pc, backlog, told>>
    BY <1>1 DEF LoseSignal, SignalLost
  <2>2. /\ shown'.seed = shown.seed
        /\ shown' \in [seed : Stations \cup {0}, lastSeed : Stations \cup {0}, active : Nat]
    <3>1. PICK a : a = IF IsOpen(tracker) THEN shown.active ELSE 0
      OBVIOUS
    <3>2. shown' = [shown EXCEPT !.active = a]
      BY <1>1, <3>1 DEF LoseSignal
    <3>. QED BY <3>1, <3>2 DEF LInv, LoopTypes
  <2>3. carrier' \in [acquired : BOOLEAN, kept : 0 .. AcquireSlots - 1]
    BY <2>1, PipelineConstants DEF Searching
  <2>4. sinceControl' \in 0 .. ResetAfter
    BY <2>1, PipelineConstants
  <2>5. LoopTypes'
    BY <2>1, <2>2, <2>3, <2>4 DEF LInv, LoopTypes, Stages
  <2>6. StageInv'
    BY <2>1 DEF LInv, StageInv
  <2>7. SeedInv'
    BY <2>1, <2>2 DEF LInv, SeedInv, FixedSeed
  <2>8. CloseInv'
    BY <2>1 DEF LInv, CloseInv, AllClosed, Handing
  <2>. QED BY <2>5, <2>6, <2>7, <2>8
<1>2. CASE KeepSignal
  <2>1. /\ stage = "timers" /\ stage' = "watchdog"
        /\ UNCHANGED <<decoderVars, requests, carrier, seedPin, shown, audioSeed, result,
                       left, closed>>
    BY <1>2 DEF KeepSignal
  <2>2. armed' \in BOOLEAN /\ hadValid' \in BOOLEAN
    BY <1>2 DEF KeepSignal
  <2>3. sinceControl' \in 0 .. ResetAfter /\ sinceValid' \in 0 .. AbandonAfter
    <3>1. sinceControl' \in {0, sinceControl} /\ sinceValid' \in {0, sinceValid}
      BY <1>2 DEF KeepSignal, SinceControl
    <3>. QED BY <3>1, PipelineConstants DEF LInv, LoopTypes
  <2>5. LoopTypes'
    BY <2>1, <2>2, <2>3 DEF LInv, LoopTypes, Stages
  <2>6. StageInv'
    BY <2>1 DEF LInv, StageInv, decoderVars
  <2>7. SeedInv'
    BY <2>1 DEF LInv, SeedInv, FixedSeed, decoderVars
  <2>8. CloseInv'
    BY <2>1 DEF LInv, CloseInv, AllClosed, Handing, decoderVars
  <2>. QED BY <2>5, <2>6, <2>7, <2>8
<1>3. CASE Unlock
  <2>1. /\ stage = "unlock" /\ stage' = "watchdog"
        /\ UNCHANGED <<requests, carrier, seedPin, result, left, closed, timers, pc, backlog,
                       told>>
        /\ \/ FixedSeed = 0 /\ seed' = 0 /\ audioSeed' = 0 /\ shown' = [shown EXCEPT !.seed = 0]
           \/ FixedSeed # 0 /\ UNCHANGED <<seed, audioSeed, shown>>
    BY <1>3 DEF Unlock, ResetSeed, decoderVars
  <2>2. /\ audioSeed' \in Stations \cup {0}
        /\ shown' \in [seed : Stations \cup {0}, lastSeed : Stations \cup {0}, active : Nat]
        /\ shown'.seed = seed' /\ audioSeed' = seed'
    BY <2>1 DEF LInv, LoopTypes, SeedInv
  <2>5. LoopTypes'
    BY <2>1, <2>2 DEF LInv, LoopTypes, Stages, timers
  <2>6. StageInv'
    BY <2>1 DEF LInv, StageInv
  <2>7. SeedInv'
    BY <2>1, <2>2 DEF LInv, SeedInv, FixedSeed
  <2>8. CloseInv'
    BY <2>1 DEF LInv, CloseInv, AllClosed, Handing
  <2>. QED BY <2>5, <2>6, <2>7, <2>8
<1>. QED BY <1>1, <1>2, <1>3

LEMMA WatchdogKeeps ==
  ASSUME LInv, Watchdog, asked' = asked
  PROVE  LoopTypes' /\ StageInv' /\ SeedInv' /\ CloseInv'
<1>1. /\ stage = "watchdog" /\ stage' = "wait" /\ result' = NoResult
      /\ UNCHANGED <<requests, carrier, seedPin, audioSeed, left, timers>>
      /\ \/ ResetBroadcast /\ FinishOpen
         \/ UNCHANGED <<decoderVars, shown, closed>>
  BY DEF Watchdog
<1>2. result' \in Result
  BY <1>1, DecoderTypes DEF LInv, DInv
<1>3. /\ seed' = seed /\ pc' = pc /\ backlog' = backlog
      /\ shown'.seed = shown.seed
      /\ shown' \in [seed : Stations \cup {0}, lastSeed : Stations \cup {0}, active : Nat]
      /\ closed' \in SUBSET Nat
      /\ \/ told'.ended = told.ended \cup OpenIds /\ closed' = closed \cup OpenIds
         \/ told'.ended = told.ended /\ closed' = closed
  <2>1. CASE ResetBroadcast /\ FinishOpen
    BY <2>1, ResetEffects, FinishOpenNotes DEF LInv
  <2>2. CASE UNCHANGED <<decoderVars, shown, closed>>
    BY <2>2 DEF decoderVars, LInv, LoopTypes
  <2>. QED BY <1>1, <2>1, <2>2
<1>4. LoopTypes'
  BY <1>1, <1>2, <1>3 DEF LInv, LoopTypes, Stages, timers
<1>5. StageInv'
  BY <1>1, <1>3 DEF LInv, StageInv
<1>6. SeedInv'
  BY <1>1, <1>3 DEF LInv, SeedInv, FixedSeed
<1>7. CloseInv'
  BY <1>1, <1>3 DEF LInv, CloseInv, AllClosed, Handing
<1>. QED BY <1>4, <1>5, <1>6, <1>7

LEMMA SourceEndsKeeps ==
  ASSUME LInv, SourceEnds, asked' = asked, DInv'
  PROVE  LoopTypes' /\ StageInv' /\ SeedInv' /\ CloseInv'
<1>1. /\ stage = "wait" /\ stage' = "flushed" /\ Flush /\ result' = res'
      /\ UNCHANGED <<requests, carrier, seedPin, shown, audioSeed, left, closed, timers>>
  BY DEF SourceEnds
<1>2. /\ pc' = "done" /\ seed' = seed /\ backlog' = <<>>
      /\ told'.ended = told.ended \cup EndedIds(res')
  BY <1>1, FlushEffects DEF LInv
<1>3. result' \in Result
  BY <1>1 DEF DInv, DecoderTypeOK
<1>4. LoopTypes'
  BY <1>1, <1>3 DEF LInv, LoopTypes, Stages, timers
<1>5. StageInv'
  BY <1>1, <1>2 DEF LInv, StageInv
<1>6. SeedInv'
  BY <1>1, <1>2 DEF LInv, SeedInv, FixedSeed
<1>7. EndedIds(result)' = EndedIds(res')
  BY <1>1 DEF EndedIds
<1>8. CloseInv'
  BY <1>1, <1>2, <1>7 DEF LInv, CloseInv, AllClosed, Handing
<1>. QED BY <1>4, <1>5, <1>6, <1>8

\* The loop stops: nothing is open, the backlog is empty, and so whatever has
\* been started has been closed.
LEMMA FinishKeeps ==
  ASSUME LInv, Finish, asked' = asked, DInv'
  PROVE  LoopTypes' /\ StageInv' /\ SeedInv' /\ CloseInv'
<1>1. /\ stage = "finish" /\ stage' = "stopped" /\ ResetBroadcast /\ FinishOpen
      /\ UNCHANGED <<requests, carrier, seedPin, audioSeed, result, left, timers>>
  BY DEF Finish
<1>2. /\ seed' = seed /\ pc' = pc /\ backlog' = backlog /\ OpenIds' = {}
      /\ told'.ended = told.ended \cup OpenIds
  BY <1>1, ResetEffects DEF LInv
<1>3. /\ closed' = closed \cup OpenIds /\ closed' \in SUBSET Nat
      /\ shown'.seed = shown.seed
      /\ shown' \in [seed : Stations \cup {0}, lastSeed : Stations \cup {0}, active : Nat]
  BY <1>1, FinishOpenNotes
<1>4. LoopTypes'
  BY <1>1, <1>3 DEF LInv, LoopTypes, Stages, timers
<1>5. StageInv'
  BY <1>1, <1>2 DEF LInv, StageInv
<1>6. SeedInv'
  BY <1>1, <1>2, <1>3 DEF LInv, SeedInv, FixedSeed
<1>7. told'.ended \subseteq closed'
  BY <1>1, <1>2, <1>3 DEF LInv, CloseInv, Handing
<1>8. BacklogIds' = {}
  <2>1. backlog' = <<>>
    BY <1>1, <1>2 DEF LInv, StageInv
  <2>2. DOMAIN <<>> = {}
    OBVIOUS
  <2>3. BacklogIds' = {backlog'[i].id : i \in {}}
    BY <2>1, <2>2 DEF BacklogIds
  <2>. QED BY <2>3
<1>9. told'.started \subseteq OpenIds' \cup BacklogIds' \cup told'.ended
  BY DEF DInv, AccountInv, StartsAccounted
<1>10. CloseInv'
  BY <1>2, <1>7, <1>8, <1>9 DEF CloseInv, AllClosed
<1>. QED BY <1>4, <1>5, <1>6, <1>10

-----------------------------------------------------------------------------
(* The invariant holds.                                                    *)

LEMMA LoopStarts ==
  ASSUME Init
  PROVE  LInv
<1>1. /\ DecoderInit /\ seed = CfgSeed /\ stage = "wait"
      /\ requests = [pin |-> 0, cfo |-> FALSE] /\ carrier = Searching /\ seedPin = 0
      /\ shown = [seed |-> CfgSeed, lastSeed |-> 0, active |-> 0] /\ audioSeed = CfgSeed
      /\ result = NoResult /\ left = 0 /\ armed = FALSE /\ hadValid = FALSE
      /\ sinceControl = 0 /\ sinceValid = 0 /\ closed = {} /\ asked = 0
  BY DEF Init
<1>2. DInv
  BY <1>1, InitHolds
<1>3. pc = "idle" /\ told.ended = {}
  BY <1>1 DEF DecoderInit
<1>4. NoResult \in Result
  BY <1>2, DecoderTypes DEF DInv
<1>5. carrier \in [acquired : BOOLEAN, kept : 0 .. AcquireSlots - 1]
  BY <1>1, PipelineConstants DEF Searching
<1>6. /\ left \in 0 .. SlotsPerChunk + AcquireSlots - 1
      /\ sinceControl \in 0 .. ResetAfter /\ sinceValid \in 0 .. AbandonAfter
      /\ asked \in 0 .. MaxRequests
  BY <1>1, PipelineConstants
<1>7. CfgSeed \in Stations \cup {0}
  BY PipelineConstants
<1>8. requests \in [pin : Stations \cup {0, SeedPinAuto}, cfo : BOOLEAN]
  BY <1>1
<1>9. shown \in [seed : Stations \cup {0}, lastSeed : Stations \cup {0}, active : Nat]
  BY <1>1, <1>7
<1>10. LoopTypes
  BY <1>1, <1>4, <1>5, <1>6, <1>7, <1>8, <1>9 DEF LoopTypes, Stages
<1>11. StageInv
  BY <1>1, <1>3 DEF StageInv
<1>12. SeedInv
  BY <1>1 DEF SeedInv, FixedSeed, SeedPinAuto
<1>13. CloseInv
  BY <1>1, <1>3 DEF CloseInv, AllClosed
<1>. QED BY <1>2, <1>10, <1>11, <1>12, <1>13 DEF LInv

LEMMA LoopStands ==
  ASSUME LInv, UNCHANGED vars
  PROVE  LInv'
<1>1. UNCHANGED decoderVars
  BY DEF vars
<1>2. /\ stage' = stage /\ requests' = requests /\ carrier' = carrier /\ seedPin' = seedPin
      /\ shown' = shown /\ audioSeed' = audioSeed /\ result' = result /\ left' = left
      /\ armed' = armed /\ hadValid' = hadValid /\ sinceControl' = sinceControl
      /\ sinceValid' = sinceValid /\ closed' = closed /\ asked' = asked
  BY DEF vars, loopVars
<1>3. seed' = seed /\ pc' = pc /\ backlog' = backlog /\ res' = res /\ told' = told
  BY <1>1 DEF decoderVars
<1>4. DInv'
  BY <1>1, NothingHappens DEF LInv
<1>5. LoopTypes'
  BY <1>2 DEF LInv, LoopTypes
<1>6. StageInv'
  BY <1>2, <1>3 DEF LInv, StageInv
<1>7. SeedInv'
  BY <1>2, <1>3 DEF LInv, SeedInv, KnownSeed, FixedSeed
<1>8. EndedIds(result)' = EndedIds(result)
  BY <1>2 DEF EndedIds
<1>9. CloseInv'
  BY <1>2, <1>3, <1>8 DEF LInv, CloseInv, AllClosed, Handing
<1>. QED BY <1>4, <1>5, <1>6, <1>7, <1>9 DEF LInv

LEMMA LoopSteps ==
  ASSUME LInv, Next
  PROVE  LInv'
<1>1. DInv'
  BY DecoderStays DEF LInv
<1>2. CASE RequestCFOReset \/ \E key \in Pins : RequestSeedPin(key)
  BY <1>1, <1>2, RequestsKeep DEF LInv
<1>3. CASE Loop /\ asked' = asked
  <2>1. CASE TakeChunk
    BY <1>1, <1>3, <2>1, TakeChunkKeeps DEF LInv
  <2>2. CASE AbandonForPin
    BY <1>1, <1>3, <2>2, AbandonForPinKeeps DEF LInv
  <2>3. CASE SetPin
    BY <1>1, <1>3, <2>3, SetPinKeeps DEF LInv
  <2>4. CASE StartFeed \/ SkipFeed
    BY <1>1, <1>3, <2>4, StartFeedKeeps DEF LInv
  <2>5. CASE FeedStep
    BY <1>1, <1>3, <2>5, FeedStepKeeps DEF LInv
  <2>6. CASE EndChunk
    BY <1>1, <1>3, <2>6, EndChunkKeeps DEF LInv
  <2>7. CASE SeedDetected
    BY <1>1, <1>3, <2>7, SeedDetectedKeeps DEF LInv
  <2>8. CASE HandleResult
    BY <1>1, <1>3, <2>8, HandleResultKeeps DEF LInv
  <2>9. CASE LoseSignal \/ KeepSignal \/ Unlock
    BY <1>1, <1>3, <2>9, TimersKeep DEF LInv
  <2>10. CASE Watchdog
    BY <1>1, <1>3, <2>10, WatchdogKeeps DEF LInv
  <2>11. CASE SourceEnds
    BY <1>1, <1>3, <2>11, SourceEndsKeeps DEF LInv
  <2>12. CASE Finish
    BY <1>1, <1>3, <2>12, FinishKeeps DEF LInv
  <2>. QED BY <1>3, <2>1, <2>2, <2>3, <2>4, <2>5, <2>6, <2>7, <2>8, <2>9, <2>10, <2>11, <2>12
           DEF Loop
<1>. QED BY <1>2, <1>3 DEF Next

\* What dspLoop keeps true of the decoder, of the three copies of the seed and
\* of what it has closed, whatever arrives and whatever the web handlers ask.
THEOREM LoopKeeps == Spec => []LInv
<1>1. Init => LInv
  BY LoopStarts
<1>2. LInv /\ [Next]_vars => LInv'
  BY LoopSteps, LoopStands
<1>. QED BY <1>1, <1>2, PTL DEF Spec

\* dspLoop drives the decoder only as the decoder's own specification allows:
\* it pins a seed, forgets one, abandons a broadcast or flushes only between
\* two Feeds, and after Flush it only abandons.  What is proved of the decoder
\* under any caller is so true of it in the monitor.
THEOREM LoopObeysDecoder == Spec => DecoderSpec
<1>1. Init => DecoderInit
  BY DEF Init
<1>2. LInv /\ [Next]_vars => [DecoderNext]_decoderVars
  <2>1. ASSUME UNCHANGED vars
        PROVE  UNCHANGED decoderVars
    BY <2>1 DEF vars
  <2>. QED BY <2>1, LoopCallsDecoder DEF LInv
<1>. QED BY <1>1, <1>2, LoopKeeps, PTL DEF Spec, DecoderSpec

\* Between two chunks the decoder, the audio worker and the monitor use the
\* same seed, the pinned one if one is pinned (applySeedPin, onSeedDetected,
\* resetOnSignalLoss, applyDetectedSeed).
THEOREM SeedsAgree == Spec => []PipelineInv
<1>1. LInv => PipelineInv
  BY DEF LInv, DInv, LoopTypes, SeedInv, PipelineInv, TypeOK, SeedAgreement
<1>. QED BY <1>1, LoopKeeps, PTL

\* When dspLoop has stopped, every broadcast it announced has been closed, so
\* that the audio worker has written its file (finishWindow, handleResult).
THEOREM EveryBroadcastClosed == Spec => []AllClosed
<1>1. LInv => AllClosed
  BY DEF LInv, CloseInv
<1>. QED BY <1>1, LoopKeeps, PTL

-----------------------------------------------------------------------------
(* The broadcast on air.                                                   *)

AirStations == {air.station : air \in AirSlots}

\* All that is received comes from one station.
OneStation == \A s, t \in AirStations : s = t

\* A station that is found is one that is on the air.
AirInv ==
    /\ \A i \in DOMAIN held : held[i].station \in AirStations
    /\ res.detected \in AirStations \cup {0}
    /\ result.detected \in AirStations \cup {0}

\* The last station is one on the air until a pin has named another.
AskedInv ==
    /\ asked = 0 => requests.pin = 0 /\ seedPin = 0
    /\ asked <= 1 => /\ requests.pin = 0 \/ seedPin = 0
                     /\ seedPin <= 0 \/ stage \in {"pin", "setPin"} =>
                           shown.lastSeed \in AirStations \cup {0}

\* The broadcast that is shown has been announced, and if its end has been
\* reported it is in hand.
ActiveInv ==
    shown.active # 0 =>
       /\ shown.active \in told.started
       /\ shown.active \in told.ended => shown.active \in Handing

\* So is each that the result in hand announces.
StartsInv ==
    /\ stage = "feed" => Elements(res.started) \subseteq told.started \ told.ended
    /\ stage \in {"seed", "handle", "flushed"} =>
          /\ Elements(result.started) \subseteq told.started
          /\ Elements(result.started) \cap told.ended \subseteq Handing

FollowInv == asked <= 1 => ActiveInv /\ StartsInv

OnAirInv == LInv /\ AirInv /\ AskedInv /\ FollowInv

\* A step inside a Feed announces only windows that are open then.
LEMMA FeedStepStarts ==
  ASSUME DInv, Slot \/ Replay
  PROVE  \E new \in SUBSET OpenIds' :
            /\ Elements(res'.started) = Elements(res.started) \cup new
            /\ told'.started = told.started \cup new
<1>1. res \in Result /\ told \in Told /\ held \in Seq(HeldSlot) /\ now \in Nat
  BY DecoderTypes DEF DInv
<1>2. ASSUME NEW slot \in HeldSlot, DecodeControl(slot, seed, res)
      PROVE  \E new \in SUBSET OpenIds' :
                /\ Elements(res'.started) = Elements(res.started) \cup new
                /\ told'.started = told.started \cup new
  BY <1>1, <1>2, DecodeControlStarts
<1>3. ASSUME res'.started = res.started, told'.started = told.started
      PROVE  \E new \in SUBSET OpenIds' :
                /\ Elements(res'.started) = Elements(res.started) \cup new
                /\ told'.started = told.started \cup new
  <2>1. /\ {} \in SUBSET OpenIds'
        /\ Elements(res'.started) = Elements(res.started) \cup {}
        /\ told'.started = told.started \cup {}
    BY <1>3
  <2>. QED BY <2>1
<1>4. CASE \E air \in AirSlots : ControlSlot(air)
  <2>1. PICK air \in AirSlots : ControlSlot(air)
    BY <1>4
  <2>2. PICK slot : slot = [pos |-> now, station |-> air.station, msg |-> air.msg]
    OBVIOUS
  <2>3. slot \in HeldSlot
    BY <1>1, <2>2, DecoderConstants DEF HeldSlot
  <2>4. IF seed = 0 THEN HoldSlot(slot) ELSE DecodeControl(slot, seed, res)
    BY <2>1, <2>2 DEF ControlSlot
  <2>5. CASE seed # 0
    BY <1>2, <2>3, <2>4, <2>5
  <2>6. CASE seed = 0
    <3>1. told' = told /\ (res' = res \/ \E d : res' = [res EXCEPT !.detected = d])
      BY <2>4, <2>6 DEF HoldSlot
    <3>. QED BY <1>1, <1>3, <3>1 DEF Result
  <2>. QED BY <2>5, <2>6
<1>5. CASE VoiceSlot
  <2>1. PICK d : res' = Emitted(d, res) /\ told' = NoteVoice(d)
    BY <1>5 DEF VoiceSlot
  <2>2. res'.started = res.started
    BY <1>1, <2>1 DEF Emitted, Result
  <2>3. told' = told \/ \E v : told' = [told EXCEPT !.voice = v]
    BY <2>1 DEF NoteVoice
  <2>4. told'.started = told.started
    BY <1>1, <2>3 DEF Told
  <2>. QED BY <1>3, <2>2, <2>4
<1>6. CASE \E air \in AirSlots : FacchSlot(air) /\ ~VoiceSlot
  <2>1. told' = told /\ \E c, d : res' = [res EXCEPT !.control = c, !.valid = d]
    BY <1>6 DEF FacchSlot
  <2>. QED BY <1>1, <1>3, <2>1 DEF Result
<1>7. CASE EmptySlot
  BY <1>3, <1>7 DEF EmptySlot
<1>8. CASE Replay
  <2>1. DecodeControl(Head(held), seed, res)
    BY <1>8 DEF Replay
  <2>2. held # <<>>
    BY <1>8 DEF Replay, DInv, QueuesInv
  <2>3. Head(held) \in HeldSlot
    BY <1>1, <2>2, HeadTailProperties
  <2>. QED BY <1>2, <2>1, <2>3
<1>. QED BY <1>4, <1>5, <1>6, <1>7, <1>8 DEF Slot

\* The slots that are held keep the station they came from, and the search
\* takes the seed of one of them.
HeldOnAir == \A i \in DOMAIN held : held[i].station \in AirStations

LEMMA SlotsOnAir ==
  ASSUME DInv, HeldOnAir, res.detected \in AirStations \cup {0}, Slot \/ Replay
  PROVE  HeldOnAir' /\ res'.detected \in AirStations \cup {0}
<1>1. res \in Result /\ held \in Seq(HeldSlot) /\ now \in Nat
  BY DecoderTypes DEF DInv
<1>2. ASSUME NEW slot \in HeldSlot, DecodeControl(slot, seed, res)
      PROVE  res'.detected = res.detected
  BY <1>1, <1>2, DecodeControlStarts
<1>3. CASE \E air \in AirSlots : ControlSlot(air)
  <2>1. PICK air \in AirSlots : ControlSlot(air)
    BY <1>3
  <2>2. PICK slot : slot = [pos |-> now, station |-> air.station, msg |-> air.msg]
    OBVIOUS
  <2>3. slot \in HeldSlot /\ slot.station \in AirStations
    BY <1>1, <2>2, DecoderConstants DEF HeldSlot, AirStations
  <2>4. IF seed = 0 THEN HoldSlot(slot) ELSE DecodeControl(slot, seed, res) /\ held' = held
    BY <2>1, <2>2 DEF ControlSlot
  <2>5. CASE seed # 0
    BY <1>2, <2>3, <2>4, <2>5 DEF HeldOnAir
  <2>6. CASE seed = 0
    <3>1. PICK h : h = held'
      OBVIOUS
    <3>2. h = LastOf(Append(held, slot), SeedWindow)
      BY <2>4, <2>6, <3>1 DEF HoldSlot
    <3>3. \A i \in DOMAIN h : h[i] = slot \/ \E j \in DOMAIN held : h[i] = held[j]
      BY <1>1, <2>3, <3>2, HeldSlots
    <3>4. \A i \in DOMAIN h : h[i].station \in AirStations
      BY <2>3, <3>3 DEF HeldOnAir
    <3>5. \/ res' = res
          \/ \E i \in DOMAIN h : res' = [res EXCEPT !.detected = h[i].station]
      BY <2>4, <2>6, <3>1 DEF HoldSlot
    <3>. QED BY <1>1, <3>1, <3>4, <3>5 DEF HeldOnAir, Result
  <2>. QED BY <2>5, <2>6
<1>4. CASE VoiceSlot
  <2>1. PICK d : res' = Emitted(d, res) /\ held' = held
    BY <1>4 DEF VoiceSlot
  <2>2. res'.detected = res.detected
    BY <1>1, <2>1 DEF Emitted, Result
  <2>. QED BY <2>1, <2>2 DEF HeldOnAir
<1>5. CASE \E air \in AirSlots : FacchSlot(air) /\ ~VoiceSlot
  <2>1. held' = held /\ \E c, d : res' = [res EXCEPT !.control = c, !.valid = d]
    BY <1>5 DEF FacchSlot
  <2>2. res'.detected = res.detected
    BY <1>1, <2>1 DEF Result
  <2>. QED BY <2>1, <2>2 DEF HeldOnAir
<1>6. CASE EmptySlot
  BY <1>6 DEF EmptySlot, HeldOnAir
<1>7. CASE Replay
  <2>1. DecodeControl(Head(held), seed, res) /\ held' = Tail(held)
    BY <1>7 DEF Replay
  <2>2. held # <<>>
    BY <1>7 DEF Replay, DInv, QueuesInv
  <2>3. Head(held) \in HeldSlot
    BY <1>1, <2>2, HeadTailProperties
  <2>4. PICK h : h = Tail(held)
    OBVIOUS
  <2>5. \A i \in DOMAIN h : \E j \in DOMAIN held : h[i] = held[j]
    <3>1. /\ h \in Seq(HeldSlot) /\ Len(h) = Len(held) - 1
          /\ \A i \in 1 .. Len(h) : h[i] = held[i + 1]
      BY <1>1, <2>2, <2>4, HeadTailProperties
    <3>2. DOMAIN h = 1 .. Len(h) /\ DOMAIN held = 1 .. Len(held) /\ Len(held) \in Nat
      BY <1>1, <3>1, LenProperties
    <3>. QED BY <3>1, <3>2, SMTT(30)
  <2>6. \A i \in DOMAIN h : h[i].station \in AirStations
    BY <2>5 DEF HeldOnAir
  <2>7. res'.detected = res.detected
    BY <1>2, <2>1, <2>3
  <2>. QED BY <2>1, <2>4, <2>6, <2>7 DEF HeldOnAir
<1>. QED BY <1>3, <1>4, <1>5, <1>6, <1>7 DEF Slot

LEMMA AirKeeps ==
  ASSUME LInv, AirInv, Next
  PROVE  AirInv'
<1>1. /\ HeldOnAir /\ res.detected \in AirStations \cup {0}
      /\ result.detected \in AirStations \cup {0} /\ DInv
  BY DEF AirInv, HeldOnAir, LInv
<1>2. ASSUME held' = held \/ held' = <<>>, res'.detected \in {res.detected, 0},
             result'.detected \in {result.detected, res'.detected, 0}
      PROVE  AirInv'
  <2>1. HeldOnAir'
    <3>1. CASE held' = held
      BY <1>1, <3>1 DEF HeldOnAir
    <3>2. CASE held' = <<>>
      <4>1. DOMAIN held' = {}
        BY <3>2
      <4>. QED BY <4>1 DEF HeldOnAir
    <3>. QED BY <1>2, <3>1, <3>2
  <2>. QED BY <1>1, <1>2, <2>1 DEF HeldOnAir, AirInv
<1>3. NoResult.detected = 0 /\ NoResult \in Result
  BY NothingEnds, DecoderTypes DEF LInv, DInv
<1>4. ResetBroadcast => held' = held /\ res'.detected = 0
  BY <1>3 DEF ResetBroadcast
<1>5. UNCHANGED decoderVars => held' = held /\ res'.detected = res.detected
  BY DEF decoderVars
<1>6. CASE RequestCFOReset \/ \E key \in Pins : RequestSeedPin(key)
  BY <1>2, <1>5, <1>6 DEF RequestCFOReset, RequestSeedPin
<1>7. CASE TakeChunk \/ HandleResult \/ KeepSignal
  BY <1>2, <1>5, <1>7 DEF TakeChunk, HandleResult, KeepSignal
<1>8. CASE AbandonForPin \/ SeedDetected \/ Finish
  <2>1. result' = result /\ (ResetBroadcast \/ UNCHANGED decoderVars)
    BY <1>8 DEF AbandonForPin, SeedDetected, Finish
  <2>. QED BY <1>2, <1>4, <1>5, <2>1
<1>9. CASE Watchdog
  <2>1. result' = NoResult /\ (ResetBroadcast \/ UNCHANGED decoderVars)
    BY <1>9 DEF Watchdog
  <2>. QED BY <1>2, <1>3, <1>4, <1>5, <2>1
<1>10. CASE SetPin
  <2>1. /\ held' = <<>> /\ result' = res'
        /\ res' = NoResult \/ \E v : res' = [NoResult EXCEPT !.voice = v]
    BY <1>10 DEF SetPin, ResetSeed, PinSeed
  <2>2. res'.detected = 0
    BY <1>3, <2>1 DEF Result
  <2>. QED BY <1>2, <2>1, <2>2
<1>11. CASE StartFeed \/ LoseSignal
  <2>1. result' = result /\ res' = NoResult /\ held' = held
    BY <1>11 DEF StartFeed, BeginFeed, LoseSignal, SignalLost
  <2>. QED BY <1>2, <1>3, <2>1
<1>12. CASE SkipFeed
  <2>1. result' = res' /\ res' = NoResult /\ held' = held
    BY <1>12 DEF SkipFeed, EmptyFeed
  <2>. QED BY <1>2, <1>3, <2>1
<1>13. CASE Unlock
  <2>1. result' = result /\ (ResetSeed \/ UNCHANGED decoderVars)
    BY <1>13 DEF Unlock
  <2>2. ResetSeed => held' = <<>> /\ res'.detected = 0
    BY <1>3 DEF ResetSeed
  <2>. QED BY <1>2, <1>5, <2>1, <2>2
<1>14. CASE FeedStep
  <2>1. result' = result /\ (Slot \/ Replay)
    BY <1>14 DEF FeedStep
  <2>2. HeldOnAir' /\ res'.detected \in AirStations \cup {0}
    BY <1>1, <2>1, SlotsOnAir
  <2>. QED BY <1>1, <2>1, <2>2 DEF AirInv, HeldOnAir
<1>15. CASE EndChunk
  <2>1. result' = res' /\ EndFeed /\ held' = held
    BY <1>15 DEF EndChunk, EndFeed
  <2>2. res'.detected = res.detected
    BY <1>1, <2>1, EndFeedEffects
  <2>. QED BY <1>2, <2>1, <2>2
<1>16. CASE SourceEnds
  <2>1. result' = res' /\ Flush /\ held' = held
    BY <1>16 DEF SourceEnds, Flush
  <2>2. res'.detected = 0
    BY <1>1, <2>1, FlushEffects
  <2>. QED BY <1>2, <2>1, <2>2
<1>. QED BY <1>6, <1>7, <1>8, <1>9, <1>10, <1>11, <1>12, <1>13, <1>14, <1>15, <1>16
         DEF Next, Loop

LEMMA AskedKeeps ==
  ASSUME LInv, AirInv, AskedInv, Next
  PROVE  AskedInv'
<1>1. /\ asked \in Nat /\ seedPin \in Stations \cup {0, -1} /\ requests.pin \in Stations \cup {0, -1}
      /\ \A s \in Stations : s \in Nat \ {0}
      /\ result.detected \in AirStations \cup {0}
  BY PipelineConstants, PinRange DEF LInv, LoopTypes, AirInv, SeedPinAuto
<1>2. ASSUME asked' = asked, requests'.pin = requests.pin, seedPin' = seedPin,
             stage' \in {"pin", "setPin"} => stage \in {"pin", "setPin"},
             shown'.lastSeed = shown.lastSeed \/ shown'.lastSeed \in AirStations
      PROVE  AskedInv'
  BY <1>2 DEF AskedInv
<1>3. CASE RequestCFOReset \/ \E key \in Pins : RequestSeedPin(key)
  <2>1. asked' = asked + 1 /\ stage' = stage /\ seedPin' = seedPin /\ shown' = shown
    BY <1>3 DEF RequestCFOReset, RequestSeedPin, Ask
  <2>2. asked' # 0 /\ (asked' <= 1 => asked = 0)
    BY <1>1, <2>1
  <2>. QED BY <2>1, <2>2 DEF AskedInv
<1>4. CASE TakeChunk /\ asked' = asked
  <2>1. CASE requests.pin = 0
    <3>1. seedPin' = seedPin /\ stage' = "begin" /\ requests'.pin = 0 /\ shown' = shown
      BY <1>4, <2>1 DEF TakeChunk
    <3>. QED BY <1>2, <1>4, <2>1, <3>1
  <2>2. CASE requests.pin # 0
    <3>1. stage' = "pin" /\ requests'.pin = 0 /\ shown' = shown
      BY <1>4, <2>2 DEF TakeChunk
    <3>2. asked # 0 /\ (asked <= 1 => seedPin = 0)
      BY <2>2 DEF AskedInv
    <3>3. asked <= 1 => shown.lastSeed \in AirStations \cup {0}
      BY <3>2 DEF AskedInv
    <3>. QED BY <1>4, <3>1, <3>2, <3>3 DEF AskedInv
  <2>. QED BY <2>1, <2>2
<1>5. CASE SetPin /\ asked' = asked
  <2>1. /\ stage = "setPin" /\ stage' = "begin" /\ UNCHANGED <<requests, seedPin>>
        /\ shown' = [shown EXCEPT !.seed = PinnedSeed,
                                  !.lastSeed = IF PinnedSeed = 0 THEN @ ELSE PinnedSeed]
    BY <1>5 DEF SetPin
  <2>2. CASE seedPin > 0
    <3>1. seedPin # 0 /\ ~(seedPin <= 0)
      BY <1>1, <2>2
    <3>2. /\ asked # 0 /\ (asked <= 1 => requests.pin = 0)
          /\ asked' = asked /\ requests' = requests /\ seedPin' = seedPin /\ stage' = "begin"
      BY <1>5, <2>1, <3>1 DEF AskedInv
    <3>. QED BY <3>1, <3>2 DEF AskedInv
  <2>3. CASE ~(seedPin > 0)
    <3>1. PinnedSeed = 0
      <4>1. seedPin # 0 /\ seedPin \in {0, -1}
        BY <1>1, <2>1, <2>3 DEF LInv, StageInv
      <4>. QED BY <4>1 DEF PinnedSeed, SeedPinAuto
    <3>2. shown'.lastSeed = shown.lastSeed
      <4>1. shown' = [shown EXCEPT !.seed = 0, !.lastSeed = shown.lastSeed]
        BY <2>1, <3>1
      <4>. QED BY <4>1 DEF LInv, LoopTypes
    <3>. QED BY <1>2, <1>5, <2>1, <3>2
  <2>. QED BY <2>2, <2>3
<1>6. CASE SeedDetected /\ asked' = asked
  <2>1. stage' = "handle" /\ UNCHANGED <<requests, seedPin>>
    BY <1>6 DEF SeedDetected
  <2>2. \/ shown' = shown
        \/ shown'.lastSeed = result.detected /\ result.detected # 0
    BY <1>6 DEF SeedDetected
  <2>. QED BY <1>1, <1>2, <1>6, <2>1, <2>2
<1>7. ASSUME FinishOpen
      PROVE  shown'.lastSeed = shown.lastSeed
  BY <1>7, FinishOpenNotes
<1>8. CASE (AbandonForPin \/ Watchdog \/ Finish) /\ asked' = asked
  <2>1. /\ UNCHANGED <<requests, seedPin>> /\ (FinishOpen \/ shown' = shown)
        /\ stage' \in {"pin", "setPin"} => stage \in {"pin", "setPin"}
    BY <1>8 DEF AbandonForPin, Watchdog, Finish
  <2>. QED BY <1>2, <1>7, <1>8, <2>1
<1>9. CASE (StartFeed \/ SkipFeed \/ FeedStep \/ EndChunk \/ KeepSignal \/ SourceEnds)
           /\ asked' = asked
  <2>1. /\ UNCHANGED <<requests, seedPin, shown>>
        /\ stage' \notin {"pin", "setPin"}
    BY <1>9 DEF StartFeed, SkipFeed, FeedStep, EndChunk, KeepSignal, SourceEnds
  <2>. QED BY <1>2, <1>9, <2>1
<1>10. CASE (HandleResult \/ LoseSignal \/ Unlock) /\ asked' = asked
  <2>1. /\ UNCHANGED <<requests, seedPin>> /\ stage' \notin {"pin", "setPin"}
        /\ \/ shown' = shown \/ \E a : shown' = [shown EXCEPT !.active = a]
           \/ \E k : shown' = [shown EXCEPT !.seed = k]
    BY <1>10 DEF HandleResult, LoseSignal, Unlock
  <2>2. shown'.lastSeed = shown.lastSeed
    BY <2>1 DEF LInv, LoopTypes
  <2>. QED BY <1>2, <1>10, <2>1, <2>2
<1>. QED BY <1>3, <1>4, <1>5, <1>6, <1>8, <1>9, <1>10 DEF Next, Loop

\* With one station on the air nothing is taken for the move to another one.
LEMMA NotMoved ==
  ASSUME OneStation, OnAirInv, asked <= 1, stage = "seed", result.detected # 0
  PROVE  shown.lastSeed \in {0, result.detected}
<1>1. /\ result.detected \in AirStations
      /\ seedPin \in Stations \cup {0, -1} /\ \A s \in Stations : s \in Nat \ {0}
  BY PinRange DEF OnAirInv, AirInv, LInv, LoopTypes, SeedPinAuto
<1>2. ~(seedPin > 0)
  <2>1. FixedSeed = 0
    BY DEF OnAirInv, LInv, SeedInv
  <2>. QED BY <1>1, <2>1 DEF FixedSeed
<1>3. shown.lastSeed \in AirStations \cup {0}
  <2>1. seedPin <= 0
    BY <1>1, <1>2
  <2>. QED BY <2>1 DEF OnAirInv, AskedInv
<1>. QED BY <1>1, <1>3 DEF OneStation

\* A broadcast that is open is abandoned, and the monitor is told.
LEMMA AbandonedFollow ==
  ASSUME OnAirInv, asked <= 1, stage \notin {"feed", "seed", "handle", "flushed"},
         stage' \notin {"feed", "seed", "handle", "flushed"},
         \/ ResetBroadcast /\ FinishOpen
         \/ UNCHANGED <<decoderVars, shown>>
  PROVE  ActiveInv' /\ StartsInv'
<1>1. Handing = {}
  BY DEF Handing
<1>2. StartsInv'
  BY DEF StartsInv
<1>3. ActiveInv
  BY DEF OnAirInv, FollowInv
<1>4. CASE ResetBroadcast /\ FinishOpen
  <2>1. told'.started = told.started /\ told'.ended = told.ended \cup OpenIds
    BY <1>4, ResetEffects DEF OnAirInv, LInv
  <2>2. /\ shown'.active = shown.active \/ shown'.active = 0
        /\ shown'.active \notin OpenIds
    BY <1>4, FinishOpenNotes DEF OnAirInv
  <2>3. shown'.active # 0 => shown'.active \in told'.started /\ shown'.active \notin told'.ended
    BY <1>1, <1>3, <2>1, <2>2 DEF ActiveInv
  <2>. QED BY <1>2, <2>3 DEF ActiveInv
<1>5. CASE UNCHANGED <<decoderVars, shown>>
  <2>1. told' = told /\ shown' = shown
    BY <1>5 DEF decoderVars
  <2>. QED BY <1>1, <1>2, <1>3, <2>1 DEF ActiveInv
<1>. QED BY <1>4, <1>5

\* Steps that report nothing.
LEMMA QuietFollow ==
  ASSUME OnAirInv, asked <= 1,
         stage \notin {"feed", "seed", "handle", "flushed"},
         told'.started = told.started, told'.ended = told.ended,
         shown'.active \in {shown.active, 0},
         stage' = "feed" => res' = NoResult,
         stage' \in {"seed", "handle", "flushed"} => result' = NoResult
  PROVE  ActiveInv' /\ StartsInv'
<1>1. Handing = {} /\ ActiveInv
  BY DEF Handing, OnAirInv, FollowInv
<1>2. Elements(NoResult.started) = {}
  BY NothingEnds DEF Elements
<1>3. stage' = "feed" => Elements(res'.started) = {}
  BY <1>2
<1>4. stage' \in {"seed", "handle", "flushed"} => Elements(result'.started) = {}
  BY <1>2
<1>5. StartsInv'
  BY <1>3, <1>4 DEF StartsInv
<1>6. ActiveInv'
  BY <1>1 DEF ActiveInv
<1>. QED BY <1>5, <1>6

LEMMA FollowKeeps ==
  ASSUME OneStation, OnAirInv, Next, LInv'
  PROVE  FollowInv'
<1>1. DInv /\ LInv /\ result \in Result /\ asked \in Nat
      /\ told \in Told /\ shown \in [seed : Stations \cup {0}, lastSeed : Stations \cup {0},
                                      active : Nat]
  BY DecoderTypes, PipelineConstants DEF OnAirInv, LInv, LoopTypes, DInv
<1>2. SUFFICES ASSUME asked' <= 1
               PROVE  ActiveInv' /\ StartsInv'
  BY DEF FollowInv
<1>3. asked <= 1
  <2>1. asked' = asked \/ asked' = asked + 1
    BY DEF Next, RequestCFOReset, RequestSeedPin, Ask
  <2>. QED BY <1>1, <1>2, <2>1
<1>4. ActiveInv /\ StartsInv
  BY <1>3 DEF OnAirInv, FollowInv
<1>5. CASE RequestCFOReset \/ \E key \in Pins : RequestSeedPin(key)
  <2>1. UNCHANGED <<decoderVars, stage, shown, result>>
    BY <1>5 DEF RequestCFOReset, RequestSeedPin
  <2>2. told' = told /\ res' = res /\ stage' = stage /\ shown' = shown /\ result' = result
    BY <2>1 DEF decoderVars
  <2>3. EndedIds(result)' = EndedIds(result)
    BY <2>2 DEF EndedIds
  <2>. QED BY <1>4, <2>2, <2>3 DEF ActiveInv, StartsInv, Handing
<1>6. CASE TakeChunk
  <2>1. /\ stage = "wait" /\ stage' \in {"begin", "pin"} /\ shown' = shown /\ told' = told
    BY <1>6 DEF TakeChunk, decoderVars
  <2>. QED BY <1>3, <2>1, QuietFollow
<1>7. CASE AbandonForPin \/ Watchdog \/ Finish
  <2>1. /\ stage \in {"pin", "watchdog", "finish"} /\ stage' \in {"setPin", "wait", "stopped"}
        /\ \/ ResetBroadcast /\ FinishOpen
           \/ UNCHANGED <<decoderVars, shown>>
    BY <1>7 DEF AbandonForPin, Watchdog, Finish
  <2>. QED BY <1>3, <2>1, AbandonedFollow
<1>8. CASE SetPin
  <2>1. stage = "setPin" /\ stage' = "begin" /\ told' = told
    BY <1>8 DEF SetPin, PinSeed, ResetSeed
  <2>2. \E k, l : shown' = [shown EXCEPT !.seed = k, !.lastSeed = l]
    BY <1>8 DEF SetPin
  <2>3. shown'.active = shown.active
    BY <1>1, <2>2
  <2>. QED BY <1>3, <2>1, <2>3, QuietFollow
<1>9. CASE StartFeed
  <2>1. stage = "begin" /\ stage' = "feed" /\ told' = told /\ shown' = shown /\ res' = NoResult
    BY <1>9 DEF StartFeed, BeginFeed
  <2>. QED BY <1>3, <2>1, QuietFollow
<1>10. CASE SkipFeed
  <2>1. /\ stage = "begin" /\ stage' = "seed" /\ told' = told /\ shown' = shown
        /\ result' = NoResult
    BY <1>10 DEF SkipFeed, EmptyFeed
  <2>. QED BY <1>3, <2>1, QuietFollow
<1>11. CASE FeedStep
  <2>1. stage = "feed" /\ stage' = "feed" /\ shown' = shown /\ (Slot \/ Replay)
    BY <1>11 DEF FeedStep
  <2>2. told'.ended = told.ended
    BY <1>1, <2>1, FeedStepEffects
  <2>3. PICK new \in SUBSET OpenIds' :
               /\ Elements(res'.started) = Elements(res.started) \cup new
               /\ told'.started = told.started \cup new
    BY <1>1, <2>1, FeedStepStarts
  <2>4. OpenIds' \cap told'.ended = {}
    BY DEF LInv, DInv, AccountInv, StartsAccounted
  <2>5. new \cap told'.ended = {}
    BY <2>3, <2>4
  <2>6. StartsInv'
    BY <1>4, <2>1, <2>2, <2>3, <2>5 DEF StartsInv
  <2>7. ActiveInv'
    BY <1>4, <2>1, <2>2, <2>3 DEF ActiveInv, Handing
  <2>. QED BY <2>6, <2>7
<1>12. CASE EndChunk
  <2>1. stage = "feed" /\ stage' = "seed" /\ shown' = shown /\ result' = res' /\ EndFeed
    BY <1>12 DEF EndChunk
  <2>2. /\ res'.started = res.started /\ told'.started = told.started
        /\ told'.ended = told.ended \cup EndedIds(res')
    BY <1>1, <2>1, EndFeedEffects
  <2>3. Handing' = EndedIds(res')
    BY <2>1 DEF Handing, EndedIds
  <2>4. Elements(result'.started) = Elements(res.started)
    BY <2>1, <2>2
  <2>5. StartsInv'
    BY <1>4, <2>1, <2>2, <2>3, <2>4 DEF StartsInv
  <2>6. ActiveInv'
    BY <1>4, <2>1, <2>2, <2>3 DEF ActiveInv, Handing
  <2>. QED BY <2>5, <2>6
<1>13. CASE SeedDetected
  <2>1. stage = "seed" /\ stage' = "handle" /\ result' = result
    BY <1>13 DEF SeedDetected
  <2>2. told' = told /\ shown'.active = shown.active
    <3>1. CASE result.detected = 0
      BY <1>13, <3>1 DEF SeedDetected, decoderVars
    <3>2. CASE result.detected # 0
      <4>1. shown.lastSeed \in {0, result.detected}
        BY <1>3, <2>1, <3>2, NotMoved
      <4>. QED BY <1>13, <3>2, <4>1 DEF SeedDetected, decoderVars
    <3>. QED BY <3>1, <3>2
  <2>3. Handing' = Handing
    BY <2>1 DEF Handing, EndedIds
  <2>. QED BY <1>4, <2>1, <2>2, <2>3 DEF ActiveInv, StartsInv
<1>14. CASE HandleResult
  <2>1. /\ stage \in {"handle", "flushed"} /\ stage' \in {"timers", "finish"} /\ told' = told
    BY <1>14 DEF HandleResult, decoderVars
  <2>2. Handing = EndedIds(result)
    BY <2>1 DEF Handing
  <2>3. PICK on : on = IF result.started = <<>> THEN shown.active
                       ELSE result.started[Len(result.started)]
    OBVIOUS
  <2>4. shown' = [shown EXCEPT !.active = IF on \in EndedIds(result) THEN 0 ELSE on]
    BY <1>14, <2>3 DEF HandleResult
  <2>5. on # 0 => on \in told.started /\ (on \in told.ended => on \in EndedIds(result))
    <3>1. CASE result.started = <<>>
      BY <1>4, <2>2, <2>3, <3>1 DEF ActiveInv
    <3>2. CASE result.started # <<>>
      <4>1. on \in Elements(result.started)
        BY <1>1, <2>3, <3>2, ResultIds
      <4>. QED BY <1>4, <2>1, <2>2, <4>1 DEF StartsInv
    <3>. QED BY <3>1, <3>2
  <2>6. shown'.active = IF on \in EndedIds(result) THEN 0 ELSE on
    BY <1>1, <2>4
  <2>7. ActiveInv'
    BY <2>1, <2>5, <2>6 DEF ActiveInv
  <2>. QED BY <2>1, <2>7 DEF StartsInv
<1>15. CASE LoseSignal
  <2>1. stage = "timers" /\ stage' = "unlock" /\ told' = told
    BY <1>15 DEF LoseSignal, SignalLost
  <2>2. shown' = [shown EXCEPT !.active = IF IsOpen(tracker) THEN @ ELSE 0]
    BY <1>15 DEF LoseSignal
  <2>3. shown'.active \in {shown.active, 0}
    BY <1>1, <2>2
  <2>. QED BY <1>3, <2>1, <2>3, QuietFollow
<1>16. CASE Unlock
  <2>1. stage = "unlock" /\ stage' = "watchdog" /\ told' = told
    BY <1>16 DEF Unlock, ResetSeed, decoderVars
  <2>2. shown' = shown \/ shown' = [shown EXCEPT !.seed = 0]
    BY <1>16 DEF Unlock
  <2>3. shown'.active = shown.active
    BY <1>1, <2>2
  <2>. QED BY <1>3, <2>1, <2>3, QuietFollow
<1>17. CASE KeepSignal
  <2>1. stage = "timers" /\ stage' = "watchdog" /\ told' = told /\ shown' = shown
    BY <1>17 DEF KeepSignal, decoderVars
  <2>. QED BY <1>3, <2>1, QuietFollow
<1>18. CASE SourceEnds
  <2>1. stage = "wait" /\ stage' = "flushed" /\ shown' = shown /\ result' = res' /\ Flush
    BY <1>18 DEF SourceEnds
  <2>2. /\ res'.started = <<>> /\ told'.started = told.started
        /\ told'.ended = told.ended \cup EndedIds(res')
    BY <1>1, <2>1, FlushEffects
  <2>3. Handing' = EndedIds(res')
    BY <2>1 DEF Handing, EndedIds
  <2>4. Elements(result'.started) = {}
    BY <2>1, <2>2 DEF Elements
  <2>5. ActiveInv'
    BY <1>4, <2>1, <2>2, <2>3 DEF ActiveInv, Handing
  <2>. QED BY <2>1, <2>4, <2>5 DEF StartsInv
<1>. QED BY <1>5, <1>6, <1>7, <1>8, <1>9, <1>10, <1>11, <1>12, <1>13, <1>14, <1>15, <1>16,
            <1>17, <1>18 DEF Next, Loop

LEMMA OnAirStarts ==
  ASSUME Init
  PROVE  OnAirInv
<1>1. LInv
  BY LoopStarts
<1>2. /\ stage = "wait" /\ held = <<>> /\ res = NoResult /\ result = NoResult
      /\ requests.pin = 0 /\ seedPin = 0 /\ shown.lastSeed = 0 /\ shown.active = 0
  BY DEF Init, DecoderInit
<1>3. AirInv
  <2>1. DOMAIN held = {}
    BY <1>2
  <2>. QED BY <1>2, <2>1, NothingEnds DEF AirInv
<1>4. AskedInv
  BY <1>2 DEF AskedInv
<1>5. FollowInv
  BY <1>2 DEF FollowInv, ActiveInv, StartsInv
<1>. QED BY <1>1, <1>3, <1>4, <1>5 DEF OnAirInv

LEMMA OnAirStands ==
  ASSUME OnAirInv, UNCHANGED vars
  PROVE  OnAirInv'
<1>1. LInv'
  BY LoopStands DEF OnAirInv
<1>2. /\ stage' = stage /\ requests' = requests /\ seedPin' = seedPin /\ shown' = shown
      /\ result' = result /\ asked' = asked /\ held' = held /\ res' = res /\ told' = told
  BY DEF vars, loopVars, decoderVars
<1>3. AirInv' /\ AskedInv'
  BY <1>2 DEF OnAirInv, AirInv, AskedInv
<1>4. Handing' = Handing
  BY <1>2 DEF Handing, EndedIds
<1>5. FollowInv'
  BY <1>2, <1>4 DEF OnAirInv, FollowInv, ActiveInv, StartsInv
<1>. QED BY <1>1, <1>3, <1>5 DEF OnAirInv

\* While one station is on the air, the broadcast the monitor shows is open in
\* the decoder or its end is still held back there (onSeedDetected, applySeedPin,
\* handleResult, resetOnSignalLoss).  With two stations it may not be: the
\* switch to the other abandons the broadcast its first slots have just opened.
THEOREM ActiveFollowed ==
  ASSUME OneStation
  PROVE  Spec => []ActiveIsFollowed
<1>1. Init => OnAirInv
  BY OnAirStarts
<1>2. OnAirInv /\ [Next]_vars => OnAirInv'
  <2>1. ASSUME OnAirInv, Next
        PROVE  OnAirInv'
    <3>1. LInv'
      BY <2>1, LoopSteps DEF OnAirInv
    <3>2. AirInv' /\ AskedInv'
      BY <2>1, AirKeeps, AskedKeeps DEF OnAirInv
    <3>3. FollowInv'
      BY <2>1, <3>1, FollowKeeps
    <3>. QED BY <3>1, <3>2, <3>3 DEF OnAirInv
  <2>. QED BY <2>1, OnAirStands
<1>3. OnAirInv => ActiveIsFollowed
  <2> SUFFICES ASSUME OnAirInv, asked <= 1, stage = "wait", shown.active # 0
               PROVE  shown.active \in OpenIds \cup BacklogIds
    BY DEF ActiveIsFollowed
  <2>1. shown.active \in told.started /\ shown.active \notin told.ended
    BY DEF OnAirInv, FollowInv, ActiveInv, Handing
  <2>2. told.started \subseteq OpenIds \cup BacklogIds \cup told.ended
    BY DEF OnAirInv, LInv, DInv, AccountInv, StartsAccounted
  <2>. QED BY <2>1, <2>2
<1>. QED BY <1>1, <1>2, <1>3, PTL DEF Spec
================================================================================
