------------------------ MODULE VoiceBroadcasts_proofs ------------------------
(***************************************************************************)
(* Proofs about the Run loop of the STD-T115 monitor and its I/Q recorder, *)
(* for every length of the blocks, their overlap, the chunks and the files. *)
(***************************************************************************)
EXTENDS VoiceBroadcasts, FiniteSetTheorems, TLAPS

-----------------------------------------------------------------------------
(* The recorder on its own: every file ends before the next one begins.    *)

\* What the next file begins behind.
Edge(r) == IF r.active THEN r.from ELSE r.ringFrom

FilesOK(r) ==
    /\ Edge(r) <= r.pos
    /\ \A f \in r.files : f.from < f.to /\ f.to <= Edge(r)
    /\ \A f, g \in r.files : f = g \/ f.to <= g.from \/ g.to <= f.from

LEMMA NewRecorderOK == NewRecorder \in Recorder /\ FilesOK(NewRecorder)
BY DEF NewRecorder, Recorder, FilesOK, Edge

\* The file that RecFinish writes.
FileOf(r) == [id |-> r.id, from |-> r.from, to |-> Sooner(r.pos, r.from + RecordMax)]

LEMMA FileOfFacts ==
  ASSUME NEW r \in Recorder
  PROVE  /\ FileOf(r) \in File /\ FileOf(r).id = r.id /\ FileOf(r).from = r.from
         /\ FileOf(r).to <= r.pos
         /\ FileOf(r).to = r.pos \/ (Full(FileOf(r)) /\ FileOf(r).to < r.pos)
         /\ r.from < r.pos => FileOf(r).from < FileOf(r).to
<1> DEFINE to == Sooner(r.pos, r.from + RecordMax)
<1>1. r.id \in Nat /\ r.from \in Nat /\ r.pos \in Nat /\ RecordMax \in Nat \ {0}
  BY RecorderConstants DEF Recorder
<1>2. /\ to \in Nat /\ to <= r.pos
      /\ to = r.pos \/ (to = r.from + RecordMax /\ to < r.pos)
      /\ r.from < r.pos => r.from < to
  BY <1>1 DEF Sooner
<1>. HIDE DEF to
<1>3. FileOf(r) = [id |-> r.id, from |-> r.from, to |-> to]
  BY DEF FileOf, to
<1>. QED BY <1>1, <1>2, <1>3 DEF File, Full

LEMMA RecFinishFacts ==
  ASSUME NEW r \in Recorder, NEW u, u = RecFinish(r)
  PROVE  /\ u \in Recorder
         /\ ~u.active
         /\ u.ringFrom = r.pos /\ u.pos = r.pos
         /\ u.files = IF FileOf(r).from < FileOf(r).to
                      THEN r.files \cup {FileOf(r)} ELSE r.files
<1> DEFINE fs == IF FileOf(r).from < FileOf(r).to
                 THEN r.files \cup {FileOf(r)} ELSE r.files
<1>1. u = [r EXCEPT !.active = FALSE, !.stopAt = 0, !.ringFrom = r.pos,
                    !.files = fs]
  BY DEF RecFinish, FileOf
<1>2. fs \in SUBSET File
  BY FileOfFacts DEF Recorder
<1>. HIDE DEF fs
<1>3. u \in Recorder
  <2>1. ASSUME NEW a \in BOOLEAN, NEW z \in Nat
        PROVE  [r EXCEPT !.active = a, !.stopAt = z, !.ringFrom = r.pos,
                         !.files = fs] \in Recorder
    BY <1>2 DEF Recorder
  <2>. QED BY <1>1, <2>1
<1>4. u.ringFrom = r.pos /\ u.pos = r.pos /\ u.files = fs
  BY <1>1 DEF Recorder
<1>5. ASSUME NEW x, x = [r EXCEPT !.active = FALSE, !.stopAt = 0,
                                 !.ringFrom = r.pos, !.files = fs]
      PROVE  ~x.active
  BY <1>5 DEF Recorder
<1>6. ~u.active
  BY <1>1, <1>5
<1>. QED BY <1>3, <1>4, <1>6 DEF fs

LEMMA RecFinishOK ==
  ASSUME NEW r \in Recorder, FilesOK(r), r.active, NEW u, u = RecFinish(r)
  PROVE  FilesOK(u)
<1> DEFINE file == FileOf(r)
<1>0. file = FileOf(r)
  OBVIOUS
<1>. HIDE DEF file
<1>1. /\ file \in File /\ file.from = r.from /\ file.to <= r.pos
  BY <1>0, FileOfFacts
<1>2. /\ ~u.active /\ u.ringFrom = r.pos /\ u.pos = r.pos
      /\ u.files = IF file.from < file.to THEN r.files \cup {file} ELSE r.files
  BY <1>0, RecFinishFacts
<1>3. /\ r.pos \in Nat /\ r.from \in Nat /\ r.from <= r.pos
      /\ \A f \in r.files : f \in File /\ f.from < f.to /\ f.to <= r.from
  BY DEF FilesOK, Edge, Recorder
<1>4. \A f \in u.files : f \in r.files \/ (f = file /\ file.from < file.to)
  BY <1>2
<1>5. \A f \in u.files : f \in File /\ f.from < f.to /\ f.to <= r.pos
  BY <1>1, <1>3, <1>4 DEF File
<1>6. \A f, g \in u.files : f = g \/ f.to <= g.from \/ g.to <= f.from
  BY <1>1, <1>3, <1>4 DEF FilesOK
<1>. QED BY <1>2, <1>3, <1>5, <1>6 DEF FilesOK, Edge

LEMMA RecFeedCases ==
  ASSUME NEW r \in Recorder, NEW n \in Nat, NEW u, u = RecFeed(r, n)
  PROVE  \E fed \in Recorder :
            /\ fed = [r EXCEPT !.pos = r.pos + n]
            /\ fed.active = r.active /\ fed.id = r.id /\ fed.from = r.from
            /\ fed.stopAt = r.stopAt /\ fed.pos = r.pos + n
            /\ fed.ringFrom = r.ringFrom /\ fed.files = r.files
            /\ \/ u = fed
               \/ fed.active /\ fed.stopAt > 0 /\ u = RecFinish(fed)
<1> DEFINE fed == [r EXCEPT !.pos = r.pos + n]
<1>1. /\ fed \in Recorder
      /\ fed.active = r.active /\ fed.id = r.id /\ fed.from = r.from
      /\ fed.stopAt = r.stopAt /\ fed.pos = r.pos + n
      /\ fed.ringFrom = r.ringFrom /\ fed.files = r.files
  BY DEF Recorder
<1>2. \/ u = fed
      \/ fed.active /\ fed.stopAt > 0 /\ u = RecFinish(fed)
  BY DEF RecFeed
<1>. QED BY <1>1, <1>2

LEMMA RecFeedOK ==
  ASSUME NEW r \in Recorder, FilesOK(r), NEW n \in Nat, NEW u, u = RecFeed(r, n)
  PROVE  u \in Recorder /\ FilesOK(u) /\ u.pos = r.pos + n
<1>1. PICK fed \in Recorder :
         /\ fed.active = r.active /\ fed.id = r.id /\ fed.from = r.from
         /\ fed.stopAt = r.stopAt /\ fed.pos = r.pos + n
         /\ fed.ringFrom = r.ringFrom /\ fed.files = r.files
         /\ \/ u = fed
            \/ fed.active /\ fed.stopAt > 0 /\ u = RecFinish(fed)
  BY RecFeedCases
<1>2. FilesOK(fed)
  <2>1. r.pos \in Nat /\ r.from \in Nat /\ r.ringFrom \in Nat
    BY DEF Recorder
  <2>. QED BY <1>1, <2>1 DEF FilesOK, Edge
<1>3. CASE u = fed
  BY <1>1, <1>2, <1>3
<1>4. CASE fed.active /\ u = RecFinish(fed)
  BY <1>1, <1>2, <1>4, RecFinishFacts, RecFinishOK
<1>. QED BY <1>1, <1>3, <1>4

LEMMA RecStartFacts ==
  ASSUME NEW r \in Recorder, NEW id \in Nat, NEW u, u = RecStart(r, id)
  PROVE  /\ u \in Recorder
         /\ u.active
         /\ u.pos = r.pos /\ u.files = r.files
         /\ r.active => u = r
         /\ ~r.active => /\ u.id = id /\ u.stopAt = 0 /\ u.from = RingStart(r)
<1>1. CASE r.active
  BY <1>1 DEF RecStart
<1>2. CASE ~r.active
  <2> DEFINE from == RingStart(r)
  <2>1. from \in Nat
    BY RecorderConstants DEF RingStart, Later, Recorder
  <2>2. u = [r EXCEPT !.active = TRUE, !.id = id, !.stopAt = 0, !.from = from]
    BY <1>2 DEF RecStart
  <2>. HIDE DEF from
  <2>3. u \in Recorder
    <3>1. ASSUME NEW a \in BOOLEAN, NEW z \in Nat
          PROVE  [r EXCEPT !.active = a, !.id = id, !.stopAt = z, !.from = from]
                   \in Recorder
      BY <2>1 DEF Recorder
    <3>. QED BY <2>2, <3>1
  <2>4. /\ u.pos = r.pos /\ u.files = r.files /\ u.id = id /\ u.stopAt = 0
        /\ u.from = from
    BY <2>2 DEF Recorder
  <2>5. ASSUME NEW x, x = [r EXCEPT !.active = TRUE, !.id = id, !.stopAt = 0,
                                   !.from = from]
        PROVE  x.active
    BY <2>5 DEF Recorder
  <2>6. u.active
    BY <2>2, <2>5
  <2>. QED BY <1>2, <2>3, <2>4, <2>6 DEF from
<1>. QED BY <1>1, <1>2

LEMMA RecStartOK ==
  ASSUME NEW r \in Recorder, FilesOK(r), NEW id \in Nat, NEW u, u = RecStart(r, id)
  PROVE  FilesOK(u)
<1>1. CASE r.active
  BY <1>1, RecStartFacts
<1>2. CASE ~r.active
  <2>1. u.active /\ u.pos = r.pos /\ u.files = r.files /\ u.from = RingStart(r)
    BY <1>2, RecStartFacts
  <2>2. /\ r.pos \in Nat /\ r.ringFrom \in Nat /\ r.ringFrom <= r.pos
        /\ \A f \in r.files : f \in File /\ f.from < f.to /\ f.to <= r.ringFrom
    BY <1>2 DEF FilesOK, Edge, Recorder
  <2>3. RingStart(r) \in Nat /\ r.ringFrom <= RingStart(r) /\ RingStart(r) <= r.pos
    BY <2>2, RecorderConstants DEF RingStart, Later
  <2>4. \A f \in u.files : f.from < f.to /\ f.to <= RingStart(r)
    BY <2>1, <2>2, <2>3 DEF File
  <2>. QED BY <2>1, <2>3, <2>4 DEF FilesOK, Edge
<1>. QED BY <1>1, <1>2

LEMMA RecStopFacts ==
  ASSUME NEW r \in Recorder, NEW u, u = RecStop(r)
  PROVE  /\ u \in Recorder
         /\ u.active <=> r.active
         /\ u.id = r.id /\ u.from = r.from /\ u.pos = r.pos
         /\ u.ringFrom = r.ringFrom /\ u.files = r.files
         /\ r.active /\ 0 < r.pos => u.stopAt > 0
<1>1. CASE ~r.active \/ r.stopAt > 0
  BY <1>1 DEF RecStop
<1>2. CASE ~(~r.active \/ r.stopAt > 0)
  <2> DEFINE at == r.pos + TailLen
  <2>1. at \in Nat /\ (0 < r.pos => at > 0)
    BY RecorderConstants DEF Recorder
  <2>2. u = [r EXCEPT !.stopAt = at]
    BY <1>2 DEF RecStop
  <2>. HIDE DEF at
  <2>3. u \in Recorder
    BY <2>1, <2>2 DEF Recorder
  <2>4. /\ u.id = r.id /\ u.from = r.from /\ u.pos = r.pos /\ u.stopAt = at
        /\ u.ringFrom = r.ringFrom /\ u.files = r.files
    BY <2>2 DEF Recorder
  <2>5. u.active <=> r.active
    BY <2>2 DEF Recorder
  <2>. QED BY <2>1, <2>3, <2>4, <2>5
<1>. QED BY <1>1, <1>2

LEMMA RecStopOK ==
  ASSUME NEW r \in Recorder, FilesOK(r), NEW u, u = RecStop(r)
  PROVE  FilesOK(u)
<1>1. /\ u.active <=> r.active
      /\ u.from = r.from /\ u.pos = r.pos
      /\ u.ringFrom = r.ringFrom /\ u.files = r.files
  BY RecStopFacts
<1>. QED BY <1>1 DEF FilesOK, Edge

-----------------------------------------------------------------------------
(* The inductive invariant.                                                *)

Ids == 1 .. nextBCID - 1

\* Which broadcast is recorded and which is on air: ids are given once, the
\* recording of the broadcast on air is not asked to stop, any other is.
IdsInv ==
    /\ current = None \/ current.id \in Ids
    /\ \A i \in DOMAIN broadcasts :
          broadcasts[i].id \in Ids /\ broadcasts[i].id # current.id
    /\ \A f \in iqr.files : f.id \in Ids /\ f.id # current.id
    /\ iqr.active =>
          /\ iqr.id \in Ids
          /\ iqr.id = current.id => iqr.stopAt = 0
          /\ ~OnAir => iqr.stopAt > 0

\* How far the frames come behind the input.
ClockInv ==
    /\ block <= iqr.pos /\ iqr.pos <= block + Lag /\ iqr.pos <= MaxTime
    /\ pc = "frames" => iqr.pos <= now + ChunkFrames + Lag + Overlap
    /\ pc # "frames" => now = block
    /\ ended => pc # "wait" /\ block = iqr.pos
    /\ pc \in {"end", "close"} => ended
    /\ lastActivity <= block /\ lastActivity <= now + Overlap

\* What is written down lies at most the overlap before the frames to come.
PastInv ==
    /\ OnAir => /\ pc \notin {"record", "done"} /\ 0 < iqr.pos
                /\ current.start <= block /\ current.start <= now + Overlap
                /\ current.start <= lastActivity + Overlap
    /\ \A i \in DOMAIN broadcasts :
          broadcasts[i].stop <= block /\ broadcasts[i].stop <= now + Overlap

TimeInv == ClockInv /\ PastInv

Slack == Overlap + Later(1, Overlap)

OrderInv ==
    /\ \A i \in DOMAIN broadcasts : broadcasts[i].start <= broadcasts[i].stop + Slack
    /\ \A i \in DOMAIN broadcasts \ {1} :
          broadcasts[i - 1].stop <= broadcasts[i].start + Slack
    /\ OnAir /\ broadcasts # <<>> =>
          broadcasts[Len(broadcasts)].stop <= current.start + Slack

\* Voice frames are counted once each: since the time c (the beginning, or as
\* early as a frame can come after the end of a broadcast) there were not more
\* than lie between c and the start of the block, with those seen since then.
Marks == {0} \cup {broadcasts[i].stop - Overlap : i \in DOMAIN broadcasts}
SeenFrom(c) == {t \in seen : t >= c}
Counted(L) == \A c \in Marks : voiceRun <= Later(0, L - c) + Cardinality(SeenFrom(c))
Bounded(L) ==
    /\ L <= now /\ L <= Later(0, block - Overlap)
    /\ \A t \in seen : L <= t /\ t < block /\ t < Later(now, L + Overlap)
RunFrom(L) == Bounded(L) /\ Counted(L)
RunInv == \E L \in Nat : RunFrom(L)

\* The input before x is in a file already, or there is none.
Covered(x) == x = 0 \/ \E g \in iqr.files : g.to = x \/ (Full(g) /\ g.to < x)
Begun(b) == b.id = iqr.id => iqr.from <= Later(0, b.start)
HoldInv ==
    /\ ~iqr.active /\ pc # "done" => Covered(iqr.ringFrom)
    /\ iqr.active => \/ Covered(iqr.from)
                     \/ Begun(current) /\ \A i \in DOMAIN broadcasts : Begun(broadcasts[i])
    /\ FileHoldsBroadcast

\* The superframes that wait to be decoded are of the broadcast on air, or of
\* none, or of one that another call cut off.
Cut == {broadcasts[i].id : i \in
         {j \in DOMAIN broadcasts : broadcasts[j].reason = "otherCall"}}
VoiceInv ==
    failed \/ /\ \A i \in DOMAIN pendSFs : pendSFs[i] \in {0, current.id} \cup Cut
              /\ \A a \in aired : a.of \in {0, a.to} \cup Cut

IInv ==
    /\ TypeOK /\ FilesOK(iqr)
    /\ IdsInv /\ TimeInv /\ OrderInv /\ RunInv /\ HoldInv /\ VoiceInv

-----------------------------------------------------------------------------
(* What the operations of the loop do.                                     *)

LEMMA LaterFacts ==
  ASSUME NEW a \in Int, NEW b \in Int
  PROVE  /\ Later(a, b) \in Int /\ a <= Later(a, b) /\ b <= Later(a, b)
         /\ Later(a, b) = a \/ Later(a, b) = b
BY DEF Later

LEMMA CurrentFacts ==
  ASSUME TypeOK, IdsInv
  PROVE  /\ OnAir => current.id \in Ids /\ current.id # 0
         /\ ~OnAir => current = None /\ current.id = 0
         /\ current.id \in Nat /\ current.id < nextBCID
<1>1. nextBCID \in Nat \ {0} /\ None.id = 0
  BY DEF TypeOK, None
<1>. QED BY <1>1 DEF IdsInv, OnAir, Ids

LEMMA Remainder ==
  ASSUME NEW x \in Nat, NEW y \in Nat \ {0}
  PROVE  x - (x % y) \in 0 .. x
<1>1. x % y \in 0 .. y - 1 /\ (x < y => x % y = x)
  OBVIOUS
<1>. QED BY <1>1

LEMMA RestOfSeq ==
  ASSUME NEW S, NEW s \in Seq(S), NEW k \in 0 .. Len(s),
         NEW u, u = SubSeq(s, k + 1, Len(s))
  PROVE  /\ u \in Seq(S) /\ Len(u) = Len(s) - k
         /\ \A i \in DOMAIN u : i + k \in DOMAIN s /\ u[i] = s[i + k]
<1>1. Len(s) \in Nat /\ k + 1 \in 1 .. Len(s) + 1
  OBVIOUS
<1>. QED BY <1>1

\* What flushAudio leaves of the superframes, and what it puts in files.
LEMMA FlushFacts ==
  ASSUME TypeOK, NEW force \in BOOLEAN, FlushAudio(force)
  PROVE  /\ \E k \in 0 .. Len(pendSFs) : pendSFs' = SubSeq(pendSFs, k + 1, Len(pendSFs))
         /\ \E n \in 0 .. Len(pendSFs) : aired' = aired \cup Decoded(n)
         /\ failed => failed'
         /\ failed' \in BOOLEAN
         /\ force /\ ~failed' => pendSFs' = <<>>
<1> DEFINE len == Len(pendSFs)
           take == IF force THEN len ELSE len - (len % BatchSFs)
<1>1. pendSFs \in Seq(0 .. nextBCID - 1) /\ len \in Nat /\ BatchSFs \in Nat \ {0}
  BY BroadcastConstants DEF TypeOK
<1>2. take \in 0 .. len /\ (force => take = len)
  BY <1>1, Remainder
<1>3. SubSeq(pendSFs, len + 1, len) = <<>>
  BY <1>1
<1>. HIDE DEF take
<1>4. \/ /\ pendSFs' = SubSeq(pendSFs, take + 1, len)
         /\ aired' = aired \cup Decoded(take)
         /\ failed' = failed
      \/ \E n \in 0 .. take - 1 :
            /\ pendSFs' = SubSeq(pendSFs, Sooner(n + BatchSFs, take) + 1, len)
            /\ aired' = aired \cup Decoded(n)
            /\ failed' = TRUE
  BY DEF FlushAudio, take
<1>5. CASE /\ pendSFs' = SubSeq(pendSFs, take + 1, len)
           /\ aired' = aired \cup Decoded(take)
           /\ failed' = failed
  <2>1. failed' \in BOOLEAN /\ (failed => failed')
    BY <1>5 DEF TypeOK
  <2>2. force => pendSFs' = <<>>
    BY <1>2, <1>3, <1>5
  <2>. QED BY <1>2, <1>5, <2>1, <2>2
<1>6. CASE \E n \in 0 .. take - 1 :
              /\ pendSFs' = SubSeq(pendSFs, Sooner(n + BatchSFs, take) + 1, len)
              /\ aired' = aired \cup Decoded(n)
              /\ failed' = TRUE
  <2>1. PICK n \in 0 .. take - 1 :
           /\ pendSFs' = SubSeq(pendSFs, Sooner(n + BatchSFs, take) + 1, len)
           /\ aired' = aired \cup Decoded(n)
           /\ failed' = TRUE
    BY <1>6
  <2>2. Sooner(n + BatchSFs, take) \in 0 .. len /\ n \in 0 .. len
    BY <1>1, <1>2 DEF Sooner
  <2>3. failed' \in BOOLEAN /\ failed'
    BY <2>1
  <2>. QED BY <2>1, <2>2, <2>3
<1>. QED BY <1>4, <1>5, <1>6

LEMMA DecodedType ==
  ASSUME TypeOK, IdsInv, NEW n \in 0 .. Len(pendSFs)
  PROVE  /\ Decoded(n) \in SUBSET [of : Nat, to : Nat]
         /\ \A a \in Decoded(n) : /\ a.to = current.id
                                  /\ \E i \in DOMAIN pendSFs : a.of = pendSFs[i]
<1>1. /\ pendSFs \in Seq(0 .. nextBCID - 1) /\ nextBCID \in Nat \ {0}
      /\ current.id \in Nat
  BY CurrentFacts DEF TypeOK
<1>2. ASSUME NEW i \in 1 .. n
      PROVE  i \in DOMAIN pendSFs /\ pendSFs[i] \in Nat
  BY <1>1
<1>. QED BY <1>1, <1>2, SMTT(30) DEF Decoded

LEMMA FlushType ==
  ASSUME TypeOK, IdsInv, NEW force \in BOOLEAN, FlushAudio(force)
  PROVE  /\ pendSFs' \in Seq(0 .. nextBCID - 1)
         /\ aired' \in SUBSET [of : Nat, to : Nat]
         /\ failed' \in BOOLEAN
<1>1. pendSFs \in Seq(0 .. nextBCID - 1)
  BY DEF TypeOK
<1>2. PICK k \in 0 .. Len(pendSFs) : pendSFs' = SubSeq(pendSFs, k + 1, Len(pendSFs))
  BY FlushFacts
<1>3. pendSFs' \in Seq(0 .. nextBCID - 1)
  BY <1>1, <1>2, RestOfSeq
<1>4. PICK n \in 0 .. Len(pendSFs) : aired' = aired \cup Decoded(n)
  BY FlushFacts
<1>5. aired' \in SUBSET [of : Nat, to : Nat]
  BY <1>4, DecodedType DEF TypeOK
<1>. QED BY <1>3, <1>5, FlushFacts

\* A broadcast is on air or has an end: the two ways closeBroadcast goes.
LEMMA CloseCases ==
  ASSUME NEW at, NEW reason, CloseBroadcast(at, reason)
  PROVE  /\ FlushAudio(TRUE)
         /\ \/ /\ ~OnAir
               /\ UNCHANGED <<broadcasts, current, voiceRun, iqr, saved>>
            \/ /\ OnAir
               /\ broadcasts' = Append(broadcasts, Finished(at, reason))
               /\ current' = None /\ voiceRun' = 0 /\ iqr' = RecStop(iqr)
               /\ saved' = saved \cup {current.id}
BY DEF CloseBroadcast

LEMMA FinishedFacts ==
  ASSUME current \in Broadcast, NEW at \in Int, NEW reason \in Reasons,
         NEW b, b = Finished(at, reason)
  PROVE  /\ b \in Broadcast
         /\ b.id = current.id /\ b.start = current.start
         /\ b.stop = at /\ b.reason = reason
BY DEF Finished, Broadcast

LEMMA OpenCases ==
  ASSUME NEW at, NEW call, NEW mid, OpenBroadcast(at, call, mid)
  PROVE  \/ /\ OnAir
            /\ UNCHANGED <<broadcasts, current, voiceRun, nextBCID, iqr>>
         \/ /\ OnAir => ~mid
            /\ broadcasts' = IF OnAir THEN Append(broadcasts, Finished(at, "otherCall"))
                             ELSE broadcasts
            /\ current' = Opened(at, call, mid)
            /\ nextBCID' = nextBCID + 1
            /\ voiceRun' = 0
            /\ iqr' = RecStart(iqr, nextBCID)
BY DEF OpenBroadcast

LEMMA OpenedFacts ==
  ASSUME nextBCID \in Nat, NEW at \in Int, NEW call \in Nat, NEW mid \in BOOLEAN,
         NEW b, b = Opened(at, call, mid)
  PROVE  b \in Broadcast /\ b.id = nextBCID /\ b.start = at
<1>1. "onAir" \in Reasons /\ 0 \in Int
  BY DEF Reasons
<1>2. b \in Broadcast
  BY <1>1 DEF Opened, Broadcast
<1>. QED BY <1>2 DEF Opened

LEMMA NoneFacts == None \in Broadcast /\ None.id = 0
BY DEF None, Broadcast, Reasons

LEMMA AppendFacts ==
  ASSUME NEW S, NEW s \in Seq(S), NEW x \in S, NEW u, u = Append(s, x)
  PROVE  /\ u \in Seq(S) /\ Len(u) = Len(s) + 1 /\ u[Len(s) + 1] = x
         /\ DOMAIN s = 1 .. Len(s) /\ DOMAIN u = 1 .. Len(s) + 1
         /\ Len(s) \in Nat
         /\ \A i \in DOMAIN s : i \in DOMAIN u /\ u[i] = s[i]
         /\ \A i \in DOMAIN u : i \in DOMAIN s \/ i = Len(s) + 1
OBVIOUS

LEMMA ListTypes ==
  ASSUME TypeOK
  PROVE  /\ DOMAIN broadcasts = 1 .. Len(broadcasts) /\ Len(broadcasts) \in Nat
         /\ \A i \in DOMAIN broadcasts :
               /\ broadcasts[i] \in Broadcast
               /\ broadcasts[i].stop \in Int /\ broadcasts[i].start \in Int
               /\ broadcasts[i].id \in Nat
<1>1. broadcasts \in Seq(Broadcast)
  BY DEF TypeOK
<1>2. \A i \in DOMAIN broadcasts : broadcasts[i] \in Broadcast
  BY <1>1
<1>3. \A b \in Broadcast : b.stop \in Int /\ b.start \in Int /\ b.id \in Nat
  BY DEF Broadcast
<1>. QED BY <1>1, <1>2, <1>3

\* The list after a broadcast is over.
LEMMA ClosedList ==
  ASSUME TypeOK, NEW at \in Int, NEW reason \in Reasons,
         broadcasts' = Append(broadcasts, Finished(at, reason))
  PROVE  /\ broadcasts' \in Seq(Broadcast)
         /\ DOMAIN broadcasts = 1 .. Len(broadcasts) /\ Len(broadcasts) \in Nat
         /\ DOMAIN broadcasts' = 1 .. Len(broadcasts) + 1
         /\ Len(broadcasts') = Len(broadcasts) + 1
         /\ \E b \in Broadcast :
               /\ b.id = current.id /\ b.start = current.start
               /\ b.stop = at /\ b.reason = reason
               /\ broadcasts'[Len(broadcasts) + 1] = b
               /\ \A i \in DOMAIN broadcasts' :
                     \/ i \in DOMAIN broadcasts /\ broadcasts'[i] = broadcasts[i]
                     \/ i = Len(broadcasts) + 1 /\ broadcasts'[i] = b
<1> DEFINE b == Finished(at, reason)
<1>1. /\ b \in Broadcast
      /\ b.id = current.id /\ b.start = current.start
      /\ b.stop = at /\ b.reason = reason
  BY FinishedFacts DEF TypeOK
<1>2. broadcasts \in Seq(Broadcast) /\ broadcasts' = Append(broadcasts, b)
  BY DEF TypeOK
<1>. HIDE DEF b
<1>3. /\ broadcasts' \in Seq(Broadcast)
      /\ DOMAIN broadcasts = 1 .. Len(broadcasts) /\ Len(broadcasts) \in Nat
      /\ DOMAIN broadcasts' = 1 .. Len(broadcasts) + 1
      /\ Len(broadcasts') = Len(broadcasts) + 1
      /\ broadcasts'[Len(broadcasts) + 1] = b
      /\ \A i \in DOMAIN broadcasts : broadcasts'[i] = broadcasts[i]
      /\ \A i \in DOMAIN broadcasts' : i \in DOMAIN broadcasts \/ i = Len(broadcasts) + 1
  BY <1>1, <1>2, AppendFacts
<1>4. \A i \in DOMAIN broadcasts' :
         \/ i \in DOMAIN broadcasts /\ broadcasts'[i] = broadcasts[i]
         \/ i = Len(broadcasts) + 1 /\ broadcasts'[i] = b
  BY <1>3
<1>. QED BY <1>1, <1>3, <1>4

-----------------------------------------------------------------------------
(* The recorder's files.                                                   *)

\* The steps that feed the recorder or end its last recording.
LEMMA FilesKept ==
  ASSUME TypeOK, FilesOK(iqr), [Next]_vars
  PROVE  iqr' \in Recorder /\ FilesOK(iqr')
<1>1. iqr \in Recorder /\ nextBCID \in Nat
  BY DEF TypeOK
<1>2. ASSUME NEW at, NEW reason, CloseBroadcast(at, reason)
      PROVE  iqr' \in Recorder /\ FilesOK(iqr')
  BY <1>1, <1>2, CloseCases, RecStopFacts, RecStopOK
<1>3. ASSUME NEW at, NEW call, NEW mid, OpenBroadcast(at, call, mid)
      PROVE  iqr' \in Recorder /\ FilesOK(iqr')
  BY <1>1, <1>3, OpenCases, RecStartFacts, RecStartOK
<1>4. CASE UNCHANGED iqr
  BY <1>1, <1>4
<1>5. CASE TakeChunk
  BY <1>1, <1>5, RecFeedOK, BroadcastConstants DEF TakeChunk
<1>6. CASE RecordLast
  BY <1>1, <1>6, RecFinishFacts, RecFinishOK DEF RecordLast, RecFlush
<1>7. CASE Disconnect
  BY <1>7, <1>2 DEF Disconnect
<1>8. CASE VoiceFrame
  BY <1>8, <1>3, <1>4 DEF VoiceFrame
<1>9. CASE \E call \in Calls : NotifyStart(call)
  BY <1>9, <1>3 DEF NotifyStart
<1>10. CASE CheckSilence
  BY <1>10, <1>2, <1>4 DEF CheckSilence
<1>11. CASE CheckLimit
  BY <1>11, <1>2, <1>4 DEF CheckLimit
<1>12. CASE CloseLast
  BY <1>12, <1>2 DEF CloseLast
<1>13. CASE NoFrame \/ OtherFrame \/ FramesDone \/ ChunkDone \/ SourceEnds
             \/ FlushLast \/ Stop \/ UNCHANGED vars
  BY <1>13, <1>4
  DEF NoFrame, OtherFrame, FramesDone, ChunkDone, SourceEnds, FlushLast, Stop, vars
<1>. QED BY <1>5, <1>6, <1>7, <1>8, <1>9, <1>10, <1>11, <1>12, <1>13 DEF Next

-----------------------------------------------------------------------------
(* Ids.                                                                    *)

LEMMA CloseKeepsIds ==
  ASSUME TypeOK, IdsInv, OnAir => 0 < iqr.pos,
         NEW at \in Int, NEW reason \in Reasons, CloseBroadcast(at, reason),
         UNCHANGED nextBCID
  PROVE  IdsInv'
<1>1. CASE ~OnAir /\ UNCHANGED <<broadcasts, current, voiceRun, iqr, saved>>
  BY <1>1 DEF IdsInv, Ids, OnAir
<1>2. CASE /\ OnAir
           /\ broadcasts' = Append(broadcasts, Finished(at, reason))
           /\ current' = None /\ voiceRun' = 0 /\ iqr' = RecStop(iqr)
           /\ saved' = saved \cup {current.id}
  <2> DEFINE b == Finished(at, reason)
  <2>1. b \in Broadcast /\ b.id = current.id
    BY FinishedFacts DEF TypeOK
  <2>2. broadcasts \in Seq(Broadcast) /\ iqr \in Recorder
    BY DEF TypeOK
  <2>3. current.id \in Ids /\ Ids' = Ids /\ 0 \notin Ids
    BY <1>2, CurrentFacts DEF Ids
  <2>4. broadcasts' = Append(broadcasts, b)
    BY <1>2
  <2>. HIDE DEF b
  <2>5. /\ DOMAIN broadcasts' = 1 .. Len(broadcasts) + 1
        /\ broadcasts'[Len(broadcasts) + 1] = b
        /\ \A i \in DOMAIN broadcasts' : i \in DOMAIN broadcasts \/ i = Len(broadcasts) + 1
        /\ \A i \in DOMAIN broadcasts : broadcasts'[i] = broadcasts[i]
    BY <2>1, <2>2, <2>4, AppendFacts
  <2>6. /\ iqr'.active <=> iqr.active
        /\ iqr'.id = iqr.id /\ iqr'.files = iqr.files
        /\ iqr.active => iqr'.stopAt > 0
    BY <1>2, <2>2, RecStopFacts
  <2>7. current' = None /\ current'.id = 0
    BY <1>2, NoneFacts
  <2>8. \A i \in DOMAIN broadcasts' :
           broadcasts'[i].id \in Ids' /\ broadcasts'[i].id # current'.id
    BY <2>1, <2>3, <2>5, <2>7 DEF IdsInv
  <2>9. \A f \in iqr'.files : f.id \in Ids' /\ f.id # current'.id
    BY <2>3, <2>6, <2>7 DEF IdsInv
  <2>10. iqr'.active => /\ iqr'.id \in Ids' /\ iqr'.id # current'.id
                        /\ iqr'.stopAt > 0
    BY <2>3, <2>6, <2>7 DEF IdsInv
  <2>. QED BY <2>7, <2>8, <2>9, <2>10 DEF IdsInv
<1>. QED BY <1>1, <1>2, CloseCases

LEMMA OpenKeepsIds ==
  ASSUME TypeOK, IdsInv,
         NEW at \in Int, NEW call \in Nat, NEW mid \in BOOLEAN,
         OpenBroadcast(at, call, mid)
  PROVE  IdsInv'
<1>1. CASE OnAir /\ UNCHANGED <<broadcasts, current, voiceRun, nextBCID, iqr>>
  BY <1>1 DEF IdsInv, Ids, OnAir
<1>2. CASE /\ broadcasts' = IF OnAir THEN Append(broadcasts, Finished(at, "otherCall"))
                            ELSE broadcasts
           /\ current' = Opened(at, call, mid)
           /\ nextBCID' = nextBCID + 1
           /\ voiceRun' = 0
           /\ iqr' = RecStart(iqr, nextBCID)
  <2> DEFINE b == Finished(at, "otherCall")
  <2>1. b \in Broadcast /\ b.id = current.id
    BY FinishedFacts DEF TypeOK, Reasons
  <2>2. broadcasts \in Seq(Broadcast) /\ iqr \in Recorder /\ nextBCID \in Nat \ {0}
    BY DEF TypeOK
  <2>3. /\ Ids \subseteq Ids' /\ nextBCID \in Ids' /\ nextBCID \notin Ids
        /\ OnAir => current.id \in Ids
        /\ nextBCID # 0
    BY <1>2, <2>2, CurrentFacts DEF Ids
  <2>4. current'.id = nextBCID
    BY <1>2, <2>2, OpenedFacts
  <2>4a. current' # None
    BY <2>2, <2>4, NoneFacts
  <2>. HIDE DEF b
  <2>5. \A i \in DOMAIN broadcasts' :
           \/ i \in DOMAIN broadcasts /\ broadcasts'[i] = broadcasts[i]
           \/ OnAir /\ broadcasts'[i] = b
    <3>1. CASE OnAir
      <4>1. broadcasts' = Append(broadcasts, b)
        BY <1>2, <3>1 DEF b
      <4>. QED BY <3>1, <4>1, <2>1, <2>2, AppendFacts
    <3>2. CASE ~OnAir
      BY <1>2, <3>2
    <3>. QED BY <3>1, <3>2
  <2>6. /\ iqr'.active /\ iqr'.files = iqr.files
        /\ iqr.active => iqr' = iqr
        /\ ~iqr.active => iqr'.id = nextBCID /\ iqr'.stopAt = 0
    BY <1>2, <2>2, RecStartFacts
  <2>7. \A i \in DOMAIN broadcasts' :
           broadcasts'[i].id \in Ids' /\ broadcasts'[i].id # current'.id
    BY <2>1, <2>3, <2>4, <2>5 DEF IdsInv
  <2>8. \A f \in iqr'.files : f.id \in Ids' /\ f.id # current'.id
    BY <2>3, <2>4, <2>6 DEF IdsInv
  <2>9. iqr'.id \in Ids' /\ (iqr'.id = current'.id => iqr'.stopAt = 0)
    BY <2>3, <2>4, <2>6 DEF IdsInv
  <2>. QED BY <2>3, <2>4, <2>4a, <2>7, <2>8, <2>9 DEF IdsInv, OnAir
<1>. QED BY <1>1, <1>2, OpenCases

LEMMA FinishKeepsIds ==
  ASSUME TypeOK, IdsInv, UNCHANGED <<broadcasts, current, nextBCID>>,
         NEW r \in Recorder, r.id = iqr.id, r.files = iqr.files,
         iqr.active, iqr.id # current.id, iqr' = RecFinish(r)
  PROVE  IdsInv'
<1>1. FileOf(r).id = iqr.id
  BY FileOfFacts
<1>2. ~iqr'.active /\ iqr'.files \subseteq iqr.files \cup {FileOf(r)}
  BY RecFinishFacts
<1>. QED BY <1>1, <1>2 DEF IdsInv, Ids

LEMMA IdsKept ==
  ASSUME TypeOK, IdsInv, TimeInv, [Next]_vars
  PROVE  IdsInv'
<1>1. iqr \in Recorder /\ now \in Int /\ lastActivity \in Int /\ block \in Int
      /\ iqr.pos \in Int
  BY DEF TypeOK, Recorder
<1>1a. OnAir => 0 < iqr.pos
  BY DEF TimeInv, PastInv
<1>1b. /\ "disconnect" \in Reasons /\ "silence" \in Reasons
       /\ "limit" \in Reasons /\ "end" \in Reasons
  BY DEF Reasons
<1>2. CASE UNCHANGED <<broadcasts, current, nextBCID, iqr>>
  BY <1>2 DEF IdsInv, Ids, OnAir
<1>3. CASE TakeChunk
  <2>1. UNCHANGED <<broadcasts, current, nextBCID>> /\ iqr' = RecFeed(iqr, ChunkFrames)
    BY <1>3 DEF TakeChunk
  <2>2. PICK fed \in Recorder :
           /\ fed.active = iqr.active /\ fed.id = iqr.id
           /\ fed.stopAt = iqr.stopAt /\ fed.files = iqr.files
           /\ \/ iqr' = fed
              \/ fed.active /\ fed.stopAt > 0 /\ iqr' = RecFinish(fed)
    BY <1>1, <2>1, RecFeedCases, BroadcastConstants
  <2>3. CASE iqr' = fed
    BY <2>1, <2>2, <2>3 DEF IdsInv, Ids, OnAir
  <2>4. CASE fed.active /\ fed.stopAt > 0 /\ iqr' = RecFinish(fed)
    <3>1. iqr.active /\ iqr.id # current.id
      BY <2>2, <2>4 DEF IdsInv
    <3>. QED BY <2>1, <2>2, <2>4, <3>1, FinishKeepsIds
  <2>. QED BY <2>2, <2>3, <2>4
<1>4. CASE RecordLast
  <2>1. UNCHANGED <<broadcasts, current, nextBCID>> /\ iqr' = RecFlush(iqr)
    BY <1>4 DEF RecordLast
  <2>2. CASE ~iqr.active
    BY <1>2, <2>1, <2>2 DEF RecFlush
  <2>3. CASE iqr.active
    <3>1. iqr' = RecFinish(iqr)
      BY <2>1, <2>3 DEF RecFlush
    <3>2. pc = "record"
      BY <1>4 DEF RecordLast
    <3>3. ~OnAir
      BY <3>2 DEF TimeInv, PastInv
    <3>4. iqr.id # current.id
      BY <2>3, <3>3, CurrentFacts DEF IdsInv, Ids
    <3>. QED BY <1>1, <2>1, <2>3, <3>1, <3>4, FinishKeepsIds
  <2>. QED BY <2>2, <2>3
<1>5. CASE \E call \in Calls : NotifyStart(call)
  <2>1. PICK call \in Calls : NotifyStart(call)
    BY <1>5
  <2>2. call \in Nat /\ FALSE \in BOOLEAN
    BY BroadcastConstants
  <2>3. OpenBroadcast(now, call, FALSE)
    BY <2>1 DEF NotifyStart
  <2>. QED BY <1>1, <2>2, <2>3, OpenKeepsIds
<1>6. CASE VoiceFrame
  <2>1. now - MidJoinFrames \in Int /\ 0 \in Nat /\ TRUE \in BOOLEAN
    BY <1>1, BroadcastConstants
  <2>2. \/ OpenBroadcast(now - MidJoinFrames, 0, TRUE)
        \/ UNCHANGED <<broadcasts, current, nextBCID, iqr>>
    BY <1>6 DEF VoiceFrame
  <2>. QED BY <1>2, <2>1, <2>2, OpenKeepsIds
<1>7. CASE Disconnect
  <2>1. CloseBroadcast(now, "disconnect") /\ UNCHANGED nextBCID
    BY <1>7 DEF Disconnect
  <2>. QED BY <1>1, <1>1a, <1>1b, <2>1, CloseKeepsIds
<1>8. CASE CheckSilence
  <2>1. UNCHANGED nextBCID
        /\ (CloseBroadcast(lastActivity, "silence") \/ UNCHANGED <<broadcasts, current, iqr>>)
    BY <1>8 DEF CheckSilence
  <2>. QED BY <1>1, <1>1a, <1>1b, <1>2, <2>1, CloseKeepsIds
<1>9. CASE CheckLimit
  <2>1. UNCHANGED nextBCID
        /\ (CloseBroadcast(block, "limit") \/ UNCHANGED <<broadcasts, current, iqr>>)
    BY <1>9 DEF CheckLimit
  <2>. QED BY <1>1, <1>1a, <1>1b, <1>2, <2>1, CloseKeepsIds
<1>10. CASE CloseLast
  <2>1. CloseBroadcast(iqr.pos, "end") /\ UNCHANGED nextBCID
    BY <1>10 DEF CloseLast
  <2>. QED BY <1>1, <1>1a, <1>1b, <2>1, CloseKeepsIds
<1>11. CASE NoFrame \/ OtherFrame \/ FramesDone \/ ChunkDone \/ SourceEnds
             \/ FlushLast \/ Stop \/ UNCHANGED vars
  BY <1>11, <1>2
  DEF NoFrame, OtherFrame, FramesDone, ChunkDone, SourceEnds, FlushLast, Stop, vars
<1>. QED BY <1>3, <1>4, <1>5, <1>6, <1>7, <1>8, <1>9, <1>10, <1>11 DEF Next

-----------------------------------------------------------------------------
(* The run of voice frames.                                                *)

LEMMA CountFacts ==
  ASSUME NEW S \in SUBSET (0 .. MaxTime), NEW c \in Int
  PROVE  /\ IsFiniteSet(S) /\ IsFiniteSet({t \in S : t >= c})
         /\ Cardinality({t \in S : t >= c}) \in Nat
         /\ S \subseteq Int /\ {t \in S : t >= c} \subseteq Int
<1>0. MaxTime \in Int
  BY BroadcastConstants
<1>1. IsFiniteSet(0 .. MaxTime) /\ \A t \in 0 .. MaxTime : t \in Int
  BY <1>0, FS_Interval
<1>2. IsFiniteSet(S)
  BY <1>1, FS_Subset
<1>3. S \subseteq Int
  BY <1>1
<1>4. IsFiniteSet({t \in S : t >= c})
  BY <1>2, FS_Subset
<1>. QED BY <1>2, <1>3, <1>4, FS_CardinalityType

LEMMA SeenFacts ==
  ASSUME TypeOK, NEW c \in Int
  PROVE  /\ IsFiniteSet(seen) /\ IsFiniteSet(SeenFrom(c))
         /\ Cardinality(SeenFrom(c)) \in Nat
         /\ SeenFrom(c) \subseteq Int
<1>1. seen \in SUBSET (0 .. MaxTime)
  BY DEF TypeOK
<1>. QED BY <1>1, CountFacts DEF SeenFrom

\* Between c and hi there are no more frames than the time between them.
LEMMA RunIsShort ==
  ASSUME TypeOK, NEW L \in Nat, RunFrom(L), now \notin seen,
         NEW c \in Int, c \in Marks, c <= now,
         NEW hi \in Int, now < hi, \A t \in seen : t < hi
  PROVE  voiceRun + 1 <= hi - c
<1> DEFINE lo == Later(c, L)
           S == SeenFrom(c) \cup {now}
<1>1. now \in Nat /\ voiceRun \in Nat /\ L <= now /\ lo \in Int
      /\ c <= lo /\ L <= lo /\ (lo = c \/ lo = L)
  BY DEF TypeOK, RunFrom, Bounded, Later
<1>2. /\ IsFiniteSet(SeenFrom(c)) /\ Cardinality(SeenFrom(c)) \in Nat
      /\ now \notin SeenFrom(c)
  BY SeenFacts DEF SeenFrom
<1>3. Cardinality(S) = Cardinality(SeenFrom(c)) + 1
  BY <1>2, FS_AddElement
<1>4. \A t \in S : t \in Int /\ lo <= t /\ t <= hi - 1
  <2>1. ASSUME NEW t \in SeenFrom(c) PROVE t \in Int /\ lo <= t /\ t <= hi - 1
    <3>1. \A x \in seen : L <= x
      BY DEF RunFrom, Bounded
    <3>. QED BY <1>1, <3>1, SeenFacts DEF SeenFrom
  <2>2. now \in Int /\ lo <= now /\ now <= hi - 1
    BY <1>1
  <2>. QED BY <2>1, <2>2
<1>5. S \subseteq lo .. hi - 1
  BY <1>1, <1>4
<1>6. IsFiniteSet(lo .. hi - 1) /\ Cardinality(lo .. hi - 1) = hi - lo
  <2>1. lo \in Int /\ lo <= now /\ hi - 1 \in Int
    BY <1>1
  <2>. HIDE DEF lo
  <2>2. /\ IsFiniteSet(lo .. hi - 1)
        /\ Cardinality(lo .. hi - 1) = IF lo > hi - 1 THEN 0 ELSE hi - 1 - lo + 1
    BY <2>1, FS_Interval
  <2>3. ~(lo > hi - 1) /\ hi - 1 - lo + 1 = hi - lo
    BY <1>1, <2>1
  <2>. QED BY <2>2, <2>3
<1>7. Cardinality(S) <= hi - lo
  BY <1>5, <1>6, FS_Subset
<1>8. voiceRun <= Later(0, L - c) + Cardinality(SeenFrom(c))
  BY DEF RunFrom, Counted
<1>9. Later(0, L - c) + hi - lo = hi - c
  BY <1>1 DEF Later
<1>10. Later(0, L - c) \in Int
  BY DEF Later
<1>. HIDE DEF lo, S
<1>. QED BY <1>1, <1>2, <1>3, <1>7, <1>8, <1>9, <1>10

\* The times before the next block were counted.
LEMMA BlockCounts ==
  ASSUME TypeOK, NEW L \in Nat, NEW M \in Nat, L <= M, NEW c \in Int,
         \A t \in seen : L <= t
  PROVE  Later(0, L - c) + Cardinality(SeenFrom(c))
           <= Later(0, M - c) + Cardinality({t \in SeenFrom(c) : t >= M})
<1> DEFINE lo == Later(c, L)
           K == {t \in SeenFrom(c) : t >= M}
           D == SeenFrom(c) \cap (lo .. M - 1)
<1>1. /\ IsFiniteSet(SeenFrom(c)) /\ Cardinality(SeenFrom(c)) \in Nat
      /\ SeenFrom(c) \subseteq Int
  BY SeenFacts
<1>2. lo \in Int /\ c <= lo /\ L <= lo
  BY DEF Later
<1>3. \A t \in SeenFrom(c) : lo <= t
  BY <1>1, <1>2 DEF SeenFrom, Later
<1>4. SeenFrom(c) = K \cup D /\ K \cap D = {}
  BY <1>1, <1>2, <1>3
<1>5. IsFiniteSet(K) /\ IsFiniteSet(D)
  BY <1>1, FS_Subset
<1>6. Cardinality(K) \in Nat /\ Cardinality(D) \in Nat
  BY <1>5, FS_CardinalityType
<1>7. Cardinality(SeenFrom(c)) = Cardinality(K) + Cardinality(D)
  <2>1. Cardinality(K \cap D) = 0
    BY <1>4, FS_EmptySet
  <2>2. Cardinality(K \cup D)
          = Cardinality(K) + Cardinality(D) - Cardinality(K \cap D)
    BY <1>5, FS_Union
  <2>. HIDE DEF K, D
  <2>3. Cardinality(SeenFrom(c)) = Cardinality(K) + Cardinality(D) - 0
    BY <1>4, <2>1, <2>2
  <2>. QED BY <1>6, <2>3
<1>8. Cardinality(D) <= Later(0, M - lo)
  <2>1. M - 1 \in Int
    OBVIOUS
  <2>2. /\ IsFiniteSet(lo .. M - 1)
        /\ Cardinality(lo .. M - 1) = IF lo > M - 1 THEN 0 ELSE M - 1 - lo + 1
    BY <1>2, <2>1, FS_Interval
  <2>3. Cardinality(lo .. M - 1) = Later(0, M - lo)
    BY <1>2, <2>2 DEF Later
  <2>4. D \in SUBSET (lo .. M - 1)
    OBVIOUS
  <2>. QED BY <2>2, <2>3, <2>4, FS_Subset, ZenonT(40)
<1>9. Later(0, L - c) + Later(0, M - lo) = Later(0, M - c)
  BY DEF Later
<1>10. Later(0, L - c) \in Int /\ Later(0, M - lo) \in Int
  BY <1>2 DEF Later
<1>. HIDE DEF lo, D, K
<1>11. Later(0, L - c) + Cardinality(SeenFrom(c)) <= Later(0, M - c) + Cardinality(K)
  BY <1>6, <1>7, <1>8, <1>9, <1>10
<1>. QED BY <1>11 DEF K

LEMMA MarksFacts ==
  ASSUME TypeOK
  PROVE  /\ 0 \in Marks /\ Marks \subseteq Int
         /\ \A i \in DOMAIN broadcasts : broadcasts[i].stop - Overlap \in Marks
BY ListTypes, BroadcastConstants DEF Marks

LEMMA MarksBefore ==
  ASSUME TypeOK, PastInv
  PROVE  \A c \in Marks : c <= now
<1>1. now \in Nat /\ Overlap \in Nat
  BY BroadcastConstants DEF TypeOK
<1>. QED BY <1>1, ListTypes DEF Marks, PastInv

LEMMA RoomForVoice ==
  ASSUME TypeOK, RunInv, PastInv, NextFrame
  PROVE  voiceRun + 1 <= block
<1>1. PICK L \in Nat : RunFrom(L)
  BY DEF RunInv
<1>2. now \in Nat /\ block \in Nat /\ now < block /\ now \notin seen
  BY DEF NextFrame, TypeOK
<1>3. \A t \in seen : t < block
  BY <1>1 DEF RunFrom, Bounded
<1>4. voiceRun + 1 <= block - 0
  BY <1>1, <1>2, <1>3, MarksFacts, RunIsShort
<1>5. voiceRun \in Nat
  BY DEF TypeOK
<1>. QED BY <1>2, <1>4, <1>5

-----------------------------------------------------------------------------
(* Types.                                                                  *)

LEMMA CloseKeepsTypes ==
  ASSUME TypeOK, IdsInv, NEW at \in Int, NEW reason \in Reasons,
         CloseBroadcast(at, reason), UNCHANGED nextBCID
  PROVE  /\ current' \in Broadcast
         /\ broadcasts' \in Seq(Broadcast)
         /\ voiceRun' \in 0 .. MaxTime
         /\ saved' \in SUBSET (1 .. nextBCID' - 1)
         /\ pendSFs' \in Seq(0 .. nextBCID' - 1)
         /\ aired' \in SUBSET [of : Nat, to : Nat]
         /\ failed' \in BOOLEAN
<1>1. FlushAudio(TRUE)
  BY CloseCases
<1>2. TRUE \in BOOLEAN
  OBVIOUS
<1>3. /\ pendSFs' \in Seq(0 .. nextBCID' - 1)
      /\ aired' \in SUBSET [of : Nat, to : Nat]
      /\ failed' \in BOOLEAN
  BY <1>1, <1>2, FlushType
<1>4. CASE ~OnAir /\ UNCHANGED <<broadcasts, current, voiceRun, iqr, saved>>
  BY <1>3, <1>4 DEF TypeOK
<1>5. CASE /\ OnAir
           /\ broadcasts' = Append(broadcasts, Finished(at, reason))
           /\ current' = None /\ voiceRun' = 0 /\ iqr' = RecStop(iqr)
           /\ saved' = saved \cup {current.id}
  <2>1. current' \in Broadcast
    BY <1>5, NoneFacts
  <2>2. broadcasts' \in Seq(Broadcast)
    BY <1>5, ClosedList
  <2>3. voiceRun' \in 0 .. MaxTime
    BY <1>5, BroadcastConstants
  <2>4. saved' \in SUBSET (1 .. nextBCID' - 1)
    BY <1>5, CurrentFacts DEF TypeOK, Ids
  <2>. QED BY <1>3, <2>1, <2>2, <2>3, <2>4
<1>. QED BY <1>4, <1>5, CloseCases

LEMMA OpenKeepsTypes ==
  ASSUME TypeOK, NEW at \in Int, NEW call \in Nat, NEW mid \in BOOLEAN,
         OpenBroadcast(at, call, mid)
  PROVE  /\ current' \in Broadcast
         /\ broadcasts' \in Seq(Broadcast)
         /\ voiceRun' \in 0 .. MaxTime
         /\ nextBCID' \in Nat \ {0} /\ nextBCID <= nextBCID'
<1>1. nextBCID \in Nat \ {0} /\ broadcasts \in Seq(Broadcast)
  BY DEF TypeOK
<1>2. CASE OnAir /\ UNCHANGED <<broadcasts, current, voiceRun, nextBCID, iqr>>
  BY <1>1, <1>2 DEF TypeOK
<1>3. CASE /\ broadcasts' = IF OnAir THEN Append(broadcasts, Finished(at, "otherCall"))
                            ELSE broadcasts
           /\ current' = Opened(at, call, mid)
           /\ nextBCID' = nextBCID + 1
           /\ voiceRun' = 0
           /\ iqr' = RecStart(iqr, nextBCID)
  <2>1. current' \in Broadcast
    BY <1>1, <1>3, OpenedFacts
  <2>2. broadcasts' \in Seq(Broadcast)
    <3>1. CASE ~OnAir
      BY <1>1, <1>3, <3>1
    <3>2. CASE OnAir
      <4>1. broadcasts' = Append(broadcasts, Finished(at, "otherCall"))
            /\ "otherCall" \in Reasons
        BY <1>3, <3>2 DEF Reasons
      <4>. QED BY <4>1, ClosedList
    <3>. QED BY <3>1, <3>2
  <2>3. voiceRun' \in 0 .. MaxTime
    BY <1>3, BroadcastConstants
  <2>4. nextBCID' \in Nat \ {0} /\ nextBCID <= nextBCID'
    BY <1>1, <1>3
  <2>. QED BY <2>1, <2>2, <2>3, <2>4
<1>. QED BY <1>2, <1>3, OpenCases

LEMMA RangeGrows ==
  ASSUME NEW a \in Int, NEW m \in Int, NEW n \in Int, m <= n
  PROVE  (a .. m - 1) \subseteq (a .. n - 1)
OBVIOUS

LEMMA IdsGrow ==
  ASSUME nextBCID \in Nat, nextBCID' \in Nat, nextBCID <= nextBCID'
  PROVE  /\ (0 .. nextBCID - 1) \subseteq (0 .. nextBCID' - 1)
         /\ (1 .. nextBCID - 1) \subseteq (1 .. nextBCID' - 1)
<1>1. nextBCID \in Int /\ nextBCID' \in Int /\ 0 \in Int /\ 1 \in Int
  OBVIOUS
<1>2. (0 .. nextBCID - 1) \subseteq (0 .. nextBCID' - 1)
  BY <1>1, RangeGrows
<1>3. (1 .. nextBCID - 1) \subseteq (1 .. nextBCID' - 1)
  BY <1>1, RangeGrows
<1>. QED BY <1>2, <1>3

LEMMA SeqGrows ==
  ASSUME NEW S, NEW T, S \subseteq T, NEW s \in Seq(S)
  PROVE  s \in Seq(T)
OBVIOUS

LEMMA FrameTypes ==
  ASSUME TypeOK, NextFrame, Active, UNCHANGED <<pc, block>>
  PROVE  /\ now' \in 0 .. MaxTime /\ block' \in now' .. MaxTime
         /\ seen' \in SUBSET (0 .. MaxTime)
         /\ lastActivity' \in 0 .. MaxTime
<1>1. now \in 0 .. MaxTime /\ block \in now .. MaxTime /\ now < block /\ now' = now + 1
      /\ MaxTime \in Nat /\ block' = block
  BY BroadcastConstants DEF TypeOK, NextFrame
<1>2. now' \in 0 .. MaxTime /\ block' \in now' .. MaxTime
  BY <1>1
<1>3. seen' \in SUBSET (0 .. MaxTime)
  BY <1>1 DEF TypeOK, NextFrame
<1>4. lastActivity' \in 0 .. MaxTime
  BY <1>1 DEF Active
<1>. QED BY <1>2, <1>3, <1>4

LEMMA BlockTypes ==
  ASSUME TypeOK, NEW end \in Nat, Block(end), block <= end, end <= MaxTime
  PROVE  /\ now' \in 0 .. MaxTime /\ block' \in now' .. MaxTime
         /\ seen' \in SUBSET (0 .. MaxTime)
         /\ now' = Later(0, block - Overlap)
         /\ block' = end /\ now' \in Nat /\ now' <= block /\ block <= now' + Overlap
<1>1. /\ block \in 0 .. MaxTime /\ MaxTime \in Nat /\ Overlap \in Nat
  BY BroadcastConstants DEF TypeOK
<1>2. block' = end /\ now' = Later(0, block - Overlap)
  BY DEF Block
<1>3. now' \in Nat /\ now' <= block /\ block <= now' + Overlap
  BY <1>1, <1>2 DEF Later
<1>4. now' \in 0 .. MaxTime /\ block' \in now' .. MaxTime
  BY <1>1, <1>2, <1>3
<1>5. seen' \in SUBSET (0 .. MaxTime)
  BY DEF TypeOK, Block
<1>. QED BY <1>2, <1>3, <1>4, <1>5

LEMMA TypeKept ==
  ASSUME TypeOK, FilesOK(iqr), IdsInv, TimeInv, RunInv, [Next]_vars
  PROVE  TypeOK'
<1>1. /\ iqr \in Recorder /\ now \in Int /\ lastActivity \in Int /\ block \in Int
      /\ iqr.pos \in Nat /\ nextBCID \in Nat \ {0} /\ MaxTime \in Nat
      /\ block <= iqr.pos /\ iqr.pos <= MaxTime
  BY BroadcastConstants DEF TypeOK, Recorder, TimeInv, ClockInv
<1>2. /\ "disconnect" \in Reasons /\ "silence" \in Reasons
      /\ "limit" \in Reasons /\ "end" \in Reasons
  BY DEF Reasons
<1>3. iqr' \in Recorder
  BY FilesKept
<1>4. CASE TakeChunk
  <2>1. PICK end \in Later(block, iqr'.pos - Lag) .. iqr'.pos : Block(end)
    BY <1>4 DEF TakeChunk
  <2>2. iqr'.pos = iqr.pos + ChunkFrames /\ iqr'.pos <= MaxTime
    <3>1. iqr' = RecFeed(iqr, ChunkFrames) /\ iqr.pos + ChunkFrames <= MaxTime
      BY <1>4 DEF TakeChunk
    <3>. QED BY <1>1, <3>1, RecFeedOK, BroadcastConstants
  <2>3. end \in Nat /\ block <= end /\ end <= MaxTime
    <3>1. block \in Nat /\ Lag \in Nat /\ ChunkFrames \in Nat
      BY BroadcastConstants DEF TypeOK
    <3>. QED BY <1>1, <2>1, <2>2, <3>1 DEF Later
  <2>4. /\ now' \in 0 .. MaxTime /\ block' \in now' .. MaxTime
        /\ seen' \in SUBSET (0 .. MaxTime)
    BY <2>1, <2>3, BlockTypes
  <2>. QED BY <1>3, <1>4, <2>4 DEF TakeChunk, TypeOK
<1>5. CASE SourceEnds
  <2>1. Block(iqr.pos)
    BY <1>5 DEF SourceEnds
  <2>2. /\ now' \in 0 .. MaxTime /\ block' \in now' .. MaxTime
        /\ seen' \in SUBSET (0 .. MaxTime)
    BY <1>1, <2>1, BlockTypes
  <2>. QED BY <1>5, <2>2 DEF SourceEnds, TypeOK
<1>6. CASE NoFrame
  BY <1>1, <1>6 DEF NoFrame, TypeOK
<1>7. CASE OtherFrame
  <2>1. NextFrame /\ Active /\ UNCHANGED <<pc, block>>
    BY <1>7 DEF OtherFrame
  <2>2. voiceRun' \in 0 .. MaxTime
    BY <1>1, <1>7 DEF OtherFrame, TypeOK
  <2>. QED BY <1>7, <2>1, <2>2, FrameTypes DEF OtherFrame, TypeOK
<1>8. CASE \E call \in Calls : NotifyStart(call)
  <2>1. PICK call \in Calls : NotifyStart(call)
    BY <1>8
  <2>2. call \in Nat /\ FALSE \in BOOLEAN
    BY BroadcastConstants
  <2>3. OpenBroadcast(now, call, FALSE)
    BY <2>1 DEF NotifyStart
  <2>4. /\ current' \in Broadcast
        /\ broadcasts' \in Seq(Broadcast)
        /\ voiceRun' \in 0 .. MaxTime
        /\ nextBCID' \in Nat \ {0} /\ nextBCID <= nextBCID'
    BY <1>1, <2>2, <2>3, OpenKeepsTypes
  <2>5. NextFrame /\ Active /\ UNCHANGED <<pc, block, ended, pendSFs, saved, aired, failed>>
    BY <2>1 DEF NotifyStart
  <2>5a. /\ (0 .. nextBCID - 1) \subseteq (0 .. nextBCID' - 1)
         /\ (1 .. nextBCID - 1) \subseteq (1 .. nextBCID' - 1)
    BY <1>1, <2>4, IdsGrow
  <2>6. saved' \in SUBSET (1 .. nextBCID' - 1)
    BY <2>5, <2>5a DEF TypeOK
  <2>7. pendSFs' \in Seq(0 .. nextBCID' - 1)
    <3>1. pendSFs \in Seq(0 .. nextBCID - 1)
          /\ (0 .. nextBCID - 1) \subseteq (0 .. nextBCID' - 1)
      <4>1. pendSFs \in Seq(0 .. nextBCID - 1)
        BY DEF TypeOK
      <4>. QED BY <2>5a, <4>1
    <3>. QED BY <2>5, <3>1, SeqGrows
  <2>. QED BY <1>3, <2>4, <2>5, <2>6, <2>7, FrameTypes DEF TypeOK
<1>9. CASE Disconnect
  <2>1. /\ NextFrame /\ Active /\ UNCHANGED <<pc, block, ended, nextBCID>>
        /\ CloseBroadcast(now, "disconnect")
    BY <1>9 DEF Disconnect
  <2>. QED BY <1>1, <1>2, <1>3, <2>1, CloseKeepsTypes, FrameTypes DEF TypeOK
<1>10. CASE VoiceFrame
  <2>1. NextFrame /\ Active /\ UNCHANGED <<pc, block, ended, saved, aired, failed>>
    BY <1>10 DEF VoiceFrame
  <2>2. /\ current' \in Broadcast
        /\ broadcasts' \in Seq(Broadcast)
        /\ voiceRun' \in 0 .. MaxTime
        /\ nextBCID' \in Nat \ {0} /\ nextBCID <= nextBCID'
    <3>1. CASE OpenBroadcast(now - MidJoinFrames, 0, TRUE)
      <4>1. now - MidJoinFrames \in Int /\ 0 \in Nat /\ TRUE \in BOOLEAN
        BY <1>1, BroadcastConstants
      <4>. QED BY <3>1, <4>1, OpenKeepsTypes
    <3>2. CASE voiceRun' = voiceRun + 1
               /\ UNCHANGED <<broadcasts, current, nextBCID, iqr>>
      <4>1. voiceRun + 1 <= block
        BY <2>1, RoomForVoice DEF TimeInv
      <4>2. voiceRun' \in 0 .. MaxTime
        BY <1>1, <3>2, <4>1 DEF TypeOK
      <4>. QED BY <1>1, <3>2, <4>2 DEF TypeOK
    <3>. QED BY <1>10, <3>1, <3>2 DEF VoiceFrame
  <2>3. IdsInv'
    BY IdsKept
  <2>4. current'.id \in 0 .. nextBCID' - 1
    <3>1. None.id = 0 /\ (current' = None \/ current'.id \in 1 .. nextBCID' - 1)
      BY <2>3, NoneFacts DEF IdsInv, Ids
    <3>. QED BY <2>2, <3>1
  <2>5. pendSFs' \in Seq(0 .. nextBCID' - 1)
    <3>1. PICK n \in 0 .. SFsPerFrame : pendSFs' = pendSFs \o [i \in 1 .. n |-> current'.id]
      BY <1>10 DEF VoiceFrame
    <3>2. pendSFs \in Seq(0 .. nextBCID' - 1)
      <4>1. pendSFs \in Seq(0 .. nextBCID - 1)
        BY DEF TypeOK
      <4>2. (0 .. nextBCID - 1) \subseteq (0 .. nextBCID' - 1)
        BY <1>1, <2>2, IdsGrow
      <4>. QED BY <4>1, <4>2, SeqGrows
    <3>3. [i \in 1 .. n |-> current'.id] \in Seq(0 .. nextBCID' - 1)
      <4>1. n \in Nat
        BY BroadcastConstants
      <4>. QED BY <2>4, <4>1
    <3>. QED BY <3>1, <3>2, <3>3
  <2>6. saved' \in SUBSET (1 .. nextBCID' - 1)
    <3>1. (1 .. nextBCID - 1) \subseteq (1 .. nextBCID' - 1)
      BY <1>1, <2>2, IdsGrow
    <3>. QED BY <2>1, <3>1 DEF TypeOK
  <2>. QED BY <1>3, <2>1, <2>2, <2>5, <2>6, FrameTypes DEF TypeOK
<1>11. CASE CheckSilence
  <2>1. CASE CloseBroadcast(lastActivity, "silence")
    BY <1>1, <1>2, <1>3, <1>11, <2>1, CloseKeepsTypes DEF CheckSilence, TypeOK
  <2>2. CASE UNCHANGED <<current, voiceRun, broadcasts, pendSFs, iqr, saved, aired, failed>>
    BY <1>11, <2>2 DEF CheckSilence, TypeOK
  <2>. QED BY <1>11, <2>1, <2>2 DEF CheckSilence
<1>12. CASE CheckLimit
  <2>1. CASE CloseBroadcast(block, "limit")
    BY <1>1, <1>2, <1>3, <1>12, <2>1, CloseKeepsTypes DEF CheckLimit, TypeOK
  <2>2. CASE UNCHANGED <<current, voiceRun, broadcasts, pendSFs, iqr, saved, aired, failed>>
    BY <1>12, <2>2 DEF CheckLimit, TypeOK
  <2>. QED BY <1>12, <2>1, <2>2 DEF CheckLimit
<1>13. CASE ChunkDone
  <2>1. FALSE \in BOOLEAN /\ FlushAudio(FALSE)
    BY <1>13 DEF ChunkDone
  <2>. QED BY <1>13, <2>1, FlushType DEF ChunkDone, TypeOK
<1>14. CASE FlushLast
  <2>1. TRUE \in BOOLEAN /\ FlushAudio(TRUE)
    BY <1>14 DEF FlushLast
  <2>. QED BY <1>14, <2>1, FlushType DEF FlushLast, TypeOK
<1>15. CASE CloseLast
  <2>1. CloseBroadcast(iqr.pos, "end") /\ UNCHANGED nextBCID
    BY <1>15 DEF CloseLast
  <2>. QED BY <1>1, <1>2, <1>3, <1>15, <2>1, CloseKeepsTypes, SMTT(30) DEF CloseLast, TypeOK
<1>16. CASE RecordLast
  BY <1>3, <1>16 DEF RecordLast, TypeOK
<1>17. CASE FramesDone \/ Stop \/ UNCHANGED vars
  BY <1>17 DEF FramesDone, Stop, vars, TypeOK
<1>. QED BY <1>4, <1>5, <1>6, <1>7, <1>8, <1>9, <1>10, <1>11, <1>12, <1>13, <1>14,
            <1>15, <1>16, <1>17 DEF Next

-----------------------------------------------------------------------------
(* Times.                                                                  *)

\* Only input moves the recorder on.
LEMMA PosKept ==
  ASSUME TypeOK, FilesOK(iqr), [Next]_vars
  PROVE  \/ iqr'.pos = iqr.pos
         \/ TakeChunk /\ iqr'.pos = iqr.pos + ChunkFrames
<1>1. iqr \in Recorder /\ nextBCID \in Nat
  BY DEF TypeOK
<1>2. ASSUME NEW at, NEW reason, CloseBroadcast(at, reason)
      PROVE  iqr'.pos = iqr.pos
  BY <1>1, <1>2, CloseCases, RecStopFacts
<1>3. ASSUME NEW at, NEW call, NEW mid, OpenBroadcast(at, call, mid)
      PROVE  iqr'.pos = iqr.pos
  BY <1>1, <1>3, OpenCases, RecStartFacts
<1>4. CASE TakeChunk
  BY <1>1, <1>4, RecFeedOK, BroadcastConstants DEF TakeChunk
<1>5. CASE RecordLast
  BY <1>1, <1>5, RecFinishFacts DEF RecordLast, RecFlush
<1>6. CASE Disconnect
  BY <1>2, <1>6 DEF Disconnect
<1>7. CASE VoiceFrame
  BY <1>3, <1>7 DEF VoiceFrame
<1>8. CASE \E call \in Calls : NotifyStart(call)
  BY <1>3, <1>8 DEF NotifyStart
<1>9. CASE CheckSilence
  BY <1>2, <1>9 DEF CheckSilence
<1>10. CASE CheckLimit
  BY <1>2, <1>10 DEF CheckLimit
<1>11. CASE CloseLast
  BY <1>2, <1>11 DEF CloseLast
<1>12. CASE NoFrame \/ OtherFrame \/ FramesDone \/ ChunkDone \/ SourceEnds
             \/ FlushLast \/ Stop \/ UNCHANGED vars
  BY <1>12
  DEF NoFrame, OtherFrame, FramesDone, ChunkDone, SourceEnds, FlushLast, Stop, vars
<1>. QED BY <1>4, <1>5, <1>6, <1>7, <1>8, <1>9, <1>10, <1>11, <1>12 DEF Next

\* What a step does with the clocks: it handles a frame, begins a block, or
\* leaves them.
Moves ==
    \/ /\ pc = "frames" /\ now < block /\ now' = now + 1
       /\ lastActivity' \in {now, lastActivity}
       /\ UNCHANGED <<pc, block, ended>>
    \/ /\ pc = "wait" /\ pc' = "frames" /\ UNCHANGED <<lastActivity, current, broadcasts>>
       /\ now' = Later(0, block - Overlap) /\ now' <= block /\ block <= block'
       /\ block <= now' + Overlap
       /\ \/ ~ended' /\ block' <= iqr'.pos /\ iqr'.pos <= block' + Lag /\ TakeChunk
          \/ block' = iqr'.pos /\ iqr'.pos = iqr.pos
    \/ /\ now = block /\ pc # "frames" /\ pc' # "frames"
       /\ UNCHANGED <<now, block, lastActivity, ended>>
       /\ pc' = "wait" => ~ended
       /\ pc' \in {"end", "close"} => ended
    \/ /\ now = block /\ pc' = "silence"
       /\ UNCHANGED <<now, block, lastActivity, ended>>
    \/ UNCHANGED vars

LEMMA NextMoves ==
  ASSUME TypeOK, FilesOK(iqr), ClockInv, [Next]_vars
  PROVE  Moves
<1>1. /\ block \in Nat /\ iqr.pos \in Nat /\ MaxTime \in Nat /\ Lag \in Nat
      /\ ChunkFrames \in Nat /\ block <= iqr.pos /\ iqr.pos <= MaxTime
      /\ ended \in BOOLEAN /\ iqr \in Recorder
  BY BroadcastConstants DEF TypeOK, ClockInv, Recorder
<1>2. CASE TakeChunk
  <2>1. PICK end \in Later(block, iqr'.pos - Lag) .. iqr'.pos : Block(end)
    BY <1>2 DEF TakeChunk
  <2>2. iqr'.pos = iqr.pos + ChunkFrames /\ iqr'.pos <= MaxTime
    <3>1. iqr' = RecFeed(iqr, ChunkFrames) /\ iqr.pos + ChunkFrames <= MaxTime
      BY <1>2 DEF TakeChunk
    <3>. QED BY <1>1, <3>1, RecFeedOK
  <2>3. end \in Nat /\ block <= end /\ end <= MaxTime /\ end <= iqr'.pos
        /\ iqr'.pos <= end + Lag
    BY <1>1, <2>1, <2>2 DEF Later
  <2>4. /\ now' = Later(0, block - Overlap) /\ block' = end
        /\ now' <= block /\ block <= now' + Overlap
    BY <2>1, <2>3, BlockTypes
  <2>5. /\ pc = "wait" /\ pc' = "frames" /\ UNCHANGED <<lastActivity, current, broadcasts>>
    BY <1>2 DEF TakeChunk
  <2>6. ~ended'
    <3>1. ended' = ended
      BY <1>2 DEF TakeChunk
    <3>. QED BY <2>5, <3>1 DEF ClockInv
  <2>. QED BY <1>2, <2>3, <2>4, <2>5, <2>6 DEF Moves
<1>3. CASE SourceEnds
  <2>1. /\ Block(iqr.pos) /\ pc = "wait" /\ pc' = "frames" /\ iqr' = iqr
        /\ UNCHANGED <<lastActivity, current, broadcasts>>
    BY <1>3 DEF SourceEnds
  <2>2. /\ now' = Later(0, block - Overlap) /\ block' = iqr.pos
        /\ now' <= block /\ block <= now' + Overlap
    BY <1>1, <2>1, BlockTypes
  <2>. QED BY <1>1, <2>1, <2>2 DEF Moves
<1>4. CASE NoFrame
  BY <1>4 DEF NoFrame, Moves
<1>5. CASE OtherFrame \/ Disconnect \/ VoiceFrame
           \/ \E call \in Calls : NotifyStart(call)
  <2>1. NextFrame /\ Active /\ UNCHANGED <<pc, block, ended>>
    BY <1>5 DEF OtherFrame, Disconnect, VoiceFrame, NotifyStart
  <2>. QED BY <2>1 DEF NextFrame, Active, Moves
<1>6. CASE FramesDone
  BY <1>6 DEF FramesDone, Moves
<1>7. CASE CheckSilence \/ CheckLimit
  <2>1. /\ pc \in {"silence", "limit"} /\ pc' \in {"limit", "flush"}
        /\ UNCHANGED <<now, block, lastActivity, ended>>
    BY <1>7 DEF CheckSilence, CheckLimit
  <2>. QED BY <2>1 DEF ClockInv, Moves
<1>8. CASE ChunkDone
  <2>1. /\ pc = "flush" /\ pc' = (IF ended THEN "end" ELSE "wait")
        /\ UNCHANGED <<now, block, lastActivity, ended>>
    BY <1>8 DEF ChunkDone
  <2>2. now = block
    BY <2>1 DEF ClockInv
  <2>3. CASE ended
    BY <2>1, <2>2, <2>3 DEF Moves
  <2>4. CASE ~ended
    BY <2>1, <2>2, <2>4 DEF Moves
  <2>. QED BY <2>3, <2>4
<1>9. CASE FlushLast \/ CloseLast \/ RecordLast \/ Stop
  <2>1. /\ pc \in {"end", "close", "record", "wait"}
        /\ pc' \in {"close", "record", "done", "stopped"}
        /\ pc' = "close" => pc = "end"
        /\ UNCHANGED <<now, block, lastActivity, ended>>
    BY <1>9 DEF FlushLast, CloseLast, RecordLast, Stop
  <2>. QED BY <2>1 DEF ClockInv, Moves
<1>10. CASE UNCHANGED vars
  BY <1>10 DEF Moves
<1>. QED BY <1>2, <1>3, <1>4, <1>5, <1>6, <1>7, <1>8, <1>9, <1>10 DEF Next

LEMMA ClockKept ==
  ASSUME TypeOK, TypeOK', FilesOK(iqr), ClockInv, [Next]_vars
  PROVE  ClockInv'
<1>1. /\ now \in Nat /\ block \in Nat /\ now <= block /\ Overlap \in Nat
      /\ iqr.pos \in Nat /\ lastActivity \in Nat /\ ChunkFrames \in Nat
      /\ Lag \in Nat /\ MaxTime \in Nat
  BY BroadcastConstants DEF TypeOK, Recorder
<1>2. Moves
  BY NextMoves
<1>3. iqr'.pos = iqr.pos \/ (iqr'.pos = iqr.pos + ChunkFrames /\ TakeChunk)
  BY PosKept
<1>4. TakeChunk => iqr.pos + ChunkFrames <= MaxTime /\ pc = "wait"
  BY DEF TakeChunk
<1>5. CASE /\ pc = "frames" /\ now < block /\ now' = now + 1
           /\ lastActivity' \in {now, lastActivity}
           /\ UNCHANGED <<pc, block, ended>>
  BY <1>1, <1>3, <1>4, <1>5 DEF ClockInv
<1>6. CASE /\ pc = "wait" /\ pc' = "frames" /\ UNCHANGED <<lastActivity, current, broadcasts>>
           /\ now' = Later(0, block - Overlap) /\ now' <= block /\ block <= block'
           /\ block <= now' + Overlap
           /\ \/ ~ended' /\ block' <= iqr'.pos /\ iqr'.pos <= block' + Lag /\ TakeChunk
              \/ block' = iqr'.pos /\ iqr'.pos = iqr.pos
  <2>1. now' \in Int /\ block' \in Int
    BY DEF TypeOK
  <2>. QED BY <1>1, <1>3, <1>4, <1>6, <2>1 DEF ClockInv
<1>7. CASE /\ now = block /\ pc # "frames" /\ pc' # "frames"
           /\ UNCHANGED <<now, block, lastActivity, ended>>
           /\ pc' = "wait" => ~ended
           /\ pc' \in {"end", "close"} => ended
  BY <1>1, <1>3, <1>4, <1>7 DEF ClockInv, TakeChunk
<1>8. CASE /\ now = block /\ pc' = "silence"
           /\ UNCHANGED <<now, block, lastActivity, ended>>
  BY <1>1, <1>3, <1>4, <1>8 DEF ClockInv, TakeChunk
<1>9. CASE UNCHANGED vars
  BY <1>9 DEF ClockInv, vars
<1>. QED BY <1>2, <1>5, <1>6, <1>7, <1>8, <1>9 DEF Moves

LEMMA CloseKeepsTimes ==
  ASSUME TypeOK, NEW at \in Int, NEW reason \in Reasons, CloseBroadcast(at, reason),
         at <= block, at <= now + Overlap,
         \A i \in DOMAIN broadcasts :
            broadcasts[i].stop <= block /\ broadcasts[i].stop <= now + Overlap
  PROVE  /\ iqr'.pos = iqr.pos
         /\ ~OnAir'
         /\ \A i \in DOMAIN broadcasts' :
               broadcasts'[i].stop <= block /\ broadcasts'[i].stop <= now + Overlap
<1>1. CASE ~OnAir /\ UNCHANGED <<broadcasts, current, voiceRun, iqr, saved>>
  BY <1>1 DEF OnAir
<1>2. CASE /\ OnAir
           /\ broadcasts' = Append(broadcasts, Finished(at, reason))
           /\ current' = None /\ voiceRun' = 0 /\ iqr' = RecStop(iqr)
           /\ saved' = saved \cup {current.id}
  <2>1. iqr'.pos = iqr.pos
    BY <1>2, RecStopFacts DEF TypeOK
  <2>2. ~OnAir'
    BY <1>2 DEF OnAir
  <2>3. \A i \in DOMAIN broadcasts' :
           broadcasts'[i].stop <= block /\ broadcasts'[i].stop <= now + Overlap
    BY <1>2, ClosedList
  <2>. QED BY <2>1, <2>2, <2>3
<1>. QED BY <1>1, <1>2, CloseCases

LEMMA OpenKeepsTimes ==
  ASSUME TypeOK, ClockInv, PastInv, pc = "frames", now < block,
         NEW at \in Int, NEW call \in Nat, NEW mid \in BOOLEAN,
         OpenBroadcast(at, call, mid), at <= now
  PROVE  /\ iqr'.pos = iqr.pos
         /\ OnAir' => /\ 0 < iqr.pos /\ current'.start <= block
                      /\ current'.start <= now + Overlap
         /\ \A i \in DOMAIN broadcasts' :
               broadcasts'[i].stop <= block /\ broadcasts'[i].stop <= now + Overlap
<1>1. /\ now \in Nat /\ block \in Nat /\ Overlap \in Nat /\ iqr.pos \in Nat
      /\ block <= iqr.pos /\ nextBCID \in Nat
  BY BroadcastConstants DEF TypeOK, ClockInv, Recorder
<1>2. CASE OnAir /\ UNCHANGED <<broadcasts, current, voiceRun, nextBCID, iqr>>
  BY <1>2 DEF PastInv, OnAir
<1>3. CASE /\ broadcasts' = IF OnAir THEN Append(broadcasts, Finished(at, "otherCall"))
                            ELSE broadcasts
           /\ current' = Opened(at, call, mid)
           /\ nextBCID' = nextBCID + 1
           /\ voiceRun' = 0
           /\ iqr' = RecStart(iqr, nextBCID)
  <2>1. iqr'.pos = iqr.pos
    BY <1>1, <1>3, RecStartFacts DEF TypeOK
  <2>2. current'.start = at
    BY <1>1, <1>3, OpenedFacts
  <2>3. \A i \in DOMAIN broadcasts' :
           broadcasts'[i].stop <= block /\ broadcasts'[i].stop <= now + Overlap
    <3>1. CASE ~OnAir
      BY <1>3, <3>1 DEF PastInv
    <3>2. CASE OnAir
      <4>1. broadcasts' = Append(broadcasts, Finished(at, "otherCall"))
            /\ "otherCall" \in Reasons
        BY <1>3, <3>2 DEF Reasons
      <4>2. at <= block /\ at <= now + Overlap
        BY <1>1
      <4>. QED BY <4>1, <4>2, ClosedList DEF PastInv
    <3>. QED BY <3>1, <3>2
  <2>. QED BY <1>1, <2>1, <2>2, <2>3
<1>. QED BY <1>2, <1>3, OpenCases

LEMMA PastStays ==
  ASSUME TypeOK, TypeOK', ClockInv, PastInv, Moves, UNCHANGED <<current, broadcasts>>,
         iqr.pos <= iqr'.pos, pc' \in {"record", "done"} => pc \in {"record", "done"}
  PROVE  PastInv'
<1>1. /\ now \in Nat /\ block \in Nat /\ now <= block /\ Overlap \in Nat
      /\ iqr.pos \in Nat /\ iqr'.pos \in Nat /\ lastActivity \in Nat
      /\ lastActivity' \in Nat /\ now' \in Nat /\ block' \in Nat
      /\ current.start \in Int
  BY BroadcastConstants DEF TypeOK, Recorder, Broadcast
<1>2. /\ block <= block'
      /\ now <= now' \/ block <= now' + Overlap
      /\ lastActivity' = lastActivity \/ lastActivity' = now
  <2>1. \/ block' = block /\ now' = now + 1 /\ lastActivity' \in {now, lastActivity}
        \/ block <= block' /\ block <= now' + Overlap /\ lastActivity' = lastActivity
        \/ block' = block /\ now' = now /\ lastActivity' = lastActivity
    BY DEF Moves, vars
  <2>2. CASE block' = block /\ now' = now + 1 /\ lastActivity' \in {now, lastActivity}
    BY <1>1, <2>2
  <2>3. CASE block <= block' /\ block <= now' + Overlap /\ lastActivity' = lastActivity
    BY <2>3
  <2>4. CASE block' = block /\ now' = now /\ lastActivity' = lastActivity
    BY <1>1, <2>4
  <2>. QED BY <2>1, <2>2, <2>3, <2>4
<1>3. OnAir' <=> OnAir
  BY DEF OnAir
<1>4. OnAir' => /\ pc' \notin {"record", "done"} /\ 0 < iqr'.pos
                /\ current'.start <= block' /\ current'.start <= now' + Overlap
                /\ current'.start <= lastActivity' + Overlap
  BY <1>1, <1>2, <1>3 DEF PastInv
<1>5. \A i \in DOMAIN broadcasts' :
         broadcasts'[i].stop <= block' /\ broadcasts'[i].stop <= now' + Overlap
  <2>1. ASSUME NEW i \in DOMAIN broadcasts
        PROVE  /\ broadcasts[i].stop <= block'
               /\ broadcasts[i].stop <= now' + Overlap
    <3>1. /\ broadcasts[i].stop \in Int
          /\ broadcasts[i].stop <= block /\ broadcasts[i].stop <= now + Overlap
      BY <2>1, ListTypes DEF PastInv
    <3>2. broadcasts[i].stop <= block'
      BY <1>1, <1>2, <3>1
    <3>3. PICK n \in Nat : n = now'
      BY <1>1
    <3>4. now <= n \/ block <= n + Overlap
      BY <1>2, <3>3
    <3>5. broadcasts[i].stop <= n + Overlap
      BY <1>1, <3>1, <3>4
    <3>. QED BY <3>2, <3>3, <3>5
  <2>. QED BY <2>1
<1>. QED BY <1>4, <1>5 DEF PastInv

LEMMA PastAfterClose ==
  ASSUME TypeOK, TypeOK', PastInv, block' = block, now <= now',
         NEW at \in Int, NEW reason \in Reasons, CloseBroadcast(at, reason),
         at <= block, at <= now + Overlap
  PROVE  PastInv'
<1>1. /\ now \in Nat /\ block \in Nat /\ Overlap \in Nat /\ now' \in Nat
  BY BroadcastConstants DEF TypeOK
<1>2. ~OnAir'
  BY CloseKeepsTimes DEF PastInv
<1>3. \A i \in DOMAIN broadcasts' :
         broadcasts'[i].stop <= block /\ broadcasts'[i].stop <= now + Overlap
  BY CloseKeepsTimes DEF PastInv
<1>4. \A i \in DOMAIN broadcasts' : broadcasts'[i].stop \in Int
  <2>1. broadcasts' \in Seq(Broadcast) /\ \A b \in Broadcast : b.stop \in Int
    BY DEF TypeOK, Broadcast
  <2>. QED BY <2>1
<1>5. \A i \in DOMAIN broadcasts' :
         broadcasts'[i].stop <= block' /\ broadcasts'[i].stop <= now' + Overlap
  BY <1>1, <1>3, <1>4
<1>. QED BY <1>2, <1>5 DEF PastInv

LEMMA PastAfterOpen ==
  ASSUME TypeOK, TypeOK', ClockInv, PastInv, NextFrame, Active, UNCHANGED <<pc, block>>,
         NEW at \in Int, NEW call \in Nat, NEW mid \in BOOLEAN,
         OpenBroadcast(at, call, mid), at <= now
  PROVE  PastInv'
<1>1. /\ now \in Nat /\ block \in Nat /\ Overlap \in Nat /\ now' = now + 1
      /\ now < block /\ pc = "frames" /\ lastActivity' = now
  BY BroadcastConstants DEF TypeOK, NextFrame, Active
<1>2. /\ iqr'.pos = iqr.pos
      /\ OnAir' => /\ 0 < iqr.pos /\ current'.start <= block
                   /\ current'.start <= now + Overlap
      /\ \A i \in DOMAIN broadcasts' :
            broadcasts'[i].stop <= block /\ broadcasts'[i].stop <= now + Overlap
  BY <1>1, OpenKeepsTimes
<1>3. \A i \in DOMAIN broadcasts' : broadcasts'[i].stop \in Int
  <2>1. broadcasts' \in Seq(Broadcast) /\ \A b \in Broadcast : b.stop \in Int
    BY DEF TypeOK, Broadcast
  <2>. QED BY <2>1
<1>4. current'.start \in Int
  BY DEF TypeOK, Broadcast
<1>5. OnAir' => /\ pc' \notin {"record", "done"} /\ 0 < iqr'.pos
                /\ current'.start <= block' /\ current'.start <= now' + Overlap
                /\ current'.start <= lastActivity' + Overlap
  BY <1>1, <1>2, <1>4
<1>6. \A i \in DOMAIN broadcasts' :
         broadcasts'[i].stop <= block' /\ broadcasts'[i].stop <= now' + Overlap
  BY <1>1, <1>2, <1>3
<1>. QED BY <1>5, <1>6 DEF PastInv

LEMMA PastKept ==
  ASSUME TypeOK, TypeOK', FilesOK(iqr), ClockInv, PastInv, [Next]_vars
  PROVE  PastInv'
<1>1. /\ now \in Nat /\ block \in Nat /\ now <= block /\ Overlap \in Nat
      /\ iqr.pos \in Nat /\ lastActivity \in Nat /\ MidJoinFrames \in Nat
      /\ lastActivity <= block /\ lastActivity <= now + Overlap
      /\ ChunkFrames \in Nat
  BY BroadcastConstants DEF TypeOK, Recorder, ClockInv
<1>2. /\ "disconnect" \in Reasons /\ "silence" \in Reasons
      /\ "limit" \in Reasons /\ "end" \in Reasons
  BY DEF Reasons
<1>3. Moves /\ iqr.pos <= iqr'.pos
  BY <1>1, NextMoves, PosKept
<1>4. ASSUME UNCHANGED <<current, broadcasts>>,
             pc' \in {"record", "done"} => pc \in {"record", "done"}
      PROVE  PastInv'
  BY <1>3, <1>4, PastStays
<1>5. CASE \E call \in Calls : NotifyStart(call)
  <2>1. PICK call \in Calls : NotifyStart(call)
    BY <1>5
  <2>2. call \in Nat /\ FALSE \in BOOLEAN /\ now \in Int /\ now <= now
    BY <1>1, BroadcastConstants
  <2>3. /\ OpenBroadcast(now, call, FALSE)
        /\ NextFrame /\ Active /\ UNCHANGED <<pc, block>>
    BY <2>1 DEF NotifyStart
  <2>. QED BY <2>2, <2>3, PastAfterOpen
<1>6. CASE VoiceFrame
  <2>1. NextFrame /\ Active /\ UNCHANGED <<pc, block>>
    BY <1>6 DEF VoiceFrame
  <2>2. CASE OpenBroadcast(now - MidJoinFrames, 0, TRUE)
    <3>1. /\ now - MidJoinFrames \in Int /\ now - MidJoinFrames <= now
          /\ 0 \in Nat /\ TRUE \in BOOLEAN
      BY <1>1
    <3>. QED BY <2>1, <2>2, <3>1, PastAfterOpen
  <2>3. CASE UNCHANGED <<broadcasts, current>>
    <3>1. pc' \in {"record", "done"} => pc \in {"record", "done"}
      BY <2>1
    <3>. QED BY <1>4, <2>3, <3>1
  <2>. QED BY <1>6, <2>2, <2>3 DEF VoiceFrame
<1>7. CASE Disconnect
  <2>1. CloseBroadcast(now, "disconnect") /\ block' = block /\ now' = now + 1
    BY <1>7 DEF Disconnect, NextFrame
  <2>2. now \in Int /\ now <= now' /\ now <= now + Overlap
    BY <1>1, <2>1
  <2>. QED BY <1>1, <1>2, <2>1, <2>2, PastAfterClose
<1>8. CASE CheckSilence
  <2>1. UNCHANGED <<now, block>> /\ pc' = "limit"
    BY <1>8 DEF CheckSilence
  <2>2. CASE CloseBroadcast(lastActivity, "silence")
    <3>1. now <= now' /\ lastActivity \in Int
      BY <1>1, <2>1
    <3>. QED BY <1>1, <1>2, <2>1, <2>2, <3>1, PastAfterClose
  <2>3. CASE UNCHANGED <<broadcasts, current>>
    BY <1>4, <2>1, <2>3
  <2>. QED BY <1>8, <2>2, <2>3 DEF CheckSilence
<1>9. CASE CheckLimit
  <2>1. UNCHANGED <<now, block>> /\ pc = "limit" /\ pc' = "flush"
    BY <1>9 DEF CheckLimit
  <2>2. CASE CloseBroadcast(block, "limit")
    <3>1. now = block
      BY <2>1 DEF ClockInv
    <3>2. now <= now' /\ block \in Int /\ block <= block /\ block <= now + Overlap
      BY <1>1, <2>1, <3>1
    <3>. QED BY <1>2, <2>1, <2>2, <3>2, PastAfterClose
  <2>3. CASE UNCHANGED <<broadcasts, current>>
    BY <1>4, <2>1, <2>3
  <2>. QED BY <1>9, <2>2, <2>3 DEF CheckLimit
<1>10. CASE CloseLast
  <2>1. UNCHANGED <<now, block>> /\ pc = "close" /\ CloseBroadcast(iqr.pos, "end")
    BY <1>10 DEF CloseLast
  <2>2. now = block /\ iqr.pos = block
    BY <2>1 DEF ClockInv
  <2>3. now <= now' /\ iqr.pos \in Int /\ iqr.pos <= block /\ iqr.pos <= now + Overlap
    BY <1>1, <2>1, <2>2
  <2>. QED BY <1>2, <2>1, <2>3, PastAfterClose
<1>11. CASE RecordLast
  <2>1. pc = "record" /\ UNCHANGED <<current, broadcasts>>
    BY <1>11 DEF RecordLast
  <2>. QED BY <1>4, <2>1
<1>12. CASE TakeChunk \/ NoFrame \/ OtherFrame \/ FramesDone \/ ChunkDone \/ SourceEnds
             \/ FlushLast \/ Stop \/ UNCHANGED vars
  <2>1. /\ UNCHANGED <<current, broadcasts>>
        /\ pc' = pc \/ pc' \in {"frames", "silence", "end", "wait", "close", "stopped"}
    BY <1>12 DEF TakeChunk, NoFrame, OtherFrame, NextFrame, FramesDone, ChunkDone,
                 SourceEnds, FlushLast, Stop, vars
  <2>. QED BY <1>4, <2>1
<1>. QED BY <1>5, <1>6, <1>7, <1>8, <1>9, <1>10, <1>11, <1>12 DEF Next

-----------------------------------------------------------------------------
(* The run of voice frames, step by step.                                  *)

LEMMA CountedZero ==
  ASSUME TypeOK', voiceRun' = 0, NEW L \in Nat
  PROVE  Counted(L)'
<1>1. Marks' \subseteq Int
  <2>1. broadcasts' \in Seq(Broadcast) /\ \A b \in Broadcast : b.stop \in Int
    BY DEF TypeOK, Broadcast
  <2>. QED BY <2>1, BroadcastConstants DEF Marks
<1>2. ASSUME NEW c \in Marks'
      PROVE  0 <= Later(0, L - c) + Cardinality(SeenFrom(c)')
  <2>1. c \in Int /\ seen' \in SUBSET (0 .. MaxTime)
    BY <1>1, <1>2 DEF TypeOK
  <2>2. Cardinality(SeenFrom(c)') \in Nat
    BY <2>1, CountFacts DEF SeenFrom
  <2>3. Later(0, L - c) \in Nat
    BY <2>1 DEF Later
  <2>. QED BY <2>2, <2>3
<1>. QED BY <1>2 DEF Counted

LEMMA CountedStays ==
  ASSUME TypeOK, TypeOK', NEW L \in Nat, Counted(L), UNCHANGED broadcasts,
         seen \subseteq seen', voiceRun' \in {voiceRun, 0}
  PROVE  Counted(L)'
<1>1. CASE voiceRun' = 0
  BY <1>1, CountedZero
<1>2. CASE voiceRun' = voiceRun
  <2>1. ASSUME NEW c \in Marks
        PROVE  voiceRun <= Later(0, L - c) + Cardinality(SeenFrom(c)')
    <3>0. c \in Int
      BY <2>1, MarksFacts
    <3>1. c \in Int /\ seen' \in SUBSET (0 .. MaxTime) /\ voiceRun \in Nat
      BY <3>0 DEF TypeOK
    <3>2. Cardinality(SeenFrom(c)) \in Nat /\ Cardinality(SeenFrom(c)') \in Nat
          /\ IsFiniteSet(SeenFrom(c)')
      BY <3>1, SeenFacts, CountFacts DEF SeenFrom
    <3>3. SeenFrom(c) \in SUBSET (SeenFrom(c)')
      BY DEF SeenFrom
    <3>4. Cardinality(SeenFrom(c)) <= Cardinality(SeenFrom(c)')
      BY <3>2, <3>3, FS_Subset
    <3>5. Later(0, L - c) \in Nat
      BY <3>1 DEF Later
    <3>6. voiceRun <= Later(0, L - c) + Cardinality(SeenFrom(c))
      BY <2>1 DEF Counted
    <3>. QED BY <3>1, <3>2, <3>4, <3>5, <3>6
  <2>2. Marks' = Marks
    BY DEF Marks
  <2>. QED BY <1>2, <2>1, <2>2 DEF Counted
<1>. QED BY <1>1, <1>2

LEMMA CountedMore ==
  ASSUME TypeOK, PastInv, NEW L \in Nat, Counted(L), UNCHANGED broadcasts,
         now \notin seen, seen' = seen \cup {now}, voiceRun' = voiceRun + 1
  PROVE  Counted(L)'
<1>1. ASSUME NEW c \in Marks
      PROVE  voiceRun + 1 <= Later(0, L - c) + Cardinality(SeenFrom(c)')
  <2>1. c \in Int /\ c <= now /\ voiceRun \in Nat /\ now \in Nat
    BY <1>1, MarksFacts, MarksBefore DEF TypeOK
  <2>2. /\ IsFiniteSet(SeenFrom(c)) /\ Cardinality(SeenFrom(c)) \in Nat
        /\ now \notin SeenFrom(c)
    BY <2>1, SeenFacts DEF SeenFrom
  <2>3. SeenFrom(c)' = SeenFrom(c) \cup {now}
    BY <2>1 DEF SeenFrom
  <2>4. Cardinality(SeenFrom(c)') = Cardinality(SeenFrom(c)) + 1
    BY <2>2, <2>3, FS_AddElement
  <2>5. Later(0, L - c) \in Nat
    BY <2>1 DEF Later
  <2>6. voiceRun <= Later(0, L - c) + Cardinality(SeenFrom(c))
    BY <1>1 DEF Counted
  <2>. QED BY <2>1, <2>2, <2>4, <2>5, <2>6
<1>2. Marks' = Marks
  BY DEF Marks
<1>. QED BY <1>1, <1>2 DEF Counted

LEMMA CountedInBlock ==
  ASSUME TypeOK, NEW L \in Nat, RunFrom(L), UNCHANGED <<broadcasts, voiceRun>>,
         NEW M \in Nat, L <= M, seen' = {t \in seen : t >= M}
  PROVE  Counted(M)'
<1>1. ASSUME NEW c \in Marks
      PROVE  voiceRun <= Later(0, M - c) + Cardinality(SeenFrom(c)')
  <2>0. c \in Int
    BY <1>1, MarksFacts
  <2>0a. seen \in SUBSET (0 .. MaxTime) /\ voiceRun \in Nat
    BY DEF TypeOK
  <2>0b. seen' \in SUBSET (0 .. MaxTime)
    BY <2>0a
  <2>1. c \in Int /\ voiceRun \in Nat /\ seen' \in SUBSET (0 .. MaxTime)
    BY <2>0, <2>0a, <2>0b
  <2>2. SeenFrom(c)' = {t \in SeenFrom(c) : t >= M}
    BY DEF SeenFrom
  <2>3. Later(0, L - c) + Cardinality(SeenFrom(c))
          <= Later(0, M - c) + Cardinality(SeenFrom(c)')
    BY <2>1, <2>2, BlockCounts DEF RunFrom, Bounded
  <2>4. Cardinality(SeenFrom(c)) \in Nat /\ Cardinality(SeenFrom(c)') \in Nat
    BY <2>1, SeenFacts, CountFacts DEF SeenFrom
  <2>5. Later(0, L - c) \in Nat /\ Later(0, M - c) \in Nat
    BY <2>1 DEF Later
  <2>6. voiceRun <= Later(0, L - c) + Cardinality(SeenFrom(c))
    BY <1>1 DEF RunFrom, Counted
  <2>. QED BY <2>1, <2>3, <2>4, <2>5, <2>6
<1>2. Marks' = Marks
  BY DEF Marks
<1>. QED BY <1>1, <1>2 DEF Counted

\* A frame, found or not.
LEMMA BoundedByFrame ==
  ASSUME TypeOK, NEW L \in Nat, Bounded(L), now < block, now' = now + 1,
         UNCHANGED block, seen' \in {seen, seen \cup {now}}
  PROVE  Bounded(L)'
<1>1. now \in Nat /\ block \in Nat /\ Overlap \in Nat /\ seen \subseteq Int
  <2>1. \A t \in 0 .. MaxTime : t \in Int
    BY BroadcastConstants
  <2>. QED BY <2>1, BroadcastConstants DEF TypeOK
<1>2. L <= now + 1 /\ L <= Later(0, block - Overlap)
  BY <1>1 DEF Bounded
<1>3. ASSUME NEW t \in seen'
      PROVE  L <= t /\ t < block /\ t < Later(now + 1, L + Overlap)
  BY <1>1, <1>3 DEF Bounded, Later
<1>. QED BY <1>2, <1>3 DEF Bounded

LEMMA BoundedInBlock ==
  ASSUME TypeOK, NEW L \in Nat, Bounded(L), now = block, NEW end \in Nat, Block(end),
         block <= end, NEW M \in Nat, M = Later(0, block - Overlap)
  PROVE  L <= M /\ Bounded(M)'
<1>1. now \in Nat /\ block \in Nat /\ Overlap \in Nat /\ seen \subseteq Int
  <2>1. \A t \in 0 .. MaxTime : t \in Int
    BY BroadcastConstants
  <2>. QED BY <2>1, BroadcastConstants DEF TypeOK
<1>2. now' = M /\ block' = end /\ seen' = {t \in seen : t >= M}
  BY DEF Block
<1>3. M <= Later(0, end - Overlap)
  BY <1>1 DEF Later
<1>4. ASSUME NEW t \in seen, t >= M
      PROVE  M <= t /\ t < end /\ t < Later(M, M + Overlap)
  BY <1>1, <1>4 DEF Bounded, Later
<1>. QED BY <1>2, <1>3, <1>4 DEF Bounded

LEMMA CountedAround ==
  ASSUME TypeOK, TypeOK', NEW L \in Nat, Counted(L), seen \subseteq seen',
         voiceRun' = 0 \/ UNCHANGED <<voiceRun, broadcasts>>
  PROVE  Counted(L)'
<1>1. CASE voiceRun' = 0
  BY <1>1, CountedZero
<1>2. CASE UNCHANGED <<voiceRun, broadcasts>>
  <2>1. voiceRun' \in {voiceRun, 0} /\ UNCHANGED broadcasts
    BY <1>2
  <2>. QED BY <2>1, CountedStays
<1>. QED BY <1>1, <1>2

LEMMA CloseCounts ==
  ASSUME NEW at, NEW reason, CloseBroadcast(at, reason)
  PROVE  voiceRun' = 0 \/ UNCHANGED <<voiceRun, broadcasts>>
BY CloseCases

LEMMA OpenCounts ==
  ASSUME NEW at, NEW call, NEW mid, OpenBroadcast(at, call, mid)
  PROVE  voiceRun' = 0 \/ UNCHANGED <<voiceRun, broadcasts>>
BY OpenCases

LEMMA RunKept ==
  ASSUME TypeOK, TypeOK', FilesOK(iqr), ClockInv, PastInv, RunInv, [Next]_vars
  PROVE  RunInv'
<1>1. PICK L \in Nat : RunFrom(L)
  BY DEF RunInv
<1>2. Bounded(L) /\ Counted(L)
  BY <1>1 DEF RunFrom
<1>3. SUFFICES \E M \in Nat : Bounded(M)' /\ Counted(M)'
  BY DEF RunInv, RunFrom
<1>4. /\ block \in Nat /\ iqr.pos \in Nat /\ Overlap \in Nat /\ Lag \in Nat
      /\ ChunkFrames \in Nat /\ block <= iqr.pos /\ iqr \in Recorder
  BY BroadcastConstants DEF TypeOK, ClockInv, Recorder
<1>5. ASSUME NEW end \in Nat, Block(end), block <= end, now = block,
             UNCHANGED <<broadcasts, voiceRun>>
      PROVE  \E M \in Nat : Bounded(M)' /\ Counted(M)'
  <2>0. Later(0, block - Overlap) \in Nat
    BY <1>4 DEF Later
  <2>1. PICK M \in Nat : M = Later(0, block - Overlap)
    BY <2>0
  <2>2. L <= M /\ Bounded(M)'
    BY <1>2, <1>5, <2>1, BoundedInBlock
  <2>3. seen' = {t \in seen : t >= M}
    BY <1>5, <2>1 DEF Block
  <2>4. Counted(M)'
    BY <1>1, <1>5, <2>2, <2>3, CountedInBlock
  <2>. QED BY <2>2, <2>4
<1>6. ASSUME NextFrame, UNCHANGED block
      PROVE  Bounded(L)' /\ seen \subseteq seen'
  BY <1>2, <1>6, BoundedByFrame DEF NextFrame
<1>7. ASSUME UNCHANGED <<now, block, seen>>
      PROVE  Bounded(L)' /\ seen \subseteq seen'
  BY <1>2, <1>7 DEF Bounded
<1>8. CASE TakeChunk
  <2>1. /\ pc = "wait" /\ iqr' = RecFeed(iqr, ChunkFrames)
        /\ UNCHANGED <<broadcasts, voiceRun>>
    BY <1>8 DEF TakeChunk
  <2>2. PICK end \in Later(block, iqr'.pos - Lag) .. iqr'.pos : Block(end)
    BY <1>8 DEF TakeChunk
  <2>3. iqr'.pos = iqr.pos + ChunkFrames
    BY <1>4, <2>1, RecFeedOK
  <2>4. end \in Nat /\ block <= end
    BY <1>4, <2>2, <2>3 DEF Later
  <2>5. now = block
    BY <2>1 DEF ClockInv
  <2>. QED BY <1>5, <2>1, <2>2, <2>4, <2>5
<1>9. CASE SourceEnds
  <2>1. pc = "wait" /\ Block(iqr.pos) /\ UNCHANGED <<broadcasts, voiceRun>>
    BY <1>9 DEF SourceEnds
  <2>2. now = block
    BY <2>1 DEF ClockInv
  <2>. QED BY <1>4, <1>5, <2>1, <2>2
<1>10. CASE NoFrame
  <2>1. now < block /\ now' = now + 1 /\ UNCHANGED <<block, seen, voiceRun, broadcasts>>
    BY <1>10 DEF NoFrame
  <2>. QED BY <1>2, <2>1, BoundedByFrame, CountedAround
<1>11. CASE OtherFrame
  <2>1. NextFrame /\ UNCHANGED <<block, broadcasts>> /\ voiceRun' \in {voiceRun, 0}
    BY <1>11 DEF OtherFrame
  <2>. QED BY <1>2, <1>6, <2>1, CountedStays
<1>12. CASE \E call \in Calls : NotifyStart(call)
  <2>1. PICK call \in Calls : NotifyStart(call)
    BY <1>12
  <2>2. NextFrame /\ UNCHANGED block /\ OpenBroadcast(now, call, FALSE)
    BY <2>1 DEF NotifyStart
  <2>. QED BY <1>2, <1>6, <2>2, OpenCounts, CountedAround
<1>13. CASE Disconnect
  <2>1. NextFrame /\ UNCHANGED block /\ CloseBroadcast(now, "disconnect")
    BY <1>13 DEF Disconnect
  <2>. QED BY <1>2, <1>6, <2>1, CloseCounts, CountedAround
<1>14. CASE VoiceFrame
  <2>1. NextFrame /\ UNCHANGED block
    BY <1>14 DEF VoiceFrame
  <2>2. CASE OpenBroadcast(now - MidJoinFrames, 0, TRUE)
    BY <1>2, <1>6, <2>1, <2>2, OpenCounts, CountedAround
  <2>3. CASE voiceRun' = voiceRun + 1 /\ UNCHANGED broadcasts
    <3>1. now \notin seen /\ seen' = seen \cup {now}
      BY <2>1 DEF NextFrame
    <3>. QED BY <1>2, <1>6, <2>1, <2>3, <3>1, CountedMore
  <2>. QED BY <1>14, <2>2, <2>3 DEF VoiceFrame
<1>15. CASE CheckSilence
  <2>1. /\ UNCHANGED <<now, block, seen>>
        /\ CloseBroadcast(lastActivity, "silence") \/ UNCHANGED <<voiceRun, broadcasts>>
    BY <1>15 DEF CheckSilence
  <2>. QED BY <1>2, <1>7, <2>1, CloseCounts, CountedAround
<1>16. CASE CheckLimit
  <2>1. /\ UNCHANGED <<now, block, seen>>
        /\ CloseBroadcast(block, "limit") \/ UNCHANGED <<voiceRun, broadcasts>>
    BY <1>16 DEF CheckLimit
  <2>. QED BY <1>2, <1>7, <2>1, CloseCounts, CountedAround
<1>17. CASE CloseLast
  <2>1. UNCHANGED <<now, block, seen>> /\ CloseBroadcast(iqr.pos, "end")
    BY <1>17 DEF CloseLast
  <2>. QED BY <1>2, <1>7, <2>1, CloseCounts, CountedAround
<1>18. CASE FramesDone \/ ChunkDone \/ FlushLast \/ RecordLast \/ Stop \/ UNCHANGED vars
  <2>1. UNCHANGED <<now, block, seen, voiceRun, broadcasts>>
    BY <1>18 DEF FramesDone, ChunkDone, FlushLast, RecordLast, Stop, vars
  <2>. QED BY <1>2, <1>7, <2>1, CountedAround
<1>. QED BY <1>8, <1>9, <1>10, <1>11, <1>12, <1>13, <1>14, <1>15, <1>16, <1>17, <1>18
         DEF Next

-----------------------------------------------------------------------------
(* The order of the broadcasts.                                            *)

\* A late join is not put before the end of an earlier broadcast.
LEMMA LateJoin ==
  ASSUME TypeOK, PastInv, RunInv, NextFrame, voiceRun + 1 >= MidJoinFrames,
         NEW i \in DOMAIN broadcasts
  PROVE  broadcasts[i].stop <= now - MidJoinFrames + Slack
<1>1. PICK L \in Nat : RunFrom(L)
  BY DEF RunInv
<1> DEFINE c == broadcasts[i].stop - Overlap
           hi == Later(now + 1, L + Overlap)
<1>2. /\ now \in Nat /\ Overlap \in Nat /\ MidJoinFrames \in Nat /\ voiceRun \in Nat
      /\ broadcasts[i].stop \in Int /\ L <= now /\ now \notin seen
  BY <1>1, ListTypes, BroadcastConstants DEF TypeOK, RunFrom, Bounded, NextFrame
<1>3. c \in Int /\ c \in Marks /\ c <= now
  BY <1>2, MarksFacts, MarksBefore
<1>4. hi \in Int /\ now < hi /\ hi <= now + Later(1, Overlap)
  BY <1>2 DEF Later
<1>5. \A t \in seen : t < hi
  <2>1. seen \subseteq Int
    <3>1. \A t \in 0 .. MaxTime : t \in Int
      BY BroadcastConstants
    <3>. QED BY <3>1 DEF TypeOK
  <2>2. \A t \in seen : t < Later(now, L + Overlap)
    BY <1>1 DEF RunFrom, Bounded
  <2>. QED BY <1>2, <2>1, <2>2 DEF Later
<1>. HIDE DEF hi
<1>6. voiceRun + 1 <= hi - c
  BY <1>1, <1>2, <1>3, <1>4, <1>5, RunIsShort
<1>7. Later(1, Overlap) \in Int
  BY <1>2 DEF Later
<1>. QED BY <1>2, <1>4, <1>6, <1>7 DEF Slack

\* The end written down lies at most the overlap before the start.
LEMMA CloseKeepsOrder ==
  ASSUME TypeOK, OrderInv, NEW at \in Int, NEW reason \in Reasons,
         broadcasts' = Append(broadcasts, Finished(at, reason)),
         OnAir, current.start <= at + Slack
  PROVE  /\ \A i \in DOMAIN broadcasts' : broadcasts'[i].start <= broadcasts'[i].stop + Slack
         /\ \A i \in DOMAIN broadcasts' \ {1} :
               broadcasts'[i - 1].stop <= broadcasts'[i].start + Slack
         /\ broadcasts' # <<>> /\ broadcasts'[Len(broadcasts')].stop = at
<1> DEFINE n == Len(broadcasts)
<1>1. PICK b \in Broadcast :
         /\ b.start = current.start /\ b.stop = at
         /\ broadcasts'[n + 1] = b
         /\ \A i \in DOMAIN broadcasts' :
               \/ i \in DOMAIN broadcasts /\ broadcasts'[i] = broadcasts[i]
               \/ i = n + 1 /\ broadcasts'[i] = b
  BY ClosedList
<1>2. /\ broadcasts' \in Seq(Broadcast)
      /\ DOMAIN broadcasts = 1 .. n /\ n \in Nat
      /\ DOMAIN broadcasts' = 1 .. n + 1
      /\ Len(broadcasts') = n + 1
  BY ClosedList
<1>. HIDE DEF n
<1>3. \A i \in DOMAIN broadcasts' : broadcasts'[i].start <= broadcasts'[i].stop + Slack
  <2>1. ASSUME NEW i \in DOMAIN broadcasts'
        PROVE  broadcasts'[i].start <= broadcasts'[i].stop + Slack
    <3>1. CASE i \in DOMAIN broadcasts /\ broadcasts'[i] = broadcasts[i]
      BY <3>1 DEF OrderInv
    <3>2. CASE broadcasts'[i] = b
      BY <1>1, <3>2
    <3>. QED BY <1>1, <2>1, <3>1, <3>2
  <2>. QED BY <2>1
<1>4. ASSUME NEW i \in DOMAIN broadcasts' \ {1}
      PROVE  broadcasts'[i - 1].stop <= broadcasts'[i].start + Slack
  <2>1. i - 1 \in DOMAIN broadcasts /\ i - 1 \in DOMAIN broadcasts'
        /\ broadcasts'[i - 1] = broadcasts[i - 1]
    <3>1. i - 1 \in 1 .. n
      BY <1>2, <1>4
    <3>2. i - 1 \in DOMAIN broadcasts' /\ i - 1 # n + 1
      BY <1>2, <3>1
    <3>. QED BY <1>1, <1>2, <3>1, <3>2
  <2>2. CASE i \in DOMAIN broadcasts /\ broadcasts'[i] = broadcasts[i]
    BY <1>4, <2>1, <2>2 DEF OrderInv
  <2>3. CASE i = n + 1 /\ broadcasts'[i] = b
    <3>1. broadcasts # <<>> /\ i - 1 = Len(broadcasts)
      BY <1>2, <1>4, <2>3 DEF n
    <3>. QED BY <1>1, <2>1, <2>3, <3>1 DEF OrderInv
  <2>. QED BY <1>1, <1>4, <2>2, <2>3
<1>5. broadcasts' # <<>> /\ broadcasts'[Len(broadcasts')].stop = at
  BY <1>1, <1>2
<1>. QED BY <1>3, <1>4, <1>5

LEMMA CloseOrder ==
  ASSUME TypeOK, OrderInv, NEW at \in Int, NEW reason \in Reasons,
         CloseBroadcast(at, reason), OnAir => current.start <= at + Slack
  PROVE  OrderInv'
<1>1. CASE ~OnAir /\ UNCHANGED <<broadcasts, current, voiceRun, iqr, saved>>
  BY <1>1 DEF OrderInv, OnAir
<1>2. CASE /\ OnAir
           /\ broadcasts' = Append(broadcasts, Finished(at, reason))
           /\ current' = None /\ voiceRun' = 0 /\ iqr' = RecStop(iqr)
           /\ saved' = saved \cup {current.id}
  <2>1. ~OnAir'
    BY <1>2 DEF OnAir
  <2>. QED BY <1>2, <2>1, CloseKeepsOrder DEF OrderInv
<1>. QED BY <1>1, <1>2, CloseCases

\* A broadcast begins where every earlier one is over, but for the slack.
LEMMA OpenOrder ==
  ASSUME TypeOK, PastInv, OrderInv, NEW at \in Int, NEW call \in Nat, NEW mid \in BOOLEAN,
         OpenBroadcast(at, call, mid),
         \A i \in DOMAIN broadcasts : broadcasts[i].stop <= at + Slack,
         ~mid => now <= at
  PROVE  OrderInv'
<1>1. /\ now \in Nat /\ Overlap \in Nat /\ nextBCID \in Nat /\ current.start \in Int
      /\ Slack \in Nat /\ Overlap <= Slack
  BY BroadcastConstants DEF TypeOK, Broadcast, Slack, Later
<1>2. CASE OnAir /\ UNCHANGED <<broadcasts, current, voiceRun, nextBCID, iqr>>
  BY <1>2 DEF OrderInv, OnAir
<1>3. CASE /\ OnAir => ~mid
           /\ broadcasts' = IF OnAir THEN Append(broadcasts, Finished(at, "otherCall"))
                            ELSE broadcasts
           /\ current' = Opened(at, call, mid)
           /\ nextBCID' = nextBCID + 1
           /\ voiceRun' = 0
           /\ iqr' = RecStart(iqr, nextBCID)
  <2>1. current'.start = at
    BY <1>1, <1>3, OpenedFacts
  <2>2. CASE OnAir
    <3>1. broadcasts' = Append(broadcasts, Finished(at, "otherCall"))
          /\ "otherCall" \in Reasons /\ ~mid
      BY <1>3, <2>2 DEF Reasons
    <3>2. current.start <= at + Slack
      BY <1>1, <2>2, <3>1 DEF PastInv
    <3>3. /\ \A i \in DOMAIN broadcasts' :
                broadcasts'[i].start <= broadcasts'[i].stop + Slack
          /\ \A i \in DOMAIN broadcasts' \ {1} :
                broadcasts'[i - 1].stop <= broadcasts'[i].start + Slack
          /\ broadcasts' # <<>> /\ broadcasts'[Len(broadcasts')].stop = at
      BY <2>2, <3>1, <3>2, CloseKeepsOrder
    <3>4. at <= at + Slack
      BY <1>1
    <3>. QED BY <2>1, <3>3, <3>4 DEF OrderInv
  <2>3. CASE ~OnAir
    <3>1. broadcasts' = broadcasts
      BY <1>3, <2>3
    <3>2. broadcasts # <<>> => Len(broadcasts) \in DOMAIN broadcasts
      <4>1. broadcasts \in Seq(Broadcast)
        BY DEF TypeOK
      <4>. QED BY <4>1
    <3>3. broadcasts # <<>> => broadcasts[Len(broadcasts)].stop <= at + Slack
      BY <3>2
    <3>4. /\ \A i \in DOMAIN broadcasts' :
                broadcasts'[i].start <= broadcasts'[i].stop + Slack
          /\ \A i \in DOMAIN broadcasts' \ {1} :
                broadcasts'[i - 1].stop <= broadcasts'[i].start + Slack
      BY <3>1 DEF OrderInv
    <3>. QED BY <2>1, <3>1, <3>3, <3>4 DEF OrderInv
  <2>. QED BY <2>2, <2>3
<1>. QED BY <1>2, <1>3, OpenCases

LEMMA OrderKept ==
  ASSUME TypeOK, ClockInv, PastInv, RunInv, OrderInv, [Next]_vars
  PROVE  OrderInv'
<1>1. /\ now \in Nat /\ block \in Nat /\ Overlap \in Nat /\ iqr.pos \in Nat
      /\ Slack \in Nat /\ Overlap <= Slack /\ MidJoinFrames \in Nat
      /\ current.start \in Int /\ lastActivity \in Nat /\ block <= iqr.pos
  BY BroadcastConstants DEF TypeOK, Recorder, Broadcast, ClockInv, Slack, Later
<1>2. /\ "disconnect" \in Reasons /\ "silence" \in Reasons
      /\ "limit" \in Reasons /\ "end" \in Reasons
  BY DEF Reasons
<1>3. CASE UNCHANGED <<broadcasts, current>>
  BY <1>3 DEF OrderInv, OnAir
<1>4. CASE \E call \in Calls : NotifyStart(call)
  <2>1. PICK call \in Calls : NotifyStart(call)
    BY <1>4
  <2>2. call \in Nat /\ FALSE \in BOOLEAN /\ now \in Int /\ now <= now
    BY <1>1, BroadcastConstants
  <2>3. OpenBroadcast(now, call, FALSE)
    BY <2>1 DEF NotifyStart
  <2>4. \A i \in DOMAIN broadcasts : broadcasts[i].stop <= now + Slack
    BY <1>1, ListTypes DEF PastInv
  <2>. QED BY <2>2, <2>3, <2>4, OpenOrder
<1>5. CASE VoiceFrame
  <2>1. CASE ~OnAir /\ voiceRun + 1 >= MidJoinFrames
    <3>1. OpenBroadcast(now - MidJoinFrames, 0, TRUE) /\ NextFrame
      BY <1>5, <2>1 DEF VoiceFrame
    <3>2. now - MidJoinFrames \in Int /\ 0 \in Nat
      BY <1>1
    <3>3. \A i \in DOMAIN broadcasts : broadcasts[i].stop <= now - MidJoinFrames + Slack
      BY <2>1, <3>1, LateJoin
    <3>4. PICK mid \in BOOLEAN : mid /\ OpenBroadcast(now - MidJoinFrames, 0, mid)
      BY <3>1
    <3>. QED BY <3>2, <3>3, <3>4, OpenOrder
  <2>2. CASE ~(~OnAir /\ voiceRun + 1 >= MidJoinFrames)
    BY <1>3, <1>5, <2>2 DEF VoiceFrame
  <2>. QED BY <2>1, <2>2
<1>6. CASE Disconnect
  <2>1. CloseBroadcast(now, "disconnect")
    BY <1>6 DEF Disconnect
  <2>2. OnAir => current.start <= now + Slack
    BY <1>1 DEF PastInv
  <2>. QED BY <1>1, <1>2, <2>1, <2>2, CloseOrder
<1>7. CASE CheckSilence
  <2>1. CloseBroadcast(lastActivity, "silence") \/ UNCHANGED <<broadcasts, current>>
    BY <1>7 DEF CheckSilence
  <2>2. OnAir => current.start <= lastActivity + Slack
    BY <1>1 DEF PastInv
  <2>. QED BY <1>1, <1>2, <1>3, <2>1, <2>2, CloseOrder
<1>8. CASE CheckLimit
  <2>1. CloseBroadcast(block, "limit") \/ UNCHANGED <<broadcasts, current>>
    BY <1>8 DEF CheckLimit
  <2>2. OnAir => current.start <= block + Slack
    BY <1>1 DEF PastInv
  <2>. QED BY <1>1, <1>2, <1>3, <2>1, <2>2, CloseOrder
<1>9. CASE CloseLast
  <2>1. CloseBroadcast(iqr.pos, "end")
    BY <1>9 DEF CloseLast
  <2>2. OnAir => current.start <= iqr.pos + Slack
    BY <1>1 DEF PastInv
  <2>. QED BY <1>1, <1>2, <2>1, <2>2, CloseOrder
<1>10. CASE TakeChunk \/ NoFrame \/ OtherFrame \/ FramesDone \/ ChunkDone \/ SourceEnds
             \/ FlushLast \/ RecordLast \/ Stop \/ UNCHANGED vars
  BY <1>3, <1>10 DEF TakeChunk, NoFrame, OtherFrame, FramesDone, ChunkDone,
                     SourceEnds, FlushLast, RecordLast, Stop, vars
<1>. QED BY <1>4, <1>5, <1>6, <1>7, <1>8, <1>9, <1>10 DEF Next

-----------------------------------------------------------------------------
(* What the files hold.                                                    *)

LEMMA CoveredGrows ==
  ASSUME iqr.files \subseteq iqr'.files, NEW x, Covered(x)
  PROVE  Covered(x)'
BY DEF Covered

LEMMA FinishHolds ==
  ASSUME TypeOK, FilesOK(iqr), ClockInv, PastInv, HoldInv, UNCHANGED broadcasts,
         NEW r \in Recorder, r.id = iqr.id, r.from = iqr.from, r.files = iqr.files,
         iqr.active, iqr.pos <= r.pos, iqr' = RecFinish(r)
  PROVE  /\ FileHoldsBroadcast'
         /\ iqr.pos < r.pos => Covered(r.pos)'
<1> DEFINE new == FileOf(r)
<1>1. /\ new \in File /\ new.id = iqr.id /\ new.from = iqr.from
      /\ new.to <= r.pos
      /\ new.to = r.pos \/ (Full(new) /\ new.to < r.pos)
      /\ iqr.from < r.pos => new.from < new.to
  BY FileOfFacts
<1>2. iqr'.files = IF new.from < new.to THEN iqr.files \cup {new} ELSE iqr.files
  BY RecFinishFacts
<1>. HIDE DEF new
<1>3. /\ iqr.from \in Nat /\ iqr.pos \in Nat /\ r.pos \in Nat
      /\ iqr.from <= iqr.pos /\ block \in Nat /\ block <= iqr.pos
      /\ \A f \in iqr.files : f \in File /\ f.from < f.to /\ f.to <= iqr.from
  BY DEF TypeOK, FilesOK, Edge, Recorder, ClockInv
<1>4. iqr.files \subseteq iqr'.files
  BY <1>2
<1>5. \A f \in iqr'.files : f \in iqr.files \/ (f = new /\ new.from < new.to)
  BY <1>2
<1>6. ASSUME NEW i \in DOMAIN broadcasts, NEW f \in iqr'.files, f.id = broadcasts[i].id
      PROVE  /\ \/ f.from <= Later(0, broadcasts[i].start)
                \/ \E g \in iqr'.files \ {f} :
                      g.to = f.from \/ (Full(g) /\ g.to < f.from)
             /\ f.to >= broadcasts[i].stop \/ Full(f)
  <2>1. CASE f \in iqr.files
    <3>1. /\ \/ f.from <= Later(0, broadcasts[i].start)
             \/ \E g \in iqr.files \ {f} :
                   g.to = f.from \/ (Full(g) /\ g.to < f.from)
          /\ f.to >= broadcasts[i].stop \/ Full(f)
      BY <1>6, <2>1 DEF HoldInv, FileHoldsBroadcast
    <3>. QED BY <1>4, <3>1
  <2>2. CASE f = new /\ new.from < new.to
    <3>1. f.to >= broadcasts[i].stop \/ Full(f)
      <4>1. broadcasts[i].stop \in Int /\ broadcasts[i].stop <= block
        BY <1>6, ListTypes DEF PastInv
      <4>. QED BY <1>1, <1>3, <2>2, <4>1
    <3>2. CASE Covered(iqr.from)
      <4>1. CASE iqr.from = 0
        BY <1>1, <2>2, <3>1, <4>1, ListTypes DEF Later
      <4>2. CASE \E g \in iqr.files : g.to = iqr.from \/ (Full(g) /\ g.to < iqr.from)
        <5>1. PICK g \in iqr.files : g.to = iqr.from \/ (Full(g) /\ g.to < iqr.from)
          BY <4>2
        <5>2. g # f
          BY <1>1, <1>3, <2>2, <5>1 DEF File
        <5>. QED BY <1>1, <1>4, <2>2, <3>1, <5>1, <5>2
      <4>. QED BY <3>2, <4>1, <4>2 DEF Covered
    <3>3. CASE Begun(broadcasts[i])
      <4>1. iqr.from <= Later(0, broadcasts[i].start)
        BY <1>1, <1>6, <2>2, <3>3 DEF Begun
      <4>. QED BY <1>1, <2>2, <3>1, <4>1
    <3>4. Covered(iqr.from) \/ Begun(broadcasts[i])
      BY <1>6 DEF HoldInv
    <3>. QED BY <3>2, <3>3, <3>4
  <2>. QED BY <1>5, <1>6, <2>1, <2>2
<1>7. FileHoldsBroadcast'
  BY <1>6 DEF FileHoldsBroadcast, Full
<1>8. ASSUME iqr.pos < r.pos
      PROVE  Covered(r.pos)'
  <2>1. iqr.from < r.pos
    BY <1>3, <1>8
  <2>2. new \in iqr'.files
    BY <1>1, <1>2, <2>1
  <2>. QED BY <1>1, <2>2 DEF Covered, Full
<1>. QED BY <1>7, <1>8

\* A broadcast that is over had no file yet.
LEMMA ListHolds ==
  ASSUME TypeOK, IdsInv, FileHoldsBroadcast, NEW at \in Int, NEW reason \in Reasons,
         broadcasts' = Append(broadcasts, Finished(at, reason)),
         iqr'.files = iqr.files
  PROVE  FileHoldsBroadcast'
<1>1. PICK b \in Broadcast :
         /\ b.id = current.id
         /\ \A i \in DOMAIN broadcasts' :
               \/ i \in DOMAIN broadcasts /\ broadcasts'[i] = broadcasts[i]
               \/ broadcasts'[i] = b
  BY ClosedList
<1>2. \A f \in iqr.files : f.id # current.id
  BY DEF IdsInv
<1>. QED BY <1>1, <1>2 DEF FileHoldsBroadcast, Full

LEMMA ListBegun ==
  ASSUME TypeOK, Begun(current), \A i \in DOMAIN broadcasts : Begun(broadcasts[i]),
         NEW at \in Int, NEW reason \in Reasons,
         broadcasts' = Append(broadcasts, Finished(at, reason)),
         iqr'.id = iqr.id, iqr'.from = iqr.from
  PROVE  \A i \in DOMAIN broadcasts' : Begun(broadcasts[i])'
<1>1. PICK b \in Broadcast :
         /\ b.id = current.id /\ b.start = current.start
         /\ \A i \in DOMAIN broadcasts' :
               \/ i \in DOMAIN broadcasts /\ broadcasts'[i] = broadcasts[i]
               \/ broadcasts'[i] = b
  BY ClosedList
<1>. QED BY <1>1 DEF Begun

LEMMA CloseHolds ==
  ASSUME TypeOK, IdsInv, HoldInv, NEW at \in Int, NEW reason \in Reasons,
         CloseBroadcast(at, reason), pc # "done"
  PROVE  HoldInv'
<1>1. CASE ~OnAir /\ UNCHANGED <<broadcasts, current, voiceRun, iqr, saved>>
  BY <1>1 DEF HoldInv, Covered, Begun, FileHoldsBroadcast, Full
<1>2. CASE /\ OnAir
           /\ broadcasts' = Append(broadcasts, Finished(at, reason))
           /\ current' = None /\ voiceRun' = 0 /\ iqr' = RecStop(iqr)
           /\ saved' = saved \cup {current.id}
  <2>1. /\ iqr'.active <=> iqr.active
        /\ iqr'.id = iqr.id /\ iqr'.from = iqr.from
        /\ iqr'.ringFrom = iqr.ringFrom /\ iqr'.files = iqr.files
    BY <1>2, RecStopFacts DEF TypeOK
  <2>2. FileHoldsBroadcast'
    BY <1>2, <2>1, ListHolds DEF HoldInv
  <2>3. ~iqr'.active => Covered(iqr.ringFrom)'
    BY <2>1 DEF HoldInv, Covered, Full
  <2>4. ASSUME iqr'.active
        PROVE  \/ Covered(iqr.from)'
               \/ Begun(current)' /\ \A i \in DOMAIN broadcasts' : Begun(broadcasts[i])'
    <3>1. CASE Covered(iqr.from)
      BY <2>1, <3>1 DEF Covered, Full
    <3>2. CASE Begun(current) /\ \A i \in DOMAIN broadcasts : Begun(broadcasts[i])
      <4>1. \A i \in DOMAIN broadcasts' : Begun(broadcasts[i])'
        BY <1>2, <2>1, <3>2, ListBegun
      <4>2. Begun(current)'
        <5>1. iqr.id # 0
          BY <2>1, <2>4 DEF IdsInv, Ids
        <5>. QED BY <1>2, <2>1, <5>1, NoneFacts DEF Begun
      <4>. QED BY <4>1, <4>2
    <3>. QED BY <2>1, <2>4, <3>1, <3>2 DEF HoldInv
  <2>. QED BY <2>1, <2>2, <2>3, <2>4 DEF HoldInv
<1>. QED BY <1>1, <1>2, CloseCases

LEMMA OpenHolds ==
  ASSUME TypeOK, IdsInv, FilesOK(iqr), ClockInv, HoldInv, pc = "frames",
         NEW at \in Int, NEW call \in Nat, NEW mid \in BOOLEAN,
         OpenBroadcast(at, call, mid), now - MidJoinFrames <= at
  PROVE  HoldInv'
<1>1. /\ iqr \in Recorder /\ nextBCID \in Nat \ {0} /\ iqr.pos \in Nat /\ now \in Nat
      /\ iqr.ringFrom \in Nat
      /\ Overlap \in Nat /\ Lag \in Nat /\ ChunkFrames \in Nat /\ MidJoinFrames \in Nat
      /\ RingMax \in Nat
  BY BroadcastConstants, RecorderConstants DEF TypeOK, Recorder
<1>2. CASE OnAir /\ UNCHANGED <<broadcasts, current, voiceRun, nextBCID, iqr>>
  BY <1>2 DEF HoldInv, Covered, Begun, FileHoldsBroadcast, Full
<1>3. CASE /\ broadcasts' = IF OnAir THEN Append(broadcasts, Finished(at, "otherCall"))
                            ELSE broadcasts
           /\ current' = Opened(at, call, mid)
           /\ nextBCID' = nextBCID + 1
           /\ voiceRun' = 0
           /\ iqr' = RecStart(iqr, nextBCID)
  <2>1. "otherCall" \in Reasons
    BY DEF Reasons
  <2>2. current'.id = nextBCID /\ current'.start = at
    BY <1>1, <1>3, OpenedFacts
  <2>3. /\ iqr'.active /\ iqr'.files = iqr.files
        /\ iqr.active => iqr' = iqr
        /\ ~iqr.active => iqr'.id = nextBCID /\ iqr'.from = RingStart(iqr)
    BY <1>1, <1>3, RecStartFacts
  <2>4. FileHoldsBroadcast'
    <3>1. CASE OnAir
      <4>1. broadcasts' = Append(broadcasts, Finished(at, "otherCall"))
        BY <1>3, <3>1
      <4>. QED BY <2>1, <2>3, <4>1, ListHolds DEF HoldInv
    <3>2. CASE ~OnAir
      <4>1. broadcasts' = broadcasts
        BY <1>3, <3>2
      <4>. QED BY <2>3, <4>1 DEF HoldInv, FileHoldsBroadcast, Full
    <3>. QED BY <3>1, <3>2
  <2>5. /\ IdsInv'
        /\ \A i \in DOMAIN broadcasts' : broadcasts'[i].id # nextBCID
    BY <2>2, OpenKeepsIds DEF IdsInv
  <2>6. CASE iqr.active
    <3>1. iqr' = iqr /\ iqr.id # nextBCID
      BY <1>1, <2>3, <2>6 DEF IdsInv, Ids
    <3>2. Begun(current)'
      BY <2>2, <3>1 DEF Begun
    <3>3. CASE Covered(iqr.from)
      BY <2>3, <2>4, <3>1, <3>3 DEF HoldInv, Covered, Full
    <3>4. CASE Begun(current) /\ \A i \in DOMAIN broadcasts : Begun(broadcasts[i])
      <4>1. \A i \in DOMAIN broadcasts' : Begun(broadcasts[i])'
        <5>1. CASE OnAir
          <6>1. broadcasts' = Append(broadcasts, Finished(at, "otherCall"))
            BY <1>3, <5>1
          <6>. QED BY <2>1, <3>1, <3>4, <6>1, ListBegun
        <5>2. CASE ~OnAir
          <6>1. broadcasts' = broadcasts
            BY <1>3, <5>2
          <6>. QED BY <3>1, <3>4, <6>1 DEF Begun
        <5>. QED BY <5>1, <5>2
      <4>. QED BY <2>3, <2>4, <3>2, <4>1 DEF HoldInv
    <3>. QED BY <2>6, <3>3, <3>4 DEF HoldInv
  <2>7. CASE ~iqr.active
    <3>1. iqr'.id = nextBCID /\ iqr'.from = RingStart(iqr)
      BY <2>3, <2>7
    <3>2. \A i \in DOMAIN broadcasts' : Begun(broadcasts[i])'
      BY <2>5, <3>1 DEF Begun
    <3>3. CASE RingStart(iqr) = iqr.ringFrom
      <4>1. Covered(iqr.ringFrom)
        BY <2>7 DEF HoldInv
      <4>2. Covered(iqr.from)'
        BY <2>3, <3>1, <3>3, <4>1 DEF Covered, Full
      <4>. QED BY <2>3, <2>4, <4>2 DEF HoldInv
    <3>4. CASE RingStart(iqr) = iqr.pos - RingMax
      <4>1. iqr.pos <= now + ChunkFrames + Lag + Overlap
        BY DEF ClockInv
      <4>2. iqr.pos - RingMax <= at
        BY <1>1, <4>1, PrerollCovers
      <4>3. at <= Later(0, at)
        BY DEF Later
      <4>4. RingStart(iqr) <= Later(0, at)
        <5>1. Later(0, at) \in Int
          BY DEF Later
        <5>. QED BY <1>1, <3>4, <4>2, <4>3, <5>1
      <4>5. Begun(current)'
        BY <2>2, <3>1, <4>4 DEF Begun
      <4>. QED BY <2>3, <2>4, <3>2, <4>5 DEF HoldInv
    <3>. QED BY <3>3, <3>4 DEF RingStart, Later
  <2>. QED BY <2>6, <2>7
<1>. QED BY <1>2, <1>3, OpenCases

\* The end of a recording, when there is input behind its beginning.
LEMMA FinishKeepsHold ==
  ASSUME TypeOK, FilesOK(iqr), ClockInv, PastInv, HoldInv, UNCHANGED broadcasts,
         NEW r \in Recorder, r.id = iqr.id, r.from = iqr.from, r.files = iqr.files,
         iqr.active, iqr.pos <= r.pos, iqr' = RecFinish(r),
         iqr.pos < r.pos \/ pc' = "done"
  PROVE  HoldInv'
<1>1. ~iqr'.active /\ iqr'.ringFrom = r.pos
  BY RecFinishFacts
<1>2. FileHoldsBroadcast'
  BY FinishHolds
<1>3. CASE pc' = "done"
  BY <1>1, <1>2, <1>3 DEF HoldInv
<1>4. CASE iqr.pos < r.pos
  <2>1. Covered(r.pos)'
    BY <1>4, FinishHolds
  <2>2. Covered(iqr.ringFrom)'
    BY <1>1, <2>1 DEF Covered, Full
  <2>. QED BY <1>1, <1>2, <2>2 DEF HoldInv
<1>. QED BY <1>3, <1>4

LEMMA HoldKept ==
  ASSUME TypeOK, FilesOK(iqr), IdsInv, ClockInv, PastInv, HoldInv, [Next]_vars
  PROVE  HoldInv'
<1>1. /\ iqr \in Recorder /\ iqr.pos \in Nat /\ now \in Int /\ block \in Int
      /\ lastActivity \in Int /\ ChunkFrames \in Nat \ {0} /\ MidJoinFrames \in Nat
  BY BroadcastConstants DEF TypeOK, Recorder
<1>2. /\ "disconnect" \in Reasons /\ "silence" \in Reasons
      /\ "limit" \in Reasons /\ "end" \in Reasons
  BY DEF Reasons
<1>3. CASE UNCHANGED <<broadcasts, current, iqr>> /\ (pc = "done" => pc' = "done")
  BY <1>3 DEF HoldInv, Covered, Begun, FileHoldsBroadcast, Full
<1>4. CASE TakeChunk
  <2>1. /\ UNCHANGED <<broadcasts, current>> /\ iqr' = RecFeed(iqr, ChunkFrames)
        /\ pc = "wait"
    BY <1>4 DEF TakeChunk
  <2>2. PICK fed \in Recorder :
           /\ fed.active = iqr.active /\ fed.id = iqr.id /\ fed.from = iqr.from
           /\ fed.pos = iqr.pos + ChunkFrames
           /\ fed.ringFrom = iqr.ringFrom /\ fed.files = iqr.files
           /\ \/ iqr' = fed
              \/ fed.active /\ iqr' = RecFinish(fed)
    BY <1>1, <2>1, RecFeedCases
  <2>3. CASE iqr' = fed
    BY <2>1, <2>2, <2>3 DEF HoldInv, Covered, Begun, FileHoldsBroadcast, Full
  <2>4. CASE fed.active /\ iqr' = RecFinish(fed)
    <3>1. iqr.pos <= fed.pos /\ iqr.pos < fed.pos /\ iqr.active
      BY <1>1, <2>2, <2>4
    <3>. QED BY <2>1, <2>2, <2>4, <3>1, FinishKeepsHold
  <2>. QED BY <2>2, <2>3, <2>4
<1>5. CASE RecordLast
  <2>1. UNCHANGED <<broadcasts, current>> /\ iqr' = RecFlush(iqr) /\ pc' = "done"
    BY <1>5 DEF RecordLast
  <2>2. CASE ~iqr.active
    BY <1>3, <2>1, <2>2 DEF RecFlush
  <2>3. CASE iqr.active
    <3>1. iqr' = RecFinish(iqr) /\ iqr.pos <= iqr.pos
      BY <1>1, <2>1, <2>3 DEF RecFlush
    <3>. QED BY <1>1, <2>1, <2>3, <3>1, FinishKeepsHold
  <2>. QED BY <2>2, <2>3
<1>6. CASE \E call \in Calls : NotifyStart(call)
  <2>1. PICK call \in Calls : NotifyStart(call)
    BY <1>6
  <2>2. call \in Nat /\ FALSE \in BOOLEAN /\ now - MidJoinFrames <= now
    BY <1>1, BroadcastConstants
  <2>3. OpenBroadcast(now, call, FALSE) /\ pc = "frames"
    BY <2>1 DEF NotifyStart, NextFrame
  <2>. QED BY <1>1, <2>2, <2>3, OpenHolds
<1>7. CASE VoiceFrame
  <2>1. pc = "frames" /\ pc' = pc
    BY <1>7 DEF VoiceFrame, NextFrame
  <2>2. CASE OpenBroadcast(now - MidJoinFrames, 0, TRUE)
    <3>1. /\ now - MidJoinFrames \in Int /\ now - MidJoinFrames <= now - MidJoinFrames
          /\ 0 \in Nat /\ TRUE \in BOOLEAN
      BY <1>1
    <3>. QED BY <2>1, <2>2, <3>1, OpenHolds
  <2>3. CASE UNCHANGED <<broadcasts, current, iqr>>
    BY <1>3, <2>1, <2>3
  <2>. QED BY <1>7, <2>2, <2>3 DEF VoiceFrame
<1>8. CASE Disconnect
  <2>1. CloseBroadcast(now, "disconnect") /\ pc # "done"
    BY <1>8 DEF Disconnect, NextFrame
  <2>. QED BY <1>1, <1>2, <2>1, CloseHolds
<1>9. CASE CheckSilence
  <2>1. /\ CloseBroadcast(lastActivity, "silence") \/ UNCHANGED <<broadcasts, current, iqr>>
        /\ pc # "done"
    BY <1>9 DEF CheckSilence
  <2>. QED BY <1>1, <1>2, <1>3, <2>1, CloseHolds
<1>10. CASE CheckLimit
  <2>1. /\ CloseBroadcast(block, "limit") \/ UNCHANGED <<broadcasts, current, iqr>>
        /\ pc # "done"
    BY <1>10 DEF CheckLimit
  <2>. QED BY <1>1, <1>2, <1>3, <2>1, CloseHolds
<1>11. CASE CloseLast
  <2>1. CloseBroadcast(iqr.pos, "end") /\ pc # "done"
    BY <1>11 DEF CloseLast
  <2>2. iqr.pos \in Int
    BY <1>1
  <2>. QED BY <1>2, <2>1, <2>2, CloseHolds
<1>12. CASE NoFrame \/ OtherFrame \/ FramesDone \/ ChunkDone \/ SourceEnds
             \/ FlushLast \/ Stop \/ UNCHANGED vars
  <2>1. UNCHANGED <<broadcasts, current, iqr>> /\ (pc = "done" => pc' = "done")
    BY <1>12 DEF NoFrame, OtherFrame, NextFrame, FramesDone, ChunkDone, SourceEnds,
                 FlushLast, Stop, vars
  <2>. QED BY <1>3, <2>1
<1>. QED BY <1>4, <1>5, <1>6, <1>7, <1>8, <1>9, <1>10, <1>11, <1>12 DEF Next

-----------------------------------------------------------------------------
(* The voice.                                                              *)

PendOK == \A i \in DOMAIN pendSFs : pendSFs[i] \in {0, current.id} \cup Cut
AiredOK == \A a \in aired : a.of \in {0, a.to} \cup Cut

LEMMA CutGrows ==
  ASSUME TypeOK, NEW at \in Int, NEW reason \in Reasons,
         broadcasts' = Append(broadcasts, Finished(at, reason))
  PROVE  /\ Cut \subseteq Cut'
         /\ reason = "otherCall" => current.id \in Cut'
<1> DEFINE n == Len(broadcasts) + 1
<1>1. PICK b \in Broadcast :
         /\ b.id = current.id /\ b.reason = reason
         /\ broadcasts'[n] = b
         /\ \A i \in DOMAIN broadcasts' :
               \/ i \in DOMAIN broadcasts /\ broadcasts'[i] = broadcasts[i]
               \/ i = n /\ broadcasts'[i] = b
  BY ClosedList
<1>2. /\ DOMAIN broadcasts = 1 .. Len(broadcasts) /\ Len(broadcasts) \in Nat
      /\ DOMAIN broadcasts' = 1 .. Len(broadcasts) + 1
  BY ClosedList
<1>3. n \in DOMAIN broadcasts' /\ n \notin DOMAIN broadcasts
      /\ DOMAIN broadcasts \subseteq DOMAIN broadcasts'
  BY <1>2
<1>. HIDE DEF n
<1>4. Cut \subseteq Cut'
  BY <1>1, <1>3 DEF Cut
<1>5. reason = "otherCall" => current.id \in Cut'
  BY <1>1, <1>3 DEF Cut
<1>. QED BY <1>4, <1>5

LEMMA FlushVoice ==
  ASSUME TypeOK, IdsInv, NEW force \in BOOLEAN, FlushAudio(force), PendOK, AiredOK
  PROVE  /\ \A i \in DOMAIN pendSFs' : pendSFs'[i] \in {0, current.id} \cup Cut
         /\ \A a \in aired' : a.of \in {0, a.to} \cup Cut
<1>1. PICK k \in 0 .. Len(pendSFs) : pendSFs' = SubSeq(pendSFs, k + 1, Len(pendSFs))
  BY FlushFacts
<1>2. pendSFs \in Seq(0 .. nextBCID - 1)
  BY DEF TypeOK
<1>3. \A i \in DOMAIN pendSFs' : i + k \in DOMAIN pendSFs /\ pendSFs'[i] = pendSFs[i + k]
  BY <1>1, <1>2, RestOfSeq
<1>4. \A i \in DOMAIN pendSFs' : pendSFs'[i] \in {0, current.id} \cup Cut
  BY <1>3 DEF PendOK
<1>5. PICK n \in 0 .. Len(pendSFs) : aired' = aired \cup Decoded(n)
  BY FlushFacts
<1>6. \A a \in Decoded(n) : a.of \in {0, a.to} \cup Cut
  <2>1. \A a \in Decoded(n) : /\ a.to = current.id
                              /\ \E i \in DOMAIN pendSFs : a.of = pendSFs[i]
    BY DecodedType
  <2>. QED BY <2>1 DEF PendOK
<1>7. \A a \in aired' : a.of \in {0, a.to} \cup Cut
  BY <1>5, <1>6 DEF AiredOK
<1>. QED BY <1>4, <1>7

LEMMA FlushKeepsVoice ==
  ASSUME TypeOK, IdsInv, VoiceInv, NEW force \in BOOLEAN, FlushAudio(force),
         UNCHANGED <<broadcasts, current>>
  PROVE  VoiceInv'
<1>1. CASE failed
  BY <1>1, FlushFacts DEF VoiceInv
<1>2. CASE ~failed
  <2>1. PendOK /\ AiredOK
    BY <1>2 DEF VoiceInv, PendOK, AiredOK
  <2>2. Cut' = Cut
    BY DEF Cut
  <2>. QED BY <2>1, <2>2, FlushVoice DEF VoiceInv
<1>. QED BY <1>1, <1>2

LEMMA CloseKeepsVoice ==
  ASSUME TypeOK, IdsInv, VoiceInv, NEW at \in Int, NEW reason \in Reasons,
         CloseBroadcast(at, reason)
  PROVE  VoiceInv'
<1>1. FlushAudio(TRUE)
  BY CloseCases
<1>2. PICK force \in BOOLEAN : force /\ FlushAudio(force)
  BY <1>1
<1>3. CASE failed
  BY <1>2, <1>3, FlushFacts DEF VoiceInv
<1>4. CASE failed'
  BY <1>4 DEF VoiceInv
<1>5. CASE ~failed /\ ~failed'
  <2>1. pendSFs' = <<>>
    BY <1>2, <1>5, FlushFacts
  <2>2. PendOK /\ AiredOK
    BY <1>5 DEF VoiceInv, PendOK, AiredOK
  <2>3. \A a \in aired' : a.of \in {0, a.to} \cup Cut
    BY <1>2, <2>2, FlushVoice
  <2>4. Cut \subseteq Cut'
    <3>1. CASE UNCHANGED broadcasts
      BY <3>1 DEF Cut
    <3>2. CASE broadcasts' = Append(broadcasts, Finished(at, reason))
      BY <3>2, CutGrows
    <3>. QED BY <3>1, <3>2, CloseCases
  <2>5. DOMAIN pendSFs' = {}
    BY <2>1
  <2>. QED BY <2>3, <2>4, <2>5 DEF VoiceInv
<1>. QED BY <1>3, <1>4, <1>5

LEMMA OpenVoice ==
  ASSUME TypeOK, IdsInv, NEW at \in Int, NEW call \in Nat, NEW mid \in BOOLEAN,
         OpenBroadcast(at, call, mid)
  PROVE  {0, current.id} \cup Cut \subseteq {0, current'.id} \cup Cut'
         /\ Cut \subseteq Cut'
<1>1. CASE OnAir /\ UNCHANGED <<broadcasts, current, voiceRun, nextBCID, iqr>>
  BY <1>1 DEF Cut
<1>2. CASE broadcasts' = IF OnAir THEN Append(broadcasts, Finished(at, "otherCall"))
                         ELSE broadcasts
  <2>1. CASE OnAir
    <3>1. broadcasts' = Append(broadcasts, Finished(at, "otherCall"))
          /\ "otherCall" \in Reasons
      BY <1>2, <2>1 DEF Reasons
    <3>2. Cut \subseteq Cut' /\ current.id \in Cut'
      BY <3>1, CutGrows
    <3>. QED BY <3>2
  <2>2. CASE ~OnAir
    <3>1. broadcasts' = broadcasts /\ current.id = 0
      BY <1>2, <2>2, CurrentFacts
    <3>. QED BY <3>1 DEF Cut
  <2>. QED BY <2>1, <2>2
<1>. QED BY <1>1, <1>2, OpenCases

LEMMA VoiceInvKept ==
  ASSUME TypeOK, IdsInv, ClockInv, VoiceInv, [Next]_vars
  PROVE  VoiceInv'
<1>1. /\ iqr.pos \in Int /\ now \in Int /\ block \in Int /\ lastActivity \in Int
      /\ MidJoinFrames \in Nat
  BY BroadcastConstants DEF TypeOK, Recorder
<1>2. /\ "disconnect" \in Reasons /\ "silence" \in Reasons
      /\ "limit" \in Reasons /\ "end" \in Reasons
  BY DEF Reasons
<1>3. CASE UNCHANGED <<broadcasts, current, pendSFs, aired, failed>>
  BY <1>3 DEF VoiceInv, Cut
<1>4. CASE \E call \in Calls : NotifyStart(call)
  <2>1. PICK call \in Calls : NotifyStart(call)
    BY <1>4
  <2>2. call \in Nat /\ FALSE \in BOOLEAN
    BY BroadcastConstants
  <2>3. OpenBroadcast(now, call, FALSE) /\ UNCHANGED <<pendSFs, aired, failed>>
    BY <2>1 DEF NotifyStart
  <2>4. {0, current.id} \cup Cut \subseteq {0, current'.id} \cup Cut' /\ Cut \subseteq Cut'
    BY <1>1, <2>2, <2>3, OpenVoice
  <2>. QED BY <2>3, <2>4 DEF VoiceInv
<1>5. CASE VoiceFrame
  <2>1. UNCHANGED <<aired, failed>>
    BY <1>5 DEF VoiceFrame
  <2>2. {0, current.id} \cup Cut \subseteq {0, current'.id} \cup Cut' /\ Cut \subseteq Cut'
    <3>1. CASE OpenBroadcast(now - MidJoinFrames, 0, TRUE)
      <4>1. now - MidJoinFrames \in Int /\ 0 \in Nat /\ TRUE \in BOOLEAN
        BY <1>1
      <4>. QED BY <3>1, <4>1, OpenVoice
    <3>2. CASE UNCHANGED <<broadcasts, current>>
      BY <3>2 DEF Cut
    <3>. QED BY <1>5, <3>1, <3>2 DEF VoiceFrame
  <2>3. PICK n \in 0 .. SFsPerFrame : pendSFs' = pendSFs \o [i \in 1 .. n |-> current'.id]
    BY <1>5 DEF VoiceFrame
  <2>4. \A i \in DOMAIN pendSFs' :
           \/ i \in DOMAIN pendSFs /\ pendSFs'[i] = pendSFs[i]
           \/ pendSFs'[i] = current'.id
    <3>1. pendSFs \in Seq(0 .. nextBCID - 1) /\ n \in Nat
      BY BroadcastConstants DEF TypeOK
    <3>. QED BY <2>3, <3>1
  <2>. QED BY <2>1, <2>2, <2>4 DEF VoiceInv
<1>6. CASE Disconnect
  <2>1. CloseBroadcast(now, "disconnect")
    BY <1>6 DEF Disconnect
  <2>. QED BY <1>1, <1>2, <2>1, CloseKeepsVoice
<1>7. CASE CheckSilence
  <2>1. CloseBroadcast(lastActivity, "silence")
        \/ UNCHANGED <<broadcasts, current, pendSFs, aired, failed>>
    BY <1>7 DEF CheckSilence
  <2>. QED BY <1>1, <1>2, <1>3, <2>1, CloseKeepsVoice
<1>8. CASE CheckLimit
  <2>1. CloseBroadcast(block, "limit")
        \/ UNCHANGED <<broadcasts, current, pendSFs, aired, failed>>
    BY <1>8 DEF CheckLimit
  <2>. QED BY <1>1, <1>2, <1>3, <2>1, CloseKeepsVoice
<1>9. CASE CloseLast
  <2>1. CloseBroadcast(iqr.pos, "end")
    BY <1>9 DEF CloseLast
  <2>. QED BY <1>1, <1>2, <2>1, CloseKeepsVoice
<1>10. CASE ChunkDone
  <2>1. UNCHANGED <<broadcasts, current>> /\ FlushAudio(FALSE) /\ FALSE \in BOOLEAN
    BY <1>10 DEF ChunkDone
  <2>. QED BY <2>1, FlushKeepsVoice
<1>11. CASE FlushLast
  <2>1. UNCHANGED <<broadcasts, current>> /\ FlushAudio(TRUE) /\ TRUE \in BOOLEAN
    BY <1>11 DEF FlushLast
  <2>. QED BY <2>1, FlushKeepsVoice
<1>12. CASE TakeChunk \/ NoFrame \/ OtherFrame \/ FramesDone \/ SourceEnds
             \/ RecordLast \/ Stop \/ UNCHANGED vars
  BY <1>3, <1>12 DEF TakeChunk, NoFrame, OtherFrame, FramesDone, SourceEnds,
                     RecordLast, Stop, vars
<1>. QED BY <1>4, <1>5, <1>6, <1>7, <1>8, <1>9, <1>10, <1>11, <1>12 DEF Next

-----------------------------------------------------------------------------
(* The inductive invariant holds.                                          *)

LEMMA InitInv == Init => IInv
<1> SUFFICES ASSUME Init PROVE IInv
  OBVIOUS
<1>0. /\ MaxTime \in Nat /\ ChunkFrames \in Nat /\ Lag \in Nat /\ Overlap \in Nat
  BY BroadcastConstants
<1>1. current = None /\ None \in Broadcast /\ None.id = 0 /\ ~OnAir
  BY NoneFacts DEF Init, OnAir
<1>2. /\ iqr = NewRecorder /\ iqr \in Recorder /\ FilesOK(iqr)
  BY NewRecorderOK DEF Init
<1>3. iqr.files = {} /\ iqr.pos = 0 /\ iqr.ringFrom = 0
  BY <1>2 DEF NewRecorder
<1>4. ~iqr.active
  BY <1>2 DEF NewRecorder
<1>5. DOMAIN broadcasts = {} /\ broadcasts = <<>> /\ DOMAIN pendSFs = {}
  BY DEF Init
<1>6. TypeOK
  <2>1. broadcasts \in Seq(Broadcast) /\ pendSFs \in Seq(0 .. nextBCID - 1)
    BY DEF Init
  <2>2. ended \in BOOLEAN /\ failed \in BOOLEAN
    BY DEF Init
  <2>3. /\ now \in 0 .. MaxTime /\ block \in now .. MaxTime
        /\ seen \in SUBSET (0 .. MaxTime)
        /\ lastActivity \in 0 .. MaxTime /\ voiceRun \in 0 .. MaxTime
        /\ nextBCID \in Nat \ {0}
        /\ saved \in SUBSET (1 .. nextBCID - 1)
        /\ aired \in SUBSET [of : Nat, to : Nat]
    BY <1>0 DEF Init
  <2>. QED BY <1>1, <1>2, <2>1, <2>2, <2>3 DEF TypeOK, Init
<1>7. IdsInv
  BY <1>1, <1>3, <1>4, <1>5 DEF IdsInv
<1>8. ClockInv
  BY <1>0, <1>3 DEF ClockInv, Init
<1>9. PastInv
  BY <1>1, <1>5 DEF PastInv
<1>10. OrderInv
  BY <1>1, <1>5 DEF OrderInv
<1>11. RunInv
  <2>1. Bounded(0)
    BY <1>0 DEF Init, Bounded, Later
  <2>2. Counted(0)
    <3>1. Marks = {0}
      BY <1>5 DEF Marks
    <3>2. SeenFrom(0) = {} /\ voiceRun = 0
      BY DEF SeenFrom, Init
    <3>3. Cardinality({}) = 0
      BY FS_EmptySet
    <3>. QED BY <3>1, <3>2, <3>3 DEF Counted, Later
  <2>. QED BY <2>1, <2>2 DEF RunInv, RunFrom
<1>12. HoldInv
  BY <1>3, <1>4, <1>5 DEF HoldInv, Covered, FileHoldsBroadcast
<1>13. VoiceInv
  BY <1>5 DEF VoiceInv, Init
<1>. QED BY <1>2, <1>6, <1>7, <1>8, <1>9, <1>10, <1>11, <1>12, <1>13 DEF IInv, TimeInv

LEMMA NextInv == IInv /\ [Next]_vars => IInv'
<1> SUFFICES ASSUME IInv, [Next]_vars PROVE IInv'
  OBVIOUS
<1>1. /\ TypeOK /\ FilesOK(iqr) /\ IdsInv /\ TimeInv /\ ClockInv /\ PastInv
      /\ OrderInv /\ RunInv /\ HoldInv /\ VoiceInv
  BY DEF IInv, TimeInv
<1>2. TypeOK'
  BY <1>1, TypeKept
<1>3. FilesOK(iqr)'
  BY <1>1, FilesKept
<1>4. IdsInv'
  BY <1>1, IdsKept
<1>5. ClockInv' /\ PastInv'
  BY <1>1, <1>2, ClockKept, PastKept
<1>6. OrderInv'
  BY <1>1, OrderKept
<1>7. RunInv'
  BY <1>1, <1>2, RunKept
<1>8. HoldInv'
  BY <1>1, HoldKept
<1>9. VoiceInv'
  BY <1>1, VoiceInvKept
<1>. QED BY <1>2, <1>3, <1>4, <1>5, <1>6, <1>7, <1>8, <1>9 DEF IInv, TimeInv

-----------------------------------------------------------------------------
(* The theorems.                                                           *)

\* The invariant of the loop and its recorder holds in every reachable state,
\* for every block length, overlap, chunk and pre-roll the constants allow
\* (pipeline.go Run, iqrecorder.go).
THEOREM LoopInv == Spec => []IInv
<1>1. Init => IInv
  BY InitInv
<1>2. IInv /\ [Next]_vars => IInv'
  BY NextInv
<1>. QED BY <1>1, <1>2, PTL DEF Spec

\* The recorder stops with the broadcast, every I/Q file reaches from before its
\* broadcast's start to its end, and no input is in two files (iqrecorder.go
\* Start, Stop, Feed, finish; pipeline.go openBroadcast, closeBroadcast).
THEOREM RecorderIsRight == Spec => []RecorderInv
<1>1. IInv => RecorderInv
  BY DEF IInv, IdsInv, HoldInv, FilesOK, RecorderInv, RecordingFollows, FilesApart
<1>. QED BY <1>1, LoopInv, PTL

\* Broadcasts follow one another in time, a late join included: it is not put
\* before what was over, but for what the overlapping blocks allow (pipeline.go
\* openBroadcast, closeBroadcast, onVoice).
THEOREM OrderHolds == Spec => []BroadcastsInOrder
<1>1. IInv => BroadcastsInOrder
  <2> SUFFICES ASSUME IInv PROVE BroadcastsInOrder
    OBVIOUS
  <2>1. TypeOK /\ ClockInv /\ PastInv /\ OrderInv
    BY DEF IInv, TimeInv
  <2>2. CASE ~OnAir
    BY <2>1, <2>2 DEF BroadcastsInOrder, OrderInv, Slack
  <2>3. CASE OnAir
    <3> DEFINE open == [current EXCEPT !.stop = block]
               all == Append(broadcasts, open)
               n == Len(broadcasts)
    <3>1. /\ broadcasts \in Seq(Broadcast) /\ block \in Nat /\ current \in Broadcast
          /\ current.start \in Int /\ current.start <= block
          /\ Slack \in Nat /\ n \in Nat
      BY <2>1, <2>3, BroadcastConstants
      DEF TypeOK, PastInv, Broadcast, Slack, Later
    <3>2. open \in Broadcast /\ open.start = current.start /\ open.stop = block
      <4>1. current \in Broadcast /\ block \in Int
        BY <3>1
      <4>2. open \in Broadcast
        BY <4>1 DEF Broadcast
      <4>3. open.start = current.start /\ open.stop = block
        BY <4>1 DEF Broadcast
      <4>. QED BY <4>2, <4>3
    <3>. HIDE DEF open
    <3>3. /\ all[n + 1] = open
          /\ DOMAIN broadcasts = 1 .. n /\ DOMAIN all = 1 .. n + 1
          /\ \A i \in DOMAIN broadcasts : i \in DOMAIN all /\ all[i] = broadcasts[i]
          /\ \A i \in DOMAIN all : i \in DOMAIN broadcasts \/ i = n + 1
      BY <3>1, <3>2, AppendFacts
    <3>. HIDE DEF all, n
    <3>4. ASSUME NEW i \in DOMAIN all
          PROVE  all[i].start <= all[i].stop + Slack
      <4>1. CASE i \in DOMAIN broadcasts
        BY <2>1, <3>3, <4>1 DEF OrderInv
      <4>2. CASE i = n + 1
        BY <3>1, <3>2, <3>3, <4>2
      <4>. QED BY <3>3, <3>4, <4>1, <4>2
    <3>5. ASSUME NEW i \in DOMAIN all \ {1}
          PROVE  all[i - 1].stop <= all[i].start + Slack
      <4>1. i - 1 \in DOMAIN broadcasts
        BY <3>1, <3>3, <3>5
      <4>2. all[i - 1] = broadcasts[i - 1]
        BY <3>3, <4>1
      <4>3. CASE i \in DOMAIN broadcasts
        BY <2>1, <3>3, <3>5, <4>2, <4>3 DEF OrderInv
      <4>4. CASE i = n + 1
        <5>1. i - 1 = Len(broadcasts) /\ broadcasts # <<>>
          BY <3>1, <3>3, <4>1, <4>4 DEF n
        <5>. QED BY <2>1, <2>3, <3>2, <3>3, <4>2, <4>4, <5>1 DEF OrderInv
      <4>. QED BY <3>3, <3>5, <4>3, <4>4
    <3>. QED BY <2>3, <3>4, <3>5 DEF BroadcastsInOrder, Slack, all, open
  <2>. QED BY <2>2, <2>3
<1>. QED BY <1>1, LoopInv, PTL

\* While decoding works no voice is filed under a later broadcast, except what
\* another call cut off (pipeline.go flushAudio, closeBroadcast).
THEOREM VoiceInItsFile == Spec => []VoiceKept
<1>1. IInv => VoiceKept
  BY DEF IInv, VoiceInv, VoiceKept, Cut
<1>. QED BY <1>1, LoopInv, PTL

=============================================================================
