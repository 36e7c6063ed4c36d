-------------------------- MODULE SampleQueue_proofs --------------------------
(***************************************************************************)
(* The sample queue is a lossy FIFO that never drops the chunk just read,   *)
(* for every capacity, kind of source and length of input.                 *)
(***************************************************************************)
EXTENDS SampleQueue, FiniteSetTheorems, TLAPS

\* A chunk in hand is the newest one; between two reads there is none.
InHand ==
    /\ pc \in {"push", "drop", "count", "again"} => held = sent /\ sent > 0
    /\ pc = "read" => held = 0

\* The queue holds undecided chunks in the order of reading, older than the one
\* in hand.
InOrder ==
    /\ \A i \in 1 .. Len(queue) :
          /\ queue[i] \in 1 .. sent /\ queue[i] \notin got \cup lost
          /\ held # 0 => queue[i] < held
    /\ \A i, j \in 1 .. Len(queue) : i < j => queue[i] < queue[j]

\* No chunk has vanished.
Accounted ==
    /\ got \cup lost \subseteq 1 .. sent
    /\ held # 0 => held \notin got \cup lost
    /\ \A m \in 1 .. sent :
          m \in got \cup lost \/ m = held \/ \E i \in 1 .. Len(queue) : queue[i] = m

QueueInv == TypeOK /\ NewestKept /\ InHand /\ InOrder /\ Accounted

-----------------------------------------------------------------------------
USE DEF kind, Lossy

LEMMA QueueStart == Init => QueueInv
<1> SUFFICES ASSUME Init PROVE QueueInv
  OBVIOUS
<1> USE DEF Init
<1>1. Len(queue) = 0 /\ 0 <= Cap
  BY QueueConstants
<1>2. TypeOK
  <2>1. queue \in Seq(Nat) /\ Len(queue) <= Cap
    BY <1>1
  <2>2. stopped \in BOOLEAN
    OBVIOUS
  <2>. QED BY <2>1, <2>2 DEF TypeOK
<1>3. NewestKept /\ InHand
  BY DEF NewestKept, InHand
<1>4. InOrder /\ Accounted
  BY <1>1 DEF InOrder, Accounted
<1>. QED BY <1>2, <1>3, <1>4 DEF QueueInv

\* What the head of the queue and its tail are.
LEMMA HeadTail ==
  ASSUME NEW q \in Seq(Nat), q # <<>>
  PROVE  /\ Len(q) \in Nat \ {0} /\ Head(q) = q[1] /\ Head(q) \in Nat
         /\ Tail(q) \in Seq(Nat) /\ Len(Tail(q)) = Len(q) - 1
         /\ \A i \in 1 .. Len(q) - 1 : Tail(q)[i] = q[i + 1]
OBVIOUS

\* What appending a chunk does.
LEMMA Appended ==
  ASSUME NEW q \in Seq(Nat), NEW m \in Nat
  PROVE  /\ Append(q, m) \in Seq(Nat) /\ Len(Append(q, m)) = Len(q) + 1
         /\ Len(q) \in Nat
         /\ \A i \in 1 .. Len(q) : Append(q, m)[i] = q[i]
         /\ Append(q, m)[Len(q) + 1] = m
OBVIOUS

\* Reading a chunk, when none is in hand.
LEMMA ReadKeeps == QueueInv /\ Read => QueueInv'
<1> SUFFICES ASSUME QueueInv, Read PROVE QueueInv'
  OBVIOUS
<1> USE DEF QueueInv, Read
<1>1. held = 0 /\ sent \in Nat /\ Len(queue) \in Nat
  BY DEF InHand, TypeOK
<1>2. TypeOK' /\ NewestKept' /\ InHand'
  BY <1>1 DEF TypeOK, NewestKept, InHand
<1>3. InOrder'
  BY <1>1 DEF InOrder
<1>4. Accounted'
  <2>1. (got \cup lost \subseteq 1 .. sent /\ (held # 0 => held \notin got \cup lost))'
    BY <1>1 DEF Accounted
  <2>2. ASSUME NEW m \in 1 .. sent'
        PROVE  (m \in got \cup lost \/ m = held
                \/ \E i \in 1 .. Len(queue) : queue[i] = m)'
    <3>1. CASE m = sent + 1
      BY <3>1
    <3>2. CASE m \in 1 .. sent
      <4>1. m # 0
        BY <1>1, <3>2
      <4>2. m \in got \cup lost \/ \E i \in 1 .. Len(queue) : queue[i] = m
        BY <1>1, <3>2, <4>1 DEF Accounted
      <4>. QED BY <4>2
    <3>. QED BY <1>1, <3>1, <3>2
  <2>. QED BY <2>1, <2>2 DEF Accounted
<1>. QED BY <1>2, <1>3, <1>4

\* Placing the chunk in hand, where there is room.
LEMMA PlaceKeeps ==
  ASSUME QueueInv, pc \in {"push", "again"}, Place,
         UNCHANGED <<kind, sent, overflows, stopped, consumer, got, lost>>
  PROVE  QueueInv'
<1> USE DEF QueueInv, Place
<1>1. /\ held = sent /\ sent \in Nat \ {0} /\ queue \in Seq(Nat)
      /\ queue' = Append(queue, held) /\ held' = 0 /\ pc' = "read"
      /\ Len(queue) \in Nat /\ Len(queue) < Cap
  BY DEF TypeOK, InHand
<1>2. /\ queue' \in Seq(Nat) /\ Len(queue') = Len(queue) + 1
      /\ \A i \in 1 .. Len(queue) : queue'[i] = queue[i]
      /\ queue'[Len(queue) + 1] = held
  BY <1>1, Appended
<1>3. TypeOK' /\ NewestKept' /\ InHand'
  BY <1>1, <1>2, QueueConstants DEF TypeOK, NewestKept, InHand
<1>4. InOrder'
  <2>1. \A i \in 1 .. Len(queue) :
           queue[i] \in 1 .. sent /\ queue[i] \notin got \cup lost /\ queue[i] < held
    BY <1>1 DEF InOrder
  <2>2. held \notin got \cup lost
    BY <1>1 DEF Accounted
  <2>3. ASSUME NEW i \in 1 .. Len(queue')
        PROVE  queue'[i] \in 1 .. sent /\ queue'[i] \notin got \cup lost
    <3>1. CASE i = Len(queue) + 1
      BY <1>1, <1>2, <2>2, <3>1
    <3>2. CASE i \in 1 .. Len(queue)
      BY <1>2, <2>1, <3>2
    <3>. QED BY <1>1, <1>2, <3>1, <3>2
  <2>4. ASSUME NEW i \in 1 .. Len(queue'), NEW j \in 1 .. Len(queue'), i < j
        PROVE  queue'[i] < queue'[j]
    <3>1. i \in 1 .. Len(queue) /\ queue'[i] = queue[i]
      BY <1>1, <1>2, <2>4
    <3>2. CASE j = Len(queue) + 1
      BY <1>2, <2>1, <3>1, <3>2
    <3>3. CASE j \in 1 .. Len(queue)
      BY <1>2, <2>4, <3>1, <3>3 DEF InOrder
    <3>. QED BY <1>1, <1>2, <3>2, <3>3
  <2>. QED BY <1>1, <2>3, <2>4 DEF InOrder
<1>5. Accounted'
  <2>1. (got \cup lost \subseteq 1 .. sent /\ (held # 0 => held \notin got \cup lost))'
    BY <1>1 DEF Accounted
  <2>2. ASSUME NEW m \in 1 .. sent
        PROVE  m \in got \cup lost \/ \E i \in 1 .. Len(queue') : queue'[i] = m
    <3>1. CASE m = held
      BY <1>1, <1>2, <3>1
    <3>2. CASE \E i \in 1 .. Len(queue) : queue[i] = m
      BY <1>1, <1>2, <3>2
    <3>. QED BY <3>1, <3>2 DEF Accounted
  <2>. QED BY <2>1, <2>2 DEF Accounted
<1>. QED BY <1>3, <1>4, <1>5

\* Taking the head of the queue away, whether it is got or lost.
LEMMA HeadLeaves ==
  ASSUME QueueInv, queue # <<>>,
         queue' = Tail(queue),
         got' \cup lost' = got \cup lost \cup {Head(queue)},
         UNCHANGED <<sent, held>>
  PROVE  InOrder' /\ Accounted'
<1> USE DEF QueueInv
<1>1. /\ sent \in Nat /\ held \in {0, sent} /\ queue \in Seq(Nat)
      /\ sent' = sent /\ held' = held
  BY DEF TypeOK
<1>2. /\ Len(queue) \in Nat \ {0} /\ Head(queue) = queue[1]
      /\ Len(queue') = Len(queue) - 1
      /\ \A i \in 1 .. Len(queue) - 1 : queue'[i] = queue[i + 1]
  BY <1>1, HeadTail
<1>3. /\ queue[1] \in 1 .. sent /\ (held # 0 => queue[1] < held)
      /\ \A i \in 2 .. Len(queue) : queue[1] < queue[i]
  BY <1>2 DEF InOrder
<1>4. InOrder'
  <2>1. ASSUME NEW i \in 1 .. Len(queue')
        PROVE  /\ queue'[i] \in 1 .. sent /\ queue'[i] \notin got' \cup lost'
               /\ held # 0 => queue'[i] < held
    <3>1. i + 1 \in 2 .. Len(queue) /\ queue'[i] = queue[i + 1]
      BY <1>2
    <3>2. /\ queue[i + 1] \in 1 .. sent /\ queue[i + 1] \notin got \cup lost
          /\ held # 0 => queue[i + 1] < held
      BY <1>2, <3>1 DEF InOrder
    <3>3. queue[i + 1] # Head(queue)
      BY <1>2, <1>3, <3>1, <3>2
    <3>. QED BY <3>1, <3>2, <3>3
  <2>2. ASSUME NEW i \in 1 .. Len(queue'), NEW j \in 1 .. Len(queue'), i < j
        PROVE  queue'[i] < queue'[j]
    <3>1. /\ i + 1 \in 1 .. Len(queue) /\ j + 1 \in 1 .. Len(queue) /\ i + 1 < j + 1
          /\ queue'[i] = queue[i + 1] /\ queue'[j] = queue[j + 1]
      BY <1>2, <2>2
    <3>. QED BY <3>1 DEF InOrder
  <2>. QED BY <1>1, <2>1, <2>2 DEF InOrder
<1>5. Accounted'
  <2>1. got' \cup lost' \subseteq 1 .. sent
    BY <1>2, <1>3 DEF Accounted
  <2>2. held # 0 => held \notin got' \cup lost'
    BY <1>1, <1>2, <1>3 DEF Accounted
  <2>3. ASSUME NEW m \in 1 .. sent
        PROVE  m \in got' \cup lost' \/ m = held
               \/ \E i \in 1 .. Len(queue') : queue'[i] = m
    <3>1. CASE \E i \in 1 .. Len(queue) : queue[i] = m
      <4>1. PICK k \in 1 .. Len(queue) : queue[k] = m
        BY <3>1
      <4>2. CASE k = 1
        BY <1>2, <4>1, <4>2
      <4>3. CASE k # 1
        <5>1. k - 1 \in 1 .. Len(queue') /\ queue'[k - 1] = queue[k]
          BY <1>2, <4>1, <4>3
        <5>. QED BY <4>1, <5>1
      <4>. QED BY <4>2, <4>3
    <3>. QED BY <3>1 DEF Accounted
  <2>. QED BY <1>1, <2>1, <2>2, <2>3 DEF Accounted
<1>. QED BY <1>4, <1>5

\* Steps that leave the chunks where they are.
LEMMA StillKeeps ==
  ASSUME QueueInv, UNCHANGED <<sent, held, queue, got, lost>>
  PROVE  InOrder' /\ Accounted'
BY DEF QueueInv, InOrder, Accounted

\* Room is made for the chunk in hand.
LEMMA DropKeeps == QueueInv /\ Drop => QueueInv'
<1> SUFFICES ASSUME QueueInv, Drop PROVE QueueInv'
  OBVIOUS
<1>1. queue \in Seq(Nat) /\ Len(queue) <= Cap /\ pc' = "count" /\ InHand /\ TypeOK
  BY DEF QueueInv, TypeOK, Drop
<1>2. CASE queue # <<>>
  <2>1. queue' = Tail(queue) /\ lost' = lost \cup {Head(queue)} /\ got' = got
        /\ UNCHANGED <<sent, held>>
    BY <1>2 DEF Drop
  <2>2. /\ queue' \in Seq(Nat) /\ Len(queue') = Len(queue) - 1 /\ Len(queue) \in Nat
        /\ Head(queue) \in Nat
    BY <1>1, <1>2, <2>1, HeadTail
  <2>3. got' \cup lost' = got \cup lost \cup {Head(queue)}
    BY <2>1
  <2>4. InOrder' /\ Accounted'
    BY <1>2, <2>1, <2>3, HeadLeaves
  <2>5. TypeOK'
    <3>1. (queue \in Seq(Nat) /\ Len(queue) <= Cap)'
      BY <1>1, <2>2, QueueConstants
    <3>2. (got \subseteq Nat /\ lost \subseteq Nat)'
      BY <1>1, <2>1, <2>2 DEF TypeOK
    <3>. QED BY <1>1, <2>1, <3>1, <3>2 DEF Drop, TypeOK
  <2>6. NewestKept' /\ InHand'
    BY <1>1, <2>1, <2>2, QueueConstants DEF Drop, NewestKept, InHand
  <2>. QED BY <2>4, <2>5, <2>6 DEF QueueInv
<1>3. CASE queue = <<>>
  <2>1. InOrder' /\ Accounted'
    BY <1>3, StillKeeps DEF Drop
  <2>2. Len(queue) = 0
    BY <1>3
  <2>3. TypeOK'
    BY <1>1, <1>3 DEF Drop, TypeOK
  <2>4. NewestKept' /\ InHand'
    BY <1>1, <1>3, <2>2, QueueConstants DEF Drop, NewestKept, InHand
  <2>. QED BY <2>1, <2>3, <2>4 DEF QueueInv
<1>. QED BY <1>2, <1>3

\* The decoding loop takes a chunk.
LEMMA TakeKeeps == QueueInv /\ Take => QueueInv'
<1> SUFFICES ASSUME QueueInv, Take PROVE QueueInv'
  OBVIOUS
<1>1. queue \in Seq(Nat) /\ queue # <<>> /\ TypeOK /\ NewestKept /\ InHand
  BY DEF QueueInv, TypeOK, Take
<1>2. /\ queue' = Tail(queue) /\ got' = got \cup {Head(queue)} /\ lost' = lost
      /\ UNCHANGED <<source, program, pc, sent, held, overflows, stopped>>
      /\ consumer' \in {"runs", "gone"}
  BY DEF Take, ConsumerAfterTake
<1>3. /\ queue' \in Seq(Nat) /\ Len(queue') = Len(queue) - 1 /\ Len(queue) \in Nat
      /\ Head(queue) \in Nat
  BY <1>1, <1>2, HeadTail
<1>4. got' \cup lost' = got \cup lost \cup {Head(queue)}
  BY <1>2
<1>5. InOrder' /\ Accounted'
  BY <1>1, <1>2, <1>4, HeadLeaves
<1>6. TypeOK'
  <2>1. (queue \in Seq(Nat) /\ Len(queue) <= Cap)'
    BY <1>1, <1>3, QueueConstants DEF TypeOK
  <2>2. (got \subseteq Nat /\ lost \subseteq Nat)'
    BY <1>1, <1>2, <1>3 DEF TypeOK
  <2>. QED BY <1>1, <1>2, <2>1, <2>2 DEF TypeOK
<1>7. NewestKept' /\ InHand'
  BY <1>1, <1>2, <1>3, QueueConstants DEF NewestKept, InHand
<1>. QED BY <1>5, <1>6, <1>7 DEF QueueInv

\* Every step keeps the invariant.
LEMMA QueueStep == QueueInv /\ [Next]_vars => QueueInv'
<1> SUFFICES ASSUME QueueInv, [Next]_vars PROVE QueueInv'
  OBVIOUS
<1>1. TypeOK /\ NewestKept /\ InHand
  BY DEF QueueInv
<1>2. CASE Read
  BY <1>2, ReadKeeps
<1>3. CASE Push
  BY <1>3, PlaceKeeps DEF Push
<1>4. CASE Drop
  BY <1>4, DropKeeps
<1>5. CASE Take
  BY <1>5, TakeKeeps
<1>6. CASE PushAgain
  <2>1. Len(queue) < Cap
    BY <1>1, <1>6 DEF PushAgain, NewestKept
  <2>2. Place /\ UNCHANGED <<kind, sent, overflows, stopped, consumer, got, lost>>
    BY <1>6, <2>1 DEF PushAgain
  <2>. QED BY <1>6, <2>2, PlaceKeeps DEF PushAgain
<1>7. CASE ReadEnds \/ GiveUp \/ NoRoom \/ Count \/ ConsumerEnds \/ Stop \/ UNCHANGED vars
  <2>1. InOrder' /\ Accounted'
    BY <1>7, StillKeeps DEF ReadEnds, GiveUp, NoRoom, Count, ConsumerEnds, Stop, vars
  <2>2. TypeOK'
    <3>1. CASE Stop
      <4>1. stopped' \in BOOLEAN
        BY <3>1 DEF Stop
      <4>. QED BY <1>1, <3>1, <4>1 DEF TypeOK, Stop
    <3>2. CASE ReadEnds \/ GiveUp \/ NoRoom
      BY <1>1, <3>2 DEF TypeOK, ReadEnds, GiveUp, NoRoom
    <3>3. CASE Count
      BY <1>1, <3>3 DEF TypeOK, Count
    <3>4. CASE ConsumerEnds
      BY <1>1, <3>4 DEF TypeOK, ConsumerEnds
    <3>5. CASE UNCHANGED vars
      BY <1>1, <3>5 DEF TypeOK, vars
    <3>. QED BY <1>7, <3>1, <3>2, <3>3, <3>4, <3>5
  <2>3. NewestKept' /\ InHand'
    BY <1>1, <1>7
       DEF NewestKept, InHand, ReadEnds, GiveUp, NoRoom, Count, ConsumerEnds, Stop, vars
  <2>. QED BY <2>1, <2>2, <2>3 DEF QueueInv
<1>. QED BY <1>2, <1>3, <1>4, <1>5, <1>6, <1>7 DEF Next, Reader, Consumer

\* The invariant the other theorems rest on.
THEOREM QueueInvAlways == Spec => []QueueInv
BY QueueStart, QueueStep, PTL DEF Spec

\* The machine keeps its types; in particular the queue never exceeds its
\* capacity, with both loops at it.
THEOREM TypeCorrect == Spec => []TypeOK
<1>1. QueueInv => TypeOK
  BY DEF QueueInv
<1>. QED BY <1>1, QueueInvAlways, PTL

\* The chunk just read is never the one that is dropped: readLoop's second
\* attempt to send it finds room.
THEOREM NewestAlwaysKept == Spec => []NewestKept
<1>1. QueueInv => NewestKept
  BY DEF QueueInv
<1>. QED BY <1>1, QueueInvAlways, PTL

-----------------------------------------------------------------------------
(* The losses.                                                             *)

\* Only a socket's loop makes room, and every chunk it drops is on the counter.
LossInv ==
    /\ IsFiniteSet(lost) /\ LossIsShown
    /\ ~Lossy => pc \notin {"drop", "count", "again"}

\* Every step keeps the counter ahead of the losses.
LEMMA LossStep == QueueInv /\ LossInv /\ [Next]_vars => LossInv'
<1> SUFFICES ASSUME QueueInv, LossInv, [Next]_vars PROVE LossInv'
  OBVIOUS
<1>1. /\ overflows \in Nat /\ IsFiniteSet(lost) /\ Cardinality(lost) \in Nat
      /\ Cardinality(lost) <= overflows + (IF pc = "count" THEN 1 ELSE 0)
      /\ ~Lossy => lost = {} /\ pc \notin {"drop", "count", "again"}
  BY FS_CardinalityType DEF QueueInv, TypeOK, LossInv, LossIsShown
<1>2. CASE Drop
  <2>1. source' = source /\ pc = "drop" /\ pc' = "count" /\ overflows' = overflows /\ Lossy
    BY <1>1, <1>2 DEF Drop
  <2>2. CASE queue # <<>>
    <3>1. lost' = lost \cup {Head(queue)}
      BY <1>2, <2>2 DEF Drop
    <3>2. IsFiniteSet(lost') /\ Cardinality(lost') <= Cardinality(lost) + 1
          /\ Cardinality(lost') \in Nat
      BY <1>1, <3>1, FS_AddElement, FS_CardinalityType
    <3>. QED BY <1>1, <2>1, <3>2 DEF LossInv, LossIsShown
  <2>3. CASE queue = <<>>
    <3>1. lost' = lost
      BY <1>2, <2>3 DEF Drop
    <3>. QED BY <1>1, <2>1, <3>1 DEF LossInv, LossIsShown
  <2>. QED BY <2>2, <2>3
<1>3. CASE Count
  BY <1>1, <1>3 DEF Count, LossInv, LossIsShown
<1>4. CASE Push \/ PushAgain
  <2>1. source' = source /\ lost' = lost /\ pc' = "read" /\ overflows' = overflows
        /\ pc # "count"
    BY <1>4 DEF Push, PushAgain, Place, QueueInv, NewestKept
  <2>. QED BY <1>1, <2>1 DEF LossInv, LossIsShown
<1>5. CASE Read \/ ReadEnds \/ GiveUp \/ NoRoom
  <2>1. source' = source /\ lost' = lost /\ overflows' = overflows
        /\ pc # "count" /\ pc' # "count"
        /\ (~Lossy => pc' \notin {"drop", "count", "again"})
    BY <1>5 DEF Read, ReadEnds, GiveUp, NoRoom
  <2>. QED BY <1>1, <2>1 DEF LossInv, LossIsShown
<1>6. CASE Take \/ ConsumerEnds \/ Stop \/ UNCHANGED vars
  <2>1. source' = source /\ lost' = lost /\ overflows' = overflows /\ pc' = pc
    BY <1>6 DEF Take, ConsumerEnds, Stop, vars
  <2>. QED BY <1>1, <2>1 DEF LossInv, LossIsShown
<1>. QED BY <1>2, <1>3, <1>4, <1>5, <1>6 DEF Next, Reader, Consumer

\* The overflow counter of the monitor accounts for every chunk that was
\* dropped, and a file loses none.
THEOREM LossAlwaysShown == Spec => []LossIsShown
<1>1. Init => LossInv
  BY FS_EmptySet DEF Init, LossInv, LossIsShown
<1>2. LossInv => LossIsShown
  BY DEF LossInv
<1>. QED BY <1>1, <1>2, LossStep, QueueInvAlways, PTL DEF Spec

-----------------------------------------------------------------------------
(* The refinement.                                                         *)

\* Taking the head delivers the oldest undecided chunk.
LEMMA TakeDelivers == QueueInv /\ Take => Fifo!Deliver
<1> SUFFICES ASSUME QueueInv, Take PROVE Fifo!Deliver
  OBVIOUS
<1> USE DEF QueueInv
<1>1. queue \in Seq(Nat) /\ queue # <<>> /\ sent \in Nat /\ held \in {0, sent}
  BY DEF TypeOK, Take
<1>2. Len(queue) \in Nat \ {0} /\ Head(queue) = queue[1]
  BY <1>1, HeadTail
<1>3. queue[1] \in 1 .. sent /\ queue[1] \notin got \cup lost
  BY <1>2 DEF InOrder
<1>4. ASSUME NEW m \in 1 .. queue[1] - 1
      PROVE  m \in got \cup lost
  <2>1. m \in 1 .. sent /\ m < queue[1]
    BY <1>1, <1>3
  <2>2. m # held
    <3>1. held # 0 => queue[1] < held
      BY <1>2 DEF InOrder
    <3>. QED BY <1>1, <1>3, <2>1, <3>1
  <2>3. \A i \in 1 .. Len(queue) : queue[i] # m
    <3>1. ASSUME NEW i \in 1 .. Len(queue) PROVE queue[i] # m
      <4>1. i = 1 \/ queue[1] < queue[i]
        BY <1>2 DEF InOrder
      <4>2. queue[i] \in Nat
        BY <1>1
      <4>. QED BY <1>3, <2>1, <4>1, <4>2
    <3>. QED BY <3>1
  <2>. QED BY <2>1, <2>2, <2>3 DEF Accounted
<1>. QED BY <1>2, <1>3, <1>4 DEF Take, Fifo!Deliver, Fifo!Decided

\* Making room loses a chunk, or none.
LEMMA DropLoses == QueueInv /\ Drop => Fifo!Lose \/ UNCHANGED Fifo!fifoVars
<1> SUFFICES ASSUME QueueInv, Drop PROVE Fifo!Lose \/ UNCHANGED Fifo!fifoVars
  OBVIOUS
<1>1. CASE queue # <<>>
  <2>1. queue \in Seq(Nat)
    BY DEF QueueInv, TypeOK
  <2>2. Len(queue) \in Nat \ {0} /\ Head(queue) = queue[1]
    BY <1>1, <2>1, HeadTail
  <2>3. Head(queue) \in 1 .. sent /\ Head(queue) \notin got \cup lost
    BY <2>2 DEF QueueInv, InOrder
  <2>. QED BY <1>1, <2>3 DEF Drop, Fifo!Lose, Fifo!Decided
<1>2. CASE queue = <<>>
  BY <1>2 DEF Drop, Fifo!fifoVars
<1>. QED BY <1>1, <1>2

\* The queue of both monitors is a lossy FIFO: chunks come out in order and at
\* most once, and one that is passed over was dropped.
THEOREM QueueImplementsFifo == Spec => FifoSpec
<1>1. Init => Fifo!Init
  BY DEF Init, Fifo!Init
<1>2. QueueInv /\ [Next]_vars => [Fifo!Next]_(Fifo!fifoVars)
  <2> SUFFICES ASSUME QueueInv, [Next]_vars PROVE Fifo!Next \/ UNCHANGED Fifo!fifoVars
    OBVIOUS
  <2>1. CASE Read
    BY <2>1 DEF Read, Fifo!Next, Fifo!Send
  <2>2. CASE Take
    BY <2>2, TakeDelivers DEF Fifo!Next
  <2>3. CASE Drop
    BY <2>3, DropLoses DEF Fifo!Next
  <2>4. CASE Push \/ PushAgain
    <3>1. pc = "again" => Len(queue) < Cap
      BY DEF QueueInv, NewestKept
    <3>. QED BY <2>4, <3>1 DEF Push, PushAgain, Fifo!fifoVars
  <2>5. CASE ReadEnds \/ GiveUp \/ NoRoom \/ Count \/ ConsumerEnds \/ Stop \/ UNCHANGED vars
    BY <2>5 DEF ReadEnds, GiveUp, NoRoom, Count, ConsumerEnds, Stop, vars, Fifo!fifoVars
  <2>. QED BY <2>1, <2>2, <2>3, <2>4, <2>5 DEF Next, Reader, Consumer
<1>. QED BY <1>1, <1>2, QueueInvAlways, PTL DEF Spec, FifoSpec, Fifo!Spec
=============================================================================
