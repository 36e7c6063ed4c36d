------------------------------ MODULE SampleQueue ------------------------------
(***************************************************************************)
(* readLoop and the bounded queue it fills (internal/std-t86/server/         *)
(* pipeline.go, internal/std-t115/qpsknarrow/server/pipeline.go: the same    *)
(* loop), with the loop that empties it.  A source that cannot wait (a       *)
(* socket) makes room by dropping the oldest chunk; a file waits.            *)
(* Abstracted: chunks are numbered; an empty read, which changes nothing but *)
(* the log, is left out.                                                   *)
(***************************************************************************)
EXTENDS Integers, Sequences, FiniteSets

CONSTANTS
    Cap,       \* sampleQueueChunks (32), sampleQueue (8)
    MaxChunks  \* bound: the input ends here

ASSUME QueueConstants ==
    /\ Cap \in Nat \ {0} /\ MaxChunks \in Nat

VARIABLES
    source,     \* "socket" or "file"
    program,    \* "t86" or "t115"
    pc,         \* of readLoop
    sent,       \* chunks read
    held,       \* the one in readLoop's hand, or 0
    queue,      \* sampCh, samples
    overflows,
    stopped,    \* the stop channel is closed
    consumer,   \* "runs" or "gone"
    got, lost   \* what came out, what was dropped (history)

kind == <<source, program>>
vars == <<kind, pc, sent, held, queue, overflows, stopped, consumer, got, lost>>

Lossy == source = "socket"
\* STD-T86 decodes what was read before the stop.
Drains == program = "t86"

TypeOK ==
    /\ source \in {"socket", "file"} /\ program \in {"t86", "t115"}
    /\ pc \in {"read", "push", "drop", "count", "again", "over"}
    /\ sent \in Nat /\ held \in {0, sent}
    /\ queue \in Seq(Nat) /\ Len(queue) <= Cap
    /\ overflows \in Nat
    /\ stopped \in BOOLEAN /\ consumer \in {"runs", "gone"}
    /\ got \subseteq Nat /\ lost \subseteq Nat

Init ==
    /\ source \in {"socket", "file"} /\ program \in {"t86", "t115"}
    /\ pc = "read" /\ sent = 0 /\ held = 0 /\ queue = <<>> /\ overflows = 0
    /\ stopped = FALSE /\ consumer = "runs"
    /\ got = {} /\ lost = {}

-----------------------------------------------------------------------------
(* readLoop.                                                               *)

Read ==
    /\ pc = "read" /\ ~stopped /\ sent < MaxChunks
    /\ pc' = "push" /\ sent' = sent + 1 /\ held' = sent + 1
    /\ UNCHANGED <<kind, queue, overflows, stopped, consumer, got, lost>>

\* Slip: only the end of the source ends the loop, and a closed one just falls
\* silent.
ReadEndsAtEof ==
    /\ pc = "read" /\ ~stopped
    /\ pc' = "over"
    /\ UNCHANGED <<kind, sent, held, queue, overflows, stopped, consumer, got, lost>>

\* The source ends, or the loop finds that it is to stop.
ReadEnds ==
    /\ pc = "read"
    /\ pc' = "over"
    /\ UNCHANGED <<kind, sent, held, queue, overflows, stopped, consumer, got, lost>>

Place ==
    /\ Len(queue) < Cap
    /\ queue' = Append(queue, held)
    /\ pc' = "read" /\ held' = 0

Push ==
    /\ pc = "push" /\ Place
    /\ UNCHANGED <<kind, sent, overflows, stopped, consumer, got, lost>>

\* A file waits for room or for the stop.
GiveUp ==
    /\ pc = "push" /\ ~Lossy /\ stopped
    /\ pc' = "over"
    /\ UNCHANGED <<kind, sent, held, queue, overflows, stopped, consumer, got, lost>>

\* A socket cannot wait.
NoRoom ==
    /\ pc = "push" /\ Lossy /\ Len(queue) = Cap
    /\ pc' = "drop"
    /\ UNCHANGED <<kind, sent, held, queue, overflows, stopped, consumer, got, lost>>

\* Room is made, unless the consumer has taken everything meanwhile.
Drop ==
    /\ pc = "drop"
    /\ pc' = "count"
    /\ IF queue # <<>>
       THEN lost' = lost \cup {Head(queue)} /\ queue' = Tail(queue)
       ELSE UNCHANGED <<kind, lost, queue>>
    /\ UNCHANGED <<kind, sent, held, overflows, stopped, consumer, got>>

\* Slip: the loss is not counted.
CountNot ==
    /\ pc = "count"
    /\ pc' = "again"
    /\ UNCHANGED <<kind, sent, held, queue, overflows, stopped, consumer, got, lost>>

Count ==
    /\ pc = "count"
    /\ pc' = "again"
    /\ overflows' = overflows + 1
    /\ UNCHANGED <<kind, sent, held, queue, stopped, consumer, got, lost>>

PushAgain ==
    /\ pc = "again"
    /\ IF Len(queue) < Cap
       THEN Place /\ UNCHANGED lost
       ELSE /\ lost' = lost \cup {held}
            /\ pc' = "read" /\ held' = 0
            /\ UNCHANGED queue
    /\ UNCHANGED <<kind, sent, overflows, stopped, consumer, got>>

-----------------------------------------------------------------------------
(* The consumer and the stop.                                              *)

\* STD-T115 looks at the stop when it has taken a chunk.
ConsumerAfterTake == IF stopped /\ ~Drains THEN "gone" ELSE "runs"

\* Slip: the newest chunk is taken.
TakeNewest ==
    /\ consumer = "runs" /\ queue # <<>>
    /\ got' = got \cup {queue[Len(queue)]}
    /\ queue' = SubSeq(queue, 1, Len(queue) - 1)
    /\ consumer' = ConsumerAfterTake
    /\ UNCHANGED <<kind, pc, sent, held, overflows, stopped, lost>>

Take ==
    /\ consumer = "runs" /\ queue # <<>>
    /\ got' = got \cup {Head(queue)}
    /\ queue' = Tail(queue)
    /\ consumer' = ConsumerAfterTake
    /\ UNCHANGED <<kind, pc, sent, held, overflows, stopped, lost>>

\* readLoop has closed the queue, and it is empty.
ConsumerEnds ==
    /\ consumer = "runs" /\ pc = "over" /\ queue = <<>>
    /\ consumer' = "gone"
    /\ UNCHANGED <<kind, pc, sent, held, queue, overflows, stopped, got, lost>>

Stop ==
    /\ ~stopped
    /\ stopped' = TRUE
    /\ UNCHANGED <<kind, pc, sent, held, queue, overflows, consumer, got, lost>>

Reader == Read \/ ReadEnds \/ Push \/ GiveUp \/ NoRoom \/ Drop \/ Count \/ PushAgain
Consumer == Take \/ ConsumerEnds
Next == Reader \/ Consumer \/ Stop

Spec == Init /\ [][Next]_vars

\* A read returns within a second, and both goroutines run.
FairSpec == Spec /\ WF_vars(Reader) /\ WF_vars(Consumer)

-----------------------------------------------------------------------------
(* Properties.                                                             *)

\* The queue is a lossy FIFO, whatever the consumer does between the steps in
\* which readLoop makes room.
Fifo == INSTANCE LossyFifo WITH sent <- sent, got <- got, lost <- lost
FifoSpec == Fifo!Spec

\* What is dropped is the oldest, never the chunk just read: once readLoop has
\* made room there is room, because nobody else fills the queue.
NewestKept == pc \in {"count", "again"} => Len(queue) < Cap

\* The overflow counter the monitor shows never tells of fewer chunks than were
\* dropped, but for the one that is being counted; a file loses nothing.
LossIsShown ==
    /\ Cardinality(lost) <= overflows + (IF pc = "count" THEN 1 ELSE 0)
    /\ ~Lossy => lost = {}

\* Asked to stop, both loops end, whoever waits for whom: a file's reader before
\* a full queue whose consumer has gone, a consumer before an empty queue.
StopEnds == stopped ~> pc = "over" /\ consumer = "gone"
=============================================================================
