---------------------------- MODULE VoiceBroadcasts ----------------------------
(***************************************************************************)
(* The Run loop of the STD-T115 monitor (internal/std-t115/qpsknarrow/      *)
(* server/pipeline.go): it finds broadcasts in the radio frames, collects   *)
(* their voice, records their I/Q and saves them.  One goroutine does it;    *)
(* readLoop hands it the input in chunks.                                  *)
(*                                                                         *)
(* Time is counted in radio frames (80 ms).  The decoder works on blocks    *)
(* that overlap: a frame it did not find in one block it may find in the    *)
(* next, after later ones.  Abstracted: where frames lie between two         *)
(* counts, the assembly of voice frames into superframes (any number comes  *)
(* out), the contents of messages but their type and call number.           *)
(***************************************************************************)
EXTENDS IqFiles, Sequences

CONSTANTS
    Calls,            \* call numbers; 0 is also that of a broadcast joined late
    MidJoinFrames,    \* voice frames that open a broadcast (12)
    SilenceClose,     \* frames without a signal that close one (3 s)
    LongestBroadcast, \* 15 min
    BatchSFs,         \* superframes decoded at a time (13)
    SFsPerFrame,      \* bound: superframes one voice frame completes
    ChunkFrames,      \* input taken at a time
    Overlap,          \* of the decoder's blocks (OverlapSec)
    Lag,              \* input that does not fill a block yet
    MaxTime           \* bound: the input ends here

ASSUME BroadcastConstants ==
    /\ Calls \subseteq Nat
    /\ MidJoinFrames \in Nat \ {0} /\ BatchSFs \in Nat \ {0}
    /\ SilenceClose \in Nat /\ LongestBroadcast \in Nat
    /\ SFsPerFrame \in Nat /\ ChunkFrames \in Nat \ {0}
    /\ Overlap \in Nat /\ Lag \in Nat /\ MaxTime \in Nat

\* The pre-roll (iqPrerollSec = 5 s, and the decoder's lag on top) is longer
\* than what frames can come behind the input and a late join counts back.
ASSUME PrerollCovers == RingMax >= ChunkFrames + Lag + Overlap + MidJoinFrames

VARIABLES
    pc,           \* where Run is
    now,          \* time up to which the block's frames are handled
    block,        \* ProcessedSamples: the end of the block
    seen,         \* times of frames already given, where blocks overlap
    ended,        \* the source is at its end
    current,      \* the broadcast on air
    lastActivity, voiceRun, nextBCID,
    broadcasts,   \* those that are over
    pendSFs,      \* superframes to be decoded, each with the broadcast on air
                  \* when it came
    iqr,          \* the I/Q recorder
    saved,        \* ids given to saveBroadcast and announced as ended
    aired,        \* which broadcast's voice went into which one's file
    failed        \* the voice decoder failed (history)

vars == <<pc, now, block, seen, ended, current, lastActivity, voiceRun, nextBCID,
          broadcasts, pendSFs, iqr, saved, aired, failed>>

Reasons == {"onAir", "otherCall", "disconnect", "silence", "limit", "end"}
Broadcast == [id : Nat, call : Nat, start : Int, stop : Int, midJoin : BOOLEAN,
              reason : Reasons]

None == [id |-> 0, call |-> 0, start |-> 0, stop |-> 0, midJoin |-> FALSE,
         reason |-> "onAir"]
OnAir == current # None

TypeOK ==
    /\ pc \in {"wait", "frames", "silence", "limit", "flush", "end", "close",
               "record", "done", "stopped"}
    /\ now \in 0 .. MaxTime /\ block \in now .. MaxTime
    /\ seen \in SUBSET (0 .. MaxTime)
    /\ ended \in BOOLEAN
    /\ current \in Broadcast
    /\ lastActivity \in 0 .. MaxTime
    /\ voiceRun \in 0 .. MaxTime
    /\ nextBCID \in Nat \ {0}
    /\ broadcasts \in Seq(Broadcast)
    /\ pendSFs \in Seq(0 .. nextBCID - 1)
    /\ iqr \in Recorder
    /\ saved \in SUBSET (1 .. nextBCID - 1)
    /\ aired \in SUBSET [of : Nat, to : Nat]
    /\ failed \in BOOLEAN

Init ==
    /\ pc = "wait" /\ now = 0 /\ block = 0 /\ seen = {} /\ ended = FALSE
    /\ current = None
    /\ lastActivity = 0 /\ voiceRun = 0 /\ nextBCID = 1
    /\ broadcasts = <<>> /\ pendSFs = <<>>
    /\ iqr = NewRecorder
    /\ saved = {} /\ aired = {} /\ failed = FALSE

-----------------------------------------------------------------------------
(* Voice.                                                                  *)

Decoded(n) == {[of |-> pendSFs[i], to |-> current.id] : i \in 1 .. n}

\* Slip: nothing is decoded before a whole batch is there.
FlushWhole(force) ==
    LET take == Len(pendSFs) - (Len(pendSFs) % BatchSFs)
    IN /\ pendSFs' = SubSeq(pendSFs, take + 1, Len(pendSFs))
       /\ aired' = aired \cup Decoded(take)
       /\ UNCHANGED failed

\* flushAudio decodes whole batches, or everything when forced; a batch whose
\* decoding fails is lost and the rest stays.
FlushAudio(force) ==
    LET take == IF force THEN Len(pendSFs)
                ELSE Len(pendSFs) - (Len(pendSFs) % BatchSFs)
    IN \/ /\ pendSFs' = SubSeq(pendSFs, take + 1, Len(pendSFs))
          /\ aired' = aired \cup Decoded(take)
          /\ UNCHANGED failed
       \/ \E n \in 0 .. take - 1 :
             /\ n % BatchSFs = 0
             /\ pendSFs' = SubSeq(pendSFs, Sooner(n + BatchSFs, take) + 1,
                                  Len(pendSFs))
             /\ aired' = aired \cup Decoded(n)
             /\ failed' = TRUE

-----------------------------------------------------------------------------
(* Broadcasts.                                                             *)

Finished(at, reason) == [current EXCEPT !.stop = at, !.reason = reason]

\* Slip: the run of voice frames goes on over the end.
CloseBroadcastKeepsRun(at, reason) ==
    /\ FlushAudio(TRUE)
    /\ IF OnAir
       THEN /\ broadcasts' = Append(broadcasts, Finished(at, reason))
            /\ current' = None
            /\ iqr' = RecStop(iqr)
            /\ saved' = saved \cup {current.id}
            /\ UNCHANGED voiceRun
       ELSE UNCHANGED <<broadcasts, current, voiceRun, iqr, saved>>

\* closeBroadcast: the rest of the voice, then the record, the end of the I/Q,
\* the file and the announcement.
CloseBroadcast(at, reason) ==
    /\ FlushAudio(TRUE)
    /\ IF OnAir
       THEN /\ broadcasts' = Append(broadcasts, Finished(at, reason))
            /\ current' = None
            /\ voiceRun' = 0
            /\ iqr' = RecStop(iqr)
            /\ saved' = saved \cup {current.id}
       ELSE UNCHANGED <<broadcasts, current, voiceRun, iqr, saved>>

\* openBroadcast: the start of another call puts an end to the broadcast on
\* air; a repeated start is ignored.  A broadcast joined late has no call.
Opened(at, call, midJoin) ==
    [id |-> nextBCID, call |-> call, start |-> at, stop |-> 0,
     midJoin |-> midJoin, reason |-> "onAir"]

OpenBroadcast(at, call, midJoin) ==
    IF OnAir /\ (midJoin \/ current.call = call)
    THEN UNCHANGED <<broadcasts, current, voiceRun, nextBCID, iqr>>
    ELSE /\ broadcasts' = IF OnAir
                          THEN Append(broadcasts, Finished(at, "otherCall"))
                          ELSE broadcasts
         /\ current' = Opened(at, call, midJoin)
         /\ nextBCID' = nextBCID + 1
         /\ voiceRun' = 0
         /\ iqr' = RecStart(iqr, nextBCID)

-----------------------------------------------------------------------------
(* Frames.                                                                 *)

\* The next frame of the block; one that was given before is not found again.
NextFrame ==
    /\ pc = "frames" /\ now < block /\ now \notin seen
    /\ now' = now + 1
    /\ seen' = seen \cup {now}
Active == lastActivity' = now

NoFrame ==
    /\ pc = "frames" /\ now < block
    /\ now' = now + 1
    /\ UNCHANGED <<pc, block, seen, ended, current, lastActivity, voiceRun,
                   nextBCID, broadcasts, pendSFs, iqr, saved, aired, failed>>

\* A frame that says nothing of broadcasts; a talk channel without voice ends
\* the run of voice frames.
OtherFrame ==
    /\ NextFrame /\ Active
    /\ voiceRun' \in {voiceRun, 0}
    /\ UNCHANGED <<pc, block, ended, current, nextBCID, broadcasts, pendSFs, iqr,
                   saved, aired, failed>>

NotifyStart(call) ==
    /\ NextFrame /\ Active
    /\ OpenBroadcast(now, call, FALSE)
    /\ UNCHANGED <<pc, block, ended, pendSFs, saved, aired, failed>>

Disconnect ==
    /\ NextFrame /\ Active
    /\ CloseBroadcast(now, "disconnect")
    /\ UNCHANGED <<pc, block, ended, nextBCID>>

\* onVoice: enough voice without a start means the broadcast began before the
\* receiver was there.
VoiceFrame ==
    /\ NextFrame /\ Active
    /\ IF ~OnAir /\ voiceRun + 1 >= MidJoinFrames
       THEN OpenBroadcast(now - MidJoinFrames, 0, TRUE)
       ELSE voiceRun' = voiceRun + 1
            /\ UNCHANGED <<broadcasts, current, nextBCID, iqr>>
    /\ \E n \in 0 .. SFsPerFrame :
          pendSFs' = pendSFs \o [i \in 1 .. n |-> current'.id]
    /\ UNCHANGED <<pc, block, ended, saved, aired, failed>>

-----------------------------------------------------------------------------
(* Chunks.                                                                 *)

\* The block to `end' begins inside the last one.
Block(end) ==
    /\ block' = end
    /\ now' = Later(0, block - Overlap)
    /\ seen' = {t \in seen : t >= now'}

\* The recorder is fed before the decoder, whose frames come later.
TakeChunk ==
    /\ pc = "wait" /\ iqr.pos + ChunkFrames <= MaxTime
    /\ pc' = "frames"
    /\ iqr' = RecFeed(iqr, ChunkFrames)
    /\ \E end \in Later(block, iqr'.pos - Lag) .. iqr'.pos : Block(end)
    /\ UNCHANGED <<ended, current, lastActivity, voiceRun, nextBCID, broadcasts,
                   pendSFs, saved, aired, failed>>

FramesDone ==
    /\ pc = "frames" /\ now = block
    /\ pc' = "silence"
    /\ UNCHANGED <<now, block, seen, ended, current, lastActivity, voiceRun,
                   nextBCID, broadcasts, pendSFs, iqr, saved, aired, failed>>

\* handleFrames goes on to the silence, the limit and the voice.
CheckSilence ==
    /\ pc = "silence" /\ pc' = "limit"
    /\ IF OnAir /\ block - lastActivity > SilenceClose
       THEN CloseBroadcast(lastActivity, "silence")
       ELSE UNCHANGED <<current, voiceRun, broadcasts, pendSFs, iqr, saved,
                        aired, failed>>
    /\ UNCHANGED <<now, block, seen, ended, lastActivity, nextBCID>>

CheckLimit ==
    /\ pc = "limit" /\ pc' = "flush"
    /\ IF OnAir /\ block - current.start > LongestBroadcast
       THEN CloseBroadcast(block, "limit")
       ELSE UNCHANGED <<current, voiceRun, broadcasts, pendSFs, iqr, saved,
                        aired, failed>>
    /\ UNCHANGED <<now, block, seen, ended, lastActivity, nextBCID>>

ChunkDone ==
    /\ pc = "flush"
    /\ pc' = IF ended THEN "end" ELSE "wait"
    /\ FlushAudio(FALSE)
    /\ UNCHANGED <<now, block, seen, ended, current, lastActivity, voiceRun,
                   nextBCID, broadcasts, iqr, saved>>

\* The end of the source: the decoder gives what it has left.
SourceEnds ==
    /\ pc = "wait"
    /\ ended' = TRUE
    /\ pc' = "frames"
    /\ Block(iqr.pos)
    /\ UNCHANGED <<current, lastActivity, voiceRun, nextBCID, broadcasts,
                   pendSFs, iqr, saved, aired, failed>>

FlushLast ==
    /\ pc = "end" /\ pc' = "close"
    /\ FlushAudio(TRUE)
    /\ UNCHANGED <<now, block, seen, ended, current, lastActivity, voiceRun,
                   nextBCID, broadcasts, iqr, saved>>

CloseLast ==
    /\ pc = "close" /\ pc' = "record"
    /\ CloseBroadcast(iqr.pos, "end")
    /\ UNCHANGED <<now, block, seen, ended, lastActivity, nextBCID>>

RecordLast ==
    /\ pc = "record" /\ pc' = "done"
    /\ iqr' = RecFlush(iqr)
    /\ UNCHANGED <<now, block, seen, ended, current, lastActivity, voiceRun,
                   nextBCID, broadcasts, pendSFs, saved, aired, failed>>

\* Stop: Run returns as it is.
Stop ==
    /\ pc = "wait" /\ pc' = "stopped"
    /\ UNCHANGED <<now, block, seen, ended, current, lastActivity, voiceRun,
                   nextBCID, broadcasts, pendSFs, iqr, saved, aired, failed>>

Next ==
    \/ TakeChunk
    \/ NoFrame \/ OtherFrame \/ Disconnect \/ VoiceFrame
    \/ \E call \in Calls : NotifyStart(call)
    \/ FramesDone \/ CheckSilence \/ CheckLimit \/ ChunkDone
    \/ SourceEnds \/ FlushLast \/ CloseLast \/ RecordLast \/ Stop

Spec == Init /\ [][Next]_vars

-----------------------------------------------------------------------------
(* Properties.                                                             *)

ById(b) == {a \in aired : a.to = b.id}

\* A broadcast begins after the one before it is over and ends after it began,
\* but for what the blocks' overlap lets frames change places, twice for the
\* frames a late join counts back and one of these at least: what openBroadcast,
\* closeBroadcast and onVoice write into the list of broadcasts.
BroadcastsInOrder ==
    LET all == IF OnAir THEN Append(broadcasts, [current EXCEPT !.stop = block])
               ELSE broadcasts
        slack == Overlap + Later(1, Overlap)
    IN /\ \A i \in DOMAIN all : all[i].start <= all[i].stop + slack
       /\ \A i \in DOMAIN all \ {1} : all[i - 1].stop <= all[i].start + slack

\* The voice of a broadcast goes into its own file: flushAudio files a batch
\* under the broadcast on air when it is decoded, not when it came, and only
\* the start of another call or a failed decoding may come between.
VoiceKept ==
    LET cut == {broadcasts[i].id : i \in
                {j \in DOMAIN broadcasts : broadcasts[j].reason = "otherCall"}}
    IN failed \/ \A a \in aired : a.of \in {0, a.to} \cup cut

\* Once no broadcast is on air the recorder is on its way to stop, whichever
\* broadcast it was started for.
RecordingFollows == iqr.active /\ ~OnAir => iqr.stopAt > 0

\* The I/Q file of a broadcast begins with it or earlier and lasts to its end,
\* unless the input before is in an earlier file or the file is full: the
\* pre-roll of iqRecorder makes good that frames come behind the input.
Full(f) == f.to = f.from + RecordMax
FileHoldsBroadcast ==
    \A i \in DOMAIN broadcasts, f \in iqr.files :
        f.id = broadcasts[i].id =>
            /\ \/ f.from <= Later(0, broadcasts[i].start)
               \/ \E g \in iqr.files \ {f} :
                     g.to = f.from \/ (Full(g) /\ g.to < f.from)
            /\ f.to >= broadcasts[i].stop \/ Full(f)

\* No two I/Q files hold the same input.
FilesApart ==
    \A f, g \in iqr.files : f = g \/ f.to <= g.from \/ g.to <= f.from

\* What recorder and loop make of one another: types, the end of a recording, and
\* what is in the files (iqrecorder.go Start, Stop, Feed, finish; pipeline.go
\* openBroadcast, closeBroadcast).
RecorderInv == TypeOK /\ RecordingFollows /\ FileHoldsBroadcast /\ FilesApart

\* Every broadcast that has voice is saved and announced as ended, as the
\* command's help says ("a voice WAV and a text per broadcast").
EveryBroadcastSaved ==
    \A i \in DOMAIN broadcasts :
        ById(broadcasts[i]) # {} => broadcasts[i].id \in saved

\* When the source has ended every broadcast has its I/Q, as the command's help
\* says ("the I/Q of the broadcast"); it is said of those that did not cut off
\* the one before.
EveryBroadcastRecorded ==
    pc = "done" =>
        \A i \in DOMAIN broadcasts :
            \/ i > 1 /\ broadcasts[i - 1].reason = "otherCall"
            \/ broadcasts[i].reason = "otherCall"
            \/ \E f \in iqr.files : f.id = broadcasts[i].id
=============================================================================
