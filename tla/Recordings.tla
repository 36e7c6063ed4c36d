------------------------------- MODULE Recordings -------------------------------
(***************************************************************************)
(* The goroutines behind the DSP loop of std-t86 (internal/std-t86/server): *)
(* the audio worker (audio.go), the I/Q recorder (iqrecorder.go) and the     *)
(* order in which Pipeline.Stop (pipeline.go) ends them.                   *)
(*                                                                         *)
(* The DSP loop is reduced to the calls it may make for a chunk.  A send to *)
(* a full queue blocks its sender; a send to a closed one panics and is      *)
(* recovered, and the message is lost.  Samples are dropped instead.        *)
(* Abstracted: a chunk is one sample of I/Q, a burst its number; the filling *)
(* of gaps between bursts and the statistics are left out.                 *)
(***************************************************************************)
EXTENDS Integers, SequencesExt

CONSTANTS
    Seeds,       \* scramble values that are not 0
    AudioCap,    \* room in the audio queue (1024)
    IqCap,       \* room in the recorder's queue (64)
    BatchLen,    \* bursts decoded at a time (250)
    RingLen,     \* pre-roll (5 s)
    TailLen,     \* recorded after the end (2 s)
    RecordMax,   \* longest recording (600 s)
    FlushLen,    \* recorded between two writes of the file (10 s)
    MaxChunks, MaxWindows, MaxBursts  \* bounds on the input

ASSUME RecordingConstants ==
    /\ 0 \notin Seeds
    /\ AudioCap \in Nat \ {0} /\ IqCap \in Nat \ {0} /\ BatchLen \in Nat \ {0}
    /\ RingLen \in Nat /\ TailLen \in Nat
    /\ RecordMax \in Nat \ {0} /\ FlushLen \in Nat \ {0}
    /\ MaxChunks \in Nat /\ MaxWindows \in Nat /\ MaxBursts \in Nat

Windows == 1 .. MaxWindows
Bursts == 1 .. MaxBursts
Chunks == 1 .. MaxChunks

VARIABLES
    \* the DSP loop
    dsp,       \* where it is
    input,     \* chunks taken; inputOver: there is no more
    inputOver,
    todo,      \* sends the call under way has still to make
    opened,    \* windows begun so far
    open,      \* those that are not ended
    pushed,    \* bursts handed over so far, each with its window
    seed,      \* audioWorker.seed
    \* the audio worker
    audioQ, audioOpen, audioDone,
    pending,   \* windowAudio.pending
    decided,   \* what became of the bursts taken from pending (wa.pcm: "decoded")
    wav,       \* bursts in the window's WAV file
    sidecar,   \* what the text beside it says of the I/Q file
    \* the I/Q recorder
    iqQ, iqOpen, iqPC,
    ring, rec,
    finished,  \* the window whose sidecar is to be written anew
    reopen,    \* the window to record next, 0 for none
    iqStat,    \* windowInfo.IQ: the I/Q file as the state shows it
    files, dropped,
    beganAt, endedAt,   \* input when a window began and ended
    \* Pipeline.Stop
    stop

dspVars == <<dsp, input, inputOver, todo, opened, open, pushed, seed, beganAt,
             endedAt>>
audioVars == <<audioDone, pending, decided, wav, sidecar>>
recVars == <<iqPC, ring, rec, finished, reopen, iqStat, files>>
vars == <<dspVars, audioVars, recVars, audioQ, audioOpen, iqQ, iqOpen, dropped,
          stop>>

Status == [len : Nat, done : BOOLEAN]
Unknown == [len |-> 0, done |-> FALSE]
Recording == [wid : Windows, parts : Seq(Chunks), since : Nat, tail : Int,
              hasTail : BOOLEAN]
NotRecording == [wid |-> 0]
IsRecording == rec # NotRecording

AudioMsg == [kind : {"burst", "close", "sidecar"}, wid : Windows, n : Nat]
IqMsg == [kind : {"iq", "open", "close"}, wid : 0 .. MaxWindows, n : Nat]

TypeOK ==
    /\ dsp \in {"wait", "calls", "last", "done"}
    /\ input \in 0 .. MaxChunks /\ inputOver \in BOOLEAN
    /\ todo \in Seq([to : {"audio"}, msg : AudioMsg] \cup [to : {"iq"}, msg : IqMsg])
    /\ opened \in 0 .. MaxWindows /\ open \subseteq 1 .. opened
    /\ pushed \in Seq(Windows) /\ Len(pushed) <= MaxBursts
    /\ seed \in Seeds \cup {0}
    /\ audioQ \in Seq(AudioMsg) /\ Len(audioQ) <= AudioCap
    /\ iqQ \in Seq(IqMsg) /\ Len(iqQ) <= IqCap
    /\ audioOpen \in BOOLEAN /\ audioDone \in BOOLEAN /\ iqOpen \in BOOLEAN
    /\ pending \in [Windows -> Seq(Bursts)]
    /\ decided \in [Windows -> Seq([n : Bursts, fate : {"decoded", "held", "failed"}])]
    /\ wav \in [Windows -> Nat]
    /\ sidecar \in [Windows -> Status] /\ iqStat \in [Windows -> Status]
    /\ iqPC \in {"run", "refresh", "last", "done"}
    /\ ring \in Seq(Chunks) /\ Len(ring) <= RingLen
    /\ rec \in Recording \cup {NotRecording}
    /\ finished \in 0 .. MaxWindows /\ reopen \in 0 .. MaxWindows
    /\ files \in Seq([wid : Windows, parts : Seq(Chunks)])
    /\ dropped \subseteq Chunks
    /\ beganAt \in [Windows -> 0 .. MaxChunks] /\ endedAt \in [Windows -> 0 .. MaxChunks]
    /\ stop \in {"running", "loops", "audio", "iq", "stopped"}

Init ==
    /\ dsp = "wait" /\ input = 0 /\ inputOver = FALSE /\ todo = <<>>
    /\ opened = 0 /\ open = {} /\ pushed = <<>> /\ seed \in Seeds \cup {0}
    /\ audioQ = <<>> /\ audioOpen = TRUE /\ audioDone = FALSE
    /\ pending = [w \in Windows |-> <<>>] /\ decided = [w \in Windows |-> <<>>]
    /\ wav = [w \in Windows |-> 0]
    /\ sidecar = [w \in Windows |-> Unknown] /\ iqStat = [w \in Windows |-> Unknown]
    /\ iqQ = <<>> /\ iqOpen = TRUE /\ iqPC = "run"
    /\ ring = <<>> /\ rec = NotRecording /\ finished = 0 /\ reopen = 0
    /\ files = <<>> /\ dropped = {}
    /\ beganAt = [w \in Windows |-> 0] /\ endedAt = [w \in Windows |-> 0]
    /\ stop = "running"

-----------------------------------------------------------------------------
(* Queues.                                                                 *)

\* Slip: a send to a closed queue is not recovered.
SendAudioPanics(m) ==
    /\ audioOpen /\ Len(audioQ) < AudioCap
    /\ audioQ' = Append(audioQ, m)

\* send and windowOpened, windowClosed: they block while the queue is full and
\* recover from the panic when it is closed.
SendAudio(m) ==
    \/ /\ audioOpen /\ Len(audioQ) < AudioCap
       /\ audioQ' = Append(audioQ, m)
    \/ /\ ~audioOpen
       /\ UNCHANGED audioQ
SendIq(m) ==
    \/ /\ iqOpen /\ Len(iqQ) < IqCap
       /\ iqQ' = Append(iqQ, m)
    \/ /\ ~iqOpen
       /\ UNCHANGED iqQ

\* push: no room, no sample.
PushSamples(n) ==
    IF iqOpen /\ Len(iqQ) < IqCap
    THEN /\ iqQ' = Append(iqQ, [kind |-> "iq", wid |-> 0, n |-> n])
         /\ UNCHANGED dropped
    ELSE /\ dropped' = dropped \cup {n}
         /\ UNCHANGED iqQ

ToAudio(kind, w, n) == [to |-> "audio", msg |-> [kind |-> kind, wid |-> w, n |-> n]]
ToIq(kind, w) == [to |-> "iq", msg |-> [kind |-> kind, wid |-> w, n |-> 0]]

-----------------------------------------------------------------------------
(* The DSP loop.                                                           *)

TakeChunk ==
    /\ dsp = "wait" /\ ~inputOver /\ input < MaxChunks
    /\ dsp' = "calls" /\ input' = input + 1
    /\ PushSamples(input + 1)
    /\ UNCHANGED <<inputOver, todo, opened, open, pushed, seed, beganAt, endedAt,
                   audioVars, recVars, audioQ, audioOpen, iqOpen, stop>>

\* The source ends, or is closed by Stop.
InputEnds ==
    /\ ~inputOver
    /\ inputOver' = TRUE
    /\ UNCHANGED <<dsp, input, todo, opened, open, pushed, seed, beganAt, endedAt,
                   audioVars, recVars, audioQ, audioOpen, iqQ, iqOpen, dropped,
                   stop>>

LastCalls ==
    /\ dsp = "wait" /\ inputOver
    /\ dsp' = "last"
    /\ UNCHANGED <<input, inputOver, todo, opened, open, pushed, seed, beganAt,
                   endedAt, audioVars, recVars, audioQ, audioOpen, iqQ, iqOpen,
                   dropped, stop>>

Calls ==
    /\ dsp \in {"calls", "last"} /\ todo = <<>>
    /\ UNCHANGED <<dsp, input, inputOver, audioVars, recVars, audioQ, audioOpen,
                   iqQ, iqOpen, dropped, stop>>

\* setSeed: a station found, pinned or lost, which the last calls cannot do.
SetSeed(s) ==
    /\ Calls /\ dsp = "calls" /\ s # seed
    /\ seed' = s
    /\ UNCHANGED <<todo, opened, open, pushed, beganAt, endedAt>>

\* A window that began: handleResult tells the recorder (the audio worker gets
\* its target, and the window when its first burst comes).
BeginWindow ==
    /\ Calls /\ dsp = "calls"
    /\ opened < MaxWindows /\ open \subseteq {opened}
    /\ opened' = opened + 1
    /\ open' = open \cup {opened + 1}
    /\ beganAt' = [beganAt EXCEPT ![opened + 1] = input]
    /\ todo' = <<ToIq("open", opened + 1)>>
    /\ UNCHANGED <<pushed, seed, endedAt>>

PushBurst(w) ==
    /\ Calls
    /\ w \in open /\ Len(pushed) < MaxBursts
    /\ pushed' = Append(pushed, w)
    /\ todo' = <<ToAudio("burst", w, Len(pushed) + 1)>>
    /\ UNCHANGED <<opened, open, seed, beganAt, endedAt>>

FinishWindow(w) ==
    /\ Calls
    /\ w \in open
    /\ open' = open \ {w}
    /\ endedAt' = [endedAt EXCEPT ![w] = input]
    /\ todo' = <<ToAudio("close", w, 0), ToIq("close", w)>>
    /\ UNCHANGED <<opened, pushed, seed, beganAt>>

DspSend ==
    /\ todo # <<>>
    /\ todo' = Tail(todo)
    /\ \/ /\ Head(todo).to = "audio" /\ SendAudio(Head(todo).msg)
          /\ UNCHANGED iqQ
       \/ /\ Head(todo).to = "iq" /\ SendIq(Head(todo).msg)
          /\ UNCHANGED audioQ
    /\ UNCHANGED <<dsp, input, inputOver, opened, open, pushed, seed, beganAt,
                   endedAt, audioVars, recVars, audioOpen, iqOpen, dropped, stop>>

\* The end of an iteration, in which only the newest window may go on, and of
\* the loop, which closes every window.
EndCalls ==
    /\ todo = <<>>
    /\ \/ dsp = "calls" /\ open \subseteq {opened} /\ dsp' = "wait"
       \/ dsp = "last" /\ open = {} /\ dsp' = "done"
    /\ UNCHANGED <<input, inputOver, todo, opened, open, pushed, seed, beganAt,
                   endedAt, audioVars, recVars, audioQ, audioOpen, iqQ, iqOpen,
                   dropped, stop>>

-----------------------------------------------------------------------------
(* The audio worker.                                                       *)

\* Where the bursts of a window are that were decoded: wa.pcm.
Pcm(d) == {i \in DOMAIN d : d[i].fate = "decoded"}

\* What decodeBatch does with the pending bursts under seed s: without a seed
\* they go undecoded, with one they are decoded or the decoder fails.
Fates(s) == IF s = 0 THEN {"held"} ELSE {"decoded", "failed"}

Settled(bursts, fate) ==
    [i \in DOMAIN bursts |-> [n |-> bursts[i], fate |-> fate]]

\* decodeBatch for the windows ws whose pending bursts are in p; writeWAV
\* follows, and the sidecar when there is sound to write.
DecodeBatch(ws, p) ==
    \E fate \in [ws -> Fates(seed)] :
        LET due == {w \in ws : p[w] # <<>>}
        IN /\ decided' = [w \in Windows |->
                 IF w \in due THEN decided[w] \o Settled(p[w], fate[w])
                 ELSE decided[w]]
           /\ pending' = [w \in Windows |-> IF w \in due THEN <<>> ELSE p[w]]
           /\ wav' = [w \in Windows |->
                 IF w \in due THEN Cardinality(Pcm(decided'[w])) ELSE wav[w]]
           /\ sidecar' = [w \in Windows |->
                 IF w \in due /\ wav'[w] > 0 THEN iqStat[w] ELSE sidecar[w]]

AudioBurst(m) ==
    LET p == [pending EXCEPT ![m.wid] = Append(@, m.n)]
    IN IF Len(p[m.wid]) >= BatchLen
       THEN DecodeBatch({m.wid}, p)
       ELSE /\ pending' = p
            /\ UNCHANGED <<decided, wav, sidecar>>

AudioSidecar(m) ==
    /\ sidecar' = IF wav[m.wid] > 0
                  THEN [sidecar EXCEPT ![m.wid] = iqStat[m.wid]] ELSE sidecar
    /\ UNCHANGED <<pending, decided, wav>>

AudioStep ==
    /\ audioQ # <<>>
    /\ audioQ' = Tail(audioQ)
    /\ LET m == Head(audioQ)
       IN \/ m.kind = "burst" /\ AudioBurst(m)
          \/ m.kind = "close" /\ DecodeBatch({m.wid}, pending)
          \/ m.kind = "sidecar" /\ AudioSidecar(m)
    /\ UNCHANGED <<dspVars, recVars, audioDone, audioOpen, iqQ, iqOpen, dropped,
                   stop>>

\* The queue is closed and empty: what is left is decoded, window by window.
AudioEnd ==
    /\ audioQ = <<>> /\ ~audioOpen /\ ~audioDone
    /\ audioDone' = TRUE
    /\ DecodeBatch(Windows, pending)
    /\ UNCHANGED <<dspVars, recVars, audioQ, audioOpen, iqQ, iqOpen, dropped, stop>>

-----------------------------------------------------------------------------
(* The I/Q recorder.                                                       *)

\* write: an empty recording leaves neither a file nor a status.
Shown(r, final) ==
    IF r.parts = <<>> THEN iqStat
    ELSE [iqStat EXCEPT ![r.wid] = [len |-> Len(r.parts), done |-> final]]

\* Slip: finalize leaves its sidecar to the next one.
FinalizeOnly(r, next, pc) ==
    /\ iqStat' = Shown(r, TRUE)
    /\ files' = IF r.parts = <<>> THEN files
                ELSE Append(files, [wid |-> r.wid, parts |-> r.parts])
    /\ IF next = 0
       THEN rec' = NotRecording /\ UNCHANGED ring
       ELSE /\ rec' = [wid |-> next, parts |-> ring, since |-> 0, tail |-> 0,
                       hasTail |-> FALSE]
            /\ ring' = <<>>
    /\ finished' = 0 /\ reopen' = 0
    /\ iqPC' = IF pc = "last" THEN "done" ELSE "run"

\* finalize writes the recording r and then asks for the sidecar, which may
\* block; next is the window whose start made it end, and pc where that leads.
Finalize(r, next, pc) ==
    /\ iqStat' = Shown(r, TRUE)
    /\ files' = IF r.parts = <<>> THEN files
                ELSE Append(files, [wid |-> r.wid, parts |-> r.parts])
    /\ rec' = NotRecording
    /\ finished' = r.wid
    /\ reopen' = next
    /\ iqPC' = pc
    /\ UNCHANGED ring

\* Slip: the file begins with the broadcast, the ring is thrown away.
NewRecordingBare(w) ==
    /\ rec' = [wid |-> w, parts |-> <<>>, since |-> 0, tail |-> 0,
               hasTail |-> FALSE]
    /\ ring' = <<>>

NewRecording(w) ==
    /\ rec' = [wid |-> w, parts |-> ring, since |-> 0, tail |-> 0,
               hasTail |-> FALSE]
    /\ ring' = <<>>

\* onSamples.
Preroll(n) ==
    LET all == Append(ring, n)
    IN /\ ring' = IF Len(all) > RingLen THEN Tail(all) ELSE all
       /\ UNCHANGED <<rec, finished, reopen, iqPC, iqStat, files>>
Record(n) ==
    LET longer == [rec EXCEPT !.parts = Append(@, n), !.since = @ + 1,
                              !.tail = IF rec.hasTail THEN @ - 1 ELSE @]
    IN IF \/ Len(longer.parts) >= RecordMax
          \/ longer.hasTail /\ longer.tail <= 0
       THEN Finalize(longer, 0, "refresh")
       ELSE /\ IF longer.since >= FlushLen
               THEN /\ rec' = [longer EXCEPT !.since = 0]
                    /\ iqStat' = Shown(longer, FALSE)
               ELSE /\ rec' = longer
                    /\ UNCHANGED iqStat
            /\ UNCHANGED <<ring, finished, reopen, iqPC, files>>
OnSamples(n) == IF IsRecording THEN Record(n) ELSE Preroll(n)

\* onOpen: the recording before, in its tail or not, ends here.
OnOpen(w) ==
    IF IsRecording
    THEN Finalize(rec, w, "refresh")
    ELSE /\ NewRecording(w)
         /\ UNCHANGED <<finished, reopen, iqPC, iqStat, files>>

\* onClose: only the window that is recorded can end its recording.
OnClose(w) ==
    /\ rec' = IF IsRecording /\ rec.wid = w
              THEN [rec EXCEPT !.tail = TailLen, !.hasTail = TRUE] ELSE rec
    /\ UNCHANGED <<ring, finished, reopen, iqPC, iqStat, files>>

IqStep ==
    /\ iqPC = "run" /\ iqQ # <<>>
    /\ iqQ' = Tail(iqQ)
    /\ LET m == Head(iqQ)
       IN \/ m.kind = "iq" /\ OnSamples(m.n)
          \/ m.kind = "open" /\ OnOpen(m.wid)
          \/ m.kind = "close" /\ OnClose(m.wid)
    /\ UNCHANGED <<dspVars, audioVars, audioQ, audioOpen, iqOpen, dropped, stop>>

\* refreshSidecar of the window whose file is complete, then onOpen goes on.
IqRefresh ==
    /\ iqPC \in {"refresh", "last"}
    /\ SendAudio([kind |-> "sidecar", wid |-> finished, n |-> 0])
    /\ iqPC' = IF iqPC = "last" THEN "done" ELSE "run"
    /\ IF reopen > 0 THEN NewRecording(reopen) ELSE UNCHANGED <<rec, ring>>
    /\ finished' = 0 /\ reopen' = 0
    /\ UNCHANGED <<dspVars, audioVars, iqStat, files, audioOpen, iqQ, iqOpen,
                   dropped, stop>>

IqEnd ==
    /\ iqPC = "run" /\ iqQ = <<>> /\ ~iqOpen
    /\ IF IsRecording
       THEN Finalize(rec, 0, "last")
       ELSE /\ iqPC' = "done"
            /\ UNCHANGED <<ring, rec, finished, reopen, iqStat, files>>
    /\ UNCHANGED <<dspVars, audioVars, audioQ, audioOpen, iqQ, iqOpen, dropped,
                   stop>>

-----------------------------------------------------------------------------
(* Pipeline.Stop: the loops, then the worker, then the recorder.           *)

Ended(from, to, over) ==
    /\ stop = from /\ over
    /\ stop' = to
    /\ UNCHANGED <<dspVars, audioVars, recVars, audioQ, iqQ, dropped>>
StopAsked == Ended("running", "loops", TRUE) /\ UNCHANGED <<audioOpen, iqOpen>>
\* Slip: the worker is stopped while the loop still runs.
LoopsNotAwaited ==
    /\ Ended("loops", "audio", TRUE)
    /\ audioOpen' = FALSE /\ UNCHANGED iqOpen

LoopsOver ==
    /\ Ended("loops", "audio", dsp = "done")
    /\ audioOpen' = FALSE /\ UNCHANGED iqOpen
AudioOver ==
    /\ Ended("audio", "iq", audioDone)
    /\ iqOpen' = FALSE /\ UNCHANGED audioOpen
IqOver == Ended("iq", "stopped", iqPC = "done") /\ UNCHANGED <<audioOpen, iqOpen>>

DspNext ==
    \/ TakeChunk \/ LastCalls \/ BeginWindow \/ DspSend \/ EndCalls
    \/ \E s \in Seeds \cup {0} : SetSeed(s)
    \/ \E w \in Windows : PushBurst(w) \/ FinishWindow(w)
AudioNext == AudioStep \/ AudioEnd
IqNext == IqStep \/ IqRefresh \/ IqEnd
StopNext == LoopsOver \/ AudioOver \/ IqOver

Terminated == stop = "stopped" /\ UNCHANGED vars

Next == InputEnds \/ DspNext \/ AudioNext \/ IqNext \/ StopAsked \/ StopNext \/ Terminated

\* The steps that take the loop to the end of an iteration.
DspProgress ==
    LastCalls \/ DspSend \/ EndCalls \/ \E w \in Windows : FinishWindow(w)

\* Every goroutine runs; the loop gets to the end of each iteration, which has
\* few messages, and a closed source ends (a read lasts at most a second).
Fairness ==
    /\ WF_vars(InputEnds /\ stop # "running")
    /\ WF_vars(DspProgress)
    /\ WF_vars(AudioNext) /\ WF_vars(IqNext) /\ WF_vars(StopNext)

Spec == Init /\ [][Next]_vars
FairSpec == Spec /\ Fairness

-----------------------------------------------------------------------------
(* Properties.                                                             *)

BurstsOf(w) == {n \in DOMAIN pushed : pushed[n] = w}

\* What the worker has had of a window, in the order of its decoding, and the
\* messages on their way that bring it more.
HandledOf(w) == [i \in DOMAIN decided[w] |-> decided[w][i].n] \o pending[w]
Messages == audioQ \o [i \in DOMAIN todo |-> todo[i].msg]
QueuedOf(w) == {i \in DOMAIN Messages : Messages[i].kind = "burst" /\ Messages[i].wid = w}

Increasing(s) == \A i, j \in DOMAIN s : i < j => s[i] < s[j]

VoiceInOrder(w) ==
    /\ Increasing(HandledOf(w))
    /\ \A i, j \in QueuedOf(w) : i < j => Messages[i].n < Messages[j].n
    /\ \A n \in ToSet(HandledOf(w)), i \in QueuedOf(w) : n < Messages[i].n
VoiceComplete(w) ==
    ToSet(HandledOf(w)) \cup {Messages[i].n : i \in QueuedOf(w)} = BurstsOf(w)

\* The window is over and the worker has been told.
EndHandled(w) ==
    /\ w \in (1 .. opened) \ open
    /\ todo = <<>> /\ \A i \in DOMAIN audioQ : audioQ[i].wid # w

\* The voice pushed for a window comes out in order, none twice and none
\* missing; once the end of the window is handled, or the worker has stopped,
\* none waits and the WAV file holds all that was decoded: pushBurst,
\* windowClosed and the order of Stop.
VoiceReachesFile ==
    \A w \in Windows :
        /\ VoiceInOrder(w) /\ VoiceComplete(w)
        /\ EndHandled(w) \/ audioDone =>
               pending[w] = <<>> /\ wav[w] = Cardinality(Pcm(decided[w]))

\* When worker and recorder are at rest the text beside a WAV file tells of the
\* finished I/Q file: finalize asks for it after the state has it.
SidecarComplete ==
    audioOpen /\ audioQ = <<>> /\ iqPC = "run" =>
        \A w \in Windows :
            wav[w] > 0 /\ iqStat[w].done => sidecar[w] = iqStat[w]

\* An I/Q file is an unbroken stretch of what the recorder's queue took, and no
\* two files share input.
FilesAreStretches ==
    /\ \A i \in DOMAIN files :
          LET p == files[i].parts
          IN /\ Increasing(p)
             /\ \A c \in Head(p) .. Last(p) : c \in ToSet(p) \/ c \in dropped
    /\ \A i, j \in DOMAIN files :
          i # j => ToSet(files[i].parts) \cap ToSet(files[j].parts) = {}

\* When the program has stopped every broadcast is recorded from its beginning
\* to its end, with the pre-roll before it unless an earlier file has that;
\* only what the queue had no room for, or a full file, is missing: commands
\* and samples go through one queue, and Stop ends the recorder last.
Full(f) == Len(f.parts) >= RecordMax
FilesOf(w) == {files[i] : i \in {j \in DOMAIN files : files[j].wid = w}}
Taken(from, to) == (from .. to) \ dropped
BroadcastsRecorded ==
    stop = "stopped" =>
        \A w \in 1 .. opened :
            \/ \E f \in FilesOf(w) : Full(f)
            \/ /\ \A c \in Taken(beganAt[w] + 1, endedAt[w]) :
                      \E f \in FilesOf(w) : c \in ToSet(f.parts)
               /\ \A c \in Taken(1, beganAt[w]) :
                      Cardinality(Taken(c, beganAt[w])) <= RingLen =>
                          \E i \in DOMAIN files : c \in ToSet(files[i].parts)

\* The I/Q files, with the types of every part.
FilesInv == TypeOK /\ FilesAreStretches /\ BroadcastsRecorded

\* A program asked to stop stops: the loops, the worker and the recorder send to
\* one another while they are stopped in turn.
StopEnds == stop = "loops" ~> stop = "stopped"
=============================================================================
