----------------------------- MODULE LivePipeline -----------------------------
(***************************************************************************)
(* dspLoop of the STD-T86 monitor (internal/std-t86/server/pipeline.go): it  *)
(* takes a chunk of samples, serves the requests of the web handlers, feeds *)
(* the decoder, publishes what came out, and runs its timers.  One goroutine *)
(* does all of it; the web handlers only store requests it swaps out.       *)
(*                                                                         *)
(* A chunk holds SlotsPerChunk slots and the timers count chunks.           *)
(***************************************************************************)
EXTENDS StreamingDecoder

CONSTANTS
    CfgSeed,        \* Config.Seed, 0 for automatic detection
    Pins,           \* what RequestSeedPin may be asked for; 0 is "automatic"
    MaxRequests,    \* bound: requests of the web handlers
    SlotsPerChunk,
    AcquireSlots,   \* samples the front end acquires the carrier with
    ResetAfter,     \* chunks without control channel (controlResetS)
    AbandonAfter,   \* chunks without a valid message (broadcastAbandonS)
    LongestBroadcast \* slots a window may stay open (broadcastMaxS)

SeedPinAuto == -1

ASSUME PipelineConstants ==
    /\ CfgSeed \in Stations \cup {0}
    /\ Pins \subseteq Stations \cup {0}
    /\ MaxRequests \in Nat
    /\ SlotsPerChunk \in Nat \ {0} /\ AcquireSlots \in Nat \ {0}
    /\ ResetAfter \in Nat \ {0} /\ AbandonAfter \in Nat \ {0}
    /\ LongestBroadcast \in Nat

VARIABLES
    stage,        \* where dspLoop is
    requests,     \* Pipeline.seedPinReq and cfoResetReq, stored by the web handlers
    carrier,      \* cfoCorrector: acquired, and the slots kept until it is
    seedPin,      \* Pipeline.seedPin
    shown,        \* liveState: seed, lastSeed and the broadcast on air
    audioSeed,    \* audioWorker.seed
    result,       \* the FeedResult being handled
    left,         \* slots of the chunk still to come
    armed, hadValid, sinceControl, sinceValid,  \* dspLoop's timers
    closed,       \* ids sent to audioWorker.windowClosed
    asked         \* requests made so far (history)

loopVars == <<stage, requests, carrier, seedPin, shown, audioSeed, result, left,
              armed, hadValid, sinceControl, sinceValid, closed, asked>>
timers == <<armed, hadValid, sinceControl, sinceValid>>
vars == <<decoderVars, loopVars>>

Stages == {"wait", "pin", "setPin", "begin", "feed", "seed", "handle", "timers",
           "unlock", "watchdog", "flushed", "finish", "stopped"}

TypeOK ==
    /\ DecoderTypeOK
    /\ stage \in Stages
    /\ requests \in [pin : Stations \cup {0, SeedPinAuto}, cfo : BOOLEAN]
    /\ carrier \in [acquired : BOOLEAN, kept : 0 .. AcquireSlots - 1]
    /\ seedPin \in Stations \cup {0, SeedPinAuto}
    /\ shown \in [seed : Stations \cup {0}, lastSeed : Stations \cup {0},
                  active : Nat]
    /\ audioSeed \in Stations \cup {0}
    /\ result \in Result
    /\ left \in 0 .. SlotsPerChunk + AcquireSlots - 1
    /\ armed \in BOOLEAN /\ hadValid \in BOOLEAN
    /\ sinceControl \in 0 .. ResetAfter
    /\ sinceValid \in 0 .. AbandonAfter
    /\ closed \in SUBSET Nat
    /\ asked \in 0 .. MaxRequests

Searching == [acquired |-> FALSE, kept |-> 0]

Init ==
    /\ DecoderInit /\ seed = CfgSeed
    /\ stage = "wait"
    /\ requests = [pin |-> 0, cfo |-> FALSE]
    /\ carrier = Searching
    /\ seedPin = 0
    /\ shown = [seed |-> CfgSeed, lastSeed |-> 0, active |-> 0]
    /\ audioSeed = CfgSeed
    /\ result = NoResult
    /\ left = 0
    /\ armed = FALSE /\ hadValid = FALSE
    /\ sinceControl = 0 /\ sinceValid = 0
    /\ closed = {} /\ asked = 0

FixedSeed == IF seedPin > 0 THEN seedPin
             ELSE IF seedPin = SeedPinAuto THEN 0 ELSE CfgSeed

-----------------------------------------------------------------------------
(* The web handlers.                                                       *)

Ask == asked < MaxRequests /\ asked' = asked + 1

RequestSeedPin(key) ==
    /\ Ask
    /\ requests' = [requests EXCEPT !.pin = IF key > 0 THEN key ELSE SeedPinAuto]
    /\ UNCHANGED <<decoderVars, stage, carrier, seedPin, shown, audioSeed,
                   result, left, closed, timers>>

RequestCFOReset ==
    /\ Ask
    /\ requests' = [requests EXCEPT !.cfo = TRUE]
    /\ UNCHANGED <<decoderVars, stage, carrier, seedPin, shown, audioSeed,
                   result, left, closed, timers>>

-----------------------------------------------------------------------------
(* A chunk and the requests.                                               *)

Tick(count, limit) == IF count < limit THEN count + 1 ELSE count

\* The chunk is counted and the requests are taken out.
TakeChunk ==
    /\ stage = "wait" /\ now + carrier.kept + SlotsPerChunk <= MaxPos
    /\ sinceValid' = Tick(sinceValid, AbandonAfter)
    /\ requests' = [pin |-> 0, cfo |-> FALSE]
    /\ carrier' = IF requests.cfo THEN Searching ELSE carrier
    /\ IF requests.pin = 0
       THEN /\ stage' = "begin"
            /\ sinceControl' = Tick(sinceControl, ResetAfter)
            /\ UNCHANGED <<seedPin, armed, hadValid>>
       ELSE /\ stage' = "pin"
            /\ seedPin' = requests.pin
            /\ armed' = FALSE /\ hadValid' = FALSE /\ sinceControl' = 0
    /\ UNCHANGED <<decoderVars, shown, audioSeed, result, left, closed>>

PinnedSeed == IF seedPin = SeedPinAuto THEN 0 ELSE seedPin

\* finishWindow: the monitor is told, and the audio worker may write the file.
FinishOpen ==
    /\ shown' = [shown EXCEPT
          !.active = IF IsOpen(tracker) /\ @ = tracker.open.id THEN 0 ELSE @]
    /\ closed' = IF IsOpen(tracker) THEN closed \cup {tracker.open.id} ELSE closed

\* Slip: the broadcast is abandoned without telling anyone.
AbandonSilently ==
    /\ stage = "pin"
    /\ stage' = "setPin"
    /\ IF PinnedSeed # shown.seed /\ shown.seed # 0
       THEN ResetBroadcast ELSE UNCHANGED decoderVars
    /\ UNCHANGED <<shown, closed, requests, carrier, seedPin, audioSeed,
                   result, left, timers>>

\* applySeedPin first abandons the broadcast when the seed really changes.
AbandonForPin ==
    /\ stage = "pin"
    /\ stage' = "setPin"
    /\ IF PinnedSeed # shown.seed /\ shown.seed # 0
       THEN ResetBroadcast /\ FinishOpen
       ELSE UNCHANGED <<decoderVars, shown, closed>>
    /\ UNCHANGED <<requests, carrier, seedPin, audioSeed, result, left,
                   timers>>

\* The bursts PinSeed lets go are all its result holds.
SetPin ==
    /\ stage = "setPin"
    /\ stage' = "begin"
    /\ IF PinnedSeed = 0 THEN ResetSeed ELSE PinSeed(PinnedSeed)
    /\ result' = res'
    /\ shown' = [shown EXCEPT !.seed = PinnedSeed,
                              !.lastSeed = IF PinnedSeed = 0 THEN @ ELSE PinnedSeed]
    /\ audioSeed' = PinnedSeed
    /\ UNCHANGED <<requests, carrier, seedPin, left, closed, timers>>

\* The front end (cfoCorrector.process) hands on what it has kept once the
\* carrier is acquired; until then whole acquisition spans, uncorrected.
Kept == carrier.kept + SlotsPerChunk
HandOn(n) ==
    \/ carrier.acquired /\ n = SlotsPerChunk /\ carrier' = carrier
    \/ /\ ~carrier.acquired /\ Kept >= AcquireSlots
       /\ n = Kept
       /\ carrier' = [acquired |-> TRUE, kept |-> 0]
    \/ /\ ~carrier.acquired
       /\ n = Kept - (Kept % AcquireSlots)
       /\ carrier' = [acquired |-> FALSE, kept |-> Kept % AcquireSlots]

StartFeed ==
    /\ stage = "begin" /\ stage' = "feed"
    /\ BeginFeed
    /\ \E n \in 1 .. Kept : HandOn(n) /\ left' = n
    /\ UNCHANGED <<requests, seedPin, shown, audioSeed, result, closed,
                   timers>>

\* Feed returns at once when the front end hands nothing on.
SkipFeed ==
    /\ stage = "begin" /\ stage' = "seed"
    /\ HandOn(0)
    /\ EmptyFeed
    /\ result' = res'
    /\ UNCHANGED <<requests, seedPin, shown, audioSeed, left, closed, timers>>

FeedStep ==
    /\ stage = "feed"
    /\ pc = "feed" => left > 0
    /\ Slot \/ Replay
    /\ left' = left - (now' - now)
    /\ UNCHANGED <<stage, requests, carrier, seedPin, shown, audioSeed,
                   result, closed, timers>>

EndChunk ==
    /\ stage = "feed" /\ stage' = "seed"
    /\ left = 0
    /\ EndFeed
    /\ result' = res'
    /\ UNCHANGED <<requests, carrier, seedPin, shown, audioSeed, left, closed,
                   timers>>

-----------------------------------------------------------------------------
(* handleResult.                                                           *)

\* onSeedDetected: a seed other than the last one means another station, and
\* the broadcast that is open is abandoned.
SeedDetected ==
    /\ stage = "seed" /\ stage' = "handle"
    /\ IF result.detected = 0
       THEN UNCHANGED <<decoderVars, shown, audioSeed, closed>>
       ELSE LET moved == shown.lastSeed \notin {0, result.detected}
                on == IF moved /\ IsOpen(tracker) /\ shown.active = tracker.open.id
                      THEN 0 ELSE shown.active
            IN /\ audioSeed' = result.detected
               /\ shown' = [seed |-> result.detected, lastSeed |-> result.detected,
                            active |-> on]
               /\ IF moved THEN ResetBroadcast /\ closed' = closed \cup OpenIds
                  ELSE UNCHANGED <<decoderVars, closed>>
    /\ UNCHANGED <<requests, carrier, seedPin, result, left, timers>>

EndedIds(r) == {r.ended[i].id : i \in DOMAIN r.ended}

\* Slip: the ends are handled before the starts.
HandleEndsFirst ==
    LET on == IF shown.active \in EndedIds(result) THEN 0 ELSE shown.active
    IN /\ stage \in {"handle", "flushed"}
       /\ stage' = IF stage = "handle" THEN "timers" ELSE "finish"
       /\ shown' = [shown EXCEPT !.active =
              IF result.started = <<>> THEN on
              ELSE result.started[Len(result.started)]]
       /\ closed' = closed \cup EndedIds(result)
       /\ UNCHANGED <<decoderVars, requests, carrier, seedPin, audioSeed,
                      result, left, timers>>

\* The rest of it: starts, then bursts, then ends.
HandleResult ==
    LET on == IF result.started = <<>> THEN shown.active
              ELSE result.started[Len(result.started)]
    IN /\ stage \in {"handle", "flushed"}
       /\ stage' = IF stage = "handle" THEN "timers" ELSE "finish"
       /\ shown' = [shown EXCEPT !.active = IF on \in EndedIds(result) THEN 0 ELSE on]
       /\ closed' = closed \cup EndedIds(result)
       /\ UNCHANGED <<decoderVars, requests, carrier, seedPin, audioSeed,
                      result, left, timers>>

-----------------------------------------------------------------------------
(* The timers.                                                             *)

\* A message with a good CRC arms the loss timer, and so do messages that can
\* only be read wrongly because the seed is another station's.
WrongSeed == FixedSeed = 0 /\ seed # 0 /\ result.control
Arms == (hadValid \/ result.valid \/ WrongSeed) /\ ~armed
SinceControl == IF result.valid \/ Arms THEN 0 ELSE sinceControl
Lost == (armed \/ Arms) /\ SinceControl >= ResetAfter

\* Without a control channel for ResetAfter the loop forgets the station: the
\* monitor is cleared, unless a broadcast is open, ...
LoseSignal ==
    /\ stage = "timers" /\ Lost
    /\ stage' = "unlock"
    /\ SignalLost
    /\ carrier' = Searching
    /\ shown' = [shown EXCEPT !.active = IF IsOpen(tracker) THEN @ ELSE 0]
    /\ armed' = FALSE /\ hadValid' = FALSE /\ sinceControl' = 0
    /\ UNCHANGED <<requests, seedPin, audioSeed, result, left, sinceValid,
                   closed>>

\* Slip: a pinned seed is given up too.
UnlockPinned ==
    /\ stage = "unlock" /\ stage' = "watchdog"
    /\ ResetSeed /\ shown' = [shown EXCEPT !.seed = 0] /\ audioSeed' = 0
    /\ UNCHANGED <<requests, carrier, seedPin, result, left, closed, timers>>

\* ... and the seed is searched for again, unless it was fixed.
Unlock ==
    /\ stage = "unlock" /\ stage' = "watchdog"
    /\ IF FixedSeed = 0
       THEN ResetSeed /\ shown' = [shown EXCEPT !.seed = 0] /\ audioSeed' = 0
       ELSE UNCHANGED <<decoderVars, shown, audioSeed>>
    /\ UNCHANGED <<requests, carrier, seedPin, result, left, closed, timers>>

KeepSignal ==
    /\ stage = "timers" /\ ~Lost
    /\ stage' = "watchdog"
    /\ armed' = (armed \/ Arms)
    /\ hadValid' = (hadValid \/ result.valid)
    /\ sinceControl' = SinceControl
    /\ sinceValid' = IF result.valid THEN 0 ELSE sinceValid
    /\ UNCHANGED <<decoderVars, requests, carrier, seedPin, shown, audioSeed,
                   result, left, closed>>

Overdue ==
    IsOpen(tracker) /\ \/ sinceValid >= AbandonAfter
                       \/ now - tracker.open.openPos >= LongestBroadcast

\* A broadcast that has stalled, or lasts too long, is abandoned.
Watchdog ==
    /\ stage = "watchdog" /\ stage' = "wait"
    /\ IF Overdue THEN ResetBroadcast /\ FinishOpen
       ELSE UNCHANGED <<decoderVars, shown, closed>>
    /\ result' = NoResult
    /\ UNCHANGED <<requests, carrier, seedPin, audioSeed, left, timers>>

-----------------------------------------------------------------------------
(* The end of the source.                                                  *)

SourceEnds ==
    /\ stage = "wait" /\ stage' = "flushed"
    /\ Flush
    /\ result' = res'
    /\ UNCHANGED <<requests, carrier, seedPin, shown, audioSeed, left, closed,
                   timers>>

Finish ==
    /\ stage = "finish" /\ stage' = "stopped"
    /\ ResetBroadcast /\ FinishOpen
    /\ UNCHANGED <<requests, carrier, seedPin, audioSeed, result, left,
                   timers>>

Loop ==
    \/ TakeChunk \/ AbandonForPin \/ SetPin
    \/ StartFeed \/ SkipFeed \/ FeedStep \/ EndChunk
    \/ SeedDetected \/ HandleResult
    \/ LoseSignal \/ Unlock \/ KeepSignal \/ Watchdog
    \/ SourceEnds \/ Finish

Next == (Loop /\ UNCHANGED asked) \/ RequestCFOReset \/ \E key \in Pins : RequestSeedPin(key)

Spec == Init /\ [][Next]_vars

-----------------------------------------------------------------------------
(* Safety.                                                                 *)

\* Between two chunks the decoder, the audio worker and the monitor use the
\* same seed, and it is the one that was pinned if one was: three copies,
\* written by four handlers (pipeline.go resetOnSignalLoss, applySeedPin,
\* onSeedDetected; decoder.go applyDetectedSeed).
SeedAgreement ==
    stage = "wait" =>
        /\ shown.seed = seed /\ audioSeed = seed
        /\ FixedSeed # 0 => seed = FixedSeed

\* With the types of all three parts, the decoder and its tracker included.
PipelineInv == TypeOK /\ SeedAgreement

\* The audio worker gets no burst of a broadcast after its close, which makes
\* it write the file (audio.go run), as long as nobody asks for a pin or a new
\* carrier (decoder.go releaseEnded looks at the smoother, not at the bursts that
\* wait for a seed).  A broadcast that was abandoned is closed at once.
BurstsBeforeClose ==
    asked = 0 /\ stage \in {"handle", "flushed"} =>
        \A i \in DOMAIN result.voice :
            result.voice[i].id \in closed => result.voice[i].id \in AbandonedIds

\* The broadcast the monitor shows as on air is open in the decoder, or its
\* end is still held back there; a second request may pin a station and let it
\* go again, and the search then finds "another" one (NewBroadcastKept).
ActiveIsFollowed ==
    asked <= 1 /\ stage = "wait" /\ shown.active # 0
        => shown.active \in OpenIds \cup BacklogIds

\* When the loop has stopped every broadcast it announced has been closed.
AllClosed == stage = "stopped" => told.started \subseteq closed

\* A broadcast that begins is detected (readme.md "放送が始まると通報として検出される"):
\* one announced in this result is still followed, or has ended.  The switch to
\* another station abandons "the broadcast" of the former one (pipeline.go
\* onSeedDetected), but by then the open one is what the replay of the new
\* station's slots has opened: violated with two stations.
NewBroadcastKept ==
    stage = "handle" =>
        Elements(result.started) \subseteq OpenIds \cup BacklogIds \cup EndedIds(result)
=============================================================================
