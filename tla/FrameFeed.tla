------------------------------- MODULE FrameFeed -------------------------------
(***************************************************************************)
(* The STD-T115 receiver from samples to superframes: the decoder of blocks  *)
(* and the assembler, as the command (cmd/std-t115/qpsknarrow/main.go, run)   *)
(* and the monitor (server/pipeline.go, Run and onVoice) join them: the       *)
(* frames of every Feed are handled in their order, and each voice frame is   *)
(* pushed and the complete superframes taken before the next.               *)
(***************************************************************************)
EXTENDS BlockFeed, Superframes

\* Both packages have the same length of frame; a unit is less than half of it.
ASSUME FeedConstants ==
    /\ 0 .. End \subseteq Times /\ FrameNos \subseteq Voices
    /\ Period = Frame /\ Frame > 2

vars == <<blockVars, asmVars>>

\* The one-bit serial number runs on through the frames of the air.
SerialOf(n) == n % 2

Init == BlockInit /\ AsmInit

IsVoice(f) == f.ok /\ f.n \notin Control

\* No Push is under way and its superframes have been taken.
Idle == call = NoCall /\ asm.out = <<>>

Samples == Idle /\ BlockNext /\ UNCHANGED asmVars

HandleVoice ==
    /\ Idle /\ ~feeding /\ frames # <<>> /\ IsVoice(Head(frames))
    /\ Push(Head(frames).t, SerialOf(Head(frames).n), Head(frames).n)
    /\ frames' = Tail(frames)
    /\ UNCHANGED <<phase, dec, fed, feeding, flushed, air>>

HandleOther ==
    /\ Idle /\ ~feeding /\ frames # <<>> /\ ~IsVoice(Head(frames))
    /\ frames' = Tail(frames)
    /\ UNCHANGED <<phase, dec, fed, feeding, flushed, air, asmVars>>

Assemble == (Fill \/ Accept \/ TakeSuperframes) /\ UNCHANGED blockVars

Next == Samples \/ HandleVoice \/ HandleOther \/ Assemble

Spec == Init /\ [][Next]_vars

\* The loop of the caller runs.
FairSpec == Spec /\ WF_vars((FeedBlock \/ FeedEnds) /\ UNCHANGED asmVars)

TypeOK == BlockTypeOK /\ AsmTypeOK

-----------------------------------------------------------------------------
InAirOrder == \A k \in 1 .. Len(air.given) - 1 : air.given[k] < air.given[k + 1]

\* The radio frame at place p of the superframes.
Played(p) == Made[(p + 1) \div 2][2 - (p % 2)].voice

\* The sound keeps the time of the air: while frames came in order and no gap was
\* longer than the cap, two radio frames in the superframes are as far from one
\* another as on the air, whatever was missed, spoiled or not yet descrambled
\* between them.
TimeKept ==
    InAirOrder /\ asm.capped = 0 =>
        \A p, q \in 1 .. 2 * Len(Made) :
            Played(p) # Lost /\ Played(q) # Lost => Played(p) - Played(q) = p - q

\* The frames of the blocks and the types of both parts: none falls between two
\* blocks, one that was found is given, once unless its time lies at the edge of a
\* bin, and late only if it was missed at first (decoder.go Feed, decodeAt).
FramesInv == TypeOK /\ NothingSkipped /\ FoundIsGiven /\ OncePerFrame /\ LateOnlyIfMissed
=============================================================================
