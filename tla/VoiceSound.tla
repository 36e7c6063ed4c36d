------------------------------ MODULE VoiceSound ------------------------------
(* The sound of one broadcast of std-t86 as the audio worker (server/audio.go)    *)
(* makes it: frames and the gaps before them (SlotGaps) are gathered in batches,  *)
(* decoded, concealed (scodec/conceal.go), counted, and told in a strip of one    *)
(* letter each.                                                                   *)
EXTENDS Naturals, Sequences, FiniteSets, FiniteSetsExt
CONSTANTS MaxFill,      \* maxGapFillFrames, 250
          BatchFrames,  \* batchFrames, 250
          MaxRepeat,    \* frames concealed by repeating the last good one, 2
          MaxEntries    \* bound: entries of the broadcast

VARIABLES seedKnown, \* the worker's seed is not 0
          pending,   \* wa.pending: "good", "bad" (by its CRC7) or "gap" (nil)
          conceal,   \* Concealer: lastGood is set, run
          stats,     \* wa.stats, with its quality strip; staleCnt
          pcm,       \* frames of sound appended to the window's pcm
          open,      \* the window is not closed yet
          told,      \* history: every entry made, in order
          skipped    \* history: entries dropped for want of a seed
soundVars == <<seedKnown, pending, conceal, stats, pcm, open, told, skipped>>

Count(s, S) == Cardinality({i \in DOMAIN s : s[i] \in S})

\* ApplyTraced: a good frame is kept and remembered; others repeat it, for a while.
Conceal(c, e) ==
    IF e = "good" THEN [lastGood |-> TRUE, run |-> 0] ELSE [c EXCEPT !.run = @ + 1]
Action(c, e) ==
    IF e = "good" THEN "none"
    ELSE IF c.lastGood /\ c.run < MaxRepeat THEN "repeat" ELSE "mute"

\* The concealer after the first n of the entries.
Concealing(entries) ==
    LET after[n \in 0..Len(entries)] ==
            IF n = 0 THEN conceal ELSE Conceal(after[n - 1], entries[n])
    IN after

\* qualityRun: the letter of an entry.
Letter(e, action) ==
    IF e = "good" THEN "o"
    ELSE IF e = "bad" THEN (IF action = "mute" THEN "X" ELSE "x")
    ELSE (IF action = "mute" THEN "_" ELSE "-")

\* decodeBatch: nothing at all without entries; they are counted, then dropped if
\* there is no seed, else concealed, told in letters and decoded (decodeAndAppend).
\* The voice decoder may fail (ok = FALSE), after the counters and the strip.
DecodeBatch(entries, ok) ==
    LET nReal == Count(entries, {"good", "bad"})
        counted == [stats EXCEPT !.frames = @ + nReal, !.filled = @ + Len(entries) - nReal,
                                 !.staleTold = stats.stale]
        after == Concealing(entries)
        acts == [i \in DOMAIN entries |-> Action(after[i - 1], entries[i])]
    IN /\ pending' = <<>>
       /\ IF entries = <<>> THEN UNCHANGED <<conceal, stats, pcm, skipped>>
          ELSE IF ~seedKnown
          THEN /\ stats' = counted
               /\ skipped' = skipped + Len(entries)
               /\ UNCHANGED <<conceal, pcm>>
          ELSE /\ conceal' = after[Len(entries)]
               /\ stats' = [counted EXCEPT
                       !.crcOK = @ + Count(entries, {"good"}),
                       !.crcFail = @ + Count(entries, {"bad"}),
                       !.plcRepeat = @ + Count(acts, {"repeat"}),
                       !.plcMute = @ + Count(acts, {"mute"}),
                       !.quality = @ \o [i \in DOMAIN entries |-> Letter(entries[i], acts[i])]]
               /\ pcm' = IF ok THEN pcm + Len(entries) ELSE pcm
               /\ UNCHANGED skipped

\* The frame's entries are appended, and decoded if they make a batch.
Take(filled, e) ==
    LET made == [i \in 1..filled |-> "gap"] \o <<e>>
        entries == pending \o made
    IN /\ told' = told \o made
       /\ IF Len(entries) >= BatchFrames
          THEN \E ok \in BOOLEAN : DecodeBatch(entries, ok)
          ELSE pending' = entries /\ UNCHANGED <<conceal, stats, pcm, skipped>>

-----------------------------------------------------------------------------
SoundInit ==
    /\ seedKnown \in BOOLEAN /\ pending = <<>> /\ conceal = [lastGood |-> FALSE, run |-> 0]
    /\ pcm = 0 /\ open = TRUE /\ told = <<>> /\ skipped = 0
    /\ stats = [frames |-> 0, filled |-> 0, crcOK |-> 0, crcFail |-> 0, plcRepeat |-> 0,
                plcMute |-> 0, stale |-> 0, staleTold |-> 0, quality |-> <<>>]

\* run, "burst": a frame with the missing ones before it.
Frame ==
    \E filled \in 0..MaxFill, e \in {"good", "bad"} :
        /\ open /\ Len(told) + filled < MaxEntries
        /\ told # <<>> \/ filled = 0
        /\ Take(filled, e)
        /\ UNCHANGED <<seedKnown, open>>

\* run, "burst", of a frame the tracker finds stale.
StaleFrame ==
    /\ open /\ told # <<>> /\ stats.stale = 0
    /\ stats' = [stats EXCEPT !.stale = @ + 1]
    /\ UNCHANGED <<seedKnown, pending, conceal, pcm, open, told, skipped>>

\* The seed is found while the broadcast runs.
SeedFound ==
    /\ ~seedKnown /\ open /\ seedKnown' = TRUE
    /\ UNCHANGED <<pending, conceal, stats, pcm, open, told, skipped>>

\* run, "close": the last batch, however short.
CloseSound ==
    /\ open /\ open' = FALSE
    /\ \E ok \in BOOLEAN : DecodeBatch(pending, ok)
    /\ UNCHANGED <<seedKnown, told>>

SoundNext == Frame \/ StaleFrame \/ SeedFound \/ CloseSound

SoundSpec == SoundInit /\ [][SoundNext]_soundVars

-----------------------------------------------------------------------------
SoundTypeOK ==
    /\ {seedKnown, open} \subseteq BOOLEAN /\ pcm \in Nat /\ skipped \in Nat
    /\ \A i \in DOMAIN pending : pending[i] \in {"good", "bad", "gap"}
    /\ Len(pending) < BatchFrames /\ stats.staleTold <= stats.stale
    /\ \A i \in DOMAIN stats.quality : stats.quality[i] \in {"o", "x", "X", "-", "_"}

\* Concealment does not see the batches: of all entries decoded, a frame that is
\* not good repeats the last good one if that is at most MaxRepeat back, else it is
\* muted (ApplyTraced over every decodeBatch; qualityRun tells it in the strip).
ConcealedAsWhole ==
    LET strip == stats.quality
    IN \A i \in DOMAIN strip :
        strip[i] # "o" =>
            (strip[i] \in {"x", "-"}
                <=> \E j \in Max({1, i - MaxRepeat})..i - 1 : strip[j] = "o")

\* The counters, the strip and the sound of a broadcast say the same: every entry
\* is pending, dropped for want of a seed or a letter; each counter is the number
\* of its letters; a letter without sound needs the voice decoder to have failed.
CountersAgree ==
    LET strip == stats.quality
    IN /\ Len(told) = Len(pending) + skipped + Len(strip)
       /\ stats.frames + stats.filled = skipped + Len(strip)
       /\ stats.crcOK = Count(strip, {"o"})
       /\ stats.crcFail = Count(strip, {"x", "X"})
       /\ stats.plcRepeat = Count(strip, {"x", "-"})
       /\ stats.plcMute = Count(strip, {"X", "_"})
       /\ pcm <= Len(strip)
=============================================================================
