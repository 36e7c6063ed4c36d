--------------------------- MODULE Recordings_proofs ---------------------------
(***************************************************************************)
(* Proofs about the audio worker and the I/Q recorder of the STD-T86        *)
(* monitor and the order in which they stop: the voice of a broadcast, the   *)
(* text beside it and its I/Q file, for every size of the queues, the batch, *)
(* the ring, the tail and the files.                                        *)
(***************************************************************************)
EXTENDS Recordings, SequenceTheorems, FiniteSetTheorems, TLAPS

-----------------------------------------------------------------------------
(* The invariant.  First, who may still send while the parts are stopped.   *)

StopInv ==
    /\ audioOpen <=> stop \in {"running", "loops"}
    /\ iqOpen <=> stop \notin {"iq", "stopped"}
    /\ ~audioOpen => dsp = "done"
    /\ dsp \in {"wait", "done"} => todo = <<>>
    /\ dsp \in {"wait", "last"} => open \subseteq {opened}
    /\ dsp = "done" => open = {}
    /\ audioDone => ~audioOpen /\ audioQ = <<>> /\ \A w \in Windows : pending[w] = <<>>
    /\ stop \in {"iq", "stopped"} => audioDone
    /\ stop = "stopped" => iqPC = "done"

PhaseInv ==
    /\ iqPC \in {"last", "done"} => ~iqOpen /\ iqQ = <<>>
    /\ iqPC # "run" => rec = NotRecording
    /\ iqPC \in {"refresh", "last"} => finished \in Windows /\ ring = <<>>
    /\ iqPC # "refresh" => reopen = 0
    /\ IsRecording => ring = <<>>

\* The sends that a call of the DSP loop has left.
Opening(w) == <<ToIq("open", w)>>
Bringing(w, n) == <<ToAudio("burst", w, n)>>
Closing(w) == <<ToAudio("close", w, 0), ToIq("close", w)>>
ClosingIq(w) == <<ToIq("close", w)>>

CallInv ==
    \/ todo = <<>>
    \/ /\ opened \in open /\ beganAt[opened] = input
       /\ todo = Opening(opened)
    \/ \E w \in open :
          /\ Len(pushed) > 0 /\ pushed[Len(pushed)] = w
          /\ todo = Bringing(w, Len(pushed))
    \/ \E w \in (1 .. opened) \ open :
          /\ endedAt[w] = input
          /\ todo = Closing(w) \/ todo = ClosingIq(w)

\* The voice: VoiceReachesFile with the messages that are not sent apart.
Voice == [w \in Windows |-> HandledOf(w)]
BurstAt(i, w) == i \in DOMAIN audioQ /\ audioQ[i].kind = "burst" /\ audioQ[i].wid = w
CloseAt(i, w) == i \in DOMAIN audioQ /\ audioQ[i].kind = "close" /\ audioQ[i].wid = w
InHand(n) == \E w \in Windows : todo = Bringing(w, n)

OrderInv ==
    \A w \in Windows :
        /\ Increasing(Voice[w])
        /\ \A i, j \in DOMAIN audioQ :
               BurstAt(i, w) /\ BurstAt(j, w) /\ i < j => audioQ[i].n < audioQ[j].n
        /\ \A n \in ToSet(Voice[w]), i \in DOMAIN audioQ :
               BurstAt(i, w) => n < audioQ[i].n

PlaceInv ==
    /\ \A n \in DOMAIN pushed :
          \/ n \in ToSet(Voice[pushed[n]])
          \/ \E i \in DOMAIN audioQ : BurstAt(i, pushed[n]) /\ audioQ[i].n = n
          \/ todo = Bringing(pushed[n], n)
    /\ \A w \in Windows : \A n \in ToSet(Voice[w]) :
          n \in DOMAIN pushed /\ pushed[n] = w /\ ~InHand(n)
    /\ \A i \in DOMAIN audioQ : audioQ[i].kind = "burst" =>
          /\ audioQ[i].n \in DOMAIN pushed /\ pushed[audioQ[i].n] = audioQ[i].wid
          /\ ~InHand(audioQ[i].n)

WavInv == \A w \in Windows : wav[w] = Cardinality(Pcm(decided[w]))

\* A window that has ended and has voice left has its end on the way, behind it.
Told(w, i) == todo = Closing(w) \/ \E j \in DOMAIN audioQ : i < j /\ CloseAt(j, w)
EndInv ==
    /\ \A n \in DOMAIN pushed : pushed[n] \in 1 .. opened
    /\ \A w \in (1 .. opened) \ open :
          /\ pending[w] # <<>> => Told(w, 0)
          /\ \A i \in DOMAIN audioQ : BurstAt(i, w) => Told(w, i)

\* A sidecar that is not what the state says will be written anew.
SidecarInv ==
    audioOpen =>
        \A w \in Windows : wav[w] > 0 /\ iqStat[w].done =>
            \/ sidecar[w] = iqStat[w]
            \/ \E i \in DOMAIN audioQ : audioQ[i].kind = "sidecar" /\ audioQ[i].wid = w
            \/ iqPC \in {"refresh", "last"} /\ finished = w

-----------------------------------------------------------------------------
(* The recorder.  A message in its queue stands for a moment of the input.  *)

Mark(m) == IF m.kind = "open" THEN beganAt[m.wid]
           ELSE IF m.kind = "close" THEN endedAt[m.wid] ELSE m.n

\* The samples the recorder has had.
Arrived == {c \in 1 .. input :
               c \notin dropped /\ \A i \in DOMAIN iqQ : iqQ[i].kind = "iq" => iqQ[i].n # c}

QueueInv ==
    /\ dropped \subseteq 1 .. input
    /\ \A i \in DOMAIN iqQ :
          /\ iqQ[i].kind = "iq" => iqQ[i].n \in (1 .. input) \ dropped
          /\ iqQ[i].kind = "open" => iqQ[i].wid \in 1 .. opened
          /\ iqQ[i].kind = "close" => iqQ[i].wid \in (1 .. opened) \ open
          /\ Mark(iqQ[i]) <= input
          /\ \A c \in Arrived : c <= Mark(iqQ[i])
    /\ \A i, j \in DOMAIN iqQ : i < j =>
          /\ Mark(iqQ[i]) <= Mark(iqQ[j])
          /\ iqQ[j].kind = "iq" => Mark(iqQ[i]) < Mark(iqQ[j])

EndOf(w) == IF w \in open THEN input ELSE endedAt[w]

\* Windows follow one another, and so do their starts.
ToStart == {w \in 1 .. opened :
               \/ todo = Opening(w)
               \/ \E i \in DOMAIN iqQ : iqQ[i].kind = "open" /\ iqQ[i].wid = w}
Started == (1 .. opened) \ ToStart
WindowsInv ==
    /\ \A w \in 1 .. opened : beganAt[w] <= input /\ EndOf(w) <= input
    /\ \A v, w \in 1 .. opened : v < w => EndOf(v) <= beganAt[w]
    /\ \A i, j \in DOMAIN iqQ :
          i < j /\ iqQ[i].kind = "open" /\ iqQ[j].kind = "open" => iqQ[i].wid < iqQ[j].wid
    /\ \A i \in DOMAIN iqQ :
          iqQ[i].kind = "open" /\ todo = Opening(opened) => iqQ[i].wid < opened
    /\ \A v \in Started, w \in ToStart : v < w
    /\ IsRecording => rec.wid \in Started
    /\ reopen # 0 => reopen \in Started

\* s is the end of what has arrived.
Latest(s, A) ==
    /\ Increasing(s) /\ ToSet(s) \subseteq A
    /\ \A c \in A, x \in ToSet(s) : x <= c => c \in ToSet(s)
\* p is an unbroken part of it.
Unbroken(p, A) ==
    /\ p # <<>> /\ Increasing(p) /\ ToSet(p) \subseteq A
    /\ \A c \in A, x, y \in ToSet(p) : x <= c /\ c <= y => c \in ToSet(p)

PartsInv ==
    /\ Latest(ring, Arrived)
    /\ IsRecording => Latest(rec.parts, Arrived)
    /\ \A i \in DOMAIN files :
          /\ Unbroken(files[i].parts, Arrived)
          /\ ToSet(files[i].parts) \cap ToSet(ring) = {}
          /\ IsRecording => ToSet(files[i].parts) \cap ToSet(rec.parts) = {}
    /\ \A i, j \in DOMAIN files :
          i # j => ToSet(files[i].parts) \cap ToSet(files[j].parts) = {}

InFile(c) == \E i \in DOMAIN files : c \in ToSet(files[i].parts)
InRecording(c) == IsRecording /\ c \in ToSet(rec.parts)
RingInv ==
    \A c \in Arrived :
        \/ InFile(c) \/ InRecording(c) \/ c \in ToSet(ring)
        \/ Cardinality({d \in Arrived : c <= d}) > RingLen
PrerollInv ==
    \A w \in Started : \A c \in Taken(1, beganAt[w]) :
        Cardinality(Taken(c, beganAt[w])) <= RingLen => InFile(c) \/ InRecording(c)

IsFull(w) == \E i \in DOMAIN files : files[i].wid = w /\ Full(files[i])
InFileOf(w, c) == \E i \in DOMAIN files : files[i].wid = w /\ c \in ToSet(files[i].parts)
RecordedInv ==
    /\ IsRecording =>
          /\ \A c \in Arrived : beganAt[rec.wid] < c => c \in ToSet(rec.parts)
          /\ rec.hasTail => rec.wid \notin open /\ Taken(1, endedAt[rec.wid]) \subseteq Arrived
    /\ reopen # 0 => \A c \in Arrived : c <= beganAt[reopen]
    /\ \A w \in Started :
          \/ IsRecording /\ rec.wid = w
          \/ reopen = w
          \/ IsFull(w)
          \/ /\ w \notin open \/ w < opened
             /\ \A c \in Taken(beganAt[w] + 1, EndOf(w)) : InFileOf(w, c)

VInv == OrderInv /\ PlaceInv /\ WavInv /\ EndInv /\ SidecarInv
RInv == QueueInv /\ WindowsInv /\ PartsInv /\ RingInv /\ PrerollInv /\ RecordedInv
RecordingsInv == TypeOK /\ StopInv /\ PhaseInv /\ CallInv /\ VInv /\ RInv

-----------------------------------------------------------------------------
(* Sequences.                                                              *)

LEMMA Appended ==
  ASSUME NEW S, NEW s \in Seq(S), NEW x \in S, NEW t, t = Append(s, x)
  PROVE  /\ t \in Seq(S) /\ Len(t) = Len(s) + 1 /\ Len(s) \in Nat
         /\ DOMAIN s = 1 .. Len(s) /\ DOMAIN t = 1 .. Len(s) + 1
         /\ \A i \in DOMAIN s : t[i] = s[i]
         /\ t[Len(s) + 1] = x
         /\ ToSet(t) = ToSet(s) \cup {x}
<1>1. DOMAIN s = 1 .. Len(s) /\ Len(s) \in Nat
  BY LenProperties
<1>2. /\ t \in Seq(S) /\ Len(t) = Len(s) + 1
      /\ \A i \in 1 .. Len(s) : t[i] = s[i]
      /\ t[Len(s) + 1] = x
  BY AppendProperties
<1>3. DOMAIN t = 1 .. Len(s) + 1
  BY <1>2, LenProperties
<1>. QED BY <1>1, <1>2, <1>3 DEF ToSet

LEMMA AppendedSet ==
  ASSUME NEW S, NEW s \in Seq(S), NEW x \in S
  PROVE  ToSet(Append(s, x)) = ToSet(s) \cup {x}
<1>1. PICK t : t = Append(s, x)
  OBVIOUS
<1>2. /\ DOMAIN s = 1 .. Len(s) /\ DOMAIN t = 1 .. Len(s) + 1 /\ Len(s) \in Nat
      /\ \A i \in DOMAIN s : t[i] = s[i]
      /\ t[Len(s) + 1] = x
  BY <1>1, Appended
<1>3. ToSet(t) = ToSet(s) \cup {x}
  BY <1>2 DEF ToSet
<1>. QED BY <1>1, <1>3

LEMMA Shortened ==
  ASSUME NEW S, NEW s \in Seq(S), s # <<>>, NEW t, t = Tail(s)
  PROVE  /\ t \in Seq(S) /\ Len(s) \in Nat \ {0} /\ Len(t) = Len(s) - 1
         /\ DOMAIN s = 1 .. Len(s) /\ DOMAIN t = 1 .. Len(s) - 1
         /\ \A i \in DOMAIN t : i + 1 \in DOMAIN s /\ t[i] = s[i + 1]
         /\ Head(s) = s[1] /\ Head(s) \in S /\ 1 \in DOMAIN s
         /\ \A i \in DOMAIN s : i # 1 => i - 1 \in DOMAIN t /\ t[i - 1] = s[i]
         /\ ToSet(s) = ToSet(t) \cup {Head(s)}
<1>1. DOMAIN s = 1 .. Len(s) /\ Len(s) \in Nat \ {0}
  BY LenProperties, EmptySeq
<1>2. /\ t \in Seq(S) /\ Len(t) = Len(s) - 1 /\ Head(s) \in S
      /\ \A i \in 1 .. Len(t) : t[i] = s[i + 1]
  BY HeadTailProperties
<1>3. DOMAIN t = 1 .. Len(s) - 1
  BY <1>2, LenProperties
<1>4. Head(s) = s[1]
  BY <1>1
<1>5. /\ \A i \in DOMAIN t : i + 1 \in DOMAIN s /\ t[i] = s[i + 1]
      /\ \A i \in DOMAIN s : i # 1 => i - 1 \in DOMAIN t /\ t[i - 1] = s[i]
  BY <1>1, <1>2, <1>3
<1>6. \A x : x \in ToSet(s) <=> x \in ToSet(t) \/ x = Head(s)
  <2>1. \A x : x \in ToSet(s) <=> \E i \in DOMAIN s : x = s[i]
    BY DEF ToSet
  <2>2. \A x : x \in ToSet(t) <=> \E i \in DOMAIN t : x = t[i]
    BY DEF ToSet
  <2>3. 1 \in DOMAIN s
    BY <1>1
  <2>4. ASSUME NEW i \in DOMAIN s PROVE s[i] = Head(s) \/ \E k \in DOMAIN t : s[i] = t[k]
    BY <1>4, <1>5
  <2>5. ASSUME NEW k \in DOMAIN t PROVE \E i \in DOMAIN s : t[k] = s[i]
    BY <1>5
  <2>. QED BY <1>4, <2>1, <2>2, <2>3, <2>4, <2>5
<1>. QED BY <1>1, <1>2, <1>3, <1>4, <1>5, <1>6

LEMMA NothingIn == DOMAIN <<>> = {} /\ ToSet(<<>>) = {} /\ Increasing(<<>>)
<1>1. DOMAIN <<>> = {}
  OBVIOUS
<1>. QED BY <1>1 DEF ToSet, Increasing

LEMMA One ==
  ASSUME NEW x, NEW s, s = <<x>>
  PROVE  s # <<>> /\ Head(s) = x /\ Tail(s) = <<>> /\ DOMAIN s = {1} /\ s[1] = x /\ Len(s) = 1
<1>1. s # <<>> /\ Head(s) = x /\ Tail(s) = <<>> /\ s[1] = x /\ Len(s) = 1
  OBVIOUS
<1>2. DOMAIN s = 1 .. 1
  OBVIOUS
<1>. QED BY <1>1, <1>2

LEMMA Two ==
  ASSUME NEW x, NEW y, NEW s, s = <<x, y>>
  PROVE  /\ s # <<>> /\ Head(s) = x /\ Tail(s) = <<y>>
         /\ DOMAIN s = {1, 2} /\ s[1] = x /\ s[2] = y /\ Len(s) = 2
<1>1. s # <<>> /\ Head(s) = x /\ Tail(s) = <<y>> /\ s[1] = x /\ s[2] = y /\ Len(s) = 2
  OBVIOUS
<1>2. DOMAIN s = 1 .. 2
  OBVIOUS
<1>. QED BY <1>1, <1>2

LEMMA IncreasingAppend ==
  ASSUME NEW s \in Seq(Nat), NEW x \in Nat, Increasing(s),
         \A y \in ToSet(s) : y < x
  PROVE  Increasing(Append(s, x))
<1>1. PICK t : t = Append(s, x)
  OBVIOUS
<1>2. /\ Len(s) \in Nat /\ DOMAIN s = 1 .. Len(s) /\ DOMAIN t = 1 .. Len(s) + 1
      /\ \A i \in DOMAIN s : t[i] = s[i]
      /\ t[Len(s) + 1] = x
  BY <1>1, Appended
<1>3. \A i \in DOMAIN s : s[i] < x
  BY DEF ToSet
<1>4. ASSUME NEW i \in DOMAIN t, NEW j \in DOMAIN t, i < j PROVE t[i] < t[j]
  <2>1. i \in DOMAIN s
    BY <1>2, <1>4
  <2>2. CASE j \in DOMAIN s
    BY <1>2, <1>4, <2>1, <2>2 DEF Increasing
  <2>3. CASE j = Len(s) + 1
    BY <1>2, <1>3, <2>1, <2>3
  <2>. QED BY <1>2, <2>2, <2>3
<1>. QED BY <1>1, <1>4 DEF Increasing

LEMMA IncreasingTail ==
  ASSUME NEW s \in Seq(Nat), s # <<>>, Increasing(s)
  PROVE  /\ Increasing(Tail(s)) /\ \A y \in ToSet(Tail(s)) : Head(s) < y
<1>1. PICK t : t = Tail(s)
  OBVIOUS
<1>2. /\ Len(s) \in Nat \ {0} /\ DOMAIN s = 1 .. Len(s) /\ DOMAIN t = 1 .. Len(s) - 1
      /\ \A i \in DOMAIN t : i + 1 \in DOMAIN s /\ t[i] = s[i + 1]
      /\ Head(s) = s[1] /\ 1 \in DOMAIN s
  BY <1>1, Shortened
<1>3. \A i, j \in DOMAIN t : i < j => t[i] < t[j]
  BY <1>2 DEF Increasing
<1>4. \A i \in DOMAIN t : s[1] < t[i]
  BY <1>2, SMTT(30) DEF Increasing
<1>. QED BY <1>1, <1>2, <1>3, <1>4 DEF Increasing, ToSet

LEMMA Concatenated ==
  ASSUME NEW S, NEW s \in Seq(S), NEW t \in Seq(S)
  PROVE  s \o t \in Seq(S) /\ ToSet(s \o t) = ToSet(s) \cup ToSet(t)
<1>1. PICK u : u = s \o t
  OBVIOUS
<1>2. /\ u \in Seq(S) /\ Len(u) = Len(s) + Len(t)
      /\ \A i \in 1 .. Len(s) + Len(t) :
            u[i] = IF i <= Len(s) THEN s[i] ELSE t[i - Len(s)]
  BY <1>1, ConcatProperties
<1>3. /\ DOMAIN s = 1 .. Len(s) /\ Len(s) \in Nat
      /\ DOMAIN t = 1 .. Len(t) /\ Len(t) \in Nat
      /\ DOMAIN u = 1 .. Len(s) + Len(t)
  BY <1>2, LenProperties
<1>4. \A i \in DOMAIN s : i \in DOMAIN u /\ u[i] = s[i]
  BY <1>2, <1>3
<1>5. \A i \in DOMAIN t : i + Len(s) \in DOMAIN u /\ u[i + Len(s)] = t[i]
  BY <1>2, <1>3
<1>6. \A i \in DOMAIN u : i \in DOMAIN s \/ (i - Len(s) \in DOMAIN t /\ u[i] = t[i - Len(s)])
  BY <1>2, <1>3
<1>7. \A x : x \in ToSet(u) <=> x \in ToSet(s) \/ x \in ToSet(t)
  BY <1>4, <1>5, <1>6 DEF ToSet
<1>. QED BY <1>1, <1>2, <1>7

-----------------------------------------------------------------------------
(* The steps, by what they touch.                                          *)

Quiet ==
    /\ UNCHANGED <<input, todo, opened, open, pushed, beganAt, endedAt, pending,
                   decided, wav, sidecar, iqPC, ring, rec, finished, reopen, iqStat,
                   files, audioQ, iqQ, dropped>>
    /\ audioOpen' => audioOpen

LEMMA Steps ==
  ASSUME TypeOK, [Next]_vars
  PROVE  \/ Quiet \/ TakeChunk \/ BeginWindow \/ DspSend
         \/ \E w \in Windows : PushBurst(w)
         \/ \E w \in Windows : FinishWindow(w)
         \/ AudioStep \/ AudioEnd \/ IqStep \/ IqRefresh
         \/ IqEnd
<1>1. CASE UNCHANGED vars
  BY <1>1 DEF Quiet, vars, dspVars, audioVars, recVars
<1>2. CASE InputEnds
  BY <1>2 DEF Quiet, InputEnds, audioVars, recVars
<1>3. CASE LastCalls \/ EndCalls
  BY <1>3 DEF Quiet, LastCalls, EndCalls, audioVars, recVars
<1>4. CASE \E s \in Seeds \cup {0} : SetSeed(s)
  BY <1>4 DEF Quiet, SetSeed, Calls, audioVars, recVars
<1>5. CASE StopAsked
  BY <1>5 DEF Quiet, StopAsked, Ended, dspVars, audioVars, recVars
<1>6. CASE LoopsOver \/ AudioOver
  BY <1>6 DEF Quiet, LoopsOver, AudioOver, Ended, dspVars, audioVars, recVars
<1>7. CASE IqOver
  BY <1>7 DEF Quiet, IqOver, Ended, dspVars, audioVars, recVars
<1>. QED
  BY <1>1, <1>2, <1>3, <1>4, <1>5, <1>6, <1>7
  DEF Next, DspNext, AudioNext, IqNext, StopNext, Terminated

-----------------------------------------------------------------------------
(* The parts end in turn.                                                  *)

LEMMA DecodeEmpties ==
  ASSUME NEW ws \in SUBSET Windows, NEW p \in [Windows -> Seq(Bursts)],
         DecodeBatch(ws, p)
  PROVE  pending' = [w \in Windows |-> IF w \in ws THEN <<>> ELSE p[w]]
<1>1. PICK due : /\ due = {w \in ws : p[w] # <<>>}
                 /\ pending' = [w \in Windows |-> IF w \in due THEN <<>> ELSE p[w]]
  BY DEF DecodeBatch
<1>. QED BY <1>1

LEMMA StopKept ==
  ASSUME RecordingsInv, [Next]_vars
  PROVE  StopInv'
<1>. USE DEF StopInv
<1>0. TypeOK /\ StopInv
  BY DEF RecordingsInv
<1>1. CASE UNCHANGED vars \/ Terminated
  BY <1>0, <1>1 DEF vars, dspVars, audioVars, recVars, Terminated
<1>2. CASE TakeChunk
  BY <1>0, <1>2 DEF TakeChunk, audioVars, recVars
<1>3. CASE InputEnds
  BY <1>0, <1>3 DEF InputEnds, audioVars, recVars
<1>4. CASE LastCalls
  BY <1>0, <1>4 DEF LastCalls, audioVars, recVars
<1>5. CASE \E s \in Seeds \cup {0} : SetSeed(s)
  BY <1>0, <1>5 DEF SetSeed, Calls, audioVars, recVars
<1>6. CASE BeginWindow
  BY <1>0, <1>6 DEF BeginWindow, Calls, audioVars, recVars
<1>7. CASE \E w \in Windows : PushBurst(w)
  BY <1>0, <1>7 DEF PushBurst, Calls, audioVars, recVars
<1>8. CASE \E w \in Windows : FinishWindow(w)
  BY <1>0, <1>8 DEF FinishWindow, Calls, audioVars, recVars
<1>9. CASE DspSend
  <2>1. audioOpen /\ dsp \in {"calls", "last"}
    BY <1>0, <1>9 DEF DspSend, TypeOK
  <2>. QED BY <1>0, <1>9, <2>1 DEF DspSend, audioVars, recVars
<1>10. CASE EndCalls
  BY <1>0, <1>10 DEF EndCalls, audioVars, recVars
<1>11. CASE AudioStep
  BY <1>0, <1>11 DEF AudioStep, dspVars, recVars
<1>12. CASE AudioEnd
  <2>1. \A w \in Windows : pending'[w] = <<>>
    BY <1>0, <1>12, DecodeEmpties DEF AudioEnd, TypeOK
  <2>. QED BY <1>0, <1>12, <2>1 DEF AudioEnd, dspVars, recVars
<1>13. CASE IqStep
  BY <1>0, <1>13 DEF IqStep, dspVars, audioVars
<1>14. CASE IqRefresh
  BY <1>0, <1>14 DEF IqRefresh, SendAudio, dspVars, audioVars
<1>15. CASE IqEnd
  BY <1>0, <1>15 DEF IqEnd, dspVars, audioVars
<1>16. CASE StopAsked
  BY <1>0, <1>16 DEF StopAsked, Ended, dspVars, audioVars, recVars
<1>17. CASE LoopsOver
  BY <1>0, <1>17 DEF LoopsOver, Ended, dspVars, audioVars, recVars
<1>18. CASE AudioOver
  BY <1>0, <1>18 DEF AudioOver, Ended, dspVars, audioVars, recVars
<1>19. CASE IqOver
  BY <1>0, <1>19 DEF IqOver, Ended, dspVars, audioVars, recVars
<1>. QED
  BY <1>1, <1>2, <1>3, <1>4, <1>5, <1>6, <1>7, <1>8, <1>9, <1>10, <1>11, <1>12, <1>13,
     <1>14, <1>15, <1>16, <1>17, <1>18, <1>19 DEF Next, DspNext, AudioNext, IqNext, StopNext

\* The queues of the parts that wait for a later end are open to those that send.
LEMMA Sending ==
  ASSUME TypeOK, StopInv, DspSend
  PROVE  /\ audioOpen /\ iqOpen /\ dsp \in {"calls", "last"} /\ ~audioDone
         /\ \/ Head(todo).to = "audio" /\ audioQ' = Append(audioQ, Head(todo).msg) /\ iqQ' = iqQ
            \/ Head(todo).to = "iq" /\ iqQ' = Append(iqQ, Head(todo).msg) /\ audioQ' = audioQ
<1>1. audioOpen /\ iqOpen /\ dsp \in {"calls", "last"} /\ ~audioDone
  BY DEF DspSend, TypeOK, StopInv
<1>. QED BY <1>1 DEF DspSend, SendAudio, SendIq

\* What a step of the recorder does to a recording that it ends.
LEMMA FinalizeFacts ==
  ASSUME NEW r, NEW next, NEW pc, Finalize(r, next, pc)
  PROVE  /\ rec' = NotRecording /\ finished' = r.wid /\ reopen' = next /\ iqPC' = pc
         /\ ring' = ring
  BY DEF Finalize

LEMMA PhaseKept ==
  ASSUME RecordingsInv, [Next]_vars
  PROVE  PhaseInv'
<1>. USE DEF PhaseInv
<1>0. TypeOK /\ PhaseInv /\ StopInv /\ QueueInv
  BY DEF RecordingsInv, RInv
<1>1. CASE UNCHANGED <<iqPC, iqQ, rec, ring, reopen, finished>> /\ (iqOpen' => iqOpen)
  BY <1>0, <1>1 DEF IsRecording
<1>2. CASE TakeChunk
  BY <1>0, <1>2 DEF TakeChunk, PushSamples, recVars, IsRecording
<1>3. CASE DspSend
  BY <1>0, <1>3, Sending DEF DspSend, recVars, IsRecording
<1>4. CASE IqStep
  <2>1. iqPC = "run" /\ reopen = 0
    BY <1>0, <1>4 DEF IqStep
  <2>2. IsRecording => rec.wid \in Windows /\ ring = <<>>
    BY <1>0 DEF TypeOK, IsRecording, Recording
  <2>. PICK m : m = Head(iqQ)
    OBVIOUS
  <2>3. CASE OnSamples(m.n)
    <3>1. CASE ~IsRecording
      BY <1>0, <2>1, <2>3, <3>1 DEF OnSamples, Preroll, IsRecording
    <3>2. CASE IsRecording
      <4>. PICK longer :
            longer = [rec EXCEPT !.parts = Append(@, m.n), !.since = @ + 1,
                                 !.tail = IF rec.hasTail THEN @ - 1 ELSE @]
        OBVIOUS
      <4>1. longer.wid \in Windows
        BY <1>0, <3>2 DEF TypeOK, IsRecording, Recording
      <4>2. CASE Finalize(longer, 0, "refresh")
        <5>1. /\ rec' = NotRecording /\ finished' = longer.wid /\ reopen' = 0
              /\ iqPC' = "refresh" /\ ring' = ring
          BY <4>2, FinalizeFacts
        <5>. QED BY <2>2, <3>2, <4>1, <5>1 DEF IsRecording
      <4>3. CASE UNCHANGED <<ring, finished, reopen, iqPC, files>>
        BY <2>1, <2>2, <3>2, <4>3
      <4>. QED BY <2>3, <3>2, <4>2, <4>3 DEF OnSamples, Record
    <3>. QED BY <3>1, <3>2
  <2>4. CASE OnOpen(m.wid)
    <3>1. CASE IsRecording
      BY <2>1, <2>2, <2>4, <3>1, FinalizeFacts DEF OnOpen, IsRecording
    <3>2. CASE ~IsRecording
      BY <2>1, <2>4, <3>2 DEF OnOpen, NewRecording, IsRecording
    <3>. QED BY <3>1, <3>2
  <2>5. CASE OnClose(m.wid)
    BY <2>1, <2>2, <2>5 DEF OnClose, IsRecording
  <2>. QED BY <1>4, <2>3, <2>4, <2>5 DEF IqStep
<1>5. CASE IqRefresh
  <2>1. rec = NotRecording /\ ring = <<>>
    BY <1>0, <1>5 DEF IqRefresh
  <2>2. CASE reopen > 0
    <3>1. iqPC = "refresh" /\ reopen \in Nat
      BY <1>0, <2>2 DEF TypeOK
    <3>. QED BY <1>5, <2>2, <3>1 DEF IqRefresh, NewRecording
  <2>3. CASE ~(reopen > 0)
    BY <1>0, <1>5, <2>1, <2>3 DEF IqRefresh, IsRecording
  <2>. QED BY <2>2, <2>3
<1>6. CASE IqEnd
  <2>1. iqPC = "run" /\ iqQ = <<>> /\ ~iqOpen /\ iqQ' = iqQ /\ iqOpen' = iqOpen
    BY <1>6 DEF IqEnd
  <2>2. CASE IsRecording
    <3>1. rec.wid \in Windows /\ ring = <<>>
      BY <1>0, <2>2 DEF TypeOK, IsRecording, Recording
    <3>2. Finalize(rec, 0, "last")
      BY <1>6, <2>2 DEF IqEnd
    <3>. QED BY <2>1, <3>1, <3>2, FinalizeFacts DEF IsRecording
  <2>3. CASE ~IsRecording
    BY <1>0, <1>6, <2>1, <2>3 DEF IqEnd, IsRecording
  <2>. QED BY <2>2, <2>3
<1>7. CASE InputEnds \/ LastCalls \/ EndCalls \/ \E s \in Seeds \cup {0} : SetSeed(s)
  BY <1>1, <1>7 DEF InputEnds, LastCalls, EndCalls, SetSeed, Calls, recVars
<1>8. CASE BeginWindow \/ \E w \in Windows : PushBurst(w) \/ FinishWindow(w)
  BY <1>1, <1>8 DEF BeginWindow, PushBurst, FinishWindow, Calls, recVars
<1>9. CASE AudioStep \/ AudioEnd
  BY <1>1, <1>9 DEF AudioStep, AudioEnd, recVars
<1>10. CASE StopAsked \/ LoopsOver \/ AudioOver \/ IqOver
  BY <1>1, <1>10 DEF StopAsked, LoopsOver, AudioOver, IqOver, Ended, recVars
<1>11. CASE UNCHANGED vars \/ Terminated
  BY <1>1, <1>11 DEF Terminated, vars, recVars
<1>. QED
  BY <1>2, <1>3, <1>4, <1>5, <1>6, <1>7, <1>8, <1>9, <1>10, <1>11
  DEF Next, DspNext, AudioNext, IqNext, StopNext

LEMMA CallKept ==
  ASSUME RecordingsInv, [Next]_vars
  PROVE  CallInv'
<1>0. TypeOK /\ StopInv /\ CallInv
  BY DEF RecordingsInv
<1>1. CASE UNCHANGED <<todo, opened, open, beganAt, endedAt, pushed, input>>
  BY <1>0, <1>1 DEF CallInv, Opening, Bringing, Closing, ClosingIq, ToAudio, ToIq
<1>2. CASE TakeChunk
  BY <1>0, <1>2 DEF TakeChunk, StopInv, CallInv
<1>3. CASE BeginWindow
  <2>1. /\ opened' = opened + 1 /\ open' = open \cup {opened + 1}
        /\ todo' = Opening(opened + 1) /\ input' = input
        /\ beganAt' = [beganAt EXCEPT ![opened + 1] = input]
    BY <1>3 DEF BeginWindow, Calls, Opening
  <2>2. opened + 1 \in Windows
    BY <1>0, <1>3, RecordingConstants DEF BeginWindow, TypeOK, Windows
  <2>3. beganAt'[opened'] = input' /\ opened' \in open' /\ todo' = <<ToIq("open", opened')>>
    BY <1>0, <2>1, <2>2 DEF TypeOK, Opening
  <2>. QED BY <2>3 DEF CallInv, Opening, ToIq
<1>4. CASE \E w \in Windows : PushBurst(w)
  <2>. PICK w \in Windows : PushBurst(w)
    BY <1>4
  <2>1. /\ pushed' = Append(pushed, w) /\ todo' = Bringing(w, Len(pushed) + 1)
        /\ w \in open' /\ pushed \in Seq(Windows)
    BY <1>0 DEF PushBurst, TypeOK, Bringing
  <2>2. Len(pushed') = Len(pushed) + 1 /\ Len(pushed) \in Nat /\ pushed'[Len(pushed) + 1] = w
    BY <2>1, Appended
  <2>3. Len(pushed') > 0 /\ pushed'[Len(pushed')] = w /\ todo' = <<ToAudio("burst", w, Len(pushed'))>>
    BY <2>1, <2>2 DEF Bringing
  <2>. QED BY <2>1, <2>3 DEF CallInv, Bringing, ToAudio
<1>5. CASE \E w \in Windows : FinishWindow(w)
  <2>. PICK w \in Windows : FinishWindow(w)
    BY <1>5
  <2>1. /\ open' = open \ {w} /\ endedAt' = [endedAt EXCEPT ![w] = input]
        /\ todo' = <<ToAudio("close", w, 0), ToIq("close", w)>> /\ input' = input /\ opened' = opened
        /\ w \in 1 .. opened
    BY <1>0 DEF FinishWindow, Calls, TypeOK
  <2>2. w \in (1 .. opened') \ open' /\ endedAt'[w] = input'
    BY <1>0, <2>1 DEF TypeOK
  <2>. QED BY <2>1, <2>2 DEF CallInv, Closing, ToAudio, ToIq
<1>6. CASE DspSend
  <2>1. todo # <<>> /\ todo' = Tail(todo) /\ UNCHANGED <<opened, open, beganAt, endedAt, pushed, input>>
    BY <1>6 DEF DspSend
  <2>2. CASE \E w \in (1 .. opened) \ open : endedAt[w] = input /\ todo = Closing(w)
    <3>. PICK w \in (1 .. opened) \ open : endedAt[w] = input /\ todo = Closing(w)
      BY <2>2
    <3>1. todo' = <<ToIq("close", w)>>
      BY <2>1, Two DEF Closing
    <3>. QED BY <2>1, <3>1 DEF CallInv, ClosingIq, ToIq
  <2>3. CASE \/ todo = Opening(opened) \/ \E w \in open : todo = Bringing(w, Len(pushed))
             \/ \E w \in (1 .. opened) \ open : todo = ClosingIq(w)
    <3>1. todo' = <<>>
      BY <2>1, <2>3, One DEF Opening, Bringing, ClosingIq
    <3>. QED BY <3>1 DEF CallInv
  <2>. QED BY <1>0, <2>1, <2>2, <2>3 DEF CallInv
<1>7. CASE Quiet \/ AudioStep \/ AudioEnd \/ IqStep \/ IqRefresh \/ IqEnd
  BY <1>1, <1>7 DEF Quiet, AudioStep, AudioEnd, IqStep, IqRefresh, IqEnd, dspVars
<1>. QED
  BY <1>0, <1>2, <1>3, <1>4, <1>5, <1>6, <1>7, Steps

-----------------------------------------------------------------------------
(* Types.                                                                  *)

LEMMA IsSeq ==
  ASSUME NEW S, NEW n \in Nat, NEW f \in [1 .. n -> S]
  PROVE  f \in Seq(S) /\ Len(f) = n
<1>1. f \in Seq(S)
  BY SeqDef
<1>. QED BY <1>1, LenProperties

Fate == [n : Bursts, fate : {"decoded", "held", "failed"}]

\* The bursts of a window in the order in which they were settled.
Numbers(d) == [i \in DOMAIN d |-> d[i].n]

LEMMA SettledFacts ==
  ASSUME NEW b \in Seq(Bursts), NEW f \in {"decoded", "held", "failed"}
  PROVE  Settled(b, f) \in Seq(Fate) /\ Numbers(Settled(b, f)) = b
<1>1. Len(b) \in Nat /\ DOMAIN b = 1 .. Len(b) /\ b \in [1 .. Len(b) -> Bursts]
  BY LenProperties
<1>2. \A i \in DOMAIN b : b[i] \in Bursts
  BY <1>1
<1>3. Settled(b, f) \in [1 .. Len(b) -> Fate]
  BY <1>1, <1>2 DEF Settled, Fate
<1>4. Settled(b, f) \in Seq(Fate)
  BY <1>1, <1>3, IsSeq
<1>5. /\ DOMAIN Settled(b, f) = DOMAIN b
      /\ \A i \in DOMAIN b : Settled(b, f)[i].n = b[i]
  BY DEF Settled
<1>6. Numbers(Settled(b, f)) = [i \in DOMAIN b |-> b[i]]
  BY <1>5 DEF Numbers
<1>. QED BY <1>1, <1>4, <1>6

LEMMA NumbersOf ==
  ASSUME NEW d \in Seq(Fate)
  PROVE  /\ Numbers(d) \in Seq(Bursts) /\ Len(Numbers(d)) = Len(d)
         /\ DOMAIN Numbers(d) = 1 .. Len(d) /\ Len(d) \in Nat /\ DOMAIN d = 1 .. Len(d)
         /\ \A i \in 1 .. Len(d) : Numbers(d)[i] = d[i].n
<1>1. Len(d) \in Nat /\ DOMAIN d = 1 .. Len(d) /\ d \in [1 .. Len(d) -> Fate]
  BY LenProperties
<1>2. \A i \in 1 .. Len(d) : d[i].n \in Bursts
  BY <1>1 DEF Fate
<1>3. Numbers(d) \in [1 .. Len(d) -> Bursts]
  BY <1>1, <1>2 DEF Numbers
<1>4. Numbers(d) \in Seq(Bursts) /\ Len(Numbers(d)) = Len(d)
  BY <1>1, <1>3, IsSeq
<1>. QED BY <1>1, <1>3, <1>4 DEF Numbers

LEMMA NumbersConcat ==
  ASSUME NEW d \in Seq(Fate), NEW e \in Seq(Fate)
  PROVE  d \o e \in Seq(Fate) /\ Numbers(d \o e) = Numbers(d) \o Numbers(e)
<1>1. PICK u : u = d \o e
  OBVIOUS
<1>2. /\ u \in Seq(Fate) /\ Len(u) = Len(d) + Len(e)
      /\ \A i \in 1 .. Len(d) + Len(e) : u[i] = IF i <= Len(d) THEN d[i] ELSE e[i - Len(d)]
  BY <1>1, ConcatProperties
<1>3. PICK nd : nd = Numbers(d)
  OBVIOUS
<1>4. PICK ne : ne = Numbers(e)
  OBVIOUS
<1>5. PICK nu : nu = Numbers(u)
  OBVIOUS
<1>6. /\ nd \in Seq(Bursts) /\ Len(nd) = Len(d) /\ Len(d) \in Nat
      /\ \A i \in 1 .. Len(d) : nd[i] = d[i].n
  BY <1>3, NumbersOf
<1>7. /\ ne \in Seq(Bursts) /\ Len(ne) = Len(e) /\ Len(e) \in Nat
      /\ \A i \in 1 .. Len(e) : ne[i] = e[i].n
  BY <1>4, NumbersOf
<1>8. /\ nu \in Seq(Bursts) /\ Len(nu) = Len(d) + Len(e)
      /\ \A i \in 1 .. Len(d) + Len(e) : nu[i] = u[i].n
  BY <1>2, <1>5, NumbersOf
<1>9. PICK c : c = nd \o ne
  OBVIOUS
<1>10. /\ c \in Seq(Bursts) /\ Len(c) = Len(d) + Len(e)
       /\ \A i \in 1 .. Len(d) + Len(e) : c[i] = IF i <= Len(d) THEN nd[i] ELSE ne[i - Len(d)]
  <2>1. /\ c \in Seq(Bursts) /\ Len(c) = Len(nd) + Len(ne)
        /\ \A i \in 1 .. Len(nd) + Len(ne) :
              c[i] = IF i <= Len(nd) THEN nd[i] ELSE ne[i - Len(nd)]
    <3>1. nd \in Seq(Bursts) /\ ne \in Seq(Bursts)
      BY <1>6, <1>7
    <3>. QED BY <1>9, <3>1, ConcatProperties
  <2>. QED BY <1>6, <1>7, <2>1
<1>11. ASSUME NEW i \in 1 .. Len(d) + Len(e) PROVE nu[i] = c[i]
  <2>1. CASE i <= Len(d)
    BY <1>2, <1>6, <1>8, <1>10, <2>1
  <2>2. CASE i > Len(d)
    <3>1. i - Len(d) \in 1 .. Len(e) /\ ~(i <= Len(d))
      BY <1>6, <1>7, <2>2
    <3>2. u[i] = e[i - Len(d)] /\ c[i] = ne[i - Len(d)] /\ nu[i] = u[i].n
      BY <1>2, <1>8, <1>10, <3>1
    <3>. QED BY <1>7, <3>1, <3>2
  <2>. QED BY <1>6, <1>7, <2>1, <2>2
<1>12. nu = c
  BY <1>8, <1>10, <1>11, SeqEqual
<1>. QED BY <1>1, <1>2, <1>3, <1>4, <1>5, <1>9, <1>12

LEMMA Handled ==
  ASSUME NEW w
  PROVE  HandledOf(w) = Numbers(decided[w]) \o pending[w]
BY DEF HandledOf, Numbers

\* What decodeBatch leaves: every burst once, in the order it came.
LEMMA Decoded ==
  ASSUME TypeOK, NEW ws \in SUBSET Windows, NEW p \in [Windows -> Seq(Bursts)],
         DecodeBatch(ws, p)
  PROVE  /\ pending' \in [Windows -> Seq(Bursts)] /\ decided' \in [Windows -> Seq(Fate)]
         /\ wav' \in [Windows -> Nat] /\ sidecar' \in [Windows -> Status]
         /\ \A w \in Windows :
               /\ Numbers(decided'[w]) \o pending'[w] = Numbers(decided[w]) \o p[w]
               /\ pending'[w] = IF w \in ws THEN <<>> ELSE p[w]
               /\ \/ wav'[w] = Cardinality(Pcm(decided'[w]))
                  \/ wav'[w] = wav[w] /\ decided'[w] = decided[w]
               /\ \/ wav'[w] = wav[w] /\ sidecar'[w] = sidecar[w]
                  \/ wav'[w] > 0 => sidecar'[w] = iqStat[w]
<1>0. /\ decided \in [Windows -> Seq(Fate)] /\ sidecar \in [Windows -> Status]
      /\ iqStat \in [Windows -> Status] /\ wav \in [Windows -> Nat]
  BY DEF TypeOK, Fate
<1>1. PICK fate \in [ws -> Fates(seed)] :
         LET due == {w \in ws : p[w] # <<>>}
         IN /\ decided' = [w \in Windows |->
                 IF w \in due THEN decided[w] \o Settled(p[w], fate[w]) ELSE decided[w]]
            /\ pending' = [w \in Windows |-> IF w \in due THEN <<>> ELSE p[w]]
            /\ wav' = [w \in Windows |->
                 IF w \in due THEN Cardinality(Pcm(decided'[w])) ELSE wav[w]]
            /\ sidecar' = [w \in Windows |->
                 IF w \in due /\ wav'[w] > 0 THEN iqStat[w] ELSE sidecar[w]]
  BY DEF DecodeBatch
<1>2. PICK due : due = {w \in ws : p[w] # <<>>}
  OBVIOUS
<1>3. /\ decided' = [w \in Windows |->
                 IF w \in due THEN decided[w] \o Settled(p[w], fate[w]) ELSE decided[w]]
      /\ pending' = [w \in Windows |-> IF w \in due THEN <<>> ELSE p[w]]
      /\ wav' = [w \in Windows |->
                 IF w \in due THEN Cardinality(Pcm(decided'[w])) ELSE wav[w]]
      /\ sidecar' = [w \in Windows |->
                 IF w \in due /\ wav'[w] > 0 THEN iqStat[w] ELSE sidecar[w]]
  BY <1>1, <1>2
<1>4. \A w \in due : w \in Windows /\ w \in ws /\ fate[w] \in {"decoded", "held", "failed"}
  BY <1>2 DEF Fates
<1>5. ASSUME NEW w \in Windows, w \in due
      PROVE  /\ decided'[w] \in Seq(Fate) /\ pending'[w] = <<>>
             /\ Numbers(decided'[w]) \o pending'[w] = Numbers(decided[w]) \o p[w]
             /\ wav'[w] = Cardinality(Pcm(decided'[w])) /\ wav'[w] \in Nat
  <2>1. decided'[w] = decided[w] \o Settled(p[w], fate[w]) /\ pending'[w] = <<>>
    BY <1>3, <1>5
  <2>2. /\ decided[w] \in Seq(Fate) /\ p[w] \in Seq(Bursts)
        /\ Settled(p[w], fate[w]) \in Seq(Fate) /\ Numbers(Settled(p[w], fate[w])) = p[w]
    BY <1>0, <1>4, <1>5, SettledFacts
  <2>3. /\ decided'[w] \in Seq(Fate)
        /\ Numbers(decided'[w]) = Numbers(decided[w]) \o p[w]
    BY <2>1, <2>2, NumbersConcat
  <2>4. Numbers(decided'[w]) \in Seq(Bursts)
    BY <2>3, NumbersOf
  <2>5. Numbers(decided'[w]) \o pending'[w] = Numbers(decided'[w])
    BY <2>1, <2>4, ConcatEmptySeq
  <2>6. wav'[w] = Cardinality(Pcm(decided'[w]))
    BY <1>3, <1>5
  <2>7. IsFiniteSet(Pcm(decided'[w]))
    <3>1. Pcm(decided'[w]) \in SUBSET (1 .. Len(decided'[w])) /\ Len(decided'[w]) \in Nat
      BY <2>3, NumbersOf DEF Pcm
    <3>2. IsFiniteSet(1 .. Len(decided'[w]))
      BY <3>1, FS_Interval
    <3>. QED BY <3>1, <3>2, FS_Subset
  <2>. QED BY <2>1, <2>3, <2>5, <2>6, <2>7, FS_CardinalityType
<1>6. ASSUME NEW w \in Windows, w \notin due
      PROVE  /\ decided'[w] = decided[w] /\ pending'[w] = p[w] /\ wav'[w] = wav[w]
             /\ sidecar'[w] = sidecar[w]
             /\ w \in ws => p[w] = <<>>
  BY <1>2, <1>3, <1>6
<1>7. \A w \in Windows : decided'[w] \in Seq(Fate) /\ pending'[w] \in Seq(Bursts)
                         /\ wav'[w] \in Nat
  <2>1. ASSUME NEW w \in Windows
        PROVE  decided'[w] \in Seq(Fate) /\ pending'[w] \in Seq(Bursts) /\ wav'[w] \in Nat
    <3>1. CASE w \in due
      BY <1>5, <3>1, EmptySeq
    <3>2. CASE w \notin due
      BY <1>0, <1>6, <3>2
    <3>. QED BY <3>1, <3>2
  <2>. QED BY <2>1
<1>8. /\ DOMAIN decided' = Windows /\ DOMAIN pending' = Windows /\ DOMAIN wav' = Windows
      /\ decided' = [w \in Windows |-> decided'[w]] /\ pending' = [w \in Windows |-> pending'[w]]
      /\ wav' = [w \in Windows |-> wav'[w]]
  BY <1>3
<1>9. sidecar' \in [Windows -> Status]
  BY <1>0, <1>3
<1>10. \A w \in due : wav'[w] > 0 => sidecar'[w] = iqStat[w]
  BY <1>3, <1>4
<1>11. /\ decided' \in [Windows -> Seq(Fate)] /\ pending' \in [Windows -> Seq(Bursts)]
       /\ wav' \in [Windows -> Nat]
  BY <1>7, <1>8
<1>12. ASSUME NEW w \in Windows
       PROVE   /\ Numbers(decided'[w]) \o pending'[w] = Numbers(decided[w]) \o p[w]
               /\ pending'[w] = IF w \in ws THEN <<>> ELSE p[w]
               /\ \/ wav'[w] = Cardinality(Pcm(decided'[w]))
                  \/ wav'[w] = wav[w] /\ decided'[w] = decided[w]
               /\ \/ wav'[w] = wav[w] /\ sidecar'[w] = sidecar[w]
                  \/ wav'[w] > 0 => sidecar'[w] = iqStat[w]
  <2>1. CASE w \in due
    BY <1>4, <1>5, <1>10, <2>1
  <2>2. CASE w \notin due
    BY <1>6, <2>2
  <2>. QED BY <2>1, <2>2
<1>. QED BY <1>9, <1>11, <1>12

RecorderTypes ==
    /\ iqStat \in [Windows -> Status] /\ iqPC \in {"run", "refresh", "last", "done"}
    /\ ring \in Seq(Chunks) /\ Len(ring) <= RingLen
    /\ rec \in Recording \cup {NotRecording}
    /\ finished \in 0 .. MaxWindows /\ reopen \in 0 .. MaxWindows
    /\ files \in Seq([wid : Windows, parts : Seq(Chunks)])

LEMMA NotARecording ==
  ASSUME TypeOK
  PROVE  /\ IsRecording <=> rec \in Recording
         /\ IsRecording => rec.wid \in Windows /\ rec.parts \in Seq(Chunks)
         /\ \A r \in Recording : r # NotRecording /\ r.wid \in Windows
<1>1. \A r \in Recording : r.wid \in Windows /\ r.parts \in Seq(Chunks)
  BY DEF Recording
<1>2. NotRecording.wid = 0 /\ 0 \notin Windows
  BY DEF NotRecording, Windows
<1>3. \A r \in Recording : r # NotRecording
  BY <1>1, <1>2
<1>. QED BY <1>1, <1>3 DEF TypeOK, IsRecording

LEMMA ShownTypes ==
  ASSUME TypeOK, NEW r \in Recording, NEW b \in BOOLEAN
  PROVE  Shown(r, b) \in [Windows -> Status]
<1>1. Len(r.parts) \in Nat /\ r.wid \in Windows
  BY LenProperties DEF Recording
<1>2. [len |-> Len(r.parts), done |-> b] \in Status
  BY <1>1 DEF Status
<1>. QED BY <1>2 DEF Shown, TypeOK

LEMMA FinalizeTypes ==
  ASSUME TypeOK, NEW r \in Recording, NEW next \in 0 .. MaxWindows,
         NEW pc \in {"refresh", "last"}, Finalize(r, next, pc)
  PROVE  RecorderTypes'
<1>1. /\ iqStat' = Shown(r, TRUE)
      /\ files' = IF r.parts = <<>> THEN files
                  ELSE Append(files, [wid |-> r.wid, parts |-> r.parts])
      /\ rec' = NotRecording /\ finished' = r.wid /\ reopen' = next /\ iqPC' = pc
      /\ ring' = ring
  BY DEF Finalize
<1>2. r.wid \in Windows /\ r.parts \in Seq(Chunks)
  BY DEF Recording
<1>3. files' \in Seq([wid : Windows, parts : Seq(Chunks)])
  <2>1. [wid |-> r.wid, parts |-> r.parts] \in [wid : Windows, parts : Seq(Chunks)]
    BY <1>2
  <2>. QED BY <1>1, <2>1, AppendProperties DEF TypeOK
<1>4. iqStat' \in [Windows -> Status]
  BY <1>1, ShownTypes
<1>5. finished' \in 0 .. MaxWindows
  BY <1>1, <1>2, RecordingConstants DEF Windows
<1>6. ring' \in Seq(Chunks) /\ Len(ring') <= RingLen
  BY <1>1 DEF TypeOK
<1>. QED BY <1>1, <1>3, <1>4, <1>5, <1>6 DEF RecorderTypes

LEMMA NewRecordingTypes ==
  ASSUME TypeOK, NEW w \in Windows, NewRecording(w)
  PROVE  rec' \in Recording /\ ring' = <<>> /\ rec'.wid = w /\ rec'.parts = ring
         /\ rec'.hasTail = FALSE /\ rec' # NotRecording
<1>1. /\ rec' = [wid |-> w, parts |-> ring, since |-> 0, tail |-> 0, hasTail |-> FALSE]
      /\ ring' = <<>>
  BY DEF NewRecording
<1>2. rec' \in Recording
  BY <1>1 DEF Recording, TypeOK
<1>3. rec'.wid = w /\ rec'.parts = ring /\ rec'.hasTail = FALSE
  BY <1>1
<1>. QED BY <1>1, <1>2, <1>3, NotARecording

\* A recording that has taken one more sample.
Longer(n) == [rec EXCEPT !.parts = Append(@, n), !.since = @ + 1,
                         !.tail = IF rec.hasTail THEN @ - 1 ELSE @]

LEMMA LongerFacts ==
  ASSUME TypeOK, IsRecording, NEW n \in Chunks
  PROVE  /\ Longer(n) \in Recording /\ Longer(n).wid = rec.wid
         /\ Longer(n).parts = Append(rec.parts, n) /\ Longer(n).hasTail = rec.hasTail
<1>1. rec \in Recording /\ rec.parts \in Seq(Chunks)
  BY NotARecording
<1>2. Append(rec.parts, n) \in Seq(Chunks)
  BY <1>1, AppendProperties
<1>3. rec.since \in Nat /\ rec.tail \in Int /\ rec.hasTail \in BOOLEAN
  BY <1>1 DEF Recording
<1>4. PICK p : p = Append(rec.parts, n)
  OBVIOUS
<1>5. PICK t : t = IF rec.hasTail THEN rec.tail - 1 ELSE rec.tail
  OBVIOUS
<1>6. t \in Int
  BY <1>3, <1>5
<1>7. Longer(n) = [rec EXCEPT !.parts = p, !.since = rec.since + 1, !.tail = t]
  BY <1>1, <1>4, <1>5 DEF Longer
<1>8. PICK since : since = rec.since + 1
  OBVIOUS
<1>9. PICK longer : longer = [rec EXCEPT !.parts = p, !.since = since, !.tail = t]
  OBVIOUS
<1>10. longer \in Recording /\ longer.wid = rec.wid /\ longer.parts = p /\ longer.hasTail = rec.hasTail
  <2>1. since \in Nat /\ p \in Seq(Chunks)
    BY <1>2, <1>3, <1>4, <1>8
  <2>2. longer.wid = rec.wid /\ longer.parts = p /\ longer.hasTail = rec.hasTail
    BY <1>1, <1>9 DEF Recording
  <2>. QED BY <1>1, <1>6, <1>9, <2>1, <2>2 DEF Recording
<1>11. longer = Longer(n)
  BY <1>7, <1>8, <1>9
<1>. QED BY <1>4, <1>10, <1>11

\* What onSamples does with a sample, once it is recording.
LEMMA RecordCases ==
  ASSUME NEW n, Record(n)
  PROVE  \/ /\ \/ Len(Longer(n).parts) >= RecordMax
               \/ Longer(n).hasTail
            /\ Finalize(Longer(n), 0, "refresh")
         \/ /\ \/ rec' = [Longer(n) EXCEPT !.since = 0] /\ iqStat' = Shown(Longer(n), FALSE)
               \/ rec' = Longer(n) /\ iqStat' = iqStat
            /\ UNCHANGED <<ring, finished, reopen, iqPC, files>>
BY DEF Record, Longer

LEMMA RecordGoesOn ==
  ASSUME TypeOK, IsRecording, NEW n \in Chunks,
         rec' = [Longer(n) EXCEPT !.since = 0] \/ rec' = Longer(n)
  PROVE  /\ rec' \in Recording /\ rec'.wid = rec.wid
         /\ rec'.parts = Append(rec.parts, n) /\ rec'.hasTail = rec.hasTail
         /\ rec' # NotRecording
<1>1. PICK l : l = Longer(n)
  OBVIOUS
<1>2. /\ l \in Recording /\ l.wid = rec.wid
      /\ l.parts = Append(rec.parts, n) /\ l.hasTail = rec.hasTail
  BY <1>1, LongerFacts
<1>3. ASSUME NEW r, r = [l EXCEPT !.since = 0]
      PROVE  r \in Recording /\ r.wid = l.wid /\ r.parts = l.parts /\ r.hasTail = l.hasTail
  BY <1>2, <1>3 DEF Recording
<1>4. rec' \in Recording /\ rec'.wid = l.wid /\ rec'.parts = l.parts /\ rec'.hasTail = l.hasTail
  BY <1>1, <1>2, <1>3
<1>. QED BY <1>2, <1>4, NotARecording

LEMMA PrerollFacts ==
  ASSUME TypeOK, NEW n \in Chunks, Preroll(n)
  PROVE  /\ ring' \in Seq(Chunks) /\ Len(ring') <= RingLen
         /\ \/ ring' = Append(ring, n)
            \/ ring' = Tail(Append(ring, n)) /\ Len(Append(ring, n)) = RingLen + 1
         /\ UNCHANGED <<rec, finished, reopen, iqPC, iqStat, files>>
<1>1. PICK all : all = Append(ring, n)
  OBVIOUS
<1>2. /\ all \in Seq(Chunks) /\ Len(all) = Len(ring) + 1 /\ Len(ring) \in Nat /\ all # <<>>
      /\ Len(ring) <= RingLen /\ RingLen \in Nat
  <2>1. ring \in Seq(Chunks) /\ Len(ring) <= RingLen /\ RingLen \in Nat
    BY RecordingConstants DEF TypeOK
  <2>2. all # <<>>
    BY <1>1, <2>1, AppendProperties
  <2>. QED BY <1>1, <2>1, <2>2, Appended
<1>3. ring' = IF Len(all) > RingLen THEN Tail(all) ELSE all
  BY <1>1 DEF Preroll
<1>4. CASE Len(all) > RingLen
  <2>1. PICK t : t = Tail(all)
    OBVIOUS
  <2>2. t \in Seq(Chunks) /\ Len(t) = Len(all) - 1
    BY <1>2, <2>1, Shortened
  <2>. QED BY <1>1, <1>2, <1>3, <1>4, <2>1, <2>2 DEF Preroll
<1>5. CASE ~(Len(all) > RingLen)
  BY <1>1, <1>2, <1>3, <1>5 DEF Preroll
<1>. QED BY <1>4, <1>5

LEMMA OnCloseFacts ==
  ASSUME TypeOK, NEW w, OnClose(w)
  PROVE  /\ \/ rec' = rec
            \/ /\ IsRecording /\ rec.wid = w /\ rec' \in Recording /\ rec' # NotRecording
               /\ rec'.wid = w /\ rec'.parts = rec.parts
         /\ UNCHANGED <<ring, finished, reopen, iqPC, iqStat, files>>
<1>1. CASE IsRecording /\ rec.wid = w
  <2>1. rec' = [rec EXCEPT !.tail = TailLen, !.hasTail = TRUE] /\ rec \in Recording
    BY <1>1, NotARecording DEF OnClose
  <2>2. TailLen \in Int
    BY RecordingConstants
  <2>3. rec' \in Recording /\ rec'.wid = rec.wid /\ rec'.parts = rec.parts
    BY <2>1, <2>2 DEF Recording
  <2>. QED BY <1>1, <2>3, NotARecording DEF OnClose
<1>2. CASE ~(IsRecording /\ rec.wid = w)
  BY <1>2 DEF OnClose
<1>. QED BY <1>1, <1>2

\* What the recorder takes out of its queue.
LEMMA IqMessage ==
  ASSUME TypeOK, QueueInv, IqStep
  PROVE  \E m \in IqMsg :
            /\ m = Head(iqQ) /\ m = iqQ[1] /\ 1 \in DOMAIN iqQ
            /\ \/ m.kind = "iq" /\ m.n \in Chunks /\ m.n \in (1 .. input) \ dropped
                                /\ OnSamples(m.n)
               \/ m.kind = "open" /\ m.wid \in Windows /\ m.wid \in 1 .. opened /\ OnOpen(m.wid)
               \/ m.kind = "close" /\ m.wid \in (1 .. opened) \ open /\ OnClose(m.wid)
<1>1. iqQ \in Seq(IqMsg) /\ iqQ # <<>>
  BY DEF TypeOK, IqStep
<1>2. PICK m : m = Head(iqQ)
  OBVIOUS
<1>3. m \in IqMsg /\ m = iqQ[1] /\ 1 \in DOMAIN iqQ
  BY <1>1, <1>2, Shortened
<1>4. /\ m.kind = "iq" => m.n \in (1 .. input) \ dropped
      /\ m.kind = "open" => m.wid \in 1 .. opened
      /\ m.kind = "close" => m.wid \in (1 .. opened) \ open
  BY <1>3 DEF QueueInv
<1>5. input \in 0 .. MaxChunks /\ opened \in 0 .. MaxWindows /\ MaxChunks \in Nat /\ MaxWindows \in Nat
  BY RecordingConstants DEF TypeOK
<1>6. \/ m.kind = "iq" /\ OnSamples(m.n)
      \/ m.kind = "open" /\ OnOpen(m.wid)
      \/ m.kind = "close" /\ OnClose(m.wid)
  BY <1>2 DEF IqStep
<1>7. m.kind = "iq" => m.n \in Chunks
  BY <1>4, <1>5 DEF Chunks
<1>8. m.kind = "open" => m.wid \in Windows
  BY <1>4, <1>5 DEF Windows
<1>. QED BY <1>2, <1>3, <1>4, <1>6, <1>7, <1>8

LEMMA RecorderTyped ==
  ASSUME RecordingsInv, IqStep \/ IqRefresh \/ IqEnd
  PROVE  RecorderTypes'
<1>0. TypeOK /\ QueueInv /\ PhaseInv /\ RecorderTypes
  BY DEF RecordingsInv, RInv, TypeOK, RecorderTypes
<1>1. CASE IqStep
  <2>. PICK m \in IqMsg :
          \/ m.kind = "iq" /\ m.n \in Chunks /\ OnSamples(m.n)
          \/ m.kind = "open" /\ m.wid \in Windows /\ OnOpen(m.wid)
          \/ m.kind = "close" /\ OnClose(m.wid)
    BY <1>0, <1>1, IqMessage
  <2>1. CASE m.n \in Chunks /\ OnSamples(m.n) /\ ~IsRecording
    BY <1>0, <2>1, PrerollFacts DEF OnSamples, RecorderTypes
  <2>2. CASE m.n \in Chunks /\ OnSamples(m.n) /\ IsRecording
    <3>1. Longer(m.n) \in Recording
      BY <1>0, <2>2, LongerFacts
    <3>2. CASE Finalize(Longer(m.n), 0, "refresh")
      BY <1>0, <3>1, <3>2, FinalizeTypes, RecordingConstants
    <3>3. CASE /\ \/ rec' = [Longer(m.n) EXCEPT !.since = 0] /\ iqStat' = Shown(Longer(m.n), FALSE)
                  \/ rec' = Longer(m.n) /\ iqStat' = iqStat
               /\ UNCHANGED <<ring, finished, reopen, iqPC, files>>
      <4>1. rec' \in Recording
        BY <1>0, <2>2, <3>3, RecordGoesOn
      <4>2. iqStat' \in [Windows -> Status]
        BY <1>0, <3>1, <3>3, ShownTypes DEF RecorderTypes
      <4>. QED BY <1>0, <3>3, <4>1, <4>2 DEF RecorderTypes
    <3>. QED BY <2>2, <3>2, <3>3, RecordCases DEF OnSamples
  <2>3. CASE m.wid \in Windows /\ OnOpen(m.wid) /\ IsRecording
    <3>1. rec \in Recording /\ Finalize(rec, m.wid, "refresh") /\ m.wid \in 0 .. MaxWindows
      BY <1>0, <2>3, NotARecording DEF OnOpen, Windows
    <3>. QED BY <1>0, <3>1, FinalizeTypes
  <2>4. CASE m.wid \in Windows /\ OnOpen(m.wid) /\ ~IsRecording
    <3>1. rec' \in Recording /\ ring' = <<>>
      BY <1>0, <2>4, NewRecordingTypes DEF OnOpen
    <3>. QED BY <1>0, <2>4, <3>1, EmptySeq, RecordingConstants DEF OnOpen, RecorderTypes
  <2>5. CASE OnClose(m.wid)
    BY <1>0, <2>5, OnCloseFacts DEF RecorderTypes
  <2>. QED BY <2>1, <2>2, <2>3, <2>4, <2>5
<1>2. CASE IqRefresh
  <2>1. UNCHANGED <<iqStat, files>> /\ finished' = 0 /\ reopen' = 0 /\ iqPC' \in {"run", "done"}
    BY <1>2 DEF IqRefresh
  <2>2. rec' \in Recording \cup {NotRecording} /\ ring' \in Seq(Chunks) /\ Len(ring') <= RingLen
    <3>1. CASE reopen > 0
      <4>1. reopen \in Windows
        BY <1>0, <3>1, RecordingConstants DEF RecorderTypes, Windows
      <4>2. rec' \in Recording /\ ring' = <<>>
        BY <1>0, <1>2, <3>1, <4>1, NewRecordingTypes DEF IqRefresh
      <4>3. <<>> \in Seq(Chunks) /\ Len(<<>>) = 0 /\ RingLen \in Nat
        BY EmptySeq, RecordingConstants
      <4>. QED BY <4>2, <4>3
    <3>2. CASE ~(reopen > 0)
      BY <1>0, <1>2, <3>2 DEF IqRefresh, RecorderTypes
    <3>. QED BY <3>1, <3>2
  <2>. QED BY <1>0, <2>1, <2>2, RecordingConstants DEF RecorderTypes
<1>3. CASE IqEnd
  <2>1. CASE IsRecording
    <3>1. rec \in Recording /\ Finalize(rec, 0, "last")
      BY <1>0, <1>3, <2>1, NotARecording DEF IqEnd
    <3>. QED BY <1>0, <3>1, FinalizeTypes, RecordingConstants
  <2>2. CASE ~IsRecording
    BY <1>0, <1>3, <2>2 DEF IqEnd, RecorderTypes
  <2>. QED BY <2>1, <2>2
<1>. QED BY <1>1, <1>2, <1>3

DspTypes ==
    /\ dsp \in {"wait", "calls", "last", "done"}
    /\ input \in 0 .. MaxChunks /\ inputOver \in BOOLEAN
    /\ todo \in Seq([to : {"audio"}, msg : AudioMsg] \cup [to : {"iq"}, msg : IqMsg])
    /\ opened \in 0 .. MaxWindows /\ open \subseteq 1 .. opened
    /\ pushed \in Seq(Windows) /\ Len(pushed) <= MaxBursts
    /\ seed \in Seeds \cup {0}
    /\ beganAt \in [Windows -> 0 .. MaxChunks] /\ endedAt \in [Windows -> 0 .. MaxChunks]
AudioTypes ==
    /\ audioDone \in BOOLEAN
    /\ pending \in [Windows -> Seq(Bursts)] /\ decided \in [Windows -> Seq(Fate)]
    /\ wav \in [Windows -> Nat] /\ sidecar \in [Windows -> Status]
QueueTypes ==
    /\ audioQ \in Seq(AudioMsg) /\ Len(audioQ) <= AudioCap
    /\ iqQ \in Seq(IqMsg) /\ Len(iqQ) <= IqCap
    /\ audioOpen \in BOOLEAN /\ iqOpen \in BOOLEAN
    /\ dropped \subseteq Chunks
    /\ stop \in {"running", "loops", "audio", "iq", "stopped"}

LEMMA TypeParts == TypeOK <=> DspTypes /\ AudioTypes /\ QueueTypes /\ RecorderTypes
BY DEF TypeOK, DspTypes, AudioTypes, QueueTypes, RecorderTypes, Fate

ToSend == [to : {"audio"}, msg : AudioMsg] \cup [to : {"iq"}, msg : IqMsg]

LEMMA SendTypes ==
  ASSUME NEW w \in Windows, NEW n \in Nat, NEW kind \in {"burst", "close"}
  PROVE  /\ <<ToAudio(kind, w, n)>> \in Seq(ToSend) /\ <<ToIq("open", w)>> \in Seq(ToSend)
         /\ <<ToAudio("close", w, 0), ToIq("close", w)>> \in Seq(ToSend)
<1>1. ToAudio(kind, w, n) \in ToSend /\ ToAudio("close", w, 0) \in ToSend
  BY DEF ToAudio, ToSend, AudioMsg
<1>2. w \in 0 .. MaxWindows
  BY RecordingConstants DEF Windows
<1>3. ToIq("open", w) \in ToSend /\ ToIq("close", w) \in ToSend
  BY <1>2 DEF ToIq, ToSend, IqMsg
<1>. QED BY <1>1, <1>3

LEMMA DspTyped ==
  ASSUME RecordingsInv, Next
  PROVE  DspTypes'
<1>0. TypeOK /\ DspTypes /\ RecordingConstants
  BY RecordingConstants DEF RecordingsInv, TypeOK, DspTypes
<1>1. CASE TakeChunk
  BY <1>0, <1>1 DEF TakeChunk, DspTypes
<1>2. CASE InputEnds \/ LastCalls \/ EndCalls
  BY <1>0, <1>2 DEF InputEnds, LastCalls, EndCalls, DspTypes
<1>3. CASE \E s \in Seeds \cup {0} : SetSeed(s)
  BY <1>0, <1>3 DEF SetSeed, Calls, DspTypes
<1>4. CASE BeginWindow
  <2>1. /\ opened' = opened + 1 /\ open' = open \cup {opened + 1}
        /\ beganAt' = [beganAt EXCEPT ![opened + 1] = input]
        /\ todo' = <<ToIq("open", opened + 1)>>
        /\ UNCHANGED <<dsp, input, inputOver, pushed, seed, endedAt>>
        /\ opened < MaxWindows
    BY <1>4 DEF BeginWindow, Calls
  <2>2. opened + 1 \in Windows /\ opened' \in 0 .. MaxWindows /\ open' \subseteq 1 .. opened'
    BY <1>0, <2>1 DEF DspTypes, Windows, RecordingConstants
  <2>3. todo' \in Seq(ToSend)
    BY <2>1, <2>2, SendTypes
  <2>4. beganAt' \in [Windows -> 0 .. MaxChunks]
    BY <1>0, <2>1 DEF DspTypes
  <2>. QED BY <1>0, <2>1, <2>2, <2>3, <2>4 DEF DspTypes, ToSend
<1>5. CASE \E w \in Windows : PushBurst(w)
  <2>. PICK w \in Windows : PushBurst(w)
    BY <1>5
  <2>1. /\ pushed' = Append(pushed, w) /\ Len(pushed) < MaxBursts
        /\ todo' = <<ToAudio("burst", w, Len(pushed) + 1)>>
        /\ UNCHANGED <<dsp, input, inputOver, opened, open, seed, beganAt, endedAt>>
    BY DEF PushBurst, Calls
  <2>2. pushed' \in Seq(Windows) /\ Len(pushed') = Len(pushed) + 1 /\ Len(pushed) \in Nat
    BY <1>0, <2>1, Appended DEF DspTypes
  <2>3. Len(pushed') <= MaxBursts
    BY <1>0, <2>1, <2>2 DEF RecordingConstants
  <2>4. todo' \in Seq(ToSend)
    BY <2>1, <2>2, SendTypes
  <2>. QED BY <1>0, <2>1, <2>2, <2>3, <2>4 DEF DspTypes, ToSend
<1>6. CASE \E w \in Windows : FinishWindow(w)
  <2>. PICK w \in Windows : FinishWindow(w)
    BY <1>6
  <2>1. /\ open' = open \ {w} /\ endedAt' = [endedAt EXCEPT ![w] = input]
        /\ todo' = <<ToAudio("close", w, 0), ToIq("close", w)>>
        /\ UNCHANGED <<dsp, input, inputOver, opened, pushed, seed, beganAt>>
    BY DEF FinishWindow, Calls
  <2>2. todo' \in Seq(ToSend)
    BY <2>1, SendTypes
  <2>. QED BY <1>0, <2>1, <2>2 DEF DspTypes, ToSend
<1>7. CASE DspSend
  <2>1. todo' \in Seq(ToSend)
    BY <1>0, <1>7, HeadTailProperties DEF DspSend, DspTypes, ToSend
  <2>. QED BY <1>0, <1>7, <2>1 DEF DspSend, DspTypes, ToSend
<1>8. CASE UNCHANGED dspVars
  BY <1>0, <1>8 DEF dspVars, DspTypes
<1>9. CASE AudioStep \/ AudioEnd \/ IqStep \/ IqRefresh \/ IqEnd
  BY <1>8, <1>9 DEF AudioStep, AudioEnd, IqStep, IqRefresh, IqEnd
<1>10. CASE StopAsked \/ LoopsOver \/ AudioOver \/ IqOver \/ Terminated
  BY <1>8, <1>10 DEF StopAsked, LoopsOver, AudioOver, IqOver, Ended, Terminated, vars
<1>. QED
  BY <1>1, <1>2, <1>3, <1>4, <1>5, <1>6, <1>7, <1>9, <1>10
  DEF Next, DspNext, AudioNext, IqNext, StopNext

\* What the worker takes out of its queue.
LEMMA AudioMessage ==
  ASSUME TypeOK, PlaceInv, AudioStep
  PROVE  \E m \in AudioMsg :
            /\ m = Head(audioQ) /\ m = audioQ[1] /\ 1 \in DOMAIN audioQ /\ m.wid \in Windows
            /\ \/ /\ m.kind = "burst" /\ AudioBurst(m)
                  /\ m.n \in Bursts /\ m.n \in DOMAIN pushed /\ pushed[m.n] = m.wid
               \/ m.kind = "close" /\ DecodeBatch({m.wid}, pending)
               \/ m.kind = "sidecar" /\ AudioSidecar(m)
<1>1. audioQ \in Seq(AudioMsg) /\ audioQ # <<>>
  BY DEF TypeOK, AudioStep
<1>2. PICK m : m = Head(audioQ)
  OBVIOUS
<1>3. m \in AudioMsg /\ m = audioQ[1] /\ 1 \in DOMAIN audioQ
  BY <1>1, <1>2, Shortened
<1>4. m.kind = "burst" => m.n \in DOMAIN pushed /\ pushed[m.n] = m.wid
  BY <1>3 DEF PlaceInv
<1>5. pushed \in Seq(Windows) /\ Len(pushed) <= MaxBursts /\ MaxBursts \in Nat
  BY RecordingConstants DEF TypeOK
<1>6. DOMAIN pushed = 1 .. Len(pushed) /\ Len(pushed) \in Nat
  BY <1>5, LenProperties
<1>7. m.kind = "burst" => m.n \in Bursts
  BY <1>4, <1>5, <1>6 DEF Bursts
<1>8. \/ m.kind = "burst" /\ AudioBurst(m)
      \/ m.kind = "close" /\ DecodeBatch({m.wid}, pending)
      \/ m.kind = "sidecar" /\ AudioSidecar(m)
  BY <1>2 DEF AudioStep
<1>. QED BY <1>2, <1>3, <1>4, <1>7, <1>8 DEF AudioMsg

\* What the arrival of a burst leaves, decoded or waiting.
LEMMA BurstTaken ==
  ASSUME TypeOK, NEW m, m.wid \in Windows, m.n \in Bursts, AudioBurst(m)
  PROVE  /\ pending' \in [Windows -> Seq(Bursts)] /\ decided' \in [Windows -> Seq(Fate)]
         /\ wav' \in [Windows -> Nat] /\ sidecar' \in [Windows -> Status]
         /\ \A w \in Windows :
               /\ Numbers(decided'[w]) \o pending'[w] =
                     Numbers(decided[w]) \o
                        (IF w = m.wid THEN Append(pending[w], m.n) ELSE pending[w])
               /\ w # m.wid => pending'[w] = pending[w]
               /\ \/ wav'[w] = Cardinality(Pcm(decided'[w]))
                  \/ wav'[w] = wav[w] /\ decided'[w] = decided[w]
               /\ \/ wav'[w] = wav[w] /\ sidecar'[w] = sidecar[w]
                  \/ wav'[w] > 0 => sidecar'[w] = iqStat[w]
<1>1. PICK p : p = [pending EXCEPT ![m.wid] = Append(@, m.n)]
  OBVIOUS
<1>2. pending \in [Windows -> Seq(Bursts)]
  BY DEF TypeOK
<1>3. Append(pending[m.wid], m.n) \in Seq(Bursts)
  BY <1>2, AppendProperties
<1>4. /\ p \in [Windows -> Seq(Bursts)]
      /\ \A w \in Windows : p[w] = IF w = m.wid THEN Append(pending[w], m.n) ELSE pending[w]
  BY <1>1, <1>2, <1>3
<1>5. CASE DecodeBatch({m.wid}, p)
  <2>1. {m.wid} \in SUBSET Windows
    OBVIOUS
  <2>2. /\ pending' \in [Windows -> Seq(Bursts)] /\ decided' \in [Windows -> Seq(Fate)]
        /\ wav' \in [Windows -> Nat] /\ sidecar' \in [Windows -> Status]
        /\ \A w \in Windows :
              /\ Numbers(decided'[w]) \o pending'[w] = Numbers(decided[w]) \o p[w]
              /\ pending'[w] = IF w \in {m.wid} THEN <<>> ELSE p[w]
              /\ \/ wav'[w] = Cardinality(Pcm(decided'[w]))
                 \/ wav'[w] = wav[w] /\ decided'[w] = decided[w]
              /\ \/ wav'[w] = wav[w] /\ sidecar'[w] = sidecar[w]
                 \/ wav'[w] > 0 => sidecar'[w] = iqStat[w]
    BY <1>4, <1>5, <2>1, Decoded
  <2>. QED BY <1>4, <2>2
<1>6. CASE pending' = p /\ UNCHANGED <<decided, wav, sidecar>>
  BY <1>4, <1>6 DEF TypeOK, Fate
<1>. QED BY <1>1, <1>5, <1>6 DEF AudioBurst

LEMMA AudioTyped ==
  ASSUME RecordingsInv, Next
  PROVE  AudioTypes'
<1>0. TypeOK /\ AudioTypes /\ PlaceInv
  BY TypeParts DEF RecordingsInv, VInv
<1>1. CASE AudioStep
  <2>. PICK m \in AudioMsg :
          /\ m.wid \in Windows
          /\ \/ AudioBurst(m) /\ m.n \in Bursts
             \/ DecodeBatch({m.wid}, pending)
             \/ AudioSidecar(m)
    BY <1>0, <1>1, AudioMessage
  <2>1. audioDone' \in BOOLEAN
    BY <1>0, <1>1 DEF AudioStep, AudioTypes
  <2>2. CASE AudioBurst(m) /\ m.n \in Bursts
    BY <1>0, <2>1, <2>2, BurstTaken DEF AudioTypes
  <2>3. CASE DecodeBatch({m.wid}, pending)
    <3>1. {m.wid} \in SUBSET Windows /\ pending \in [Windows -> Seq(Bursts)]
      BY <1>0 DEF AudioTypes
    <3>. QED BY <1>0, <2>1, <2>3, <3>1, Decoded DEF AudioTypes
  <2>4. CASE AudioSidecar(m)
    BY <1>0, <2>1, <2>4 DEF AudioSidecar, AudioTypes, TypeOK
  <2>. QED BY <2>2, <2>3, <2>4
<1>2. CASE AudioEnd
  BY <1>0, <1>2, Decoded DEF AudioEnd, AudioTypes
<1>3. CASE UNCHANGED audioVars
  BY <1>0, <1>3 DEF audioVars, AudioTypes
<1>4. CASE IqStep \/ IqRefresh \/ IqEnd
  BY <1>3, <1>4 DEF IqStep, IqRefresh, IqEnd
<1>5. CASE StopAsked \/ LoopsOver \/ AudioOver \/ IqOver \/ Terminated
  BY <1>3, <1>5 DEF StopAsked, LoopsOver, AudioOver, IqOver, Ended, Terminated, vars
<1>6. CASE TakeChunk \/ InputEnds \/ LastCalls \/ DspSend \/ EndCalls
  BY <1>3, <1>6 DEF TakeChunk, InputEnds, LastCalls, DspSend, EndCalls
<1>7. CASE BeginWindow \/ \E s \in Seeds \cup {0} : SetSeed(s)
  BY <1>3, <1>7 DEF BeginWindow, SetSeed, Calls
<1>8. CASE \E w \in Windows : PushBurst(w) \/ FinishWindow(w)
  BY <1>3, <1>8 DEF PushBurst, FinishWindow, Calls
<1>. QED
  BY <1>1, <1>2, <1>4, <1>5, <1>6, <1>7, <1>8
  DEF Next, DspNext, AudioNext, IqNext, StopNext

\* What is left to send is one of these.
LEMMA ToSendHead ==
  ASSUME TypeOK, todo # <<>>
  PROVE  /\ Head(todo).to = "audio" => Head(todo).msg \in AudioMsg
         /\ Head(todo).to = "iq" => Head(todo).msg \in IqMsg
<1>1. Head(todo) \in ToSend
  BY HeadTailProperties DEF TypeOK, ToSend
<1>. QED BY <1>1 DEF ToSend

LEMMA QueuesTyped ==
  ASSUME RecordingsInv, Next
  PROVE  QueueTypes'
<1>0. TypeOK /\ QueueTypes /\ PhaseInv /\ AudioCap \in Nat /\ IqCap \in Nat /\ MaxChunks \in Nat
  BY TypeParts, RecordingConstants DEF RecordingsInv
<1>1. ASSUME NEW m \in AudioMsg, audioQ' = Append(audioQ, m), Len(audioQ) < AudioCap
      PROVE  audioQ' \in Seq(AudioMsg) /\ Len(audioQ') <= AudioCap
  BY <1>0, <1>1, Appended DEF QueueTypes
<1>2. ASSUME NEW m \in IqMsg, iqQ' = Append(iqQ, m), Len(iqQ) < IqCap
      PROVE  iqQ' \in Seq(IqMsg) /\ Len(iqQ') <= IqCap
  BY <1>0, <1>2, Appended DEF QueueTypes
<1>3. CASE TakeChunk
  <2>1. input + 1 \in Chunks
    BY <1>0, <1>3 DEF TakeChunk, TypeOK, Chunks
  <2>2. [kind |-> "iq", wid |-> 0, n |-> input + 1] \in IqMsg
    BY <2>1, RecordingConstants DEF IqMsg, Chunks
  <2>3. iqQ' \in Seq(IqMsg) /\ Len(iqQ') <= IqCap /\ dropped' \subseteq Chunks
    BY <1>0, <1>2, <1>3, <2>1, <2>2 DEF TakeChunk, PushSamples, QueueTypes
  <2>. QED BY <1>0, <1>3, <2>3 DEF TakeChunk, QueueTypes
<1>4. CASE DspSend
  <2>1. /\ Head(todo).to = "audio" => Head(todo).msg \in AudioMsg
        /\ Head(todo).to = "iq" => Head(todo).msg \in IqMsg
    BY <1>0, <1>4, ToSendHead DEF DspSend
  <2>2. audioQ' \in Seq(AudioMsg) /\ Len(audioQ') <= AudioCap
    BY <1>0, <1>1, <1>4, <2>1 DEF DspSend, SendAudio, QueueTypes
  <2>3. iqQ' \in Seq(IqMsg) /\ Len(iqQ') <= IqCap
    BY <1>0, <1>2, <1>4, <2>1 DEF DspSend, SendIq, QueueTypes
  <2>. QED BY <1>0, <1>4, <2>2, <2>3 DEF DspSend, QueueTypes
<1>5. CASE AudioStep
  <2>1. audioQ' \in Seq(AudioMsg) /\ Len(audioQ') <= AudioCap
    <3>1. PICK q : q = Tail(audioQ)
      OBVIOUS
    <3>2. audioQ # <<>> /\ audioQ' = q
      BY <1>5, <3>1 DEF AudioStep
    <3>3. q \in Seq(AudioMsg) /\ Len(q) = Len(audioQ) - 1 /\ Len(audioQ) \in Nat
      BY <1>0, <3>1, <3>2, Shortened DEF QueueTypes
    <3>. QED BY <1>0, <3>2, <3>3 DEF QueueTypes
  <2>. QED BY <1>0, <1>5, <2>1 DEF AudioStep, QueueTypes
<1>6. CASE IqStep
  <2>1. iqQ' \in Seq(IqMsg) /\ Len(iqQ') <= IqCap
    <3>1. PICK q : q = Tail(iqQ)
      OBVIOUS
    <3>2. iqQ # <<>> /\ iqQ' = q
      BY <1>6, <3>1 DEF IqStep
    <3>3. q \in Seq(IqMsg) /\ Len(q) = Len(iqQ) - 1 /\ Len(iqQ) \in Nat
      BY <1>0, <3>1, <3>2, Shortened DEF QueueTypes
    <3>. QED BY <1>0, <3>2, <3>3 DEF QueueTypes
  <2>. QED BY <1>0, <1>6, <2>1 DEF IqStep, QueueTypes
<1>7. CASE IqRefresh
  <2>1. [kind |-> "sidecar", wid |-> finished, n |-> 0] \in AudioMsg
    BY <1>0, <1>7 DEF IqRefresh, PhaseInv, AudioMsg
  <2>2. audioQ' \in Seq(AudioMsg) /\ Len(audioQ') <= AudioCap
    BY <1>0, <1>1, <1>7, <2>1 DEF IqRefresh, SendAudio, QueueTypes
  <2>. QED BY <1>0, <1>7, <2>2 DEF IqRefresh, QueueTypes
<1>8. CASE AudioEnd \/ IqEnd
  BY <1>0, <1>8 DEF AudioEnd, IqEnd, QueueTypes
<1>9. CASE StopAsked \/ LoopsOver \/ AudioOver \/ IqOver
  BY <1>0, <1>9 DEF StopAsked, LoopsOver, AudioOver, IqOver, Ended, QueueTypes
<1>10. CASE InputEnds \/ LastCalls \/ EndCalls \/ Terminated
  BY <1>0, <1>10 DEF InputEnds, LastCalls, EndCalls, Terminated, vars, QueueTypes
<1>11. CASE BeginWindow \/ \E s \in Seeds \cup {0} : SetSeed(s)
  BY <1>0, <1>11 DEF BeginWindow, SetSeed, Calls, QueueTypes
<1>12. CASE \E w \in Windows : PushBurst(w) \/ FinishWindow(w)
  BY <1>0, <1>12 DEF PushBurst, FinishWindow, Calls, QueueTypes
<1>. QED
  BY <1>3, <1>4, <1>5, <1>6, <1>7, <1>8, <1>9, <1>10, <1>11, <1>12
  DEF Next, DspNext, AudioNext, IqNext, StopNext

LEMMA TypeKept ==
  ASSUME RecordingsInv, [Next]_vars
  PROVE  TypeOK'
<1>1. CASE UNCHANGED vars
  <2>1. DspTypes /\ AudioTypes /\ QueueTypes /\ RecorderTypes
    BY TypeParts DEF RecordingsInv
  <2>2. DspTypes'
    BY <1>1, <2>1 DEF DspTypes, vars, dspVars
  <2>3. AudioTypes'
    BY <1>1, <2>1 DEF AudioTypes, vars, audioVars
  <2>4. QueueTypes'
    BY <1>1, <2>1 DEF QueueTypes, vars
  <2>5. RecorderTypes'
    BY <1>1, <2>1 DEF RecorderTypes, vars, recVars
  <2>. QED BY <2>2, <2>3, <2>4, <2>5 DEF TypeOK, DspTypes, AudioTypes, QueueTypes, RecorderTypes, Fate
<1>2. CASE Next
  <2>1. RecorderTypes'
    <3>0. RecorderTypes
      BY TypeParts DEF RecordingsInv
    <3>1. CASE UNCHANGED recVars
      BY <3>0, <3>1 DEF RecorderTypes, recVars
    <3>2. CASE TakeChunk \/ InputEnds \/ LastCalls \/ DspSend \/ EndCalls
      BY <3>1, <3>2 DEF TakeChunk, InputEnds, LastCalls, DspSend, EndCalls
    <3>3. CASE BeginWindow \/ \E s \in Seeds \cup {0} : SetSeed(s)
      BY <3>1, <3>3 DEF BeginWindow, SetSeed, Calls
    <3>4. CASE \E w \in Windows : PushBurst(w) \/ FinishWindow(w)
      BY <3>1, <3>4 DEF PushBurst, FinishWindow, Calls
    <3>5. CASE AudioStep \/ AudioEnd
      BY <3>1, <3>5 DEF AudioStep, AudioEnd
    <3>6. CASE StopAsked \/ LoopsOver \/ AudioOver \/ IqOver \/ Terminated
      BY <3>1, <3>6 DEF StopAsked, LoopsOver, AudioOver, IqOver, Ended, Terminated, vars
    <3>. QED
      BY <1>2, <3>2, <3>3, <3>4, <3>5, <3>6, RecorderTyped
      DEF Next, DspNext, AudioNext, IqNext, StopNext
  <2>2. DspTypes' /\ AudioTypes' /\ QueueTypes'
    BY <1>2, DspTyped, AudioTyped, QueuesTyped
  <2>. QED BY <2>1, <2>2 DEF TypeOK, DspTypes, AudioTypes, QueueTypes, RecorderTypes, Fate
<1>. QED BY <1>1, <1>2

-----------------------------------------------------------------------------
(* The voice.                                                              *)

LEMMA Calling ==
  ASSUME NEW v, NEW w, NEW n, NEW k
  PROVE  /\ Bringing(v, n) = Bringing(w, k) => v = w /\ n = k
         /\ Opening(v) = Opening(w) => v = w
         /\ Closing(v) = Closing(w) => v = w
         /\ ClosingIq(v) = ClosingIq(w) => v = w
         /\ Bringing(v, n) \notin {<<>>, Opening(w), Closing(w), ClosingIq(w)}
         /\ Opening(v) \notin {<<>>, Closing(w), ClosingIq(w)}
         /\ Closing(v) \notin {<<>>, ClosingIq(w)}
         /\ ClosingIq(v) # <<>>
<1>. DEFINE a == [kind |-> "burst", wid |-> v, n |-> n]
            b == [kind |-> "burst", wid |-> w, n |-> k]
<1>1. /\ Bringing(v, n)[1].to = "audio" /\ Bringing(v, n)[1].msg.kind = "burst"
      /\ Bringing(v, n)[1].msg.wid = v /\ Bringing(v, n)[1].msg.n = n /\ Len(Bringing(v, n)) = 1
      /\ Bringing(w, k)[1].msg.wid = w /\ Bringing(w, k)[1].msg.n = k
  BY DEF Bringing, ToAudio
<1>2. /\ Opening(v)[1].to = "iq" /\ Opening(v)[1].msg.kind = "open" /\ Opening(v)[1].msg.wid = v
      /\ Opening(w)[1].to = "iq" /\ Opening(w)[1].msg.kind = "open" /\ Opening(w)[1].msg.wid = w
      /\ Len(Opening(v)) = 1 /\ Len(Opening(w)) = 1
  BY DEF Opening, ToIq
<1>3. /\ Closing(v)[1].to = "audio" /\ Closing(v)[1].msg.kind = "close" /\ Closing(v)[1].msg.wid = v
      /\ Closing(w)[1].to = "audio" /\ Closing(w)[1].msg.kind = "close" /\ Closing(w)[1].msg.wid = w
      /\ Len(Closing(v)) = 2 /\ Len(Closing(w)) = 2
  BY DEF Closing, ToAudio
<1>4. /\ ClosingIq(v)[1].to = "iq" /\ ClosingIq(v)[1].msg.kind = "close"
      /\ ClosingIq(w)[1].to = "iq" /\ ClosingIq(w)[1].msg.kind = "close"
      /\ ClosingIq(v)[1].msg.wid = v /\ ClosingIq(w)[1].msg.wid = w
      /\ Len(ClosingIq(v)) = 1 /\ Len(ClosingIq(w)) = 1
  BY DEF ClosingIq, ToIq
<1>5. Len(<<>>) = 0
  OBVIOUS
<1>6. Bringing(v, n) = Bringing(w, k) => v = w /\ n = k
  BY <1>1
<1>7. Opening(v) = Opening(w) => v = w
  BY <1>2
<1>8. /\ Closing(v) = Closing(w) => v = w
      /\ ClosingIq(v) = ClosingIq(w) => v = w
  BY <1>3, <1>4
<1>9. Bringing(v, n) \notin {<<>>, Opening(w), Closing(w), ClosingIq(w)}
  BY <1>1, <1>2, <1>3, <1>4, <1>5
<1>10. Opening(v) \notin {<<>>, Closing(w), ClosingIq(w)}
  BY <1>2, <1>3, <1>4, <1>5
<1>11. Closing(v) \notin {<<>>, ClosingIq(w)} /\ ClosingIq(v) # <<>>
  BY <1>3, <1>4, <1>5
<1>. QED BY <1>6, <1>7, <1>8, <1>9, <1>10, <1>11

\* What a send takes to the worker's queue.
LEMMA SentToAudio ==
  ASSUME TypeOK, StopInv, CallInv, DspSend
  PROVE  \/ \E w \in open :
               /\ Len(pushed) > 0 /\ pushed[Len(pushed)] = w
               /\ todo = Bringing(w, Len(pushed)) /\ todo' = <<>> /\ iqQ' = iqQ
               /\ audioQ' = Append(audioQ, [kind |-> "burst", wid |-> w, n |-> Len(pushed)])
         \/ \E w \in (1 .. opened) \ open :
               /\ endedAt[w] = input
               /\ todo = Closing(w) /\ todo' = ClosingIq(w) /\ iqQ' = iqQ
               /\ audioQ' = Append(audioQ, [kind |-> "close", wid |-> w, n |-> 0])
         \/ \E w \in (1 .. opened) \ open :
               /\ endedAt[w] = input
               /\ todo = ClosingIq(w) /\ todo' = <<>> /\ audioQ' = audioQ
               /\ iqQ' = Append(iqQ, [kind |-> "close", wid |-> w, n |-> 0])
         \/ /\ todo = Opening(opened) /\ todo' = <<>> /\ audioQ' = audioQ
            /\ opened \in open /\ beganAt[opened] = input
            /\ iqQ' = Append(iqQ, [kind |-> "open", wid |-> opened, n |-> 0])
<1>1. /\ todo # <<>> /\ todo' = Tail(todo)
      /\ \/ Head(todo).to = "audio" /\ audioQ' = Append(audioQ, Head(todo).msg) /\ iqQ' = iqQ
         \/ Head(todo).to = "iq" /\ iqQ' = Append(iqQ, Head(todo).msg) /\ audioQ' = audioQ
  BY Sending DEF DspSend
<1>2. CASE \E w \in open :
              Len(pushed) > 0 /\ pushed[Len(pushed)] = w /\ todo = Bringing(w, Len(pushed))
  <2>. PICK w \in open :
          Len(pushed) > 0 /\ pushed[Len(pushed)] = w /\ todo = Bringing(w, Len(pushed))
    BY <1>2
  <2>1. Head(todo) = ToAudio("burst", w, Len(pushed)) /\ Tail(todo) = <<>>
    BY One DEF Bringing
  <2>2. /\ Head(todo).to = "audio"
        /\ Head(todo).msg = [kind |-> "burst", wid |-> w, n |-> Len(pushed)]
    BY <2>1 DEF ToAudio
  <2>. QED BY <1>1, <2>1, <2>2
<1>3. CASE \E w \in (1 .. opened) \ open : endedAt[w] = input /\ todo = Closing(w)
  <2>. PICK w \in (1 .. opened) \ open : endedAt[w] = input /\ todo = Closing(w)
    BY <1>3
  <2>1. Head(todo) = ToAudio("close", w, 0) /\ Tail(todo) = ClosingIq(w)
    BY Two DEF Closing, ClosingIq
  <2>2. /\ Head(todo).to = "audio"
        /\ Head(todo).msg = [kind |-> "close", wid |-> w, n |-> 0]
    BY <2>1 DEF ToAudio
  <2>. QED BY <1>1, <2>1, <2>2
<1>4. CASE \E w \in (1 .. opened) \ open : endedAt[w] = input /\ todo = ClosingIq(w)
  <2>. PICK w \in (1 .. opened) \ open : endedAt[w] = input /\ todo = ClosingIq(w)
    BY <1>4
  <2>1. Head(todo) = ToIq("close", w) /\ Tail(todo) = <<>>
    BY One DEF ClosingIq
  <2>2. /\ Head(todo).to = "iq"
        /\ Head(todo).msg = [kind |-> "close", wid |-> w, n |-> 0]
    BY <2>1 DEF ToIq
  <2>. QED BY <1>1, <2>1, <2>2
<1>5. CASE opened \in open /\ beganAt[opened] = input /\ todo = Opening(opened)
  <2>1. Head(todo) = ToIq("open", opened) /\ Tail(todo) = <<>>
    BY <1>5, One DEF Opening
  <2>2. /\ Head(todo).to = "iq"
        /\ Head(todo).msg = [kind |-> "open", wid |-> opened, n |-> 0]
    BY <2>1 DEF ToIq
  <2>. QED BY <1>1, <1>5, <2>1, <2>2
<1>. QED BY <1>1, <1>2, <1>3, <1>4, <1>5 DEF CallInv

LEMMA VoiceTyped ==
  ASSUME TypeOK
  PROVE  /\ Voice \in [Windows -> Seq(Bursts)]
         /\ \A w \in Windows : Voice[w] = Numbers(decided[w]) \o pending[w]
<1>1. \A w \in Windows : decided[w] \in Seq(Fate) /\ pending[w] \in Seq(Bursts)
  BY DEF TypeOK, Fate
<1>2. \A w \in Windows : Voice[w] = Numbers(decided[w]) \o pending[w]
  BY Handled DEF Voice
<1>3. ASSUME NEW w \in Windows PROVE Voice[w] \in Seq(Bursts)
  BY <1>1, <1>2, NumbersOf, Concatenated
<1>4. Voice = [w \in Windows |-> Voice[w]]
  BY DEF Voice
<1>5. Voice \in [Windows -> Seq(Bursts)]
  BY <1>3, <1>4
<1>. QED BY <1>2, <1>5

LEMMA VoiceNext ==
  /\ Voice' = [w \in Windows |-> Numbers(decided'[w]) \o pending'[w]]
  /\ Voice = [w \in Windows |-> Numbers(decided[w]) \o pending[w]]
BY DEF Voice, HandledOf, Numbers

\* A burst comes behind those the worker has had of its window.
LEMMA VoiceMoves ==
  ASSUME TypeOK, PlaceInv, AudioStep
  PROVE  \E m \in AudioMsg :
            /\ m = audioQ[1] /\ 1 \in DOMAIN audioQ /\ m.wid \in Windows
            /\ audioQ # <<>> /\ audioQ' = Tail(audioQ)
            /\ \/ /\ m.kind = "burst" /\ m.n \in Bursts
                  /\ m.n \in DOMAIN pushed /\ pushed[m.n] = m.wid
                  /\ Voice' = [Voice EXCEPT ![m.wid] = Append(@, m.n)]
                  /\ \A w \in Windows : w # m.wid => pending'[w] = pending[w]
               \/ /\ m.kind = "close" /\ Voice' = Voice
                  /\ \A w \in Windows : pending'[w] = IF w = m.wid THEN <<>> ELSE pending[w]
               \/ m.kind = "sidecar" /\ Voice' = Voice /\ pending' = pending
<1>1. PICK m \in AudioMsg :
         /\ m = Head(audioQ) /\ m = audioQ[1] /\ 1 \in DOMAIN audioQ /\ m.wid \in Windows
         /\ \/ /\ m.kind = "burst" /\ AudioBurst(m)
               /\ m.n \in Bursts /\ m.n \in DOMAIN pushed /\ pushed[m.n] = m.wid
            \/ m.kind = "close" /\ DecodeBatch({m.wid}, pending)
            \/ m.kind = "sidecar" /\ AudioSidecar(m)
  BY AudioMessage
<1>2. audioQ # <<>> /\ audioQ' = Tail(audioQ)
  BY DEF AudioStep
<1>3. CASE /\ m.kind = "burst" /\ AudioBurst(m)
           /\ m.n \in Bursts /\ m.n \in DOMAIN pushed /\ pushed[m.n] = m.wid
  <2>1. \A w \in Windows :
           /\ Numbers(decided'[w]) \o pending'[w] =
                 Numbers(decided[w]) \o
                    (IF w = m.wid THEN Append(pending[w], m.n) ELSE pending[w])
           /\ w # m.wid => pending'[w] = pending[w]
    BY <1>1, <1>3, BurstTaken
  <2>2. ASSUME NEW w \in Windows, w # m.wid PROVE Voice'[w] = Voice[w]
    BY <2>1, <2>2, VoiceNext
  <2>3. Voice'[m.wid] = Append(Voice[m.wid], m.n)
    <3>1. PICK d : d = Numbers(decided[m.wid])
      OBVIOUS
    <3>2. PICK p : p = pending[m.wid]
      OBVIOUS
    <3>3. d \in Seq(Bursts) /\ p \in Seq(Bursts)
      BY <1>1, <3>1, <3>2, NumbersOf DEF TypeOK, Fate
    <3>4. /\ Append(p, m.n) = p \o <<m.n>> /\ <<m.n>> \in Seq(Bursts)
          /\ d \o p \in Seq(Bursts)
          /\ Append(d \o p, m.n) = (d \o p) \o <<m.n>>
      <4>1. d \o p \in Seq(Bursts)
        BY <3>3, ConcatProperties
      <4>2. <<m.n>> \in Seq(Bursts)
        BY <1>3
      <4>. QED BY <1>3, <3>3, <4>1, <4>2, AppendIsConcat
    <3>5. (d \o p) \o <<m.n>> = d \o (p \o <<m.n>>)
      BY <3>3, <3>4, ConcatAssociative
    <3>6. Voice'[m.wid] = d \o Append(p, m.n) /\ Voice[m.wid] = d \o p
      BY <1>1, <2>1, <3>1, <3>2, VoiceNext
    <3>. QED BY <3>4, <3>5, <3>6
  <2>4. Voice' = [Voice EXCEPT ![m.wid] = Append(@, m.n)]
    <3>1. Voice' = [w \in Windows |-> Voice'[w]] /\ DOMAIN Voice = Windows
      BY VoiceNext
    <3>. QED BY <1>1, <2>2, <2>3, <3>1
  <2>. QED BY <1>1, <1>2, <1>3, <2>1, <2>4
<1>4. CASE m.kind = "close" /\ DecodeBatch({m.wid}, pending)
  <2>0. PICK ws : ws = {m.wid}
    OBVIOUS
  <2>1. ws \in SUBSET Windows /\ pending \in [Windows -> Seq(Bursts)] /\ DecodeBatch(ws, pending)
    BY <1>1, <1>4, <2>0 DEF TypeOK
  <2>2. \A w \in Windows :
           /\ Numbers(decided'[w]) \o pending'[w] = Numbers(decided[w]) \o pending[w]
           /\ pending'[w] = IF w \in ws THEN <<>> ELSE pending[w]
    <3>1. \A w \in Windows :
             /\ Numbers(decided'[w]) \o pending'[w] = Numbers(decided[w]) \o pending[w]
             /\ pending'[w] = IF w \in ws THEN <<>> ELSE pending[w]
             /\ \/ wav'[w] = Cardinality(Pcm(decided'[w]))
                \/ wav'[w] = wav[w] /\ decided'[w] = decided[w]
             /\ \/ wav'[w] = wav[w] /\ sidecar'[w] = sidecar[w]
                \/ wav'[w] > 0 => sidecar'[w] = iqStat[w]
      BY <2>1, Decoded
    <3>. QED BY <3>1
  <2>3. Voice' = Voice
    BY <2>2, VoiceNext
  <2>. QED BY <1>1, <1>2, <1>4, <2>0, <2>2, <2>3
<1>5. CASE m.kind = "sidecar" /\ AudioSidecar(m)
  BY <1>1, <1>2, <1>5, VoiceNext DEF AudioSidecar
<1>. QED BY <1>1, <1>3, <1>4, <1>5

LEMMA VoiceAtEnd ==
  ASSUME TypeOK, AudioEnd
  PROVE  Voice' = Voice /\ audioQ = <<>> /\ audioQ' = audioQ
         /\ \A w \in Windows : pending'[w] = <<>>
<1>1. pending \in [Windows -> Seq(Bursts)] /\ Windows \in SUBSET Windows /\ DecodeBatch(Windows, pending)
  BY DEF TypeOK, AudioEnd
<1>2. \A w \in Windows :
         /\ Numbers(decided'[w]) \o pending'[w] = Numbers(decided[w]) \o pending[w]
         /\ pending'[w] = IF w \in Windows THEN <<>> ELSE pending[w]
  BY <1>1, Decoded
<1>. QED BY <1>2, VoiceNext DEF AudioEnd

\* Every other step leaves the worker's voice alone, and its queue gets a
\* message at most.
LEMMA VoiceKept ==
  ASSUME TypeOK,
         \/ Quiet \/ TakeChunk \/ BeginWindow \/ DspSend \/ IqStep \/ IqRefresh \/ IqEnd
         \/ \E w \in Windows : PushBurst(w) \/ FinishWindow(w)
  PROVE  Voice' = Voice /\ UNCHANGED <<pending, decided, wav, sidecar>>
<1>1. UNCHANGED <<pending, decided, wav, sidecar>>
  BY DEF Quiet, TakeChunk, BeginWindow, DspSend, IqStep, IqRefresh, IqEnd, PushBurst,
         FinishWindow, Calls, audioVars
<1>. QED BY <1>1, VoiceNext

LEMMA OrderKept ==
  ASSUME RecordingsInv, [Next]_vars
  PROVE  OrderInv'
<1>0. /\ TypeOK /\ StopInv /\ CallInv /\ OrderInv /\ PlaceInv
      /\ audioQ \in Seq(AudioMsg) /\ Voice \in [Windows -> Seq(Bursts)] /\ pushed \in Seq(Windows)
  BY VoiceTyped DEF RecordingsInv, VInv, TypeOK
<1>1. CASE UNCHANGED <<audioQ, Voice>>
  BY <1>0, <1>1 DEF OrderInv, BurstAt
<1>2. ASSUME NEW m \in AudioMsg, audioQ' = Append(audioQ, m), Voice' = Voice,
             m.kind = "burst" =>
                /\ \A n \in ToSet(Voice[m.wid]) : n < m.n
                /\ \A i \in DOMAIN audioQ : BurstAt(i, m.wid) => audioQ[i].n < m.n
      PROVE  OrderInv'
  <2>1. PICK q : q = audioQ'
    OBVIOUS
  <2>2. /\ DOMAIN q = 1 .. Len(audioQ) + 1 /\ DOMAIN audioQ = 1 .. Len(audioQ) /\ Len(audioQ) \in Nat
        /\ \A i \in DOMAIN audioQ : q[i] = audioQ[i]
        /\ q[Len(audioQ) + 1] = m
    BY <1>0, <1>2, <2>1, Appended
  <2>3. ASSUME NEW w \in Windows, NEW i \in DOMAIN q, NEW j \in DOMAIN q, i < j,
               q[i].kind = "burst", q[i].wid = w, q[j].kind = "burst", q[j].wid = w
        PROVE  q[i].n < q[j].n
    <3>1. i \in DOMAIN audioQ
      BY <2>2, <2>3
    <3>2. CASE j \in DOMAIN audioQ
      BY <1>0, <2>2, <2>3, <3>1, <3>2 DEF OrderInv, BurstAt
    <3>3. CASE j = Len(audioQ) + 1
      BY <1>2, <2>2, <2>3, <3>1, <3>3 DEF BurstAt
    <3>. QED BY <2>2, <3>2, <3>3
  <2>4. ASSUME NEW w \in Windows, NEW n \in ToSet(Voice[w]), NEW i \in DOMAIN q,
               q[i].kind = "burst", q[i].wid = w
        PROVE  n < q[i].n
    <3>1. CASE i \in DOMAIN audioQ
      BY <1>0, <2>2, <2>4, <3>1 DEF OrderInv, BurstAt
    <3>2. CASE i = Len(audioQ) + 1
      BY <1>2, <2>2, <2>4, <3>2
    <3>. QED BY <2>2, <3>1, <3>2
  <2>. QED BY <1>0, <1>2, <2>1, <2>3, <2>4 DEF OrderInv, BurstAt
<1>3. CASE DspSend
  <2>1. Voice' = Voice
    BY <1>0, <1>3, VoiceKept
  <2>2. CASE \E w \in open :
                /\ Len(pushed) > 0 /\ pushed[Len(pushed)] = w
                /\ todo = Bringing(w, Len(pushed))
                /\ audioQ' = Append(audioQ, [kind |-> "burst", wid |-> w, n |-> Len(pushed)])
    <3>. PICK w \in open :
                /\ Len(pushed) > 0 /\ pushed[Len(pushed)] = w
                /\ todo = Bringing(w, Len(pushed))
                /\ audioQ' = Append(audioQ, [kind |-> "burst", wid |-> w, n |-> Len(pushed)])
      BY <2>2
    <3>1. PICK m : m = [kind |-> "burst", wid |-> w, n |-> Len(pushed)]
      OBVIOUS
    <3>2. /\ Len(pushed) \in Nat /\ DOMAIN pushed = 1 .. Len(pushed) /\ w \in Windows
          /\ InHand(Len(pushed))
      BY <1>0, LenProperties, ElementOfSeq DEF InHand
    <3>3. m \in AudioMsg /\ m.kind = "burst" /\ m.wid = w /\ m.n = Len(pushed)
      BY <3>1, <3>2 DEF AudioMsg
    <3>4. \A n \in ToSet(Voice[w]) : n < Len(pushed)
      <4>1. \A n \in ToSet(Voice[w]) : n \in DOMAIN pushed /\ n # Len(pushed)
        BY <1>0, <3>2 DEF PlaceInv
      <4>. QED BY <3>2, <4>1
    <3>5. \A i \in DOMAIN audioQ : BurstAt(i, w) => audioQ[i].n < Len(pushed)
      <4>1. \A i \in DOMAIN audioQ :
               BurstAt(i, w) => audioQ[i].n \in DOMAIN pushed /\ audioQ[i].n # Len(pushed)
        BY <1>0, <3>2 DEF PlaceInv, BurstAt
      <4>. QED BY <3>2, <4>1
    <3>. QED BY <1>2, <2>1, <3>1, <3>3, <3>4, <3>5
  <2>3. CASE \E w \in (1 .. opened) \ open :
                audioQ' = Append(audioQ, [kind |-> "close", wid |-> w, n |-> 0])
    <3>. PICK w \in (1 .. opened) \ open :
                audioQ' = Append(audioQ, [kind |-> "close", wid |-> w, n |-> 0])
      BY <2>3
    <3>1. PICK m : m = [kind |-> "close", wid |-> w, n |-> 0]
      OBVIOUS
    <3>2. w \in Windows
      BY <1>0, RecordingConstants DEF TypeOK, Windows
    <3>3. m \in AudioMsg /\ m.kind = "close"
      BY <3>1, <3>2 DEF AudioMsg
    <3>. QED BY <1>2, <2>1, <3>1, <3>3
  <2>4. CASE audioQ' = audioQ
    BY <1>1, <2>1, <2>4
  <2>. QED BY <1>0, <1>3, <2>2, <2>3, <2>4, SentToAudio
<1>4. CASE AudioStep
  <2>1. PICK m \in AudioMsg :
            /\ m = audioQ[1] /\ 1 \in DOMAIN audioQ /\ m.wid \in Windows
            /\ audioQ # <<>> /\ audioQ' = Tail(audioQ)
            /\ \/ /\ m.kind = "burst" /\ m.n \in Bursts
                  /\ Voice' = [Voice EXCEPT ![m.wid] = Append(@, m.n)]
               \/ m.kind # "burst" /\ Voice' = Voice
    BY <1>0, <1>4, VoiceMoves
  <2>2. PICK q : q = audioQ'
    OBVIOUS
  <2>3. /\ DOMAIN audioQ = 1 .. Len(audioQ) /\ Len(audioQ) \in Nat \ {0}
        /\ DOMAIN q = 1 .. Len(audioQ) - 1
        /\ \A i \in DOMAIN q : i + 1 \in DOMAIN audioQ /\ q[i] = audioQ[i + 1]
    BY <1>0, <2>1, <2>2, Shortened
  <2>4. \A w \in Windows : \A i, j \in DOMAIN q :
           i < j /\ q[i].kind = "burst" /\ q[i].wid = w /\ q[j].kind = "burst" /\ q[j].wid = w
              => q[i].n < q[j].n
    <3>1. ASSUME NEW w \in Windows, NEW i \in DOMAIN q, NEW j \in DOMAIN q, i < j,
                 q[i].kind = "burst", q[i].wid = w, q[j].kind = "burst", q[j].wid = w
          PROVE  q[i].n < q[j].n
      <4>1. i + 1 < j + 1 /\ BurstAt(i + 1, w) /\ BurstAt(j + 1, w)
        BY <2>3, <3>1 DEF BurstAt
      <4>. QED BY <1>0, <2>3, <3>1, <4>1 DEF OrderInv
    <3>. QED BY <3>1
  <2>5. \A w \in Windows : \A n \in ToSet(Voice[w]), i \in DOMAIN q :
           q[i].kind = "burst" /\ q[i].wid = w => n < q[i].n
    BY <1>0, <2>3 DEF OrderInv, BurstAt
  <2>6. CASE m.kind # "burst" /\ Voice' = Voice
    BY <1>0, <2>2, <2>4, <2>5, <2>6 DEF OrderInv, BurstAt
  <2>7. CASE /\ m.kind = "burst" /\ m.n \in Bursts
             /\ Voice' = [Voice EXCEPT ![m.wid] = Append(@, m.n)]
    <3>1. PICK s : s = Voice[m.wid]
      OBVIOUS
    <3>2. /\ s \in Seq(Bursts) /\ Increasing(s) /\ \A n \in ToSet(s) : n < m.n
      BY <1>0, <2>1, <2>7, <3>1 DEF OrderInv, BurstAt
    <3>3. PICK t : t = Append(s, m.n)
      OBVIOUS
    <3>4. ToSet(t) = ToSet(s) \cup {m.n} /\ Increasing(t)
      <4>1. s \in Seq(Nat) /\ m.n \in Nat
        <5>1. Bursts \subseteq Nat
          BY DEF Bursts
        <5>. QED BY <2>7, <3>2, <5>1, SeqMonotonic
      <4>2. Increasing(t)
        BY <3>2, <3>3, <4>1, IncreasingAppend
      <4>3. ToSet(t) = ToSet(s) \cup {m.n}
        BY <2>7, <3>2, <3>3, AppendedSet
      <4>. QED BY <4>2, <4>3
    <3>5. \A w \in Windows : Voice'[w] = IF w = m.wid THEN t ELSE Voice[w]
      BY <1>0, <2>7, <3>1, <3>3
    <3>6. \A i \in DOMAIN q : q[i].kind = "burst" /\ q[i].wid = m.wid => m.n < q[i].n
      <4>1. ASSUME NEW i \in DOMAIN q, q[i].kind = "burst", q[i].wid = m.wid
            PROVE  m.n < q[i].n
        <5>1. 1 < i + 1 /\ BurstAt(1, m.wid) /\ BurstAt(i + 1, m.wid)
          BY <2>1, <2>3, <2>7, <4>1 DEF BurstAt
        <5>. QED BY <1>0, <2>1, <2>3, <4>1, <5>1 DEF OrderInv
      <4>. QED BY <4>1
    <3>7. ASSUME NEW w \in Windows
          PROVE  /\ Increasing(Voice'[w])
                 /\ \A n \in ToSet(Voice'[w]), i \in DOMAIN q :
                       q[i].kind = "burst" /\ q[i].wid = w => n < q[i].n
      <4>1. CASE w = m.wid
        BY <2>5, <3>1, <3>4, <3>5, <3>6, <4>1
      <4>2. CASE w # m.wid
        BY <1>0, <2>5, <3>5, <4>2 DEF OrderInv
      <4>. QED BY <4>1, <4>2
    <3>. QED BY <2>2, <2>4, <3>7 DEF OrderInv, BurstAt
  <2>. QED BY <2>1, <2>6, <2>7
<1>5. CASE AudioEnd
  BY <1>0, <1>1, <1>5, VoiceAtEnd
<1>6. CASE IqRefresh
  <2>1. Voice' = Voice
    BY <1>0, <1>6, VoiceKept
  <2>2. CASE audioQ' = audioQ
    BY <1>1, <2>1, <2>2
  <2>3. CASE audioQ' = Append(audioQ, [kind |-> "sidecar", wid |-> finished, n |-> 0])
    <3>1. PICK m : m = [kind |-> "sidecar", wid |-> finished, n |-> 0]
      OBVIOUS
    <3>2. finished \in Windows
      BY <1>6 DEF RecordingsInv, PhaseInv, IqRefresh
    <3>3. m \in AudioMsg /\ m.kind # "burst"
      BY <3>1, <3>2 DEF AudioMsg
    <3>. QED BY <1>2, <2>1, <2>3, <3>1, <3>3
  <2>. QED BY <1>6, <2>2, <2>3 DEF IqRefresh, SendAudio
<1>7. CASE \/ Quiet \/ TakeChunk \/ BeginWindow \/ IqStep \/ IqEnd
           \/ \E w \in Windows : PushBurst(w) \/ FinishWindow(w)
  <2>1. audioQ' = audioQ
    BY <1>7 DEF Quiet, TakeChunk, BeginWindow, IqStep, IqEnd, PushBurst, FinishWindow, Calls
  <2>. QED BY <1>0, <1>1, <1>7, <2>1, VoiceKept
<1>. QED
  BY <1>0, <1>3, <1>4, <1>5, <1>6, <1>7, Steps

LEMMA PlaceKept ==
  ASSUME RecordingsInv, [Next]_vars
  PROVE  PlaceInv'
<1>0. /\ TypeOK /\ StopInv /\ CallInv /\ PlaceInv
      /\ audioQ \in Seq(AudioMsg) /\ Voice \in [Windows -> Seq(Bursts)] /\ pushed \in Seq(Windows)
  BY VoiceTyped DEF RecordingsInv, VInv, TypeOK
<1>1. ASSUME UNCHANGED <<audioQ, Voice, pushed>>,
             \A w, n : todo' = Bringing(w, n) <=> todo = Bringing(w, n)
      PROVE  PlaceInv'
  <2>1. \A n : InHand(n)' <=> InHand(n)
    BY <1>1 DEF InHand, Bringing, ToAudio
  <2>2. ASSUME NEW n \in DOMAIN pushed
        PROVE  \/ n \in ToSet(Voice[pushed[n]])
               \/ \E i \in DOMAIN audioQ : BurstAt(i, pushed[n]) /\ audioQ[i].n = n
               \/ todo' = Bringing(pushed[n], n)
    BY <1>0, <1>1 DEF PlaceInv
  <2>. QED BY <1>0, <1>1, <2>1, <2>2 DEF PlaceInv, BurstAt, Bringing, ToAudio
<1>2. ASSUME NEW m \in AudioMsg, audioQ' = Append(audioQ, m), m.kind # "burst",
             UNCHANGED <<Voice, pushed>>,
             \A w, n : todo' = Bringing(w, n) <=> todo = Bringing(w, n)
      PROVE  PlaceInv'
  <2>1. PICK q : q = audioQ'
    OBVIOUS
  <2>2. /\ DOMAIN q = 1 .. Len(audioQ) + 1 /\ DOMAIN audioQ = 1 .. Len(audioQ) /\ Len(audioQ) \in Nat
        /\ \A i \in DOMAIN audioQ : q[i] = audioQ[i]
        /\ q[Len(audioQ) + 1] = m
    BY <1>0, <1>2, <2>1, Appended
  <2>3. \A n : InHand(n)' <=> InHand(n)
    BY <1>2 DEF InHand, Bringing, ToAudio
  <2>4. ASSUME NEW n \in DOMAIN pushed
        PROVE  \/ n \in ToSet(Voice[pushed[n]])
               \/ \E i \in DOMAIN q : q[i].kind = "burst" /\ q[i].wid = pushed[n] /\ q[i].n = n
               \/ todo' = Bringing(pushed[n], n)
    <3>1. CASE \E i \in DOMAIN audioQ : BurstAt(i, pushed[n]) /\ audioQ[i].n = n
      <4>. PICK i \in DOMAIN audioQ : BurstAt(i, pushed[n]) /\ audioQ[i].n = n
        BY <3>1
      <4>. QED BY <2>2 DEF BurstAt
    <3>. QED BY <1>0, <1>2, <3>1 DEF PlaceInv
  <2>5. \A w \in Windows : \A n \in ToSet(Voice[w]) :
           n \in DOMAIN pushed /\ pushed[n] = w /\ ~InHand(n)'
    BY <1>0, <2>3 DEF PlaceInv
  <2>6. ASSUME NEW i \in DOMAIN q, q[i].kind = "burst"
        PROVE  q[i].n \in DOMAIN pushed /\ pushed[q[i].n] = q[i].wid /\ ~InHand(q[i].n)'
    <3>1. i \in DOMAIN audioQ /\ q[i] = audioQ[i]
      BY <1>2, <2>2, <2>6
    <3>. QED BY <1>0, <2>3, <2>6, <3>1 DEF PlaceInv
  <2>. QED BY <1>2, <2>1, <2>4, <2>5, <2>6 DEF PlaceInv, BurstAt, InHand, Bringing, ToAudio
<1>3. CASE \E w \in Windows : PushBurst(w)
  <2>. PICK v \in Windows : PushBurst(v)
    BY <1>3
  <2>1. /\ todo = <<>> /\ todo' = <<ToAudio("burst", v, Len(pushed) + 1)>>
        /\ pushed' = Append(pushed, v) /\ audioQ' = audioQ
    BY DEF PushBurst, Calls
  <2>2. Voice' = Voice
    BY <1>0, VoiceKept
  <2>3. PICK p : p = pushed'
    OBVIOUS
  <2>4. /\ DOMAIN p = 1 .. Len(pushed) + 1 /\ DOMAIN pushed = 1 .. Len(pushed)
        /\ Len(pushed) \in Nat /\ \A i \in DOMAIN pushed : p[i] = pushed[i]
        /\ p[Len(pushed) + 1] = v
    BY <1>0, <2>1, <2>3, Appended
  <2>5. \A n : InHand(n)' => n = Len(pushed) + 1
    <3>1. ASSUME NEW n, NEW w \in Windows, todo' = <<ToAudio("burst", w, n)>>
          PROVE  n = Len(pushed) + 1
      <4>1. Bringing(w, n) = Bringing(v, Len(pushed) + 1)
        BY <2>1, <3>1 DEF Bringing
      <4>. QED BY <4>1, Calling
    <3>. QED BY <3>1 DEF InHand, Bringing, ToAudio
  <2>6. ASSUME NEW n \in DOMAIN p
        PROVE  \/ n \in ToSet(Voice[p[n]])
               \/ \E i \in DOMAIN audioQ : BurstAt(i, p[n]) /\ audioQ[i].n = n
               \/ todo' = Bringing(p[n], n)
    <3>1. CASE n \in DOMAIN pushed
      <4>1. p[n] = pushed[n] /\ todo # Bringing(pushed[n], n)
        BY <2>1, <2>4, <3>1, Calling
      <4>. QED BY <1>0, <3>1, <4>1 DEF PlaceInv
    <3>2. CASE n = Len(pushed) + 1
      BY <2>1, <2>4, <3>2 DEF Bringing
    <3>. QED BY <2>4, <3>1, <3>2
  <2>7. \A w \in Windows : \A n \in ToSet(Voice[w]) :
           n \in DOMAIN p /\ p[n] = w /\ ~InHand(n)'
    <3>1. \A w \in Windows : \A n \in ToSet(Voice[w]) : n \in DOMAIN pushed /\ pushed[n] = w
      BY <1>0 DEF PlaceInv
    <3>. QED BY <2>4, <2>5, <3>1
  <2>8. \A i \in DOMAIN audioQ : audioQ[i].kind = "burst" =>
           audioQ[i].n \in DOMAIN p /\ p[audioQ[i].n] = audioQ[i].wid /\ ~InHand(audioQ[i].n)'
    <3>1. \A i \in DOMAIN audioQ : audioQ[i].kind = "burst" =>
             audioQ[i].n \in DOMAIN pushed /\ pushed[audioQ[i].n] = audioQ[i].wid
      BY <1>0 DEF PlaceInv
    <3>2. \A n \in DOMAIN pushed : n \in DOMAIN p /\ p[n] = pushed[n] /\ ~InHand(n)'
      BY <2>4, <2>5
    <3>. QED BY <2>1, <3>1, <3>2
  <2>. QED BY <2>1, <2>2, <2>3, <2>6, <2>7, <2>8, ZenonT(40) DEF PlaceInv, BurstAt, InHand, Bringing, ToAudio
<1>4. CASE DspSend
  <2>1. Voice' = Voice /\ pushed' = pushed
    BY <1>0, <1>4, VoiceKept DEF DspSend
  <2>2. CASE \E w \in open :
                /\ Len(pushed) > 0 /\ pushed[Len(pushed)] = w
                /\ todo = Bringing(w, Len(pushed)) /\ todo' = <<>>
                /\ audioQ' = Append(audioQ, [kind |-> "burst", wid |-> w, n |-> Len(pushed)])
    <3>. PICK v \in open :
                /\ Len(pushed) > 0 /\ pushed[Len(pushed)] = v
                /\ todo = Bringing(v, Len(pushed)) /\ todo' = <<>>
                /\ audioQ' = Append(audioQ, [kind |-> "burst", wid |-> v, n |-> Len(pushed)])
      BY <2>2
    <3>1. PICK m : m = [kind |-> "burst", wid |-> v, n |-> Len(pushed)]
      OBVIOUS
    <3>2. /\ Len(pushed) \in Nat /\ DOMAIN pushed = 1 .. Len(pushed) /\ v \in Windows
          /\ Len(pushed) \in DOMAIN pushed
      BY <1>0, LenProperties, ElementOfSeq
    <3>3. m \in AudioMsg /\ m.kind = "burst" /\ m.wid = v /\ m.n = Len(pushed)
      BY <3>1, <3>2 DEF AudioMsg
    <3>4. PICK q : q = audioQ'
      OBVIOUS
    <3>5. /\ DOMAIN q = 1 .. Len(audioQ) + 1 /\ DOMAIN audioQ = 1 .. Len(audioQ)
          /\ Len(audioQ) \in Nat /\ \A i \in DOMAIN audioQ : q[i] = audioQ[i]
          /\ q[Len(audioQ) + 1] = m
      BY <1>0, <3>1, <3>3, <3>4, Appended
    <3>6. \A n : ~InHand(n)'
      <4>1. ASSUME NEW n, NEW w, todo' = <<ToAudio("burst", w, n)>> PROVE FALSE
        BY <4>1, Calling DEF Bringing
      <4>. QED BY <4>1 DEF InHand, Bringing, ToAudio
    <3>7. ASSUME NEW n \in DOMAIN pushed
          PROVE  \/ n \in ToSet(Voice[pushed[n]])
                 \/ \E i \in DOMAIN q : q[i].kind = "burst" /\ q[i].wid = pushed[n] /\ q[i].n = n
      <4>1. CASE \E i \in DOMAIN audioQ : BurstAt(i, pushed[n]) /\ audioQ[i].n = n
        <5>. PICK i \in DOMAIN audioQ : BurstAt(i, pushed[n]) /\ audioQ[i].n = n
          BY <4>1
        <5>. QED BY <3>5 DEF BurstAt
      <4>2. CASE todo = Bringing(pushed[n], n)
        <5>1. n = Len(pushed)
          <6>1. Bringing(pushed[n], n) = Bringing(v, Len(pushed))
            BY <4>2
          <6>. QED BY <6>1, Calling
        <5>2. Len(audioQ) + 1 \in DOMAIN q
          BY <3>5
        <5>. QED BY <3>3, <3>5, <5>1, <5>2
      <4>. QED BY <1>0, <4>1, <4>2 DEF PlaceInv
    <3>8. \A w \in Windows : \A n \in ToSet(Voice[w]) : n \in DOMAIN pushed /\ pushed[n] = w
      BY <1>0 DEF PlaceInv
    <3>9. ASSUME NEW i \in DOMAIN q, q[i].kind = "burst"
          PROVE  q[i].n \in DOMAIN pushed /\ pushed[q[i].n] = q[i].wid
      <4>1. CASE i \in DOMAIN audioQ
        BY <1>0, <3>5, <3>9, <4>1 DEF PlaceInv
      <4>2. CASE i = Len(audioQ) + 1
        BY <3>2, <3>3, <3>5, <4>2
      <4>. QED BY <3>5, <4>1, <4>2
    <3>. QED BY <2>1, <3>4, <3>6, <3>7, <3>8, <3>9 DEF PlaceInv, BurstAt, InHand, Bringing, ToAudio
  <2>3. CASE \E w \in (1 .. opened) \ open :
                /\ todo = Closing(w) /\ todo' = ClosingIq(w)
                /\ audioQ' = Append(audioQ, [kind |-> "close", wid |-> w, n |-> 0])
    <3>. PICK w \in (1 .. opened) \ open :
                /\ todo = Closing(w) /\ todo' = ClosingIq(w)
                /\ audioQ' = Append(audioQ, [kind |-> "close", wid |-> w, n |-> 0])
      BY <2>3
    <3>1. PICK m : m = [kind |-> "close", wid |-> w, n |-> 0]
      OBVIOUS
    <3>2. w \in Windows
      BY <1>0, RecordingConstants DEF TypeOK, Windows
    <3>3. m \in AudioMsg /\ m.kind = "close"
      BY <3>1, <3>2 DEF AudioMsg
    <3>4. \A v, n : todo' # Bringing(v, n) /\ todo # Bringing(v, n)
      BY Calling
    <3>. QED BY <1>2, <2>1, <3>1, <3>3, <3>4
  <2>4. CASE \E w \in (1 .. opened) \ open : todo = ClosingIq(w) /\ todo' = <<>> /\ audioQ' = audioQ
    <3>1. \A v, n : todo' # Bringing(v, n) /\ todo # Bringing(v, n)
      BY <2>4, Calling
    <3>. QED BY <1>1, <2>1, <2>4, <3>1
  <2>5. CASE todo = Opening(opened) /\ todo' = <<>> /\ audioQ' = audioQ
    <3>1. \A v, n : todo' # Bringing(v, n) /\ todo # Bringing(v, n)
      BY <2>5, Calling
    <3>. QED BY <1>1, <2>1, <2>5, <3>1
  <2>. QED BY <1>0, <1>4, <2>2, <2>3, <2>4, <2>5, SentToAudio
<1>5. CASE AudioStep
  <2>1. PICK m \in AudioMsg :
            /\ m = audioQ[1] /\ 1 \in DOMAIN audioQ /\ m.wid \in Windows
            /\ audioQ # <<>> /\ audioQ' = Tail(audioQ)
            /\ \/ /\ m.kind = "burst" /\ m.n \in Bursts
                  /\ m.n \in DOMAIN pushed /\ pushed[m.n] = m.wid
                  /\ Voice' = [Voice EXCEPT ![m.wid] = Append(@, m.n)]
               \/ m.kind # "burst" /\ Voice' = Voice
    BY <1>0, <1>5, VoiceMoves
  <2>2. PICK q : q = audioQ'
    OBVIOUS
  <2>3. /\ DOMAIN audioQ = 1 .. Len(audioQ) /\ Len(audioQ) \in Nat \ {0}
        /\ DOMAIN q = 1 .. Len(audioQ) - 1
        /\ \A i \in DOMAIN q : i + 1 \in DOMAIN audioQ /\ q[i] = audioQ[i + 1]
        /\ \A i \in DOMAIN audioQ : i # 1 => i - 1 \in DOMAIN q /\ q[i - 1] = audioQ[i]
    BY <1>0, <2>1, <2>2, Shortened
  <2>4. UNCHANGED <<todo, pushed>>
    BY <1>5 DEF AudioStep, dspVars
  <2>5. \A n : InHand(n)' <=> InHand(n)
    BY <2>4 DEF InHand, Bringing, ToAudio
  <2>6. \A i \in DOMAIN q : q[i].kind = "burst" =>
           q[i].n \in DOMAIN pushed /\ pushed[q[i].n] = q[i].wid /\ ~InHand(q[i].n)'
    BY <1>0, <2>3, <2>5 DEF PlaceInv
  <2>0. /\ m.kind = "burst" =>
              /\ ToSet(Voice'[m.wid]) = ToSet(Voice[m.wid]) \cup {m.n}
              /\ \A w \in Windows : w # m.wid => Voice'[w] = Voice[w]
        /\ m.kind # "burst" => Voice' = Voice
    <3>1. m.kind = "burst" =>
             /\ Voice'[m.wid] = Append(Voice[m.wid], m.n) /\ Voice[m.wid] \in Seq(Bursts)
             /\ m.n \in Bursts
             /\ \A w \in Windows : w # m.wid => Voice'[w] = Voice[w]
      BY <1>0, <2>1
    <3>2. ASSUME m.kind = "burst"
          PROVE  ToSet(Voice'[m.wid]) = ToSet(Voice[m.wid]) \cup {m.n}
      <4>1. PICK s : s = Voice[m.wid]
        OBVIOUS
      <4>2. s \in Seq(Bursts) /\ m.n \in Bursts
        BY <3>1, <3>2, <4>1
      <4>3. ToSet(Append(s, m.n)) = ToSet(s) \cup {m.n}
        BY <4>2, AppendedSet
      <4>. QED BY <3>1, <3>2, <4>1, <4>3
    <3>. QED BY <2>1, <3>1, <3>2
  <2>7. \A w \in Windows : \A n \in ToSet(Voice'[w]) :
           n \in ToSet(Voice[w]) \/ (m.kind = "burst" /\ n = m.n /\ w = m.wid)
    BY <2>0
  <2>8. \A w \in Windows : \A n \in ToSet(Voice[w]) : n \in ToSet(Voice'[w])
    BY <2>0
  <2>9. m.kind = "burst" => m.n \in ToSet(Voice'[m.wid])
    BY <2>0
  <2>10. ASSUME NEW w \in Windows, NEW n \in ToSet(Voice'[w])
         PROVE  n \in DOMAIN pushed /\ pushed[n] = w /\ ~InHand(n)'
    <3>1. CASE n \in ToSet(Voice[w])
      BY <1>0, <2>5, <3>1 DEF PlaceInv
    <3>2. CASE m.kind = "burst" /\ n = m.n /\ w = m.wid
      BY <1>0, <2>1, <2>5, <3>2 DEF PlaceInv
    <3>. QED BY <2>7, <2>10, <3>1, <3>2
  <2>11. ASSUME NEW n \in DOMAIN pushed
         PROVE  \/ n \in ToSet(Voice'[pushed[n]])
                \/ \E i \in DOMAIN q : q[i].kind = "burst" /\ q[i].wid = pushed[n] /\ q[i].n = n
                \/ todo = Bringing(pushed[n], n)
    <3>0. pushed[n] \in Windows
      BY <1>0, LenProperties, ElementOfSeq
    <3>1. CASE n \in ToSet(Voice[pushed[n]])
      BY <2>8, <3>0, <3>1
    <3>2. CASE \E i \in DOMAIN audioQ : BurstAt(i, pushed[n]) /\ audioQ[i].n = n
      <4>. PICK i \in DOMAIN audioQ : BurstAt(i, pushed[n]) /\ audioQ[i].n = n
        BY <3>2
      <4>1. CASE i = 1
        BY <2>1, <2>9, <4>1 DEF BurstAt
      <4>2. CASE i # 1
        BY <2>3, <4>2 DEF BurstAt
      <4>. QED BY <4>1, <4>2
    <3>. QED BY <1>0, <3>1, <3>2 DEF PlaceInv
  <2>. QED BY <2>2, <2>4, <2>6, <2>10, <2>11 DEF PlaceInv, BurstAt, InHand, Bringing, ToAudio
<1>6. CASE AudioEnd
  BY <1>0, <1>1, <1>6, VoiceAtEnd DEF AudioEnd, dspVars
<1>7. CASE IqRefresh
  <2>1. Voice' = Voice /\ UNCHANGED <<todo, pushed>>
    BY <1>0, <1>7, VoiceKept DEF IqRefresh, dspVars
  <2>2. CASE audioQ' = audioQ
    BY <1>1, <2>1, <2>2
  <2>3. CASE audioQ' = Append(audioQ, [kind |-> "sidecar", wid |-> finished, n |-> 0])
    <3>1. PICK m : m = [kind |-> "sidecar", wid |-> finished, n |-> 0]
      OBVIOUS
    <3>2. finished \in Windows
      BY <1>7 DEF RecordingsInv, PhaseInv, IqRefresh
    <3>3. m \in AudioMsg /\ m.kind # "burst"
      BY <3>1, <3>2 DEF AudioMsg
    <3>. QED BY <1>2, <2>1, <2>3, <3>1, <3>3
  <2>. QED BY <1>7, <2>2, <2>3 DEF IqRefresh, SendAudio
<1>8. CASE Quiet \/ TakeChunk \/ IqStep \/ IqEnd
  <2>1. UNCHANGED <<todo, pushed, audioQ>>
    BY <1>8 DEF Quiet, TakeChunk, IqStep, IqEnd, dspVars
  <2>. QED BY <1>0, <1>1, <1>8, <2>1, VoiceKept
<1>9. CASE BeginWindow
  <2>1. UNCHANGED <<pushed, audioQ>> /\ todo = <<>> /\ todo' = Opening(opened + 1)
    BY <1>9 DEF BeginWindow, Calls, Opening
  <2>2. \A v, n : todo' # Bringing(v, n) /\ todo # Bringing(v, n)
    BY <2>1, Calling
  <2>. QED BY <1>0, <1>1, <1>9, <2>1, <2>2, VoiceKept
<1>10. CASE \E w \in Windows : FinishWindow(w)
  <2>. PICK w \in Windows : FinishWindow(w)
    BY <1>10
  <2>1. UNCHANGED <<pushed, audioQ>> /\ todo = <<>> /\ todo' = Closing(w)
    BY DEF FinishWindow, Calls, Closing
  <2>2. \A v, n : todo' # Bringing(v, n) /\ todo # Bringing(v, n)
    BY <2>1, Calling
  <2>. QED BY <1>0, <1>1, <2>1, <2>2, VoiceKept
<1>. QED
  BY <1>0, <1>3, <1>4, <1>5, <1>6, <1>7, <1>8, <1>9, <1>10, Steps

\* The sound of a window is written with what the state says of its I/Q file.
LEMMA SoundMoves ==
  ASSUME TypeOK, PlaceInv, AudioStep \/ AudioEnd
  PROVE  \A w \in Windows :
            /\ \/ wav'[w] = Cardinality(Pcm(decided'[w]))
               \/ wav'[w] = wav[w] /\ decided'[w] = decided[w]
            /\ \/ wav'[w] = wav[w] /\ sidecar'[w] = sidecar[w]
               \/ wav'[w] > 0 => sidecar'[w] = iqStat[w]
            /\ AudioStep /\ audioQ[1].kind = "sidecar" /\ audioQ[1].wid = w =>
                  (wav'[w] > 0 => sidecar'[w] = iqStat[w])
<1>1. CASE AudioEnd
  <2>1. pending \in [Windows -> Seq(Bursts)] /\ Windows \in SUBSET Windows /\ DecodeBatch(Windows, pending)
    BY <1>1 DEF TypeOK, AudioEnd
  <2>2. ~AudioStep
    BY <1>1 DEF AudioEnd, AudioStep
  <2>3. \A w \in Windows :
            /\ Numbers(decided'[w]) \o pending'[w] = Numbers(decided[w]) \o pending[w]
            /\ pending'[w] = IF w \in Windows THEN <<>> ELSE pending[w]
            /\ \/ wav'[w] = Cardinality(Pcm(decided'[w]))
               \/ wav'[w] = wav[w] /\ decided'[w] = decided[w]
            /\ \/ wav'[w] = wav[w] /\ sidecar'[w] = sidecar[w]
               \/ wav'[w] > 0 => sidecar'[w] = iqStat[w]
    BY <2>1, Decoded
  <2>. QED BY <2>2, <2>3
<1>2. CASE AudioStep
  <2>1. PICK m \in AudioMsg :
           /\ m = audioQ[1] /\ m.wid \in Windows
           /\ \/ m.kind = "burst" /\ AudioBurst(m) /\ m.n \in Bursts
              \/ m.kind = "close" /\ DecodeBatch({m.wid}, pending)
              \/ m.kind = "sidecar" /\ AudioSidecar(m)
    BY <1>2, AudioMessage
  <2>2. CASE m.kind = "burst" /\ AudioBurst(m) /\ m.n \in Bursts
    <3>1. \A w \in Windows :
               /\ \/ wav'[w] = Cardinality(Pcm(decided'[w]))
                  \/ wav'[w] = wav[w] /\ decided'[w] = decided[w]
               /\ \/ wav'[w] = wav[w] /\ sidecar'[w] = sidecar[w]
                  \/ wav'[w] > 0 => sidecar'[w] = iqStat[w]
      BY <2>1, <2>2, BurstTaken
    <3>. QED BY <2>1, <2>2, <3>1
  <2>3. CASE m.kind = "close" /\ DecodeBatch({m.wid}, pending)
    <3>1. PICK ws : ws = {m.wid}
      OBVIOUS
    <3>2. ws \in SUBSET Windows /\ pending \in [Windows -> Seq(Bursts)] /\ DecodeBatch(ws, pending)
      BY <2>1, <2>3, <3>1 DEF TypeOK
    <3>3. \A w \in Windows :
             /\ Numbers(decided'[w]) \o pending'[w] = Numbers(decided[w]) \o pending[w]
             /\ pending'[w] = IF w \in ws THEN <<>> ELSE pending[w]
             /\ \/ wav'[w] = Cardinality(Pcm(decided'[w]))
                \/ wav'[w] = wav[w] /\ decided'[w] = decided[w]
             /\ \/ wav'[w] = wav[w] /\ sidecar'[w] = sidecar[w]
                \/ wav'[w] > 0 => sidecar'[w] = iqStat[w]
      BY <3>2, Decoded
    <3>. QED BY <2>1, <2>3, <3>3
  <2>4. CASE m.kind = "sidecar" /\ AudioSidecar(m)
    <3>1. /\ wav' = wav /\ decided' = decided
          /\ sidecar' = IF wav[m.wid] > 0
                        THEN [sidecar EXCEPT ![m.wid] = iqStat[m.wid]] ELSE sidecar
      BY <2>4 DEF AudioSidecar
    <3>2. \A w \in Windows :
             sidecar'[w] = IF w = m.wid /\ wav[w] > 0 THEN iqStat[w] ELSE sidecar[w]
      BY <3>1 DEF TypeOK
    <3>. QED BY <2>1, <3>1, <3>2
  <2>. QED BY <2>1, <2>2, <2>3, <2>4
<1>. QED BY <1>1, <1>2

LEMMA WavKept ==
  ASSUME RecordingsInv, [Next]_vars
  PROVE  WavInv'
<1>0. TypeOK /\ PlaceInv /\ WavInv
  BY DEF RecordingsInv, VInv
<1>1. CASE UNCHANGED <<wav, decided>>
  BY <1>0, <1>1 DEF WavInv
<1>2. CASE AudioStep \/ AudioEnd
  <2>1. \A w \in Windows :
            \/ wav'[w] = Cardinality(Pcm(decided'[w]))
            \/ wav'[w] = wav[w] /\ decided'[w] = decided[w]
    BY <1>0, <1>2, SoundMoves
  <2>2. ASSUME NEW w \in Windows PROVE wav'[w] = Cardinality(Pcm(decided'[w]))
    BY <1>0, <2>1 DEF WavInv
  <2>. QED BY <2>2 DEF WavInv, Pcm
<1>. QED
  BY <1>0, <1>1, <1>2, Steps, VoiceKept

LEMMA StatusMoves ==
  ASSUME TypeOK, QueueInv, IqStep \/ IqEnd
  PROVE  \A w \in Windows :
            \/ iqStat'[w] = iqStat[w] \/ ~iqStat'[w].done
            \/ iqPC' \in {"refresh", "last"} /\ finished' = w
<1>1. ASSUME NEW r, NEW b \in BOOLEAN, iqStat' = Shown(r, b)
      PROVE  \A w \in Windows : w = r.wid \/ iqStat'[w] = iqStat[w]
  BY <1>1 DEF Shown, TypeOK
<1>2. ASSUME NEW r, iqStat' = Shown(r, FALSE)
      PROVE  \A w \in Windows : iqStat'[w] = iqStat[w] \/ ~iqStat'[w].done
  BY <1>2 DEF Shown, TypeOK
<1>3. ASSUME NEW r, NEW next, NEW pc \in {"refresh", "last"}, Finalize(r, next, pc)
      PROVE  \A w \in Windows :
                iqStat'[w] = iqStat[w] \/ (iqPC' \in {"refresh", "last"} /\ finished' = w)
  BY <1>1, <1>3 DEF Finalize
<1>4. CASE IqStep
  <2>. PICK m \in IqMsg : \/ m.n \in Chunks /\ OnSamples(m.n)
                          \/ OnOpen(m.wid)
                          \/ OnClose(m.wid)
    BY <1>4, IqMessage
  <2>1. CASE OnSamples(m.n) /\ IsRecording
    BY <1>2, <1>3, <2>1, RecordCases DEF OnSamples
  <2>2. CASE iqStat' = iqStat
    BY <2>2
  <2>. QED BY <1>3, <2>1, <2>2 DEF OnSamples, Preroll, OnOpen, OnClose
<1>5. CASE IqEnd
  BY <1>3, <1>5 DEF IqEnd
<1>. QED BY <1>4, <1>5

LEMMA SidecarKept ==
  ASSUME RecordingsInv, [Next]_vars
  PROVE  SidecarInv'
<1>0. /\ TypeOK /\ StopInv /\ PhaseInv /\ CallInv /\ PlaceInv /\ QueueInv /\ SidecarInv
      /\ audioQ \in Seq(AudioMsg)
  BY DEF RecordingsInv, VInv, RInv, TypeOK
<1>1. CASE UNCHANGED <<wav, sidecar, iqStat, iqPC, finished, audioQ>> /\ (audioOpen' => audioOpen)
  BY <1>0, <1>1 DEF SidecarInv
<1>2. ASSUME NEW m, m \in AudioMsg, audioQ' = Append(audioQ, m), UNCHANGED <<wav, sidecar, iqStat>>,
             audioOpen' => audioOpen,
             \/ UNCHANGED <<iqPC, finished>>
             \/ m.kind = "sidecar" /\ m.wid = finished
      PROVE  SidecarInv'
  <2>1. PICK q : q = audioQ'
    OBVIOUS
  <2>2. /\ DOMAIN q = 1 .. Len(audioQ) + 1 /\ DOMAIN audioQ = 1 .. Len(audioQ) /\ Len(audioQ) \in Nat
        /\ \A i \in DOMAIN audioQ : i \in DOMAIN q /\ q[i] = audioQ[i]
        /\ q[Len(audioQ) + 1] = m
    BY <1>0, <1>2, <2>1, Appended
  <2>3. ASSUME audioOpen', NEW w \in Windows, wav[w] > 0, iqStat[w].done, sidecar[w] # iqStat[w]
        PROVE  \/ \E i \in DOMAIN q : q[i].kind = "sidecar" /\ q[i].wid = w
               \/ iqPC' \in {"refresh", "last"} /\ finished' = w
    <3>1. CASE \E i \in DOMAIN audioQ : audioQ[i].kind = "sidecar" /\ audioQ[i].wid = w
      BY <2>2, <3>1
    <3>2. CASE iqPC \in {"refresh", "last"} /\ finished = w
      BY <1>2, <2>2, <3>2
    <3>. QED BY <1>0, <1>2, <2>3, <3>1, <3>2 DEF SidecarInv
  <2>. QED BY <1>2, <2>1, <2>3 DEF SidecarInv
<1>3. CASE DspSend
  <2>1. UNCHANGED <<wav, sidecar, iqStat, iqPC, finished, audioOpen>>
    BY <1>3 DEF DspSend, audioVars, recVars
  <2>2. CASE audioQ' = audioQ
    BY <1>1, <2>1, <2>2
  <2>3. ASSUME NEW m, m = Head(todo).msg, audioQ' = Append(audioQ, m), Head(todo).to = "audio"
        PROVE  SidecarInv'
    <3>1. m \in AudioMsg
      BY <1>0, <1>3, <2>3, ToSendHead DEF DspSend
    <3>. QED BY <1>2, <2>1, <2>3, <3>1
  <2>. QED BY <1>0, <1>3, <2>2, <2>3, Sending
<1>4. CASE AudioStep
  <2>1. /\ audioQ # <<>> /\ audioQ' = Tail(audioQ) /\ UNCHANGED <<iqStat, iqPC, finished, audioOpen>>
    BY <1>4 DEF AudioStep, recVars
  <2>2. PICK q : q = audioQ'
    OBVIOUS
  <2>3. /\ \A i \in DOMAIN audioQ : i # 1 => i - 1 \in DOMAIN q /\ q[i - 1] = audioQ[i]
    BY <1>0, <2>1, <2>2, Shortened
  <2>4. \A w \in Windows :
            /\ \/ wav'[w] = wav[w] /\ sidecar'[w] = sidecar[w]
               \/ wav'[w] > 0 => sidecar'[w] = iqStat[w]
            /\ audioQ[1].kind = "sidecar" /\ audioQ[1].wid = w =>
                  (wav'[w] > 0 => sidecar'[w] = iqStat[w])
    BY <1>0, <1>4, SoundMoves
  <2>5. ASSUME audioOpen, NEW w \in Windows, wav'[w] > 0, iqStat[w].done, sidecar'[w] # iqStat[w]
        PROVE  \/ \E i \in DOMAIN q : q[i].kind = "sidecar" /\ q[i].wid = w
               \/ iqPC \in {"refresh", "last"} /\ finished = w
    <3>1. wav[w] > 0 /\ sidecar[w] # iqStat[w] /\ ~(audioQ[1].kind = "sidecar" /\ audioQ[1].wid = w)
      BY <2>4, <2>5
    <3>2. CASE \E i \in DOMAIN audioQ : audioQ[i].kind = "sidecar" /\ audioQ[i].wid = w
      <4>. PICK i \in DOMAIN audioQ : audioQ[i].kind = "sidecar" /\ audioQ[i].wid = w
        BY <3>2
      <4>1. i # 1
        BY <3>1
      <4>. QED BY <2>3, <4>1
    <3>. QED BY <1>0, <2>5, <3>1, <3>2 DEF SidecarInv
  <2>. QED BY <2>1, <2>2, <2>5 DEF SidecarInv
<1>5. CASE AudioEnd
  BY <1>5 DEF AudioEnd, SidecarInv
<1>6. CASE IqRefresh
  <2>1. UNCHANGED <<wav, sidecar, iqStat, audioOpen>> /\ iqPC \in {"refresh", "last"}
    BY <1>6 DEF IqRefresh, audioVars
  <2>2. PICK m : m = [kind |-> "sidecar", wid |-> finished, n |-> 0]
    OBVIOUS
  <2>3. m \in AudioMsg /\ m.kind = "sidecar" /\ m.wid = finished
    BY <1>0, <2>1, <2>2 DEF PhaseInv, AudioMsg
  <2>4. CASE audioQ' = Append(audioQ, m)
    BY <1>2, <2>1, <2>3, <2>4
  <2>5. CASE ~audioOpen
    BY <2>1, <2>5 DEF SidecarInv
  <2>. QED BY <1>6, <2>2, <2>4, <2>5 DEF IqRefresh, SendAudio
<1>7. CASE IqStep \/ IqEnd
  <2>1. UNCHANGED <<wav, sidecar, audioOpen, audioQ>> /\ iqPC = "run"
    BY <1>7 DEF IqStep, IqEnd, audioVars
  <2>2. \A w \in Windows :
            \/ iqStat'[w] = iqStat[w] \/ ~iqStat'[w].done
            \/ iqPC' \in {"refresh", "last"} /\ finished' = w
    BY <1>0, <1>7, StatusMoves
  <2>. QED BY <1>0, <2>1, <2>2 DEF SidecarInv
<1>8. CASE Quiet
  BY <1>1, <1>8 DEF Quiet
<1>9. CASE TakeChunk \/ BeginWindow
  BY <1>1, <1>9 DEF TakeChunk, BeginWindow, Calls, audioVars, recVars
<1>10. CASE \E w \in Windows : PushBurst(w) \/ FinishWindow(w)
  BY <1>1, <1>10 DEF PushBurst, FinishWindow, Calls, audioVars, recVars
<1>. QED
  BY <1>0, <1>3, <1>4, <1>5, <1>6, <1>7, <1>8, <1>9, <1>10, Steps

LEMMA EndKept ==
  ASSUME RecordingsInv, [Next]_vars
  PROVE  EndInv'
<1>0. /\ TypeOK /\ StopInv /\ PhaseInv /\ CallInv /\ PlaceInv /\ EndInv
      /\ audioQ \in Seq(AudioMsg) /\ pushed \in Seq(Windows) /\ opened \in Nat
      /\ open \subseteq 1 .. opened
  <2>1. TypeOK /\ StopInv /\ PhaseInv /\ CallInv /\ PlaceInv /\ EndInv
    BY DEF RecordingsInv, VInv
  <2>2. audioQ \in Seq(AudioMsg)
    BY <2>1 DEF TypeOK
  <2>3. pushed \in Seq(Windows)
    BY <2>1 DEF TypeOK
  <2>4. opened \in 0 .. MaxWindows /\ open \subseteq 1 .. opened
    BY <2>1 DEF TypeOK
  <2>5. opened \in Nat
    BY <2>4, RecordingConstants
  <2>. QED BY <2>1, <2>2, <2>3, <2>4, <2>5
<1>1. ASSUME NEW Q, Q = audioQ', NEW P, P = pending',
             \A n \in DOMAIN pushed' : pushed'[n] \in 1 .. opened',
             \A w \in (1 .. opened') \ open' :
                /\ P[w] # <<>> =>
                      todo' = Closing(w)
                      \/ \E j \in DOMAIN Q : 0 < j /\ Q[j].kind = "close" /\ Q[j].wid = w
                /\ \A i \in DOMAIN Q : Q[i].kind = "burst" /\ Q[i].wid = w =>
                      todo' = Closing(w)
                      \/ \E j \in DOMAIN Q : i < j /\ Q[j].kind = "close" /\ Q[j].wid = w
      PROVE  EndInv'
  BY <1>1 DEF EndInv, Told, BurstAt, CloseAt, Closing, ToAudio, ToIq
<1>2. ASSUME UNCHANGED <<audioQ, pending>>,
             \A n \in DOMAIN pushed' : pushed'[n] \in 1 .. opened',
             \A w \in (1 .. opened') \ open' :
                \/ todo' = Closing(w)
                \/ w \in (1 .. opened) \ open /\ (todo = Closing(w) => todo' = Closing(w))
      PROVE  EndInv'
  <2>1. ASSUME NEW w \in (1 .. opened') \ open', todo' # Closing(w)
        PROVE  /\ pending[w] # <<>> =>
                      \E j \in DOMAIN audioQ : 0 < j /\ audioQ[j].kind = "close" /\ audioQ[j].wid = w
               /\ \A i \in DOMAIN audioQ : audioQ[i].kind = "burst" /\ audioQ[i].wid = w =>
                      \E j \in DOMAIN audioQ : i < j /\ audioQ[j].kind = "close" /\ audioQ[j].wid = w
    <3>1. w \in (1 .. opened) \ open /\ todo # Closing(w)
      BY <1>2, <2>1
    <3>. QED BY <1>0, <3>1 DEF EndInv, Told, BurstAt, CloseAt
  <2>. QED BY <1>1, <1>2, <2>1
<1>3. ASSUME NEW m, m \in AudioMsg, audioQ' = Append(audioQ, m),
             UNCHANGED <<pending, pushed, opened, open>>,
             m.kind = "burst" => m.wid \in open,
             \A w : todo = Closing(w) => todo' = Closing(w) \/ (m.kind = "close" /\ m.wid = w)
      PROVE  EndInv'
  <2>1. PICK Q : Q = audioQ'
    OBVIOUS
  <2>2. /\ DOMAIN Q = 1 .. Len(audioQ) + 1 /\ DOMAIN audioQ = 1 .. Len(audioQ) /\ Len(audioQ) \in Nat
        /\ \A i \in DOMAIN audioQ : i \in DOMAIN Q /\ Q[i] = audioQ[i]
        /\ Q[Len(audioQ) + 1] = m
    BY <1>0, <1>3, <2>1, Appended
  <2>3. ASSUME NEW w, NEW i \in Int, i < Len(audioQ) + 1, Told(w, i), todo' # Closing(w)
        PROVE  \E j \in DOMAIN Q : i < j /\ Q[j].kind = "close" /\ Q[j].wid = w
    <3>1. CASE todo = Closing(w)
      <4>1. m.kind = "close" /\ m.wid = w /\ Len(audioQ) + 1 \in DOMAIN Q
        BY <1>3, <2>2, <2>3, <3>1
      <4>. QED BY <2>2, <2>3, <4>1
    <3>2. CASE \E j \in DOMAIN audioQ : i < j /\ CloseAt(j, w)
      <4>. PICK j \in DOMAIN audioQ : i < j /\ CloseAt(j, w)
        BY <3>2
      <4>. QED BY <2>2 DEF CloseAt
    <3>. QED BY <2>3, <3>1, <3>2 DEF Told
  <2>4. ASSUME NEW w \in (1 .. opened) \ open, pending[w] # <<>>, todo' # Closing(w)
        PROVE  \E j \in DOMAIN Q : 0 < j /\ Q[j].kind = "close" /\ Q[j].wid = w
    BY <1>0, <2>2, <2>3, <2>4 DEF EndInv
  <2>5. ASSUME NEW w \in (1 .. opened) \ open, todo' # Closing(w),
               NEW i \in DOMAIN Q, Q[i].kind = "burst", Q[i].wid = w
        PROVE  \E j \in DOMAIN Q : i < j /\ Q[j].kind = "close" /\ Q[j].wid = w
    <3>1. i \in DOMAIN audioQ
      BY <1>3, <2>2, <2>5
    <3>2. Told(w, i)
      BY <1>0, <2>2, <2>5, <3>1 DEF EndInv, BurstAt
    <3>. QED BY <2>2, <2>3, <2>5, <3>1, <3>2
  <2>6. \A n \in DOMAIN pushed' : pushed'[n] \in 1 .. opened'
    BY <1>0, <1>3 DEF EndInv
  <2>. QED BY <1>1, <1>3, <2>1, <2>4, <2>5, <2>6, SMTT(30)
<1>4. CASE DspSend
  <2>1. UNCHANGED <<pending, pushed, opened, open>>
    BY <1>4 DEF DspSend, audioVars
  <2>2. \A n \in DOMAIN pushed' : pushed'[n] \in 1 .. opened'
    BY <1>0, <2>1 DEF EndInv
  <2>3. CASE \E w \in open :
               /\ Len(pushed) > 0 /\ pushed[Len(pushed)] = w
               /\ todo = Bringing(w, Len(pushed))
               /\ audioQ' = Append(audioQ, [kind |-> "burst", wid |-> w, n |-> Len(pushed)])
    <3>. PICK w \in open :
               /\ Len(pushed) > 0 /\ pushed[Len(pushed)] = w
               /\ todo = Bringing(w, Len(pushed))
               /\ audioQ' = Append(audioQ, [kind |-> "burst", wid |-> w, n |-> Len(pushed)])
      BY <2>3
    <3>1. PICK m : m = [kind |-> "burst", wid |-> w, n |-> Len(pushed)]
      OBVIOUS
    <3>2. w \in Windows /\ Len(pushed) \in Nat
      BY <1>0, LenProperties, RecordingConstants DEF Windows, TypeOK
    <3>3. m \in AudioMsg /\ m.kind = "burst" /\ m.wid = w
      BY <3>1, <3>2 DEF AudioMsg
    <3>4. \A v : todo # Closing(v)
      BY Calling
    <3>. QED BY <1>3, <2>1, <3>1, <3>3, <3>4
  <2>4. CASE \E w \in (1 .. opened) \ open :
               /\ todo = Closing(w)
               /\ audioQ' = Append(audioQ, [kind |-> "close", wid |-> w, n |-> 0])
    <3>. PICK w \in (1 .. opened) \ open :
               /\ todo = Closing(w)
               /\ audioQ' = Append(audioQ, [kind |-> "close", wid |-> w, n |-> 0])
      BY <2>4
    <3>1. PICK m : m = [kind |-> "close", wid |-> w, n |-> 0]
      OBVIOUS
    <3>2. w \in Windows
      BY <1>0, RecordingConstants DEF Windows, TypeOK
    <3>3. m \in AudioMsg /\ m.kind = "close" /\ m.wid = w
      BY <3>1, <3>2 DEF AudioMsg
    <3>4. ASSUME NEW v, todo = Closing(v) PROVE v = w
      <4>1. Closing(v) = Closing(w)
        BY <3>4
      <4>. QED BY <4>1, Calling
    <3>. QED BY <1>3, <2>1, <3>1, <3>3, <3>4
  <2>5. CASE audioQ' = audioQ /\ \E w : todo = ClosingIq(w) \/ todo = Opening(w)
    <3>1. \A v : todo # Closing(v)
      BY <2>5, Calling
    <3>. QED BY <1>2, <2>1, <2>2, <2>5, <3>1
  <2>. QED BY <1>0, <1>4, <2>3, <2>4, <2>5, SentToAudio
<1>5. CASE AudioStep
  <2>1. UNCHANGED <<pushed, opened, open, todo>>
    BY <1>5 DEF AudioStep, dspVars
  <2>2. \A n \in DOMAIN pushed' : pushed'[n] \in 1 .. opened'
    BY <1>0, <2>1 DEF EndInv
  <2>3. PICK m \in AudioMsg :
            /\ m = audioQ[1] /\ 1 \in DOMAIN audioQ /\ m.wid \in Windows
            /\ audioQ # <<>> /\ audioQ' = Tail(audioQ)
            /\ \/ m.kind = "burst" /\ \A w \in Windows : w # m.wid => pending'[w] = pending[w]
               \/ m.kind = "close" /\ \A w \in Windows : pending'[w] = IF w = m.wid THEN <<>> ELSE pending[w]
               \/ m.kind = "sidecar" /\ pending' = pending
    BY <1>0, <1>5, VoiceMoves
  <2>4. PICK Q : Q = audioQ'
    OBVIOUS
  <2>5. /\ DOMAIN audioQ = 1 .. Len(audioQ) /\ Len(audioQ) \in Nat \ {0}
        /\ DOMAIN Q = 1 .. Len(audioQ) - 1
        /\ \A i \in DOMAIN Q : i + 1 \in DOMAIN audioQ /\ Q[i] = audioQ[i + 1]
        /\ \A i \in DOMAIN audioQ : i # 1 => i - 1 \in DOMAIN Q /\ Q[i - 1] = audioQ[i]
    BY <1>0, <2>3, <2>4, Shortened
  <2>6. ASSUME NEW w, NEW i \in Nat, Told(w, i + 1), todo # Closing(w)
        PROVE  \E j \in DOMAIN Q : i < j /\ Q[j].kind = "close" /\ Q[j].wid = w
    <3>. PICK j \in DOMAIN audioQ : i + 1 < j /\ CloseAt(j, w)
      BY <2>6 DEF Told
    <3>. QED BY <2>5 DEF CloseAt
  <2>7. ASSUME NEW w \in (1 .. opened) \ open, pending'[w] # <<>>, todo # Closing(w)
        PROVE  \E j \in DOMAIN Q : 0 < j /\ Q[j].kind = "close" /\ Q[j].wid = w
    <3>0. w \in Windows
      BY <1>0, RecordingConstants DEF Windows, TypeOK
    <3>1. CASE m.kind = "burst" /\ w = m.wid
      <4>1. Told(w, 1)
        BY <1>0, <2>3, <3>1 DEF EndInv, BurstAt
      <4>. QED BY <2>6, <2>7, <4>1
    <3>2. CASE ~(m.kind = "burst" /\ w = m.wid)
      <4>1. pending[w] # <<>> /\ ~CloseAt(1, w)
        BY <2>3, <2>7, <3>0, <3>2 DEF CloseAt
      <4>2. Told(w, 0)
        BY <1>0, <4>1 DEF EndInv
      <4>. PICK j \in DOMAIN audioQ : 0 < j /\ CloseAt(j, w)
        BY <2>7, <4>2 DEF Told
      <4>3. j # 1
        BY <4>1
      <4>. QED BY <2>5, <4>3 DEF CloseAt
    <3>. QED BY <3>1, <3>2
  <2>8. ASSUME NEW w \in (1 .. opened) \ open, todo # Closing(w),
               NEW i \in DOMAIN Q, Q[i].kind = "burst", Q[i].wid = w
        PROVE  \E j \in DOMAIN Q : i < j /\ Q[j].kind = "close" /\ Q[j].wid = w
    <3>1. i \in Nat /\ BurstAt(i + 1, w) /\ i + 1 \in DOMAIN audioQ
      BY <2>5, <2>8 DEF BurstAt
    <3>2. Told(w, i + 1)
      BY <1>0, <3>1 DEF EndInv
    <3>. QED BY <2>6, <2>8, <3>1, <3>2
  <2>. QED BY <1>1, <2>1, <2>2, <2>4, <2>7, <2>8
<1>6. CASE AudioEnd
  <2>1. UNCHANGED <<pushed, opened, open, todo>>
    BY <1>6 DEF AudioEnd, dspVars
  <2>2. \A n \in DOMAIN pushed' : pushed'[n] \in 1 .. opened'
    BY <1>0, <2>1 DEF EndInv
  <2>3. PICK Q : Q = audioQ'
    OBVIOUS
  <2>4. DOMAIN Q = {} /\ \A w \in Windows : pending'[w] = <<>>
    BY <1>0, <1>6, <2>3, VoiceAtEnd, NothingIn
  <2>5. \A w \in 1 .. opened : w \in Windows
    BY <1>0, RecordingConstants DEF Windows, TypeOK
  <2>. QED BY <1>1, <2>1, <2>2, <2>3, <2>4, <2>5
<1>7. CASE IqRefresh
  <2>1. UNCHANGED <<todo, pushed, opened, open, pending>> /\ finished \in Windows
    BY <1>0, <1>7 DEF IqRefresh, dspVars, audioVars, PhaseInv
  <2>2. PICK m : m = [kind |-> "sidecar", wid |-> finished, n |-> 0]
    OBVIOUS
  <2>3. m \in AudioMsg /\ m.kind = "sidecar"
    BY <2>1, <2>2 DEF AudioMsg
  <2>4. CASE audioQ' = Append(audioQ, m)
    BY <1>3, <2>1, <2>3, <2>4
  <2>5. CASE audioQ' = audioQ
    BY <1>0, <1>2, <2>1, <2>5 DEF EndInv
  <2>. QED BY <1>7, <2>2, <2>4, <2>5 DEF IqRefresh, SendAudio
<1>8. CASE Quiet \/ TakeChunk \/ IqStep \/ IqEnd
  <2>1. UNCHANGED <<todo, pushed, opened, open, pending, audioQ>>
    BY <1>8 DEF Quiet, TakeChunk, IqStep, IqEnd, dspVars, audioVars
  <2>. QED BY <1>0, <1>2, <2>1 DEF EndInv
<1>9. CASE BeginWindow
  <2>1. /\ UNCHANGED <<pushed, pending, audioQ>> /\ todo = <<>>
        /\ opened' = opened + 1 /\ open' = open \cup {opened + 1}
    BY <1>9 DEF BeginWindow, Calls, audioVars
  <2>2. \A n \in DOMAIN pushed : pushed[n] \in 1 .. opened + 1
    BY <1>0 DEF EndInv
  <2>3. \A w : todo # Closing(w)
    BY <2>1, Calling
  <2>4. \A w \in (1 .. opened') \ open' : w \in (1 .. opened) \ open
    BY <1>0, <2>1
  <2>. QED BY <1>2, <2>1, <2>2, <2>3, <2>4
<1>10. CASE \E w \in Windows : PushBurst(w)
  <2>. PICK v \in Windows : PushBurst(v)
    BY <1>10
  <2>1. /\ UNCHANGED <<opened, open, pending, audioQ>> /\ todo = <<>>
        /\ pushed' = Append(pushed, v) /\ v \in open
    BY DEF PushBurst, Calls, audioVars
  <2>2. PICK p : p = pushed'
    OBVIOUS
  <2>3. /\ DOMAIN p = 1 .. Len(pushed) + 1 /\ DOMAIN pushed = 1 .. Len(pushed)
        /\ Len(pushed) \in Nat /\ \A i \in DOMAIN pushed : p[i] = pushed[i]
        /\ p[Len(pushed) + 1] = v
    BY <1>0, <2>1, <2>2, Appended
  <2>4. ASSUME NEW n \in DOMAIN p PROVE p[n] \in 1 .. opened
    <3>1. CASE n \in DOMAIN pushed
      BY <1>0, <2>3, <3>1 DEF EndInv
    <3>2. CASE n = Len(pushed) + 1
      BY <1>0, <2>1, <2>3, <3>2
    <3>. QED BY <2>3, <3>1, <3>2
  <2>5. \A w : todo # Closing(w)
    BY <2>1, Calling
  <2>. QED BY <1>2, <2>1, <2>2, <2>4, <2>5
<1>11. CASE \E w \in Windows : FinishWindow(w)
  <2>. PICK v \in Windows : FinishWindow(v)
    BY <1>11
  <2>1. /\ UNCHANGED <<pushed, opened, pending, audioQ>> /\ todo = <<>>
        /\ open' = open \ {v} /\ todo' = Closing(v)
    BY DEF FinishWindow, Calls, audioVars, Closing
  <2>2. \A w : todo # Closing(w)
    BY <2>1, Calling
  <2>3. \A n \in DOMAIN pushed : pushed[n] \in 1 .. opened
    BY <1>0 DEF EndInv
  <2>. QED BY <1>2, <2>1, <2>2, <2>3
<1>. QED
  BY <1>0, <1>4, <1>5, <1>6, <1>7, <1>8, <1>9, <1>10, <1>11, Steps

-----------------------------------------------------------------------------
(* The recorder's queue.  What a step leaves of its messages.               *)

\* The number facts that the steps of the recorder need.
LEMMA Sizes ==
  ASSUME TypeOK
  PROVE  /\ iqQ \in Seq(IqMsg) /\ DOMAIN iqQ = 1 .. Len(iqQ) /\ Len(iqQ) \in Nat
         /\ input \in Nat /\ opened \in Nat /\ open \subseteq 1 .. opened
         /\ 1 .. opened \subseteq Windows
         /\ \A w \in Windows : beganAt[w] \in Nat /\ endedAt[w] \in Nat
         /\ \A m \in IqMsg : m.n \in Nat /\ m.kind \in {"iq", "open", "close"}
         /\ \A i \in DOMAIN iqQ : iqQ[i] \in IqMsg
<1>1. iqQ \in Seq(IqMsg)
  BY DEF TypeOK
<1>2. DOMAIN iqQ = 1 .. Len(iqQ) /\ Len(iqQ) \in Nat
  BY <1>1, LenProperties
<1>3. input \in 0 .. MaxChunks /\ opened \in 0 .. MaxWindows /\ open \subseteq 1 .. opened
  BY DEF TypeOK
<1>4. input \in Nat /\ opened \in Nat /\ 1 .. opened \subseteq Windows
  BY <1>3, RecordingConstants DEF Windows
<1>5. beganAt \in [Windows -> 0 .. MaxChunks] /\ endedAt \in [Windows -> 0 .. MaxChunks]
  BY DEF TypeOK
<1>6. \A w \in Windows : beganAt[w] \in Nat /\ endedAt[w] \in Nat
  BY <1>5, RecordingConstants
<1>7. \A m \in IqMsg : m.n \in Nat /\ m.kind \in {"iq", "open", "close"}
  BY DEF IqMsg
<1>. QED BY <1>1, <1>2, <1>3, <1>4, <1>6, <1>7

\* A step that is not the recorder's leaves the queue or adds a message to it.
LEMMA OtherSteps ==
  ASSUME RecordingsInv, [Next]_vars
  PROVE  \/ IqStep
         \/ IqRefresh \/ IqEnd
         \/ /\ UNCHANGED <<rec, ring, files, reopen>>
            /\ \/ UNCHANGED <<iqQ, dropped, input, todo, opened, open, beganAt, endedAt>>
               \/ TakeChunk
               \/ BeginWindow
               \/ \E w \in Windows : PushBurst(w)
               \/ \E w \in Windows : FinishWindow(w)
               \/ DspSend
<1>0. TypeOK
  BY DEF RecordingsInv
<1>1. CASE Quiet
  BY <1>1 DEF Quiet
<1>2. CASE TakeChunk \/ BeginWindow \/ DspSend
  BY <1>2 DEF TakeChunk, BeginWindow, DspSend, Calls, recVars
<1>3. CASE \E w \in Windows : PushBurst(w) \/ FinishWindow(w)
  BY <1>3 DEF PushBurst, FinishWindow, Calls, recVars
<1>4. CASE AudioStep \/ AudioEnd
  BY <1>4 DEF AudioStep, AudioEnd, dspVars, recVars
<1>. QED BY <1>0, <1>1, <1>2, <1>3, <1>4, Steps

\* What DspSend puts into the recorder's queue.
LEMMA SentToIq ==
  ASSUME TypeOK, StopInv, CallInv, DspSend
  PROVE  /\ UNCHANGED <<input, dropped, opened, open, beganAt, endedAt>>
         /\ \/ /\ iqQ' = iqQ
               /\ \A w : todo # Opening(w) /\ todo' # Opening(w)
            \/ \E m \in IqMsg :
                  /\ iqQ' = Append(iqQ, m) /\ \A w : todo' # Opening(w)
                  /\ \/ /\ m.kind = "open" /\ m.wid = opened /\ opened \in open
                        /\ beganAt[opened] = input /\ todo = Opening(opened)
                     \/ /\ m.kind = "close" /\ m.wid \in (1 .. opened) \ open
                        /\ endedAt[m.wid] = input /\ \A w : todo # Opening(w)
<1>1. /\ UNCHANGED <<input, dropped, opened, open, beganAt, endedAt>>
      /\ todo # <<>> /\ todo' = Tail(todo)
  BY DEF DspSend
<1>2. \/ Head(todo).to = "audio" /\ audioQ' = Append(audioQ, Head(todo).msg) /\ iqQ' = iqQ
      \/ Head(todo).to = "iq" /\ iqQ' = Append(iqQ, Head(todo).msg) /\ audioQ' = audioQ
  BY Sending
<1>3. \A w \in 1 .. opened : w \in 0 .. MaxWindows
  BY RecordingConstants DEF TypeOK
<1>4. CASE opened \in open /\ beganAt[opened] = input /\ todo = Opening(opened)
  <2>1. Head(todo) = ToIq("open", opened) /\ todo' = <<>>
    BY <1>1, <1>4, One DEF Opening
  <2>2. PICK m : m = [kind |-> "open", wid |-> opened, n |-> 0]
    OBVIOUS
  <2>3. Head(todo).to = "iq" /\ Head(todo).msg = m
    BY <2>1, <2>2 DEF ToIq
  <2>4. m \in IqMsg /\ m.kind = "open" /\ m.wid = opened
    BY <1>3, <1>4, <2>2 DEF IqMsg, TypeOK
  <2>5. \A w : todo' # Opening(w)
    BY <2>1 DEF Opening
  <2>. QED BY <1>1, <1>2, <1>4, <2>3, <2>4, <2>5
<1>5. CASE \E w \in open : todo = Bringing(w, Len(pushed))
  <2>. PICK w \in open : todo = Bringing(w, Len(pushed))
    BY <1>5
  <2>1. Head(todo).to = "audio" /\ todo' = <<>>
    BY <1>1, One DEF Bringing, ToAudio
  <2>2. \A v : todo' # Opening(v)
    BY <2>1 DEF Opening
  <2>3. \A v : todo # Opening(v)
    BY Calling
  <2>. QED BY <1>1, <1>2, <2>1, <2>2, <2>3
<1>6. CASE \E w \in (1 .. opened) \ open : todo = Closing(w)
  <2>. PICK w \in (1 .. opened) \ open : todo = Closing(w)
    BY <1>6
  <2>1. Head(todo).to = "audio" /\ todo' = ClosingIq(w)
    BY <1>1, Two DEF Closing, ClosingIq, ToAudio
  <2>2. \A v : todo' # Opening(v) /\ todo # Opening(v)
    BY <2>1, Calling
  <2>. QED BY <1>1, <1>2, <2>1, <2>2
<1>7. CASE \E w \in (1 .. opened) \ open : endedAt[w] = input /\ todo = ClosingIq(w)
  <2>. PICK w \in (1 .. opened) \ open : endedAt[w] = input /\ todo = ClosingIq(w)
    BY <1>7
  <2>1. Head(todo) = ToIq("close", w) /\ todo' = <<>>
    BY <1>1, One DEF ClosingIq
  <2>2. PICK m : m = [kind |-> "close", wid |-> w, n |-> 0]
    OBVIOUS
  <2>3. Head(todo).to = "iq" /\ Head(todo).msg = m
    BY <2>1, <2>2 DEF ToIq
  <2>4. m \in IqMsg /\ m.kind = "close" /\ m.wid = w
    BY <1>3, <2>2 DEF IqMsg
  <2>5. \A v : todo' # Opening(v) /\ todo # Opening(v)
    BY <2>1, Calling DEF Opening
  <2>. QED BY <1>1, <1>2, <2>3, <2>4, <2>5
<1>. QED BY <1>1, <1>4, <1>5, <1>6, <1>7 DEF CallInv
\* Only the recorder changes what has arrived, sample by sample.
LEMMA ArrivedStays ==
  ASSUME RecordingsInv, [Next]_vars, ~IqStep
  PROVE  Arrived' = Arrived
<1>0. TypeOK /\ StopInv /\ CallInv /\ QueueInv /\ input \in Nat
  BY Sizes DEF RecordingsInv, RInv
<1>1. Arrived' = {c \in 1 .. input' :
                    c \notin dropped' /\ \A i \in DOMAIN iqQ' : iqQ'[i].kind = "iq" => iqQ'[i].n # c}
  BY DEF Arrived
<1>2. CASE UNCHANGED <<input, dropped, iqQ>>
  BY <1>1, <1>2 DEF Arrived
<1>3. ASSUME NEW m, m \in IqMsg, iqQ' = Append(iqQ, m), UNCHANGED <<input, dropped>>, m.kind # "iq"
      PROVE  Arrived' = Arrived
  <2>1. PICK q : q = iqQ'
    OBVIOUS
  <2>2. /\ DOMAIN q = 1 .. Len(iqQ) + 1 /\ DOMAIN iqQ = 1 .. Len(iqQ) /\ Len(iqQ) \in Nat
        /\ \A i \in DOMAIN iqQ : q[i] = iqQ[i]
        /\ q[Len(iqQ) + 1] = m
    BY <1>0, <1>3, <2>1, Sizes, Appended
  <2>3. \A c : (\A i \in DOMAIN q : q[i].kind = "iq" => q[i].n # c)
               <=> (\A i \in DOMAIN iqQ : iqQ[i].kind = "iq" => iqQ[i].n # c)
    BY <1>3, <2>2
  <2>. QED BY <1>1, <1>3, <2>1, <2>3 DEF Arrived
<1>4. CASE TakeChunk
  <2>1. input' = input + 1
    BY <1>4 DEF TakeChunk
  <2>2. PICK m : m = [kind |-> "iq", wid |-> 0, n |-> input + 1]
    OBVIOUS
  <2>3. m \in IqMsg /\ m.kind = "iq" /\ m.n = input + 1
    BY <1>0, <2>2, RecordingConstants DEF IqMsg
  <2>4. CASE iqQ' = Append(iqQ, m) /\ dropped' = dropped
    <3>1. PICK q : q = iqQ'
      OBVIOUS
    <3>2. /\ DOMAIN q = 1 .. Len(iqQ) + 1 /\ DOMAIN iqQ = 1 .. Len(iqQ) /\ Len(iqQ) \in Nat
          /\ \A i \in DOMAIN iqQ : q[i] = iqQ[i]
          /\ q[Len(iqQ) + 1] = m
      BY <1>0, <2>3, <2>4, <3>1, Sizes, Appended
    <3>3. \A c : (\A i \in DOMAIN q : q[i].kind = "iq" => q[i].n # c)
                 <=> (c # input + 1 /\ \A i \in DOMAIN iqQ : iqQ[i].kind = "iq" => iqQ[i].n # c)
      BY <2>3, <3>2
    <3>4. \A c : c \in 1 .. input <=> c \in 1 .. input + 1 /\ c # input + 1
      BY <1>0
    <3>5. \A c : c \in Arrived' <=>
              /\ c \in 1 .. input + 1 /\ c \notin dropped
              /\ \A i \in DOMAIN q : q[i].kind = "iq" => q[i].n # c
      BY <1>1, <2>1, <2>4, <3>1
    <3>6. \A c : c \in Arrived <=>
              /\ c \in 1 .. input /\ c \notin dropped
              /\ \A i \in DOMAIN iqQ : iqQ[i].kind = "iq" => iqQ[i].n # c
      BY DEF Arrived
    <3>7. \A c : c \in Arrived' <=> c \in Arrived
      BY <3>3, <3>4, <3>5, <3>6
    <3>. QED BY <3>7
  <2>5. CASE dropped' = dropped \cup {input + 1} /\ iqQ' = iqQ
    <3>1. \A c : c \in 1 .. input <=> c \in 1 .. input + 1 /\ c # input + 1
      BY <1>0
    <3>. QED BY <1>1, <2>1, <2>5, <3>1 DEF Arrived
  <2>. QED BY <1>4, <2>2, <2>4, <2>5 DEF TakeChunk, PushSamples
<1>5. CASE DspSend
  BY <1>0, <1>2, <1>3, <1>5, SentToIq
<1>6. CASE BeginWindow \/ \E w \in Windows : PushBurst(w) \/ FinishWindow(w)
  BY <1>2, <1>6 DEF BeginWindow, PushBurst, FinishWindow, Calls
<1>7. CASE IqRefresh \/ IqEnd
  BY <1>2, <1>7 DEF IqRefresh, IqEnd, dspVars
<1>. QED BY <1>2, <1>4, <1>5, <1>6, <1>7, OtherSteps

\* A message that the recorder takes out of its queue, what arrives with it and
\* what is behind it.
LEMMA Taking ==
  ASSUME RecordingsInv, IqStep
  PROVE  \E m \in IqMsg :
            /\ m = iqQ[1]
            /\ \/ /\ m.kind = "iq" /\ m.n \in Chunks /\ OnSamples(m.n)
                  /\ Arrived' = Arrived \cup {m.n} /\ m.n \notin Arrived
                  /\ \A c \in Arrived : c < m.n
               \/ /\ m.kind = "open" /\ m.wid \in 1 .. opened /\ OnOpen(m.wid)
                  /\ Arrived' = Arrived /\ Arrived = Taken(1, beganAt[m.wid])
               \/ /\ m.kind = "close" /\ m.wid \in (1 .. opened) \ open /\ OnClose(m.wid)
                  /\ Arrived' = Arrived /\ Taken(1, endedAt[m.wid]) \subseteq Arrived
<1>0. TypeOK /\ QueueInv
  BY DEF RecordingsInv, RInv
<1>1. PICK m \in IqMsg :
            /\ m = Head(iqQ) /\ m = iqQ[1] /\ 1 \in DOMAIN iqQ
            /\ \/ m.kind = "iq" /\ m.n \in Chunks /\ m.n \in (1 .. input) \ dropped
                                /\ OnSamples(m.n)
               \/ m.kind = "open" /\ m.wid \in Windows /\ m.wid \in 1 .. opened /\ OnOpen(m.wid)
               \/ m.kind = "close" /\ m.wid \in (1 .. opened) \ open /\ OnClose(m.wid)
  BY <1>0, IqMessage
<1>2. PICK q : q = iqQ'
  OBVIOUS
<1>3. UNCHANGED <<input, dropped>> /\ iqQ # <<>> /\ q = Tail(iqQ)
  BY <1>2 DEF IqStep, dspVars
<1>4. /\ \A i \in DOMAIN q : i \in Int /\ i + 1 \in DOMAIN iqQ /\ q[i] = iqQ[i + 1] /\ 1 < i + 1
      /\ \A i \in DOMAIN iqQ : i # 1 => i - 1 \in DOMAIN q /\ q[i - 1] = iqQ[i]
  <2>1. /\ DOMAIN q = 1 .. Len(iqQ) - 1
        /\ \A i \in DOMAIN q : i + 1 \in DOMAIN iqQ /\ q[i] = iqQ[i + 1]
        /\ \A i \in DOMAIN iqQ : i # 1 => i - 1 \in DOMAIN q /\ q[i - 1] = iqQ[i]
    BY <1>0, <1>3, Sizes, Shortened
  <2>2. \A i \in DOMAIN q : i \in Int /\ 1 < i + 1
    BY <2>1
  <2>. QED BY <2>1, <2>2
<1>5. \A c \in Arrived' : c \in 1 .. input /\ c \notin dropped
                          /\ \A i \in DOMAIN q : q[i].kind = "iq" => q[i].n # c
  BY <1>2, <1>3 DEF Arrived
<1>6. \A c \in 1 .. input :
         c \notin dropped /\ (\A i \in DOMAIN q : q[i].kind = "iq" => q[i].n # c) => c \in Arrived'
  BY <1>2, <1>3 DEF Arrived
<1>7. \A c : c \in Arrived <=>
          /\ c \in 1 .. input /\ c \notin dropped
          /\ (m.kind = "iq" => m.n # c)
          /\ \A i \in DOMAIN q : q[i].kind = "iq" => q[i].n # c
  <2>1. ASSUME NEW c
        PROVE  (\A i \in DOMAIN iqQ : iqQ[i].kind = "iq" => iqQ[i].n # c) <=>
               (/\ m.kind = "iq" => m.n # c
                /\ \A i \in DOMAIN q : q[i].kind = "iq" => q[i].n # c)
    BY <1>1, <1>4
  <2>. QED BY <2>1 DEF Arrived
<1>8. /\ \A c \in Arrived : c <= Mark(m)
      /\ \A i \in DOMAIN q : q[i].kind = "iq" => Mark(m) < q[i].n
      /\ Mark(m) <= input
  <2>1. ASSUME NEW i \in DOMAIN q, q[i].kind = "iq" PROVE Mark(m) < q[i].n
    <3>1. i + 1 \in DOMAIN iqQ /\ 1 < i + 1 /\ q[i] = iqQ[i + 1]
      BY <1>4
    <3>2. Mark(iqQ[1]) < Mark(iqQ[i + 1])
      BY <1>0, <1>1, <2>1, <3>1 DEF QueueInv
    <3>3. Mark(iqQ[i + 1]) = q[i].n
      BY <2>1, <3>1 DEF Mark
    <3>. QED BY <1>1, <3>2, <3>3
  <2>. QED BY <1>0, <1>1, <2>1 DEF QueueInv
<1>9. ASSUME m.kind # "iq"
      PROVE  Arrived' = Arrived /\ Taken(1, Mark(m)) \subseteq Arrived
  <2>1. Arrived' = Arrived
    BY <1>5, <1>6, <1>7, <1>9
  <2>2. Mark(m) \in Nat /\ input \in Nat
    BY <1>0, <1>1, <1>9, Sizes DEF Mark
  <2>3. ASSUME NEW c \in Taken(1, Mark(m)) PROVE c \in Arrived
    <3>1. c \in 1 .. input /\ c \notin dropped /\ c <= Mark(m)
      BY <1>8, <2>2, <2>3 DEF Taken
    <3>2. ASSUME NEW i \in DOMAIN q, q[i].kind = "iq" PROVE q[i].n # c
      <4>1. q[i] \in IqMsg
        BY <1>0, <1>4, Sizes
      <4>2. q[i].n \in Nat
        BY <1>0, <4>1, Sizes
      <4>. QED BY <1>8, <2>2, <3>1, <3>2, <4>2
    <3>. QED BY <1>7, <1>9, <3>1, <3>2
  <2>. QED BY <2>1, <2>3
<1>10. CASE m.kind = "iq" /\ m.n \in Chunks /\ m.n \in (1 .. input) \ dropped /\ OnSamples(m.n)
  <2>1. Mark(m) = m.n
    BY <1>10 DEF Mark
  <2>2. \A i \in DOMAIN q : q[i].kind = "iq" => q[i].n # m.n
    BY <1>8, <1>10, <2>1
  <2>3. Arrived' = Arrived \cup {m.n}
    BY <1>5, <1>6, <1>7, <1>10, <2>2
  <2>4. m.n \notin Arrived
    BY <1>7, <1>10
  <2>5. \A c \in Arrived : c < m.n
    <3>1. \A c \in Arrived : c \in 1 .. input /\ c # m.n /\ c <= m.n
      BY <1>8, <2>1, <2>4 DEF Arrived
    <3>. QED BY <1>0, <1>10, <3>1, Sizes
  <2>. QED BY <1>1, <1>10, <2>3, <2>4, <2>5
<1>11. CASE m.kind = "open" /\ m.wid \in Windows /\ m.wid \in 1 .. opened /\ OnOpen(m.wid)
  <2>1. Mark(m) = beganAt[m.wid] /\ Mark(m) \in Nat
    BY <1>0, <1>11, Sizes DEF Mark
  <2>2. \A c \in Arrived : c \in Taken(1, beganAt[m.wid])
    <3>1. \A c \in Arrived : c \in 1 .. input /\ c \notin dropped
      BY DEF Arrived
    <3>. QED BY <1>0, <1>8, <2>1, <3>1, Sizes DEF Taken
  <2>. QED BY <1>1, <1>9, <1>11, <2>1, <2>2
<1>12. CASE m.kind = "close" /\ m.wid \in (1 .. opened) \ open /\ OnClose(m.wid)
  <2>1. Mark(m) = endedAt[m.wid]
    BY <1>12 DEF Mark
  <2>. QED BY <1>1, <1>9, <1>12, <2>1
<1>. QED BY <1>1, <1>10, <1>11, <1>12

\* Every message stands for a moment, and the moments are in order.
LEMMA QueueKept ==
  ASSUME RecordingsInv, [Next]_vars
  PROVE  QueueInv'
<1>0. TypeOK /\ StopInv /\ CallInv /\ QueueInv
  BY DEF RecordingsInv, RInv
<1>. PICK A : A = Arrived
  OBVIOUS
<1>. PICK q : q = iqQ'
  OBVIOUS
\* The moment of a message after the step.
<1>. DEFINE After(m) == IF m.kind = "open" THEN beganAt'[m.wid]
                       ELSE IF m.kind = "close" THEN endedAt'[m.wid] ELSE m.n
<1>1. ASSUME dropped' \subseteq 1 .. input',
             \A i \in DOMAIN q :
                /\ q[i].kind = "iq" => q[i].n \in (1 .. input') \ dropped'
                /\ q[i].kind = "open" => q[i].wid \in 1 .. opened'
                /\ q[i].kind = "close" => q[i].wid \in (1 .. opened') \ open'
                /\ After(q[i]) <= input'
                /\ \A c \in Arrived' : c <= After(q[i]),
             \A i, j \in DOMAIN q : i < j =>
                /\ After(q[i]) <= After(q[j])
                /\ q[j].kind = "iq" => After(q[i]) < After(q[j])
      PROVE  QueueInv'
  BY <1>1 DEF QueueInv, Mark
\* The messages stay what they are.
<1>2. ASSUME iqQ' = iqQ, input' = input, dropped' = dropped, Arrived' = Arrived,
             \A w \in 1 .. opened : w \in 1 .. opened' /\ beganAt'[w] = beganAt[w],
             \A w \in (1 .. opened) \ open : w \notin open' /\ endedAt'[w] = endedAt[w]
      PROVE  QueueInv'
  <2>1. ASSUME NEW i \in DOMAIN iqQ
        PROVE  /\ After(iqQ[i]) = Mark(iqQ[i])
               /\ iqQ[i].kind = "open" => iqQ[i].wid \in 1 .. opened'
               /\ iqQ[i].kind = "close" => iqQ[i].wid \in (1 .. opened') \ open'
    <3>1. /\ iqQ[i].kind = "open" => iqQ[i].wid \in 1 .. opened
          /\ iqQ[i].kind = "close" => iqQ[i].wid \in (1 .. opened) \ open
      BY <1>0 DEF QueueInv
    <3>. QED BY <1>2, <3>1 DEF Mark
  <2>. QED BY <1>0, <1>1, <1>2, <2>1 DEF QueueInv
\* A message is added that stands for now.
<1>3. ASSUME NEW m \in IqMsg, iqQ' = Append(iqQ, m), Mark(m) = input', Arrived' = Arrived,
             dropped' = dropped,
             UNCHANGED <<beganAt, endedAt, opened, open>>,
             \/ m.kind = "open" /\ m.wid \in 1 .. opened /\ input' = input
             \/ m.kind = "close" /\ m.wid \in (1 .. opened) \ open /\ input' = input
             \/ m.kind = "iq" /\ input' = input + 1
      PROVE  QueueInv'
  <2>1. /\ DOMAIN q = 1 .. Len(iqQ) + 1 /\ DOMAIN iqQ = 1 .. Len(iqQ) /\ Len(iqQ) \in Nat
        /\ \A i \in DOMAIN iqQ : q[i] = iqQ[i]
        /\ q[Len(iqQ) + 1] = m
    BY <1>0, <1>3, Sizes, Appended
  <2>2. \A i \in DOMAIN q : After(q[i]) = Mark(q[i])
    BY <1>3 DEF Mark
  <2>3. /\ input \in Nat /\ input' \in Nat /\ input <= input'
        /\ \A c \in Arrived : c \in 1 .. input /\ c <= input'
    <3>1. input \in Nat
      BY <1>0, Sizes
    <3>2. input' \in Nat /\ input <= input'
      BY <1>3, <3>1
    <3>. QED BY <3>1, <3>2 DEF Arrived
  <2>4. ASSUME NEW i \in DOMAIN iqQ
        PROVE  /\ Mark(iqQ[i]) \in Int /\ Mark(iqQ[i]) <= input /\ Mark(iqQ[i]) <= input'
               /\ m.kind = "iq" => Mark(iqQ[i]) < input'
    <3>1. Mark(iqQ[i]) <= input
      BY <1>0 DEF QueueInv
    <3>2. Mark(iqQ[i]) \in Int
      <4>1. iqQ[i] \in IqMsg
        BY <1>0, Sizes
      <4>2. iqQ[i].n \in Nat
        BY <1>0, <4>1, Sizes
      <4>3. /\ iqQ[i].kind = "open" => iqQ[i].wid \in Windows
            /\ iqQ[i].kind = "close" => iqQ[i].wid \in Windows
        BY <1>0, Sizes DEF QueueInv
      <4>. QED BY <1>0, <4>2, <4>3, Sizes DEF Mark
    <3>. QED BY <1>3, <2>3, <3>1, <3>2
  <2>5. dropped' \subseteq 1 .. input'
    <3>1. dropped \subseteq 1 .. input
      BY <1>0 DEF QueueInv
    <3>. QED BY <1>3, <2>3, <3>1
  <2>6. ASSUME NEW i \in DOMAIN q
        PROVE  /\ q[i].kind = "iq" => q[i].n \in (1 .. input') \ dropped'
               /\ q[i].kind = "open" => q[i].wid \in 1 .. opened'
               /\ q[i].kind = "close" => q[i].wid \in (1 .. opened') \ open'
               /\ After(q[i]) <= input'
               /\ \A c \in Arrived' : c <= After(q[i])
    <3>1. CASE i \in DOMAIN iqQ
      <4>1. /\ iqQ[i].kind = "iq" => iqQ[i].n \in (1 .. input) \ dropped
            /\ iqQ[i].kind = "open" => iqQ[i].wid \in 1 .. opened
            /\ iqQ[i].kind = "close" => iqQ[i].wid \in (1 .. opened) \ open
            /\ \A c \in Arrived : c <= Mark(iqQ[i])
        BY <1>0, <3>1 DEF QueueInv
      <4>2. q[i] = iqQ[i] /\ After(q[i]) = Mark(iqQ[i])
        BY <2>1, <2>2, <3>1
      <4>. QED BY <1>3, <2>3, <2>4, <3>1, <4>1, <4>2
    <3>2. CASE i = Len(iqQ) + 1
      <4>1. q[i] = m /\ After(q[i]) = input'
        BY <1>3, <2>1, <2>2, <3>2
      <4>2. m.kind = "iq" => m.n = input + 1 /\ input + 1 \notin dropped
        <5>1. dropped \subseteq 1 .. input
          BY <1>0 DEF QueueInv
        <5>. QED BY <1>3, <2>3, <5>1 DEF Mark
      <4>. QED BY <1>3, <2>3, <4>1, <4>2
    <3>. QED BY <2>1, <3>1, <3>2
  <2>7. ASSUME NEW i \in DOMAIN q, NEW j \in DOMAIN q, i < j
        PROVE  /\ After(q[i]) <= After(q[j])
               /\ q[j].kind = "iq" => After(q[i]) < After(q[j])
    <3>1. i \in DOMAIN iqQ /\ q[i] = iqQ[i] /\ After(q[i]) = Mark(iqQ[i])
      BY <2>1, <2>2, <2>7
    <3>2. CASE j \in DOMAIN iqQ
      <4>1. q[j] = iqQ[j] /\ After(q[j]) = Mark(iqQ[j])
        BY <2>1, <2>2, <3>2
      <4>. QED BY <1>0, <2>7, <3>1, <3>2, <4>1 DEF QueueInv
    <3>3. CASE j = Len(iqQ) + 1
      <4>1. q[j] = m /\ After(q[j]) = input'
        BY <1>3, <2>1, <2>2, <3>3
      <4>. QED BY <2>4, <3>1, <4>1
    <3>. QED BY <2>1, <3>2, <3>3
  <2>. QED BY <1>1, <2>5, <2>6, <2>7
<1>4. CASE IqStep
  <2>1. UNCHANGED <<input, dropped, opened, open, beganAt, endedAt>> /\ iqQ # <<>> /\ q = Tail(iqQ)
    BY <1>4 DEF IqStep, dspVars
  <2>2. /\ DOMAIN q = 1 .. Len(iqQ) - 1 /\ DOMAIN iqQ = 1 .. Len(iqQ) /\ Len(iqQ) \in Nat \ {0}
        /\ \A i \in DOMAIN q : i + 1 \in DOMAIN iqQ /\ q[i] = iqQ[i + 1]
        /\ 1 \in DOMAIN iqQ
    BY <1>0, <2>1, Sizes, Shortened
  <2>3. \A i \in DOMAIN q : After(q[i]) = Mark(q[i])
    BY <2>1 DEF Mark
  <2>4. PICK m \in IqMsg : /\ m = iqQ[1]
                           /\ \/ m.kind = "iq" /\ Arrived' = Arrived \cup {m.n}
                              \/ Arrived' = Arrived
    BY <1>4, Taking
  <2>5. ASSUME NEW i \in DOMAIN q
        PROVE  /\ q[i].kind = "iq" => q[i].n \in (1 .. input') \ dropped'
               /\ q[i].kind = "open" => q[i].wid \in 1 .. opened'
               /\ q[i].kind = "close" => q[i].wid \in (1 .. opened') \ open'
               /\ After(q[i]) <= input'
               /\ \A c \in Arrived' : c <= After(q[i])
    <3>1. i + 1 \in DOMAIN iqQ /\ q[i] = iqQ[i + 1] /\ After(q[i]) = Mark(iqQ[i + 1]) /\ 1 < i + 1
      BY <2>2, <2>3
    <3>2. Mark(iqQ[1]) <= Mark(iqQ[i + 1])
      BY <1>0, <2>2, <3>1 DEF QueueInv
    <3>3. m.kind = "iq" => m.n <= Mark(iqQ[i + 1])
      BY <2>4, <3>2 DEF Mark
    <3>4. \A c \in Arrived : c <= Mark(iqQ[i + 1])
      BY <1>0, <3>1 DEF QueueInv
    <3>5. \A c \in Arrived' : c <= After(q[i])
      BY <2>4, <3>1, <3>3, <3>4
    <3>. QED BY <1>0, <2>1, <3>1, <3>5 DEF QueueInv
  <2>6. ASSUME NEW i \in DOMAIN q, NEW j \in DOMAIN q, i < j
        PROVE  /\ After(q[i]) <= After(q[j])
               /\ q[j].kind = "iq" => After(q[i]) < After(q[j])
    <3>1. /\ i + 1 \in DOMAIN iqQ /\ q[i] = iqQ[i + 1] /\ After(q[i]) = Mark(iqQ[i + 1])
          /\ j + 1 \in DOMAIN iqQ /\ q[j] = iqQ[j + 1] /\ After(q[j]) = Mark(iqQ[j + 1])
          /\ i + 1 < j + 1
      BY <2>2, <2>3, <2>6
    <3>. QED BY <1>0, <3>1 DEF QueueInv
  <2>7. dropped' \subseteq 1 .. input'
    BY <1>0, <2>1 DEF QueueInv
  <2>. QED BY <1>1, <2>5, <2>6, <2>7
<1>5. CASE ~IqStep /\ TakeChunk
  <2>1. input' = input + 1 /\ UNCHANGED <<opened, open, beganAt, endedAt>> /\ Arrived' = Arrived
    BY <1>5, ArrivedStays DEF TakeChunk
  <2>2. PICK m : m = [kind |-> "iq", wid |-> 0, n |-> input + 1]
    OBVIOUS
  <2>3. m \in IqMsg /\ m.kind = "iq" /\ Mark(m) = input'
    <3>1. input \in Nat
      BY <1>0, Sizes
    <3>. QED BY <2>1, <2>2, <3>1, RecordingConstants DEF IqMsg, Mark
  <2>4. CASE iqQ' = Append(iqQ, m) /\ dropped' = dropped
    BY <1>3, <2>1, <2>3, <2>4
  <2>5. CASE dropped' = dropped \cup {input + 1} /\ iqQ' = iqQ
    <3>1. \A i \in DOMAIN q : q[i] = iqQ[i] /\ After(q[i]) = Mark(q[i])
      BY <2>1, <2>5 DEF Mark
    <3>2. input \in Nat /\ dropped \subseteq 1 .. input
      BY <1>0, Sizes DEF QueueInv
    <3>3. \A i \in DOMAIN iqQ : Mark(iqQ[i]) <= input
      BY <1>0 DEF QueueInv
    <3>4. \A i \in DOMAIN iqQ : Mark(iqQ[i]) \in Int
      <4>1. ASSUME NEW i \in DOMAIN iqQ PROVE Mark(iqQ[i]) \in Int
        <5>1. iqQ[i] \in IqMsg
          BY <1>0, Sizes
        <5>2. iqQ[i].n \in Nat
          BY <1>0, <5>1, Sizes
        <5>3. /\ iqQ[i].kind = "open" => iqQ[i].wid \in Windows
              /\ iqQ[i].kind = "close" => iqQ[i].wid \in Windows
          BY <1>0, Sizes DEF QueueInv
        <5>. QED BY <1>0, <5>2, <5>3, Sizes DEF Mark
      <4>. QED BY <4>1
    <3>5. ASSUME NEW i \in DOMAIN q
          PROVE  /\ q[i].kind = "iq" => q[i].n \in (1 .. input') \ dropped'
                 /\ q[i].kind = "open" => q[i].wid \in 1 .. opened'
                 /\ q[i].kind = "close" => q[i].wid \in (1 .. opened') \ open'
                 /\ After(q[i]) <= input'
                 /\ \A c \in Arrived' : c <= After(q[i])
      <4>1. i \in DOMAIN iqQ
        BY <2>5
      <4>2. q[i].kind = "iq" => q[i].n \in (1 .. input) \ dropped
        BY <1>0, <3>1, <4>1 DEF QueueInv
      <4>3. q[i].kind = "iq" => q[i].n \in (1 .. input') \ dropped'
        BY <2>1, <2>5, <3>2, <4>2
      <4>4. After(q[i]) <= input'
        BY <2>1, <3>1, <3>2, <3>3, <3>4, <4>1
      <4>. QED BY <1>0, <2>1, <3>1, <4>1, <4>3, <4>4 DEF QueueInv
    <3>6. \A i, j \in DOMAIN q : i < j =>
             /\ After(q[i]) <= After(q[j])
             /\ q[j].kind = "iq" => After(q[i]) < After(q[j])
      BY <1>0, <2>5, <3>1 DEF QueueInv
    <3>7. dropped' \subseteq 1 .. input'
      BY <2>1, <2>5, <3>2
    <3>. QED BY <1>1, <3>5, <3>6, <3>7
  <2>. QED BY <1>5, <2>2, <2>4, <2>5 DEF TakeChunk, PushSamples
<1>6. CASE ~IqStep /\ DspSend
  <2>1. UNCHANGED <<input, dropped, opened, open, beganAt, endedAt>> /\ Arrived' = Arrived
    BY <1>0, <1>6, SentToIq, ArrivedStays
  <2>2. CASE iqQ' = iqQ
    BY <1>2, <2>1, <2>2
  <2>3. ASSUME NEW m \in IqMsg, iqQ' = Append(iqQ, m),
               \/ m.kind = "open" /\ m.wid = opened /\ opened \in open /\ beganAt[opened] = input
               \/ m.kind = "close" /\ m.wid \in (1 .. opened) \ open /\ endedAt[m.wid] = input
        PROVE  QueueInv'
    <3>1. Mark(m) = input' /\ open \subseteq 1 .. opened
      BY <1>0, <2>1, <2>3, Sizes DEF Mark
    <3>. QED BY <1>3, <2>1, <2>3, <3>1
  <2>. QED BY <1>0, <1>6, <2>2, <2>3, SentToIq
<1>7. CASE ~IqStep /\ BeginWindow
  <2>1. /\ UNCHANGED <<iqQ, input, dropped, endedAt>> /\ Arrived' = Arrived
        /\ opened' = opened + 1 /\ open' = open \cup {opened + 1}
        /\ beganAt' = [beganAt EXCEPT ![opened + 1] = input]
    BY <1>7, ArrivedStays DEF BeginWindow, Calls
  <2>2. \A w \in 1 .. opened : w \in 1 .. opened' /\ w # opened + 1
    BY <1>0, <2>1, Sizes
  <2>3. \A w \in 1 .. opened : beganAt'[w] = beganAt[w]
    BY <1>0, <2>1, <2>2, Sizes DEF TypeOK
  <2>. QED BY <1>2, <2>1, <2>2, <2>3
<1>8. CASE ~IqStep /\ \E w \in Windows : FinishWindow(w)
  <2>. PICK v \in Windows : FinishWindow(v)
    BY <1>8
  <2>1. /\ UNCHANGED <<iqQ, input, dropped, beganAt, opened>> /\ Arrived' = Arrived
        /\ v \in open /\ open' = open \ {v} /\ endedAt' = [endedAt EXCEPT ![v] = input]
    BY <1>8, ArrivedStays DEF FinishWindow, Calls
  <2>2. \A w \in (1 .. opened) \ open : w \notin open' /\ endedAt'[w] = endedAt[w]
    BY <1>0, <2>1, Sizes DEF TypeOK
  <2>. QED BY <1>2, <2>1, <2>2
<1>9. CASE ~IqStep /\ UNCHANGED <<iqQ, dropped, input, opened, open, beganAt, endedAt>>
  BY <1>2, <1>9, ArrivedStays
<1>10. CASE \E w \in Windows : PushBurst(w)
  BY <1>9, <1>10 DEF PushBurst, Calls, IqStep, dspVars
<1>11. CASE IqRefresh \/ IqEnd
  BY <1>9, <1>11 DEF IqRefresh, IqEnd, IqStep, dspVars
<1>. QED
  BY <1>4, <1>5, <1>6, <1>7, <1>8, <1>9, <1>10, <1>11, OtherSteps

-----------------------------------------------------------------------------
(* The windows: each is over before the next begins, and their starts come   *)
(* to the recorder in that order.                                          *)

QueuedStart(w) == \E i \in DOMAIN iqQ : iqQ[i].kind = "open" /\ iqQ[i].wid = w

\* The windows whose start is on its way.
LEMMA StartsStay ==
  ASSUME RecordingsInv, [Next]_vars, ~IqStep
  PROVE  /\ Started' = Started
         /\ \/ ToStart' = ToStart /\ opened' = opened
            \/ /\ BeginWindow /\ opened' = opened + 1 /\ ToStart' = ToStart \cup {opened + 1}
               /\ ToStart = {w \in 1 .. opened : QueuedStart(w)}
<1>0. TypeOK /\ StopInv /\ CallInv /\ QueueInv /\ WindowsInv /\ opened \in Nat
  BY Sizes DEF RecordingsInv, RInv
<1>1. ToStart' = {w \in 1 .. opened' :
                    \/ todo' = Opening(w)
                    \/ \E i \in DOMAIN iqQ' : iqQ'[i].kind = "open" /\ iqQ'[i].wid = w}
  BY DEF ToStart, Opening, ToIq
<1>2. Started' = (1 .. opened') \ ToStart'
  BY DEF Started
<1>3. ASSUME opened' = opened,
             \A w : (todo' = Opening(w)) <=> (todo = Opening(w)),
             \A w : (\E i \in DOMAIN iqQ' : iqQ'[i].kind = "open" /\ iqQ'[i].wid = w)
                    <=> QueuedStart(w)
      PROVE  ToStart' = ToStart /\ Started' = Started
  <2>1. ToStart' = ToStart
    BY <1>1, <1>3 DEF ToStart, QueuedStart
  <2>. QED BY <1>2, <1>3, <2>1 DEF Started
<1>4. CASE iqQ' = iqQ /\ opened' = opened /\ \A w : todo' # Opening(w) /\ todo # Opening(w)
  BY <1>3, <1>4 DEF QueuedStart
<1>5. CASE UNCHANGED <<iqQ, opened, todo>>
  BY <1>3, <1>5 DEF QueuedStart
<1>6. CASE TakeChunk
  <2>1. UNCHANGED <<opened, todo>>
    BY <1>6 DEF TakeChunk
  <2>2. CASE iqQ' = iqQ
    BY <1>5, <2>1, <2>2
  <2>3. CASE iqQ' = Append(iqQ, [kind |-> "iq", wid |-> 0, n |-> input + 1])
    <3>1. PICK m : m = [kind |-> "iq", wid |-> 0, n |-> input + 1]
      OBVIOUS
    <3>2. m \in IqMsg /\ m.kind = "iq"
      BY <1>0, <3>1, Sizes, RecordingConstants DEF IqMsg
    <3>3. PICK q : q = iqQ'
      OBVIOUS
    <3>4. /\ DOMAIN q = 1 .. Len(iqQ) + 1 /\ DOMAIN iqQ = 1 .. Len(iqQ) /\ Len(iqQ) \in Nat
          /\ \A i \in DOMAIN iqQ : q[i] = iqQ[i]
          /\ q[Len(iqQ) + 1] = m
      BY <1>0, <2>3, <3>1, <3>2, <3>3, Sizes, Appended
    <3>5. \A w : (\E i \in DOMAIN q : q[i].kind = "open" /\ q[i].wid = w) <=> QueuedStart(w)
      BY <3>2, <3>4 DEF QueuedStart
    <3>. QED BY <1>3, <2>1, <3>3, <3>5
  <2>. QED BY <1>6, <2>2, <2>3 DEF TakeChunk, PushSamples
<1>7. CASE BeginWindow
  <2>1. iqQ' = iqQ /\ todo = <<>> /\ todo' = Opening(opened + 1) /\ opened' = opened + 1
    BY <1>7 DEF BeginWindow, Calls, Opening
  <2>2. \A w : (todo' = Opening(w) <=> w = opened + 1) /\ todo # Opening(w)
    BY <2>1, Calling
  <2>3. \A w : w \in 1 .. opened' <=> w \in 1 .. opened \/ w = opened + 1
    BY <1>0, <2>1
  <2>4. \A w : QueuedStart(w) => w \in 1 .. opened
    BY <1>0 DEF QueueInv, QueuedStart
  <2>5. ToStart = {w \in 1 .. opened : QueuedStart(w)}
    BY <2>2 DEF ToStart, QueuedStart
  <2>6. \A w : w \in ToStart' <=> w \in 1 .. opened' /\ (w = opened + 1 \/ QueuedStart(w))
    BY <1>1, <2>1, <2>2 DEF QueuedStart
  <2>7. \A w : w \in ToStart' <=> w \in ToStart \cup {opened + 1}
    BY <2>3, <2>4, <2>5, <2>6
  <2>8. opened + 1 \notin 1 .. opened
    BY <1>0
  <2>9. \A w : w \in Started' <=> w \in Started
    BY <1>2, <2>3, <2>7, <2>8 DEF Started
  <2>. QED BY <1>7, <2>1, <2>5, <2>7, <2>9
<1>8. CASE DspSend
  <2>1. CASE iqQ' = iqQ /\ \A w : todo # Opening(w) /\ todo' # Opening(w)
    <3>1. opened' = opened
      BY <1>8 DEF DspSend
    <3>. QED BY <1>4, <2>1, <3>1
  <2>2. ASSUME NEW m \in IqMsg, iqQ' = Append(iqQ, m), \A w : todo' # Opening(w),
               \/ m.kind = "open" /\ m.wid = opened /\ todo = Opening(opened) /\ opened \in open
               \/ m.kind = "close" /\ \A w : todo # Opening(w)
        PROVE  ToStart' = ToStart /\ Started' = Started /\ opened' = opened
    <3>1. opened' = opened
      BY <1>8 DEF DspSend
    <3>2. PICK q : q = iqQ'
      OBVIOUS
    <3>3. /\ DOMAIN q = 1 .. Len(iqQ) + 1 /\ DOMAIN iqQ = 1 .. Len(iqQ) /\ Len(iqQ) \in Nat
          /\ \A i \in DOMAIN iqQ : i \in DOMAIN q /\ q[i] = iqQ[i]
          /\ q[Len(iqQ) + 1] = m /\ Len(iqQ) + 1 \in DOMAIN q
      <4>1. /\ DOMAIN q = 1 .. Len(iqQ) + 1 /\ DOMAIN iqQ = 1 .. Len(iqQ) /\ Len(iqQ) \in Nat
            /\ \A i \in DOMAIN iqQ : q[i] = iqQ[i]
            /\ q[Len(iqQ) + 1] = m
        BY <1>0, <2>2, <3>2, Sizes, Appended
      <4>. QED BY <4>1
    <3>4. \A w : (\E i \in DOMAIN q : q[i].kind = "open" /\ q[i].wid = w)
                 <=> QueuedStart(w) \/ (m.kind = "open" /\ m.wid = w)
      BY <3>3 DEF QueuedStart
    <3>5. \A w : (m.kind = "open" /\ m.wid = w) <=> todo = Opening(w)
      BY <2>2, Calling
    <3>6. \A w : w \in ToStart' <=> w \in 1 .. opened /\ (QueuedStart(w) \/ todo = Opening(w))
      BY <1>1, <2>2, <3>1, <3>2, <3>4, <3>5
    <3>7. ToStart' = ToStart
      BY <3>6 DEF ToStart, QueuedStart
    <3>. QED BY <1>2, <3>1, <3>7 DEF Started
  <2>. QED BY <1>0, <1>8, <2>1, <2>2, SentToIq
<1>9. CASE \E w \in Windows : PushBurst(w)
  <2>. PICK w \in Windows : PushBurst(w)
    BY <1>9
  <2>1. UNCHANGED <<iqQ, opened>> /\ todo = <<>> /\ todo' = Bringing(w, Len(pushed) + 1)
    BY DEF PushBurst, Calls, Bringing
  <2>. QED BY <1>4, <2>1, Calling
<1>10. CASE \E w \in Windows : FinishWindow(w)
  <2>. PICK w \in Windows : FinishWindow(w)
    BY <1>10
  <2>1. UNCHANGED <<iqQ, opened>> /\ todo = <<>> /\ todo' = Closing(w)
    BY DEF FinishWindow, Calls, Closing
  <2>. QED BY <1>4, <2>1, Calling
<1>11. CASE IqRefresh \/ IqEnd
  BY <1>5, <1>11 DEF IqRefresh, IqEnd, dspVars
<1>. QED BY <1>3, <1>5, <1>6, <1>7, <1>8, <1>9, <1>10, <1>11, OtherSteps

LEMMA StartsStep ==
  ASSUME RecordingsInv, IqStep
  PROVE  \A m \in IqMsg : m = iqQ[1] =>
            IF m.kind = "open"
            THEN /\ ToStart' = ToStart \ {m.wid} /\ m.wid \in ToStart
                 /\ Started' = Started \cup {m.wid}
                 /\ \A w \in ToStart' : m.wid < w
            ELSE ToStart' = ToStart /\ Started' = Started
<1>0. TypeOK /\ QueueInv /\ WindowsInv /\ opened \in Nat
  BY Sizes DEF RecordingsInv, RInv
<1>1. UNCHANGED <<opened, todo>> /\ iqQ # <<>> /\ iqQ' = Tail(iqQ)
  BY DEF IqStep, dspVars
<1>2. PICK q : q = iqQ'
  OBVIOUS
<1>3. SUFFICES ASSUME NEW m \in IqMsg, m = iqQ[1]
               PROVE  IF m.kind = "open"
                      THEN /\ ToStart' = ToStart \ {m.wid} /\ m.wid \in ToStart
                           /\ Started' = Started \cup {m.wid}
                           /\ \A w \in ToStart' : m.wid < w
                      ELSE ToStart' = ToStart /\ Started' = Started
  OBVIOUS
<1>4. /\ DOMAIN q = 1 .. Len(iqQ) - 1 /\ 1 \in DOMAIN iqQ
      /\ \A i \in DOMAIN q : i + 1 \in DOMAIN iqQ /\ q[i] = iqQ[i + 1]
      /\ \A i \in DOMAIN iqQ : i # 1 => i - 1 \in DOMAIN q /\ q[i - 1] = iqQ[i]
  BY <1>0, <1>1, <1>2, Sizes, Shortened
<1>5. \A i \in DOMAIN q : 1 < i + 1
  BY <1>4
<1>6. ToStart' = {w \in 1 .. opened :
                    todo = Opening(w) \/ \E i \in DOMAIN q : q[i].kind = "open" /\ q[i].wid = w}
  BY <1>1, <1>2 DEF ToStart, Opening, ToIq
<1>7. Started' = (1 .. opened) \ ToStart'
  BY <1>1 DEF Started
<1>8. \A w : QueuedStart(w) <=> \/ m.kind = "open" /\ m.wid = w
                               \/ \E i \in DOMAIN q : q[i].kind = "open" /\ q[i].wid = w
  BY <1>3, <1>4 DEF QueuedStart
<1>9. CASE m.kind = "open"
  <2>1. m.wid \in 1 .. opened /\ m.wid \in ToStart
    BY <1>0, <1>3, <1>4, <1>9 DEF QueueInv, ToStart
  <2>2. \A w \in ToStart' : m.wid < w
    <3>1. ASSUME NEW w, todo = Opening(w), w \in 1 .. opened PROVE m.wid < w
      <4>1. w = opened
        <5>1. opened \in open /\ todo = Opening(opened)
          BY <3>1, Calling DEF CallInv, RecordingsInv
        <5>. QED BY <3>1, <5>1, Calling
      <4>. QED BY <1>0, <1>3, <1>4, <1>9, <3>1, <4>1 DEF WindowsInv
    <3>2. ASSUME NEW i \in DOMAIN q, q[i].kind = "open" PROVE m.wid < q[i].wid
      <4>1. i + 1 \in DOMAIN iqQ /\ 1 < i + 1 /\ q[i] = iqQ[i + 1]
        BY <1>4, <1>5
      <4>. QED BY <1>0, <1>3, <1>4, <1>9, <3>2, <4>1 DEF WindowsInv
    <3>. QED BY <1>6, <3>1, <3>2
  <2>3. m.wid \notin ToStart'
    BY <1>0, <2>1, <2>2
  <2>4. \A w : w \in ToStart' <=> w \in ToStart \ {m.wid}
    BY <1>6, <1>8, <1>9, <2>3 DEF ToStart, QueuedStart
  <2>5. \A w : w \in Started' <=> w \in Started \cup {m.wid}
    BY <1>7, <2>1, <2>4 DEF Started
  <2>. QED BY <1>9, <2>1, <2>2, <2>4, <2>5
<1>10. CASE m.kind # "open"
  <2>1. ToStart' = ToStart
    BY <1>6, <1>8, <1>10 DEF ToStart, QueuedStart
  <2>. QED BY <1>7, <1>10, <2>1 DEF Started
<1>. QED BY <1>9, <1>10

\* What a step of the recorder does to its recording and its files: it ends the
\* one it has, begins one with what the ring holds, or adds a sample to it.
LEMMA RecorderMoves ==
  ASSUME RecordingsInv, IqStep \/ IqRefresh \/ IqEnd
  PROVE  /\ rec' # NotRecording =>
               /\ rec'.wid \in Windows
               /\ \/ IsRecording /\ rec'.wid = rec.wid
                  \/ IqRefresh /\ rec'.wid = reopen
                  \/ IqStep /\ iqQ[1].kind = "open" /\ rec'.wid = iqQ[1].wid
         /\ reopen' # 0 =>
               IqStep /\ iqQ[1].kind = "open" /\ reopen' = iqQ[1].wid
<1>0. TypeOK /\ PhaseInv /\ QueueInv
  BY DEF RecordingsInv, RInv
<1>1. CASE IqStep
  <2>0. iqPC = "run" /\ reopen = 0
    BY <1>0, <1>1 DEF IqStep, PhaseInv
  <2>. PICK m \in IqMsg :
            /\ m = iqQ[1]
            /\ \/ m.kind = "iq" /\ m.n \in Chunks /\ OnSamples(m.n)
               \/ m.kind = "open" /\ m.wid \in Windows /\ OnOpen(m.wid)
               \/ OnClose(m.wid)
    BY <1>0, <1>1, IqMessage
  <2>1. CASE m.n \in Chunks /\ OnSamples(m.n)
    <3>1. CASE IsRecording
      <4>1. Record(m.n)
        BY <2>1, <3>1 DEF OnSamples
      <4>2. CASE Finalize(Longer(m.n), 0, "refresh")
        BY <4>2, FinalizeFacts
      <4>3. CASE (rec' = [Longer(m.n) EXCEPT !.since = 0] \/ rec' = Longer(m.n)) /\ reopen' = reopen
        <5>1. rec'.wid = rec.wid /\ rec.wid \in Windows
          BY <1>0, <2>1, <3>1, <4>3, RecordGoesOn, NotARecording
        <5>. QED BY <2>0, <3>1, <4>3, <5>1
      <4>. QED BY <4>1, <4>2, <4>3, RecordCases
    <3>2. CASE ~IsRecording
      BY <2>0, <2>1, <3>2 DEF OnSamples, Preroll, IsRecording
    <3>. QED BY <3>1, <3>2
  <2>2. CASE m.kind = "open" /\ m.wid \in Windows /\ OnOpen(m.wid)
    <3>1. CASE IsRecording
      BY <1>1, <2>2, <3>1, FinalizeFacts DEF OnOpen
    <3>2. CASE ~IsRecording
      <4>1. NewRecording(m.wid) /\ reopen' = reopen
        BY <2>2, <3>2 DEF OnOpen
      <4>2. rec'.wid = m.wid
        BY <1>0, <2>2, <4>1, NewRecordingTypes
      <4>. QED BY <1>1, <2>0, <2>2, <4>1, <4>2
    <3>. QED BY <3>1, <3>2
  <2>3. CASE OnClose(m.wid)
    <3>1. rec' = rec \/ (IsRecording /\ rec.wid = m.wid /\ rec'.wid = m.wid)
      BY <1>0, <2>3, OnCloseFacts
    <3>2. reopen' = reopen
      BY <2>3 DEF OnClose
    <3>3. IsRecording => rec.wid \in Windows
      BY <1>0, NotARecording
    <3>. QED BY <2>0, <3>1, <3>2, <3>3 DEF IsRecording
  <2>. QED BY <2>1, <2>2, <2>3
<1>2. CASE IqRefresh
  <2>1. reopen' = 0 /\ rec = NotRecording
    BY <1>0, <1>2 DEF IqRefresh, PhaseInv
  <2>2. CASE reopen > 0
    <3>1. reopen \in Windows
      BY <1>0, <2>2, RecordingConstants DEF TypeOK, Windows
    <3>2. NewRecording(reopen)
      BY <1>2, <2>2 DEF IqRefresh
    <3>3. rec'.wid = reopen
      BY <1>0, <3>1, <3>2, NewRecordingTypes
    <3>. QED BY <1>2, <2>1, <3>1, <3>3
  <2>3. CASE ~(reopen > 0)
    BY <1>2, <2>1, <2>3 DEF IqRefresh
  <2>. QED BY <2>2, <2>3
<1>3. CASE IqEnd
  <2>0. iqPC = "run" /\ reopen = 0
    BY <1>0, <1>3 DEF IqEnd, PhaseInv
  <2>1. CASE IsRecording
    BY <1>3, <2>1, FinalizeFacts DEF IqEnd
  <2>2. CASE ~IsRecording
    BY <1>3, <2>0, <2>2 DEF IqEnd, IsRecording
  <2>. QED BY <2>1, <2>2
<1>. QED BY <1>1, <1>2, <1>3

LEMMA WindowsKept ==
  ASSUME RecordingsInv, [Next]_vars
  PROVE  WindowsInv'
<1>0. /\ TypeOK /\ StopInv /\ PhaseInv /\ CallInv /\ QueueInv /\ WindowsInv
      /\ opened \in Nat /\ input \in Nat /\ open \subseteq 1 .. opened /\ 1 .. opened \subseteq Windows
      /\ \A w \in Windows : beganAt[w] \in Nat /\ endedAt[w] \in Nat
  BY Sizes DEF RecordingsInv, RInv
<1>. DEFINE After(w) == IF w \in open' THEN input' ELSE endedAt'[w]
            InOrder(q) == \A i, j \in DOMAIN q :
               i < j /\ q[i].kind = "open" /\ q[j].kind = "open" => q[i].wid < q[j].wid
            Before(q, t, o) == \A i \in DOMAIN q :
               q[i].kind = "open" /\ t = Opening(o) => q[i].wid < o
\* The five parts of the invariant.
<1>1. ASSUME \A w \in 1 .. opened' : beganAt'[w] <= input' /\ After(w) <= input',
             \A v, w \in 1 .. opened' : v < w => After(v) <= beganAt'[w],
             InOrder(iqQ'), Before(iqQ', todo', opened'),
             \A v \in Started', w \in ToStart' : v < w,
             rec' # NotRecording => rec'.wid \in Started',
             reopen' # 0 => reopen' \in Started'
      PROVE  WindowsInv'
  BY <1>1 DEF WindowsInv, EndOf, IsRecording, NotRecording, Opening, ToIq
<1>2. ASSUME UNCHANGED <<input, opened, open, beganAt, endedAt>>
      PROVE  /\ \A w \in 1 .. opened' : beganAt'[w] <= input' /\ After(w) <= input'
             /\ \A v, w \in 1 .. opened' : v < w => After(v) <= beganAt'[w]
  BY <1>0, <1>2 DEF WindowsInv, EndOf
<1>3. ASSUME Started' = Started, UNCHANGED <<rec, reopen>>
      PROVE  /\ rec' # NotRecording => rec'.wid \in Started'
             /\ reopen' # 0 => reopen' \in Started'
  BY <1>0, <1>3 DEF WindowsInv, IsRecording
<1>4. ASSUME ~IqStep, ~BeginWindow
      PROVE  Started' = Started /\ \A v \in Started', w \in ToStart' : v < w
  BY <1>0, <1>4, StartsStay DEF WindowsInv
\* The queue of the recorder grows by a message.
<1>5. ASSUME NEW m \in IqMsg, iqQ' = Append(iqQ, m), opened' = opened,
             todo' = todo \/ \A w : todo' # Opening(w),
             \/ m.kind # "open"
             \/ m.wid = opened /\ todo = Opening(opened) /\ \A w : todo' # Opening(w)
      PROVE  InOrder(iqQ') /\ Before(iqQ', todo', opened')
  <2>1. PICK q : q = iqQ'
    OBVIOUS
  <2>2. /\ DOMAIN q = 1 .. Len(iqQ) + 1 /\ DOMAIN iqQ = 1 .. Len(iqQ) /\ Len(iqQ) \in Nat
        /\ \A i \in DOMAIN iqQ : q[i] = iqQ[i]
        /\ q[Len(iqQ) + 1] = m
    BY <1>0, <1>5, <2>1, Sizes, Appended
  <2>3. ASSUME NEW i \in DOMAIN q, NEW j \in DOMAIN q, i < j, q[i].kind = "open", q[j].kind = "open"
        PROVE  q[i].wid < q[j].wid
    <3>1. i \in DOMAIN iqQ /\ q[i] = iqQ[i]
      BY <2>2, <2>3
    <3>2. CASE j \in DOMAIN iqQ
      BY <1>0, <2>2, <2>3, <3>1, <3>2 DEF WindowsInv
    <3>3. CASE j = Len(iqQ) + 1
      BY <1>0, <1>5, <2>2, <2>3, <3>1, <3>3 DEF WindowsInv
    <3>. QED BY <2>2, <3>2, <3>3
  <2>4. ASSUME NEW i \in DOMAIN q, q[i].kind = "open", todo' = Opening(opened)
        PROVE  q[i].wid < opened
    <3>1. m.kind # "open" /\ todo = Opening(opened)
      BY <1>5, <2>4
    <3>2. i \in DOMAIN iqQ /\ q[i] = iqQ[i]
      BY <2>2, <2>4, <3>1
    <3>. QED BY <1>0, <2>4, <3>1, <3>2 DEF WindowsInv
  <2>. QED BY <1>5, <2>1, <2>3, <2>4
<1>6. ASSUME iqQ' = iqQ, opened' = opened, todo' = todo \/ \A w : todo' # Opening(w)
      PROVE  InOrder(iqQ') /\ Before(iqQ', todo', opened')
  BY <1>0, <1>6 DEF WindowsInv
<1>7. CASE UNCHANGED <<iqQ, input, todo, opened, open, beganAt, endedAt, rec, reopen>>
           /\ ~IqStep /\ ~BeginWindow
  BY <1>1, <1>2, <1>3, <1>4, <1>6, <1>7
<1>8. CASE TakeChunk
  <2>1. /\ UNCHANGED <<todo, opened, open, beganAt, endedAt, rec, reopen>> /\ input' = input + 1
        /\ dsp = "wait"
    BY <1>8 DEF TakeChunk, recVars
  <2>2. ~IqStep /\ ~BeginWindow
    BY <1>8, <2>1 DEF IqStep, dspVars, BeginWindow, Calls
  <2>3. ASSUME NEW w \in 1 .. opened
        PROVE  beganAt'[w] <= input' /\ After(w) <= input'
    <3>1. beganAt[w] \in Nat /\ endedAt[w] \in Nat /\ beganAt[w] <= input /\ EndOf(w) <= input
      BY <1>0 DEF WindowsInv
    <3>. QED BY <1>0, <2>1, <3>1 DEF EndOf
  <2>4. ASSUME NEW v \in 1 .. opened, NEW w \in 1 .. opened, v < w PROVE After(v) <= beganAt'[w]
    <3>1. v \notin open
      <4>1. open \subseteq {opened}
        BY <1>0, <2>1 DEF StopInv
      <4>. QED BY <1>0, <2>4, <4>1
    <3>2. EndOf(v) <= beganAt[w]
      BY <1>0, <2>4 DEF WindowsInv
    <3>. QED BY <2>1, <3>1, <3>2 DEF EndOf
  <2>5. InOrder(iqQ') /\ Before(iqQ', todo', opened')
    <3>1. PICK m : m = [kind |-> "iq", wid |-> 0, n |-> input + 1]
      OBVIOUS
    <3>2. m \in IqMsg /\ m.kind # "open"
      BY <1>0, <3>1, RecordingConstants DEF IqMsg
    <3>3. CASE iqQ' = Append(iqQ, m)
      BY <1>5, <2>1, <3>2, <3>3
    <3>4. CASE iqQ' = iqQ
      BY <1>6, <2>1, <3>4
    <3>. QED BY <1>8, <3>1, <3>3, <3>4 DEF TakeChunk, PushSamples
  <2>6. Started' = Started /\ \A v \in Started', w \in ToStart' : v < w
    BY <1>4, <2>2
  <2>7. /\ rec' # NotRecording => rec'.wid \in Started'
        /\ reopen' # 0 => reopen' \in Started'
    BY <1>3, <2>1, <2>6
  <2>. QED BY <1>1, <2>1, <2>3, <2>4, <2>5, <2>6, <2>7
<1>9. CASE DspSend
  <2>1. UNCHANGED <<input, opened, open, beganAt, endedAt, rec, reopen>>
    BY <1>9 DEF DspSend, recVars
  <2>2. ~IqStep /\ ~BeginWindow
    BY <1>9 DEF IqStep, dspVars, BeginWindow, Calls, DspSend
  <2>3. CASE iqQ' = iqQ /\ \A w : todo # Opening(w) /\ todo' # Opening(w)
    BY <1>1, <1>2, <1>3, <1>4, <1>6, <2>1, <2>2, <2>3
  <2>4. ASSUME NEW m \in IqMsg, iqQ' = Append(iqQ, m), \A w : todo' # Opening(w),
               \/ m.kind = "open" /\ m.wid = opened /\ todo = Opening(opened)
               \/ m.kind = "close"
        PROVE  WindowsInv'
    <3>1. InOrder(iqQ') /\ Before(iqQ', todo', opened')
      BY <1>5, <2>1, <2>4
    <3>. QED BY <1>1, <1>2, <1>3, <1>4, <2>1, <2>2, <3>1
  <2>. QED BY <1>0, <1>9, <2>3, <2>4, SentToIq
<1>10. CASE \E w \in Windows : PushBurst(w)
  <2>. PICK w \in Windows : PushBurst(w)
    BY <1>10
  <2>1. /\ UNCHANGED <<iqQ, input, opened, open, beganAt, endedAt, rec, reopen>> /\ todo = <<>>
        /\ todo' = Bringing(w, Len(pushed) + 1)
    BY DEF PushBurst, Calls, recVars, Bringing
  <2>2. todo' # todo /\ \A v : todo' # Opening(v)
    BY <2>1, Calling
  <2>3. ~IqStep /\ ~BeginWindow
    BY <2>1, <2>2 DEF IqStep, dspVars, BeginWindow, Calls, Opening
  <2>. QED BY <1>1, <1>2, <1>3, <1>4, <1>6, <2>1, <2>2, <2>3
<1>11. CASE \E w \in Windows : FinishWindow(w)
  <2>. PICK w \in Windows : FinishWindow(w)
    BY <1>11
  <2>1. /\ UNCHANGED <<iqQ, input, opened, beganAt, rec, reopen>> /\ todo = <<>>
        /\ todo' = Closing(w) /\ w \in open /\ open' = open \ {w}
        /\ endedAt' = [endedAt EXCEPT ![w] = input]
    BY DEF FinishWindow, Calls, recVars, Closing
  <2>2. todo' # todo /\ \A v : todo' # Opening(v)
    BY <2>1, Calling
  <2>3. ~IqStep /\ ~BeginWindow
    BY <2>1, <2>2 DEF IqStep, dspVars, BeginWindow, Calls, Opening
  <2>4. \A v \in Windows : After(v) = EndOf(v)
    BY <1>0, <2>1 DEF EndOf, TypeOK
  <2>5. /\ \A v \in 1 .. opened' : beganAt'[v] <= input' /\ After(v) <= input'
        /\ \A v, u \in 1 .. opened' : v < u => After(v) <= beganAt'[u]
    BY <1>0, <2>1, <2>4 DEF WindowsInv
  <2>. QED BY <1>1, <1>3, <1>4, <1>6, <2>1, <2>2, <2>3, <2>5
<1>12. CASE BeginWindow
  <2>1. /\ UNCHANGED <<iqQ, input, endedAt, rec, reopen>> /\ todo = <<>>
        /\ todo' = Opening(opened + 1) /\ opened' = opened + 1 /\ open' = open \cup {opened + 1}
        /\ beganAt' = [beganAt EXCEPT ![opened + 1] = input] /\ opened < MaxWindows
    BY <1>12 DEF BeginWindow, Calls, recVars, Opening
  <2>2. ~IqStep
    BY <1>0, <2>1 DEF IqStep, dspVars
  <2>3. opened + 1 \in Windows
    BY <1>0, <2>1, RecordingConstants DEF Windows
  <2>4. /\ beganAt'[opened + 1] = input /\ After(opened + 1) = input
        /\ \A w \in 1 .. opened : beganAt'[w] = beganAt[w] /\ After(w) = EndOf(w) /\ w # opened + 1
    <3>1. \A w \in 1 .. opened : w # opened + 1 /\ w \in Windows
      BY <1>0
    <3>. QED BY <1>0, <2>1, <2>3, <3>1 DEF EndOf, TypeOK
  <2>5. \A w \in 1 .. opened' : w \in 1 .. opened \/ w = opened + 1
    BY <1>0, <2>1
  <2>6. \A w \in 1 .. opened : beganAt[w] <= input /\ EndOf(w) <= input
    BY <1>0 DEF WindowsInv
  <2>7. \A w \in 1 .. opened' : beganAt'[w] <= input' /\ After(w) <= input'
    BY <1>0, <2>1, <2>4, <2>5, <2>6
  <2>8. ASSUME NEW v \in 1 .. opened', NEW w \in 1 .. opened', v < w
        PROVE  After(v) <= beganAt'[w]
    <3>1. v \in 1 .. opened
      BY <1>0, <2>1, <2>8
    <3>2. CASE w \in 1 .. opened
      BY <1>0, <2>4, <2>8, <3>1, <3>2 DEF WindowsInv
    <3>3. CASE w = opened + 1
      BY <2>4, <2>6, <3>1, <3>3
    <3>. QED BY <2>5, <3>2, <3>3
  <2>9. InOrder(iqQ') /\ Before(iqQ', todo', opened')
    <3>1. \A i \in DOMAIN iqQ : iqQ[i].kind = "open" => iqQ[i].wid \in 1 .. opened
      BY <1>0 DEF QueueInv
    <3>2. \A i \in DOMAIN iqQ : iqQ[i].kind = "open" => iqQ[i].wid < opened + 1
      BY <1>0, <3>1
    <3>. QED BY <1>0, <2>1, <3>2 DEF WindowsInv
  <2>10. Started' = Started /\ \A v \in Started', w \in ToStart' : v < w
    <3>1. /\ Started' = Started
          /\ ToStart' = ToStart \cup {opened + 1} \/ ToStart' = ToStart
      BY <2>2, StartsStay
    <3>2. \A v \in Started : v < opened + 1
      BY <1>0 DEF Started
    <3>. QED BY <1>0, <3>1, <3>2 DEF WindowsInv
  <2>11. /\ rec' # NotRecording => rec'.wid \in Started'
         /\ reopen' # 0 => reopen' \in Started'
    BY <1>3, <2>1, <2>10
  <2>. QED BY <1>1, <2>7, <2>8, <2>9, <2>10, <2>11
<1>13. CASE IqRefresh \/ IqEnd
  <2>1. UNCHANGED <<iqQ, input, todo, opened, open, beganAt, endedAt>>
    BY <1>13 DEF IqRefresh, IqEnd, dspVars
  <2>2. ~IqStep /\ ~BeginWindow
    BY <1>0, <1>13 DEF IqRefresh, IqEnd, dspVars, IqStep, BeginWindow, PhaseInv
  <2>3. Started' = Started /\ \A v \in Started', w \in ToStart' : v < w
    BY <1>4, <2>2
  <2>4. reopen = 0 \/ reopen \in Started
    BY <1>0 DEF WindowsInv
  <2>5. 0 \notin Windows
    BY DEF Windows
  <2>6. /\ rec' # NotRecording => rec'.wid \in Started'
        /\ reopen' # 0 => reopen' \in Started'
    BY <1>0, <1>13, <2>2, <2>3, <2>4, <2>5, RecorderMoves DEF WindowsInv
  <2>. QED BY <1>1, <1>2, <1>6, <2>1, <2>3, <2>6
<1>14. CASE IqStep
  <2>1. /\ UNCHANGED <<input, todo, opened, open, beganAt, endedAt>> /\ iqQ # <<>>
        /\ iqQ' = Tail(iqQ) /\ iqPC = "run"
    BY <1>14 DEF IqStep, dspVars
  <2>2. PICK q : q = iqQ'
    OBVIOUS
  <2>3. /\ DOMAIN q = 1 .. Len(iqQ) - 1 /\ iqQ[1] \in IqMsg
        /\ \A i \in DOMAIN q : i + 1 \in DOMAIN iqQ /\ q[i] = iqQ[i + 1]
    BY <1>0, <2>1, <2>2, Sizes, Shortened
  <2>4. InOrder(q)
    <3>1. \A i, j \in DOMAIN q : i < j => i + 1 < j + 1
      BY <2>3
    <3>. QED BY <1>0, <2>3, <3>1 DEF WindowsInv
  <2>5. Before(q, todo, opened)
    BY <1>0, <2>3 DEF WindowsInv
  <2>6. PICK m \in IqMsg : m = iqQ[1]
    BY <2>3
  <2>7. CASE m.kind = "open"
    <3>1. /\ ToStart' = ToStart \ {m.wid} /\ m.wid \in ToStart
          /\ Started' = Started \cup {m.wid}
          /\ \A w \in ToStart' : m.wid < w
      BY <1>14, <2>6, <2>7, StartsStep
    <3>2. \A v \in Started', w \in ToStart' : v < w
      BY <1>0, <3>1 DEF WindowsInv
    <3>3. /\ rec' # NotRecording => rec'.wid \in Started'
          /\ reopen' # 0 => reopen' \in Started'
      <4>1. ~IqRefresh
        BY <2>1 DEF IqRefresh
      <4>. QED BY <1>0, <1>14, <2>6, <3>1, <4>1, RecorderMoves DEF WindowsInv
    <3>. QED BY <1>1, <1>2, <2>1, <2>2, <2>4, <2>5, <3>2, <3>3
  <2>8. CASE m.kind # "open"
    <3>1. ToStart' = ToStart /\ Started' = Started
      BY <1>14, <2>6, <2>8, StartsStep
    <3>2. \A v \in Started', w \in ToStart' : v < w
      BY <1>0, <3>1 DEF WindowsInv
    <3>3. /\ rec' # NotRecording => rec'.wid \in Started'
          /\ reopen' # 0 => reopen' \in Started'
      <4>1. ~IqRefresh
        BY <2>1 DEF IqRefresh
      <4>. QED BY <1>0, <1>14, <2>6, <2>8, <3>1, <4>1, RecorderMoves DEF WindowsInv
    <3>. QED BY <1>1, <1>2, <2>1, <2>2, <2>4, <2>5, <3>2, <3>3
  <2>. QED BY <2>7, <2>8
<1>15. CASE UNCHANGED <<iqQ, dropped, input, todo, opened, open, beganAt, endedAt, rec, reopen>>
            /\ ~IqStep
  <2>1. ~BeginWindow
    BY <1>0, <1>15 DEF BeginWindow
  <2>. QED BY <1>7, <1>15, <2>1
<1>. QED
  BY <1>8, <1>9, <1>10, <1>11, <1>12, <1>13, <1>14, <1>15, OtherSteps

-----------------------------------------------------------------------------
(* What the recorder does to its ring, its recording and its files.         *)

\* The recording ends with the parts p; one of window w begins.
Ends(p) ==
    /\ IsRecording /\ rec' = NotRecording /\ ring' = ring
    /\ files' = IF p = <<>> THEN files ELSE Append(files, [wid |-> rec.wid, parts |-> p])
Starts(w) ==
    /\ ~IsRecording /\ rec' \in Recording /\ rec' # NotRecording
    /\ rec'.wid = w /\ rec'.parts = ring /\ rec'.hasTail = FALSE
    /\ ring' = <<>> /\ files' = files
Goes(p) ==
    /\ IsRecording /\ rec' \in Recording /\ rec' # NotRecording
    /\ rec'.wid = rec.wid /\ rec'.parts = p
    /\ ring' = ring /\ files' = files

TakesSample(n) ==
    /\ reopen = 0 /\ reopen' = 0 /\ Started' = Started
    /\ Arrived' = Arrived \cup {n} /\ n \notin Arrived /\ \A c \in Arrived : c < n
    /\ \/ /\ ~IsRecording /\ UNCHANGED <<rec, files>>
          /\ \/ ring' = Append(ring, n)
             \/ ring' = Tail(Append(ring, n)) /\ Len(Append(ring, n)) = RingLen + 1
       \/ Goes(Append(rec.parts, n)) /\ rec'.hasTail = rec.hasTail
       \/ /\ Ends(Append(rec.parts, n))
          /\ Len(Append(rec.parts, n)) >= RecordMax \/ rec.hasTail
TakesStart(w) ==
    /\ Arrived' = Arrived /\ Arrived = Taken(1, beganAt[w])
    /\ w \in ToStart /\ Started' = Started \cup {w}
    /\ \/ Ends(rec.parts) /\ reopen' = w
       \/ Starts(w) /\ reopen' = 0
    /\ reopen = 0
TakesEnd(w) ==
    /\ Arrived' = Arrived /\ Taken(1, endedAt[w]) \subseteq Arrived
    /\ Goes(rec.parts) /\ rec.wid = w
    /\ reopen = 0 /\ reopen' = 0 /\ Started' = Started
Reopens ==
    /\ Arrived' = Arrived /\ Started' = Started
    /\ reopen \in Started /\ reopen # 0 /\ reopen' = 0 /\ Starts(reopen)
LastFile ==
    /\ Arrived' = Arrived /\ Started' = Started
    /\ iqQ = <<>> /\ ~iqOpen /\ Ends(rec.parts) /\ reopen = 0 /\ reopen' = 0
NoFile ==
    /\ Arrived' = Arrived /\ Started' = Started
    /\ UNCHANGED <<rec, ring, files>> /\ reopen = 0 /\ reopen' = 0

LEMMA FinalizeEnds ==
  ASSUME NEW r, NEW next, NEW pc, Finalize(r, next, pc), IsRecording, r.wid = rec.wid
  PROVE  Ends(r.parts) /\ reopen' = next
BY DEF Finalize, Ends

LEMMA RecordingStarts ==
  ASSUME TypeOK, ~IsRecording, NEW w \in Windows, NewRecording(w), files' = files
  PROVE  Starts(w)
BY NewRecordingTypes DEF Starts

LEMMA Effects ==
  ASSUME RecordingsInv, IqStep \/ IqRefresh \/ IqEnd
  PROVE  \/ IqStep /\ \E n \in Chunks : TakesSample(n)
         \/ IqStep /\ \E w \in 1 .. opened : TakesStart(w)
         \/ IqStep /\ \E w \in (1 .. opened) \ open : TakesEnd(w)
         \/ Reopens
         \/ LastFile
         \/ NoFile
<1>0. /\ TypeOK /\ PhaseInv /\ QueueInv /\ WindowsInv
      /\ 1 .. opened \subseteq Windows /\ opened \in Nat
  BY Sizes DEF RecordingsInv, RInv
<1>1. CASE IqStep
  <2>0. reopen = 0
    BY <1>0, <1>1 DEF IqStep, PhaseInv
  <2>. PICK m \in IqMsg :
            /\ m = iqQ[1]
            /\ \/ /\ m.kind = "iq" /\ m.n \in Chunks /\ OnSamples(m.n)
                  /\ Arrived' = Arrived \cup {m.n} /\ m.n \notin Arrived
                  /\ \A c \in Arrived : c < m.n
               \/ /\ m.kind = "open" /\ m.wid \in 1 .. opened /\ OnOpen(m.wid)
                  /\ Arrived' = Arrived /\ Arrived = Taken(1, beganAt[m.wid])
               \/ /\ m.kind = "close" /\ m.wid \in (1 .. opened) \ open /\ OnClose(m.wid)
                  /\ Arrived' = Arrived /\ Taken(1, endedAt[m.wid]) \subseteq Arrived
    BY <1>1, Taking
  <2>1. CASE /\ m.kind = "iq" /\ m.n \in Chunks /\ OnSamples(m.n)
             /\ Arrived' = Arrived \cup {m.n} /\ m.n \notin Arrived
             /\ \A c \in Arrived : c < m.n
    <3>0. Started' = Started
      BY <1>1, <2>1, StartsStep
    <3>1. CASE ~IsRecording
      <4>1. Preroll(m.n)
        BY <2>1, <3>1 DEF OnSamples
      <4>2. /\ \/ ring' = Append(ring, m.n)
               \/ ring' = Tail(Append(ring, m.n)) /\ Len(Append(ring, m.n)) = RingLen + 1
            /\ UNCHANGED <<rec, reopen, files>>
        BY <1>0, <2>1, <4>1, PrerollFacts
      <4>. QED BY <1>1, <2>0, <2>1, <3>0, <3>1, <4>2 DEF TakesSample
    <3>2. CASE IsRecording
      <4>1. Record(m.n)
        BY <2>1, <3>2 DEF OnSamples
      <4>2. /\ Longer(m.n) \in Recording /\ Longer(m.n).wid = rec.wid
            /\ Longer(m.n).parts = Append(rec.parts, m.n) /\ Longer(m.n).hasTail = rec.hasTail
        BY <1>0, <2>1, <3>2, LongerFacts
      <4>3. CASE /\ \/ Len(Longer(m.n).parts) >= RecordMax
                    \/ Longer(m.n).hasTail
                 /\ Finalize(Longer(m.n), 0, "refresh")
        <5>1. Ends(Append(rec.parts, m.n)) /\ reopen' = 0
          BY <3>2, <4>2, <4>3, FinalizeEnds
        <5>. QED BY <1>1, <2>0, <2>1, <3>0, <4>2, <4>3, <5>1 DEF TakesSample
      <4>4. CASE /\ rec' = [Longer(m.n) EXCEPT !.since = 0] \/ rec' = Longer(m.n)
                 /\ UNCHANGED <<ring, files, reopen>>
        <5>1. /\ rec' \in Recording /\ rec'.wid = rec.wid
              /\ rec'.parts = Append(rec.parts, m.n) /\ rec'.hasTail = rec.hasTail
              /\ rec' # NotRecording
          BY <1>0, <2>1, <3>2, <4>4, RecordGoesOn
        <5>2. Goes(Append(rec.parts, m.n))
          BY <3>2, <4>4, <5>1 DEF Goes
        <5>. QED BY <1>1, <2>0, <2>1, <3>0, <4>4, <5>1, <5>2 DEF TakesSample
      <4>. QED BY <4>1, <4>3, <4>4, RecordCases
    <3>. QED BY <3>1, <3>2
  <2>2. CASE /\ m.kind = "open" /\ m.wid \in 1 .. opened /\ OnOpen(m.wid)
             /\ Arrived' = Arrived /\ Arrived = Taken(1, beganAt[m.wid])
    <3>0. m.wid \in ToStart /\ Started' = Started \cup {m.wid}
      BY <1>1, <2>2, StartsStep
    <3>1. CASE IsRecording
      <4>1. Ends(rec.parts) /\ reopen' = m.wid
        BY <2>2, <3>1, FinalizeEnds DEF OnOpen
      <4>. QED BY <1>1, <2>0, <2>2, <3>0, <4>1 DEF TakesStart
    <3>2. CASE ~IsRecording
      <4>1. NewRecording(m.wid) /\ reopen' = reopen /\ files' = files
        BY <2>2, <3>2 DEF OnOpen
      <4>2. Starts(m.wid)
        BY <1>0, <2>2, <3>2, <4>1, RecordingStarts
      <4>. QED BY <1>1, <2>0, <2>2, <3>0, <4>1, <4>2 DEF TakesStart
    <3>. QED BY <3>1, <3>2
  <2>3. CASE /\ m.kind = "close" /\ m.wid \in (1 .. opened) \ open /\ OnClose(m.wid)
             /\ Arrived' = Arrived /\ Taken(1, endedAt[m.wid]) \subseteq Arrived
    <3>0. Started' = Started
      BY <1>1, <2>3, StartsStep
    <3>1. /\ \/ rec' = rec
             \/ /\ IsRecording /\ rec.wid = m.wid /\ rec' \in Recording /\ rec' # NotRecording
                /\ rec'.wid = m.wid /\ rec'.parts = rec.parts
          /\ UNCHANGED <<ring, reopen, files>>
      BY <1>0, <2>3, OnCloseFacts
    <3>2. CASE rec' = rec
      BY <2>0, <2>3, <3>0, <3>1, <3>2 DEF NoFile
    <3>3. CASE /\ IsRecording /\ rec.wid = m.wid /\ rec' \in Recording /\ rec' # NotRecording
               /\ rec'.wid = m.wid /\ rec'.parts = rec.parts
      BY <1>1, <2>0, <2>3, <3>0, <3>1, <3>3 DEF TakesEnd, Goes
    <3>. QED BY <3>1, <3>2, <3>3
  <2>. QED BY <2>1, <2>2, <2>3
<1>2. CASE IqRefresh \/ IqEnd
  <2>1. ~IqStep /\ ~BeginWindow
    BY <1>0, <1>2 DEF IqRefresh, IqEnd, dspVars, IqStep, BeginWindow, PhaseInv
  <2>2. [Next]_vars
    BY <1>2 DEF Next, IqNext
  <2>3. Arrived' = Arrived /\ Started' = Started
    BY <2>1, <2>2, ArrivedStays, StartsStay
  <2>4. CASE IqRefresh
    <3>1. rec = NotRecording /\ reopen' = 0 /\ files' = files /\ reopen \in Nat
      BY <1>0, <2>4 DEF IqRefresh, PhaseInv, TypeOK
    <3>2. CASE reopen > 0
      <4>1. reopen \in Started /\ reopen \in Windows
        BY <1>0, <3>1, <3>2 DEF WindowsInv, Started
      <4>2. NewRecording(reopen)
        BY <2>4, <3>2 DEF IqRefresh
      <4>3. Starts(reopen)
        BY <1>0, <3>1, <4>1, <4>2, RecordingStarts DEF IsRecording
      <4>. QED BY <2>3, <3>1, <3>2, <4>1, <4>3 DEF Reopens
    <3>3. CASE ~(reopen > 0)
      <4>1. reopen = 0 /\ UNCHANGED <<rec, ring>>
        BY <2>4, <3>1, <3>3 DEF IqRefresh
      <4>. QED BY <2>3, <3>1, <4>1 DEF NoFile
    <3>. QED BY <3>2, <3>3
  <2>5. CASE IqEnd
    <3>1. reopen = 0 /\ iqQ = <<>> /\ ~iqOpen
      BY <1>0, <2>5 DEF IqEnd, PhaseInv
    <3>2. CASE IsRecording
      <4>1. Ends(rec.parts) /\ reopen' = 0
        BY <2>5, <3>2, FinalizeEnds DEF IqEnd
      <4>. QED BY <2>3, <3>1, <4>1 DEF LastFile
    <3>3. CASE ~IsRecording
      BY <2>3, <2>5, <3>1, <3>3 DEF IqEnd, NoFile
    <3>. QED BY <3>2, <3>3
  <2>. QED BY <1>2, <2>4, <2>5
<1>. QED BY <1>1, <1>2

\* A file is added at the end, and only when there is something in it.
LEMMA FilesGrow ==
  ASSUME TypeOK, NEW p \in Seq(Chunks), Ends(p)
  PROVE  /\ rec \in Recording
         /\ \A i \in DOMAIN files : i \in DOMAIN files' /\ files'[i] = files[i]
         /\ \A i \in DOMAIN files' :
               i \in DOMAIN files \/ (p # <<>> /\ files'[i].wid = rec.wid /\ files'[i].parts = p)
         /\ p # <<>> =>
               \E i \in DOMAIN files' : files'[i].wid = rec.wid /\ files'[i].parts = p
         /\ \A i, j \in DOMAIN files' : i \notin DOMAIN files /\ j \notin DOMAIN files => i = j
<1>0. rec \in Recording
  BY NotARecording DEF Ends
<1>1. CASE p = <<>>
  BY <1>0, <1>1 DEF Ends
<1>2. CASE p # <<>>
  <2>1. PICK f : f = [wid |-> rec.wid, parts |-> p]
    OBVIOUS
  <2>2. f \in [wid : Windows, parts : Seq(Chunks)] /\ f.wid = rec.wid /\ f.parts = p
    BY <1>0, <2>1 DEF Recording
  <2>3. PICK gs : gs = files'
    OBVIOUS
  <2>4. gs = Append(files, f) /\ files \in Seq([wid : Windows, parts : Seq(Chunks)])
    BY <1>2, <2>1, <2>3 DEF Ends, TypeOK
  <2>5. /\ DOMAIN gs = 1 .. Len(files) + 1 /\ DOMAIN files = 1 .. Len(files) /\ Len(files) \in Nat
        /\ \A i \in DOMAIN files : gs[i] = files[i]
        /\ gs[Len(files) + 1] = f
    BY <2>2, <2>4, Appended
  <2>6. \A i \in DOMAIN gs : i \in DOMAIN files \/ i = Len(files) + 1
    BY <2>5
  <2>7. Len(files) + 1 \in DOMAIN gs /\ \A i \in DOMAIN files : i \in DOMAIN gs
    BY <2>5
  <2>. QED BY <1>0, <1>2, <2>2, <2>3, <2>5, <2>6, <2>7
<1>. QED BY <1>1, <1>2

\* Parts of what has arrived, when a sample arrives.
LEMMA LatestAppend ==
  ASSUME NEW s \in Seq(Chunks), NEW A \in SUBSET Nat, Latest(s, A), NEW n \in Chunks,
         \A c \in A : c < n, NEW t, t = Append(s, n), NEW B, B = A \cup {n}
  PROVE  Latest(t, B) /\ ToSet(t) = ToSet(s) \cup {n} /\ t \in Seq(Chunks) /\ t # <<>>
<1>0. t \in Seq(Chunks) /\ t # <<>>
  BY AppendProperties
<1>1. ToSet(Append(s, n)) = ToSet(s) \cup {n}
  BY AppendedSet
<1>2. s \in Seq(Nat) /\ n \in Nat
  <2>1. Chunks \subseteq Nat
    BY DEF Chunks
  <2>2. DOMAIN s = 1 .. Len(s) /\ Len(s) \in Nat /\ s \in [1 .. Len(s) -> Chunks]
    BY LenProperties
  <2>3. s \in [1 .. Len(s) -> Nat]
    BY <2>1, <2>2
  <2>. QED BY <2>1, <2>2, <2>3, IsSeq
<1>3. Increasing(Append(s, n))
  BY <1>2, IncreasingAppend DEF Latest
<1>4. ASSUME NEW c \in A \cup {n}, NEW x \in ToSet(s) \cup {n}, x <= c
      PROVE  c \in ToSet(s) \cup {n}
  <2>1. CASE c \in A /\ x = n
    <3>1. c < n /\ c \in Nat
      BY <2>1
    <3>. QED BY <1>2, <1>4, <2>1, <3>1
  <2>2. CASE c \in A /\ x \in ToSet(s)
    BY <1>4, <2>2 DEF Latest
  <2>. QED BY <1>4, <2>1, <2>2
<1>. QED BY <1>0, <1>1, <1>3, <1>4 DEF Latest

LEMMA LatestTail ==
  ASSUME NEW s \in Seq(Chunks), s # <<>>, NEW A, Latest(s, A)
  PROVE  /\ Latest(Tail(s), A) /\ ToSet(s) = ToSet(Tail(s)) \cup {Head(s)}
         /\ \A y \in ToSet(s) : Head(s) <= y
<1>1. PICK t : t = Tail(s)
  OBVIOUS
<1>2. ToSet(s) = ToSet(t) \cup {Head(s)} /\ Head(s) \in Chunks
  BY <1>1, Shortened
<1>3. s \in Seq(Nat) /\ \A c \in Chunks : c \in Nat
  <2>1. Chunks \subseteq Nat
    BY DEF Chunks
  <2>2. DOMAIN s = 1 .. Len(s) /\ Len(s) \in Nat /\ s \in [1 .. Len(s) -> Chunks]
    BY LenProperties
  <2>3. s \in [1 .. Len(s) -> Nat]
    BY <2>1, <2>2
  <2>. QED BY <2>1, <2>2, <2>3, IsSeq
<1>4. /\ Increasing(t) /\ \A y \in ToSet(t) : Head(s) < y
  BY <1>1, <1>3, IncreasingTail DEF Latest
<1>5. \A y \in ToSet(s) : y \in Chunks
  BY LenProperties DEF ToSet
<1>6. ASSUME NEW c \in A, NEW x \in ToSet(t), x <= c PROVE c \in ToSet(t)
  <2>1. c \in ToSet(s)
    BY <1>2, <1>6 DEF Latest
  <2>2. c # Head(s)
    <3>1. Head(s) < x /\ x \in Nat /\ Head(s) \in Nat
      BY <1>2, <1>3, <1>4, <1>5, <1>6
    <3>. QED BY <1>6, <3>1
  <2>. QED BY <1>2, <2>1, <2>2
<1>7. \A y \in ToSet(s) : Head(s) <= y
  BY <1>2, <1>3, <1>4, <1>5
<1>. QED BY <1>1, <1>2, <1>4, <1>6, <1>7 DEF Latest

LEMMA LatestUnbroken ==
  ASSUME NEW s, s # <<>>, NEW A, Latest(s, A)
  PROVE  Unbroken(s, A)
BY DEF Latest, Unbroken

LEMMA UnbrokenStays ==
  ASSUME NEW p \in Seq(Chunks), NEW A, Unbroken(p, A), NEW n \in Chunks, \A c \in A : c < n,
         NEW B, B = A \cup {n}
  PROVE  Unbroken(p, B)
<1>1. \A y \in ToSet(p) : y \in Chunks /\ y < n
  <2>1. \A y \in ToSet(p) : y \in Chunks
    BY LenProperties DEF ToSet
  <2>. QED BY <2>1 DEF Unbroken
<1>2. \A y \in ToSet(p) : y \in Int /\ ~(n <= y)
  BY <1>1 DEF Chunks
<1>. QED BY <1>2 DEF Unbroken

-----------------------------------------------------------------------------
(* The files are stretches of the input.                                    *)

LEMMA PartsTyped ==
  ASSUME TypeOK
  PROVE  /\ ring \in Seq(Chunks) /\ (IsRecording => rec.parts \in Seq(Chunks))
         /\ \A i \in DOMAIN files : files[i].parts \in Seq(Chunks)
         /\ Arrived \in SUBSET Nat
<1>1. ring \in Seq(Chunks) /\ files \in Seq([wid : Windows, parts : Seq(Chunks)])
  BY DEF TypeOK
<1>2. \A i \in DOMAIN files : files[i] \in [wid : Windows, parts : Seq(Chunks)]
  BY <1>1, LenProperties, ZenonT(40)
<1>3. Arrived \subseteq 1 .. input
  BY DEF Arrived
<1>. QED BY <1>1, <1>2, <1>3, NotARecording

LEMMA PartsKept ==
  ASSUME RecordingsInv, [Next]_vars
  PROVE  PartsInv'
<1>0. TypeOK /\ PhaseInv /\ PartsInv
  BY DEF RecordingsInv, RInv
<1>. PICK A : A = Arrived'
  OBVIOUS
<1>. PICK g : g = ring'
  OBVIOUS
<1>. PICK r : r = rec'
  OBVIOUS
<1>. PICK fs : fs = files'
  OBVIOUS
<1>1. ASSUME Latest(g, A),
             r # NotRecording => Latest(r.parts, A),
             \A i \in DOMAIN fs :
                /\ Unbroken(fs[i].parts, A)
                /\ ToSet(fs[i].parts) \cap ToSet(g) = {}
                /\ r # NotRecording => ToSet(fs[i].parts) \cap ToSet(r.parts) = {},
             \A i, j \in DOMAIN fs : i # j => ToSet(fs[i].parts) \cap ToSet(fs[j].parts) = {}
      PROVE  PartsInv'
  <2>1. Latest(ring, Arrived)'
    BY <1>1 DEF Latest, Increasing, ToSet
  <2>2. (IsRecording => Latest(rec.parts, Arrived))'
    BY <1>1 DEF IsRecording, NotRecording, Latest, Increasing, ToSet
  <2>3. (\A i \in DOMAIN files : Unbroken(files[i].parts, Arrived))'
    BY <1>1 DEF Unbroken, Increasing, ToSet
  <2>4. (\A i \in DOMAIN files :
            /\ ToSet(files[i].parts) \cap ToSet(ring) = {}
            /\ IsRecording => ToSet(files[i].parts) \cap ToSet(rec.parts) = {})'
    BY <1>1 DEF IsRecording, NotRecording, ToSet
  <2>5. (\A i, j \in DOMAIN files :
            i # j => ToSet(files[i].parts) \cap ToSet(files[j].parts) = {})'
    BY <1>1 DEF ToSet
  <2>. QED BY <2>1, <2>2, <2>3, <2>4, <2>5 DEF PartsInv
<1>2. /\ Latest(ring, Arrived)
      /\ IsRecording => Latest(rec.parts, Arrived)
      /\ \A i \in DOMAIN files :
            /\ Unbroken(files[i].parts, Arrived)
            /\ ToSet(files[i].parts) \subseteq Arrived
            /\ ToSet(files[i].parts) \cap ToSet(ring) = {}
            /\ IsRecording => ToSet(files[i].parts) \cap ToSet(rec.parts) = {}
      /\ \A i, j \in DOMAIN files :
            i # j => ToSet(files[i].parts) \cap ToSet(files[j].parts) = {}
  BY <1>0 DEF PartsInv, Unbroken
<1>3. /\ ring \in Seq(Chunks) /\ (IsRecording => rec.parts \in Seq(Chunks))
      /\ \A i \in DOMAIN files : files[i].parts \in Seq(Chunks)
      /\ Arrived \in SUBSET Nat
  BY <1>0, PartsTyped
<1>. PICK B : B = Arrived
  OBVIOUS
\* The parts s of what had arrived are longer by a sample that arrives.
<1>3a. ASSUME NEW s \in Seq(Chunks), Latest(s, B), NEW n \in Chunks, TakesSample(n),
              NEW t, t = Append(s, n)
       PROVE  Latest(t, A) /\ ToSet(t) = ToSet(s) \cup {n} /\ t \in Seq(Chunks) /\ t # <<>>
  <2>1. A = B \cup {n} /\ B \in SUBSET Nat /\ \A c \in B : c < n
    BY <1>3, <1>3a DEF TakesSample
  <2>. QED BY <1>3a, <2>1, LatestAppend, ZenonT(40)
<1>4. CASE UNCHANGED <<rec, ring, files>> /\ Arrived' = Arrived
  BY <1>1, <1>2, <1>4 DEF IsRecording
\* The recording ends with what is the latest.
<1>5. ASSUME NEW p \in Seq(Chunks), Ends(p), Latest(p, A), Arrived \subseteq A,
             \A i \in DOMAIN files :
                Unbroken(files[i].parts, A) /\ ToSet(files[i].parts) \cap ToSet(p) = {}
      PROVE  PartsInv'
  <2>1. ring = <<>> /\ g = <<>> /\ r = NotRecording
    BY <1>0, <1>5 DEF Ends, PhaseInv
  <2>2. ToSet(g) = {} /\ Latest(g, A)
    BY <2>1, NothingIn DEF Latest
  <2>3. ASSUME NEW i \in DOMAIN fs
        PROVE  /\ Unbroken(fs[i].parts, A)
               /\ i \in DOMAIN files \/ fs[i].parts = p
    <3>1. CASE i \in DOMAIN files
      BY <1>0, <1>5, <3>1, FilesGrow
    <3>2. CASE p # <<>> /\ fs[i].parts = p
      BY <1>5, <3>2, LatestUnbroken
    <3>. QED BY <1>0, <1>5, <3>1, <3>2, FilesGrow
  <2>4. ASSUME NEW i \in DOMAIN fs, NEW j \in DOMAIN fs, i # j
        PROVE  ToSet(fs[i].parts) \cap ToSet(fs[j].parts) = {}
    <3>1. \A k \in DOMAIN files : fs[k] = files[k]
      BY <1>0, <1>5, FilesGrow
    <3>2. i \in DOMAIN files \/ j \in DOMAIN files
      BY <1>0, <1>5, <2>4, FilesGrow
    <3>. QED BY <1>2, <1>5, <2>3, <2>4, <3>1, <3>2
  <2>. QED BY <1>1, <2>1, <2>2, <2>3, <2>4
<1>6. CASE \E n \in Chunks : TakesSample(n)
  <2>. PICK n \in Chunks : TakesSample(n)
    BY <1>6
  <2>1. A = Arrived \cup {n} /\ n \notin Arrived /\ \A c \in Arrived : c < n
    BY DEF TakesSample
  <2>2. \A i \in DOMAIN files : Unbroken(files[i].parts, A) /\ n \notin ToSet(files[i].parts)
    <3>1. ASSUME NEW i \in DOMAIN files, NEW p, p = files[i].parts PROVE Unbroken(p, A)
      BY <1>2, <1>3, <2>1, <3>1, UnbrokenStays
    <3>. QED BY <1>2, <2>1, <3>1
  <2>3. CASE /\ ~IsRecording /\ UNCHANGED <<rec, files>>
             /\ \/ ring' = Append(ring, n)
                \/ ring' = Tail(Append(ring, n)) /\ Len(Append(ring, n)) = RingLen + 1
    <3>1. PICK all : all = Append(ring, n)
      OBVIOUS
    <3>2. /\ Latest(all, A) /\ ToSet(all) = ToSet(ring) \cup {n}
          /\ all \in Seq(Chunks) /\ all # <<>>
      BY <1>2, <1>3, <1>3a, <3>1
    <3>3. CASE g = all
      BY <1>1, <1>2, <2>2, <2>3, <3>2, <3>3 DEF IsRecording
    <3>4. CASE g = Tail(all)
      <4>1. Latest(g, A) /\ ToSet(all) = ToSet(g) \cup {Head(all)}
        BY <3>2, <3>4, LatestTail
      <4>. QED BY <1>1, <1>2, <2>2, <2>3, <3>2, <4>1 DEF IsRecording
    <3>. QED BY <2>3, <3>1, <3>3, <3>4
  <2>4. CASE Goes(Append(rec.parts, n))
    <3>1. /\ IsRecording /\ r.parts = Append(rec.parts, n) /\ g = ring /\ fs = files
      BY <2>4 DEF Goes
    <3>2. Latest(r.parts, A) /\ ToSet(r.parts) = ToSet(rec.parts) \cup {n}
      <4>1. PICK s : s = rec.parts
        OBVIOUS
      <4>2. PICK t : t = r.parts
        OBVIOUS
      <4>3. Latest(t, A) /\ ToSet(t) = ToSet(s) \cup {n}
        BY <1>2, <1>3, <1>3a, <3>1, <4>1, <4>2
      <4>. QED BY <4>1, <4>2, <4>3
    <3>3. ring = <<>>
      BY <1>0, <3>1 DEF PhaseInv
    <3>4. ToSet(g) = {} /\ Latest(g, A)
      BY <3>1, <3>3, NothingIn DEF Latest
    <3>. QED BY <1>1, <1>2, <2>2, <3>1, <3>2, <3>4
  <2>5. CASE Ends(Append(rec.parts, n))
    <3>1. PICK p : p = Append(rec.parts, n)
      OBVIOUS
    <3>2. IsRecording
      BY <2>5 DEF Ends
    <3>3. Latest(p, A) /\ ToSet(p) = ToSet(rec.parts) \cup {n} /\ p \in Seq(Chunks)
      <4>1. PICK s : s = rec.parts
        OBVIOUS
      <4>2. Latest(p, A) /\ ToSet(p) = ToSet(s) \cup {n} /\ p \in Seq(Chunks)
        BY <1>2, <1>3, <1>3a, <3>1, <3>2, <4>1
      <4>. QED BY <4>1, <4>2
    <3>4. \A i \in DOMAIN files : ToSet(files[i].parts) \cap ToSet(p) = {}
      BY <1>2, <2>2, <3>2, <3>3
    <3>. QED BY <1>5, <2>1, <2>2, <2>5, <3>1, <3>3, <3>4
  <2>. QED BY <2>3, <2>4, <2>5 DEF TakesSample
<1>7. ASSUME Ends(rec.parts), Arrived' = Arrived
      PROVE  PartsInv'
  <2>1. IsRecording
    BY <1>7 DEF Ends
  <2>. QED BY <1>2, <1>3, <1>5, <1>7, <2>1
<1>8. ASSUME NEW w, Starts(w), Arrived' = Arrived
      PROVE  PartsInv'
  <2>1. r.parts = ring /\ g = <<>> /\ fs = files
    BY <1>8 DEF Starts
  <2>2. ToSet(g) = {} /\ Latest(g, A)
    BY <2>1, NothingIn DEF Latest
  <2>. QED BY <1>1, <1>2, <1>8, <2>1, <2>2
<1>9. CASE \E w \in 1 .. opened : TakesStart(w)
  BY <1>7, <1>8, <1>9 DEF TakesStart
<1>10. CASE \E w \in (1 .. opened) \ open : TakesEnd(w)
  BY <1>1, <1>2, <1>10 DEF TakesEnd, Goes
<1>11. CASE Reopens \/ LastFile \/ NoFile
  BY <1>4, <1>7, <1>8, <1>11 DEF Reopens, LastFile, NoFile
<1>12. CASE IqStep \/ IqRefresh \/ IqEnd
  BY <1>6, <1>9, <1>10, <1>11, <1>12, Effects
<1>13. CASE ~IqStep /\ UNCHANGED <<rec, ring, files>>
  BY <1>4, <1>13, ArrivedStays
<1>. QED BY <1>12, <1>13, OtherSteps

-----------------------------------------------------------------------------
(* What has arrived is in a file, in the recording or in the ring, unless    *)
(* more than a ring has come since.                                         *)

LEMMA AsManyAsLong ==
  ASSUME NEW s \in Seq(Nat), Increasing(s), NEW T, IsFiniteSet(T), ToSet(s) \subseteq T
  PROVE  Len(s) <= Cardinality(T)
<1>1. s \in [1 .. Len(s) -> Nat] /\ DOMAIN s = 1 .. Len(s) /\ Len(s) \in Nat
  BY LenProperties
<1>2. \A i \in DOMAIN s : s[i] \in T
  BY DEF ToSet
<1>3. s \in [1 .. Len(s) -> T]
  BY <1>1, <1>2
<1>4. \A i, j \in 1 .. Len(s) : s[i] = s[j] => i = j
  <2>1. ASSUME NEW i \in 1 .. Len(s), NEW j \in 1 .. Len(s), s[i] = s[j] PROVE i = j
    <3>1. ~(i < j) /\ ~(j < i)
      BY <1>1, <2>1 DEF Increasing
    <3>. QED BY <1>1, <3>1
  <2>. QED BY <2>1
<1>4a. PICK D : D = 1 .. Len(s)
  OBVIOUS
<1>5. s \in Injection(D, T)
  BY <1>3, <1>4, <1>4a DEF Injection, IsInjective
<1>6. Cardinality(D) <= Cardinality(T)
  <2>1. IsFiniteSet(T)
    OBVIOUS
  <2>2. \E f : f \in Injection(D, T)
    BY <1>5
  <2>. QED BY <2>1, <2>2, FS_Injection
<1>7. Cardinality(D) = Len(s)
  <2>1. \A k \in Nat : Cardinality(1 .. k) = IF 1 > k THEN 0 ELSE k - 1 + 1
    BY FS_Interval
  <2>2. \A k \in Nat : Cardinality(1 .. k) = k
    BY <2>1
  <2>. QED BY <1>1, <1>4a, <2>2
<1>. QED BY <1>6, <1>7

\* Where a sample is.
Held(fs, r, c) ==
    \/ \E i \in DOMAIN fs : c \in ToSet(fs[i].parts)
    \/ r # NotRecording /\ c \in ToSet(r.parts)

LEMMA HeldOn ==
  ASSUME TypeOK, NEW p \in Seq(Chunks), Ends(p), NEW c, Held(files, rec, c),
         ToSet(rec.parts) \subseteq ToSet(p)
  PROVE  Held(files', rec', c)
<1>1. CASE \E i \in DOMAIN files : c \in ToSet(files[i].parts)
  <2>. PICK i \in DOMAIN files : c \in ToSet(files[i].parts)
    BY <1>1
  <2>1. i \in DOMAIN files' /\ files'[i] = files[i]
    BY FilesGrow
  <2>. QED BY <2>1 DEF Held
<1>2. CASE c \in ToSet(rec.parts)
  <2>1. c \in ToSet(p) /\ p # <<>>
    BY <1>2, NothingIn
  <2>2. PICK i \in DOMAIN files' : files'[i].parts = p
    BY <2>1, FilesGrow
  <2>. QED BY <2>1, <2>2 DEF Held
<1>. QED BY <1>1, <1>2 DEF Held

\* What a file or the recording has stays in one or the other, and a recording
\* that begins has the ring.
LEMMA HeldKept ==
  ASSUME RecordingsInv, [Next]_vars
  PROVE  /\ \A c : Held(files, rec, c) => Held(files', rec', c)
         /\ \A w : Starts(w) => \A c \in ToSet(ring) : Held(files', rec', c)
         /\ \A n \in Chunks : TakesSample(n) /\ IsRecording => Held(files', rec', n)
<1>0. TypeOK
  BY DEF RecordingsInv
<1>1. ring \in Seq(Chunks) /\ (IsRecording => rec.parts \in Seq(Chunks)) /\ Arrived \in SUBSET Nat
  BY <1>0, PartsTyped
<1>2. ASSUME NEW w, Starts(w)
      PROVE  /\ \A c : Held(files, rec, c) => Held(files', rec', c)
             /\ \A c \in ToSet(ring) : Held(files', rec', c)
  BY <1>2 DEF Starts, Held, IsRecording
<1>3. ASSUME NEW n \in Chunks, TakesSample(n), IsRecording
      PROVE  /\ \A c : Held(files, rec, c) => Held(files', rec', c)
             /\ Held(files', rec', n)
  <2>. PICK p : p = Append(rec.parts, n)
    OBVIOUS
  <2>. PICK s : s = rec.parts
    OBVIOUS
  <2>1. p = Append(s, n) /\ s \in Seq(Chunks)
    BY <1>1, <1>3
  <2>2. ToSet(p) = ToSet(s) \cup {n} /\ p \in Seq(Chunks) /\ p # <<>>
    <3>1. ToSet(Append(s, n)) = ToSet(s) \cup {n}
      BY <2>1, AppendedSet
    <3>2. Append(s, n) \in Seq(Chunks) /\ Append(s, n) # <<>>
      BY <2>1, AppendProperties
    <3>. QED BY <2>1, <3>1, <3>2
  <2>3. CASE Goes(p)
    BY <2>2, <2>3 DEF Goes, Held
  <2>4. CASE Ends(p)
    <3>1. \A c : Held(files, rec, c) => Held(files', rec', c)
      BY <1>0, <2>2, <2>4, HeldOn
    <3>2. PICK i \in DOMAIN files' : files'[i].parts = p
      BY <1>0, <2>2, <2>4, FilesGrow
    <3>. QED BY <2>2, <3>1, <3>2 DEF Held
  <2>. QED BY <1>3, <2>3, <2>4 DEF TakesSample
<1>4. ASSUME NEW n \in Chunks, TakesSample(n), ~IsRecording
      PROVE  rec' = rec /\ files' = files
  BY <1>4 DEF TakesSample, Goes, Ends
<1>5. ASSUME Ends(rec.parts), NEW c, Held(files, rec, c)
      PROVE  Held(files', rec', c)
  <2>1. rec.parts \in Seq(Chunks)
    BY <1>1, <1>5 DEF Ends
  <2>. QED BY <1>0, <1>5, <2>1, HeldOn
<1>6. CASE rec' = rec /\ files' = files
  <2>1. \A w : ~Starts(w)
    BY <1>6 DEF Starts, IsRecording
  <2>2. \A n \in Chunks : ~(TakesSample(n) /\ IsRecording)
    <3>1. ASSUME NEW n \in Chunks, TakesSample(n), IsRecording PROVE FALSE
      <4>1. \E i \in Chunks : i = n /\ Held(files, rec, n)
        BY <1>3, <1>6, <3>1
      <4>2. \A c : Held(files, rec, c) => c \in Arrived
        BY DEF Held, RecordingsInv, RInv, PartsInv, Unbroken, Latest, IsRecording
      <4>. QED BY <3>1, <4>1, <4>2 DEF TakesSample
    <3>. QED BY <3>1
  <2>. QED BY <1>6, <2>1, <2>2
<1>7. ASSUME Ends(rec.parts)
      PROVE  ~\E w : Starts(w)
  BY <1>7 DEF Ends, Starts
<1>8. CASE IqStep \/ IqRefresh \/ IqEnd
  <2>1. \A c : Held(files, rec, c) => Held(files', rec', c)
    <3>1. CASE \E n \in Chunks : TakesSample(n)
      BY <1>3, <1>4, <3>1
    <3>2. CASE \E w : TakesStart(w)
      BY <1>2, <1>5, <3>2 DEF TakesStart
    <3>3. CASE \E w : TakesEnd(w)
      BY <3>3 DEF TakesEnd, Goes, Held
    <3>4. CASE Reopens \/ LastFile \/ NoFile
      BY <1>2, <1>5, <3>4 DEF Reopens, LastFile, NoFile
    <3>. QED BY <1>8, <3>1, <3>2, <3>3, <3>4, Effects
  <2>. QED BY <1>2, <1>3, <2>1
<1>. QED BY <1>6, <1>8, OtherSteps

LEMMA RingKept ==
  ASSUME RecordingsInv, [Next]_vars
  PROVE  RingInv'
<1>0. TypeOK /\ PhaseInv /\ PartsInv /\ RingInv
  BY DEF RecordingsInv, RInv
<1>. PICK A : A = Arrived'
  OBVIOUS
<1>. PICK B : B = Arrived
  OBVIOUS
<1>. PICK g : g = ring'
  OBVIOUS
<1>1. ASSUME \A c \in A : \/ Held(files', rec', c) \/ c \in ToSet(g)
                          \/ Cardinality({d \in A : c <= d}) > RingLen
      PROVE  RingInv'
  BY <1>1 DEF RingInv, Held, InFile, InRecording, IsRecording, NotRecording, ToSet
<1>2. \A c \in B : \/ Held(files, rec, c) \/ c \in ToSet(ring)
                   \/ Cardinality({d \in B : c <= d}) > RingLen
  BY <1>0 DEF RingInv, Held, InFile, InRecording, IsRecording
<1>3. /\ \A c : Held(files, rec, c) => Held(files', rec', c)
      /\ \A w : Starts(w) => \A c \in ToSet(ring) : Held(files', rec', c)
      /\ \A n \in Chunks : TakesSample(n) /\ IsRecording => Held(files', rec', n)
  BY HeldKept
<1>4. ASSUME A = B, \A c \in ToSet(ring) : Held(files', rec', c) \/ c \in ToSet(g)
      PROVE  RingInv'
  BY <1>1, <1>2, <1>3, <1>4
<1>5. ring \in Seq(Chunks) /\ B \in SUBSET Nat
  BY <1>0, PartsTyped
<1>6. ASSUME NEW S \in SUBSET Chunks PROVE IsFiniteSet(S)
  <2>1. IsFiniteSet(1 .. MaxChunks)
    BY RecordingConstants, FS_Interval
  <2>. QED BY <2>1, FS_Subset DEF Chunks
<1>7. A \subseteq Chunks /\ B \subseteq Chunks
  <2>1. TypeOK'
    BY TypeKept
  <2>2. input \in 0 .. MaxChunks /\ input' \in 0 .. MaxChunks
    BY <1>0, <2>1 DEF TypeOK
  <2>3. B \subseteq 1 .. input /\ A \subseteq 1 .. input'
    BY DEF Arrived
  <2>. QED BY <2>2, <2>3, RecordingConstants DEF Chunks
<1>8. ASSUME NEW n \in Chunks, TakesSample(n)
      PROVE  RingInv'
  <2>1. A = B \cup {n} /\ n \notin B /\ \A c \in B : c < n
    BY <1>8 DEF TakesSample
  <2>2. ASSUME NEW c \in B, Cardinality({d \in B : c <= d}) > RingLen
        PROVE  Cardinality({d \in A : c <= d}) > RingLen
    <3>. PICK S : S = {d \in B : c <= d}
      OBVIOUS
    <3>. PICK T : T = {d \in A : c <= d}
      OBVIOUS
    <3>1. S \in SUBSET T /\ IsFiniteSet(T) /\ IsFiniteSet(S)
      BY <1>6, <1>7, <2>1
    <3>2. Cardinality(S) <= Cardinality(T) /\ Cardinality(S) \in Nat /\ Cardinality(T) \in Nat
      BY <3>1, FS_Subset, FS_CardinalityType
    <3>. QED BY <2>2, <3>2, RecordingConstants
  <2>3. CASE IsRecording
    <3>1. ring = <<>>
      BY <1>0, <2>3 DEF PhaseInv
    <3>2. ToSet(ring) = {}
      BY <3>1, NothingIn
    <3>. QED BY <1>1, <1>2, <1>3, <1>8, <2>1, <2>2, <2>3, <3>2
  <2>4. CASE ~IsRecording
    <3>. PICK all : all = Append(ring, n)
      OBVIOUS
    <3>1. g = all \/ (g = Tail(all) /\ Len(all) = RingLen + 1)
      BY <1>8, <2>4 DEF TakesSample, Goes, Ends
    <3>2. /\ Latest(all, A) /\ ToSet(all) = ToSet(ring) \cup {n}
          /\ all \in Seq(Chunks) /\ all # <<>>
      <4>1. Latest(ring, B)
        BY <1>0 DEF PartsInv
      <4>. QED BY <1>5, <1>8, <2>1, <4>1, LatestAppend, ZenonT(40)
    <3>3. CASE g = all
      BY <1>1, <1>2, <1>3, <2>1, <2>2, <3>2, <3>3
    <3>4. CASE g = Tail(all) /\ Len(all) = RingLen + 1
      <4>1. ToSet(all) = ToSet(g) \cup {Head(all)} /\ \A y \in ToSet(all) : Head(all) <= y
        BY <3>2, <3>4, LatestTail
      <4>2. Cardinality({d \in A : Head(all) <= d}) > RingLen
        <5>. PICK T : T = {d \in A : Head(all) <= d}
          OBVIOUS
        <5>1. IsFiniteSet(T) /\ ToSet(all) \subseteq T
          BY <1>6, <1>7, <3>2, <4>1 DEF Latest
        <5>2. all \in Seq(Nat) /\ Increasing(all)
          <6>1. Chunks \subseteq Nat
            BY DEF Chunks
          <6>2. all \in [1 .. Len(all) -> Chunks] /\ Len(all) \in Nat
            BY <3>2, LenProperties
          <6>3. all \in [1 .. Len(all) -> Nat]
            BY <6>1, <6>2
          <6>. QED BY <3>2, <6>2, <6>3, IsSeq DEF Latest
        <5>3. Len(all) <= Cardinality(T) /\ Cardinality(T) \in Nat
          BY <5>1, <5>2, AsManyAsLong, FS_CardinalityType
        <5>4. RingLen \in Nat
          BY RecordingConstants
        <5>5. \A k \in Nat : RingLen + 1 <= k => k > RingLen
          BY <5>4
        <5>. QED BY <3>4, <5>3, <5>5
      <4>3. \A c \in ToSet(all) : c \in ToSet(g) \/ c = Head(all)
        BY <4>1
      <4>4. ASSUME NEW c \in A
            PROVE  \/ Held(files', rec', c) \/ c \in ToSet(g)
                   \/ Cardinality({d \in A : c <= d}) > RingLen
        <5>1. CASE c \in ToSet(all)
          BY <4>2, <4>3, <5>1
        <5>2. CASE c \notin ToSet(all)
          <6>1. c \in B /\ c \notin ToSet(ring)
            BY <2>1, <3>2, <5>2
          <6>. QED BY <1>2, <1>3, <2>2, <6>1
        <5>. QED BY <5>1, <5>2
      <4>. QED BY <1>1, <4>4
    <3>. QED BY <3>1, <3>3, <3>4
  <2>. QED BY <2>3, <2>4
<1>9. ASSUME NEW w, Starts(w), A = B
      PROVE  RingInv'
  BY <1>3, <1>4, <1>9
<1>10. ASSUME ring' = ring, A = B
       PROVE  RingInv'
  BY <1>4, <1>10
<1>11. CASE IqStep \/ IqRefresh \/ IqEnd
  <2>1. CASE \E w : TakesStart(w)
    BY <1>9, <1>10, <2>1 DEF TakesStart, Ends
  <2>2. CASE \E w : TakesEnd(w)
    BY <1>10, <2>2 DEF TakesEnd, Goes
  <2>3. CASE Reopens \/ LastFile \/ NoFile
    BY <1>9, <1>10, <2>3 DEF Reopens, LastFile, NoFile, Ends
  <2>. QED BY <1>8, <1>11, <2>1, <2>2, <2>3, Effects
<1>12. CASE ~IqStep /\ UNCHANGED <<rec, ring, files>>
  BY <1>10, <1>12, ArrivedStays
<1>. QED BY <1>11, <1>12, OtherSteps

-----------------------------------------------------------------------------
(* A broadcast is recorded with what came before it.                        *)

\* What was taken up to a moment does not change.
LEMMA PastStays ==
  ASSUME RecordingsInv, [Next]_vars
  PROVE  /\ \A w \in 1 .. opened : beganAt'[w] = beganAt[w]
         /\ \A a, b \in Nat : b <= input =>
               (\A c : c \in (a .. b) \ dropped' <=> c \in Taken(a, b))
         /\ dropped \subseteq dropped'
<1>0. TypeOK /\ opened \in Nat /\ input \in Nat /\ 1 .. opened \subseteq Windows
  BY Sizes DEF RecordingsInv
<1>1. CASE dropped' = dropped /\ beganAt' = beganAt
  BY <1>1 DEF Taken
<1>2. CASE TakeChunk
  <2>1. beganAt' = beganAt /\ (dropped' = dropped \/ dropped' = dropped \cup {input + 1})
    BY <1>2 DEF TakeChunk, PushSamples
  <2>2. \A a, b \in Nat : b <= input => input + 1 \notin a .. b
    BY <1>0
  <2>. QED BY <2>1, <2>2 DEF Taken
<1>3. CASE BeginWindow
  <2>1. dropped' = dropped /\ beganAt' = [beganAt EXCEPT ![opened + 1] = input]
    BY <1>3 DEF BeginWindow, Calls
  <2>2. \A w \in 1 .. opened : w # opened + 1 /\ w \in Windows
    BY <1>0
  <2>. QED BY <1>0, <2>1, <2>2 DEF Taken, TypeOK
<1>4. CASE DspSend \/ \E w \in Windows : PushBurst(w) \/ FinishWindow(w)
  BY <1>1, <1>4 DEF DspSend, PushBurst, FinishWindow, Calls
<1>5. CASE IqStep \/ IqRefresh \/ IqEnd
  BY <1>1, <1>5 DEF IqStep, IqRefresh, IqEnd, dspVars
<1>. QED BY <1>1, <1>2, <1>3, <1>4, <1>5, OtherSteps

LEMMA PrerollKept ==
  ASSUME RecordingsInv, [Next]_vars
  PROVE  PrerollInv'
<1>0. /\ TypeOK /\ PhaseInv /\ WindowsInv /\ RingInv /\ PrerollInv
      /\ opened \in Nat /\ input \in Nat /\ 1 .. opened \subseteq Windows
      /\ \A w \in Windows : beganAt[w] \in Nat
  BY Sizes DEF RecordingsInv, RInv
<1>1. ASSUME \A w \in Started' : \A c \in (1 .. beganAt'[w]) \ dropped' :
                Cardinality((c .. beganAt'[w]) \ dropped') <= RingLen => Held(files', rec', c)
      PROVE  PrerollInv'
  BY <1>1 DEF PrerollInv, Taken, Held, InFile, InRecording, IsRecording, NotRecording, ToSet
<1>2. \A w \in Started : \A c \in Taken(1, beganAt[w]) :
         Cardinality(Taken(c, beganAt[w])) <= RingLen => Held(files, rec, c)
  BY <1>0 DEF PrerollInv, Held, InFile, InRecording, IsRecording
<1>3. \A c : Held(files, rec, c) => Held(files', rec', c)
  BY HeldKept
<1>4. ASSUME NEW w \in 1 .. opened,
             \A c \in Taken(1, beganAt[w]) :
                Cardinality(Taken(c, beganAt[w])) <= RingLen => Held(files', rec', c)
      PROVE  \A c \in (1 .. beganAt'[w]) \ dropped' :
                Cardinality((c .. beganAt'[w]) \ dropped') <= RingLen => Held(files', rec', c)
  <2>1. beganAt'[w] = beganAt[w] /\ beganAt[w] \in Nat /\ beganAt[w] <= input
    BY <1>0, PastStays DEF WindowsInv
  <2>2. ASSUME NEW c \in (1 .. beganAt'[w]) \ dropped',
               Cardinality((c .. beganAt'[w]) \ dropped') <= RingLen
        PROVE  Held(files', rec', c)
    <3>1. c \in Taken(1, beganAt[w]) /\ c \in Nat
      <4>1. c \in (1 .. beganAt[w]) \ dropped' /\ c \in Nat
        BY <2>1, <2>2
      <4>. QED BY <2>1, <4>1, PastStays
    <3>2. (c .. beganAt'[w]) \ dropped' = Taken(c, beganAt[w])
      <4>1. \A d : d \in (c .. beganAt[w]) \ dropped' <=> d \in Taken(c, beganAt[w])
        BY <2>1, <3>1, PastStays
      <4>2. (c .. beganAt[w]) \ dropped' = Taken(c, beganAt[w])
        BY <4>1
      <4>. QED BY <2>1, <4>2
    <3>. QED BY <1>4, <2>2, <3>1, <3>2
  <2>. QED BY <2>2
<1>5. ASSUME NEW w \in Started, w \in 1 .. opened
      PROVE  \A c \in Taken(1, beganAt[w]) :
                Cardinality(Taken(c, beganAt[w])) <= RingLen => Held(files', rec', c)
  BY <1>2, <1>3
<1>6. CASE Started' = Started
  <2>1. \A w \in Started : w \in 1 .. opened
    BY DEF Started
  <2>. QED BY <1>1, <1>4, <1>5, <1>6, <2>1
<1>7. CASE \E v \in 1 .. opened : TakesStart(v)
  <2>. PICK v \in 1 .. opened : TakesStart(v)
    BY <1>7
  <2>1. Started' = Started \cup {v} /\ \A w \in Started' : w \in 1 .. opened
    BY DEF TakesStart, Started
  <2>2. ASSUME NEW c \in Taken(1, beganAt[v]), Cardinality(Taken(c, beganAt[v])) <= RingLen
        PROVE  Held(files', rec', c)
    <3>1. Arrived = Taken(1, beganAt[v]) /\ beganAt[v] \in Nat
      BY <1>0 DEF TakesStart
    <3>2. {d \in Arrived : c <= d} = Taken(c, beganAt[v])
      <4>1. c \in Nat /\ 1 <= c
        BY <2>2, <3>1 DEF Taken
      <4>2. \A d : d \in Arrived /\ c <= d <=> d \in Taken(c, beganAt[v])
        BY <3>1, <4>1 DEF Taken
      <4>. QED BY <4>2
    <3>3. Cardinality(Taken(c, beganAt[v])) \in Nat
      <4>1. IsFiniteSet(1 .. beganAt[v])
        BY <3>1, FS_Interval
      <4>2. Taken(c, beganAt[v]) \in SUBSET (1 .. beganAt[v])
        BY <2>2, <3>1 DEF Taken
      <4>3. IsFiniteSet(Taken(c, beganAt[v]))
        BY <4>1, <4>2, FS_Subset
      <4>. QED BY <4>3, FS_CardinalityType
    <3>4. ~(Cardinality({d \in Arrived : c <= d}) > RingLen)
      <4>1. RingLen \in Nat
        BY RecordingConstants
      <4>. QED BY <2>2, <3>2, <3>3, <4>1
    <3>5. Held(files, rec, c) \/ c \in ToSet(ring)
      BY <1>0, <2>2, <3>1, <3>4 DEF RingInv, Held, InFile, InRecording, IsRecording
    <3>6. CASE c \in ToSet(ring)
      <4>1. Starts(v)
        <5>1. ~IsRecording
          BY <1>0, <3>6, NothingIn DEF PhaseInv
        <5>. QED BY <5>1 DEF TakesStart, Ends
      <4>. QED BY <3>6, <4>1, HeldKept
    <3>. QED BY <1>3, <3>5, <3>6
  <2>. QED BY <1>1, <1>4, <1>5, <2>1, <2>2
<1>8. CASE IqStep \/ IqRefresh \/ IqEnd
  <2>1. (\E v \in 1 .. opened : TakesStart(v)) \/ Started' = Started
    BY <1>8, Effects DEF TakesSample, TakesEnd, Reopens, LastFile, NoFile
  <2>. QED BY <1>6, <1>7, <2>1
<1>9. CASE ~IqStep
  BY <1>6, <1>9, StartsStay
<1>. QED BY <1>8, <1>9

-----------------------------------------------------------------------------
(* A broadcast is recorded to its end.                                      *)

LEMMA FilesStay ==
  ASSUME RecordingsInv, [Next]_vars
  PROVE  \A i \in DOMAIN files : i \in DOMAIN files' /\ files'[i] = files[i]
<1>0. TypeOK
  BY DEF RecordingsInv
<1>1. CASE files' = files
  BY <1>1
<1>2. ASSUME NEW p \in Seq(Chunks), Ends(p)
      PROVE  \A i \in DOMAIN files : i \in DOMAIN files' /\ files'[i] = files[i]
  BY <1>0, <1>2, FilesGrow
<1>3. CASE Ends(rec.parts)
  <2>1. rec.parts \in Seq(Chunks)
    BY <1>0, <1>3, PartsTyped DEF Ends
  <2>. QED BY <1>2, <1>3, <2>1
<1>4. ASSUME NEW n \in Chunks, Ends(Append(rec.parts, n))
      PROVE  \A i \in DOMAIN files : i \in DOMAIN files' /\ files'[i] = files[i]
  <2>1. rec.parts \in Seq(Chunks)
    BY <1>0, <1>4, PartsTyped DEF Ends
  <2>2. Append(rec.parts, n) \in Seq(Chunks)
    BY <2>1, AppendProperties
  <2>. QED BY <1>2, <1>4, <2>2
<1>5. CASE IqStep \/ IqRefresh \/ IqEnd
  <2>1. files' = files \/ Ends(rec.parts) \/ \E n \in Chunks : Ends(Append(rec.parts, n))
    BY <1>5, Effects
    DEF TakesSample, TakesStart, TakesEnd, Reopens, LastFile, NoFile, Goes, Starts
  <2>. QED BY <1>1, <1>3, <1>4, <2>1
<1>. QED BY <1>1, <1>5, OtherSteps

\* A window that is over stays so, and ends where it did.
LEMMA EndStays ==
  ASSUME RecordingsInv, [Next]_vars, NEW w \in 1 .. opened,
         NEW e, e = IF w \in open' THEN input' ELSE endedAt'[w]
  PROVE  /\ w \notin open \/ w < opened => (w \notin open' \/ w < opened') /\ e = EndOf(w)
         /\ w \notin open => w \notin open' /\ endedAt'[w] = endedAt[w]
<1>0. TypeOK /\ StopInv /\ opened \in Nat /\ open \subseteq 1 .. opened /\ 1 .. opened \subseteq Windows
  BY Sizes DEF RecordingsInv
<1>1. CASE UNCHANGED <<opened, open, input, endedAt>>
  BY <1>1 DEF EndOf
<1>2. CASE TakeChunk
  <2>1. UNCHANGED <<opened, open, endedAt>> /\ dsp = "wait"
    BY <1>2 DEF TakeChunk
  <2>2. open \subseteq {opened}
    BY <1>0, <2>1 DEF StopInv
  <2>3. w < opened => w \notin open
    BY <1>0, <2>2
  <2>. QED BY <2>1, <2>3 DEF EndOf
<1>3. CASE BeginWindow
  <2>1. /\ opened' = opened + 1 /\ open' = open \cup {opened + 1} /\ endedAt' = endedAt
        /\ input' = input
    BY <1>3 DEF BeginWindow, Calls
  <2>2. w # opened + 1 /\ w < opened + 1
    BY <1>0
  <2>. QED BY <2>1, <2>2 DEF EndOf
<1>4. CASE \E v \in Windows : FinishWindow(v)
  <2>. PICK v \in Windows : FinishWindow(v)
    BY <1>4
  <2>1. /\ v \in open /\ open' = open \ {v} /\ endedAt' = [endedAt EXCEPT ![v] = input]
        /\ UNCHANGED <<opened, input>>
    BY DEF FinishWindow, Calls
  <2>2. endedAt'[v] = input /\ (w # v => endedAt'[w] = endedAt[w])
    BY <1>0, <2>1 DEF TypeOK
  <2>. QED BY <2>1, <2>2 DEF EndOf
<1>5. CASE DspSend \/ \E v \in Windows : PushBurst(v)
  BY <1>1, <1>5 DEF DspSend, PushBurst, Calls
<1>6. CASE IqStep \/ IqRefresh \/ IqEnd
  BY <1>1, <1>6 DEF IqStep, IqRefresh, IqEnd, dspVars
<1>. QED BY <1>1, <1>2, <1>3, <1>4, <1>5, <1>6, OtherSteps

HasFull(fs, w) == \E i \in DOMAIN fs : fs[i].wid = w /\ Len(fs[i].parts) >= RecordMax
FileOf(fs, w, c) == \E i \in DOMAIN fs : fs[i].wid = w /\ c \in ToSet(fs[i].parts)
Complete(w) ==
    /\ w \notin open \/ w < opened
    /\ \A c \in Taken(beganAt[w] + 1, EndOf(w)) : FileOf(files, w, c)
NowComplete(w) ==
    /\ w \notin open' \/ w < opened'
    /\ \A c \in ((beganAt'[w] + 1) .. (IF w \in open' THEN input' ELSE endedAt'[w])) \ dropped' :
           FileOf(files', w, c)

\* A window that is recorded stays so.
LEMMA CompleteStays ==
  ASSUME RecordingsInv, [Next]_vars, NEW w \in 1 .. opened
  PROVE  /\ HasFull(files, w) => HasFull(files', w)
         /\ Complete(w) => NowComplete(w)
         /\ (w \notin open \/ w < opened) /\ (\A c \in Taken(beganAt[w] + 1, EndOf(w)) : FileOf(files', w, c))
               => NowComplete(w)
<1>0. /\ TypeOK /\ WindowsInv /\ input \in Nat /\ 1 .. opened \subseteq Windows
      /\ \A v \in Windows : beganAt[v] \in Nat /\ endedAt[v] \in Nat
  BY Sizes DEF RecordingsInv, RInv
<1>1. \A i \in DOMAIN files : i \in DOMAIN files' /\ files'[i] = files[i]
  BY FilesStay
<1>2. HasFull(files, w) => HasFull(files', w)
  BY <1>1 DEF HasFull
<1>3. \A c : FileOf(files, w, c) => FileOf(files', w, c)
  BY <1>1 DEF FileOf
<1>4. ASSUME w \notin open \/ w < opened,
             \A c \in Taken(beganAt[w] + 1, EndOf(w)) : FileOf(files', w, c)
      PROVE  NowComplete(w)
  <2>. PICK e : e = IF w \in open' THEN input' ELSE endedAt'[w]
    OBVIOUS
  <2>1. (w \notin open' \/ w < opened') /\ e = EndOf(w)
    BY <1>4, EndStays
  <2>2. beganAt'[w] = beganAt[w] /\ beganAt[w] \in Nat /\ EndOf(w) \in Nat /\ EndOf(w) <= input
    BY <1>0, PastStays DEF WindowsInv, EndOf
  <2>3. \A c : c \in ((beganAt[w] + 1) .. EndOf(w)) \ dropped' <=> c \in Taken(beganAt[w] + 1, EndOf(w))
    <3>1. \A a, b \in Nat : b <= input =>
               (\A c : c \in (a .. b) \ dropped' <=> c \in Taken(a, b))
      BY PastStays
    <3>2. beganAt[w] + 1 \in Nat
      BY <2>2
    <3>. QED BY <2>2, <3>1, <3>2
  <2>. QED BY <1>4, <2>1, <2>2, <2>3 DEF NowComplete
<1>. QED BY <1>2, <1>3, <1>4 DEF Complete

LEMMA RecordedKept ==
  ASSUME RecordingsInv, [Next]_vars
  PROVE  RecordedInv'
<1>0. /\ TypeOK /\ StopInv /\ PhaseInv /\ QueueInv /\ WindowsInv /\ RecordedInv
      /\ opened \in Nat /\ input \in Nat /\ 1 .. opened \subseteq Windows
      /\ \A w \in Windows : beganAt[w] \in Nat /\ endedAt[w] \in Nat
  BY Sizes DEF RecordingsInv, RInv
<1>. PICK A : A = Arrived'
  OBVIOUS
<1>. PICK B : B = Arrived
  OBVIOUS
<1>. PICK r : r = rec'
  OBVIOUS
<1>1. ASSUME r # NotRecording => \A c \in A : beganAt'[r.wid] < c => c \in ToSet(r.parts),
             r # NotRecording /\ r.hasTail =>
                r.wid \notin open' /\ (1 .. endedAt'[r.wid]) \ dropped' \subseteq A,
             reopen' # 0 => \A c \in A : c <= beganAt'[reopen'],
             \A w \in Started' : \/ r # NotRecording /\ r.wid = w
                                 \/ reopen' = w
                                 \/ HasFull(files', w)
                                 \/ NowComplete(w)
      PROVE  RecordedInv'
  <2>1. (IsRecording =>
          /\ \A c \in Arrived : beganAt[rec.wid] < c => c \in ToSet(rec.parts)
          /\ rec.hasTail => rec.wid \notin open /\ Taken(1, endedAt[rec.wid]) \subseteq Arrived)'
    BY <1>1 DEF IsRecording, NotRecording, Taken, ToSet
  <2>2. (reopen # 0 => \A c \in Arrived : c <= beganAt[reopen])'
    BY <1>1
  <2>3. (\A w \in Started :
          \/ IsRecording /\ rec.wid = w
          \/ reopen = w
          \/ IsFull(w)
          \/ /\ w \notin open \/ w < opened
             /\ \A c \in Taken(beganAt[w] + 1, EndOf(w)) : InFileOf(w, c))'
    BY <1>1 DEF IsRecording, NotRecording, IsFull, Full, Taken, EndOf, InFileOf, HasFull, FileOf,
                NowComplete, ToSet
  <2>. QED BY <2>1, <2>2, <2>3 DEF RecordedInv
<1>2. /\ IsRecording => /\ \A c \in B : beganAt[rec.wid] < c => c \in ToSet(rec.parts)
                        /\ rec.hasTail => rec.wid \notin open /\ Taken(1, endedAt[rec.wid]) \subseteq B
      /\ reopen # 0 => \A c \in B : c <= beganAt[reopen]
      /\ \A w \in Started : \/ IsRecording /\ rec.wid = w
                            \/ reopen = w
                            \/ HasFull(files, w)
                            \/ Complete(w)
  BY <1>0 DEF RecordedInv, IsFull, Full, InFileOf, HasFull, FileOf, Complete
<1>3. /\ \A w \in Started : w \in 1 .. opened /\ beganAt'[w] = beganAt[w]
      /\ IsRecording => rec.wid \in Started
      /\ reopen # 0 => reopen \in Started
  BY <1>0, PastStays DEF Started, WindowsInv
<1>4. \A w \in Started : HasFull(files, w) \/ Complete(w) => HasFull(files', w) \/ NowComplete(w)
  BY <1>3, CompleteStays
\* The tail of the recording was told of a window that is over.
<1>5. ASSUME IsRecording, rec.hasTail, B \subseteq A
      PROVE  rec.wid \notin open' /\ (1 .. endedAt'[rec.wid]) \ dropped' \subseteq A
  <2>. PICK w : w = rec.wid
    OBVIOUS
  <2>1. w \in 1 .. opened /\ w \notin open /\ Taken(1, endedAt[w]) \subseteq B
    BY <1>2, <1>3, <1>5
  <2>2. w \notin open' /\ endedAt'[w] = endedAt[w]
    <3>. PICK e : e = IF w \in open' THEN input' ELSE endedAt'[w]
      OBVIOUS
    <3>. QED BY <2>1, EndStays
  <2>3. dropped \subseteq dropped'
    BY PastStays
  <2>. QED BY <1>5, <2>1, <2>2, <2>3 DEF Taken
\* The recording ends, and its window is recorded.
<1>6. ASSUME NEW p \in Seq(Chunks), Ends(p), ToSet(rec.parts) \subseteq ToSet(p),
             rec.wid \notin open \/ rec.wid < opened,
             Taken(beganAt[rec.wid] + 1, EndOf(rec.wid)) \subseteq B
      PROVE  NowComplete(rec.wid)
  <2>. PICK w : w = rec.wid
    OBVIOUS
  <2>0. IsRecording
    BY <1>6 DEF Ends
  <2>1. w \in 1 .. opened /\ beganAt[w] \in Nat /\ EndOf(w) \in Nat
    BY <1>0, <1>3, <2>0 DEF EndOf
  <2>2. ASSUME NEW c \in Taken(beganAt[w] + 1, EndOf(w)) PROVE FileOf(files', w, c)
    <3>1. c \in B /\ beganAt[w] < c
      BY <1>6, <2>1, <2>2 DEF Taken
    <3>2. c \in ToSet(p)
      BY <1>2, <1>6, <2>0, <3>1
    <3>3. p # <<>>
      BY <3>2, NothingIn
    <3>4. PICK i \in DOMAIN files' : files'[i].wid = rec.wid /\ files'[i].parts = p
      BY <1>0, <1>6, <3>3, FilesGrow
    <3>. QED BY <3>2, <3>4 DEF FileOf
  <2>. QED BY <1>6, <2>1, <2>2, CompleteStays
<1>7. CASE ~(IqStep \/ IqRefresh \/ IqEnd)
  <2>1. UNCHANGED <<rec, files, reopen>> /\ A = B /\ Started' = Started
    BY <1>7, ArrivedStays, StartsStay, OtherSteps
  <2>2. r # NotRecording => \A c \in A : beganAt'[r.wid] < c => c \in ToSet(r.parts)
    BY <1>2, <1>3, <2>1 DEF IsRecording
  <2>3. r # NotRecording /\ r.hasTail =>
            r.wid \notin open' /\ (1 .. endedAt'[r.wid]) \ dropped' \subseteq A
    BY <1>5, <2>1 DEF IsRecording
  <2>4. reopen' # 0 => \A c \in A : c <= beganAt'[reopen']
    BY <1>2, <1>3, <2>1
  <2>5. \A w \in Started' : \/ r # NotRecording /\ r.wid = w
                            \/ reopen' = w
                            \/ HasFull(files', w)
                            \/ NowComplete(w)
    BY <1>2, <1>4, <2>1 DEF IsRecording
  <2>. QED BY <1>1, <2>2, <2>3, <2>4, <2>5
<1>8. ASSUME IqStep \/ IqRefresh \/ IqEnd
      PROVE  UNCHANGED <<input, opened, open, beganAt, endedAt, dropped>>
  BY <1>8 DEF IqStep, IqRefresh, IqEnd, dspVars
<1>9. CASE IqStep /\ \E n \in Chunks : TakesSample(n)
  <2>. PICK n \in Chunks : TakesSample(n)
    BY <1>9
  <2>1. /\ A = B \cup {n} /\ reopen = 0 /\ reopen' = 0 /\ Started' = Started
        /\ UNCHANGED <<input, opened, open, beganAt, endedAt, dropped>>
    BY <1>8, <1>9 DEF TakesSample
  <2>2. CASE ~IsRecording /\ UNCHANGED <<rec, files>>
    <3>1. r = NotRecording
      BY <2>2 DEF IsRecording
    <3>. QED BY <1>1, <1>2, <1>4, <2>1, <2>2, <3>1, <1>3
  <2>3. CASE Goes(Append(rec.parts, n)) /\ rec'.hasTail = rec.hasTail
    <3>1. IsRecording /\ r.wid = rec.wid /\ r # NotRecording /\ r.hasTail = rec.hasTail
      BY <2>3 DEF Goes
    <3>2. ToSet(r.parts) = ToSet(rec.parts) \cup {n}
      <4>. PICK s : s = rec.parts
        OBVIOUS
      <4>1. s \in Seq(Chunks) /\ r.parts = Append(s, n)
        BY <1>0, <2>3, <3>1, PartsTyped DEF Goes
      <4>. QED BY <4>1, AppendedSet
    <3>3. \A c \in A : beganAt'[r.wid] < c => c \in ToSet(r.parts)
      BY <1>2, <2>1, <3>1, <3>2
    <3>4. r.hasTail => r.wid \notin open' /\ (1 .. endedAt'[r.wid]) \ dropped' \subseteq A
      BY <1>5, <2>1, <3>1
    <3>5. \A w \in Started' : \/ r.wid = w \/ HasFull(files', w) \/ NowComplete(w)
      <4>1. \A w \in Started : w \in 1 .. opened /\ w # 0
        BY <1>3
      <4>. QED BY <1>2, <1>4, <2>1, <3>1, <4>1
    <3>. QED BY <1>1, <2>1, <3>1, <3>3, <3>4, <3>5
  <2>4. CASE /\ Ends(Append(rec.parts, n))
             /\ Len(Append(rec.parts, n)) >= RecordMax \/ rec.hasTail
    <3>. PICK p : p = Append(rec.parts, n)
      OBVIOUS
    <3>. PICK s : s = rec.parts
      OBVIOUS
    <3>0. Ends(p) /\ IsRecording /\ r = NotRecording
      BY <2>4 DEF Ends
    <3>1. s \in Seq(Chunks) /\ p = Append(s, n)
      BY <1>0, <3>0, PartsTyped
    <3>2. ToSet(p) = ToSet(s) \cup {n} /\ p \in Seq(Chunks) /\ p # <<>>
      <4>1. ToSet(Append(s, n)) = ToSet(s) \cup {n}
        BY <3>1, AppendedSet
      <4>2. Append(s, n) \in Seq(Chunks) /\ Append(s, n) # <<>>
        BY <3>1, AppendProperties
      <4>. QED BY <3>1, <4>1, <4>2
    <3>3. HasFull(files', rec.wid) \/ NowComplete(rec.wid)
      <4>1. CASE Len(p) >= RecordMax
        <5>1. PICK i \in DOMAIN files' : files'[i].wid = rec.wid /\ files'[i].parts = p
          BY <1>0, <3>0, <3>2, FilesGrow
        <5>. QED BY <4>1, <5>1 DEF HasFull
      <4>2. CASE rec.hasTail
        <5>. PICK w : w = rec.wid
          OBVIOUS
        <5>1. w \notin open /\ Taken(1, endedAt[w]) \subseteq B /\ beganAt[w] \in Nat
          BY <1>0, <1>2, <1>3, <3>0, <4>2
        <5>2. Taken(beganAt[w] + 1, EndOf(w)) \subseteq B
          BY <5>1 DEF Taken, EndOf
        <5>3. NowComplete(rec.wid)
          BY <1>6, <3>0, <3>2, <5>1, <5>2
        <5>. QED BY <5>3
      <4>. QED BY <2>4, <4>1, <4>2
    <3>4. \A w \in Started' : HasFull(files', w) \/ NowComplete(w)
      <4>1. \A w \in Started : w \in 1 .. opened /\ w # 0
        BY <1>3
      <4>. QED BY <1>2, <1>4, <2>1, <3>3, <4>1
    <3>. QED BY <1>1, <2>1, <3>0, <3>4
  <2>. QED BY <2>2, <2>3, <2>4 DEF TakesSample
<1>10. CASE IqStep /\ \E w \in 1 .. opened : TakesStart(w)
  <2>. PICK v \in 1 .. opened : TakesStart(v)
    BY <1>10
  <2>1. /\ A = B /\ B = Taken(1, beganAt[v]) /\ Started' = Started \cup {v} /\ reopen = 0
        /\ UNCHANGED <<input, opened, open, beganAt, endedAt, dropped>> /\ v \in ToStart
    BY <1>8, <1>10 DEF TakesStart
  <2>2. \A c \in B : c <= beganAt[v] /\ ~(beganAt[v] < c)
    BY <1>0, <2>1 DEF Taken
  <2>3. CASE Ends(rec.parts) /\ reopen' = v
    <3>0. IsRecording /\ r = NotRecording /\ rec.parts \in Seq(Chunks)
      BY <1>0, <2>3, PartsTyped DEF Ends
    <3>. PICK w : w = rec.wid
      OBVIOUS
    <3>1. w \in Started /\ w < v /\ w \in 1 .. opened
      BY <1>0, <1>3, <2>1, <3>0 DEF WindowsInv
    <3>2. EndOf(w) <= beganAt[v] /\ w < opened
      BY <1>0, <3>1 DEF WindowsInv
    <3>3. Taken(beganAt[w] + 1, EndOf(w)) \subseteq B
      <4>1. beganAt[w] \in Nat /\ EndOf(w) \in Nat /\ beganAt[v] \in Nat
        BY <1>0, <3>1 DEF EndOf
      <4>. QED BY <2>1, <3>2, <4>1 DEF Taken
    <3>4. NowComplete(rec.wid)
      BY <1>6, <2>3, <3>0, <3>2, <3>3
    <3>5. \A u \in Started' : u = v \/ HasFull(files', u) \/ NowComplete(u)
      <4>1. \A u \in Started : u \in 1 .. opened /\ u # 0
        BY <1>3
      <4>. QED BY <1>2, <1>4, <2>1, <3>0, <3>4, <4>1
    <3>. QED BY <1>1, <2>1, <2>2, <2>3, <3>0, <3>5
  <2>4. CASE Starts(v) /\ reopen' = 0
    <3>1. r # NotRecording /\ r.wid = v /\ r.hasTail = FALSE /\ ~IsRecording
      BY <2>4 DEF Starts
    <3>2. \A u \in Started' : u = v \/ HasFull(files', u) \/ NowComplete(u)
      <4>1. \A u \in Started : u \in 1 .. opened /\ u # 0
        BY <1>3
      <4>. QED BY <1>2, <1>4, <2>1, <3>1, <4>1
    <3>. QED BY <1>1, <2>1, <2>2, <2>4, <3>1, <3>2
  <2>. QED BY <2>3, <2>4 DEF TakesStart
<1>11. CASE IqStep /\ \E w \in (1 .. opened) \ open : TakesEnd(w)
  <2>. PICK v \in (1 .. opened) \ open : TakesEnd(v)
    BY <1>11
  <2>1. /\ A = B /\ Taken(1, endedAt[v]) \subseteq B /\ Started' = Started
        /\ reopen = 0 /\ reopen' = 0 /\ IsRecording /\ r # NotRecording
        /\ r.wid = v /\ rec.wid = v /\ r.parts = rec.parts /\ files' = files
        /\ UNCHANGED <<input, opened, open, beganAt, endedAt, dropped>>
    BY <1>8, <1>11 DEF TakesEnd, Goes
  <2>2. \A c \in A : beganAt'[r.wid] < c => c \in ToSet(r.parts)
    BY <1>2, <2>1
  <2>3. r.wid \notin open' /\ (1 .. endedAt'[r.wid]) \ dropped' \subseteq A
    BY <2>1 DEF Taken
  <2>4. \A u \in Started' : u = v \/ HasFull(files', u) \/ NowComplete(u)
    <3>1. \A u \in Started : u \in 1 .. opened /\ u # 0
      BY <1>3
    <3>. QED BY <1>2, <1>4, <2>1, <3>1
  <2>. QED BY <1>1, <2>1, <2>2, <2>3, <2>4
<1>12. CASE (IqStep \/ IqRefresh \/ IqEnd) /\ Reopens
  <2>1. /\ A = B /\ Started' = Started /\ reopen \in Started /\ reopen # 0 /\ reopen' = 0
        /\ ~IsRecording /\ r # NotRecording /\ r.wid = reopen /\ r.hasTail = FALSE
        /\ UNCHANGED <<input, opened, open, beganAt, endedAt, dropped>>
    BY <1>8, <1>12 DEF Reopens, Starts
  <2>2. \A c \in A : ~(beganAt'[r.wid] < c)
    <3>1. beganAt[reopen] \in Nat /\ \A c \in B : c \in Nat /\ c <= beganAt[reopen]
      BY <1>0, <1>2, <1>3, <2>1, PartsTyped
    <3>. QED BY <2>1, <3>1
  <2>3. \A u \in Started' : u = r.wid \/ HasFull(files', u) \/ NowComplete(u)
    BY <1>2, <1>4, <2>1
  <2>. QED BY <1>1, <2>1, <2>2, <2>3
<1>13. CASE IqEnd /\ LastFile
  <2>1. /\ A = B /\ Started' = Started /\ reopen = 0 /\ reopen' = 0
        /\ iqQ = <<>> /\ ~iqOpen /\ Ends(rec.parts) /\ IsRecording /\ r = NotRecording
    BY <1>13 DEF LastFile, Ends
  <2>2. open = {}
    BY <1>0, <2>1 DEF StopInv
  <2>3. DOMAIN iqQ = {}
    BY <2>1, NothingIn
  <2>. PICK w : w = rec.wid
    OBVIOUS
  <2>4. w \in 1 .. opened /\ beganAt[w] \in Nat /\ EndOf(w) <= input /\ EndOf(w) \in Nat
    BY <1>0, <1>3, <2>1 DEF WindowsInv, EndOf
  <2>5. Taken(beganAt[w] + 1, EndOf(w)) \subseteq B
    BY <1>0, <2>3, <2>4 DEF Taken, Arrived
  <2>6. rec.parts \in Seq(Chunks)
    BY <1>0, <2>1, PartsTyped
  <2>7. NowComplete(rec.wid)
    BY <1>6, <2>1, <2>2, <2>5, <2>6
  <2>8. \A u \in Started' : HasFull(files', u) \/ NowComplete(u)
    <3>1. \A u \in Started : u \in 1 .. opened /\ u # 0
      BY <1>3
    <3>. QED BY <1>2, <1>4, <2>1, <2>7, <3>1
  <2>. QED BY <1>1, <2>1, <2>8
<1>14. CASE (IqStep \/ IqRefresh \/ IqEnd) /\ NoFile
  <2>1. /\ A = B /\ Started' = Started /\ reopen = 0 /\ reopen' = 0 /\ rec' = rec /\ files' = files
        /\ UNCHANGED <<input, opened, open, beganAt, endedAt, dropped>>
    BY <1>8, <1>14 DEF NoFile
  <2>2. r # NotRecording => \A c \in A : beganAt'[r.wid] < c => c \in ToSet(r.parts)
    BY <1>2, <2>1 DEF IsRecording
  <2>3. r # NotRecording /\ r.hasTail =>
            r.wid \notin open' /\ (1 .. endedAt'[r.wid]) \ dropped' \subseteq A
    BY <1>5, <2>1 DEF IsRecording
  <2>4. \A u \in Started' : \/ r # NotRecording /\ r.wid = u
                            \/ HasFull(files', u) \/ NowComplete(u)
    <3>1. \A u \in Started : u \in 1 .. opened /\ u # 0
      BY <1>3
    <3>. QED BY <1>2, <1>4, <2>1, <3>1 DEF IsRecording
  <2>. QED BY <1>1, <2>1, <2>2, <2>3, <2>4
<1>. QED
  <2>1. LastFile => ~IqStep /\ ~IqRefresh
    BY <1>0 DEF LastFile, IqStep, IqRefresh, PhaseInv, Ends, IsRecording
  <2>. QED BY <1>7, <1>9, <1>10, <1>11, <1>12, <1>13, <1>14, <2>1, Effects

\* Nothing has come in.
LEMMA AtFirst ==
  ASSUME Init
  PROVE  RecordingsInv
<1>. USE NothingIn
<1>1. /\ <<>> \in Seq([to : {"audio"}, msg : AudioMsg] \cup [to : {"iq"}, msg : IqMsg])
      /\ <<>> \in Seq(Windows) /\ <<>> \in Seq(AudioMsg) /\ <<>> \in Seq(IqMsg)
      /\ <<>> \in Seq(Bursts) /\ <<>> \in Seq(Chunks) /\ Len(<<>>) = 0
      /\ <<>> \in Seq([n : Bursts, fate : {"decoded", "held", "failed"}])
      /\ <<>> \in Seq([wid : Windows, parts : Seq(Chunks)])
  BY EmptySeq
<1>2. Unknown \in Status /\ Unknown.done = FALSE
  BY DEF Unknown, Status
<1>3. TypeOK
  <2>1. DspTypes
    <3>1. dsp \in {"wait", "calls", "last", "done"} /\ inputOver \in BOOLEAN
      BY DEF Init
    <3>2. input \in 0 .. MaxChunks /\ opened \in 0 .. MaxWindows /\ 0 <= MaxBursts
      BY RecordingConstants DEF Init
    <3>3. /\ todo \in Seq([to : {"audio"}, msg : AudioMsg] \cup [to : {"iq"}, msg : IqMsg])
          /\ pushed \in Seq(Windows) /\ Len(pushed) <= MaxBursts
      BY <1>1, <3>2 DEF Init
    <3>4. open \subseteq 1 .. opened /\ seed \in Seeds \cup {0}
      BY DEF Init
    <3>5. 0 \in 0 .. MaxChunks
      BY RecordingConstants
    <3>6. beganAt \in [Windows -> 0 .. MaxChunks] /\ endedAt \in [Windows -> 0 .. MaxChunks]
      BY <3>5 DEF Init
    <3>. QED BY <3>1, <3>2, <3>3, <3>4, <3>6 DEF DspTypes
  <2>2. AudioTypes
    BY <1>1, <1>2 DEF Init, AudioTypes, Fate
  <2>3. QueueTypes
    BY <1>1, RecordingConstants DEF Init, QueueTypes
  <2>4. RecorderTypes
    BY <1>1, <1>2, RecordingConstants DEF Init, RecorderTypes
  <2>. QED BY <2>1, <2>2, <2>3, <2>4, TypeParts
<1>4. StopInv /\ PhaseInv /\ CallInv
  BY RecordingConstants DEF Init, StopInv, PhaseInv, CallInv, IsRecording
<1>5. \A w \in Windows : HandledOf(w) = <<>> /\ Pcm(decided[w]) = {}
  <2>. TAKE w \in Windows
  <2>1. decided[w] = <<>> /\ pending[w] = <<>>
    BY DEF Init
  <2>2. Pcm(<<>>) = {}
    BY DEF Pcm
  <2>3. Numbers(<<>>) = <<>>
    BY DEF Numbers
  <2>4. <<>> \o <<>> = <<>>
    OBVIOUS
  <2>5. HandledOf(w) = <<>>
    BY <2>1, <2>3, <2>4, Handled
  <2>. QED BY <2>1, <2>2, <2>5
<1>6. OrderInv /\ PlaceInv
  BY <1>5 DEF Init, OrderInv, PlaceInv, Voice
<1>7. WavInv
  BY <1>5, FS_EmptySet DEF Init, WavInv
<1>8. EndInv /\ SidecarInv
  BY <1>2 DEF Init, EndInv, SidecarInv
<1>9. Arrived = {} /\ Started = {} /\ ToStart = {}
  BY DEF Init, Arrived, Started, ToStart
<1>10. QueueInv /\ WindowsInv
  BY <1>9 DEF Init, QueueInv, WindowsInv, IsRecording
<1>11. PartsInv
  BY <1>9 DEF Init, PartsInv, IsRecording, Latest
<1>12. RingInv /\ PrerollInv /\ RecordedInv
  BY <1>9 DEF Init, RingInv, PrerollInv, RecordedInv, IsRecording
<1>. QED BY <1>3, <1>4, <1>6, <1>7, <1>8, <1>10, <1>11, <1>12 DEF RecordingsInv, VInv, RInv

LEMMA InvariantKept ==
  ASSUME RecordingsInv, [Next]_vars
  PROVE  RecordingsInv'
<1>1. TypeOK' /\ StopInv' /\ PhaseInv' /\ CallInv'
  BY TypeKept, StopKept, PhaseKept, CallKept
<1>2. OrderInv' /\ PlaceInv' /\ WavInv' /\ EndInv' /\ SidecarInv'
  BY OrderKept, PlaceKept, WavKept, EndKept, SidecarKept
<1>3. QueueInv' /\ WindowsInv' /\ PartsInv'
  BY QueueKept, WindowsKept, PartsKept
<1>4. RingInv' /\ PrerollInv' /\ RecordedInv'
  BY RingKept, PrerollKept, RecordedKept
<1>. QED BY <1>1, <1>2, <1>3, <1>4 DEF RecordingsInv, VInv, RInv

-----------------------------------------------------------------------------
(* What the invariant says of the voice.                                   *)

\* The messages on their way: those queued, then those not yet sent.
LEMMA Underway ==
  ASSUME TypeOK
  PROVE  /\ DOMAIN Messages = 1 .. Len(audioQ) + Len(todo)
         /\ Len(audioQ) \in Nat /\ Len(todo) \in Nat
         /\ DOMAIN audioQ = 1 .. Len(audioQ) /\ DOMAIN todo = 1 .. Len(todo)
         /\ \A i \in DOMAIN audioQ : i \in DOMAIN Messages /\ Messages[i] = audioQ[i]
         /\ \A i \in DOMAIN Messages : i \notin DOMAIN audioQ =>
               i - Len(audioQ) \in DOMAIN todo /\ Messages[i] = todo[i - Len(audioQ)].msg
         /\ \A i \in DOMAIN todo : i + Len(audioQ) \in DOMAIN Messages
                                   /\ Messages[i + Len(audioQ)] = todo[i].msg
<1>. DEFINE M == AudioMsg \cup IqMsg
<1>1. /\ audioQ \in Seq(M) /\ DOMAIN audioQ = 1 .. Len(audioQ) /\ Len(audioQ) \in Nat
  <2>1. audioQ \in Seq(AudioMsg)
    BY DEF TypeOK
  <2>2. DOMAIN audioQ = 1 .. Len(audioQ) /\ Len(audioQ) \in Nat
    BY <2>1, LenProperties
  <2>3. audioQ \in [1 .. Len(audioQ) -> AudioMsg]
    BY <2>1, LenProperties
  <2>4. audioQ \in [1 .. Len(audioQ) -> M]
    BY <2>3
  <2>. QED BY <2>2, <2>4, IsSeq
<1>2. /\ DOMAIN todo = 1 .. Len(todo) /\ Len(todo) \in Nat
      /\ \A i \in DOMAIN todo : todo[i].msg \in M
  <2>1. todo \in Seq([to : {"audio"}, msg : AudioMsg] \cup [to : {"iq"}, msg : IqMsg])
    BY DEF TypeOK
  <2>2. DOMAIN todo = 1 .. Len(todo) /\ Len(todo) \in Nat
    BY <2>1, LenProperties
  <2>3. \A i \in DOMAIN todo : todo[i] \in [to : {"audio"}, msg : AudioMsg] \cup [to : {"iq"}, msg : IqMsg]
    BY <2>1, LenProperties
  <2>. QED BY <2>2, <2>3
<1>. PICK t : t = [i \in DOMAIN todo |-> todo[i].msg]
  OBVIOUS
<1>3. t \in [1 .. Len(todo) -> M]
  BY <1>2
<1>4. t \in Seq(M) /\ Len(t) = Len(todo)
  BY <1>2, <1>3, IsSeq
<1>. PICK s : s = audioQ \o t
  OBVIOUS
<1>5. /\ s \in Seq(M) /\ Len(s) = Len(audioQ) + Len(t)
      /\ \A i \in 1 .. Len(audioQ) + Len(t) :
            s[i] = IF i <= Len(audioQ) THEN audioQ[i] ELSE t[i - Len(audioQ)]
  BY <1>1, <1>4, ConcatProperties
<1>6. DOMAIN s = 1 .. Len(audioQ) + Len(todo)
  BY <1>4, <1>5, LenProperties
<1>7. Messages = s
  BY DEF Messages
<1>8. \A i \in DOMAIN audioQ : i \in DOMAIN s /\ s[i] = audioQ[i]
  BY <1>1, <1>2, <1>4, <1>5, <1>6
<1>9. \A i \in DOMAIN s : i \notin DOMAIN audioQ =>
          i - Len(audioQ) \in DOMAIN todo /\ s[i] = todo[i - Len(audioQ)].msg
  BY <1>1, <1>2, <1>4, <1>5, <1>6
<1>10. \A i \in DOMAIN todo : i + Len(audioQ) \in DOMAIN s /\ s[i + Len(audioQ)] = todo[i].msg
  BY <1>1, <1>2, <1>4, <1>5, <1>6
<1>. QED BY <1>1, <1>2, <1>6, <1>7, <1>8, <1>9, <1>10

\* A burst on its way is queued, or is the one in hand, behind all others.
LEMMA BurstUnderway ==
  ASSUME TypeOK, CallInv
  PROVE  /\ \A w \in Windows : \A i \in QueuedOf(w) :
               \/ BurstAt(i, w) /\ Messages[i] = audioQ[i]
               \/ /\ i = Len(audioQ) + 1 /\ todo = Bringing(w, Messages[i].n)
                  /\ Messages[i].n = Len(pushed)
         /\ \A w \in Windows : \A i : BurstAt(i, w) => i \in QueuedOf(w) /\ Messages[i] = audioQ[i]
         /\ \A w \in Windows : \A n : todo = Bringing(w, n) =>
               Len(audioQ) + 1 \in QueuedOf(w) /\ Messages[Len(audioQ) + 1].n = n
<1>. USE Underway
<1>1. ASSUME NEW w \in Windows, NEW i \in QueuedOf(w)
      PROVE  \/ BurstAt(i, w) /\ Messages[i] = audioQ[i]
             \/ /\ i = Len(audioQ) + 1 /\ todo = Bringing(w, Messages[i].n)
                /\ Messages[i].n = Len(pushed)
  <2>1. i \in DOMAIN Messages /\ Messages[i].kind = "burst" /\ Messages[i].wid = w
    BY DEF QueuedOf
  <2>2. CASE i \in DOMAIN audioQ
    BY <2>1, <2>2 DEF BurstAt
  <2>3. CASE i \notin DOMAIN audioQ
    <3>1. PICK k \in DOMAIN todo : k = i - Len(audioQ) /\ todo[k].msg = Messages[i]
      BY <2>1, <2>3
    <3>2. todo[k].msg.kind = "burst" /\ todo[k].msg.wid = w
      BY <2>1, <3>1
    <3>3. todo # <<>>
      BY NothingIn
    <3>4. todo # Opening(opened)
      <4>. SUFFICES ASSUME todo = Opening(opened) PROVE FALSE
        OBVIOUS
      <4>1. k = 1 /\ todo[1] = ToIq("open", opened)
        BY One DEF Opening
      <4>. QED BY <3>2, <4>1 DEF ToIq
    <3>5. ASSUME NEW v, todo = Closing(v) \/ todo = ClosingIq(v) PROVE FALSE
      <4>1. CASE todo = ClosingIq(v)
        <5>1. k = 1 /\ todo[1] = ToIq("close", v)
          BY <4>1, One DEF ClosingIq
        <5>. QED BY <3>2, <5>1 DEF ToIq
      <4>2. CASE todo = Closing(v)
        <5>1. k \in {1, 2} /\ todo[1] = ToAudio("close", v, 0) /\ todo[2] = ToIq("close", v)
          BY <4>2, Two DEF Closing
        <5>. QED BY <3>2, <5>1 DEF ToIq, ToAudio
      <4>. QED BY <3>5, <4>1, <4>2
    <3>6. PICK v \in open : todo = Bringing(v, Len(pushed))
      BY <3>3, <3>4, <3>5 DEF CallInv
    <3>7. k = 1 /\ todo[1] = ToAudio("burst", v, Len(pushed))
      BY <3>6, One DEF Bringing
    <3>8. v = w /\ Messages[i].n = Len(pushed)
      BY <3>1, <3>2, <3>7 DEF ToAudio
    <3>9. i = Len(audioQ) + 1
      BY <2>1, <3>1, <3>7
    <3>. QED BY <3>6, <3>8, <3>9
  <2>. QED BY <2>2, <2>3
<1>2. \A w \in Windows : \A i : BurstAt(i, w) => i \in QueuedOf(w) /\ Messages[i] = audioQ[i]
  BY DEF BurstAt, QueuedOf
<1>3. ASSUME NEW w \in Windows, NEW n, todo = Bringing(w, n)
      PROVE  Len(audioQ) + 1 \in QueuedOf(w) /\ Messages[Len(audioQ) + 1].n = n
  <2>1. 1 \in DOMAIN todo /\ todo[1] = ToAudio("burst", w, n)
    BY <1>3, One DEF Bringing
  <2>2. 1 + Len(audioQ) \in DOMAIN Messages /\ Messages[1 + Len(audioQ)] = todo[1].msg
    BY <2>1
  <2>3. todo[1].msg.kind = "burst" /\ todo[1].msg.wid = w /\ todo[1].msg.n = n
    BY <2>1 DEF ToAudio
  <2>4. 1 + Len(audioQ) = Len(audioQ) + 1
    OBVIOUS
  <2>. QED BY <2>2, <2>3, <2>4 DEF QueuedOf
<1>. QED BY <1>1, <1>2, <1>3

LEMMA VoiceOnItsWay ==
  ASSUME RecordingsInv
  PROVE  VoiceReachesFile
<1>0. /\ TypeOK /\ StopInv /\ CallInv /\ OrderInv /\ PlaceInv /\ WavInv /\ EndInv
  BY DEF RecordingsInv, VInv
<1>1. /\ Len(audioQ) \in Nat /\ DOMAIN audioQ = 1 .. Len(audioQ)
      /\ \A i, w : BurstAt(i, w) => i \in DOMAIN audioQ
  BY <1>0, Underway DEF BurstAt
<1>2. /\ Len(pushed) \in Nat /\ DOMAIN pushed = 1 .. Len(pushed)
      /\ \A k \in 1 .. Len(pushed) : k = Len(pushed) \/ k < Len(pushed)
      /\ Len(pushed) > 0 => Len(pushed) \in DOMAIN pushed
  <2>1. pushed \in Seq(Windows)
    BY <1>0 DEF TypeOK
  <2>. QED BY <2>1, LenProperties
<1>. SUFFICES ASSUME NEW w \in Windows
              PROVE  /\ VoiceInOrder(w) /\ VoiceComplete(w)
                     /\ EndHandled(w) \/ audioDone =>
                            pending[w] = <<>> /\ wav[w] = Cardinality(Pcm(decided[w]))
  BY DEF VoiceReachesFile
<1>. PICK h : h = HandledOf(w)
  OBVIOUS
<1>3. Voice[w] = h
  BY DEF Voice
<1>4. /\ Increasing(h)
      /\ \A i, j \in DOMAIN audioQ :
             BurstAt(i, w) /\ BurstAt(j, w) /\ i < j => audioQ[i].n < audioQ[j].n
      /\ \A n \in ToSet(h), i \in DOMAIN audioQ : BurstAt(i, w) => n < audioQ[i].n
  BY <1>0, <1>3 DEF OrderInv
<1>5. \A n \in ToSet(h) : n \in DOMAIN pushed /\ pushed[n] = w /\ ~InHand(n)
  BY <1>0, <1>3 DEF PlaceInv
<1>6. \A i : BurstAt(i, w) => /\ audioQ[i].n \in DOMAIN pushed /\ pushed[audioQ[i].n] = w
                              /\ ~InHand(audioQ[i].n)
  BY <1>0 DEF PlaceInv, BurstAt
\* The burst in hand is the last one.
<1>7. \A n : todo = Bringing(w, n) => InHand(n)
  BY DEF InHand
<1>8. \A i \in QueuedOf(w) :
          \/ BurstAt(i, w) /\ Messages[i] = audioQ[i]
          \/ /\ i = Len(audioQ) + 1 /\ todo = Bringing(w, Messages[i].n)
             /\ Messages[i].n = Len(pushed)
  BY <1>0, BurstUnderway
<1>9. VoiceInOrder(w)
  <2>1. ASSUME NEW i \in QueuedOf(w), NEW j \in QueuedOf(w), i < j
        PROVE  Messages[i].n < Messages[j].n
    <3>1. CASE BurstAt(i, w) /\ Messages[i] = audioQ[i] /\ BurstAt(j, w) /\ Messages[j] = audioQ[j]
      BY <1>1, <1>4, <2>1, <3>1
    <3>2. CASE /\ BurstAt(i, w) /\ Messages[i] = audioQ[i]
               /\ todo = Bringing(w, Messages[j].n) /\ Messages[j].n = Len(pushed)
      <4>1. InHand(Len(pushed))
        BY <1>7, <3>2
      <4>2. audioQ[i].n \in 1 .. Len(pushed) /\ audioQ[i].n # Len(pushed)
        BY <1>2, <1>6, <3>2, <4>1
      <4>. QED BY <1>2, <3>2, <4>2
    <3>3. CASE i = Len(audioQ) + 1 /\ BurstAt(j, w)
      BY <1>1, <2>1, <3>3
    <3>4. CASE i = Len(audioQ) + 1 /\ j = Len(audioQ) + 1
      BY <1>1, <2>1, <3>4
    <3>. QED BY <1>8, <3>1, <3>2, <3>3, <3>4
  <2>2. ASSUME NEW n \in ToSet(h), NEW i \in QueuedOf(w) PROVE n < Messages[i].n
    <3>1. CASE BurstAt(i, w) /\ Messages[i] = audioQ[i]
      BY <1>1, <1>4, <3>1
    <3>2. CASE todo = Bringing(w, Messages[i].n) /\ Messages[i].n = Len(pushed)
      <4>1. InHand(Len(pushed))
        BY <1>7, <3>2
      <4>2. n \in 1 .. Len(pushed) /\ n # Len(pushed)
        BY <1>2, <1>5, <4>1
      <4>3. n < Len(pushed)
        BY <1>2, <4>2
      <4>. QED BY <3>2, <4>3
    <3>. QED BY <1>8, <3>1, <3>2
  <2>. QED BY <1>4, <2>1, <2>2 DEF VoiceInOrder
<1>10. VoiceComplete(w)
  <2>. PICK b : b = {Messages[i].n : i \in QueuedOf(w)}
    OBVIOUS
  <2>1. ASSUME NEW n \in BurstsOf(w) PROVE n \in ToSet(h) \/ n \in b
    <3>1. n \in DOMAIN pushed /\ pushed[n] = w
      BY DEF BurstsOf
    <3>2. \/ n \in ToSet(h)
          \/ \E i \in DOMAIN audioQ : BurstAt(i, w) /\ audioQ[i].n = n
          \/ todo = Bringing(w, n)
      BY <1>0, <1>3, <3>1 DEF PlaceInv
    <3>3. ASSUME NEW i \in DOMAIN audioQ, BurstAt(i, w), audioQ[i].n = n PROVE n \in b
      BY <1>0, <3>3, BurstUnderway
    <3>4. CASE todo = Bringing(w, n)
      BY <1>0, <3>4, BurstUnderway
    <3>. QED BY <3>2, <3>3, <3>4
  <2>2. ASSUME NEW i \in QueuedOf(w) PROVE Messages[i].n \in BurstsOf(w)
    <3>1. CASE BurstAt(i, w) /\ Messages[i] = audioQ[i]
      BY <1>6, <3>1 DEF BurstsOf
    <3>2. CASE todo = Bringing(w, Messages[i].n) /\ Messages[i].n = Len(pushed)
      <4>1. PICK v \in open : /\ Len(pushed) > 0 /\ pushed[Len(pushed)] = v
                              /\ todo = Bringing(v, Len(pushed))
        <5>1. todo # <<>> /\ Head(todo) = ToAudio("burst", w, Len(pushed))
          BY <3>2, One DEF Bringing
        <5>2. \A u : todo # Opening(u) /\ todo # ClosingIq(u) /\ todo # Closing(u)
          <6>. SUFFICES ASSUME NEW u, todo = Opening(u) \/ todo = ClosingIq(u) \/ todo = Closing(u)
                        PROVE  FALSE
            OBVIOUS
          <6>1. Head(todo) \in {ToIq("open", u), ToIq("close", u), ToAudio("close", u, 0)}
            BY One, Two DEF Opening, ClosingIq, Closing
          <6>. QED BY <5>1, <6>1 DEF ToIq, ToAudio
        <5>. QED BY <1>0, <5>1, <5>2 DEF CallInv
      <4>2. ToAudio("burst", v, Len(pushed)) = ToAudio("burst", w, Len(pushed))
        BY <3>2, <4>1, One DEF Bringing
      <4>3. v = w
        BY <4>2 DEF ToAudio
      <4>4. Len(pushed) \in DOMAIN pushed /\ pushed[Len(pushed)] = w
        BY <1>2, <4>1, <4>3
      <4>. QED BY <3>2, <4>4 DEF BurstsOf
    <3>. QED BY <1>8, <3>1, <3>2
  <2>3. ToSet(h) \subseteq BurstsOf(w)
    BY <1>5 DEF BurstsOf
  <2>4. b \subseteq BurstsOf(w)
    BY <2>2
  <2>5. ToSet(h) \cup b = BurstsOf(w)
    BY <2>1, <2>3, <2>4
  <2>. QED BY <2>5 DEF VoiceComplete
<1>11. ASSUME EndHandled(w) \/ audioDone
       PROVE  pending[w] = <<>> /\ wav[w] = Cardinality(Pcm(decided[w]))
  <2>1. CASE audioDone
    BY <1>0, <2>1 DEF StopInv, WavInv
  <2>2. CASE EndHandled(w)
    <3>1. w \in (1 .. opened) \ open /\ todo = <<>> /\ \A i \in DOMAIN audioQ : audioQ[i].wid # w
      BY <2>2 DEF EndHandled
    <3>2. todo # Closing(w)
      BY <3>1, Two DEF Closing
    <3>3. ~Told(w, 0)
      BY <3>1, <3>2 DEF Told, CloseAt
    <3>. QED BY <1>0, <3>1, <3>3 DEF EndInv, WavInv
  <2>. QED BY <1>11, <2>1, <2>2
<1>. QED BY <1>9, <1>10, <1>11

LEMMA SidecarTold ==
  ASSUME RecordingsInv
  PROVE  SidecarComplete
<1>1. SidecarInv
  BY DEF RecordingsInv, VInv
<1>2. audioQ = <<>> => DOMAIN audioQ = {}
  BY NothingIn
<1>. QED BY <1>1, <1>2 DEF SidecarInv, SidecarComplete

-----------------------------------------------------------------------------
(* What it says of the I/Q files.                                          *)

LEMMA FilesUnbroken ==
  ASSUME RecordingsInv
  PROVE  FilesAreStretches
<1>0. /\ TypeOK /\ QueueInv /\ PartsInv /\ input \in Nat
      /\ \A i \in DOMAIN files : files[i].parts \in Seq(Chunks)
  BY Sizes, PartsTyped DEF RecordingsInv, RInv
<1>1. ASSUME NEW i \in DOMAIN files, NEW p, p = files[i].parts
      PROVE  /\ Increasing(p)
             /\ \A c \in Head(p) .. Last(p) : c \in ToSet(p) \/ c \in dropped
  <2>1. p \in Seq(Chunks) /\ Unbroken(p, Arrived)
    BY <1>0, <1>1 DEF PartsInv
  <2>2. p # <<>> /\ Increasing(p) /\ ToSet(p) \subseteq Arrived
    BY <2>1 DEF Unbroken
  <2>3. Len(p) \in Nat \ {0} /\ DOMAIN p = 1 .. Len(p) /\ Head(p) = p[1]
    BY <2>1, <2>2, Shortened
  <2>4. Head(p) \in ToSet(p) /\ Last(p) \in ToSet(p)
    BY <2>3 DEF ToSet, Last
  <2>5. /\ Head(p) \in Arrived /\ Last(p) \in Arrived /\ Head(p) \in 1 .. input
        /\ Last(p) \in 1 .. input
    BY <2>2, <2>4 DEF Arrived
  <2>6. ASSUME NEW c \in Head(p) .. Last(p), c \notin dropped PROVE c \in Arrived
    <3>1. c \in 1 .. input /\ c <= Last(p) /\ c \in Int
      BY <1>0, <2>5
    <3>2. CASE c = Last(p)
      BY <2>5, <3>2
    <3>3. CASE c < Last(p)
      <4>1. ASSUME NEW k \in DOMAIN iqQ, iqQ[k].kind = "iq" PROVE iqQ[k].n # c
        <5>1. Last(p) <= Mark(iqQ[k])
          BY <1>0, <2>5 DEF QueueInv
        <5>2. Mark(iqQ[k]) = iqQ[k].n
          BY <4>1 DEF Mark
        <5>. QED BY <1>0, <2>5, <3>1, <3>3, <5>1, <5>2
      <4>. QED BY <2>6, <3>1, <4>1 DEF Arrived
    <3>. QED BY <2>5, <3>1, <3>2, <3>3
  <2>7. ASSUME NEW c \in Head(p) .. Last(p), c \notin dropped PROVE c \in ToSet(p)
    <3>1. c \in Arrived
      BY <2>6, <2>7
    <3>2. Head(p) <= c /\ c <= Last(p)
      BY <2>5
    <3>. QED BY <2>1, <2>4, <3>1, <3>2 DEF Unbroken
  <2>. QED BY <2>2, <2>7
<1>2. \A i, j \in DOMAIN files :
          i # j => ToSet(files[i].parts) \cap ToSet(files[j].parts) = {}
  BY <1>0 DEF PartsInv
<1>. QED BY <1>1, <1>2 DEF FilesAreStretches

LEMMA StoppedComplete ==
  ASSUME RecordingsInv
  PROVE  BroadcastsRecorded
<1>0. TypeOK /\ StopInv /\ PhaseInv /\ PrerollInv /\ RecordedInv
  BY DEF RecordingsInv, RInv
<1>. SUFFICES ASSUME stop = "stopped", NEW w \in 1 .. opened
              PROVE  \/ \E f \in FilesOf(w) : Full(f)
                     \/ /\ \A c \in Taken(beganAt[w] + 1, endedAt[w]) :
                               \E f \in FilesOf(w) : c \in ToSet(f.parts)
                        /\ \A c \in Taken(1, beganAt[w]) :
                               Cardinality(Taken(c, beganAt[w])) <= RingLen =>
                                   \E i \in DOMAIN files : c \in ToSet(files[i].parts)
  BY DEF BroadcastsRecorded
<1>1. iqPC = "done" /\ dsp = "done" /\ todo = <<>> /\ open = {}
  BY <1>0 DEF StopInv
<1>2. iqQ = <<>> /\ rec = NotRecording /\ reopen = 0
  BY <1>0, <1>1 DEF PhaseInv
<1>3. ToStart = {}
  <2>1. DOMAIN iqQ = {}
    BY <1>2, NothingIn
  <2>2. \A v : todo # Opening(v)
    BY <1>1, One DEF Opening
  <2>. QED BY <2>1, <2>2 DEF ToStart
<1>4. w \in Started /\ ~IsRecording /\ reopen # w /\ EndOf(w) = endedAt[w]
  BY <1>1, <1>2, <1>3 DEF Started, IsRecording, EndOf
<1>5. \A i \in DOMAIN files : files[i].wid = w => files[i] \in FilesOf(w)
  BY DEF FilesOf
<1>6. CASE IsFull(w)
  BY <1>5, <1>6 DEF IsFull
<1>7. CASE ~IsFull(w)
  <2>1. \A c \in Taken(beganAt[w] + 1, endedAt[w]) : InFileOf(w, c)
    BY <1>0, <1>4, <1>7 DEF RecordedInv
  <2>2. \A c \in Taken(beganAt[w] + 1, endedAt[w]) : \E f \in FilesOf(w) : c \in ToSet(f.parts)
    BY <1>5, <2>1 DEF InFileOf
  <2>3. \A c \in Taken(1, beganAt[w]) :
            Cardinality(Taken(c, beganAt[w])) <= RingLen =>
                \E i \in DOMAIN files : c \in ToSet(files[i].parts)
    BY <1>0, <1>4 DEF PrerollInv, InFile, InRecording
  <2>. QED BY <2>2, <2>3
<1>. QED BY <1>6, <1>7

-----------------------------------------------------------------------------
(* The theorems.                                                           *)

\* The invariant: every state the loop, the audio worker, the recorder and
\* Pipeline.Stop can reach has it, whatever is sent, dropped or lost.
THEOREM RecordingsKeep == Spec => []RecordingsInv
<1>1. Init => RecordingsInv
  BY AtFirst
<1>2. RecordingsInv /\ [Next]_vars => RecordingsInv'
  BY InvariantKept
<1>. QED BY <1>1, <1>2, PTL DEF Spec

\* The voice of a broadcast reaches its WAV file whole and in order, once its
\* end is handled or the worker has stopped: pushBurst sends each burst through
\* one queue, windowClosed follows the last, and Stop ends the worker only
\* after the loop.
THEOREM VoiceIsKept == Spec => []VoiceReachesFile
<1>1. RecordingsInv => VoiceReachesFile
  BY VoiceOnItsWay
<1>. QED BY <1>1, RecordingsKeep, PTL

\* The text beside a WAV file tells of the finished I/Q file when the worker
\* and the recorder are at rest: finalize sets the state before it asks for the
\* text anew, and the worker writes what the state says then.
THEOREM SidecarsComplete == Spec => []SidecarComplete
<1>1. RecordingsInv => SidecarComplete
  BY SidecarTold
<1>. QED BY <1>1, RecordingsKeep, PTL

\* An I/Q file is an unbroken stretch of the input, no input is in two files,
\* and after Stop every broadcast is recorded from its pre-roll to its end, but
\* for what the recorder's queue had no room for or a full file cut off.
THEOREM FilesAreRight == Spec => []FilesInv
<1>1. RecordingsInv => FilesInv
  BY FilesUnbroken, StoppedComplete DEF RecordingsInv, FilesInv
<1>. QED BY <1>1, RecordingsKeep, PTL
===============================================================================
