-------------------------------- MODULE IqFiles --------------------------------
(***************************************************************************)
(* server.iqRecorder of the STD-T115 monitor (internal/std-t115/qpsknarrow/ *)
(* server/iqrecorder.go): it cuts one I/Q file per broadcast out of the    *)
(* input, with what came just before it.  The operators work on a recorder  *)
(* record; samples are counted in radio frames and a file is the interval   *)
(* of the input it holds.                                                  *)
(***************************************************************************)
EXTENDS Integers, FiniteSets

CONSTANTS
    RingMax,    \* length of the pre-roll ring (iqPrerollSec + decoder lag)
    TailLen,    \* recorded after the end (iqTailSec)
    RecordMax   \* longest file (iqMaxSec)

ASSUME RecorderConstants ==
    RingMax \in Nat /\ TailLen \in Nat /\ RecordMax \in Nat \ {0}

File == [id : Nat, from : Nat, to : Nat]

\* A recorder that is not active keeps what came since ringFrom in its ring.
Recorder == [active : BOOLEAN, id : Nat, from : Nat, stopAt : Nat, pos : Nat,
             ringFrom : Nat, files : SUBSET File]

NewRecorder == [active |-> FALSE, id |-> 0, from |-> 0, stopAt |-> 0, pos |-> 0,
                ringFrom |-> 0, files |-> {}]

Later(a, b) == IF a < b THEN b ELSE a
Sooner(a, b) == IF a < b THEN a ELSE b

RingStart(r) == Later(r.ringFrom, r.pos - RingMax)

\* Slip: the ring is not emptied for the next file.
RecFinishKeepsRing(r) ==
    [r EXCEPT !.active = FALSE, !.stopAt = 0,
              !.files = @ \cup {[id |-> r.id, from |-> r.from,
                                 to |-> Sooner(r.pos, r.from + RecordMax)]}]

\* finishLocked: an empty recording leaves no file.
RecFinish(r) ==
    LET file == [id |-> r.id, from |-> r.from,
                 to |-> Sooner(r.pos, r.from + RecordMax)]
    IN [r EXCEPT !.active = FALSE, !.stopAt = 0, !.ringFrom = r.pos,
                 !.files = IF file.from < file.to THEN @ \cup {file} ELSE @]

RecFeed(r, n) ==
    LET fed == [r EXCEPT !.pos = @ + n]
    IN IF fed.active /\ fed.stopAt > 0 /\ fed.pos >= fed.stopAt
       THEN RecFinish(fed) ELSE fed

\* A broadcast that begins while a file is still being written gets none.
RecStart(r, id) ==
    IF r.active THEN r
    ELSE [r EXCEPT !.active = TRUE, !.id = id, !.stopAt = 0,
                   !.from = RingStart(r)]

RecStop(r) ==
    IF ~r.active \/ r.stopAt > 0 THEN r ELSE [r EXCEPT !.stopAt = r.pos + TailLen]

RecFlush(r) == IF r.active THEN RecFinish(r) ELSE r
=============================================================================
