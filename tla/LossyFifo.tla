------------------------------- MODULE LossyFifo -------------------------------
(***************************************************************************)
(* What the queue between readLoop and the decoding loop promises, in both  *)
(* monitors: chunks come out in the order in which they were read, each at  *)
(* most once, and one that does not come out before a later one was lost.   *)
(***************************************************************************)
EXTENDS Naturals

VARIABLES
    sent,   \* chunks read so far, numbered from 1
    got,    \* those that came out
    lost    \* those that never will

fifoVars == <<sent, got, lost>>

Decided == got \cup lost

Init == sent = 0 /\ got = {} /\ lost = {}

Send ==
    /\ sent' = sent + 1
    /\ UNCHANGED <<got, lost>>

Deliver ==
    \E n \in 1 .. sent :
        /\ n \notin Decided
        /\ \A m \in 1 .. n - 1 : m \in Decided
        /\ got' = got \cup {n}
        /\ UNCHANGED <<sent, lost>>

Lose ==
    \E n \in 1 .. sent :
        /\ n \notin Decided
        /\ lost' = lost \cup {n}
        /\ UNCHANGED <<sent, got>>

Next == Send \/ Deliver \/ Lose

Spec == Init /\ [][Next]_fifoVars
=============================================================================
