------------------------------- MODULE Multiplex -------------------------------
(* Where the code words of a frame go in the voice codec of std-t86               *)
(* (scodec/multiplex.go): from both ends, the important ones first.               *)
EXTENDS Integers, Sequences, FiniteSets
CONSTANTS TotalBits,     \* bits of the frame
          ProtectedBits, \* bits at its start that are protected
          MaxLength      \* bound: the length of a code word

VARIABLES fwd, rev, toggle, \* AdaptivePlacement: the free part, and whose turn it is
          out,              \* the placements so far
          refused           \* the code words were too long
muxVars == <<fwd, rev, toggle, out, refused>>

MuxInit == fwd = 0 /\ rev = TotalBits /\ toggle = 0 /\ out = <<>> /\ refused = FALSE

Placed(start, length, dir) == Append(out, [start |-> start, length |-> length, dir |-> dir])

\* Within the protected bits words go forward, after that backward and forward in turn.
GoesForward == fwd < ProtectedBits \/ toggle % 2 = 1

Place(length) ==
    /\ IF GoesForward
       THEN fwd' = fwd + length /\ out' = Placed(fwd, length, "F") /\ UNCHANGED rev
       ELSE rev' = rev - length /\ out' = Placed(rev - length, length, "R") /\ UNCHANGED fwd
    /\ toggle' = IF fwd < ProtectedBits THEN toggle ELSE toggle + 1
    /\ refused' = (fwd' > rev')

MuxNext == ~refused /\ Len(out) < TotalBits /\ \E length \in 1..MaxLength : Place(length)

MuxSpec == MuxInit /\ [][MuxNext]_muxVars

MuxTypeOK == fwd \in Nat /\ rev \in Int /\ toggle \in Nat /\ refused \in BOOLEAN

\* The code words of a frame that is not refused share no bit, lie within it and leave
\* free just what is between the two ends, so that separating it gives back what was
\* put in; a frame is only refused for what does not fit (AdaptivePlacement).
WordsApart ==
    LET bits(p) == p.start..p.start + p.length - 1
        sum[n \in 0..Len(out)] == IF n = 0 THEN 0 ELSE sum[n - 1] + out[n].length
    IN IF refused THEN sum[Len(out)] > TotalBits
       ELSE /\ \A i, j \in DOMAIN out : i # j => bits(out[i]) \cap bits(out[j]) = {}
            /\ UNION {bits(out[i]) : i \in DOMAIN out} = (0..fwd - 1) \cup (rev..TotalBits - 1)
=============================================================================
