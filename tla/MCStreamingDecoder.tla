-------------------------- MODULE MCStreamingDecoder --------------------------
(* A small air for StreamingDecoder: the messages of one broadcast.         *)
EXTENDS StreamingDecoder

Msg(type, bcast) ==
    [type |-> type, crc |-> TRUE, bcast |-> bcast, slots |-> bcast,
     call |-> 0, bits |-> 0]

MCMessages == {Msg("start", TRUE), Msg("release", TRUE), Msg("idle", TRUE)}
MCAirSlots == [station : Stations, msg : MCMessages]
=============================================================================
