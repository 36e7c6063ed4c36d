---------------------------- MODULE MCLivePipeline ----------------------------
(* Small airs for LivePipeline.                                             *)
EXTENDS LivePipeline

Msg(type, crc) ==
    [type |-> type, crc |-> crc, bcast |-> TRUE, slots |-> TRUE,
     call |-> 0, bits |-> 0]

\* One station; a pin may ask for another.
MCAirSlots ==
    [station : {1},
     msg : {Msg("start", TRUE), Msg("release", TRUE), Msg("idle", TRUE)}]

\* Broadcasts only begin.
MCStartSlots == [station : Stations, msg : {Msg("start", TRUE), Msg("idle", TRUE)}]
=============================================================================
