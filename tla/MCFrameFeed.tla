------------------------------ MODULE MCFrameFeed ------------------------------
(* The values a small receiver takes, in units of a quarter frame.           *)
EXTENDS FrameFeed

MCTimes == 0 .. End
MCVoices == FrameNos
=============================================================================
