----------------------------- MODULE MCSampleQueue -----------------------------
(* Small instances of SampleQueue.                                          *)
EXTENDS SampleQueue
=============================================================================
