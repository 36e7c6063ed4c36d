----------------------------- MODULE MCRecordings -----------------------------
(* Small instances of Recordings.                                           *)
EXTENDS Recordings
=============================================================================
