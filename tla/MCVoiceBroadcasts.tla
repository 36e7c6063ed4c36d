--------------------------- MODULE MCVoiceBroadcasts ---------------------------
(* A small receiver for VoiceBroadcasts.                                    *)
EXTENDS VoiceBroadcasts
=============================================================================
