-------------------------- MODULE MCBroadcastTracker --------------------------
(* Small values of the air for BroadcastTracker.                            *)
EXTENDS BroadcastTracker

Msg(type, crc, bcast, call) ==
    [type |-> type, crc |-> crc, bcast |-> bcast, slots |-> bcast,
     call |-> call, bits |-> 0]

MCMessages ==
    {Msg("idle", TRUE, b, 0) : b \in BOOLEAN}
      \cup {Msg("start", TRUE, TRUE, n) : n \in Calls}
      \cup {Msg("release", TRUE, b, 0) : b \in BOOLEAN}
      \cup {Msg(t, FALSE, TRUE, 0) : t \in {"delayed", "release"}}
      \cup {[Msg("idle", TRUE, TRUE, 0) EXCEPT !.slots = FALSE]}
      \cup {Msg("radio", TRUE, FALSE, 0)}
=============================================================================
