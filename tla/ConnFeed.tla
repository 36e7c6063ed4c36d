------------------------------- MODULE ConnFeed -------------------------------
(***************************************************************************)
(* From the broadcasts of the STD-T115 monitor to the pages that show them   *)
(* (internal/std-t115/qpsknarrow/server: app.go hub and serveWS, pipeline.go  *)
(* Snapshot, openBroadcast, closeBroadcast, and static/store.js apply).      *)
(*                                                                         *)
(* The processing loop changes the state under one lock and hands the event   *)
(* to the queues of the listed connections under another.  A connection is    *)
(* listed before its snapshot is taken.  Its handler writes what is queued;   *)
(* its reader notices that the page has gone.  Both may remove it.           *)
(*                                                                         *)
(* Abstracted: the broadcasts are told apart by their ids; the other events   *)
(* (frames, control messages, log lines) take the same way.                  *)
(***************************************************************************)
EXTENDS Integers, Sequences, SequencesExt

CONSTANTS
    Peers,    \* connections
    LastId,   \* bound: broadcasts
    SendCap   \* make(chan []byte, 256)

VARIABLES
    current,     \* p.current, 0 for nil
    broadcasts,  \* p.broadcasts, nextBCID - 1 of them ended or open
    replaced,    \* history: those that a start for another call ended
    telling,     \* the event on its way to the hub
    peers,       \* conn, its handler, its reader and its page
    panicked     \* a send on or a close of a closed channel

connVars == <<current, broadcasts, replaced, telling, peers, panicked>>

None == 0
Silent == [kind |-> "none"]
Ids == 1 .. LastId

NewPeer == [phase |-> "off", listed |-> FALSE, shut |-> FALSE, reading |-> FALSE,
            send |-> <<>>, page |-> [current |-> None, broadcasts |-> <<>>],
            gone |-> FALSE, lossy |-> FALSE]

ConnInit ==
    /\ current = None /\ broadcasts = <<>> /\ replaced = {}
    /\ telling = Silent
    /\ peers = [c \in Peers |-> NewPeer]
    /\ panicked = FALSE

-----------------------------------------------------------------------------
(* pipeline.go: the loop tells of a change once it has made it.            *)

NextId == Len(broadcasts) + 1 + (IF current = None THEN 0 ELSE 1)

\* openBroadcast; one that is open for another call ends untold.
OpenBroadcast ==
    /\ telling = Silent /\ NextId <= LastId
    /\ IF current = None
       THEN UNCHANGED <<broadcasts, replaced>>
       ELSE broadcasts' = Append(broadcasts, current) /\ replaced' = replaced \cup {current}
    /\ current' = NextId
    /\ telling' = [kind |-> "broadcast_start", id |-> NextId]
    /\ UNCHANGED <<peers, panicked>>

\* closeBroadcast.
CloseBroadcast ==
    /\ telling = Silent /\ current # None
    /\ broadcasts' = Append(broadcasts, current)
    /\ current' = None
    /\ telling' = [kind |-> "broadcast_end", id |-> current]
    /\ UNCHANGED <<replaced, peers, panicked>>

-----------------------------------------------------------------------------
(* app.go: the hub. Nobody is added or removed during a broadcast.         *)

Enqueue(peer, event) ==
    IF ~peer.listed THEN peer
    ELSE IF Len(peer.send) < SendCap THEN [peer EXCEPT !.send = Append(@, event)]
    ELSE [peer EXCEPT !.lossy = TRUE]

Broadcast ==
    /\ telling # Silent
    /\ peers' = [c \in Peers |-> Enqueue(peers[c], telling)]
    /\ panicked' = (panicked \/ \E c \in Peers : peers[c].listed /\ peers[c].shut)
    /\ telling' = Silent
    /\ UNCHANGED <<current, broadcasts, replaced>>

\* Slip: the connection stays listed.
RemoveConnListed(peer) == [peer EXCEPT !.shut = TRUE]

\* remove: what is not listed any more is not closed again.
RemoveConn(peer) == IF peer.listed THEN [peer EXCEPT !.listed = FALSE, !.shut = TRUE] ELSE peer
Recloses(peer) == peer.listed /\ peer.shut

-----------------------------------------------------------------------------
(* serveWS.                                                                *)

Add(c) ==
    /\ peers[c].phase = "off" /\ ~peers[c].gone
    /\ peers' = [peers EXCEPT ![c] = [NewPeer EXCEPT !.phase = "added", !.listed = TRUE]]
    /\ UNCHANGED <<current, broadcasts, replaced, telling, panicked>>

Snapshot == [current |-> current, broadcasts |-> broadcasts]

\* The snapshot is written, whether the page still takes it or not, and the reader
\* goes off on its own.
SendSnapshot(c) ==
    /\ peers[c].phase = "added"
    /\ peers' = [peers EXCEPT ![c].phase = "live", ![c].reading = TRUE, ![c].page = Snapshot]
    /\ UNCHANGED <<current, broadcasts, replaced, telling, panicked>>

\* The reader gets an error and removes the connection.
ReaderEnds(c) ==
    /\ peers[c].reading /\ peers[c].gone
    /\ peers' = [peers EXCEPT ![c] = [RemoveConn(@) EXCEPT !.reading = FALSE]]
    /\ panicked' = (panicked \/ Recloses(peers[c]))
    /\ UNCHANGED <<current, broadcasts, replaced, telling>>

\* apply of store.js.
Apply(page, event) ==
    CASE event.kind = "broadcast_start" -> [page EXCEPT !.current = event.id]
      [] event.kind = "broadcast_end" ->
            [current |-> None, broadcasts |-> Append(page.broadcasts, event.id)]

Deliver(c) ==
    /\ peers[c].phase = "live" /\ peers[c].send # <<>>
    /\ peers' = [peers EXCEPT ![c].send = Tail(@),
                              ![c].page = IF peers[c].gone THEN @
                                          ELSE Apply(@, Head(peers[c].send))]
    /\ UNCHANGED <<current, broadcasts, replaced, telling, panicked>>

\* The handler returns when a write fails or the closed queue is empty.
HandlerEnds(c) ==
    /\ peers[c].phase = "live"
    /\ \/ peers[c].gone /\ peers[c].send # <<>>
       \/ peers[c].shut /\ peers[c].send = <<>>
    /\ peers' = [peers EXCEPT ![c] = [RemoveConn(@) EXCEPT !.phase = "done"]]
    /\ panicked' = (panicked \/ Recloses(peers[c]))
    /\ UNCHANGED <<current, broadcasts, replaced, telling>>

PageLeaves(c) ==
    /\ peers[c].phase # "off" /\ ~peers[c].gone
    /\ peers' = [peers EXCEPT ![c].gone = TRUE]
    /\ UNCHANGED <<current, broadcasts, replaced, telling, panicked>>

ConnStep(c) ==
    SendSnapshot(c) \/ ReaderEnds(c) \/ Deliver(c) \/ HandlerEnds(c)

ConnNext ==
    \/ OpenBroadcast \/ CloseBroadcast \/ Broadcast
    \/ \E c \in Peers : Add(c) \/ ConnStep(c) \/ PageLeaves(c)

\* Goroutines run; nobody has to broadcast, connect or leave.
ConnFairness ==
    /\ WF_connVars(Broadcast)
    /\ \A c \in Peers :
          /\ WF_connVars(SendSnapshot(c)) /\ WF_connVars(ReaderEnds(c))
          /\ WF_connVars(Deliver(c) \/ HandlerEnds(c))

ConnSpec == ConnInit /\ [][ConnNext]_connVars /\ ConnFairness

-----------------------------------------------------------------------------
(* Properties.                                                             *)

Pages == [current : Ids \cup {None}, broadcasts : Seq(Ids)]

ConnTypeOK ==
    /\ current \in Ids \cup {None} /\ broadcasts \in Seq(Ids) /\ replaced \subseteq Ids
    /\ \A c \in Peers : peers[c].page \in Pages /\ Len(peers[c].send) <= SendCap

\* Reader and handler both remove a connection, the loop sends to it: no send to and
\* no second close of a closed channel, either of which would end the program.
NeverPanics == ~panicked

\* What the page will show once it has all that is on its way to it: a broadcast is on
\* the air unless its end came last, each end adds the broadcast to the list (Apply).
OnItsWay(peer) == IF telling = Silent THEN peer.send ELSE Append(peer.send, telling)
Shows(event) == IF event.kind = "broadcast_start" THEN event.id ELSE None
Ended(events) == {event.id : event \in {e \in Range(events) : e.kind = "broadcast_end"}}
WillBeCurrent(peer) ==
    IF OnItsWay(peer) = <<>> THEN peer.page.current ELSE Shows(Last(OnItsWay(peer)))
WillBeListed(peer) == Range(peer.page.broadcasts) \cup Ended(OnItsWay(peer))

\* A connected page whose queue never was full is never going to miss anything: with
\* what is on its way it shows the state, though not a broadcast that another replaced.
\* It may list a broadcast twice that its snapshot and an event both end.
NothingMissed ==
    \A c \in Peers :
        peers[c].phase = "live" /\ ~peers[c].gone /\ ~peers[c].lossy =>
            /\ WillBeCurrent(peers[c]) = current
            /\ Range(broadcasts) \ replaced \subseteq WillBeListed(peers[c])
            /\ WillBeListed(peers[c]) \subseteq Range(broadcasts)

\* A page that has gone leaves the hub and its handler returns, sent to or not.
GoneConnsEnd == \A c \in Peers : (peers[c].gone) ~> (peers[c].phase = "done" /\ ~peers[c].listed)
=============================================================================
