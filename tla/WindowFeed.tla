------------------------------ MODULE WindowFeed ------------------------------
(***************************************************************************)
(* From the state of the STD-T86 monitor to the pages that show it           *)
(* (internal/std-t86/server: state.go, pipeline.go emit and send, app.go hub, *)
(* drainEvents, serveWS, and static/store.js apply).                        *)
(*                                                                         *)
(* The DSP loop and the audio worker change the state and emit events, each  *)
(* in its own goroutine; events pass a bounded channel, are published to one *)
(* bounded queue per client, and each handler writes its queue to its page.  *)
(* A new client is sent a snapshot of the state and registered after that.   *)
(*                                                                         *)
(* Abstracted: a window is not known, open or closed; the quality strip has  *)
(* the number k in its k-th place, Unknown for the "?" a page fills in.      *)
(* Other events (control messages, meters, constellation) take the same way. *)
(***************************************************************************)
EXTENDS Integers, Sequences, SequencesExt

CONSTANTS
    Conns,     \* connections of pages
    Windows,   \* ids of broadcast windows, 1 .. N
    StripMax,  \* bound: length of a quality strip
    EventCap,  \* eventBuffer of the pipeline
    HubCap,    \* newHub(512)
    LogCap     \* logLinesCap

VARIABLES
    live,      \* liveState
    emitting,  \* what each goroutine is emitting
    eventCh,   \* pipeline.eventCh
    overflowed,\* history: an event found no room in eventCh
    pub,       \* the publish that holds the hub
    conns      \* serveWS of each connection, its queue and its page

feedVars == <<live, emitting, eventCh, overflowed, pub, conns>>

Emitters == {"loop", "worker"}
Unknown == 0

\* Events are numbered as the state changes they report.
Event == [n : Nat, by : Emitters, kind : {"start", "end", "audio"}, id : Windows,
          from : 0 .. StripMax, len : 0 .. StripMax, logged : BOOLEAN]
NoEvent == [n |-> 0]

Page == [active : BOOLEAN, win : [Windows -> {"none", "open", "closed"}],
         strip : [Windows -> Seq(0 .. StripMax)], log : Seq(Emitters \X Nat)]

BlankPage == [active |-> FALSE, win |-> [w \in Windows |-> "none"],
              strip |-> [w \in Windows |-> <<>>], log |-> <<>>]

Closed == [phase |-> "off", ch |-> <<>>, page |-> BlankPage, lines |-> 0,
           gone |-> FALSE, lossy |-> FALSE]

FeedInit ==
    /\ live = [made |-> 0, open |-> 0, win |-> [w \in Windows |-> "none"],
               strip |-> [w \in Windows |-> 0], log |-> <<>>]
    /\ emitting = [e \in Emitters |-> NoEvent]
    /\ eventCh = <<>> /\ overflowed = FALSE
    /\ pub = [ev |-> NoEvent, left |-> {}, full |-> {}]
    /\ conns = [c \in Conns |-> Closed]

-----------------------------------------------------------------------------
(* state.go, and emit of the pipeline.                                     *)

Quiet(e) == emitting[e] = NoEvent

\* A goroutine is to emit the event of the change it makes.
Emitting(e, what, w, first, more) ==
    emitting' = [emitting EXCEPT ![e] = [n |-> live.made + 1, by |-> e, kind |-> what,
                                         id |-> w, from |-> first, len |-> more,
                                         logged |-> FALSE]]

\* broadcastStarted and its event.
BroadcastStarted ==
    \E id \in Windows :
        /\ Quiet("loop") /\ live.open = 0
        /\ live.win[id] = "none" /\ \A w \in Windows : w < id => live.win[w] # "none"
        /\ live' = [live EXCEPT !.made = @ + 1, !.open = id, !.win[id] = "open"]
        /\ Emitting("loop", "start", id, 0, 0)
        /\ UNCHANGED <<eventCh, overflowed, pub, conns>>

\* finishWindow: broadcastEnded and its event.
FinishWindow ==
    /\ Quiet("loop") /\ live.open # 0
    /\ live' = [live EXCEPT !.made = @ + 1, !.open = 0, !.win[live.open] = "closed"]
    /\ Emitting("loop", "end", live.open, 0, 0)
    /\ UNCHANGED <<eventCh, overflowed, pub, conns>>

\* decodeBatch: setAudioStatus with the whole strip, the event with what is new.
AudioStatus ==
    \E id \in Windows :
        /\ Quiet("worker") /\ live.win[id] # "none" /\ live.strip[id] < StripMax
        /\ live' = [live EXCEPT !.made = @ + 1, !.strip[id] = @ + 1]
        /\ Emitting("worker", "audio", id, live.strip[id], 1)
        /\ UNCHANGED <<eventCh, overflowed, pub, conns>>

\* The log line of an event.
Line(ev) == <<ev.by, ev.n>>

LastOf(s, k) == IF Len(s) > k THEN SubSeq(s, Len(s) - k + 1, Len(s)) ELSE s

\* emit: addLog, ...
AddLog ==
    \E e \in Emitters :
        /\ ~Quiet(e) /\ ~emitting[e].logged
        /\ live' = [live EXCEPT !.log = LastOf(Append(@, Line(emitting[e])), LogCap)]
        /\ emitting' = [emitting EXCEPT ![e].logged = TRUE]
        /\ UNCHANGED <<eventCh, overflowed, pub, conns>>

Queued(ev) == Append(eventCh, ev)

\* ... then send: an event for which there is no room is dropped.
Send ==
    \E e \in Emitters :
        /\ ~Quiet(e) /\ emitting[e].logged
        /\ IF Len(eventCh) < EventCap
           THEN eventCh' = Queued(emitting[e]) /\ UNCHANGED overflowed
           ELSE overflowed' = TRUE /\ UNCHANGED eventCh
        /\ emitting' = [emitting EXCEPT ![e] = NoEvent]
        /\ UNCHANGED <<live, pub, conns>>

-----------------------------------------------------------------------------
(* hub and drainEvents.                                                    *)

Registered(c) == conns[c].phase = "live"
Idle == [ev |-> NoEvent, left |-> {}, full |-> {}]
HubFree == pub = Idle

\* History: a connected client is not sent an event.
Misses(client) == [client EXCEPT !.lossy = @ \/ client.phase # "off"]

\* drainEvents takes an event; publish takes the hub if there is anyone to send to.
\* Clients with a snapshot but not registered miss the event.
Drain ==
    /\ HubFree /\ eventCh # <<>>
    /\ LET there == {c \in Conns : Registered(c)} IN
       /\ pub' = IF there = {} THEN pub ELSE [ev |-> Head(eventCh), left |-> there, full |-> {}]
       /\ conns' = [c \in Conns |-> IF c \in there \/ Contains(conns[c].page.log, Line(Head(eventCh)))
                                    THEN conns[c] ELSE Misses(conns[c])]
    /\ eventCh' = Tail(eventCh)
    /\ UNCHANGED <<live, emitting, overflowed>>

\* The client has the event; after the last one publish returns.
Served(c) ==
    pub' = IF pub.left = {c} THEN Idle ELSE [pub EXCEPT !.left = @ \ {c}, !.full = {}]

\* publish tries one client after the other; the queue may be read meanwhile.
PublishOne ==
    \E c \in pub.left :
        /\ pub.full = {}
        /\ IF Len(conns[c].ch) < HubCap
           THEN Served(c) /\ conns' = [conns EXCEPT ![c].ch = Append(@, pub.ev)]
           ELSE pub' = [pub EXCEPT !.full = {c}] /\ UNCHANGED conns
        /\ UNCHANGED <<live, emitting, eventCh, overflowed>>

\* The oldest event, if still there, makes room for this one.
DropOldest(client, ev) ==
    LET fewer == IF client.ch = <<>> THEN client ELSE [Misses(client) EXCEPT !.ch = Tail(@)]
    IN [fewer EXCEPT !.ch = Append(@, ev)]

MakeRoom ==
    \E c \in pub.full :
        /\ Served(c)
        /\ conns' = [conns EXCEPT ![c] = DropOldest(@, pub.ev)]
        /\ UNCHANGED <<live, emitting, eventCh, overflowed>>

-----------------------------------------------------------------------------
(* The page: apply of store.js.                                            *)

StripOf(n) == [k \in 1 .. n |-> k]

\* Slip: a tail that begins past the end is put right behind it.
MergeUnpadded(cum, from, add) ==
    (IF from > Len(cum) THEN cum ELSE SubSeq(cum, 1, from)) \o add

\* mergeQuality: what is missing before "from" is filled with "?".
MergeQuality(cum, from, add) ==
    IF from > Len(cum)
    THEN cum \o [k \in 1 .. from - Len(cum) |-> Unknown] \o add
    ELSE SubSeq(cum, 1, from) \o add

Apply(page, ev) ==
    LET p == [page EXCEPT !.log = Append(@, Line(ev))] IN
    CASE ev.kind = "start" -> [p EXCEPT !.active = TRUE, !.win[ev.id] = "open"]
      [] ev.kind = "end"   -> [p EXCEPT !.active = FALSE, !.win[ev.id] = "closed"]
      [] ev.kind = "audio" ->
            [p EXCEPT !.strip[ev.id] =
                MergeQuality(@, ev.from, SubSeq(StripOf(ev.from + ev.len), ev.from + 1,
                                                ev.from + ev.len))]

\* snapshot of liveState as applySnapshot takes it over.
SnapshotPage ==
    [active |-> live.open # 0, win |-> live.win,
     strip |-> [w \in Windows |-> StripOf(live.strip[w])], log |-> live.log]

-----------------------------------------------------------------------------
(* serveWS.                                                                *)

\* The connection is accepted and the snapshot taken.
Accept(c) ==
    /\ conns[c].phase = "off" /\ ~conns[c].gone
    /\ conns' = [conns EXCEPT ![c] =
          [Closed EXCEPT !.phase = "snapped", !.page = SnapshotPage, !.lines = Len(live.log)]]
    /\ UNCHANGED <<live, emitting, eventCh, overflowed, pub>>

\* The snapshot is written: to a page that has gone, the handler returns.
WriteSnapshot(c) ==
    /\ conns[c].phase = "snapped"
    /\ conns' = [conns EXCEPT ![c] =
          IF @.gone THEN [Closed EXCEPT !.gone = TRUE] ELSE [@ EXCEPT !.phase = "written"]]
    /\ UNCHANGED <<live, emitting, eventCh, overflowed, pub>>

\* The page has its snapshot and the hub lets the client in.
Register(c) ==
    /\ conns[c].phase = "written" /\ HubFree
    /\ conns' = [conns EXCEPT ![c].phase = "live"]
    /\ UNCHANGED <<live, emitting, eventCh, overflowed, pub>>

\* Slip: the error of a write is not looked at.
DeliverBlind(c) ==
    /\ Registered(c) /\ conns[c].ch # <<>>
    /\ conns' = [conns EXCEPT ![c].page = Apply(@, Head(conns[c].ch)), ![c].ch = Tail(@)]
    /\ UNCHANGED <<live, emitting, eventCh, overflowed, pub>>

\* One message from the queue; a write to a page that has gone fails, and the
\* handler unregisters.
Deliver(c) ==
    /\ Registered(c) /\ conns[c].ch # <<>>
    /\ IF conns[c].gone
       THEN HubFree /\ conns' = [conns EXCEPT ![c] = [Closed EXCEPT !.gone = TRUE]]
       ELSE conns' = [conns EXCEPT ![c].page = Apply(@, Head(conns[c].ch)), ![c].ch = Tail(@)]
    /\ UNCHANGED <<live, emitting, eventCh, overflowed, pub>>

PageLeaves(c) ==
    /\ conns[c].phase # "off" /\ ~conns[c].gone
    /\ conns' = [conns EXCEPT ![c].gone = TRUE]
    /\ UNCHANGED <<live, emitting, eventCh, overflowed, pub>>

Handler(c) == WriteSnapshot(c) \/ Register(c) \/ Deliver(c)

FeedNext ==
    \/ BroadcastStarted \/ FinishWindow \/ AudioStatus
    \/ AddLog \/ Send \/ Drain \/ PublishOne \/ MakeRoom
    \/ \E c \in Conns : Accept(c) \/ Handler(c) \/ PageLeaves(c)

\* Goroutines run; nobody has to connect, leave, or broadcast.
FeedFairness ==
    /\ WF_feedVars(AddLog) /\ WF_feedVars(Send)
    /\ WF_feedVars(Drain) /\ WF_feedVars(PublishOne) /\ WF_feedVars(MakeRoom)
    /\ \A c \in Conns : WF_feedVars(WriteSnapshot(c)) /\ SF_feedVars(Register(c))
                        /\ SF_feedVars(Deliver(c))

FeedSpec == FeedInit /\ [][FeedNext]_feedVars /\ FeedFairness

-----------------------------------------------------------------------------
(* Properties.                                                             *)

FeedTypeOK ==
    /\ live.made \in Nat /\ live.open \in Windows \cup {0} /\ Len(live.log) <= LogCap
    /\ Len(eventCh) <= EventCap
    /\ \A c \in Conns : conns[c].page \in Page /\ Len(conns[c].ch) <= HubCap

\* Every place of a quality strip shows that place of the broadcast or "?",
\* whatever events were dropped on the way, came before the snapshot or came twice.
StripAligned ==
    \A c \in Conns, w \in Windows :
        \A k \in DOMAIN conns[c].page.strip[w] : conns[c].page.strip[w][k] \in {k, Unknown}

Follows(c) == Registered(c) /\ ~conns[c].gone

Settled ==
    /\ \A e \in Emitters : Quiet(e)
    /\ eventCh = <<>> /\ HubFree
    /\ \A c \in Conns : Registered(c) => conns[c].ch = <<>>

\* A page from whose queue no event was pushed out, and that missed none between its
\* snapshot and its registration but those the snapshot held, shows the state once
\* everything is delivered, also when the snapshot held events that came after it.
Converged ==
    Settled /\ ~overflowed => \A c \in Conns :
        Follows(c) /\ ~conns[c].lossy =>
            /\ conns[c].page.active = (live.open # 0)
            /\ conns[c].page.win = live.win
            /\ conns[c].page.strip = SnapshotPage.strip
            /\ Range(live.log) \subseteq Range(conns[c].page.log)

\* The events of one goroutine are shown in their order, none twice.
ShownInOrder ==
    \A c \in Conns :
        LET log == conns[c].page.log IN
        \A i, j \in conns[c].lines + 1 .. Len(log) :
            i < j /\ log[i][1] = log[j][1] => log[i][2] < log[j][2]

\* A page that has gone leaves the hub once something is sent to it.
GoneLeaves == \A c \in Conns : (Registered(c) /\ conns[c].gone /\ conns[c].ch # <<>>) ~> ~Registered(c)
=============================================================================
