------------------------------ MODULE IqTcpServer ------------------------------
(***************************************************************************)
(* The server of the SDR# plugin (contrib/sdrsharp-iq-tcp/IqTcpServer.cs),   *)
(* from which std-t86 reads samples over TCP: the panel starts and stops it,  *)
(* a thread accepts connections, one thread for each client sends what the    *)
(* sample stream has put into its queue.  A block of samples is its number.  *)
(***************************************************************************)
EXTENDS Integers, Sequences, SequencesExt

CONSTANTS
    Socks,      \* connections, each made once
    QueueCap,   \* QueueCapacity (64)
    MaxBlocks,  \* bound: blocks of the stream
    MaxStarts   \* bound: starts of the server

VARIABLES
    running,    \* _running
    listener,   \* _listener: the number of its start, 0 for null
    starts,     \* starts so far; each has made one accept thread
    stopping,   \* Stop is between closing the listener and clearing the list
    acceptors,  \* the accept threads: what each is at
    clients,    \* _clients
    sock,       \* of each connection: its Client, its thread, its peer
    sent,       \* blocks broadcast so far
    inHand      \* history: accepted before a Stop, not in the list when it cleared it

serverVars == <<running, listener, starts, stopping, acceptors, clients, sock, sent, inHand>>

Threads == 1 .. MaxStarts
NoSock == [at |-> "none", alive |-> FALSE, broken |-> FALSE, queue |-> <<>>, got |-> <<>>, since |-> 0]

ServerInit ==
    /\ running = FALSE /\ listener = 0 /\ starts = 0 /\ stopping = FALSE
    /\ acceptors = [g \in Threads |-> [at |-> "none", on |-> 0, has |-> {}]]
    /\ clients = <<>> /\ sent = 0 /\ inHand = {}
    /\ sock = [s \in Socks |-> NoSock]

\* Dispose, for each of a set of clients: the queue is completed, the socket closed.
Disposed(gone) == [s \in Socks |-> IF s \in gone THEN [sock[s] EXCEPT !.alive = FALSE] ELSE sock[s]]

Held == UNION {acceptors[g].has : g \in Threads}

-----------------------------------------------------------------------------
(* The panel.                                                              *)

\* Start, on a server that Stop has stopped, or that never ran.
StartServer ==
    /\ ~running /\ listener = 0 /\ ~stopping /\ starts < MaxStarts
    /\ starts' = starts + 1 /\ listener' = starts + 1 /\ running' = TRUE
    /\ acceptors' = [acceptors EXCEPT ![starts + 1].at = "test"]
    /\ UNCHANGED <<stopping, clients, sock, sent, inHand>>

\* Stop: the listener is closed, and the connections nobody accepted with it.
StopListening ==
    /\ running
    /\ running' = FALSE /\ listener' = 0 /\ stopping' = TRUE
    /\ sock' = [s \in Socks |-> IF sock[s].at = "waiting" THEN [sock[s] EXCEPT !.at = "refused"]
                                ELSE sock[s]]
    /\ UNCHANGED <<starts, acceptors, clients, sent, inHand>>

\* Slip: the clients are let go without being disposed of.
ClearOnly ==
    /\ stopping /\ stopping' = FALSE
    /\ clients' = <<>> /\ inHand' = Held
    /\ UNCHANGED <<running, listener, starts, acceptors, sock, sent>>

\* Stop: under the lock every client is disposed of.
ClearClients ==
    /\ stopping /\ stopping' = FALSE
    /\ sock' = Disposed(Range(clients)) /\ clients' = <<>> /\ inHand' = Held
    /\ UNCHANGED <<running, listener, starts, acceptors, sent>>

-----------------------------------------------------------------------------
(* AcceptLoop, of the accept thread of start g.                            *)

At(g, place) == acceptors[g].at = place
Go(g, place) == acceptors' = [acceptors EXCEPT ![g].at = place]

\* The test of the loop; then _listener is read, null ends the thread.
Test(g) ==
    /\ At(g, "test")
    /\ IF running /\ listener # 0
       THEN acceptors' = [acceptors EXCEPT ![g].at = "accept", ![g].on = listener]
       ELSE Go(g, "done")
    /\ UNCHANGED <<running, listener, starts, stopping, clients, sock, sent, inHand>>

\* AcceptSocket returns a connection, or fails because its listener is closed.
AcceptSocket(g) ==
    /\ At(g, "accept")
    /\ \/ /\ acceptors[g].on = listener
          /\ \E s \in Socks :
                /\ sock[s].at = "waiting"
                /\ sock' = [sock EXCEPT ![s].at = "accepted"]
                /\ acceptors' = [acceptors EXCEPT ![g].at = "add", ![g].has = {s}]
       \/ acceptors[g].on # listener /\ Go(g, "done") /\ UNCHANGED sock
    /\ UNCHANGED <<running, listener, starts, stopping, clients, sent, inHand>>

\* The client is made and added, under the lock.
AddClient(g) ==
    /\ At(g, "add") /\ Go(g, "start")
    /\ \E s \in acceptors[g].has :
          /\ clients' = Append(clients, s)
          /\ sock' = [sock EXCEPT ![s].alive = TRUE, ![s].since = sent]
    /\ UNCHANGED <<running, listener, starts, stopping, sent, inHand>>

\* Its thread is started.
StartClient(g) ==
    /\ At(g, "start")
    /\ acceptors' = [acceptors EXCEPT ![g].at = "test", ![g].has = {}]
    /\ \E s \in acceptors[g].has : sock' = [sock EXCEPT ![s].at = "sending"]
    /\ UNCHANGED <<running, listener, starts, stopping, clients, sent, inHand>>

-----------------------------------------------------------------------------
(* The stream, and the clients' threads.                                   *)

\* Enqueue, DropOldest.
Enqueued(q, n) == Append(IF Len(q) < QueueCap THEN q ELSE Tail(q), n)

Broadcast ==
    /\ sent < MaxBlocks /\ sent' = sent + 1
    /\ sock' = [s \in Socks |-> IF s \in Range(clients) /\ sock[s].alive
                                THEN [sock[s] EXCEPT !.queue = Enqueued(@, sent + 1)] ELSE sock[s]]
    /\ UNCHANGED <<running, listener, starts, stopping, acceptors, clients, inHand>>

\* SendLoop: one block is sent.
SendBlock(s) ==
    /\ sock[s].at = "sending" /\ sock[s].alive /\ ~sock[s].broken /\ sock[s].queue # <<>>
    /\ sock' = [sock EXCEPT ![s].queue = Tail(@), ![s].got = Append(@, Head(sock[s].queue))]
    /\ UNCHANGED <<running, listener, starts, stopping, acceptors, clients, sent, inHand>>

\* The loop ends: the send fails, or the client has been disposed of.
SendLoopEnds(s) ==
    /\ sock[s].at = "sending"
    /\ ~sock[s].alive \/ (sock[s].broken /\ sock[s].queue # <<>>)
    /\ sock' = [sock EXCEPT ![s].at = "closing"]
    /\ UNCHANGED <<running, listener, starts, stopping, acceptors, clients, sent, inHand>>

\* OnClientClosed: out of the list, disposed of.
OnClientClosed(s) ==
    /\ sock[s].at = "closing"
    /\ clients' = RemoveFirst(clients, s)
    /\ sock' = [Disposed({s}) EXCEPT ![s].at = "closed"]
    /\ UNCHANGED <<running, listener, starts, stopping, acceptors, sent, inHand>>

\* A decoder connects while a listener is open; later it may go away.
Connect(s) ==
    /\ sock[s].at = "none" /\ listener # 0
    /\ sock' = [sock EXCEPT ![s].at = "waiting"]
    /\ UNCHANGED <<running, listener, starts, stopping, acceptors, clients, sent, inHand>>

PeerGoes(s) ==
    /\ sock[s].at \in {"accepted", "sending"} /\ ~sock[s].broken
    /\ sock' = [sock EXCEPT ![s].broken = TRUE]
    /\ UNCHANGED <<running, listener, starts, stopping, acceptors, clients, sent, inHand>>

Accepting(g) == Test(g) \/ AcceptSocket(g) \/ AddClient(g) \/ StartClient(g)
Closing(s) == SendLoopEnds(s) \/ OnClientClosed(s)

ServerNext ==
    \/ StartServer \/ StopListening \/ ClearClients \/ Broadcast
    \/ \E g \in Threads : Accepting(g)
    \/ \E s \in Socks : SendBlock(s) \/ Closing(s) \/ Connect(s) \/ PeerGoes(s)

\* The threads run.  A send may take for ever, and the stream may stop.
ServerFairness ==
    /\ \A g \in Threads : WF_serverVars(Accepting(g))
    /\ \A s \in Socks : WF_serverVars(Closing(s))
    /\ WF_serverVars(ClearClients)

ServerSpec == ServerInit /\ [][ServerNext]_serverVars /\ ServerFairness

-----------------------------------------------------------------------------
ServerTypeOK ==
    /\ listener \in 0 .. starts /\ starts \in 0 .. MaxStarts /\ (running <=> listener # 0)
    /\ clients \in Seq(Socks) /\ sent \in 0 .. MaxBlocks /\ inHand \subseteq Socks
    /\ \A s \in Socks : Len(sock[s].queue) <= QueueCap
    /\ \A g \in Threads : acceptors[g].at \in {"none", "test", "accept", "add", "start", "done"}

\* A client gets the stream in order, none of it twice, and what it has with what
\* waits for it ends with the latest block for as long as it is in the list: a slow
\* one falls behind by no more than its queue (Enqueue, SendLoop).
StreamInOrder ==
    \A s \in Socks :
        LET stream == sock[s].got \o sock[s].queue
        IN /\ \A k \in 1 .. Len(stream) - 1 : stream[k] < stream[k + 1]
           /\ s \in Range(clients) /\ sock[s].alive /\ sent > sock[s].since
                  => stream # <<>> /\ Last(stream) = sent

\* When the server has stopped nobody is connected any more, but for connections the
\* accept thread had in hand at the moment the list was cleared: those are served
\* as long as they last, also by a stopped server (Stop, AcceptLoop).
StoppedServesNobody ==
    ~running /\ ~stopping =>
        \A s \in Socks : sock[s].alive => s \in inHand

\* A connection is not kept waiting: it is accepted, or refused by Stop, however
\* often the server is stopped and started again (AcceptLoop, Start).
ConnectionsServed == \A s \in Socks : sock[s].at = "waiting" ~> sock[s].at # "waiting"

\* A client whose peer has gone leaves the list and its thread ends, once there is
\* something to send it, whoever else closes it meanwhile (SendLoop, OnClientClosed,
\* Stop).
GonePeersLeave ==
    \A s \in Socks :
        sock[s].at = "sending" /\ sock[s].broken /\ sock[s].queue # <<>>
            ~> sock[s].at = "closed" /\ s \notin Range(clients)
=============================================================================
