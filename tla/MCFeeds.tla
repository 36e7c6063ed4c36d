------------------------------- MODULE MCFeeds -------------------------------
(* What serves others over the network: the feeds of the two monitors to their  *)
(* pages, and the server of the SDR# plugin that feeds std-t86.  One of the      *)
(* programs runs in a behaviour.                                              *)
EXTENDS Integers, Sequences
CONSTANTS Conns, Windows, StripMax, EventCap, HubCap, LogCap, Peers, LastId, SendCap,
          Socks, QueueCap, MaxBlocks, MaxStarts

\* Windows are numbered from 1, 0 is for none; the capacities are those of Go channels
\* and of a queue of the plugin that holds at least a block (512, 256, 64 in the code).
ASSUME FeedBounds ==
    /\ Windows \subseteq Nat \ {0}
    /\ StripMax \in Nat /\ EventCap \in Nat /\ LogCap \in Nat /\ HubCap \in Nat \ {0}
    /\ LastId \in Nat /\ SendCap \in Nat
    /\ QueueCap \in Nat \ {0} /\ MaxBlocks \in Nat /\ MaxStarts \in Nat

VARIABLES program,
          live, emitting, eventCh, overflowed, pub, conns,
          current, broadcasts, replaced, telling, peers, panicked,
          running, listener, starts, stopping, acceptors, clients, sock, sent, inHand

T86 == INSTANCE WindowFeed
T115 == INSTANCE ConnFeed
Plugin == INSTANCE IqTcpServer

t86Vars == <<live, emitting, eventCh, overflowed, pub, conns>>
t115Vars == <<current, broadcasts, replaced, telling, peers, panicked>>
pluginVars == <<running, listener, starts, stopping, acceptors, clients, sock, sent, inHand>>
vars == <<program, t86Vars, t115Vars, pluginVars>>

Init ==
    /\ program \in {"std-t86", "std-t115", "sdrsharp"}
    /\ T86!FeedInit /\ T115!ConnInit /\ Plugin!ServerInit

Next ==
    /\ UNCHANGED program
    /\ \/ program = "std-t86" /\ T86!FeedNext /\ UNCHANGED <<t115Vars, pluginVars>>
       \/ program = "std-t115" /\ T115!ConnNext /\ UNCHANGED <<t86Vars, pluginVars>>
       \/ program = "sdrsharp" /\ Plugin!ServerNext /\ UNCHANGED <<t86Vars, t115Vars>>

\* Nothing that is asked of a program that does not run is ever enabled.
Spec ==
    Init /\ [][Next]_vars /\ T86!FeedFairness /\ T115!ConnFairness /\ Plugin!ServerFairness

\* The pages of both monitors show the state, up to what was lost where the code
\* lets it be lost: with the types and the bounds of every queue, a place of a strip
\* is that place of the broadcast or "?", a page that missed nothing shows the state
\* once all is delivered, the events of a goroutine are shown in order and none twice
\* (T86), and what is on its way brings a page up to date (T115).
PagesRight ==
    /\ T86!FeedTypeOK /\ T86!StripAligned /\ T86!Converged /\ T86!ShownInOrder
    /\ T115!ConnTypeOK /\ T115!NothingMissed

\* T115: no send to and no second close of a closed channel.
NeverPanics == T115!NeverPanics

\* Plugin: a client gets the stream in order and falls behind by no more than its
\* queue; a stopped server serves only whom it had in hand.
PluginServes == Plugin!ServerTypeOK /\ Plugin!StreamInOrder /\ Plugin!StoppedServesNobody

\* Whoever has gone leaves, and its goroutine or thread ends: pages of either monitor,
\* clients of the plugin; and no connection waits for the plugin for ever.
GoneLeave ==
    /\ T86!GoneLeaves
    /\ T115!GoneConnsEnd
    /\ Plugin!GonePeersLeave /\ Plugin!ConnectionsServed
=============================================================================
