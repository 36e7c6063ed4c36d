---------------------------- MODULE Feeds_proofs ----------------------------
(***************************************************************************)
(* Proofs about MCFeeds, for any number of connections, windows, clients and *)
(* starts, and every size of a queue: the pages of both monitors show the     *)
(* state they belong to, the hub of std-t115 neither sends to nor closes a     *)
(* channel twice, and the server of the SDR# plugin sends its stream in order  *)
(* and to nobody after a stop but to whom it had in hand.                     *)
(***************************************************************************)
EXTENDS MCFeeds, WellFoundedInduction, TLAPS

-----------------------------------------------------------------------------
(* The plugin.                                                             *)

SockRec == [at : {"none", "waiting", "refused", "accepted", "sending", "closing", "closed"},
            alive : BOOLEAN, broken : BOOLEAN, queue : Seq(Nat), got : Seq(Nat), since : Nat]

AcceptorRec == [at : {"none", "test", "accept", "add", "start", "done"}, on : Nat,
                has : SUBSET Socks]

PluginTyped ==
    /\ running \in BOOLEAN /\ stopping \in BOOLEAN
    /\ starts \in 0 .. MaxStarts /\ listener \in 0 .. starts /\ (running <=> listener # 0)
    /\ acceptors \in [Plugin!Threads -> AcceptorRec]
    /\ clients \in Seq(Socks) /\ sock \in [Socks -> SockRec]
    /\ sent \in 0 .. MaxBlocks /\ inHand \subseteq Socks
    /\ \A s \in Socks : Len(sock[s].queue) <= QueueCap

Rising(q) == \A i, j \in 1 .. Len(q) : i < j => q[i] < q[j]

\* What a client has is behind what waits for it, and all of it was broadcast.
Ordered(got, queue, n) ==
    /\ Rising(got) /\ Rising(queue)
    /\ \A i \in 1 .. Len(got), j \in 1 .. Len(queue) : got[i] < queue[j]
    /\ \A i \in 1 .. Len(got) : got[i] <= n
    /\ \A j \in 1 .. Len(queue) : queue[j] <= n

\* The two together end with block n.
EndsWith(got, queue, n) ==
    IF queue # <<>> THEN queue[Len(queue)] = n ELSE got # <<>> /\ got[Len(got)] = n

Listed(s) == \E i \in 1 .. Len(clients) : clients[i] = s

StreamKept ==
    \A s \in Socks :
        /\ Ordered(sock[s].got, sock[s].queue, sent)
        /\ Listed(s) /\ sock[s].alive /\ sent > sock[s].since
              => EndsWith(sock[s].got, sock[s].queue, sent)

\* Whoever is served is in the list, and an accept thread waits on the listener of a
\* start: without one nobody is accepted.
ServedKnown ==
    /\ \A s \in Socks : sock[s].alive => Listed(s)
    /\ \A g \in Plugin!Threads : acceptors[g].at = "accept" => acceptors[g].on # 0
    /\ ~running /\ ~stopping =>
          /\ \A s \in Socks : sock[s].alive => s \in inHand
          /\ \A g \in Plugin!Threads : acceptors[g].has \subseteq inHand

PluginInv == PluginTyped /\ StreamKept /\ ServedKnown

\* A set of natural numbers that is not empty has a least one.
LEMMA LeastNatural ==
  ASSUME NEW T, T \subseteq Nat, T # {}
  PROVE  \E x \in T : \A y \in T : x <= y
<1> DEFINE R == OpToRel(<, Nat)
<1>1. \A x, y \in T : y < x => <<y, x>> \in R
  BY SMT DEF OpToRel
<1>2. IsWellFoundedOn(R, Nat) BY NatLessThanWellFounded
<1> HIDE DEF R
<1>3. PICK x \in T : \A y \in T : <<y, x>> \notin R BY <1>2, WFMin
<1>4. \A y \in T : ~(y < x) BY <1>1, <1>3
<1> QED BY <1>4

\* List.Remove takes out one place that holds s, if there is one, and no other.
LEMMA RemoveFirstFacts ==
  ASSUME NEW S, NEW q \in Seq(S), NEW s
  PROVE  /\ Plugin!RemoveFirst(q, s) \in Seq(S)
         /\ \A x \in S : x # s /\ (\E i \in 1 .. Len(q) : q[i] = x)
               => \E i \in 1 .. Len(Plugin!RemoveFirst(q, s)) : Plugin!RemoveFirst(q, s)[i] = x
         /\ \A x \in S : (\E i \in 1 .. Len(Plugin!RemoveFirst(q, s)) :
                              Plugin!RemoveFirst(q, s)[i] = x)
               => \E i \in 1 .. Len(q) : q[i] = x
<1> DEFINE I == {i \in 1 .. Len(q) : q[i] = s}
<1>1. CASE I = {}
  <2>1. Plugin!RemoveFirst(q, s) = q BY <1>1 DEF Plugin!RemoveFirst
  <2> QED BY <2>1
<1>2. CASE I # {}
  <2> DEFINE m == Plugin!Min(I)
  <2>1. \E x \in I : \A y \in I : x <= y
    <3>1. I \subseteq Nat OBVIOUS
    <3> HIDE DEF I
    <3> QED BY <3>1, <1>2, LeastNatural
  <2>2. m \in I BY <2>1 DEF Plugin!Min
  <2>3. Plugin!RemoveFirst(q, s) = SubSeq(q, 1, m - 1) \o SubSeq(q, m + 1, Len(q))
    BY <1>2 DEF Plugin!RemoveFirst, Plugin!RemoveAt, Plugin!SelectInSeq
  <2> DEFINE r == SubSeq(q, 1, m - 1) \o SubSeq(q, m + 1, Len(q))
  <2> HIDE DEF m
  <2> DEFINE a == SubSeq(q, 1, m - 1)
             b == SubSeq(q, m + 1, Len(q))
  <2>7. m \in 1 .. Len(q) /\ q[m] = s BY <2>2
  <2>8. /\ a \in Seq(S) /\ Len(a) = m - 1 /\ \A i \in 1 .. m - 1 : a[i] = q[i]
        /\ b \in Seq(S) /\ Len(b) = Len(q) - m
        /\ \A i \in 1 .. Len(q) - m : b[i] = q[i + m]
    BY <2>7
  <2> HIDE DEF a, b
  <2>9. r = a \o b BY DEF a, b
  <2>4. /\ m \in 1 .. Len(q) /\ q[m] = s
        /\ Len(r) = Len(q) - 1 /\ r \in Seq(S)
        /\ \A i \in 1 .. m - 1 : r[i] = q[i]
        /\ \A i \in m .. Len(q) - 1 : r[i] = q[i + 1]
    <3> HIDE DEF r
    <3>1. r \in Seq(S) /\ Len(r) = Len(q) - 1 BY <2>7, <2>8, <2>9
    <3>2. \A i \in 1 .. m - 1 : r[i] = q[i] BY <2>7, <2>8, <2>9
    <3>3. \A i \in m .. Len(q) - 1 : r[i] = q[i + 1]
      <4> TAKE i \in m .. Len(q) - 1
      <4>1. r[i] = b[i - (m - 1)] BY <2>7, <2>8, <2>9
      <4>2. i - (m - 1) \in 1 .. Len(q) - m BY <2>7
      <4> QED BY <4>1, <4>2, <2>7, <2>8
    <3> QED BY <2>7, <3>1, <3>2, <3>3
  <2> HIDE DEF r
  <2>5. \A x \in S : x # s /\ (\E i \in 1 .. Len(q) : q[i] = x) => \E i \in 1 .. Len(r) : r[i] = x
    <3> SUFFICES ASSUME NEW x \in S, x # s, NEW i \in 1 .. Len(q), q[i] = x
                 PROVE  \E j \in 1 .. Len(r) : r[j] = x
      OBVIOUS
    <3>1. CASE i < m
      <4>1. i \in 1 .. Len(r) /\ r[i] = x BY <3>1, <2>4
      <4> QED BY <4>1
    <3>2. CASE i > m
      <4>1. i - 1 \in 1 .. Len(r) /\ r[i - 1] = x BY <3>2, <2>4
      <4> QED BY <4>1
    <3> QED BY <3>1, <3>2, <2>4
  <2>6. \A x \in S : (\E i \in 1 .. Len(r) : r[i] = x) => \E i \in 1 .. Len(q) : q[i] = x
    <3> SUFFICES ASSUME NEW x \in S, NEW i \in 1 .. Len(r), r[i] = x
                 PROVE  \E j \in 1 .. Len(q) : q[j] = x
      OBVIOUS
    <3>1. CASE i < m
      <4>1. i \in 1 .. Len(q) /\ q[i] = x BY <3>1, <2>4
      <4> QED BY <4>1
    <3>2. CASE i >= m
      <4>1. i + 1 \in 1 .. Len(q) /\ q[i + 1] = x BY <3>2, <2>4
      <4> QED BY <4>1
    <3> QED BY <3>1, <3>2, <2>4
  <2> QED BY <2>3, <2>4, <2>5, <2>6 DEF r
<1> QED BY <1>1, <1>2

\* Length and places of a sequence with one more element.
LEMMA AppendFacts ==
  ASSUME NEW S, NEW q \in Seq(S), NEW e \in S, NEW p, p = Append(q, e)
  PROVE  /\ p \in Seq(S) /\ Len(q) \in Nat /\ Len(p) = Len(q) + 1 /\ p # <<>>
         /\ p[Len(q) + 1] = e
         /\ \A j \in 1 .. Len(q) : p[j] = q[j] /\ q[j] \in S
<1>1. p \in Seq(S) OBVIOUS
<1>2. Len(q) \in Nat /\ Len(p) = Len(q) + 1 OBVIOUS
<1>3. p # <<>> OBVIOUS
<1>4. p[Len(q) + 1] = e OBVIOUS
<1>5. \A j \in 1 .. Len(q) : p[j] = q[j] OBVIOUS
<1>6. \A j \in 1 .. Len(q) : q[j] \in S OBVIOUS
<1> QED BY <1>1, <1>2, <1>3, <1>4, <1>5, <1>6

\* Length and places of a sequence without its first element.
LEMMA TailFacts ==
  ASSUME NEW S, NEW q \in Seq(S), q # <<>>, NEW p, p = Tail(q)
  PROVE  /\ p \in Seq(S) /\ Len(q) \in Nat \ {0} /\ Len(p) = Len(q) - 1
         /\ Head(q) = q[1] /\ q[1] \in S
         /\ \A j \in 1 .. Len(p) : p[j] = q[j + 1]
<1>1. p \in Seq(S) OBVIOUS
<1>2. Len(q) \in Nat /\ Len(q) # 0 OBVIOUS
<1>3. Len(p) = Len(q) - 1 OBVIOUS
<1>4. Head(q) = q[1] OBVIOUS
<1>5. q[1] \in S BY <1>2
<1>6. \A j \in 1 .. Len(p) : p[j] = q[j + 1] BY <1>3
<1> QED BY <1>1, <1>2, <1>3, <1>4, <1>5, <1>6

\* Length and places of two sequences, one behind the other.
LEMMA ConcatFacts ==
  ASSUME NEW S, NEW q \in Seq(S), NEW r \in Seq(S), NEW p, p = q \o r
  PROVE  /\ p \in Seq(S) /\ Len(q) \in Nat /\ Len(r) \in Nat /\ Len(p) = Len(q) + Len(r)
         /\ \A k \in 1 .. Len(q) : p[k] = q[k]
         /\ \A k \in Len(q) + 1 .. Len(p) : p[k] = r[k - Len(q)]
<1>1. p \in Seq(S) /\ Len(p) = Len(q) + Len(r) OBVIOUS
<1>2. Len(q) \in Nat /\ Len(r) \in Nat OBVIOUS
<1>3. \A k \in 1 .. Len(q) : p[k] = q[k] OBVIOUS
<1>4. \A k \in Len(q) + 1 .. Len(p) : p[k] = r[k - Len(q)] OBVIOUS
<1> QED BY <1>1, <1>2, <1>3, <1>4

\* The elements of a sequence are in its range, and only the empty one has none.
LEMMA ElementsOf ==
  ASSUME NEW S, NEW q \in Seq(S)
  PROVE  Len(q) \in Nat /\ (\A j \in 1 .. Len(q) : q[j] \in S) /\ (q = <<>> <=> Len(q) = 0)
<1>1. Len(q) \in Nat OBVIOUS
<1>2. \A j \in 1 .. Len(q) : q[j] \in S OBVIOUS
<1>3. q = <<>> => Len(q) = 0 OBVIOUS
<1>4. Len(q) = 0 => q = <<>> OBVIOUS
<1> QED BY <1>1, <1>2, <1>3, <1>4

\* What a sequence of numbers has, said of its places.
Numbers(q) == Len(q) \in Nat /\ \A j \in 1 .. Len(q) : q[j] \in Nat

\* Without the first that waits what is there stays in order.
LEMMA OrderedWithoutFirst ==
  ASSUME NEW got, NEW queue, NEW q, NEW n \in Nat, Numbers(got), Numbers(queue),
         Ordered(got, queue, n), Len(queue) # 0, Len(q) = Len(queue) - 1,
         \A j \in 1 .. Len(q) : q[j] = queue[j + 1]
  PROVE  Ordered(got, q, n) /\ Numbers(q)
<1>1. Len(q) \in Nat /\ Len(queue) \in Nat BY DEF Numbers
<1>2. \A j \in 1 .. Len(q) : j \in Nat /\ j + 1 \in 1 .. Len(queue) BY <1>1
<1>3. Numbers(q) BY <1>1, <1>2 DEF Numbers
<1>4. Rising(q)
  <2> SUFFICES ASSUME NEW i \in 1 .. Len(q), NEW j \in 1 .. Len(q), i < j PROVE q[i] < q[j]
    BY DEF Rising
  <2>1. queue[i + 1] < queue[j + 1] BY <1>2 DEF Ordered, Rising
  <2> QED BY <2>1
<1>5. \A i \in 1 .. Len(got), j \in 1 .. Len(q) : got[i] < q[j] BY <1>2 DEF Ordered
<1>6. \A j \in 1 .. Len(q) : q[j] <= n BY <1>2 DEF Ordered
<1> QED BY <1>3, <1>4, <1>5, <1>6 DEF Ordered

\* A later block goes behind all.
LEMMA OrderedWithNext ==
  ASSUME NEW got, NEW queue, NEW q, NEW n \in Nat, Numbers(got), Numbers(queue),
         Ordered(got, queue, n), Len(q) = Len(queue) + 1, q[Len(queue) + 1] = n + 1,
         \A j \in 1 .. Len(queue) : q[j] = queue[j]
  PROVE  Ordered(got, q, n + 1)
<1>1. Len(queue) \in Nat BY DEF Numbers
<1>2. \A j \in 1 .. Len(q) : j = Len(queue) + 1 \/ j \in 1 .. Len(queue) BY <1>1
<1>3. Rising(q)
  <2> SUFFICES ASSUME NEW i \in 1 .. Len(q), NEW j \in 1 .. Len(q), i < j PROVE q[i] < q[j]
    BY DEF Rising
  <2>1. i \in 1 .. Len(queue) BY <1>1
  <2>2. q[i] = queue[i] /\ queue[i] \in Nat BY <2>1 DEF Numbers
  <2>3. CASE j = Len(queue) + 1
    <3>1. queue[i] <= n BY <2>1 DEF Ordered
    <3> QED BY <2>2, <2>3, <3>1
  <2>4. CASE j \in 1 .. Len(queue) BY <2>1, <2>2, <2>4 DEF Ordered, Rising
  <2> QED BY <2>3, <2>4, <1>2
<1>4. \A i \in 1 .. Len(got), j \in 1 .. Len(q) : got[i] < q[j]
  <2> SUFFICES ASSUME NEW i \in 1 .. Len(got), NEW j \in 1 .. Len(q) PROVE got[i] < q[j]
    OBVIOUS
  <2>1. CASE j = Len(queue) + 1
    <3>1. got[i] <= n /\ got[i] \in Nat BY DEF Ordered, Numbers
    <3> QED BY <2>1, <3>1
  <2>2. CASE j \in 1 .. Len(queue) BY <2>2 DEF Ordered
  <2> QED BY <2>1, <2>2, <1>2
<1>5. \A j \in 1 .. Len(q) : q[j] <= n + 1
  <2> TAKE j \in 1 .. Len(q)
  <2>1. CASE j = Len(queue) + 1 BY <2>1
  <2>2. CASE j \in 1 .. Len(queue)
    <3>1. queue[j] <= n /\ queue[j] \in Nat BY <2>2 DEF Ordered, Numbers
    <3> QED BY <2>2, <3>1
  <2> QED BY <2>1, <2>2, <1>2
<1>6. \A i \in 1 .. Len(got) : got[i] <= n + 1
  <2> TAKE i \in 1 .. Len(got)
  <2>1. got[i] <= n /\ got[i] \in Nat BY DEF Ordered, Numbers
  <2> QED BY <2>1
<1>7. Rising(got) BY DEF Ordered
<1> QED BY <1>3, <1>4, <1>5, <1>6, <1>7 DEF Ordered

\* The first that waits goes to the end of what is there.
LEMMA OrderedMoved ==
  ASSUME NEW got, NEW queue, NEW q, NEW g, NEW n \in Nat, Numbers(got), Numbers(queue),
         Ordered(got, queue, n), Len(queue) # 0, Len(q) = Len(queue) - 1,
         \A j \in 1 .. Len(q) : q[j] = queue[j + 1],
         Len(g) = Len(got) + 1, g[Len(got) + 1] = queue[1],
         \A j \in 1 .. Len(got) : g[j] = got[j]
  PROVE  Ordered(g, q, n)
<1>1. Ordered(got, q, n) /\ Numbers(q) BY OrderedWithoutFirst
<1>2. Rising(q) /\ \A j \in 1 .. Len(q) : q[j] <= n BY <1>1 DEF Ordered
<1>3. Len(got) \in Nat /\ Len(queue) \in Nat BY DEF Numbers
<1>4. \A i \in 1 .. Len(g) : i = Len(got) + 1 \/ i \in 1 .. Len(got) BY <1>3
<1>5. 1 \in 1 .. Len(queue) BY <1>3
<1>6. Rising(g)
  <2> SUFFICES ASSUME NEW i \in 1 .. Len(g), NEW j \in 1 .. Len(g), i < j PROVE g[i] < g[j]
    BY DEF Rising
  <2>1. i \in 1 .. Len(got) BY <1>3
  <2>2. g[i] = got[i] BY <2>1
  <2>3. CASE j = Len(got) + 1
    <3>1. got[i] < queue[1] BY <2>1, <1>5 DEF Ordered
    <3> QED BY <2>2, <2>3, <3>1
  <2>4. CASE j \in 1 .. Len(got) BY <2>1, <2>2, <2>4 DEF Ordered, Rising
  <2> QED BY <2>3, <2>4, <1>4
<1>7. \A i \in 1 .. Len(g), j \in 1 .. Len(q) : g[i] < q[j]
  <2> SUFFICES ASSUME NEW i \in 1 .. Len(g), NEW j \in 1 .. Len(q) PROVE g[i] < q[j]
    OBVIOUS
  <2>1. CASE i = Len(got) + 1
    <3>1. j + 1 \in 1 .. Len(queue) /\ 1 < j + 1 BY <1>3
    <3>2. queue[1] < queue[j + 1] BY <3>1, <1>5 DEF Ordered, Rising
    <3> QED BY <2>1, <3>2
  <2>2. CASE i \in 1 .. Len(got) BY <2>2, <1>1 DEF Ordered
  <2> QED BY <2>1, <2>2, <1>4
<1>8. \A i \in 1 .. Len(g) : g[i] <= n
  <2> TAKE i \in 1 .. Len(g)
  <2>1. CASE i = Len(got) + 1 BY <2>1, <1>5 DEF Ordered
  <2>2. CASE i \in 1 .. Len(got) BY <2>2 DEF Ordered
  <2> QED BY <2>1, <2>2, <1>4
<1> QED BY <1>2, <1>6, <1>7, <1>8 DEF Ordered

\* A block that is broadcast is the latest of a client, in order behind the others.
LEMMA WithRoom ==
  ASSUME NEW got \in Seq(Nat), NEW q \in Seq(Nat), NEW n \in Nat, NEW e \in Nat, e = n + 1,
         Ordered(got, q, n), Len(q) < QueueCap, NEW more, more = Append(q, e)
  PROVE  /\ more \in Seq(Nat) /\ Len(more) <= QueueCap
         /\ Ordered(got, more, e) /\ EndsWith(got, more, e)
<1>1. Numbers(got) /\ Numbers(q) BY ElementsOf DEF Numbers
<1>2. /\ more \in Seq(Nat) /\ Len(q) \in Nat /\ Len(more) = Len(q) + 1 /\ more # <<>>
      /\ more[Len(q) + 1] = e
      /\ \A j \in 1 .. Len(q) : more[j] = q[j] /\ q[j] \in Nat
  BY AppendFacts
<1>3. Len(more) <= QueueCap BY <1>2, FeedBounds
<1>4. Ordered(got, more, e) BY <1>1, <1>2, OrderedWithNext
<1>5. EndsWith(got, more, e) BY <1>2 DEF EndsWith
<1> QED BY <1>2, <1>3, <1>4, <1>5

\* Enqueue (IqTcpServer.cs) keeps the bound and the order, and the newest block is the last.
LEMMA EnqueuedFacts ==
  ASSUME NEW got \in Seq(Nat), NEW queue \in Seq(Nat), NEW n \in Nat, NEW e \in Nat, e = n + 1,
         Ordered(got, queue, n), Len(queue) <= QueueCap,
         NEW more, more = Plugin!Enqueued(queue, e)
  PROVE  /\ more \in Seq(Nat) /\ Len(more) <= QueueCap
         /\ Ordered(got, more, e) /\ EndsWith(got, more, e)
<1>1. Numbers(got) /\ Numbers(queue) BY ElementsOf DEF Numbers
<1>2. CASE Len(queue) < QueueCap
  <2>1. more = Append(queue, e) BY <1>2 DEF Plugin!Enqueued
  <2> QED BY <1>2, <2>1, WithRoom
<1>3. CASE ~(Len(queue) < QueueCap)
  <2>1. Len(queue) = QueueCap /\ Len(queue) # 0 BY <1>1, <1>3, FeedBounds DEF Numbers
  <2>2. queue # <<>> BY <2>1, ElementsOf
  <2>3. PICK q : q = Tail(queue) OBVIOUS
  <2>4. /\ q \in Seq(Nat) /\ Len(q) = Len(queue) - 1
        /\ \A j \in 1 .. Len(q) : q[j] = queue[j + 1]
    BY <2>2, <2>3, TailFacts
  <2>5. Ordered(got, q, n) BY <1>1, <2>1, <2>4, OrderedWithoutFirst
  <2>6. Len(q) < QueueCap BY <2>1, <2>4, FeedBounds
  <2>7. more = Append(q, e) BY <1>3, <2>3 DEF Plugin!Enqueued
  <2> QED BY <2>4, <2>5, <2>6, <2>7, WithRoom
<1> QED BY <1>2, <1>3

\* A block that is sent goes from the front of what waits to the end of what is there.
LEMMA SentFacts ==
  ASSUME NEW got \in Seq(Nat), NEW queue \in Seq(Nat), NEW n \in Nat,
         Ordered(got, queue, n), queue # <<>>, Len(queue) <= QueueCap,
         NEW q, q = Tail(queue), NEW g, g = Append(got, Head(queue))
  PROVE  /\ q \in Seq(Nat) /\ g \in Seq(Nat) /\ Len(q) <= QueueCap
         /\ Ordered(g, q, n) /\ (EndsWith(got, queue, n) => EndsWith(g, q, n))
<1>0. Len(queue) # 0 BY ElementsOf
<1>1. Numbers(got) /\ Numbers(queue) BY ElementsOf DEF Numbers
<1>2. /\ q \in Seq(Nat) /\ Len(queue) # 0 /\ Len(q) = Len(queue) - 1
      /\ Head(queue) = queue[1] /\ queue[1] \in Nat
      /\ \A j \in 1 .. Len(q) : q[j] = queue[j + 1]
  BY TailFacts
<1>3. /\ g \in Seq(Nat) /\ Len(got) \in Nat /\ Len(g) = Len(got) + 1 /\ g # <<>>
      /\ g[Len(got) + 1] = queue[1]
      /\ \A j \in 1 .. Len(got) : g[j] = got[j]
  BY <1>2, AppendFacts
<1>4. Len(q) <= QueueCap BY <1>1, <1>2, FeedBounds DEF Numbers
<1>5. g[Len(g)] = queue[1] BY <1>3
<1>6. Ordered(g, q, n) BY <1>1, <1>2, <1>3, OrderedMoved
<1>7. EndsWith(got, queue, n) => EndsWith(g, q, n)
  <2> SUFFICES ASSUME EndsWith(got, queue, n) PROVE EndsWith(g, q, n) OBVIOUS
  <2>1. queue[Len(queue)] = n BY DEF EndsWith
  <2>2. CASE q = <<>>
    <3>1. Len(q) = 0 BY <2>2, <1>2, ElementsOf
    <3>3. Len(queue) = 1 BY <3>1, <1>2, <1>1 DEF Numbers
    <3> QED BY <2>1, <2>2, <3>3, <1>3, <1>5 DEF EndsWith
  <2>3. CASE q # <<>>
    <3>1. Len(q) # 0 /\ Len(q) \in Nat BY <2>3, <1>2, ElementsOf
    <3>2. Len(q) \in 1 .. Len(q) /\ Len(q) + 1 = Len(queue) BY <3>1, <1>2, <1>1 DEF Numbers
    <3>3. q[Len(q)] = n BY <2>1, <3>2, <1>2
    <3> QED BY <2>3, <3>3 DEF EndsWith
  <2> QED BY <2>2, <2>3
<1> QED BY <1>2, <1>3, <1>4, <1>6, <1>7


-----------------------------------------------------------------------------
(* The plugin keeps what is said of it.                                        *)

SockPlaces == {"none", "waiting", "refused", "accepted", "sending", "closing", "closed"}

Moved(k, f, s, x) == f = [k EXCEPT ![s].at = x]

\* What a client keeps when one of its fields changes.
LEMMA SockAt ==
  ASSUME NEW k \in [Socks -> SockRec], NEW s \in Socks, NEW x \in SockPlaces, NEW f,
         Moved(k, f, s, x)
  PROVE  /\ f \in [Socks -> SockRec] /\ f[s].at = x
         /\ \A r \in Socks : /\ f[r].got = k[r].got /\ f[r].queue = k[r].queue
                             /\ f[r].since = k[r].since /\ f[r].alive = k[r].alive
<1>1. k[s] \in SockRec OBVIOUS
<1>2. PICK z : z = [k[s] EXCEPT !.at = x] OBVIOUS
<1>3. /\ z \in SockRec /\ z.at = x /\ z.got = k[s].got /\ z.queue = k[s].queue
      /\ z.since = k[s].since /\ z.alive = k[s].alive
  BY <1>1, <1>2 DEF SockRec, SockPlaces
<1>4. f = [k EXCEPT ![s] = z] BY <1>2 DEF Moved
<1>5. f \in [Socks -> SockRec] BY <1>3, <1>4
<1>6. f[s] = z /\ \A r \in Socks : r # s => f[r] = k[r] BY <1>4
<1> QED BY <1>3, <1>5, <1>6

Breaks(k, f, s) == f = [k EXCEPT ![s].broken = TRUE]

\* A connection that breaks keeps what it was sent and what waits for it.
LEMMA SockBroken ==
  ASSUME NEW k \in [Socks -> SockRec], NEW s \in Socks, NEW f, Breaks(k, f, s)
  PROVE  /\ f \in [Socks -> SockRec]
         /\ \A r \in Socks : /\ f[r].got = k[r].got /\ f[r].queue = k[r].queue
                             /\ f[r].since = k[r].since /\ f[r].alive = k[r].alive
<1>1. k[s] \in SockRec OBVIOUS
<1>2. PICK z : z = [k[s] EXCEPT !.broken = TRUE] OBVIOUS
<1>3. /\ z \in SockRec /\ z.got = k[s].got /\ z.queue = k[s].queue
      /\ z.since = k[s].since /\ z.alive = k[s].alive
  BY <1>1, <1>2 DEF SockRec
<1>4. f = [k EXCEPT ![s] = z] BY <1>2 DEF Breaks
<1>5. f \in [Socks -> SockRec] BY <1>3, <1>4
<1>6. f[s] = z /\ \A r \in Socks : r # s => f[r] = k[r] BY <1>4
<1> QED BY <1>3, <1>5, <1>6

AcceptorPlaces == {"none", "test", "accept", "add", "start", "done"}

GoneHolding(a, f, g, x, held) == f = [a EXCEPT ![g].at = x, ![g].has = held]
GoneListening(a, f, g, x, n) == f = [a EXCEPT ![g].at = x, ![g].on = n]

\* An accept thread goes on, with what it holds and listens on.
LEMMA Goes ==
  ASSUME NEW a \in [Plugin!Threads -> AcceptorRec], NEW g \in Plugin!Threads,
         NEW x \in AcceptorPlaces, NEW f,
         Moved(a, f, g, x)
  PROVE  /\ f \in [Plugin!Threads -> AcceptorRec]
         /\ f[g].at = x /\ f[g].has = a[g].has /\ f[g].on = a[g].on
         /\ \A h \in Plugin!Threads : h # g => f[h] = a[h]
<1>1. a[g] \in AcceptorRec OBVIOUS
<1>2. PICK z : z = [a[g] EXCEPT !.at = x] OBVIOUS
<1>3. z \in AcceptorRec /\ z.at = x /\ z.has = a[g].has /\ z.on = a[g].on
  BY <1>1, <1>2 DEF AcceptorRec, AcceptorPlaces
<1>4. f = [a EXCEPT ![g] = z] BY <1>2 DEF Moved
<1> QED BY <1>3, <1>4

\* An accept thread goes on with a client in hand, or without one; the others stay.
LEMMA GoesHolding ==
  ASSUME NEW a \in [Plugin!Threads -> AcceptorRec], NEW g \in Plugin!Threads,
         NEW x \in AcceptorPlaces, NEW f, NEW held \in SUBSET Socks,
         GoneHolding(a, f, g, x, held)
  PROVE  /\ f \in [Plugin!Threads -> AcceptorRec]
         /\ f[g].at = x /\ f[g].has = held /\ f[g].on = a[g].on
         /\ \A h \in Plugin!Threads : h # g => f[h] = a[h]
<1>1. a[g] \in AcceptorRec OBVIOUS
<1>2. PICK z : z = [a[g] EXCEPT !.at = x, !.has = held] OBVIOUS
<1>3. z \in AcceptorRec /\ z.at = x /\ z.has = held /\ z.on = a[g].on
  BY <1>1, <1>2 DEF AcceptorRec, AcceptorPlaces
<1>4. f = [a EXCEPT ![g] = z]
  <2>1. \A h \in Plugin!Threads : f[h] = IF h = g THEN z ELSE a[h] BY <1>1, <1>2 DEF GoneHolding, AcceptorRec
  <2>2. f = [h \in Plugin!Threads |-> f[h]] BY DEF GoneHolding
  <2> QED BY <2>1, <2>2
<1> QED BY <1>3, <1>4

\* An accept thread goes on with a listener; the others stay.
LEMMA GoesListening ==
  ASSUME NEW a \in [Plugin!Threads -> AcceptorRec], NEW g \in Plugin!Threads,
         NEW x \in AcceptorPlaces, NEW f, NEW n \in Nat,
         GoneListening(a, f, g, x, n)
  PROVE  /\ f \in [Plugin!Threads -> AcceptorRec]
         /\ f[g].at = x /\ f[g].has = a[g].has /\ f[g].on = n
         /\ \A h \in Plugin!Threads : h # g => f[h] = a[h]
<1>1. a[g] \in AcceptorRec OBVIOUS
<1>2. PICK z : z = [a[g] EXCEPT !.at = x, !.on = n] OBVIOUS
<1>3. z \in AcceptorRec /\ z.at = x /\ z.has = a[g].has /\ z.on = n
  BY <1>1, <1>2 DEF AcceptorRec, AcceptorPlaces
<1>4. f = [a EXCEPT ![g] = z]
  <2>1. \A h \in Plugin!Threads : f[h] = IF h = g THEN z ELSE a[h] BY <1>1, <1>2 DEF GoneListening, AcceptorRec
  <2>2. f = [h \in Plugin!Threads |-> f[h]] BY DEF GoneListening
  <2> QED BY <2>1, <2>2
<1> QED BY <1>3, <1>4

\* The plugin before its first start.
LEMMA PluginInit == Plugin!ServerInit => PluginInv
<1> SUFFICES ASSUME Plugin!ServerInit PROVE PluginInv OBVIOUS
<1> DEFINE e == <<>>
<1>1. /\ e \in Seq(Nat) /\ e \in Seq(Socks) /\ Len(e) = 0 OBVIOUS
<1>2. sock = [s \in Socks |-> [at |-> "none", alive |-> FALSE, broken |-> FALSE, queue |-> e,
                               got |-> e, since |-> 0]]
  BY DEF Plugin!ServerInit, Plugin!NoSock
<1>3. clients = e BY DEF Plugin!ServerInit
<1> HIDE DEF e
<1>4. PluginTyped
  <2>1. sock \in [Socks -> SockRec] BY <1>1, <1>2 DEF SockRec
  <2>2. acceptors \in [Plugin!Threads -> AcceptorRec]
    BY DEF Plugin!ServerInit, AcceptorRec
  <2>3. \A s \in Socks : Len(sock[s].queue) <= QueueCap BY <1>1, <1>2, FeedBounds
  <2>4. starts \in 0 .. MaxStarts /\ listener \in 0 .. starts /\ sent \in 0 .. MaxBlocks
    BY FeedBounds DEF Plugin!ServerInit
  <2>5. clients \in Seq(Socks) BY <1>1, <1>3
  <2> QED BY <2>1, <2>2, <2>3, <2>4, <2>5 DEF PluginTyped, Plugin!ServerInit
<1>5. StreamKept
  <2>1. Ordered(e, e, 0) BY <1>1 DEF Ordered, Rising
  <2> QED BY <1>2, <2>1 DEF StreamKept, Plugin!ServerInit
<1>6. ServedKnown BY <1>2 DEF ServedKnown, Plugin!ServerInit
<1> QED BY <1>4, <1>5, <1>6 DEF PluginInv

\* Where the queues and the list stay as they are, so does what is said of the stream.
LEMMA StreamFrame ==
  ASSUME StreamKept, clients' = clients, sent' = sent,
         \A s \in Socks : /\ sock'[s].got = sock[s].got /\ sock'[s].queue = sock[s].queue
                          /\ sock'[s].since = sock[s].since
                          /\ sock'[s].alive => sock[s].alive
  PROVE  StreamKept'
BY DEF StreamKept, Listed

\* Nothing happens.
LEMMA PluginStuttering == PluginInv /\ UNCHANGED pluginVars => PluginInv'
  BY DEF PluginInv, PluginTyped, StreamKept, ServedKnown, Listed, pluginVars

\* The panel.
LEMMA StartKeeps == PluginInv /\ Plugin!StartServer => PluginInv'
<1> SUFFICES ASSUME PluginInv, Plugin!StartServer PROVE PluginInv' OBVIOUS
<1> USE DEF PluginInv, Plugin!StartServer
<1>1. PluginTyped'
  <2>1. starts + 1 \in Plugin!Threads BY FeedBounds DEF PluginTyped, Plugin!Threads
  <2>2. acceptors' \in [Plugin!Threads -> AcceptorRec]
    <3>1. Moved(acceptors, acceptors', starts + 1, "test") BY DEF Moved
    <3>2. acceptors \in [Plugin!Threads -> AcceptorRec] BY DEF PluginTyped
    <3>3. "test" \in AcceptorPlaces BY DEF AcceptorPlaces
    <3> HIDE DEF PluginInv, Plugin!StartServer
    <3> QED BY <2>1, <3>1, <3>2, <3>3, Goes
  <2> QED BY <2>2, FeedBounds DEF PluginTyped
<1>2. StreamKept' BY StreamFrame
<1>3. ServedKnown'
  <2>1. \A g \in Plugin!Threads : acceptors'[g].at = "accept" =>
            acceptors[g].at = "accept" /\ acceptors'[g].on = acceptors[g].on
    BY DEF PluginTyped, AcceptorRec
  <2> QED BY <2>1 DEF ServedKnown, Listed
<1> QED BY <1>1, <1>2, <1>3

\* Stop, first half: the listener is closed, and whoever waits to be accepted is refused.
LEMMA StopListeningKeeps == PluginInv /\ Plugin!StopListening => PluginInv'
<1> SUFFICES ASSUME PluginInv, Plugin!StopListening PROVE PluginInv' OBVIOUS
<1> USE DEF PluginInv, Plugin!StopListening
<1>0. \A s \in Socks :
         /\ sock'[s] \in SockRec
         /\ sock'[s].got = sock[s].got /\ sock'[s].queue = sock[s].queue
         /\ sock'[s].since = sock[s].since /\ sock'[s].alive = sock[s].alive
  BY DEF PluginTyped, SockRec
<1>1. PluginTyped'
  <2>1. sock' = [s \in Socks |-> sock'[s]] OBVIOUS
  <2>2. sock' \in [Socks -> SockRec] BY <1>0, <2>1
  <2>3. starts \in Nat BY FeedBounds DEF PluginTyped
  <2>4. listener' \in 0 .. starts /\ (running' <=> listener' # 0) BY <2>3
  <2>5. /\ stopping' \in BOOLEAN /\ running' \in BOOLEAN
        /\ UNCHANGED <<starts, acceptors, clients, sent, inHand>>
    OBVIOUS
  <2>6. PluginTyped OBVIOUS
  <2> HIDE DEF PluginInv, Plugin!StopListening
  <2> QED BY <1>0, <2>2, <2>4, <2>5, <2>6 DEF PluginTyped
<1>2. StreamKept' BY <1>0, StreamFrame
<1>3. ServedKnown' BY <1>0 DEF ServedKnown, Listed
<1> QED BY <1>1, <1>2, <1>3

\* Stop, second half: the clients in the list are closed and the list is cleared; those an
\* accept thread has in hand stay.
LEMMA ClearKeeps == PluginInv /\ Plugin!ClearClients => PluginInv'
<1> SUFFICES ASSUME PluginInv, Plugin!ClearClients PROVE PluginInv' OBVIOUS
<1> USE DEF PluginInv, Plugin!ClearClients
<1>0. \A s \in Socks :
         /\ sock'[s] \in SockRec
         /\ sock'[s].got = sock[s].got /\ sock'[s].queue = sock[s].queue
         /\ sock'[s].alive = FALSE
  <2> TAKE s \in Socks
  <2>1. sock[s] \in SockRec BY DEF PluginTyped
  <2>2. sock[s].alive => s \in Plugin!Range(clients)
    BY DEF ServedKnown, Listed, Plugin!Range, PluginTyped
  <2>3. sock'[s] = IF s \in Plugin!Range(clients) THEN [sock[s] EXCEPT !.alive = FALSE] ELSE sock[s]
    BY DEF Plugin!Disposed
  <2> QED BY <2>1, <2>2, <2>3 DEF SockRec
<1>1. PluginTyped'
  <2>1. sock' = [s \in Socks |-> sock'[s]] BY DEF Plugin!Disposed
  <2>2. sock' \in [Socks -> SockRec] BY <1>0, <2>1
  <2>3. clients' \in Seq(Socks) OBVIOUS
  <2>4. inHand' \subseteq Socks BY DEF Plugin!Held, PluginTyped, AcceptorRec
  <2> QED BY <1>0, <2>2, <2>3, <2>4 DEF PluginTyped
<1>2. StreamKept' BY <1>0 DEF StreamKept
<1>3. ServedKnown'
  <2>1. \A g \in Plugin!Threads : acceptors'[g].has \subseteq inHand' BY DEF Plugin!Held
  <2> QED BY <1>0, <2>1 DEF ServedKnown
<1> QED BY <1>1, <1>2, <1>3

\* The accept threads.
LEMMA TestKeeps ==
  ASSUME PluginInv, NEW g \in Plugin!Threads, Plugin!Test(g)
  PROVE  PluginInv'
<1>a. acceptors \in [Plugin!Threads -> AcceptorRec] BY DEF PluginInv, PluginTyped
<1>b. "accept" \in AcceptorPlaces /\ "done" \in AcceptorPlaces BY DEF AcceptorPlaces
<1>c. UNCHANGED <<running, listener, starts, stopping, clients, sock, sent, inHand>>
  BY DEF Plugin!Test
<1>0. /\ acceptors' \in [Plugin!Threads -> AcceptorRec]
      /\ \A h \in Plugin!Threads : acceptors'[h].has = acceptors[h].has
      /\ \A h \in Plugin!Threads : acceptors'[h].at = "accept" =>
            \/ acceptors[h].at = "accept" /\ acceptors'[h].on = acceptors[h].on
            \/ acceptors'[h].on = listener /\ listener # 0
  <2>1. CASE running /\ listener # 0
    <3>1. listener \in Nat BY FeedBounds DEF PluginInv, PluginTyped
    <3>2. GoneListening(acceptors, acceptors', g, "accept", listener)
      BY <2>1 DEF GoneListening, Plugin!Test
    <3> QED BY <1>a, <1>b, <2>1, <3>1, <3>2, GoesListening
  <2>2. CASE ~(running /\ listener # 0)
    <3>2. Moved(acceptors, acceptors', g, "done")
      BY <2>2 DEF Moved, Plugin!Test, Plugin!Go
    <3>5. /\ acceptors' \in [Plugin!Threads -> AcceptorRec]
          /\ acceptors'[g].at = "done" /\ acceptors'[g].has = acceptors[g].has
          /\ \A h \in Plugin!Threads : h # g => acceptors'[h] = acceptors[h]
      BY <1>a, <1>b, <3>2, Goes
    <3>6. \A h \in Plugin!Threads : acceptors'[h].at = "accept" => h # g BY <3>5
    <3>7. \A h \in Plugin!Threads : acceptors'[h].has = acceptors[h].has
      <4> TAKE h \in Plugin!Threads
      <4>1. CASE h = g BY <3>5, <4>1
      <4>2. CASE h # g
        <5>1. acceptors'[h] = acceptors[h] BY <3>5, <4>2
        <5> QED BY <5>1
      <4> QED BY <4>1, <4>2
    <3>8. \A h \in Plugin!Threads : acceptors'[h].at = "accept" => acceptors'[h] = acceptors[h]
      BY <3>5, <3>6
    <3>9. \A h \in Plugin!Threads : acceptors'[h].at = "accept" =>
             acceptors[h].at = "accept" /\ acceptors'[h].on = acceptors[h].on
      <4> SUFFICES ASSUME NEW h \in Plugin!Threads, acceptors'[h].at = "accept"
                   PROVE  acceptors[h].at = "accept" /\ acceptors'[h].on = acceptors[h].on
        OBVIOUS
      <4>1. acceptors'[h] = acceptors[h] BY <3>8
      <4> QED BY <4>1
    <3> QED BY <3>5, <3>7, <3>9
  <2> QED BY <2>1, <2>2
<1>1. PluginTyped' BY <1>0, <1>c DEF PluginInv, PluginTyped
<1>2. StreamKept' BY <1>c, StreamFrame DEF PluginInv
<1>3. ServedKnown' BY <1>0, <1>c DEF PluginInv, ServedKnown, Listed
<1> QED BY <1>1, <1>2, <1>3 DEF PluginInv

\* AcceptTcpClient: the thread has a client in hand, or its listener was stopped.
LEMMA AcceptKeeps ==
  ASSUME PluginInv, NEW g \in Plugin!Threads, Plugin!AcceptSocket(g)
  PROVE  PluginInv'
<1> USE DEF PluginInv, Plugin!AcceptSocket, Plugin!At, Plugin!Go
<1>1. CASE acceptors[g].on = listener /\ ~UNCHANGED sock
  <2>1. PICK s \in Socks :
           /\ sock[s].at = "waiting"
           /\ sock' = [sock EXCEPT ![s].at = "accepted"]
           /\ acceptors' = [acceptors EXCEPT ![g].at = "add", ![g].has = {s}]
    BY <1>1
  <2>2. listener # 0 /\ running BY <1>1 DEF ServedKnown, PluginTyped
  <2>3. /\ sock' \in [Socks -> SockRec]
        /\ \A r \in Socks :
              /\ sock'[r].got = sock[r].got /\ sock'[r].queue = sock[r].queue
              /\ sock'[r].since = sock[r].since /\ sock'[r].alive = sock[r].alive
    <3>1. Moved(sock, sock', s, "accepted") BY <2>1 DEF Moved
    <3>2. sock \in [Socks -> SockRec] BY DEF PluginTyped
    <3>3. "accepted" \in SockPlaces BY DEF SockPlaces
    <3> HIDE DEF PluginInv, Plugin!AcceptSocket
    <3> QED BY <3>1, <3>2, <3>3, SockAt
  <2>4. /\ acceptors' \in [Plugin!Threads -> AcceptorRec]
        /\ \A h \in Plugin!Threads : acceptors'[h].at = "accept" =>
              acceptors[h].at = "accept" /\ acceptors'[h].on = acceptors[h].on
    <3>1. acceptors \in [Plugin!Threads -> AcceptorRec] BY DEF PluginTyped
    <3>2. "add" \in AcceptorPlaces BY DEF AcceptorPlaces
    <3>3. PICK held : held = {s} OBVIOUS
    <3>4. GoneHolding(acceptors, acceptors', g, "add", held) BY <2>1, <3>3 DEF GoneHolding
    <3> HIDE DEF PluginInv, Plugin!AcceptSocket
    <3>5. held \in SUBSET Socks BY <3>3
    <3>6. /\ acceptors' \in [Plugin!Threads -> AcceptorRec] /\ acceptors'[g].at = "add"
          /\ \A h \in Plugin!Threads : h # g => acceptors'[h] = acceptors[h]
      BY <3>1, <3>2, <3>4, <3>5, GoesHolding
    <3> QED BY <3>6
  <2>5. PluginTyped' BY <2>3, <2>4 DEF PluginTyped
  <2>6. StreamKept' BY <2>3, StreamFrame
  <2>7. ServedKnown' BY <2>2, <2>3, <2>4 DEF ServedKnown, Listed
  <2> QED BY <2>5, <2>6, <2>7
<1>2. CASE acceptors' = [acceptors EXCEPT ![g].at = "done"] /\ UNCHANGED sock
  <2>1. /\ acceptors' \in [Plugin!Threads -> AcceptorRec]
        /\ \A h \in Plugin!Threads : acceptors'[h].has = acceptors[h].has
        /\ \A h \in Plugin!Threads : acceptors'[h].at = "accept" =>
              acceptors[h].at = "accept" /\ acceptors'[h].on = acceptors[h].on
    BY <1>2 DEF PluginTyped, AcceptorRec
  <2>2. PluginTyped' BY <1>2, <2>1 DEF PluginTyped
  <2>3. StreamKept' BY <1>2, StreamFrame
  <2>4. ServedKnown' BY <1>2, <2>1 DEF ServedKnown, Listed
  <2> QED BY <2>2, <2>3, <2>4
<1>3. sock' # sock \/ UNCHANGED sock OBVIOUS
<1>4. CASE acceptors[g].on = listener /\ UNCHANGED sock
  <2>1. PICK s \in Socks : sock[s].at = "waiting" /\ sock' = [sock EXCEPT ![s].at = "accepted"]
    BY <1>4
  <2>2. sock'[s].at = "accepted" BY <2>1 DEF PluginTyped, SockRec
  <2> QED BY <1>4, <2>1, <2>2
<1> QED BY <1>1, <1>2, <1>4

\* A client that is added is in the list before anything is broadcast to it.
LEMMA AddKeeps ==
  ASSUME PluginInv, NEW g \in Plugin!Threads, Plugin!AddClient(g)
  PROVE  PluginInv'
<1> USE DEF PluginInv, Plugin!AddClient, Plugin!At, Plugin!Go
<1>1. PICK s \in acceptors[g].has : /\ clients' = Append(clients, s)
                                    /\ sock' = [sock EXCEPT ![s].alive = TRUE, ![s].since = sent]
  OBVIOUS
<1>2. s \in Socks BY DEF PluginTyped, AcceptorRec
<1>3. sent \in Nat BY FeedBounds DEF PluginTyped
<1>4. /\ sock' \in [Socks -> SockRec]
      /\ \A r \in Socks : sock'[r].got = sock[r].got /\ sock'[r].queue = sock[r].queue
      /\ \A r \in Socks : r # s => sock'[r] = sock[r]
      /\ sock'[s].since = sent
  <2>1. sock \in [Socks -> SockRec] /\ sock[s] \in SockRec BY <1>2 DEF PluginTyped
  <2>2. PICK z : z = [sock[s] EXCEPT !.alive = TRUE, !.since = sent] OBVIOUS
  <2>3. z \in SockRec /\ z.got = sock[s].got /\ z.queue = sock[s].queue /\ z.since = sent
    BY <1>3, <2>1, <2>2 DEF SockRec
  <2>4. sock' = [sock EXCEPT ![s] = z] BY <1>1, <1>2, <2>1, <2>2 DEF SockRec
  <2> QED BY <1>2, <2>1, <2>3, <2>4
<1>5. /\ acceptors' \in [Plugin!Threads -> AcceptorRec]
      /\ \A h \in Plugin!Threads : acceptors'[h].has = acceptors[h].has
      /\ \A h \in Plugin!Threads : acceptors'[h].at = "accept" =>
            acceptors[h].at = "accept" /\ acceptors'[h].on = acceptors[h].on
  BY DEF PluginTyped, AcceptorRec
<1>6. /\ clients' \in Seq(Socks) /\ Len(clients) \in Nat /\ Len(clients') = Len(clients) + 1
      /\ clients'[Len(clients) + 1] = s
      /\ \A i \in 1 .. Len(clients) : clients'[i] = clients[i]
  BY <1>1, <1>2, AppendFacts DEF PluginTyped
<1>7. PluginTyped' BY <1>4, <1>5, <1>6 DEF PluginTyped
<1>8. \A r \in Socks : Listed(r)' <=> Listed(r) \/ r = s
  <2> TAKE r \in Socks
  <2>1. Listed(r) => Listed(r)'
    <3> SUFFICES ASSUME NEW i \in 1 .. Len(clients), clients[i] = r PROVE Listed(r)'
      BY DEF Listed
    <3>1. i \in 1 .. Len(clients') /\ clients'[i] = r BY <1>6
    <3> QED BY <3>1 DEF Listed
  <2>2. r = s => Listed(r)'
    <3>1. Len(clients) + 1 \in 1 .. Len(clients') BY <1>6
    <3> QED BY <3>1, <1>6 DEF Listed
  <2>3. Listed(r)' => Listed(r) \/ r = s
    <3> SUFFICES ASSUME NEW i \in 1 .. Len(clients'), clients'[i] = r PROVE Listed(r) \/ r = s
      BY DEF Listed
    <3>1. i = Len(clients) + 1 \/ i \in 1 .. Len(clients) BY <1>6
    <3> QED BY <3>1, <1>6 DEF Listed
  <2> QED BY <2>1, <2>2, <2>3
<1>9. StreamKept'
  <2> SUFFICES ASSUME NEW r \in Socks
               PROVE  /\ Ordered(sock'[r].got, sock'[r].queue, sent')
                      /\ Listed(r)' /\ sock'[r].alive /\ sent' > sock'[r].since
                            => EndsWith(sock'[r].got, sock'[r].queue, sent')
    BY DEF StreamKept
  <2>1. CASE r = s BY <2>1, <1>3, <1>4 DEF StreamKept
  <2>2. CASE r # s BY <2>2, <1>4, <1>8 DEF StreamKept
  <2> QED BY <2>1, <2>2
<1>10. ServedKnown'
  <2>1. \A r \in Socks : sock'[r].alive => r = s \/ sock[r].alive BY <1>4
  <2>2. ~running /\ ~stopping => s \in inHand BY DEF ServedKnown
  <2> QED BY <2>1, <2>2, <1>5, <1>8 DEF ServedKnown
<1> QED BY <1>7, <1>9, <1>10

\* A client's thread is started once the client is in the list.
LEMMA StartClientKeeps ==
  ASSUME PluginInv, NEW g \in Plugin!Threads, Plugin!StartClient(g)
  PROVE  PluginInv'
<1> USE DEF PluginInv, Plugin!StartClient, Plugin!At, Plugin!Go
<1>1. PICK s \in acceptors[g].has : sock' = [sock EXCEPT ![s].at = "sending"] OBVIOUS
<1>2. s \in Socks BY DEF PluginTyped, AcceptorRec
<1>3. /\ sock' \in [Socks -> SockRec]
      /\ \A r \in Socks :
            /\ sock'[r].got = sock[r].got /\ sock'[r].queue = sock[r].queue
            /\ sock'[r].since = sock[r].since /\ sock'[r].alive = sock[r].alive
  <2>1. Moved(sock, sock', s, "sending") BY <1>1 DEF Moved
  <2>2. sock \in [Socks -> SockRec] BY DEF PluginTyped
  <2>3. "sending" \in SockPlaces BY DEF SockPlaces
  <2> HIDE DEF PluginInv, Plugin!StartClient
  <2> QED BY <1>2, <2>1, <2>2, <2>3, SockAt
<1>4. acceptors' = [acceptors EXCEPT ![g].at = "test", ![g].has = {}] OBVIOUS
<1>5. /\ acceptors' \in [Plugin!Threads -> AcceptorRec]
      /\ \A h \in Plugin!Threads : acceptors'[h].has \subseteq acceptors[h].has
      /\ \A h \in Plugin!Threads : acceptors'[h].at = "accept" =>
            acceptors[h].at = "accept" /\ acceptors'[h].on = acceptors[h].on
  BY <1>4 DEF PluginTyped, AcceptorRec
<1>6. PluginTyped' BY <1>3, <1>5 DEF PluginTyped
<1>7. StreamKept' BY <1>3, StreamFrame
<1>8. ServedKnown' BY <1>3, <1>5 DEF ServedKnown, Listed
<1> QED BY <1>6, <1>7, <1>8

\* The stream, and the clients' threads.
LEMMA StreamKeeps == PluginInv /\ Plugin!Broadcast => PluginInv'
<1> SUFFICES ASSUME PluginInv, Plugin!Broadcast PROVE PluginInv' OBVIOUS
<1> USE DEF PluginInv, Plugin!Broadcast
<1>1. sent \in Nat /\ sent' = sent + 1 /\ sent' \in 0 .. MaxBlocks /\ sent' \in Nat
  BY FeedBounds DEF PluginTyped
<1>2. \A s \in Socks :
         /\ sock'[s] \in SockRec /\ Len(sock'[s].queue) <= QueueCap
         /\ sock'[s].since = sock[s].since /\ sock'[s].alive = sock[s].alive
         /\ Ordered(sock'[s].got, sock'[s].queue, sent')
         /\ Listed(s) /\ sock[s].alive => EndsWith(sock'[s].got, sock'[s].queue, sent')
  <2> TAKE s \in Socks
  <2>1. /\ sock[s] \in SockRec /\ Len(sock[s].queue) <= QueueCap
        /\ Ordered(sock[s].got, sock[s].queue, sent)
    BY DEF PluginTyped, StreamKept
  <2>2. sock[s].got \in Seq(Nat) /\ sock[s].queue \in Seq(Nat) BY <2>1 DEF SockRec
  <2>3. s \in Plugin!Range(clients) <=> Listed(s)
    BY DEF Listed, Plugin!Range, PluginTyped
  <2>4. CASE Listed(s) /\ sock[s].alive
    <3>1. PICK more : more = Plugin!Enqueued(sock[s].queue, sent') OBVIOUS
    <3>2. /\ more \in Seq(Nat) /\ Len(more) <= QueueCap
          /\ Ordered(sock[s].got, more, sent') /\ EndsWith(sock[s].got, more, sent')
      BY <1>1, <2>1, <2>2, <3>1, EnqueuedFacts
    <3>3. sock'[s] = [sock[s] EXCEPT !.queue = more]
      BY <1>1, <2>3, <2>4, <3>1
    <3>4. /\ sock'[s] \in SockRec /\ sock'[s].queue = more /\ sock'[s].got = sock[s].got
          /\ sock'[s].since = sock[s].since /\ sock'[s].alive = sock[s].alive
      BY <2>1, <3>2, <3>3 DEF SockRec
    <3> QED BY <3>2, <3>4
  <2>5. CASE ~(Listed(s) /\ sock[s].alive)
    <3>1. sock'[s] = sock[s] BY <2>3, <2>5
    <3>2. Ordered(sock[s].got, sock[s].queue, sent')
      <4>1. \A i \in 1 .. Len(sock[s].got) : sock[s].got[i] \in Nat BY <2>2, ElementsOf
      <4>2. \A i \in 1 .. Len(sock[s].queue) : sock[s].queue[i] \in Nat BY <2>2, ElementsOf
      <4> QED BY <1>1, <2>1, <4>1, <4>2 DEF Ordered
    <3> QED BY <2>1, <2>5, <3>1, <3>2
  <2> QED BY <2>4, <2>5
<1>3. PluginTyped'
  <2>1. sock' \in [Socks -> SockRec] BY <1>2
  <2> QED BY <1>1, <1>2, <2>1 DEF PluginTyped
<1>4. StreamKept' BY <1>2 DEF StreamKept, Listed
<1>5. ServedKnown' BY <1>2 DEF ServedKnown, Listed
<1> QED BY <1>3, <1>4, <1>5

\* SendLoop sends the block at the head of the queue.
LEMMA SendKeeps ==
  ASSUME PluginInv, NEW s \in Socks, Plugin!SendBlock(s)
  PROVE  PluginInv'
<1> USE DEF PluginInv
<1>1. /\ sock[s] \in SockRec /\ Len(sock[s].queue) <= QueueCap /\ sent \in Nat
      /\ Ordered(sock[s].got, sock[s].queue, sent) /\ sock[s].queue # <<>>
  BY FeedBounds DEF PluginTyped, StreamKept, Plugin!SendBlock
<1>2. sock[s].got \in Seq(Nat) /\ sock[s].queue \in Seq(Nat) BY <1>1 DEF SockRec
<1>3. PICK q : q = Tail(sock[s].queue) OBVIOUS
<1>4. PICK g : g = Append(sock[s].got, Head(sock[s].queue)) OBVIOUS
<1>5. /\ q \in Seq(Nat) /\ g \in Seq(Nat) /\ Len(q) <= QueueCap
      /\ Ordered(g, q, sent)
      /\ EndsWith(sock[s].got, sock[s].queue, sent) => EndsWith(g, q, sent)
  <2>1. PICK got : got = sock[s].got OBVIOUS
  <2>2. PICK queue : queue = sock[s].queue OBVIOUS
  <2>3. PICK n : n = sent OBVIOUS
  <2>4. /\ got \in Seq(Nat) /\ queue \in Seq(Nat) /\ n \in Nat /\ queue # <<>>
        /\ Len(queue) <= QueueCap /\ Ordered(got, queue, n)
        /\ q = Tail(queue) /\ g = Append(got, Head(queue))
    BY <1>1, <1>2, <1>3, <1>4, <2>1, <2>2, <2>3
  <2>5. /\ q \in Seq(Nat) /\ g \in Seq(Nat) /\ Len(q) <= QueueCap
        /\ Ordered(g, q, n) /\ (EndsWith(got, queue, n) => EndsWith(g, q, n))
    <3> HIDE <1>1, <1>2, <1>3, <1>4
    <3> QED BY <2>4, SentFacts
  <2> QED BY <2>1, <2>2, <2>3, <2>5
<1>6. sock' = [sock EXCEPT ![s].queue = q, ![s].got = g]
  BY <1>3, <1>4 DEF Plugin!SendBlock, PluginTyped
<1>7. UNCHANGED <<running, listener, starts, stopping, acceptors, clients, sent, inHand>>
  BY DEF Plugin!SendBlock
<1>8. /\ sock' \in [Socks -> SockRec]
      /\ sock'[s].queue = q /\ sock'[s].got = g
      /\ \A r \in Socks : r # s => sock'[r] = sock[r]
      /\ \A r \in Socks : sock'[r].since = sock[r].since /\ sock'[r].alive = sock[r].alive
  BY <1>5, <1>6 DEF PluginTyped, SockRec
<1>9. PluginTyped' BY <1>5, <1>7, <1>8 DEF PluginTyped
<1>10. StreamKept'
  <2> SUFFICES ASSUME NEW r \in Socks
               PROVE  /\ Ordered(sock'[r].got, sock'[r].queue, sent')
                      /\ Listed(r)' /\ sock'[r].alive /\ sent' > sock'[r].since
                            => EndsWith(sock'[r].got, sock'[r].queue, sent')
    BY DEF StreamKept
  <2>1. Listed(r)' <=> Listed(r) BY <1>7 DEF Listed
  <2>2. CASE r = s BY <2>1, <2>2, <1>5, <1>7, <1>8 DEF StreamKept
  <2>3. CASE r # s BY <2>1, <2>3, <1>7, <1>8 DEF StreamKept
  <2> QED BY <2>2, <2>3
<1>11. ServedKnown' BY <1>7, <1>8 DEF ServedKnown, Listed
<1> QED BY <1>9, <1>10, <1>11

\* SendLoop ends, a decoder connects or goes: nobody's stream changes.
LEMMA EndsKeeps ==
  ASSUME PluginInv, NEW s \in Socks,
         Plugin!SendLoopEnds(s) \/ Plugin!Connect(s) \/ Plugin!PeerGoes(s)
  PROVE  PluginInv'
<1> USE DEF PluginInv
<1>1. UNCHANGED <<running, listener, starts, stopping, acceptors, clients, sent, inHand>>
  BY DEF Plugin!SendLoopEnds, Plugin!Connect, Plugin!PeerGoes
<1>2. \/ Moved(sock, sock', s, "closing") \/ Moved(sock, sock', s, "waiting")
      \/ Breaks(sock, sock', s)
  BY DEF Plugin!SendLoopEnds, Plugin!Connect, Plugin!PeerGoes, Moved, Breaks
<1>3. /\ sock' \in [Socks -> SockRec]
      /\ \A r \in Socks :
            /\ sock'[r].got = sock[r].got /\ sock'[r].queue = sock[r].queue
            /\ sock'[r].since = sock[r].since /\ sock'[r].alive = sock[r].alive
  <2>1. sock \in [Socks -> SockRec] BY DEF PluginTyped
  <2>2. "closing" \in SockPlaces /\ "waiting" \in SockPlaces BY DEF SockPlaces
  <2> HIDE DEF PluginInv
  <2>3. CASE Moved(sock, sock', s, "closing") BY <2>1, <2>2, <2>3, SockAt
  <2>4. CASE Moved(sock, sock', s, "waiting") BY <2>1, <2>2, <2>4, SockAt
  <2>5. CASE Breaks(sock, sock', s) BY <2>1, <2>5, SockBroken
  <2> QED BY <1>2, <2>3, <2>4, <2>5
<1>4. PluginTyped' BY <1>1, <1>3 DEF PluginTyped
<1>5. StreamKept' BY <1>1, <1>3, StreamFrame
<1>6. ServedKnown' BY <1>1, <1>3 DEF ServedKnown, Listed
<1> QED BY <1>4, <1>5, <1>6

\* OnClientClosed takes the client out of the list, if Stop has not done so.
LEMMA ClosedKeeps ==
  ASSUME PluginInv, NEW s \in Socks, Plugin!OnClientClosed(s)
  PROVE  PluginInv'
<1> USE DEF PluginInv
<1>1. UNCHANGED <<running, listener, starts, stopping, acceptors, sent, inHand>>
  BY DEF Plugin!OnClientClosed
<1>2. PICK q : q = Plugin!RemoveFirst(clients, s) OBVIOUS
<1>3. clients' = q BY <1>2 DEF Plugin!OnClientClosed
<1>4. /\ q \in Seq(Socks)
      /\ \A x \in Socks : x # s /\ (\E i \in 1 .. Len(clients) : clients[i] = x)
            => \E i \in 1 .. Len(q) : q[i] = x
      /\ \A x \in Socks : (\E i \in 1 .. Len(q) : q[i] = x)
            => \E i \in 1 .. Len(clients) : clients[i] = x
  BY <1>2, RemoveFirstFacts DEF PluginTyped
<1>5. \A x \in Socks : Listed(x)' <=> \E i \in 1 .. Len(q) : q[i] = x BY <1>3 DEF Listed
<1>6. sock' = [[r \in Socks |-> IF r \in {s} THEN [sock[r] EXCEPT !.alive = FALSE] ELSE sock[r]]
                 EXCEPT ![s].at = "closed"]
  BY DEF Plugin!OnClientClosed, Plugin!Disposed
<1>7. /\ sock' \in [Socks -> SockRec]
      /\ \A r \in Socks : r # s => sock'[r] = sock[r]
      /\ ~sock'[s].alive
      /\ \A r \in Socks : sock'[r].got = sock[r].got /\ sock'[r].queue = sock[r].queue
  BY <1>6 DEF PluginTyped, SockRec
<1>8. PluginTyped' BY <1>1, <1>3, <1>4, <1>7 DEF PluginTyped
<1>9. StreamKept'
  <2> SUFFICES ASSUME NEW r \in Socks
               PROVE  /\ Ordered(sock'[r].got, sock'[r].queue, sent')
                      /\ Listed(r)' /\ sock'[r].alive /\ sent' > sock'[r].since
                            => EndsWith(sock'[r].got, sock'[r].queue, sent')
    BY DEF StreamKept
  <2>1. CASE r = s BY <2>1, <1>1, <1>7 DEF StreamKept
  <2>2. CASE r # s
    <3>1. Listed(r)' => Listed(r) BY <1>4, <1>5 DEF Listed
    <3> QED BY <2>2, <3>1, <1>1, <1>7 DEF StreamKept
  <2> QED BY <2>1, <2>2
<1>10. ServedKnown'
  <2>1. \A r \in Socks : sock'[r].alive => sock[r].alive /\ r # s BY <1>7
  <2>2. \A r \in Socks : r # s /\ Listed(r) => Listed(r)' BY <1>4, <1>5 DEF Listed
  <2> QED BY <2>1, <2>2, <1>1 DEF ServedKnown
<1> QED BY <1>8, <1>9, <1>10

\* Each step of the plugin keeps the invariant.
LEMMA PluginStep == PluginInv /\ [Plugin!ServerNext]_pluginVars => PluginInv'
<1> SUFFICES ASSUME PluginInv, [Plugin!ServerNext]_pluginVars PROVE PluginInv' OBVIOUS
<1>1. CASE Plugin!StartServer BY <1>1, StartKeeps
<1>2. CASE Plugin!StopListening BY <1>2, StopListeningKeeps
<1>3. CASE Plugin!ClearClients BY <1>3, ClearKeeps
<1>4. CASE Plugin!Broadcast BY <1>4, StreamKeeps
<1>5. ASSUME NEW g \in Plugin!Threads, Plugin!Accepting(g) PROVE PluginInv'
  BY <1>5, TestKeeps, AcceptKeeps, AddKeeps, StartClientKeeps DEF Plugin!Accepting
<1>6. ASSUME NEW s \in Socks,
             Plugin!SendBlock(s) \/ Plugin!Closing(s) \/ Plugin!Connect(s) \/ Plugin!PeerGoes(s)
      PROVE  PluginInv'
  BY <1>6, SendKeeps, EndsKeeps, ClosedKeeps DEF Plugin!Closing
<1>7. CASE UNCHANGED pluginVars BY <1>7, PluginStuttering
<1> QED BY <1>1, <1>2, <1>3, <1>4, <1>5, <1>6, <1>7 DEF Plugin!ServerNext


\* What a client has with what waits for it, as one sequence.
LEMMA StreamFacts ==
  ASSUME NEW got \in Seq(Nat), NEW queue \in Seq(Nat), NEW n \in Nat, NEW stream,
         stream = got \o queue, Ordered(got, queue, n)
  PROVE  /\ \A k \in 1 .. Len(stream) - 1 : stream[k] < stream[k + 1]
         /\ EndsWith(got, queue, n) => stream # <<>> /\ Plugin!Last(stream) = n
<1>1. /\ stream \in Seq(Nat) /\ Len(got) \in Nat /\ Len(queue) \in Nat
      /\ Len(stream) = Len(got) + Len(queue)
      /\ \A k \in 1 .. Len(got) : stream[k] = got[k]
      /\ \A k \in Len(got) + 1 .. Len(stream) : stream[k] = queue[k - Len(got)]
  BY ConcatFacts
<1>2. \A k \in 1 .. Len(stream) - 1 : stream[k] < stream[k + 1]
  <2> TAKE k \in 1 .. Len(stream) - 1
  <2>1. k \in Nat BY <1>1
  <2>2. CASE k + 1 <= Len(got)
    <3>1. k \in 1 .. Len(got) /\ k + 1 \in 1 .. Len(got) /\ k < k + 1 BY <1>1, <2>1, <2>2
    <3> QED BY <1>1, <3>1 DEF Ordered, Rising
  <2>3. CASE k = Len(got)
    <3>1. k \in 1 .. Len(got) /\ k + 1 \in Len(got) + 1 .. Len(stream) /\ k + 1 - Len(got) = 1
          /\ 1 \in 1 .. Len(queue)
      BY <1>1, <2>1, <2>3
    <3> QED BY <1>1, <3>1 DEF Ordered
  <2>4. CASE k > Len(got)
    <3>1. /\ k \in Len(got) + 1 .. Len(stream) /\ k + 1 \in Len(got) + 1 .. Len(stream)
          /\ k - Len(got) \in 1 .. Len(queue) /\ k + 1 - Len(got) \in 1 .. Len(queue)
          /\ k - Len(got) < k + 1 - Len(got)
      BY <1>1, <2>1, <2>4
    <3>2. queue[k - Len(got)] < queue[k + 1 - Len(got)] BY <3>1 DEF Ordered, Rising
    <3>3. stream[k] = queue[k - Len(got)] BY <1>1, <3>1
    <3>4. stream[k + 1] = queue[k + 1 - Len(got)] BY <1>1, <3>1
    <3> QED BY <3>2, <3>3, <3>4
  <2> QED BY <1>1, <2>1, <2>2, <2>3, <2>4
<1>3. ASSUME EndsWith(got, queue, n) PROVE stream # <<>> /\ Plugin!Last(stream) = n
  <2>0. /\ queue = <<>> <=> Len(queue) = 0
        /\ got = <<>> <=> Len(got) = 0
        /\ stream = <<>> <=> Len(stream) = 0
    BY <1>1, ElementsOf
  <2>1. CASE queue # <<>>
    <3>1. Len(stream) \in Len(got) + 1 .. Len(stream) /\ Len(stream) - Len(got) = Len(queue)
      BY <1>1, <2>0, <2>1
    <3> QED BY <1>1, <1>3, <2>0, <2>1, <3>1 DEF EndsWith, Plugin!Last
  <2>2. CASE queue = <<>>
    <3>1. Len(stream) = Len(got) /\ Len(got) # 0 /\ Len(got) \in 1 .. Len(got)
      BY <1>1, <1>3, <2>0, <2>2 DEF EndsWith
    <3> QED BY <1>1, <1>3, <2>0, <2>2, <3>1 DEF EndsWith, Plugin!Last
  <2> QED BY <2>1, <2>2
<1> QED BY <1>2, <1>3

\* What the properties say of the plugin follows.
LEMMA PluginSaid ==
  PluginInv => Plugin!ServerTypeOK /\ Plugin!StreamInOrder /\ Plugin!StoppedServesNobody
<1> SUFFICES ASSUME PluginInv
             PROVE  Plugin!ServerTypeOK /\ Plugin!StreamInOrder /\ Plugin!StoppedServesNobody
  OBVIOUS
<1>1. Plugin!ServerTypeOK
  <2>1. \A g \in Plugin!Threads :
           acceptors[g].at \in {"none", "test", "accept", "add", "start", "done"}
    BY DEF PluginInv, PluginTyped, AcceptorRec
  <2> QED BY <2>1 DEF PluginInv, PluginTyped, Plugin!ServerTypeOK
<1>2. Plugin!StoppedServesNobody
  BY DEF PluginInv, ServedKnown, Plugin!StoppedServesNobody
<1>3. ASSUME NEW s \in Socks, NEW stream, stream = sock[s].got \o sock[s].queue
      PROVE  /\ \A k \in 1 .. Len(stream) - 1 : stream[k] < stream[k + 1]
             /\ s \in Plugin!Range(clients) /\ sock[s].alive /\ sent > sock[s].since
                   => stream # <<>> /\ Plugin!Last(stream) = sent
  <2>1. PICK got, queue, n : got = sock[s].got /\ queue = sock[s].queue /\ n = sent OBVIOUS
  <2>2. sock[s] \in SockRec BY DEF PluginInv, PluginTyped
  <2>3. got \in Seq(Nat) /\ queue \in Seq(Nat) /\ n \in Nat
    BY <2>1, <2>2, FeedBounds DEF SockRec, PluginInv, PluginTyped
  <2>4. Ordered(got, queue, n) BY <2>1 DEF PluginInv, StreamKept
  <2>5. stream = got \o queue BY <1>3, <2>1
  <2>6. /\ \A k \in 1 .. Len(stream) - 1 : stream[k] < stream[k + 1]
        /\ EndsWith(got, queue, n) => stream # <<>> /\ Plugin!Last(stream) = n
    BY <2>3, <2>4, <2>5, StreamFacts
  <2>7. s \in Plugin!Range(clients) => Listed(s)
    BY DEF Plugin!Range, Listed, PluginInv, PluginTyped
  <2>8. Listed(s) /\ sock[s].alive /\ sent > sock[s].since => EndsWith(got, queue, n)
    BY <2>1 DEF PluginInv, StreamKept
  <2> QED BY <2>1, <2>6, <2>7, <2>8
<1>4. Plugin!StreamInOrder BY <1>3 DEF Plugin!StreamInOrder
<1> QED BY <1>1, <1>2, <1>4

-----------------------------------------------------------------------------
(* The hub of std-t115.                                                    *)

T115Events == [kind : {"broadcast_start", "broadcast_end"}, id : T115!Ids]

PeerRec == [phase : {"off", "added", "live", "done"}, listed : BOOLEAN, shut : BOOLEAN,
            reading : BOOLEAN, send : Seq(T115Events), page : T115!Pages, gone : BOOLEAN,
            lossy : BOOLEAN]

Has(q, x) == \E i \in 1 .. Len(q) : q[i] = x

IsEnd(event, id) == event.kind = "broadcast_end" /\ event.id = id

\* What is on its way to a page while the loop tells of event.
Way(p, event) == IF event = T115!Silent THEN p.send ELSE Append(p.send, event)

\* The last event of all is about the broadcast cur that is on the air, and what ends
\* in one is in the list ended.
TellsLast(cur, ended, way) ==
    /\ way # <<>> => cur = T115!Shows(way[Len(way)])
    /\ \A k \in 1 .. Len(way) : way[k].kind = "broadcast_end" => Has(ended, way[k].id)

\* With what is on its way the page shows cur, lists nothing that did not end and
\* misses none but those in other, which a start for another call ended.
WillShow(cur, ended, other, page, way) ==
    /\ way = <<>> => page.current = cur
    /\ \A i \in 1 .. Len(page.broadcasts) : Has(ended, page.broadcasts[i])
    /\ \A i \in 1 .. Len(ended) :
          \/ ended[i] \in other \/ Has(page.broadcasts, ended[i])
          \/ \E k \in 1 .. Len(way) : IsEnd(way[k], ended[i])

Connected(p) == p.phase \in {"added", "live"} /\ ~p.gone /\ ~p.lossy

\* A channel is closed as it leaves the list; as long as its page is there it is listed;
\* and a page that misses nothing is going to show the state.
PeerRight(p, cur, ended, other, event) ==
    /\ p \in PeerRec /\ Len(p.send) <= SendCap
    /\ p.shut => ~p.listed
    /\ p.phase \in {"added", "live"} /\ ~p.gone => p.listed
    /\ Connected(p) =>
          /\ TellsLast(cur, ended, Way(p, event))
          /\ p.phase = "live" => WillShow(cur, ended, other, p.page, Way(p, event))

HubTyped ==
    /\ current \in T115!Ids \cup {0} /\ broadcasts \in Seq(T115!Ids)
    /\ replaced \subseteq T115!Ids
    /\ telling \in T115Events \cup {T115!Silent}
    /\ panicked = FALSE

HubTells ==
    telling # T115!Silent =>
        /\ current = T115!Shows(telling)
        /\ telling.kind = "broadcast_end" => Has(broadcasts, telling.id)

PeersRight ==
    /\ peers = [c \in Peers |-> peers[c]]
    /\ \A c \in Peers : PeerRight(peers[c], current, broadcasts, replaced, telling)

T115Inv == HubTyped /\ HubTells /\ PeersRight

\* What has ended grows to ended2 as event tells, but for what other2 has.
Ends(ended, other, ended2, other2, event) ==
    /\ \A x : Has(ended, x) => Has(ended2, x)
    /\ other \subseteq other2
    /\ event.kind = "broadcast_end" => Has(ended2, event.id)
    /\ \A i \in 1 .. Len(ended2) : \/ ended2[i] \in other2 \/ Has(ended, ended2[i])
                                   \/ IsEnd(event, ended2[i])

\* An event follows: what it tells of is new, what ended before stays.
LEMMA TellsNext ==
  ASSUME NEW cur, NEW ended \in Seq(T115!Ids), NEW other, NEW way \in Seq(T115Events),
         NEW cur2, NEW ended2 \in Seq(T115!Ids), NEW other2, NEW way2, NEW event \in T115Events,
         way2 = Append(way, event), TellsLast(cur, ended, way), cur2 = T115!Shows(event),
         Ends(ended, other, ended2, other2, event), NEW page
  PROVE  /\ TellsLast(cur2, ended2, way2)
         /\ WillShow(cur, ended, other, page, way) => WillShow(cur2, ended2, other2, page, way2)
<1>1. /\ Len(way) \in Nat /\ Len(way2) = Len(way) + 1 /\ way2 # <<>>
      /\ way2[Len(way) + 1] = event /\ \A k \in 1 .. Len(way) : way2[k] = way[k]
  BY AppendFacts
<1>2. \A k \in 1 .. Len(way2) : k = Len(way) + 1 \/ k \in 1 .. Len(way) BY <1>1
<1>3. Len(way2) \in 1 .. Len(way2) /\ way2[Len(way2)] = event BY <1>1
<1>4. TellsLast(cur2, ended2, way2)
  <2> SUFFICES ASSUME NEW k \in 1 .. Len(way2), way2[k].kind = "broadcast_end"
               PROVE  Has(ended2, way2[k].id)
    BY <1>3 DEF TellsLast
  <2>1. CASE k = Len(way) + 1 BY <2>1, <1>1 DEF Ends
  <2>2. CASE k \in 1 .. Len(way) BY <2>2, <1>1 DEF TellsLast, Ends
  <2> QED BY <2>1, <2>2, <1>2
<1>5. ASSUME WillShow(cur, ended, other, page, way)
      PROVE  WillShow(cur2, ended2, other2, page, way2)
  <2>1. \A i \in 1 .. Len(page.broadcasts) : Has(ended2, page.broadcasts[i])
    BY <1>5 DEF WillShow, Ends
  <2>2. ASSUME NEW i \in 1 .. Len(ended2)
        PROVE  \/ ended2[i] \in other2 \/ Has(page.broadcasts, ended2[i])
               \/ \E k \in 1 .. Len(way2) : IsEnd(way2[k], ended2[i])
    <3>1. CASE IsEnd(event, ended2[i]) BY <3>1, <1>3
    <3>2. CASE Has(ended, ended2[i])
      <4>1. PICK j \in 1 .. Len(ended) : ended[j] = ended2[i] BY <3>2 DEF Has
      <4>2. \/ ended[j] \in other \/ Has(page.broadcasts, ended[j])
            \/ \E k \in 1 .. Len(way) : IsEnd(way[k], ended[j])
        BY <1>5 DEF WillShow
      <4>3. ASSUME NEW k \in 1 .. Len(way), IsEnd(way[k], ended[j])
            PROVE  \E m \in 1 .. Len(way2) : IsEnd(way2[m], ended2[i])
        <5>1. k \in 1 .. Len(way2) BY <1>1
        <5>2. IsEnd(way2[k], ended2[i]) BY <1>1, <4>1, <4>3
        <5> QED BY <5>1, <5>2
      <4> QED BY <4>1, <4>2, <4>3 DEF Ends
    <3> QED BY <3>1, <3>2 DEF Ends
  <2> QED BY <1>1, <2>1, <2>2 DEF WillShow
<1> QED BY <1>4, <1>5

\* The page takes the first event of what is on its way.
LEMMA WillShowTaken ==
  ASSUME NEW cur, NEW ended \in Seq(T115!Ids), NEW other, NEW way \in Seq(T115Events),
         NEW way2, NEW page \in T115!Pages, NEW page2,
         way # <<>>, way2 = Tail(way), page2 = T115!Apply(page, way[1]),
         TellsLast(cur, ended, way), WillShow(cur, ended, other, page, way)
  PROVE  /\ TellsLast(cur, ended, way2) /\ WillShow(cur, ended, other, page2, way2)
         /\ page2 \in T115!Pages
<1>1. /\ way2 \in Seq(T115Events) /\ Len(way) \in Nat \ {0} /\ Len(way2) = Len(way) - 1
      /\ way[1] \in T115Events /\ \A k \in 1 .. Len(way2) : way2[k] = way[k + 1]
  BY TailFacts
<1>2. \A k \in 1 .. Len(way2) : k + 1 \in 1 .. Len(way) BY <1>1
<1>3. way2 = <<>> <=> Len(way2) = 0 BY <1>1, ElementsOf
<1>4. PICK head : head = way[1] OBVIOUS
<1>5. /\ head \in T115Events /\ head.id \in T115!Ids
      /\ head.kind = "broadcast_start" \/ head.kind = "broadcast_end"
      /\ head.kind = "broadcast_end" => Has(ended, head.id)
  BY <1>1, <1>4 DEF T115Events, TellsLast
<1>6. page.current \in T115!Ids \cup {0} /\ page.broadcasts \in Seq(T115!Ids)
  BY DEF T115!Pages, T115!None
<1>7. TellsLast(cur, ended, way2)
  <2>1. way2 # <<>> => way2[Len(way2)] = way[Len(way)]
    <3>1. Len(way2) \in Nat BY <1>1
    <3>2. Len(way2) # 0 => Len(way2) \in 1 .. Len(way2) /\ Len(way2) + 1 = Len(way)
      BY <1>1
    <3> QED BY <1>1, <1>3, <3>1, <3>2
  <2> QED BY <1>1, <1>2, <1>3, <2>1 DEF TellsLast
<1>8. CASE head.kind = "broadcast_start"
  <2>1. page2 = [page EXCEPT !.current = head.id] BY <1>4, <1>8 DEF T115!Apply
  <2>2. page2.current = head.id /\ page2.broadcasts = page.broadcasts /\ page2 \in T115!Pages
    BY <1>5, <2>1 DEF T115!Pages
  <2>3. way2 = <<>> => page2.current = cur
    <3>1. Len(way2) = 0 => Len(way) = 1 BY <1>1
    <3> QED BY <3>1, <1>3, <1>4, <1>8, <2>2 DEF TellsLast, T115!Shows
  <2>4. ASSUME NEW i \in 1 .. Len(ended), NEW k \in 1 .. Len(way), IsEnd(way[k], ended[i])
        PROVE  \E m \in 1 .. Len(way2) : IsEnd(way2[m], ended[i])
    <3>1. k # 1 BY <1>4, <1>8, <2>4 DEF IsEnd
    <3>2. k - 1 \in 1 .. Len(way2) BY <3>1, <1>1
    <3>3. way2[k - 1] = way[k - 1 + 1] BY <3>2, <1>1
    <3>4. k - 1 + 1 = k OBVIOUS
    <3> QED BY <2>4, <3>2, <3>3, <3>4
  <2>5. WillShow(cur, ended, other, page2, way2)
    BY <2>2, <2>3, <2>4 DEF WillShow
  <2> QED BY <1>7, <2>2, <2>5
<1>9. CASE head.kind = "broadcast_end"
  <2>1. page2 = [current |-> 0, broadcasts |-> Append(page.broadcasts, head.id)]
    BY <1>4, <1>9 DEF T115!Apply, T115!None
  <2>a. PICK list : list = Append(page.broadcasts, head.id) OBVIOUS
  <2>b. /\ list \in Seq(T115!Ids) /\ Len(page.broadcasts) \in Nat
        /\ Len(list) = Len(page.broadcasts) + 1 /\ list[Len(page.broadcasts) + 1] = head.id
        /\ \A j \in 1 .. Len(page.broadcasts) : list[j] = page.broadcasts[j]
    BY <1>5, <1>6, <2>a, AppendFacts
  <2>2. page2.current = 0 /\ page2.broadcasts = list /\ page2 \in T115!Pages
    BY <2>1, <2>a, <2>b DEF T115!Pages, T115!None
  <2>3. way2 = <<>> => page2.current = cur
    <3>1. Len(way2) = 0 => Len(way) = 1 BY <1>1
    <3> QED BY <3>1, <1>3, <1>4, <1>9, <2>2 DEF TellsLast, T115!Shows, T115!None
  <2>4. \A i \in 1 .. Len(list) : Has(ended, list[i])
    <3> TAKE i \in 1 .. Len(list)
    <3>1. i = Len(page.broadcasts) + 1 \/ i \in 1 .. Len(page.broadcasts) BY <2>b
    <3> QED BY <1>5, <1>9, <2>b, <3>1 DEF WillShow
  <2>5. ASSUME NEW i \in 1 .. Len(ended)
        PROVE  \/ ended[i] \in other \/ Has(list, ended[i])
               \/ \E m \in 1 .. Len(way2) : IsEnd(way2[m], ended[i])
    <3>1. CASE Has(page.broadcasts, ended[i])
      <4>1. PICK j \in 1 .. Len(page.broadcasts) : page.broadcasts[j] = ended[i]
        BY <3>1 DEF Has
      <4>2. j \in 1 .. Len(list) /\ list[j] = ended[i] BY <2>b, <4>1
      <4> QED BY <4>2 DEF Has
    <3>2. ASSUME NEW k \in 1 .. Len(way), IsEnd(way[k], ended[i])
          PROVE  Has(list, ended[i]) \/ \E m \in 1 .. Len(way2) : IsEnd(way2[m], ended[i])
      <4>1. CASE k = 1
        <5>1. head.id = ended[i] BY <1>4, <3>2, <4>1 DEF IsEnd
        <5>2. Len(page.broadcasts) + 1 \in 1 .. Len(list) BY <2>b
        <5> QED BY <2>b, <5>1, <5>2 DEF Has
      <4>2. CASE k # 1
        <5>2. k - 1 \in 1 .. Len(way2) BY <4>2, <1>1
        <5>3. way2[k - 1] = way[k - 1 + 1] BY <5>2, <1>1
        <5>4. k - 1 + 1 = k OBVIOUS
        <5> QED BY <3>2, <5>2, <5>3, <5>4
      <4> QED BY <4>1, <4>2
    <3> QED BY <3>1, <3>2 DEF WillShow
  <2>6. WillShow(cur, ended, other, page2, way2) BY <2>2, <2>3, <2>4, <2>5 DEF WillShow
  <2> QED BY <1>7, <2>2, <2>6
<1> QED BY <1>5, <1>8, <1>9

\* One connection goes on, by itself.
LEMMA OnePeer ==
  ASSUME T115Inv, NEW c \in Peers, NEW z, peers' = [peers EXCEPT ![c] = z],
         UNCHANGED <<current, broadcasts, replaced, telling>>, panicked' = FALSE,
         PeerRight(z, current, broadcasts, replaced, telling)
  PROVE  T115Inv'
<1>1. HubTyped' /\ HubTells' BY DEF T115Inv, HubTyped, HubTells
<1>2. peers' = [d \in Peers |-> peers'[d]] BY DEF T115Inv, PeersRight
<1>3. peers'[c] = z /\ \A d \in Peers : d # c => peers'[d] = peers[d]
  BY DEF T115Inv, PeersRight
<1>4. \A d \in Peers : PeerRight(peers'[d], current', broadcasts', replaced', telling')
  <2> TAKE d \in Peers
  <2>1. PeerRight(peers'[d], current, broadcasts, replaced, telling)
    BY <1>3 DEF T115Inv, PeersRight
  <2> QED BY <2>1
<1> QED BY <1>1, <1>2, <1>4 DEF T115Inv, PeersRight

\* A change of the state with the event that tells of it.
TellsOf(ended, other, cur2, ended2, other2, event) ==
    /\ ended \in Seq(T115!Ids) /\ ended2 \in Seq(T115!Ids) /\ event \in T115Events
    /\ cur2 = T115!Shows(event) /\ Ends(ended, other, ended2, other2, event)

\* For each connection: what is told of next makes a page that misses nothing show the state.
LEMMA PeerTold ==
  ASSUME NEW cur, NEW ended, NEW other, NEW cur2, NEW ended2, NEW other2, NEW event, NEW p,
         TellsOf(ended, other, cur2, ended2, other2, event),
         PeerRight(p, cur, ended, other, T115!Silent)
  PROVE  PeerRight(p, cur2, ended2, other2, event)
<1>1. event # T115!Silent BY DEF TellsOf, T115Events, T115!Silent
<1>2. PICK way : way = p.send OBVIOUS
<1>3. PICK way2 : way2 = Append(way, event) OBVIOUS
<1>4. way = Way(p, T115!Silent) /\ way2 = Way(p, event)
  BY <1>1, <1>2, <1>3 DEF Way
<1>5. way \in Seq(T115Events) BY <1>2 DEF PeerRight, PeerRec
<1>6. Connected(p) => TellsLast(cur, ended, way) BY <1>4 DEF PeerRight
<1>7. /\ ended \in Seq(T115!Ids) /\ ended2 \in Seq(T115!Ids) /\ event \in T115Events
      /\ cur2 = T115!Shows(event) /\ Ends(ended, other, ended2, other2, event)
  BY DEF TellsOf
<1>8. Connected(p) =>
         /\ TellsLast(cur2, ended2, way2)
         /\ WillShow(cur, ended, other, p.page, way)
               => WillShow(cur2, ended2, other2, p.page, way2)
  BY <1>3, <1>5, <1>6, <1>7, TellsNext
<1> QED BY <1>4, <1>8 DEF PeerRight

\* A change of the state comes with the event that tells of it.
LEMMA Telling ==
  ASSUME T115Inv, telling = T115!Silent, UNCHANGED <<peers, panicked>>,
         current' \in T115!Ids \cup {0}, replaced' \subseteq T115!Ids,
         TellsOf(broadcasts, replaced, current', broadcasts', replaced', telling')
  PROVE  T115Inv'
<1>1. telling' \in T115Events /\ telling' # T115!Silent
  BY DEF TellsOf, T115Events, T115!Silent
<1>2. HubTyped' BY <1>1 DEF T115Inv, HubTyped, TellsOf
<1>3. HubTells' BY DEF HubTells, TellsOf, Ends
<1>4. ASSUME NEW c \in Peers
      PROVE  PeerRight(peers[c], current', broadcasts', replaced', telling')
  <2>1. PeerRight(peers[c], current, broadcasts, replaced, T115!Silent)
    BY DEF T115Inv, PeersRight
  <2> QED BY <2>1, PeerTold
<1> QED BY <1>2, <1>3, <1>4 DEF T115Inv, PeersRight

\* openBroadcast changes the state, and its event is going to tell of it.
LEMMA OpenTold == T115Inv /\ T115!OpenBroadcast => T115Inv'
<1> SUFFICES ASSUME T115Inv, T115!OpenBroadcast PROVE T115Inv' OBVIOUS
<1> DEFINE id == T115!NextId
<1>1. broadcasts \in Seq(T115!Ids) /\ Len(broadcasts) \in Nat BY DEF T115Inv, HubTyped
<1>2. id \in T115!Ids
  <2>1. id \in Nat \ {0} BY <1>1 DEF T115!NextId
  <2>2. id <= LastId BY DEF T115!OpenBroadcast
  <2> QED BY <2>1, <2>2, FeedBounds DEF T115!Ids
<1> HIDE DEF id
<1>3. /\ telling = T115!Silent /\ current' = id
      /\ telling' = [kind |-> "broadcast_start", id |-> id] /\ UNCHANGED <<peers, panicked>>
  BY DEF T115!OpenBroadcast, id
<1>4. /\ telling' \in T115Events /\ telling'.kind = "broadcast_start" /\ telling'.id = id
  BY <1>2, <1>3 DEF T115Events
<1>5. current' = T115!Shows(telling') BY <1>3, <1>4 DEF T115!Shows
<1>6. current \in T115!Ids \cup {0} /\ replaced \subseteq T115!Ids BY DEF T115Inv, HubTyped
<1>7. CASE current = 0
  <2>1. UNCHANGED <<broadcasts, replaced>> BY <1>7 DEF T115!OpenBroadcast, T115!None
  <2>2. Ends(broadcasts, replaced, broadcasts', replaced', telling')
    BY <1>4, <2>1 DEF Ends, Has
  <2>3. TellsOf(broadcasts, replaced, current', broadcasts', replaced', telling')
    BY <1>1, <1>4, <1>5, <2>1, <2>2 DEF TellsOf
  <2> QED BY <1>2, <1>3, <1>6, <2>1, <2>3, Telling
<1>8. CASE current # 0
  <2>1. broadcasts' = Append(broadcasts, current) /\ replaced' = replaced \cup {current}
    BY <1>8 DEF T115!OpenBroadcast, T115!None
  <2>2. current \in T115!Ids BY <1>6, <1>8
  <2>3. /\ broadcasts' \in Seq(T115!Ids) /\ Len(broadcasts') = Len(broadcasts) + 1
        /\ broadcasts'[Len(broadcasts) + 1] = current
        /\ \A k \in 1 .. Len(broadcasts) : broadcasts'[k] = broadcasts[k]
    BY <1>1, <2>1, <2>2, AppendFacts
  <2>4. \A x : Has(broadcasts, x) => Has(broadcasts', x) BY <1>1, <2>3 DEF Has
  <2>5. \A i \in 1 .. Len(broadcasts') : broadcasts'[i] \in replaced' \/ Has(broadcasts, broadcasts'[i])
    BY <1>1, <2>1, <2>3 DEF Has
  <2>6. Ends(broadcasts, replaced, broadcasts', replaced', telling')
    BY <1>4, <2>1, <2>4, <2>5 DEF Ends
  <2>7. replaced' \subseteq T115!Ids BY <1>6, <2>1, <2>2
  <2>8. TellsOf(broadcasts, replaced, current', broadcasts', replaced', telling')
    BY <1>1, <1>4, <1>5, <2>3, <2>6 DEF TellsOf
  <2> QED BY <1>2, <1>3, <2>7, <2>8, Telling
<1> QED BY <1>7, <1>8

\* closeBroadcast changes the state, and its event is going to tell of it.
LEMMA CloseTold == T115Inv /\ T115!CloseBroadcast => T115Inv'
<1> SUFFICES ASSUME T115Inv, T115!CloseBroadcast PROVE T115Inv' OBVIOUS
<1>1. broadcasts \in Seq(T115!Ids) /\ Len(broadcasts) \in Nat BY DEF T115Inv, HubTyped
<1>2. current \in T115!Ids /\ replaced \subseteq T115!Ids
  BY DEF T115Inv, HubTyped, T115!CloseBroadcast, T115!None
<1>3. /\ telling = T115!Silent /\ current' = 0 /\ broadcasts' = Append(broadcasts, current)
      /\ telling' = [kind |-> "broadcast_end", id |-> current]
      /\ UNCHANGED <<replaced, peers, panicked>>
  BY DEF T115!CloseBroadcast, T115!None
<1>4. telling' \in T115Events /\ telling'.kind = "broadcast_end" /\ telling'.id = current
  BY <1>2, <1>3 DEF T115Events
<1>5. current' = T115!Shows(telling') BY <1>3, <1>4 DEF T115!Shows, T115!None
<1>6. /\ broadcasts' \in Seq(T115!Ids) /\ Len(broadcasts') = Len(broadcasts) + 1
      /\ broadcasts'[Len(broadcasts) + 1] = current
      /\ \A k \in 1 .. Len(broadcasts) : broadcasts'[k] = broadcasts[k]
  BY <1>1, <1>2, <1>3, AppendFacts
<1>7. \A x : Has(broadcasts, x) => Has(broadcasts', x) BY <1>1, <1>6 DEF Has
<1>8. \A i \in 1 .. Len(broadcasts') :
         broadcasts'[i] = current \/ Has(broadcasts, broadcasts'[i])
  BY <1>1, <1>6 DEF Has
<1>9. Has(broadcasts', current)
  <2>1. Len(broadcasts) + 1 \in 1 .. Len(broadcasts') BY <1>1, <1>6
  <2> QED BY <1>6, <2>1 DEF Has
<1>10. Ends(broadcasts, replaced, broadcasts', replaced', telling')
  BY <1>3, <1>4, <1>7, <1>8, <1>9 DEF Ends, IsEnd
<1>11. TellsOf(broadcasts, replaced, current', broadcasts', replaced', telling')
  BY <1>1, <1>4, <1>5, <1>6, <1>10 DEF TellsOf
<1> QED BY <1>2, <1>3, <1>11, Telling

\* Every listed connection with room gets the event, the others have lost it.
LEMMA BroadcastGets == T115Inv /\ T115!Broadcast => T115Inv'
<1> SUFFICES ASSUME T115Inv, T115!Broadcast PROVE T115Inv' OBVIOUS
<1>1. /\ telling # T115!Silent /\ telling' = T115!Silent
      /\ UNCHANGED <<current, broadcasts, replaced>>
  BY DEF T115!Broadcast
<1>2. telling \in T115Events BY <1>1 DEF T115Inv, HubTyped
<1>3. \A c \in Peers : PeerRight(peers[c], current, broadcasts, replaced, telling)
  BY DEF T115Inv, PeersRight
<1>4. panicked' = FALSE BY <1>3 DEF T115Inv, HubTyped, PeerRight, T115!Broadcast
<1>5. HubTyped' /\ HubTells' BY <1>1, <1>4 DEF T115Inv, HubTyped, HubTells
<1>6. ASSUME NEW c \in Peers
      PROVE  PeerRight(peers'[c], current, broadcasts, replaced, telling')
  <2>1. PeerRight(peers[c], current, broadcasts, replaced, telling) BY <1>3
  <2>2. PICK p : p = peers[c] OBVIOUS
  <2>3. PICK q : q = peers'[c] OBVIOUS
  <2>4. q = T115!Enqueue(p, telling) BY <2>2, <2>3 DEF T115!Broadcast
  <2>5. p \in PeerRec /\ PeerRight(p, current, broadcasts, replaced, telling)
    BY <2>1, <2>2 DEF PeerRight
  <2>6. CASE ~p.listed
    <3>1. q = p BY <2>4, <2>6 DEF T115!Enqueue
    <3>2. ~Connected(p) BY <2>5, <2>6 DEF PeerRight, Connected
    <3> QED BY <2>3, <2>5, <3>1, <3>2 DEF PeerRight
  <2>7. CASE p.listed /\ Len(p.send) < SendCap
    <3>1. PICK more : more = Append(p.send, telling) OBVIOUS
    <3>2. more \in Seq(T115Events) /\ Len(more) = Len(p.send) + 1 /\ Len(p.send) \in Nat
      BY <1>2, <2>5, <3>1, AppendFacts DEF PeerRec
    <3>3. q = [p EXCEPT !.send = more] BY <2>4, <2>7, <3>1 DEF T115!Enqueue
    <3>4. /\ q \in PeerRec /\ q.send = more /\ q.shut = p.shut /\ q.listed = p.listed
          /\ q.phase = p.phase /\ q.gone = p.gone /\ q.lossy = p.lossy /\ q.page = p.page
      BY <2>5, <3>2, <3>3 DEF PeerRec
    <3>5. Way(q, telling') = more /\ Way(p, telling) = more BY <1>1, <3>1, <3>4 DEF Way
    <3>6. Len(q.send) <= SendCap BY <2>7, <3>2, <3>4, FeedBounds
    <3>7. Connected(q) <=> Connected(p) BY <3>4 DEF Connected
    <3> QED BY <2>3, <2>5, <3>4, <3>5, <3>6, <3>7 DEF PeerRight
  <2>8. CASE p.listed /\ ~(Len(p.send) < SendCap)
    <3>1. q = [p EXCEPT !.lossy = TRUE] BY <2>4, <2>8 DEF T115!Enqueue
    <3>2. /\ q \in PeerRec /\ q.send = p.send /\ q.shut = p.shut /\ q.listed = p.listed
          /\ q.phase = p.phase /\ q.gone = p.gone /\ q.lossy
      BY <2>5, <3>1 DEF PeerRec
    <3>3. ~Connected(q) BY <3>2 DEF Connected
    <3> QED BY <2>3, <2>5, <3>2, <3>3 DEF PeerRight
  <2> QED BY <2>6, <2>7, <2>8
<1>7. peers' = [c \in Peers |-> peers'[c]] BY DEF T115!Broadcast
<1>8. \A c \in Peers : PeerRight(peers'[c], current', broadcasts', replaced', telling')
  BY <1>1, <1>6
<1> QED BY <1>5, <1>7, <1>8 DEF T115Inv, PeersRight

\* hub.add: from now on the connection is sent every event.
LEMMA AddRight == ASSUME T115Inv, NEW c \in Peers, T115!Add(c) PROVE T115Inv'
<1> DEFINE e == <<>>
<1>1. e \in Seq(T115Events) /\ e \in Seq(T115!Ids) /\ Len(e) = 0 OBVIOUS
<1>2. PICK z : z = [T115!NewPeer EXCEPT !.phase = "added", !.listed = TRUE] OBVIOUS
<1>3. z = [phase |-> "added", listed |-> TRUE, shut |-> FALSE, reading |-> FALSE, send |-> e,
           page |-> [current |-> 0, broadcasts |-> e], gone |-> FALSE, lossy |-> FALSE]
  BY <1>2 DEF T115!NewPeer, T115!None
<1> HIDE DEF e
<1>4. [current |-> 0, broadcasts |-> e] \in T115!Pages BY <1>1 DEF T115!Pages, T115!None
<1>5. /\ z \in PeerRec /\ z.send = e /\ z.phase = "added" /\ z.listed /\ ~z.shut
  BY <1>1, <1>3, <1>4 DEF PeerRec
<1>6. TellsLast(current, broadcasts, Way(z, telling))
  <2>1. CASE telling = T115!Silent
    <3>1. Way(z, telling) = e BY <2>1, <1>5 DEF Way
    <3>2. e = <<>> BY DEF e
    <3> QED BY <1>1, <3>1, <3>2 DEF TellsLast
  <2>2. CASE telling # T115!Silent
    <3>1. telling \in T115Events BY <2>2 DEF T115Inv, HubTyped
    <3>2. PICK w : w = Append(e, telling) OBVIOUS
    <3>3. Way(z, telling) = w BY <2>2, <1>5, <3>2 DEF Way
    <3>4. Len(w) = Len(e) + 1 /\ w[Len(e) + 1] = telling BY <1>1, <3>1, <3>2, AppendFacts
    <3>5. Len(w) = 1 /\ w[1] = telling BY <1>1, <3>4
    <3> QED BY <2>2, <3>3, <3>5 DEF TellsLast, T115Inv, HubTells
  <2> QED BY <2>1, <2>2
<1>7. Len(z.send) <= SendCap BY <1>1, <1>5, FeedBounds
<1>8. PeerRight(z, current, broadcasts, replaced, telling)
  BY <1>5, <1>6, <1>7 DEF PeerRight
<1>9. /\ peers' = [peers EXCEPT ![c] = z] /\ panicked' = FALSE
      /\ UNCHANGED <<current, broadcasts, replaced, telling>>
  BY <1>2 DEF T115!Add, T115Inv, HubTyped
<1> QED BY <1>8, <1>9, OnePeer

\* The snapshot may hold what the events in the queue tell of: they do no harm.
LEMMA SnapshotRight == ASSUME T115Inv, NEW c \in Peers, T115!SendSnapshot(c) PROVE T115Inv'
<1>1. PICK p : p = peers[c] OBVIOUS
<1>2. PeerRight(p, current, broadcasts, replaced, telling) BY <1>1 DEF T115Inv, PeersRight
<1>3. p \in PeerRec BY <1>2 DEF PeerRight
<1>4. PICK page : page = T115!Snapshot OBVIOUS
<1>5. page \in T115!Pages /\ page.current = current /\ page.broadcasts = broadcasts
  BY <1>4 DEF T115!Snapshot, T115!Pages, T115Inv, HubTyped, T115!None
<1>6. PICK z : z = [p EXCEPT !.phase = "live", !.reading = TRUE, !.page = page] OBVIOUS
<1>7. /\ z \in PeerRec /\ z.phase = "live" /\ z.page = page /\ z.send = p.send
      /\ z.shut = p.shut /\ z.listed = p.listed /\ z.gone = p.gone /\ z.lossy = p.lossy
  BY <1>3, <1>5, <1>6 DEF PeerRec
<1>8. Way(z, telling) = Way(p, telling) BY <1>7 DEF Way
<1>9. WillShow(current, broadcasts, replaced, page, Way(z, telling))
  BY <1>5 DEF WillShow, Has
<1>10. p.phase = "added" BY <1>1 DEF T115!SendSnapshot
<1>11. PeerRight(z, current, broadcasts, replaced, telling)
  BY <1>2, <1>7, <1>8, <1>9, <1>10 DEF PeerRight, Connected
<1>12. /\ peers' = [peers EXCEPT ![c] = z] /\ panicked' = FALSE
       /\ UNCHANGED <<current, broadcasts, replaced, telling>>
  <2>1. /\ peers' = [peers EXCEPT ![c].phase = "live", ![c].reading = TRUE, ![c].page = page]
        /\ panicked' = FALSE /\ UNCHANGED <<current, broadcasts, replaced, telling>>
    BY <1>4 DEF T115!SendSnapshot, T115Inv, HubTyped
  <2>2. \A d \in Peers : peers'[d] = IF d = c THEN z ELSE peers[d]
    BY <1>1, <1>3, <1>6, <2>1 DEF PeerRec, T115Inv, PeersRight
  <2>3. peers' = [d \in Peers |-> peers'[d]] BY <2>1 DEF T115Inv, PeersRight
  <2>4. peers' = [d \in Peers |-> IF d = c THEN z ELSE peers[d]] BY <2>2, <2>3
  <2>5. peers' = [peers EXCEPT ![c] = z] BY <2>4 DEF T115Inv, PeersRight
  <2> QED BY <2>1, <2>5
<1> QED BY <1>11, <1>12, OnePeer

\* What is taken off the list is closed, once.
LEMMA Removed ==
  ASSUME NEW p \in PeerRec, NEW z, z = T115!RemoveConn(p), p.shut => ~p.listed
  PROVE  /\ z \in PeerRec /\ ~z.listed /\ z.send = p.send /\ z.gone = p.gone
         /\ z.phase = p.phase /\ ~T115!Recloses(p)
<1>1. CASE p.listed
  <2>1. z = [p EXCEPT !.listed = FALSE, !.shut = TRUE] BY <1>1 DEF T115!RemoveConn
  <2> QED BY <1>1, <2>1 DEF PeerRec, T115!Recloses
<1>2. CASE ~p.listed BY <1>2 DEF T115!RemoveConn, T115!Recloses
<1> QED BY <1>1, <1>2

\* The reader removes its connection, or finds it removed.
LEMMA ReaderRight == ASSUME T115Inv, NEW c \in Peers, T115!ReaderEnds(c) PROVE T115Inv'
<1>1. PICK p : p = peers[c] OBVIOUS
<1>2. PeerRight(p, current, broadcasts, replaced, telling) BY <1>1 DEF T115Inv, PeersRight
<1>3. p \in PeerRec /\ (p.shut => ~p.listed) /\ Len(p.send) <= SendCap BY <1>2 DEF PeerRight
<1>4. PICK r : r = T115!RemoveConn(p) OBVIOUS
<1>5. /\ r \in PeerRec /\ ~r.listed /\ r.send = p.send /\ r.gone = p.gone /\ ~T115!Recloses(p)
  BY <1>3, <1>4, Removed
<1>6. PICK z : z = [r EXCEPT !.reading = FALSE] OBVIOUS
<1>7. z \in PeerRec /\ ~z.listed /\ z.send = p.send /\ z.gone
  BY <1>1, <1>5, <1>6 DEF PeerRec, T115!ReaderEnds
<1>8. PeerRight(z, current, broadcasts, replaced, telling)
  BY <1>3, <1>7 DEF PeerRight, Connected
<1>9. /\ peers' = [peers EXCEPT ![c] = z] /\ panicked' = FALSE
      /\ UNCHANGED <<current, broadcasts, replaced, telling>>
  BY <1>1, <1>4, <1>5, <1>6 DEF T115!ReaderEnds, T115Inv, HubTyped
<1> QED BY <1>8, <1>9, OnePeer

\* The handler removes its connection, or finds it removed.
LEMMA HandlerRight == ASSUME T115Inv, NEW c \in Peers, T115!HandlerEnds(c) PROVE T115Inv'
<1>1. PICK p : p = peers[c] OBVIOUS
<1>2. PeerRight(p, current, broadcasts, replaced, telling) BY <1>1 DEF T115Inv, PeersRight
<1>3. p \in PeerRec /\ (p.shut => ~p.listed) /\ Len(p.send) <= SendCap BY <1>2 DEF PeerRight
<1>4. PICK r : r = T115!RemoveConn(p) OBVIOUS
<1>5. /\ r \in PeerRec /\ ~r.listed /\ r.send = p.send /\ ~T115!Recloses(p)
  BY <1>3, <1>4, Removed
<1>6. PICK z : z = [r EXCEPT !.phase = "done"] OBVIOUS
<1>7. z \in PeerRec /\ ~z.listed /\ z.send = p.send /\ z.phase = "done"
  BY <1>5, <1>6 DEF PeerRec
<1>8. PeerRight(z, current, broadcasts, replaced, telling)
  BY <1>3, <1>7 DEF PeerRight, Connected
<1>9. /\ peers' = [peers EXCEPT ![c] = z] /\ panicked' = FALSE
      /\ UNCHANGED <<current, broadcasts, replaced, telling>>
  BY <1>1, <1>4, <1>5, <1>6 DEF T115!HandlerEnds, T115Inv, HubTyped
<1> QED BY <1>8, <1>9, OnePeer

\* Nothing is promised to a page that has gone.
LEMMA LeavesRight == ASSUME T115Inv, NEW c \in Peers, T115!PageLeaves(c) PROVE T115Inv'
<1>1. PICK p : p = peers[c] OBVIOUS
<1>2. PeerRight(p, current, broadcasts, replaced, telling) BY <1>1 DEF T115Inv, PeersRight
<1>3. p \in PeerRec BY <1>2 DEF PeerRight
<1>6. PICK z : z = [p EXCEPT !.gone = TRUE] OBVIOUS
<1>7. z \in PeerRec /\ z.listed = p.listed /\ z.shut = p.shut /\ z.send = p.send /\ z.gone
  BY <1>3, <1>6 DEF PeerRec
<1>8. PeerRight(z, current, broadcasts, replaced, telling)
  BY <1>2, <1>7 DEF PeerRight, Connected
<1>9. /\ peers' = [peers EXCEPT ![c] = z] /\ panicked' = FALSE
      /\ UNCHANGED <<current, broadcasts, replaced, telling>>
  BY <1>1, <1>6 DEF T115!PageLeaves, T115Inv, HubTyped
<1> QED BY <1>8, <1>9, OnePeer

\* An event is taken from the queue and shown by the page.
LEMMA DeliverRight == ASSUME T115Inv, NEW c \in Peers, T115!Deliver(c) PROVE T115Inv'
<1>1. PICK p : p = peers[c] OBVIOUS
<1>2. PeerRight(p, current, broadcasts, replaced, telling) BY <1>1 DEF T115Inv, PeersRight
<1>3. /\ p \in PeerRec /\ Len(p.send) <= SendCap /\ p.send \in Seq(T115Events) /\ p.send # <<>>
      /\ p.page \in T115!Pages /\ p.phase = "live"
  BY <1>1, <1>2 DEF PeerRight, PeerRec, T115!Deliver
<1>4. PICK q : q = Tail(p.send) OBVIOUS
<1>5. PICK page : page = IF p.gone THEN p.page ELSE T115!Apply(p.page, p.send[1]) OBVIOUS
<1>6. /\ q \in Seq(T115Events) /\ Len(q) = Len(p.send) - 1 /\ Len(p.send) \in Nat
      /\ Head(p.send) = p.send[1] /\ \A j \in 1 .. Len(q) : q[j] = p.send[j + 1]
      /\ p.send[1] \in T115Events
  <2>1. PICK send : send = p.send OBVIOUS
  <2>2. send \in Seq(T115Events) /\ send # <<>> /\ q = Tail(send) BY <1>3, <1>4, <2>1
  <2>3. /\ q \in Seq(T115Events) /\ Len(q) = Len(send) - 1 /\ Len(send) \in Nat
        /\ Head(send) = send[1] /\ \A j \in 1 .. Len(q) : q[j] = send[j + 1]
        /\ send[1] \in T115Events
    BY <2>2, TailFacts
  <2> QED BY <2>1, <2>3
<1>7. page \in T115!Pages
  <2>1. CASE p.gone BY <2>1, <1>3, <1>5
  <2>2. CASE ~p.gone
    <3>1. PICK head : head = p.send[1] OBVIOUS
    <3>2. head \in T115Events /\ page = T115!Apply(p.page, head) BY <2>2, <1>5, <1>6, <3>1
    <3>3. PICK list : list = Append(p.page.broadcasts, head.id) OBVIOUS
    <3>4. p.page.broadcasts \in Seq(T115!Ids) /\ head.id \in T115!Ids
      BY <1>3, <3>2 DEF T115!Pages, T115Events
    <3>5. list \in Seq(T115!Ids) BY <3>3, <3>4, AppendFacts
    <3>6. CASE head.kind = "broadcast_start"
      <4>1. page = [p.page EXCEPT !.current = head.id] BY <3>2, <3>6 DEF T115!Apply
      <4> QED BY <1>3, <3>4, <4>1 DEF T115!Pages
    <3>7. CASE head.kind = "broadcast_end"
      <4>1. page = [current |-> 0, broadcasts |-> list]
        BY <3>2, <3>3, <3>7 DEF T115!Apply, T115!None
      <4> QED BY <3>5, <4>1 DEF T115!Pages, T115!None
    <3> QED BY <3>2, <3>6, <3>7 DEF T115Events
  <2> QED BY <2>1, <2>2
<1>8. PICK z : z = [p EXCEPT !.send = q, !.page = page] OBVIOUS
<1>9. /\ z \in PeerRec /\ z.phase = "live" /\ z.page = page /\ z.send = q
      /\ z.shut = p.shut /\ z.listed = p.listed /\ z.gone = p.gone /\ z.lossy = p.lossy
  BY <1>3, <1>6, <1>7, <1>8 DEF PeerRec
<1>10. Len(z.send) <= SendCap BY <1>3, <1>6, <1>9, FeedBounds
<1>11. ASSUME Connected(p)
       PROVE  /\ TellsLast(current, broadcasts, Way(z, telling))
              /\ WillShow(current, broadcasts, replaced, page, Way(z, telling))
  <2>1. PICK way, way2 : way = Way(p, telling) /\ way2 = Way(z, telling) OBVIOUS
  <2>2. /\ way \in Seq(T115Events) /\ way # <<>> /\ way2 = Tail(way)
        /\ way[1] = p.send[1]
    <3>1. CASE telling = T115!Silent
      <4>1. way = p.send /\ way2 = q BY <1>9, <2>1, <3>1 DEF Way
      <4> QED BY <1>3, <1>4, <4>1
    <3>2. CASE telling # T115!Silent
      <4>1. PICK send, event : send = p.send /\ event = telling OBVIOUS
      <4>2. /\ send \in Seq(T115Events) /\ event \in T115Events /\ send # <<>>
            /\ way = Append(send, event) /\ way2 = Append(Tail(send), event)
        BY <1>3, <1>4, <1>9, <2>1, <3>2, <4>1 DEF Way, T115Inv, HubTyped
      <4>3. /\ way \in Seq(T115Events) /\ way # <<>> /\ way2 = Tail(way)
            /\ way[1] = send[1]
        <5> HIDE DEF T115Events
        <5>1. Len(send) \in Nat \ {0} BY <4>2, ElementsOf
        <5>2. way \in Seq(T115Events) /\ Len(way) = Len(send) + 1 BY <4>2
        <5>3. way # <<>> BY <4>2
        <5>4. way[1] = send[1] BY <4>2, <5>1
        <5>5. way2 = Tail(way) BY <4>2, <5>1
        <5> QED BY <5>2, <5>3, <5>4, <5>5
      <4> QED BY <4>1, <4>3
    <3> QED BY <3>1, <3>2
  <2>3. PICK cur, ended, other, old : /\ cur = current /\ ended = broadcasts
                                      /\ other = replaced /\ old = p.page
    OBVIOUS
  <2>4. /\ TellsLast(cur, ended, way) /\ WillShow(cur, ended, other, old, way)
        /\ ended \in Seq(T115!Ids) /\ old \in T115!Pages
    BY <1>2, <1>3, <1>11, <2>1, <2>3 DEF PeerRight, T115Inv, HubTyped
  <2>5. page = T115!Apply(old, way[1]) BY <1>5, <1>11, <2>2, <2>3 DEF Connected
  <2>6. TellsLast(cur, ended, way2) /\ WillShow(cur, ended, other, page, way2)
    BY <2>2, <2>4, <2>5, WillShowTaken
  <2> QED BY <2>1, <2>3, <2>6
<1>12. PeerRight(z, current, broadcasts, replaced, telling)
  BY <1>2, <1>3, <1>9, <1>10, <1>11 DEF PeerRight, Connected
<1>13. /\ peers' = [peers EXCEPT ![c] = z] /\ panicked' = FALSE
       /\ UNCHANGED <<current, broadcasts, replaced, telling>>
  <2>1. /\ peers' = [peers EXCEPT ![c].send = Tail(peers[c].send),
                                  ![c].page = IF peers[c].gone THEN peers[c].page
                                              ELSE T115!Apply(peers[c].page, Head(peers[c].send))]
        /\ panicked' = FALSE /\ UNCHANGED <<current, broadcasts, replaced, telling>>
    BY DEF T115!Deliver, T115Inv, HubTyped
  <2>2. peers' = [peers EXCEPT ![c].send = q, ![c].page = page] BY <1>1, <1>4, <1>5, <1>6, <2>1
  <2>3. \A d \in Peers : peers'[d] = IF d = c THEN z ELSE peers[d]
    BY <1>1, <1>3, <1>8, <2>2 DEF PeerRec, T115Inv, PeersRight
  <2>4. peers' = [d \in Peers |-> peers'[d]] BY <2>2 DEF T115Inv, PeersRight
  <2>5. peers' = [d \in Peers |-> IF d = c THEN z ELSE peers[d]] BY <2>3, <2>4
  <2>6. peers' = [peers EXCEPT ![c] = z] BY <2>5 DEF T115Inv, PeersRight
  <2> QED BY <2>1, <2>6
<1> QED BY <1>12, <1>13, OnePeer

\* The monitor of std-t115 before the first broadcast and without pages.
LEMMA T115Init == T115!ConnInit => T115Inv
<1> SUFFICES ASSUME T115!ConnInit PROVE T115Inv OBVIOUS
<1> DEFINE e == <<>>
<1>1. e \in Seq(T115Events) /\ e \in Seq(T115!Ids) /\ Len(e) = 0 OBVIOUS
<1>2. peers = [c \in Peers |-> [phase |-> "off", listed |-> FALSE, shut |-> FALSE,
           reading |-> FALSE, send |-> e, page |-> [current |-> 0, broadcasts |-> e],
           gone |-> FALSE, lossy |-> FALSE]]
  BY DEF T115!ConnInit, T115!NewPeer, T115!None
<1>3. broadcasts = e BY DEF T115!ConnInit
<1> HIDE DEF e
<1>4. [current |-> 0, broadcasts |-> e] \in T115!Pages BY <1>1 DEF T115!Pages, T115!None
<1>5. \A c \in Peers : /\ peers[c] \in PeerRec /\ peers[c].send = e /\ peers[c].phase = "off"
                       /\ ~peers[c].shut
  BY <1>1, <1>2, <1>4 DEF PeerRec
<1>6. \A c \in Peers : Len(peers[c].send) <= SendCap BY <1>1, <1>5, FeedBounds
<1>7. \A c \in Peers : PeerRight(peers[c], current, broadcasts, replaced, telling)
  BY <1>5, <1>6 DEF PeerRight, Connected
<1>8. HubTyped /\ HubTells
  BY <1>1, <1>3 DEF HubTyped, HubTells, T115!ConnInit, T115!None
<1> QED BY <1>2, <1>7, <1>8 DEF T115Inv, PeersRight

\* Each step of the monitor of std-t115 keeps the invariant.
LEMMA T115Step == T115Inv /\ [T115!ConnNext]_t115Vars => T115Inv'
<1> SUFFICES ASSUME T115Inv, [T115!ConnNext]_t115Vars PROVE T115Inv' OBVIOUS
<1>1. CASE T115!OpenBroadcast BY <1>1, OpenTold
<1>2. CASE T115!CloseBroadcast BY <1>2, CloseTold
<1>3. CASE T115!Broadcast BY <1>3, BroadcastGets
<1>4. ASSUME NEW c \in Peers, T115!Add(c) \/ T115!ConnStep(c) \/ T115!PageLeaves(c)
      PROVE  T115Inv'
  BY <1>4, AddRight, SnapshotRight, ReaderRight, DeliverRight, HandlerRight, LeavesRight
     DEF T115!ConnStep
<1>5. CASE UNCHANGED t115Vars
  BY <1>5 DEF T115Inv, HubTyped, HubTells, PeersRight, t115Vars
<1> QED BY <1>1, <1>2, <1>3, <1>4, <1>5 DEF T115!ConnNext

\* What the properties say of the hub follows.
LEMMA T115Said == T115Inv => T115!ConnTypeOK /\ T115!NothingMissed /\ T115!NeverPanics
<1> SUFFICES ASSUME T115Inv PROVE T115!ConnTypeOK /\ T115!NothingMissed /\ T115!NeverPanics
  OBVIOUS
<1>1. \A c \in Peers : PeerRight(peers[c], current, broadcasts, replaced, telling)
  BY DEF T115Inv, PeersRight
<1>2. T115!ConnTypeOK
  BY <1>1 DEF T115Inv, HubTyped, PeerRight, PeerRec, T115!ConnTypeOK, T115!None
<1>3. T115!NeverPanics BY DEF T115Inv, HubTyped, T115!NeverPanics
<1>4. ASSUME NEW c \in Peers, peers[c].phase = "live", ~peers[c].gone, ~peers[c].lossy
      PROVE  /\ T115!WillBeCurrent(peers[c]) = current
             /\ T115!Range(broadcasts) \ replaced \subseteq T115!WillBeListed(peers[c])
             /\ T115!WillBeListed(peers[c]) \subseteq T115!Range(broadcasts)
  <2>1. PICK p : p = peers[c] OBVIOUS
  <2>2. PICK way : way = T115!OnItsWay(p) OBVIOUS
  <2>3. way = Way(p, telling) BY <2>2 DEF Way, T115!OnItsWay
  <2>4. /\ TellsLast(current, broadcasts, way)
        /\ WillShow(current, broadcasts, replaced, p.page, way) /\ p \in PeerRec
    BY <1>1, <1>4, <2>1, <2>3 DEF PeerRight, Connected
  <2>5. way \in Seq(T115Events)
    <3>1. p.send \in Seq(T115Events) BY <2>4 DEF PeerRec
    <3>2. telling # T115!Silent => telling \in T115Events BY DEF T115Inv, HubTyped
    <3>3. CASE telling = T115!Silent BY <3>1, <3>3, <2>3 DEF Way
    <3>4. CASE telling # T115!Silent
      <4>1. way = Append(p.send, telling) BY <3>4, <2>3 DEF Way
      <4> QED BY <3>1, <3>2, <3>4, <4>1, AppendFacts
    <3> QED BY <3>3, <3>4
  <2>6. p.page.broadcasts \in Seq(T115!Ids) BY <2>4 DEF PeerRec, T115!Pages
  <2>7. broadcasts \in Seq(T115!Ids) BY DEF T115Inv, HubTyped
  <2>8. T115!WillBeCurrent(p) = current
    BY <2>2, <2>4, <2>5 DEF T115!WillBeCurrent, TellsLast, WillShow, T115!Last
  <2>9. \A x : x \in T115!Range(p.page.broadcasts) <=> Has(p.page.broadcasts, x)
    BY <2>6 DEF T115!Range, Has
  <2>10. \A x : x \in T115!Range(broadcasts) <=> Has(broadcasts, x)
    BY <2>7 DEF T115!Range, Has
  <2>11. \A x : x \in T115!Ended(way) <=> \E k \in 1 .. Len(way) : IsEnd(way[k], x)
    BY <2>5 DEF T115!Ended, T115!Range, IsEnd
  <2>12. T115!WillBeListed(p) = T115!Range(p.page.broadcasts) \cup T115!Ended(way)
    BY <2>2 DEF T115!WillBeListed
  <2>13. T115!Range(broadcasts) \ replaced \subseteq T115!WillBeListed(p)
    <3> SUFFICES ASSUME NEW x, Has(broadcasts, x), x \notin replaced
                 PROVE  Has(p.page.broadcasts, x) \/ \E k \in 1 .. Len(way) : IsEnd(way[k], x)
      BY <2>9, <2>10, <2>11, <2>12
    <3> QED BY <2>4 DEF Has, WillShow
  <2>14. T115!WillBeListed(p) \subseteq T115!Range(broadcasts)
    <3>1. ASSUME NEW x, Has(p.page.broadcasts, x) PROVE Has(broadcasts, x)
      BY <2>4, <3>1 DEF Has, WillShow
    <3>2. ASSUME NEW x, NEW k \in 1 .. Len(way), IsEnd(way[k], x) PROVE Has(broadcasts, x)
      BY <2>4, <3>2 DEF TellsLast, IsEnd
    <3> QED BY <2>9, <2>10, <2>11, <2>12, <3>1, <3>2
  <2> QED BY <2>1, <2>8, <2>13, <2>14
<1> QED BY <1>2, <1>3, <1>4 DEF T115!NothingMissed

-----------------------------------------------------------------------------
(* The feed of std-t86: definitions.                                         *)

\* The events that have been emitted.
Told == {x \in T86!Event :
            /\ x.n > 0 /\ x.logged
            /\ x.kind = "audio" <=> x.by = "worker"
            /\ x.kind = "audio" => x.len = 1 /\ x.from < StripMax}

LiveRec == [made : Nat, open : Windows \cup {0}, win : [Windows -> {"none", "open", "closed"}],
            strip : [Windows -> 0 .. StripMax], log : Seq(T86!Emitters \X Nat)]

ConnRec == [phase : {"off", "snapped", "written", "live"}, ch : Seq(Told), page : T86!Page,
            lines : Nat, gone : BOOLEAN, lossy : BOOLEAN]

Els(q) == {q[i] : i \in 1 .. Len(q)}

Busy(e) == emitting[e] # T86!NoEvent
Logged(x) == [x EXCEPT !.logged = TRUE]

\* What is still on its way to everyone, and what is being sent to a connection.
Upstream == Els(eventCh) \cup {Logged(emitting[e]) : e \in {d \in T86!Emitters : Busy(d)}}
Publishing(c) == IF c \in pub.left THEN {pub.ev} ELSE {}

Before(x, y) == x.by = y.by => x.n < y.n
InOrder(q) == \A i, j \in 1 .. Len(q) : i < j => Before(q[i], q[j])
AllBefore(S, U) == \A x \in S, y \in U : Before(x, y)

\* Everything in S has happened.
Made(S, made) == \A x \in S : x.n <= made
LinesMade(log, made) == \A l \in Els(log) : l[2] <= made

\* What was shown after the snapshot is in order, and before what is to come.
Sorted(log, first) ==
    \A i, j \in first + 1 .. Len(log) : i < j /\ log[i][1] = log[j][1] => log[i][2] < log[j][2]
ShownBefore(log, first, S) ==
    \A i \in first + 1 .. Len(log) : \A x \in S : log[i][1] = x.by => log[i][2] < x.n

\* The events of S that come after number n bring what shows to the state lv.
AirOf(lv) == IF lv.open = 0 THEN "off" ELSE "on"
AirTold(x) == IF x.kind = "start" THEN "on" ELSE "off"
AirShown(page) == IF page.active THEN "on" ELSE "off"
WindowTold(x) == IF x.kind = "start" THEN "open" ELSE "closed"

ToAir(lv, S, shown, n) ==
    shown # AirOf(lv) => \E y \in S : y.by = "loop" /\ y.n > n /\ AirTold(y) = AirOf(lv)
ToWindow(lv, S, w, shown, n) ==
    shown # lv.win[w] =>
        \E y \in S : y.by = "loop" /\ y.id = w /\ y.n > n /\ WindowTold(y) = lv.win[w]
ToStrip(lv, S, w, from, n) ==
    \A k \in from .. lv.strip[w] - 1 :
        \E y \in S : y.by = "worker" /\ y.id = w /\ y.n > n /\ y.from = k

\* Whatever a page shows once it has an event, the events after it bring it to the state.
Leads(lv, S) ==
    \A x \in S :
        /\ x.by = "loop" =>
              ToAir(lv, S, AirTold(x), x.n) /\ ToWindow(lv, S, x.id, WindowTold(x), x.n)
        /\ x.by = "worker" =>
              /\ x.from < lv.strip[x.id] /\ ToStrip(lv, S, x.id, x.from + 1, x.n)
              /\ \A y \in S : y.by = "worker" /\ y.id = x.id /\ x.n < y.n => x.from < y.from

\* The events of S bring this page to the state.
Catches(lv, page, S) ==
    /\ ToAir(lv, S, AirShown(page), 0)
    /\ \A w \in Windows :
          /\ ToWindow(lv, S, w, page.win[w], 0)
          /\ \A k \in 1 .. Len(page.strip[w]) : page.strip[w][k] = k
          /\ Len(page.strip[w]) <= lv.strip[w]
          /\ ToStrip(lv, S, w, Len(page.strip[w]), 0)
    /\ \A l \in Els(lv.log) : l \in Els(page.log) \/ \E x \in S : T86!Line(x) = l

\* So do they without an event that the snapshot of the page holds too.
Foreseen(lv, page, S) ==
    \A x \in S : T86!Line(x) \in Els(page.log) =>
        /\ x.by = "loop" => /\ ToAir(lv, S, AirShown(page), x.n)
                            /\ ToWindow(lv, S, x.id, page.win[x.id], x.n)
        /\ x.by = "worker" => x.from < Len(page.strip[x.id])

\* A connection k to which the events of P are being sent, those of U to be sent later.
ConnTyped(k, P) ==
    /\ k \in ConnRec /\ Len(k.ch) <= HubCap /\ P \subseteq Told
    /\ k.lines <= Len(k.page.log)
    /\ k.phase # "live" => k.ch = <<>> /\ P = {} /\ k.lines = Len(k.page.log)

ConnOrdered(k, P, U, made) ==
    /\ InOrder(k.ch) /\ AllBefore(Els(k.ch), P) /\ AllBefore(Els(k.ch) \cup P, U)
    /\ Made(Els(k.ch) \cup P, made) /\ LinesMade(k.page.log, made)
    /\ Sorted(k.page.log, k.lines)
    /\ ShownBefore(k.page.log, k.lines, Els(k.ch) \cup P \cup U)

Aligned(page) ==
    \A w \in Windows : \A i \in 1 .. Len(page.strip[w]) : page.strip[w][i] = i \/ page.strip[w][i] = 0

Brought(k, lv, S) ==
    /\ Leads(lv, S) /\ Catches(lv, k.page, S)
    /\ k.phase # "live" => Foreseen(lv, k.page, S)

ConnRight(k, P, U, lv, over) ==
    /\ ConnTyped(k, P) /\ ConnOrdered(k, P, U, lv.made) /\ Aligned(k.page)
    /\ ~over /\ k.phase # "off" /\ ~k.lossy => Brought(k, lv, Els(k.ch) \cup P \cup U)

FeedTyped ==
    /\ live \in LiveRec /\ Len(live.log) <= LogCap
    /\ emitting = [e \in T86!Emitters |-> emitting[e]]
    /\ \A e \in T86!Emitters : Busy(e) =>
          emitting[e] \in T86!Event /\ Logged(emitting[e]) \in Told /\ emitting[e].by = e
    /\ eventCh \in Seq(Told) /\ Len(eventCh) <= EventCap /\ overflowed \in BOOLEAN
    /\ \/ pub = T86!Idle
       \/ pub \in [ev : Told, left : SUBSET Conns, full : SUBSET Conns] /\ pub.left # {}
    /\ pub.full \subseteq pub.left
    /\ conns = [c \in Conns |-> conns[c]]

UpRight ==
    /\ InOrder(eventCh)
    /\ \A e \in T86!Emitters : Busy(e) => AllBefore(Els(eventCh), {emitting[e]})
    /\ Made(Upstream, live.made) /\ LinesMade(live.log, live.made)
    /\ ~overflowed => Leads(live, Upstream)

ConnsRight == \A c \in Conns : ConnRight(conns[c], Publishing(c), Upstream, live, overflowed)

T86Inv == FeedTyped /\ UpRight /\ ConnsRight

-----------------------------------------------------------------------------
(* Sets of events and sequences of them.                                      *)

\* Sequence p is q and e behind it; h is the first of q and p the others.
With(q, e, p) == p = Append(q, e)
Without(q, h, p) == q # <<>> /\ p = Tail(q) /\ h = Head(q)

\* The elements of a sequence with one more.
LEMMA ElsAppend ==
  ASSUME NEW S, NEW q \in Seq(S), NEW e \in S, NEW p, With(q, e, p)
  PROVE  \A x : x \in Els(p) <=> x \in Els(q) \/ x = e
<1>1. /\ Len(q) \in Nat /\ Len(p) = Len(q) + 1 /\ p[Len(q) + 1] = e
      /\ \A j \in 1 .. Len(q) : p[j] = q[j]
  BY AppendFacts DEF With
<1>2. ASSUME NEW x \in Els(p) PROVE x \in Els(q) \cup {e}
  <2>1. PICK i \in 1 .. Len(p) : x = p[i] BY DEF Els
  <2>2. CASE i = Len(q) + 1 BY <2>1, <2>2, <1>1
  <2>3. CASE i # Len(q) + 1
    <3>1. i \in 1 .. Len(q) BY <2>3, <1>1
    <3>2. x = q[i] BY <2>1, <3>1, <1>1
    <3> QED BY <3>1, <3>2 DEF Els
  <2> QED BY <2>2, <2>3
<1>3. ASSUME NEW i \in 1 .. Len(q) PROVE q[i] \in Els(p)
  <2>1. i \in 1 .. Len(p) /\ p[i] = q[i] BY <1>1
  <2> QED BY <2>1 DEF Els
<1>4. e \in Els(p)
  <2>1. Len(q) + 1 \in 1 .. Len(p) BY <1>1
  <2> QED BY <2>1, <1>1 DEF Els
<1>5. Els(q) \subseteq Els(p) BY <1>3 DEF Els
<1> QED BY <1>2, <1>4, <1>5

\* The elements of a sequence are its first and those behind it.
LEMMA ElsTail ==
  ASSUME NEW S, NEW q \in Seq(S), NEW p, NEW h, Without(q, h, p)
  PROVE  (\A x : x \in Els(q) <=> x \in Els(p) \/ x = h) /\ h \in S /\ p \in Seq(S)
<1>1. /\ p \in Seq(S) /\ Len(q) \in Nat \ {0} /\ Len(p) = Len(q) - 1 /\ h = q[1] /\ q[1] \in S
      /\ \A j \in 1 .. Len(p) : p[j] = q[j + 1]
  BY TailFacts DEF Without
<1>2. ASSUME NEW x \in Els(q) PROVE x \in Els(p) \cup {h}
  <2>1. PICK i \in 1 .. Len(q) : x = q[i] BY DEF Els
  <2>2. CASE i = 1 BY <2>1, <2>2, <1>1
  <2>3. CASE i # 1
    <3>1. i - 1 \in 1 .. Len(p) /\ i - 1 + 1 = i BY <2>3, <1>1
    <3>2. x = p[i - 1] BY <2>1, <3>1, <1>1
    <3> QED BY <3>1, <3>2 DEF Els
  <2> QED BY <2>2, <2>3
<1>3. ASSUME NEW i \in 1 .. Len(p) PROVE p[i] \in Els(q)
  <2>1. i + 1 \in 1 .. Len(q) /\ p[i] = q[i + 1] BY <1>1
  <2> QED BY <2>1 DEF Els
<1>4. h \in Els(q)
  <2>1. 1 \in 1 .. Len(q) BY <1>1
  <2> QED BY <2>1, <1>1 DEF Els
<1>5. Els(p) \subseteq Els(q) BY <1>3 DEF Els
<1> QED BY <1>1, <1>2, <1>4, <1>5

\* An element of a sequence has a place in it.
LEMMA ElsIn ==
  ASSUME NEW S, NEW q \in Seq(S)
  PROVE  Els(q) \subseteq S /\ (q = <<>> <=> Els(q) = {})
<1>1. Len(q) \in Nat /\ (q = <<>> <=> Len(q) = 0) /\ \A j \in 1 .. Len(q) : q[j] \in S
  BY ElementsOf
<1>2. Els(q) \subseteq S BY <1>1 DEF Els
<1>3. CASE Len(q) = 0
  <2>1. 1 .. Len(q) = {} BY <1>3
  <2> QED BY <1>1, <1>2, <1>3, <2>1 DEF Els
<1>4. CASE Len(q) # 0
  <2>1. 1 \in 1 .. Len(q) BY <1>1, <1>4
  <2>2. q[1] \in Els(q) BY <2>1 DEF Els
  <2> QED BY <1>1, <1>2, <1>4, <2>2
<1> QED BY <1>3, <1>4

\* Events stay in order if a newer one is put behind them.
LEMMA InOrderAppend ==
  ASSUME NEW q \in Seq(Told), NEW e \in Told, NEW p, With(q, e, p), InOrder(q),
         AllBefore(Els(q), {e})
  PROVE  InOrder(p)
<1>1. /\ Len(q) \in Nat /\ Len(p) = Len(q) + 1 /\ p[Len(q) + 1] = e
      /\ \A j \in 1 .. Len(q) : p[j] = q[j]
  BY AppendFacts DEF With
<1> SUFFICES ASSUME NEW i \in 1 .. Len(p), NEW j \in 1 .. Len(p), i < j
             PROVE  Before(p[i], p[j])
  BY DEF InOrder
<1>2. i \in 1 .. Len(q) BY <1>1
<1>3. q[i] \in Els(q) BY <1>2 DEF Els
<1>4. CASE j = Len(q) + 1 BY <1>1, <1>2, <1>3, <1>4 DEF AllBefore
<1>5. CASE j # Len(q) + 1
  <2>1. j \in 1 .. Len(q) BY <1>1, <1>5
  <2> QED BY <1>1, <1>2, <2>1 DEF InOrder
<1> QED BY <1>4, <1>5

\* Events stay in order without the first, which was before them.
LEMMA InOrderTail ==
  ASSUME NEW q \in Seq(Told), NEW p, NEW h, Without(q, h, p), InOrder(q)
  PROVE  InOrder(p) /\ AllBefore({h}, Els(p))
<1>1. /\ Len(q) \in Nat \ {0} /\ Len(p) = Len(q) - 1 /\ h = q[1]
      /\ \A j \in 1 .. Len(p) : p[j] = q[j + 1]
  BY TailFacts DEF Without
<1>2. ASSUME NEW i \in 1 .. Len(p), NEW j \in 1 .. Len(p), i < j PROVE Before(p[i], p[j])
  <2>1. i + 1 \in 1 .. Len(q) /\ j + 1 \in 1 .. Len(q) /\ i + 1 < j + 1 BY <1>1, <1>2
  <2>2. p[i] = q[i + 1] /\ p[j] = q[j + 1] BY <1>1
  <2> QED BY <2>1, <2>2 DEF InOrder
<1>3. ASSUME NEW j \in 1 .. Len(p) PROVE Before(h, p[j])
  <2>1. 1 \in 1 .. Len(q) /\ j + 1 \in 1 .. Len(q) /\ 1 < j + 1 BY <1>1
  <2>2. Before(q[1], q[j + 1]) BY <2>1 DEF InOrder
  <2> QED BY <2>2, <1>1
<1> QED BY <1>2, <1>3 DEF InOrder, AllBefore, Els

\* What is told of an event.
LEMMA ToldFacts ==
  ASSUME NEW x \in Told
  PROVE  /\ x \in T86!Event /\ x.n \in Nat /\ x.n > 0 /\ x.id \in Windows
         /\ x.by = "loop" \/ x.by = "worker"
         /\ x.by = "loop" => x.kind = "start" \/ x.kind = "end"
         /\ x.by = "worker" => x.kind = "audio" /\ x.len = 1
         /\ x.from \in Nat /\ x.from <= StripMax
<1>1. /\ x.n \in Nat /\ x.by \in {"loop", "worker"} /\ x.kind \in {"start", "end", "audio"}
      /\ x.id \in Windows /\ x.from \in 0 .. StripMax
  BY DEF Told, T86!Event, T86!Emitters
<1> QED BY <1>1, FeedBounds DEF Told

-----------------------------------------------------------------------------
(* What brings a page to the state, when the events on the way change.         *)

\* The least event h is gone from S: T is left.
LEMMA AirWithout ==
  ASSUME NEW lv, NEW S, NEW T, NEW h \in Told, S = T \cup {h}, T \subseteq Told,
         NEW shown, NEW n \in Nat, h.by = "loop" => n >= h.n, ToAir(lv, S, shown, n)
  PROVE  ToAir(lv, T, shown, n)
<1> SUFFICES ASSUME shown # AirOf(lv)
             PROVE  \E y \in T : y.by = "loop" /\ y.n > n /\ AirTold(y) = AirOf(lv)
  BY DEF ToAir
<1>1. PICK y \in S : y.by = "loop" /\ y.n > n /\ AirTold(y) = AirOf(lv) BY DEF ToAir
<1>2. y # h BY <1>1, ToldFacts
<1> QED BY <1>1, <1>2

\* An event that is shown is not needed any more to bring a window to its state.
LEMMA WindowWithout ==
  ASSUME NEW lv, NEW S, NEW T, NEW h \in Told, S = T \cup {h}, T \subseteq Told, NEW w,
         NEW shown, NEW n \in Nat, h.by = "loop" /\ h.id = w => n >= h.n,
         ToWindow(lv, S, w, shown, n)
  PROVE  ToWindow(lv, T, w, shown, n)
<1> SUFFICES ASSUME shown # lv.win[w]
             PROVE  \E y \in T : /\ y.by = "loop" /\ y.id = w /\ y.n > n
                                 /\ WindowTold(y) = lv.win[w]
  BY DEF ToWindow
<1>1. PICK y \in S : y.by = "loop" /\ y.id = w /\ y.n > n /\ WindowTold(y) = lv.win[w]
  BY DEF ToWindow
<1>2. y # h BY <1>1, ToldFacts
<1> QED BY <1>1, <1>2

\* An event that is shown is not needed any more to bring a strip to its state.
LEMMA StripWithout ==
  ASSUME NEW lv, NEW S, NEW T, NEW h \in Told, S = T \cup {h}, T \subseteq Told, NEW w,
         NEW from \in Nat, NEW n \in Nat,
         h.by = "worker" /\ h.id = w => n >= h.n \/ from > h.from,
         ToStrip(lv, S, w, from, n)
  PROVE  ToStrip(lv, T, w, from, n)
<1> SUFFICES ASSUME NEW k \in from .. lv.strip[w] - 1
             PROVE  \E y \in T : y.by = "worker" /\ y.id = w /\ y.n > n /\ y.from = k
  BY DEF ToStrip
<1>1. PICK y \in S : y.by = "worker" /\ y.id = w /\ y.n > n /\ y.from = k BY DEF ToStrip
<1>2. y # h BY <1>1, ToldFacts
<1> QED BY <1>1, <1>2

\* Without their first event, events still lead to the state.
LEMMA LeadsWithout ==
  ASSUME NEW lv, NEW S, NEW T, NEW h \in Told, S = T \cup {h}, T \subseteq Told,
         \A y \in T : Before(h, y), Leads(lv, S)
  PROVE  Leads(lv, T)
<1> SUFFICES ASSUME NEW x \in T
             PROVE  /\ x.by = "loop" => /\ ToAir(lv, T, AirTold(x), x.n)
                                        /\ ToWindow(lv, T, x.id, WindowTold(x), x.n)
                    /\ x.by = "worker" =>
                          /\ x.from < lv.strip[x.id] /\ ToStrip(lv, T, x.id, x.from + 1, x.n)
                          /\ \A y \in T : y.by = "worker" /\ y.id = x.id /\ x.n < y.n
                                             => x.from < y.from
  BY DEF Leads
<1>1. x \in Told /\ x \in S /\ Before(h, x) OBVIOUS
<1>2. x.n \in Nat /\ x.from \in Nat /\ x.from + 1 \in Nat /\ h.n \in Nat BY <1>1, ToldFacts
<1>3. x.by = h.by => x.n >= h.n BY <1>1, <1>2 DEF Before
<1>4. ASSUME x.by = "loop"
      PROVE  ToAir(lv, T, AirTold(x), x.n) /\ ToWindow(lv, T, x.id, WindowTold(x), x.n)
  <2>1. ToAir(lv, S, AirTold(x), x.n) /\ ToWindow(lv, S, x.id, WindowTold(x), x.n)
    BY <1>1, <1>4 DEF Leads
  <2>2. h.by = "loop" => x.n >= h.n BY <1>3, <1>4
  <2>3. ToAir(lv, T, AirTold(x), x.n) BY <1>2, <2>1, <2>2, AirWithout
  <2>4. ToWindow(lv, T, x.id, WindowTold(x), x.n) BY <1>2, <2>1, <2>2, WindowWithout
  <2> QED BY <2>3, <2>4
<1>5. ASSUME x.by = "worker"
      PROVE  /\ x.from < lv.strip[x.id] /\ ToStrip(lv, T, x.id, x.from + 1, x.n)
             /\ \A y \in T : y.by = "worker" /\ y.id = x.id /\ x.n < y.n => x.from < y.from
  <2>1. /\ x.from < lv.strip[x.id] /\ ToStrip(lv, S, x.id, x.from + 1, x.n)
        /\ \A y \in S : y.by = "worker" /\ y.id = x.id /\ x.n < y.n => x.from < y.from
    BY <1>1, <1>5 DEF Leads
  <2>2. h.by = "worker" => x.n >= h.n BY <1>3, <1>5
  <2>3. ToStrip(lv, T, x.id, x.from + 1, x.n)
    <3>1. PICK f, w, n : f = x.from + 1 /\ w = x.id /\ n = x.n OBVIOUS
    <3>2. /\ f \in Nat /\ n \in Nat /\ ToStrip(lv, S, w, f, n)
          /\ h.by = "worker" /\ h.id = w => n >= h.n \/ f > h.from
      BY <1>2, <2>1, <2>2, <3>1
    <3>3. ToStrip(lv, T, w, f, n) BY <3>2, StripWithout
    <3> QED BY <3>1, <3>3
  <2> QED BY <2>1, <2>3
<1> QED BY <1>4, <1>5

\* A change of the state and the event e that tells of it.
Changes(lv, lv2, e) ==
    /\ lv \in LiveRec /\ lv2 \in LiveRec /\ e \in Told
    /\ lv2.made = lv.made + 1 /\ e.n = lv.made + 1 /\ lv2.log = lv.log
    /\ \/ /\ e.kind = "start" /\ lv2.open = e.id /\ lv2.strip = lv.strip
          /\ lv2.win = [lv.win EXCEPT ![e.id] = "open"]
       \/ /\ e.kind = "end" /\ lv2.open = 0 /\ lv2.strip = lv.strip
          /\ lv2.win = [lv.win EXCEPT ![e.id] = "closed"]
       \/ /\ e.kind = "audio" /\ lv2.open = lv.open /\ lv2.win = lv.win
          /\ e.from = lv.strip[e.id]
          /\ lv2.strip = [lv.strip EXCEPT ![e.id] = lv.strip[e.id] + 1]

\* What a change of the state and the event that tells of it have in common.
LEMMA ChangeFacts ==
  ASSUME NEW lv, NEW lv2, NEW e, Changes(lv, lv2, e)
  PROVE  /\ lv.made \in Nat /\ e \in Told /\ e.n = lv.made + 1 /\ lv2.log = lv.log
         /\ e.by = "loop" =>
               /\ AirTold(e) = AirOf(lv2) /\ WindowTold(e) = lv2.win[e.id]
               /\ lv2.strip = lv.strip /\ \A w \in Windows : w # e.id => lv2.win[w] = lv.win[w]
         /\ e.by = "worker" =>
               /\ AirOf(lv2) = AirOf(lv) /\ lv2.win = lv.win
               /\ e.from = lv.strip[e.id] /\ lv2.strip[e.id] = lv.strip[e.id] + 1
               /\ \A w \in Windows : w # e.id => lv2.strip[w] = lv.strip[w]
         /\ \A w \in Windows : lv.strip[w] \in Nat /\ lv2.strip[w] \in Nat
<1>0. e \in Told /\ lv \in LiveRec /\ lv2 \in LiveRec BY DEF Changes
<1>1. /\ e.id \in Windows /\ (e.by = "loop" \/ e.by = "worker")
      /\ e.by = "loop" => e.kind = "start" \/ e.kind = "end"
      /\ e.by = "worker" => e.kind = "audio"
  BY <1>0, ToldFacts
<1>2. /\ lv.made \in Nat /\ DOMAIN lv.win = Windows /\ DOMAIN lv.strip = Windows
      /\ \A w \in Windows : lv.strip[w] \in Nat /\ lv2.strip[w] \in Nat
  BY <1>0, FeedBounds DEF LiveRec
<1>3. ASSUME e.by = "loop"
      PROVE  /\ AirTold(e) = AirOf(lv2) /\ WindowTold(e) = lv2.win[e.id]
             /\ lv2.strip = lv.strip /\ \A w \in Windows : w # e.id => lv2.win[w] = lv.win[w]
  <2>1. CASE e.kind = "start"
    <3>1. /\ lv2.open = e.id /\ lv2.strip = lv.strip
          /\ lv2.win = [lv.win EXCEPT ![e.id] = "open"]
      BY <2>1 DEF Changes
    <3>2. e.id # 0 BY <1>1, FeedBounds
    <3> QED BY <1>1, <1>2, <2>1, <3>1, <3>2 DEF AirTold, AirOf, WindowTold
  <2>2. CASE e.kind = "end"
    <3>1. /\ lv2.open = 0 /\ lv2.strip = lv.strip
          /\ lv2.win = [lv.win EXCEPT ![e.id] = "closed"]
      BY <2>2 DEF Changes
    <3> QED BY <1>1, <1>2, <2>2, <3>1 DEF AirTold, AirOf, WindowTold
  <2> QED BY <1>1, <1>3, <2>1, <2>2
<1>4. ASSUME e.by = "worker"
      PROVE  /\ AirOf(lv2) = AirOf(lv) /\ lv2.win = lv.win
             /\ e.from = lv.strip[e.id] /\ lv2.strip[e.id] = lv.strip[e.id] + 1
             /\ \A w \in Windows : w # e.id => lv2.strip[w] = lv.strip[w]
  <2>1. /\ lv2.open = lv.open /\ lv2.win = lv.win /\ e.from = lv.strip[e.id]
        /\ lv2.strip = [lv.strip EXCEPT ![e.id] = lv.strip[e.id] + 1]
    BY <1>1, <1>4 DEF Changes
  <2> QED BY <1>1, <1>2, <2>1 DEF AirOf
<1>5. e.n = lv.made + 1 /\ lv2.log = lv.log BY DEF Changes
<1> QED BY <1>0, <1>2, <1>3, <1>4, <1>5

\* The state changes and its event follows: what is on the air is still going to be shown.
LEMMA AirGrown ==
  ASSUME NEW lv, NEW lv2, NEW e, Changes(lv, lv2, e), NEW S, NEW S2, S2 = S \cup {e},
         NEW shown, NEW n \in Nat, n <= lv.made, ToAir(lv, S, shown, n)
  PROVE  ToAir(lv2, S2, shown, n)
<1>1. e \in S2 /\ e \in Told /\ e.n > n BY ChangeFacts
<1>2. CASE e.by = "loop"
  <2>1. AirTold(e) = AirOf(lv2) BY <1>2, ChangeFacts
  <2> QED BY <1>1, <1>2, <2>1 DEF ToAir
<1>3. CASE e.by = "worker"
  <2>1. AirOf(lv2) = AirOf(lv) BY <1>3, ChangeFacts
  <2> QED BY <2>1 DEF ToAir
<1> QED BY <1>1, <1>2, <1>3, ToldFacts

\* The same of a window.
LEMMA WindowGrown ==
  ASSUME NEW lv, NEW lv2, NEW e, Changes(lv, lv2, e), NEW S, NEW S2, S2 = S \cup {e},
         NEW w \in Windows, NEW shown, NEW n \in Nat, n <= lv.made, ToWindow(lv, S, w, shown, n)
  PROVE  ToWindow(lv2, S2, w, shown, n)
<1>1. e \in S2 /\ e \in Told /\ e.n > n BY ChangeFacts
<1>2. CASE e.by = "loop" /\ e.id = w
  <2>1. WindowTold(e) = lv2.win[w] BY <1>2, ChangeFacts
  <2> QED BY <1>1, <1>2, <2>1 DEF ToWindow
<1>3. CASE ~(e.by = "loop" /\ e.id = w)
  <2>1. lv2.win[w] = lv.win[w] BY <1>1, <1>3, ChangeFacts, ToldFacts
  <2> QED BY <2>1 DEF ToWindow
<1> QED BY <1>2, <1>3

\* The same of the strip of a broadcast.
LEMMA StripGrown ==
  ASSUME NEW lv, NEW lv2, NEW e, Changes(lv, lv2, e), NEW S, NEW S2, S2 = S \cup {e},
         NEW w \in Windows, NEW from \in Nat, NEW n \in Nat, n <= lv.made,
         ToStrip(lv, S, w, from, n)
  PROVE  ToStrip(lv2, S2, w, from, n)
<1>1. e \in S2 /\ e \in Told /\ e.n > n /\ lv.strip[w] \in Nat BY ChangeFacts
<1>2. CASE e.by = "worker" /\ e.id = w
  <2>1. e.from = lv.strip[w] /\ lv2.strip[w] = lv.strip[w] + 1 BY <1>2, ChangeFacts
  <2> SUFFICES ASSUME NEW k \in from .. lv2.strip[w] - 1
               PROVE  \E y \in S2 : y.by = "worker" /\ y.id = w /\ y.n > n /\ y.from = k
    BY DEF ToStrip
  <2>2. CASE k = lv.strip[w] BY <1>1, <1>2, <2>1, <2>2
  <2>3. CASE k # lv.strip[w]
    <3>1. k \in from .. lv.strip[w] - 1 BY <1>1, <2>1, <2>3
    <3> QED BY <3>1 DEF ToStrip
  <2> QED BY <2>2, <2>3
<1>3. CASE ~(e.by = "worker" /\ e.id = w)
  <2>1. lv2.strip[w] = lv.strip[w] BY <1>1, <1>3, ChangeFacts, ToldFacts
  <2> QED BY <2>1 DEF ToStrip
<1> QED BY <1>2, <1>3

\* The new event leads where the state is.
LEMMA LeadsGrown ==
  ASSUME NEW lv, NEW lv2, NEW e, Changes(lv, lv2, e), NEW S, NEW S2, S2 = S \cup {e},
         S \subseteq Told, Made(S, lv.made), Leads(lv, S)
  PROVE  Leads(lv2, S2)
<1>0. e \in Told /\ lv.made \in Nat /\ e.n = lv.made + 1 BY ChangeFacts
<1>1. ASSUME NEW x \in S, x.by = "loop"
      PROVE  ToAir(lv2, S2, AirTold(x), x.n) /\ ToWindow(lv2, S2, x.id, WindowTold(x), x.n)
  <2>1. x.n \in Nat /\ x.n <= lv.made /\ x.id \in Windows BY <1>1, ToldFacts DEF Made
  <2>2. ToAir(lv, S, AirTold(x), x.n) /\ ToWindow(lv, S, x.id, WindowTold(x), x.n)
    BY <1>1 DEF Leads
  <2>3. ToAir(lv2, S2, AirTold(x), x.n) BY <2>1, <2>2, AirGrown
  <2>4. ToWindow(lv2, S2, x.id, WindowTold(x), x.n) BY <2>1, <2>2, WindowGrown
  <2> QED BY <2>3, <2>4
<1>2. ASSUME NEW x \in S, x.by = "worker"
      PROVE  /\ x.from < lv2.strip[x.id] /\ ToStrip(lv2, S2, x.id, x.from + 1, x.n)
             /\ \A y \in S2 : y.by = "worker" /\ y.id = x.id /\ x.n < y.n => x.from < y.from
  <2>1. PICK w, n, f : w = x.id /\ n = x.n /\ f = x.from + 1 OBVIOUS
  <2>2. /\ n \in Nat /\ n <= lv.made /\ w \in Windows /\ f \in Nat /\ x.from \in Nat
    BY <1>2, <2>1, ToldFacts DEF Made
  <2>3. /\ x.from < lv.strip[w] /\ ToStrip(lv, S, w, f, n)
        /\ \A y \in S : y.by = "worker" /\ y.id = w /\ n < y.n => x.from < y.from
    BY <1>2, <2>1 DEF Leads
  <2>4. ToStrip(lv2, S2, w, f, n) BY <2>2, <2>3, StripGrown
  <2>5. /\ lv.strip[w] \in Nat
        /\ e.by = "worker" /\ e.id = w => e.from = lv.strip[w]
        /\ lv2.strip[w] = lv.strip[w] \/ lv2.strip[w] = lv.strip[w] + 1
    <3>1. lv.strip[w] \in Nat BY <2>2, ChangeFacts
    <3>2. CASE e.by = "loop" BY <3>1, <3>2, <2>2, ChangeFacts
    <3>3. CASE e.by = "worker" /\ e.id = w BY <3>1, <3>3, <2>2, ChangeFacts
    <3>4. CASE e.by = "worker" /\ e.id # w BY <3>1, <3>4, <2>2, ChangeFacts
    <3> QED BY <1>0, <3>2, <3>3, <3>4, ToldFacts
  <2>6. x.from < lv2.strip[w] BY <2>2, <2>3, <2>5
  <2>7. \A y \in S2 : y.by = "worker" /\ y.id = w /\ n < y.n => x.from < y.from
    <3> TAKE y \in S2
    <3>1. CASE y = e BY <2>2, <2>3, <2>5, <3>1
    <3>2. CASE y \in S BY <2>3, <3>2
    <3> QED BY <3>1, <3>2
  <2> QED BY <2>1, <2>4, <2>6, <2>7
<1>3. ASSUME e.by = "loop"
      PROVE  ToAir(lv2, S2, AirTold(e), e.n) /\ ToWindow(lv2, S2, e.id, WindowTold(e), e.n)
  BY <1>3, ChangeFacts DEF ToAir, ToWindow
<1>4. ASSUME e.by = "worker"
      PROVE  /\ e.from < lv2.strip[e.id] /\ ToStrip(lv2, S2, e.id, e.from + 1, e.n)
             /\ \A y \in S2 : y.by = "worker" /\ y.id = e.id /\ e.n < y.n => e.from < y.from
  <2>1. e.id \in Windows BY <1>0, ToldFacts
  <2>2. e.from = lv.strip[e.id] /\ lv2.strip[e.id] = lv.strip[e.id] + 1 /\ lv.strip[e.id] \in Nat
    BY <1>4, <2>1, ChangeFacts
  <2>3. \A y \in S2 : ~(e.n < y.n)
    <3> TAKE y \in S2
    <3>1. CASE y = e BY <3>1, <1>0
    <3>2. CASE y \in S
      <4>1. y.n \in Nat /\ y.n <= lv.made BY <3>2, ToldFacts DEF Made
      <4> QED BY <4>1, <1>0
    <3> QED BY <3>1, <3>2
  <2>4. e.from + 1 .. lv2.strip[e.id] - 1 = {} BY <2>2
  <2> QED BY <2>2, <2>3, <2>4 DEF ToStrip
<1> QED BY <1>1, <1>2, <1>3, <1>4 DEF Leads

\* The same of a page.
LEMMA CatchesGrown ==
  ASSUME NEW lv, NEW lv2, NEW e, Changes(lv, lv2, e), NEW S, NEW S2, S2 = S \cup {e},
         NEW page, page.strip \in [Windows -> Seq(0 .. StripMax)], Catches(lv, page, S)
  PROVE  Catches(lv2, page, S2)
<1>0. e \in Told /\ lv.made \in Nat /\ lv2.log = lv.log BY ChangeFacts
<1>1. 0 \in Nat /\ 0 <= lv.made BY <1>0
<1>2. ToAir(lv2, S2, AirShown(page), 0)
  <2>1. ToAir(lv, S, AirShown(page), 0) BY DEF Catches
  <2> QED BY <1>1, <2>1, AirGrown
<1>3. ASSUME NEW w \in Windows
      PROVE  /\ ToWindow(lv2, S2, w, page.win[w], 0)
             /\ \A k \in 1 .. Len(page.strip[w]) : page.strip[w][k] = k
             /\ Len(page.strip[w]) <= lv2.strip[w]
             /\ ToStrip(lv2, S2, w, Len(page.strip[w]), 0)
  <2>1. /\ ToWindow(lv, S, w, page.win[w], 0)
        /\ \A k \in 1 .. Len(page.strip[w]) : page.strip[w][k] = k
        /\ Len(page.strip[w]) <= lv.strip[w]
        /\ ToStrip(lv, S, w, Len(page.strip[w]), 0)
    BY DEF Catches
  <2>2. PICK n : n = Len(page.strip[w]) OBVIOUS
  <2>3. n \in Nat /\ lv.strip[w] \in Nat
    <3>1. page.strip[w] \in Seq(0 .. StripMax) OBVIOUS
    <3> QED BY <2>2, <3>1, ElementsOf, ChangeFacts
  <2>4. lv2.strip[w] = lv.strip[w] \/ lv2.strip[w] = lv.strip[w] + 1
    <3>1. CASE e.by = "loop" BY <3>1, ChangeFacts
    <3>2. CASE e.by = "worker" /\ e.id = w BY <3>2, ChangeFacts
    <3>3. CASE e.by = "worker" /\ e.id # w BY <3>3, ChangeFacts
    <3> QED BY <1>0, <3>1, <3>2, <3>3, ToldFacts
  <2>5. n <= lv2.strip[w] BY <2>1, <2>2, <2>3, <2>4
  <2>6. ToStrip(lv2, S2, w, n, 0)
    <3>1. ToStrip(lv, S, w, n, 0) BY <2>1, <2>2
    <3> QED BY <1>1, <2>3, <3>1, StripGrown
  <2>7. ToWindow(lv2, S2, w, page.win[w], 0)
    <3>1. PICK shown : shown = page.win[w] OBVIOUS
    <3>2. ToWindow(lv, S, w, shown, 0) BY <2>1, <3>1
    <3>3. ToWindow(lv2, S2, w, shown, 0) BY <1>1, <3>2, WindowGrown
    <3> QED BY <3>1, <3>3
  <2> QED BY <2>1, <2>2, <2>5, <2>6, <2>7
<1>4. \A l \in Els(lv2.log) : l \in Els(page.log) \/ \E x \in S2 : T86!Line(x) = l
  BY <1>0 DEF Catches
<1> QED BY <1>2, <1>3, <1>4 DEF Catches

\* The same of the events a snapshot holds already.
LEMMA ForeseenGrown ==
  ASSUME NEW lv, NEW lv2, NEW e, Changes(lv, lv2, e), NEW S, NEW S2, S2 = S \cup {e},
         S \subseteq Told, Made(S, lv.made), NEW page, LinesMade(page.log, lv.made),
         Foreseen(lv, page, S)
  PROVE  Foreseen(lv2, page, S2)
<1>0. e \in Told /\ lv.made \in Nat /\ e.n = lv.made + 1 BY ChangeFacts
<1>1. T86!Line(e) \notin Els(page.log)
  <2> SUFFICES ASSUME T86!Line(e) \in Els(page.log) PROVE FALSE OBVIOUS
  <2>1. T86!Line(e)[2] <= lv.made BY DEF LinesMade
  <2>2. T86!Line(e)[2] = e.n BY DEF T86!Line
  <2> QED BY <1>0, <2>1, <2>2
<1>2. ASSUME NEW x \in S, T86!Line(x) \in Els(page.log), x.by = "loop"
      PROVE  /\ ToAir(lv2, S2, AirShown(page), x.n)
             /\ ToWindow(lv2, S2, x.id, page.win[x.id], x.n)
  <2>1. PICK w, n, shown : w = x.id /\ n = x.n /\ shown = page.win[x.id] OBVIOUS
  <2>2. n \in Nat /\ n <= lv.made /\ w \in Windows BY <2>1, ToldFacts DEF Made
  <2>3. ToAir(lv, S, AirShown(page), n) /\ ToWindow(lv, S, w, shown, n)
    BY <1>2, <2>1 DEF Foreseen
  <2>4. ToAir(lv2, S2, AirShown(page), n) BY <2>2, <2>3, AirGrown
  <2>5. ToWindow(lv2, S2, w, shown, n) BY <2>2, <2>3, WindowGrown
  <2> QED BY <2>1, <2>4, <2>5
<1>3. ASSUME NEW x \in S, T86!Line(x) \in Els(page.log), x.by = "worker"
      PROVE  x.from < Len(page.strip[x.id])
  BY <1>3 DEF Foreseen
<1> QED BY <1>1, <1>2, <1>3 DEF Foreseen

\* The snapshot is the state: all that is on its way was seen in it or is in it.
LEMMA SnapshotBrought ==
  ASSUME NEW lv, NEW S, S \subseteq Told, Leads(lv, S), NEW page, AirShown(page) = AirOf(lv),
         page.win = lv.win, page.log = lv.log,
         \A w \in Windows : /\ Len(page.strip[w]) = lv.strip[w] /\ lv.strip[w] \in Nat
                            /\ \A k \in 1 .. Len(page.strip[w]) : page.strip[w][k] = k
  PROVE  Catches(lv, page, S) /\ Foreseen(lv, page, S)
<1>1. \A n : ToAir(lv, S, AirShown(page), n) BY DEF ToAir
<1>2. \A n, w : ToWindow(lv, S, w, page.win[w], n) BY DEF ToWindow
<1>3. \A w \in Windows : ToStrip(lv, S, w, Len(page.strip[w]), 0)
  <2> TAKE w \in Windows
  <2>1. Len(page.strip[w]) .. lv.strip[w] - 1 = {} OBVIOUS
  <2> QED BY <2>1 DEF ToStrip
<1>4. \A w \in Windows : Len(page.strip[w]) <= lv.strip[w] OBVIOUS
<1>5. Catches(lv, page, S) BY <1>1, <1>2, <1>3, <1>4 DEF Catches
<1>6. ASSUME NEW x \in S, x.by = "worker" PROVE x.from < Len(page.strip[x.id])
  <2>1. x.id \in Windows BY ToldFacts
  <2> QED BY <1>6, <2>1 DEF Leads
<1>7. Foreseen(lv, page, S) BY <1>1, <1>2, <1>6 DEF Foreseen
<1> QED BY <1>5, <1>7

\* An event is passed by that the snapshot holds.
LEMMA CatchesKnown ==
  ASSUME NEW lv, NEW S, NEW T, NEW h \in Told, S = T \cup {h}, T \subseteq Told,
         \A y \in T : Before(h, y), NEW page, page.strip \in [Windows -> Seq(0 .. StripMax)],
         T86!Line(h) \in Els(page.log), Catches(lv, page, S), Foreseen(lv, page, S)
  PROVE  Catches(lv, page, T)
<1>0. h \in S /\ h.n \in Nat /\ h.from \in Nat /\ h.id \in Windows BY ToldFacts
<1>1. ToAir(lv, T, AirShown(page), 0)
  <2>1. CASE h.by = "loop"
    <3>1. ToAir(lv, S, AirShown(page), h.n) BY <1>0, <2>1 DEF Foreseen
    <3>2. ToAir(lv, T, AirShown(page), h.n)
      <4>1. PICK n : n = h.n OBVIOUS
      <4>2. n \in Nat /\ n >= h.n /\ ToAir(lv, S, AirShown(page), n) BY <1>0, <3>1, <4>1
      <4>3. ToAir(lv, T, AirShown(page), n) BY <4>2, AirWithout
      <4> QED BY <4>1, <4>3
    <3> QED BY <1>0, <3>2, ToldFacts DEF ToAir
  <2>2. CASE h.by # "loop"
    <3>1. ToAir(lv, S, AirShown(page), 0) BY DEF Catches
    <3> QED BY <2>2, <3>1, AirWithout
  <2> QED BY <2>1, <2>2
<1>2. ASSUME NEW w \in Windows PROVE ToWindow(lv, T, w, page.win[w], 0)
  <2>0. PICK shown : shown = page.win[w] OBVIOUS
  <2>1. CASE h.by = "loop" /\ h.id = w
    <3>1. ToWindow(lv, S, w, shown, h.n) BY <1>0, <2>0, <2>1 DEF Foreseen
    <3>2. ToWindow(lv, T, w, shown, h.n)
      <4>1. PICK n : n = h.n OBVIOUS
      <4>2. n \in Nat /\ n >= h.n /\ ToWindow(lv, S, w, shown, n) BY <1>0, <3>1, <4>1
      <4>3. ToWindow(lv, T, w, shown, n) BY <4>2, WindowWithout
      <4> QED BY <4>1, <4>3
    <3> QED BY <1>0, <2>0, <3>2, ToldFacts DEF ToWindow
  <2>2. CASE ~(h.by = "loop" /\ h.id = w)
    <3>1. ToWindow(lv, S, w, shown, 0) BY <2>0 DEF Catches
    <3>2. ToWindow(lv, T, w, shown, 0) BY <2>2, <3>1, WindowWithout
    <3> QED BY <2>0, <3>2
  <2> QED BY <2>1, <2>2
<1>3. ASSUME NEW w \in Windows PROVE ToStrip(lv, T, w, Len(page.strip[w]), 0)
  <2>0. PICK n : n = Len(page.strip[w]) OBVIOUS
  <2>1. n \in Nat
    <3>1. page.strip[w] \in Seq(0 .. StripMax) OBVIOUS
    <3> QED BY <2>0, <3>1, ElementsOf
  <2>2. ToStrip(lv, S, w, n, 0) BY <2>0 DEF Catches
  <2>3. h.by = "worker" /\ h.id = w => n > h.from BY <1>0, <2>0, <2>1 DEF Foreseen
  <2>4. ToStrip(lv, T, w, n, 0) BY <2>1, <2>2, <2>3, StripWithout
  <2> QED BY <2>0, <2>4
<1>4. \A l \in Els(lv.log) : l \in Els(page.log) \/ \E x \in T : T86!Line(x) = l
  BY DEF Catches
<1>5. \A w \in Windows : /\ \A k \in 1 .. Len(page.strip[w]) : page.strip[w][k] = k
                         /\ Len(page.strip[w]) <= lv.strip[w]
  BY DEF Catches
<1> QED BY <1>1, <1>2, <1>3, <1>4, <1>5 DEF Catches

\* The events a snapshot holds already still do no harm without the first event on the way.
LEMMA ForeseenWithout ==
  ASSUME NEW lv, NEW S, NEW T, NEW h \in Told, S = T \cup {h}, T \subseteq Told,
         \A y \in T : Before(h, y), NEW page, Foreseen(lv, page, S)
  PROVE  Foreseen(lv, page, T)
<1>1. ASSUME NEW x \in T, T86!Line(x) \in Els(page.log), x.by = "loop"
      PROVE  /\ ToAir(lv, T, AirShown(page), x.n)
             /\ ToWindow(lv, T, x.id, page.win[x.id], x.n)
  <2>1. PICK w, n, shown : w = x.id /\ n = x.n /\ shown = page.win[x.id] OBVIOUS
  <2>2. n \in Nat /\ h.n \in Nat BY <2>1, ToldFacts
  <2>3. h.by = "loop" => n >= h.n BY <1>1, <2>1, <2>2 DEF Before
  <2>4. ToAir(lv, S, AirShown(page), n) /\ ToWindow(lv, S, w, shown, n)
    BY <1>1, <2>1 DEF Foreseen
  <2>5. ToAir(lv, T, AirShown(page), n) BY <2>2, <2>3, <2>4, AirWithout
  <2>6. ToWindow(lv, T, w, shown, n) BY <2>2, <2>3, <2>4, WindowWithout
  <2> QED BY <2>1, <2>5, <2>6
<1>2. ASSUME NEW x \in T, T86!Line(x) \in Els(page.log), x.by = "worker"
      PROVE  x.from < Len(page.strip[x.id])
  BY <1>2 DEF Foreseen
<1> QED BY <1>1, <1>2 DEF Foreseen

\* What a place of a strip holds.
Places == 0 .. StripMax

\* A function on the first n numbers is a sequence.
LEMMA SeqBy ==
  ASSUME NEW S, NEW n \in Nat, NEW q \in [1 .. n -> S]
  PROVE  q \in Seq(S) /\ Len(q) = n
<1>1. q \in Seq(S) OBVIOUS
<1>2. Len(q) = n OBVIOUS
<1> QED BY <1>1, <1>2

\* The places of an event put behind what they follow.
PutBehind(cum, from, one, strip) ==
    strip = T86!MergeQuality(cum, from, SubSeq(T86!StripOf(from + one), from + 1, from + one))

\* The strip of an event and of what it leaves of a longer one (mergeQuality).
LEMMA Merged ==
  ASSUME NEW cum \in Seq(Places), NEW from \in Nat, from < StripMax, NEW one, one = 1,
         NEW strip, PutBehind(cum, from, one, strip)
  PROVE  /\ strip \in Seq(Places)
         /\ (\A i \in 1 .. Len(cum) : cum[i] = i \/ cum[i] = 0)
               => \A i \in 1 .. Len(strip) : strip[i] = i \/ strip[i] = 0
         /\ from <= Len(cum) => Len(strip) = from + 1
         /\ from <= Len(cum) /\ (\A i \in 1 .. Len(cum) : cum[i] = i)
               => \A i \in 1 .. Len(strip) : strip[i] = i
<1>0. Len(cum) \in Nat /\ \A i \in 1 .. Len(cum) : cum[i] \in Places BY ElementsOf
<1>1. PICK all : all = T86!StripOf(from + 1) OBVIOUS
<1>2. all = [k \in 1 .. from + 1 |-> k] BY <1>1 DEF T86!StripOf
<1>3. /\ all \in Seq(Nat) /\ Len(all) = from + 1 /\ all[from + 1] = from + 1
  BY <1>2
<1>4. PICK add : add = SubSeq(all, from + 1, from + 1) OBVIOUS
<1>5. Len(add) = 1 /\ add[1] = from + 1 /\ add \in Seq(Places)
  <2>1. Len(add) = 1 BY <1>3, <1>4
  <2>2. add[1] = from + 1 BY <1>3, <1>4
  <2>3. add = [k \in 1 .. 1 |-> all[k + from]] BY <1>3, <1>4
  <2>4. from + 1 \in Places BY FeedBounds DEF Places
  <2>5. \A k \in 1 .. 1 : all[k + from] = from + 1 BY <1>3
  <2>6. add = [k \in 1 .. 1 |-> from + 1] BY <2>3, <2>5
  <2>7. add \in [1 .. 1 -> Places] BY <2>4, <2>6
  <2>8. add \in Seq(Places)
    <3>1. PICK n : n = 1 OBVIOUS
    <3>2. n \in Nat /\ add \in [1 .. n -> Places] BY <2>7, <3>1
    <3> QED BY <3>2, SeqBy
  <2> QED BY <2>1, <2>2, <2>8
<1>6. strip = T86!MergeQuality(cum, from, add) BY <1>1, <1>4 DEF PutBehind
<1> HIDE <1>1, <1>2, <1>3, <1>4
<1>7. CASE from > Len(cum)
  <2>1. PICK gap : gap = [k \in 1 .. from - Len(cum) |-> 0] OBVIOUS
  <2>2. from - Len(cum) \in Nat BY <1>0, <1>7
  <2>3. /\ gap \in Seq(Places) /\ Len(gap) = from - Len(cum)
        /\ \A k \in 1 .. Len(gap) : gap[k] = 0
    <3>1. 0 \in Places BY FeedBounds DEF Places
    <3>2. PICK n : n = from - Len(cum) OBVIOUS
    <3>3. n \in Nat /\ gap \in [1 .. n -> Places] BY <2>1, <2>2, <3>1, <3>2
    <3>4. gap \in Seq(Places) /\ Len(gap) = n BY <3>3, SeqBy
    <3> QED BY <2>1, <3>2, <3>4
  <2>4. PICK most : most = cum \o gap OBVIOUS
  <2>5. strip = most \o add
    BY <1>6, <1>7, <2>1, <2>4 DEF T86!MergeQuality, T86!Unknown
  <2>6. /\ most \in Seq(Places) /\ Len(most) = Len(cum) + Len(gap)
        /\ \A k \in 1 .. Len(cum) : most[k] = cum[k]
        /\ \A k \in Len(cum) + 1 .. Len(most) : most[k] = gap[k - Len(cum)]
    BY <2>3, <2>4, ConcatFacts
  <2>7. Len(most) = from BY <1>0, <2>2, <2>3, <2>6
  <2>8. /\ strip \in Seq(Places) /\ Len(strip) = Len(most) + Len(add)
        /\ \A k \in 1 .. Len(most) : strip[k] = most[k]
        /\ \A k \in Len(most) + 1 .. Len(strip) : strip[k] = add[k - Len(most)]
    <3>1. most \in Seq(Places) /\ add \in Seq(Places) BY <1>5, <2>6
    <3> QED BY <2>5, <3>1, ConcatFacts
  <2>9. ASSUME \A i \in 1 .. Len(cum) : cum[i] = i \/ cum[i] = 0
        PROVE  \A i \in 1 .. Len(strip) : strip[i] = i \/ strip[i] = 0
    <3> TAKE i \in 1 .. Len(strip)
    <3>1. CASE i <= Len(cum)
      <4>1. i \in 1 .. Len(cum) /\ i \in 1 .. Len(most) BY <1>0, <1>7, <2>7, <2>8, <3>1
      <4>2. strip[i] = cum[i] BY <2>6, <2>8, <4>1
      <4> QED BY <2>9, <4>1, <4>2
    <3>2. CASE i > Len(cum) /\ i <= from
      <4>1. i \in 1 .. Len(most) /\ i \in Len(cum) + 1 .. Len(most) BY <1>0, <2>7, <3>2
      <4>2. i - Len(cum) \in 1 .. Len(gap) BY <1>0, <2>3, <3>2
      <4>3. strip[i] = gap[i - Len(cum)] BY <2>6, <2>8, <4>1
      <4> QED BY <2>3, <4>2, <4>3
    <3>3. CASE i > from
      <4>1. i = from + 1 /\ i \in Len(most) + 1 .. Len(strip) /\ i - Len(most) = 1
        BY <1>5, <2>7, <2>8, <3>3
      <4> QED BY <1>5, <2>8, <4>1
    <3> QED BY <1>0, <3>1, <3>2, <3>3
  <2> QED BY <1>0, <1>7, <2>8, <2>9
<1>8. CASE from <= Len(cum)
  <2>1. PICK most : most = SubSeq(cum, 1, from) OBVIOUS
  <2>2. most \in Seq(Places) /\ Len(most) = from /\ \A k \in 1 .. from : most[k] = cum[k]
    <3>1. most = [k \in 1 .. from |-> cum[k]] BY <1>0, <1>8, <2>1
    <3>2. \A k \in 1 .. from : cum[k] \in Places BY <1>0, <1>8
    <3>3. most \in [1 .. from -> Places] BY <3>1, <3>2
    <3>4. most \in Seq(Places) /\ Len(most) = from BY <3>3, SeqBy
    <3> QED BY <3>1, <3>4
  <2>3. strip = most \o add
    <3>1. ~(from > Len(cum)) BY <1>0, <1>8
    <3> QED BY <1>6, <2>1, <3>1 DEF T86!MergeQuality
  <2>4. /\ strip \in Seq(Places) /\ Len(strip) = Len(most) + Len(add)
        /\ \A k \in 1 .. Len(most) : strip[k] = most[k]
        /\ \A k \in Len(most) + 1 .. Len(strip) : strip[k] = add[k - Len(most)]
    <3>1. most \in Seq(Places) /\ add \in Seq(Places) BY <1>5, <2>2
    <3> QED BY <2>3, <3>1, ConcatFacts
  <2>5. \A i \in 1 .. Len(strip) : \/ i \in 1 .. Len(cum) /\ strip[i] = cum[i]
                                   \/ strip[i] = i
    <3> TAKE i \in 1 .. Len(strip)
    <3>1. CASE i <= from
      <4>1. i \in 1 .. from /\ i \in 1 .. Len(cum) BY <1>0, <1>8, <3>1
      <4> QED BY <2>2, <2>4, <4>1
    <3>2. CASE i > from
      <4>1. i = from + 1 /\ i \in Len(most) + 1 .. Len(strip) /\ i - Len(most) = 1
        BY <1>5, <2>2, <2>4, <3>2
      <4> QED BY <1>5, <2>4, <4>1
    <3> QED BY <3>1, <3>2
  <2> QED BY <1>5, <2>2, <2>4, <2>5
<1> QED BY <1>0, <1>7, <1>8

\* The page after an event.
Takes(page, x, page2) == page2 = T86!Apply(page, x)

\* What it shows of the event, and leaves of what it showed.
Shows(page, x, page2) ==
    /\ page2 \in T86!Page /\ Aligned(page2) /\ page2.log = Append(page.log, T86!Line(x))
    /\ x.by = "loop" =>
          /\ AirShown(page2) = AirTold(x) /\ page2.win[x.id] = WindowTold(x)
          /\ page2.strip = page.strip
          /\ \A w \in Windows : w # x.id => page2.win[w] = page.win[w]
    /\ x.by = "worker" =>
          /\ AirShown(page2) = AirShown(page) /\ page2.win = page.win
          /\ \A w \in Windows : w # x.id => page2.strip[w] = page.strip[w]
          /\ x.from <= Len(page.strip[x.id]) => Len(page2.strip[x.id]) = x.from + 1
          /\ x.from <= Len(page.strip[x.id])
                /\ (\A i \in 1 .. Len(page.strip[x.id]) : page.strip[x.id][i] = i)
                => \A i \in 1 .. Len(page2.strip[x.id]) : page2.strip[x.id][i] = i

\* apply shows the event.
LEMMA Applied ==
  ASSUME NEW page \in T86!Page, NEW x \in Told, NEW page2, Takes(page, x, page2), Aligned(page)
  PROVE  Shows(page, x, page2)
<1> USE DEF Shows
<1>1. /\ x \in Told /\ x.id \in Windows /\ (x.by = "loop" \/ x.by = "worker")
      /\ x.by = "loop" => x.kind = "start" \/ x.kind = "end"
      /\ x.by = "worker" => x.kind = "audio" /\ x.len = 1
      /\ x.from \in Nat /\ x.n \in Nat
  BY ToldFacts
<1>2. /\ page.active \in BOOLEAN /\ page.win \in [Windows -> {"none", "open", "closed"}]
      /\ page.strip \in [Windows -> Seq(0 .. StripMax)]
      /\ page.log \in Seq(T86!Emitters \X Nat)
      /\ page = [active |-> page.active, win |-> page.win, strip |-> page.strip, log |-> page.log]
  BY DEF T86!Page
<1>3. PICK log : log = Append(page.log, T86!Line(x)) OBVIOUS
<1>4. log \in Seq(T86!Emitters \X Nat)
  <2>1. T86!Line(x) \in T86!Emitters \X Nat BY <1>1 DEF T86!Line, T86!Emitters
  <2> QED BY <1>2, <1>3, <2>1, AppendFacts
<1>5. PICK p : p = [page EXCEPT !.log = log] OBVIOUS
<1>6. p = [active |-> page.active, win |-> page.win, strip |-> page.strip, log |-> log]
  BY <1>2, <1>5
<1>7. CASE x.kind = "start"
  <2>1. page2 = [p EXCEPT !.active = TRUE, !.win[x.id] = "open"]
    BY <1>3, <1>5, <1>7 DEF Takes, T86!Apply
  <2>2. PICK win : win = [page.win EXCEPT ![x.id] = "open"] OBVIOUS
  <2>3. page2 = [active |-> TRUE, win |-> win, strip |-> page.strip, log |-> log]
    BY <1>6, <2>1, <2>2
  <2>4. /\ win \in [Windows -> {"none", "open", "closed"}] /\ win[x.id] = "open"
        /\ \A w \in Windows : w # x.id => win[w] = page.win[w]
    BY <1>1, <1>2, <2>2
  <2>5. page2 \in T86!Page BY <1>2, <1>4, <2>3, <2>4 DEF T86!Page
  <2>6. Aligned(page2) BY <2>3 DEF Aligned
  <2>7. x.by = "loop" BY <1>1, <1>7
  <2>8. AirShown(page2) = AirTold(x) /\ page2.win[x.id] = WindowTold(x)
    BY <1>7, <2>3, <2>4 DEF AirShown, AirTold, WindowTold
  <2> QED BY <1>3, <2>3, <2>4, <2>5, <2>6, <2>7, <2>8
<1>8. CASE x.kind = "end"
  <2>1. page2 = [p EXCEPT !.active = FALSE, !.win[x.id] = "closed"]
    BY <1>3, <1>5, <1>8 DEF Takes, T86!Apply
  <2>2. PICK win : win = [page.win EXCEPT ![x.id] = "closed"] OBVIOUS
  <2>3. page2 = [active |-> FALSE, win |-> win, strip |-> page.strip, log |-> log]
    BY <1>6, <2>1, <2>2
  <2>4. /\ win \in [Windows -> {"none", "open", "closed"}] /\ win[x.id] = "closed"
        /\ \A w \in Windows : w # x.id => win[w] = page.win[w]
    BY <1>1, <1>2, <2>2
  <2>5. page2 \in T86!Page BY <1>2, <1>4, <2>3, <2>4 DEF T86!Page
  <2>6. Aligned(page2) BY <2>3 DEF Aligned
  <2>7. x.by = "loop" BY <1>1, <1>8
  <2>8. AirShown(page2) = AirTold(x) /\ page2.win[x.id] = WindowTold(x)
    BY <1>8, <2>3, <2>4 DEF AirShown, AirTold, WindowTold
  <2> QED BY <1>3, <2>3, <2>4, <2>5, <2>6, <2>7, <2>8
<1>9. CASE x.kind = "audio"
  <2>0. x.from < StripMax /\ x.len = 1 /\ x.by = "worker" BY <1>1, <1>9 DEF Told
  <2>1. PICK cum, from, one : cum = page.strip[x.id] /\ from = x.from /\ one = x.len OBVIOUS
  <2>2. PICK new : PutBehind(cum, from, one, new) BY DEF PutBehind
  <2>3. page2 = [p EXCEPT !.strip[x.id] = new]
    BY <1>3, <1>5, <1>6, <1>9, <2>1, <2>2 DEF Takes, T86!Apply, PutBehind
  <2>4. PICK strip : strip = [page.strip EXCEPT ![x.id] = new] OBVIOUS
  <2>5. page2 = [active |-> page.active, win |-> page.win, strip |-> strip, log |-> log]
    BY <1>6, <2>3, <2>4
  <2>6. cum \in Seq(Places) /\ from \in Nat /\ from < StripMax /\ one = 1
    BY <1>1, <1>2, <2>0, <2>1 DEF Places
  <2>7. /\ new \in Seq(Places)
        /\ (\A i \in 1 .. Len(cum) : cum[i] = i \/ cum[i] = 0)
              => \A i \in 1 .. Len(new) : new[i] = i \/ new[i] = 0
        /\ from <= Len(cum) => Len(new) = from + 1
        /\ from <= Len(cum) /\ (\A i \in 1 .. Len(cum) : cum[i] = i)
              => \A i \in 1 .. Len(new) : new[i] = i
    BY <2>2, <2>6, Merged
  <2>8. /\ strip \in [Windows -> Seq(0 .. StripMax)] /\ strip[x.id] = new
        /\ \A w \in Windows : w # x.id => strip[w] = page.strip[w]
    BY <1>1, <1>2, <2>4, <2>7 DEF Places
  <2>9. page2 \in T86!Page BY <1>2, <1>4, <2>5, <2>8 DEF T86!Page
  <2>10. Aligned(page2)
    <3> SUFFICES ASSUME NEW w \in Windows, NEW i \in 1 .. Len(strip[w])
                 PROVE  strip[w][i] = i \/ strip[w][i] = 0
      BY <2>5 DEF Aligned
    <3>1. CASE w = x.id BY <1>1, <2>1, <2>7, <2>8, <3>1 DEF Aligned
    <3>2. CASE w # x.id BY <2>8, <3>2 DEF Aligned
    <3> QED BY <3>1, <3>2
  <2>11. AirShown(page2) = AirShown(page) BY <2>5 DEF AirShown
  <2> QED BY <1>3, <2>0, <2>1, <2>5, <2>7, <2>8, <2>9, <2>10, <2>11
<1> QED BY <1>1, <1>7, <1>8, <1>9

LogLines == T86!Emitters \X Nat

\* A page shows one line more for each event.
LEMMA LogWith ==
  ASSUME NEW page \in T86!Page, NEW x \in Told, NEW page2,
         page2.log = Append(page.log, T86!Line(x))
  PROVE  Els(page2.log) = Els(page.log) \cup {T86!Line(x)}
<1>1. page.log \in Seq(LogLines) BY DEF T86!Page, LogLines
<1>2. T86!Line(x) \in LogLines BY ToldFacts DEF T86!Line, T86!Emitters, LogLines
<1>3. PICK log, log2, line : log = page.log /\ log2 = page2.log /\ line = T86!Line(x) OBVIOUS
<1>4. log \in Seq(LogLines) /\ line \in LogLines /\ With(log, line, log2)
  BY <1>1, <1>2, <1>3 DEF With
<1> HIDE <1>1, <1>2, <1>3
<1>5. Els(log2) = Els(log) \cup {line}
  BY <1>4, ElsAppend
<1> QED BY <1>3, <1>5

\* A page that has the first of the events is brought to the state by the others.
LEMMA CatchesApplied ==
  ASSUME NEW lv \in LiveRec, NEW S, NEW T, NEW x \in Told, S = T \cup {x}, T \subseteq Told,
         \A y \in T : Before(x, y), NEW page \in T86!Page, Aligned(page), NEW page2,
         Takes(page, x, page2), Leads(lv, S), Catches(lv, page, S)
  PROVE  Catches(lv, page2, T)
<1>0. /\ x \in S /\ x.n \in Nat /\ x.n > 0 /\ x.from \in Nat /\ x.id \in Windows
      /\ x.by = "loop" \/ x.by = "worker"
  BY ToldFacts
<1>1. /\ page2 \in T86!Page /\ page2.log = Append(page.log, T86!Line(x))
      /\ x.by = "loop" =>
               /\ AirShown(page2) = AirTold(x) /\ page2.win[x.id] = WindowTold(x)
               /\ page2.strip = page.strip
               /\ \A w \in Windows : w # x.id => page2.win[w] = page.win[w]
      /\ x.by = "worker" =>
            /\ AirShown(page2) = AirShown(page) /\ page2.win = page.win
            /\ \A w \in Windows : w # x.id => page2.strip[w] = page.strip[w]
            /\ x.from <= Len(page.strip[x.id]) => Len(page2.strip[x.id]) = x.from + 1
            /\ x.from <= Len(page.strip[x.id])
                  /\ (\A i \in 1 .. Len(page.strip[x.id]) : page.strip[x.id][i] = i)
                  => \A i \in 1 .. Len(page2.strip[x.id]) : page2.strip[x.id][i] = i
  <2>1. Shows(page, x, page2) BY Applied
  <2> QED BY <2>1 DEF Shows
<1>2. \A w \in Windows : Len(page.strip[w]) \in Nat /\ lv.strip[w] \in Nat
  <2> TAKE w \in Windows
  <2>1. page.strip[w] \in Seq(0 .. StripMax) BY DEF T86!Page
  <2>2. lv.strip[w] \in 0 .. StripMax BY DEF LiveRec
  <2> QED BY <2>1, <2>2, ElementsOf, FeedBounds
<1>3. PICK n : n = x.n OBVIOUS
<1>4. n \in Nat /\ n >= x.n /\ n > 0 BY <1>0, <1>3
<1>5. ToAir(lv, T, AirShown(page2), 0)
  <2>1. CASE x.by = "loop"
    <3>1. ToAir(lv, S, AirTold(x), n) BY <1>0, <1>3, <2>1 DEF Leads
    <3>2. ToAir(lv, T, AirTold(x), n) BY <1>4, <3>1, AirWithout
    <3>3. ToAir(lv, T, AirTold(x), 0) BY <1>4, <3>2, ToldFacts DEF ToAir
    <3> QED BY <1>1, <2>1, <3>3
  <2>2. CASE x.by = "worker"
    <3>1. ToAir(lv, S, AirShown(page), 0) BY DEF Catches
    <3>2. ToAir(lv, T, AirShown(page), 0) BY <2>2, <3>1, AirWithout
    <3> QED BY <1>1, <2>2, <3>2
  <2> QED BY <1>0, <2>1, <2>2
<1>6. ASSUME NEW w \in Windows PROVE ToWindow(lv, T, w, page2.win[w], 0)
  <2>0. PICK shown : shown = page2.win[w] OBVIOUS
  <2>1. CASE x.by = "loop" /\ x.id = w
    <3>1. ToWindow(lv, S, w, shown, n) BY <1>0, <1>1, <1>3, <2>0, <2>1 DEF Leads
    <3>2. ToWindow(lv, T, w, shown, n) BY <1>4, <3>1, WindowWithout
    <3> QED BY <1>4, <2>0, <3>2, ToldFacts DEF ToWindow
  <2>2. CASE ~(x.by = "loop" /\ x.id = w)
    <3>0. shown = page.win[w] BY <1>0, <1>1, <2>0, <2>2
    <3>1. ToWindow(lv, S, w, shown, 0) BY <3>0 DEF Catches
    <3>2. ToWindow(lv, T, w, shown, 0) BY <2>2, <3>1, WindowWithout
    <3> QED BY <2>0, <3>2
  <2> QED BY <2>1, <2>2
<1>7. ASSUME NEW w \in Windows
      PROVE  /\ \A k \in 1 .. Len(page2.strip[w]) : page2.strip[w][k] = k
             /\ Len(page2.strip[w]) <= lv.strip[w]
             /\ ToStrip(lv, T, w, Len(page2.strip[w]), 0)
  <2>0. /\ \A k \in 1 .. Len(page.strip[w]) : page.strip[w][k] = k
        /\ Len(page.strip[w]) <= lv.strip[w]
        /\ ToStrip(lv, S, w, Len(page.strip[w]), 0)
    BY DEF Catches
  <2>1. CASE x.by = "worker" /\ x.id = w
    <3>1. /\ x.from < lv.strip[w] /\ ToStrip(lv, S, w, x.from + 1, n)
          /\ \A y \in S : y.by = "worker" /\ y.id = w /\ n < y.n => x.from < y.from
      BY <1>0, <1>3, <2>1 DEF Leads
    <3>2. x.from <= Len(page.strip[w])
      <4> SUFFICES ASSUME x.from > Len(page.strip[w]) PROVE FALSE BY <1>0, <1>2
      <4>1. PICK k : k = Len(page.strip[w]) OBVIOUS
      <4>2. k \in Len(page.strip[w]) .. lv.strip[w] - 1 BY <1>0, <1>2, <3>1, <4>1
      <4>3. PICK y \in S : y.by = "worker" /\ y.id = w /\ y.from = k
        BY <2>0, <4>2 DEF ToStrip
      <4>4. y # x BY <1>0, <1>2, <4>1, <4>3
      <4>5. y \in T BY <4>4
      <4>6. n < y.n BY <1>3, <2>1, <4>3, <4>5 DEF Before
      <4>7. x.from < y.from BY <3>1, <4>3, <4>6
      <4> QED BY <1>0, <1>2, <4>1, <4>3, <4>7
    <3>3. /\ Len(page2.strip[w]) = x.from + 1
          /\ \A k \in 1 .. Len(page2.strip[w]) : page2.strip[w][k] = k
      BY <1>1, <2>0, <2>1, <3>2
    <3>4. PICK f : f = x.from + 1 OBVIOUS
    <3>5. f \in Nat /\ f <= lv.strip[w] BY <1>0, <1>2, <3>1, <3>4
    <3>6. ToStrip(lv, S, w, f, n) BY <3>1, <3>4
    <3>7. ToStrip(lv, T, w, f, n) BY <1>4, <3>5, <3>6, StripWithout
    <3>8. ToStrip(lv, T, w, f, 0) BY <1>4, <3>7, ToldFacts DEF ToStrip
    <3> QED BY <3>3, <3>4, <3>5, <3>8
  <2>2. CASE ~(x.by = "worker" /\ x.id = w)
    <3>1. page2.strip[w] = page.strip[w] BY <1>0, <1>1, <2>2
    <3>2. PICK f : f = Len(page.strip[w]) OBVIOUS
    <3>3. f \in Nat /\ ToStrip(lv, S, w, f, 0) BY <1>2, <2>0, <3>2
    <3>4. ToStrip(lv, T, w, f, 0) BY <2>2, <3>3, StripWithout
    <3> QED BY <2>0, <3>1, <3>2, <3>4
  <2> QED BY <2>1, <2>2
<1>8. Els(page2.log) = Els(page.log) \cup {T86!Line(x)} BY <1>1, LogWith
<1>9. \A l \in Els(lv.log) : l \in Els(page2.log) \/ \E y \in T : T86!Line(y) = l
  BY <1>8 DEF Catches
<1> QED BY <1>5, <1>6, <1>7, <1>9 DEF Catches

-----------------------------------------------------------------------------
(* One connection k: the events of P are being sent to it, those of U will be. *)

\* The state changes, an event tells of it.
LEMMA ConnChange ==
  ASSUME NEW k, NEW P, NEW U, NEW U2, NEW lv, NEW lv2, NEW e, Changes(lv, lv2, e),
         NEW over, U \subseteq Told, Made(U, lv.made), U2 = U \cup {e},
         ConnRight(k, P, U, lv, over)
  PROVE  ConnRight(k, P, U2, lv2, over)
<1>0. lv.made \in Nat /\ lv2.made = lv.made + 1 /\ e.n = lv.made + 1 /\ e \in Told
  <2>1. lv2.made = lv.made + 1 BY DEF Changes
  <2> QED BY <2>1, ChangeFacts
<1>1. PICK S, S2 : S = Els(k.ch) \cup P \cup U /\ S2 = Els(k.ch) \cup P \cup U2 OBVIOUS
<1>2. S2 = S \cup {e} BY <1>1
<1>3. k \in ConnRec /\ P \subseteq Told BY DEF ConnRight, ConnTyped
<1>4. Els(k.ch) \subseteq Told
  <2>1. k.ch \in Seq(Told) BY <1>3 DEF ConnRec
  <2> QED BY <2>1, ElsIn
<1>5. S \subseteq Told /\ Made(S, lv.made)
  BY <1>1, <1>3, <1>4 DEF ConnRight, ConnOrdered, Made
<1>6. \A y \in S : y.n \in Nat /\ y.n <= lv.made BY <1>5, ToldFacts DEF Made
<1>7. /\ k.page \in T86!Page /\ k.page.strip \in [Windows -> Seq(0 .. StripMax)]
      /\ k.page.log \in Seq(T86!Emitters \X Nat)
  BY <1>3 DEF ConnRec, T86!Page
<1>8. \A i \in 1 .. Len(k.page.log) : k.page.log[i][2] \in Nat /\ k.page.log[i][2] <= lv.made
  <2> TAKE i \in 1 .. Len(k.page.log)
  <2>1. k.page.log[i] \in T86!Emitters \X Nat BY <1>7, ElementsOf
  <2>2. k.page.log[i] \in Els(k.page.log) BY DEF Els
  <2> QED BY <2>1, <2>2 DEF ConnRight, ConnOrdered, LinesMade
<1>9. ConnOrdered(k, P, U2, lv2.made)
  <2>1. AllBefore(Els(k.ch) \cup P, U2)
    <3>1. \A y \in Els(k.ch) \cup P : Before(y, e) BY <1>0, <1>1, <1>6 DEF Before
    <3> QED BY <3>1 DEF AllBefore, ConnRight, ConnOrdered
  <2>2. Made(Els(k.ch) \cup P, lv2.made) BY <1>0, <1>1, <1>6 DEF Made
  <2>3. LinesMade(k.page.log, lv2.made) BY <1>0, <1>8 DEF LinesMade, Els
  <2>4. ShownBefore(k.page.log, k.lines, S2)
    <3> SUFFICES ASSUME NEW i \in k.lines + 1 .. Len(k.page.log), NEW y \in S2,
                        k.page.log[i][1] = y.by
                 PROVE  k.page.log[i][2] < y.n
      BY DEF ShownBefore
    <3>1. CASE y = e
      <4>1. k.lines \in Nat BY <1>3 DEF ConnRec
      <4>2. Len(k.page.log) \in Nat BY <1>7, ElementsOf
      <4>3. i \in 1 .. Len(k.page.log) BY <4>1, <4>2
      <4> QED BY <1>0, <1>8, <3>1, <4>3
    <3>2. CASE y \in S BY <3>2, <1>1 DEF ShownBefore, ConnRight, ConnOrdered
    <3> QED BY <1>2, <3>1, <3>2
  <2> QED BY <1>1, <2>1, <2>2, <2>3, <2>4 DEF ConnRight, ConnOrdered
<1>10. ASSUME Brought(k, lv, S) PROVE Brought(k, lv2, S2)
  <2>1. Leads(lv2, S2) BY <1>2, <1>5, <1>10, LeadsGrown DEF Brought
  <2>2. PICK page : page = k.page OBVIOUS
  <2>3. Catches(lv, page, S) /\ page.strip \in [Windows -> Seq(0 .. StripMax)]
    BY <1>7, <1>10, <2>2 DEF Brought
  <2>4. Catches(lv2, page, S2) BY <1>2, <2>3, CatchesGrown
  <2>5. LinesMade(page.log, lv.made) BY <2>2 DEF ConnRight, ConnOrdered
  <2>6. Foreseen(lv, page, S) => Foreseen(lv2, page, S2) BY <1>2, <1>5, <2>5, ForeseenGrown
  <2> QED BY <1>10, <2>1, <2>2, <2>4, <2>6 DEF Brought
<1> QED BY <1>1, <1>9, <1>10 DEF ConnRight

\* Nothing of what a connection has or shows changes, and no more is to come.
LEMMA ConnKept ==
  ASSUME NEW k, NEW k2 \in ConnRec, NEW P, NEW U, NEW U2, U2 \subseteq U, NEW lv,
         NEW over, NEW over2, k2.ch = k.ch, k2.page = k.page, k2.lines = k.lines,
         k2.phase # "off" => k.phase # "off", k2.phase # "live" => k.phase # "live",
         ~over2 /\ k2.phase # "off" /\ ~k2.lossy => ~over /\ U2 = U /\ ~k.lossy,
         ConnRight(k, P, U, lv, over)
  PROVE  ConnRight(k2, P, U2, lv, over2)
<1>1. ConnTyped(k2, P) BY DEF ConnRight, ConnTyped
<1>2. ConnOrdered(k2, P, U2, lv.made)
  <2>1. AllBefore(Els(k.ch) \cup P, U2) BY DEF ConnRight, ConnOrdered, AllBefore
  <2>2. ShownBefore(k.page.log, k.lines, Els(k.ch) \cup P \cup U2)
    BY DEF ConnRight, ConnOrdered, ShownBefore
  <2> QED BY <2>1, <2>2 DEF ConnRight, ConnOrdered
<1>3. Aligned(k2.page) BY DEF ConnRight
<1>4. ASSUME ~over2, k2.phase # "off", ~k2.lossy
      PROVE  Brought(k2, lv, Els(k2.ch) \cup P \cup U2)
  <2>1. Brought(k, lv, Els(k.ch) \cup P \cup U) BY <1>4 DEF ConnRight
  <2>2. Brought(k, lv, Els(k2.ch) \cup P \cup U2) BY <1>4, <2>1
  <2> QED BY <2>2 DEF Brought
<1> QED BY <1>1, <1>2, <1>3, <1>4 DEF ConnRight

\* The state has the log line of an event that is on its way.
LEMMA ConnLogged ==
  ASSUME NEW k, NEW P, NEW U, NEW lv, NEW lv2, NEW over, NEW x \in U,
         lv2.made = lv.made, lv2.open = lv.open, lv2.win = lv.win, lv2.strip = lv.strip,
         Els(lv2.log) \subseteq Els(lv.log) \cup {T86!Line(x)}, ConnRight(k, P, U, lv, over)
  PROVE  ConnRight(k, P, U, lv2, over)
<1>1. PICK S : S = Els(k.ch) \cup P \cup U OBVIOUS
<1>2. ASSUME Brought(k, lv, S) PROVE Brought(k, lv2, S)
  <2>1. \A shown, n : ToAir(lv2, S, shown, n) <=> ToAir(lv, S, shown, n) BY DEF ToAir, AirOf
  <2>2. \A w, shown, n : ToWindow(lv2, S, w, shown, n) <=> ToWindow(lv, S, w, shown, n)
    BY DEF ToWindow
  <2>3. \A w, f, n : ToStrip(lv2, S, w, f, n) <=> ToStrip(lv, S, w, f, n) BY DEF ToStrip
  <2>4. Leads(lv2, S) BY <1>2, <2>1, <2>2, <2>3 DEF Brought, Leads
  <2>5. \A l \in Els(lv2.log) : l \in Els(k.page.log) \/ \E y \in S : T86!Line(y) = l
    BY <1>1, <1>2 DEF Brought, Catches
  <2>6. Catches(lv2, k.page, S) BY <1>2, <2>1, <2>2, <2>3, <2>5 DEF Brought, Catches
  <2>7. Foreseen(lv, k.page, S) => Foreseen(lv2, k.page, S) BY <2>1, <2>2 DEF Foreseen
  <2> QED BY <1>2, <2>4, <2>6, <2>7 DEF Brought
<1> QED BY <1>1, <1>2 DEF ConnRight

\* publish passes by a client that is not registered and whose snapshot has the event.
LEMMA ConnKnown ==
  ASSUME NEW k, NEW U, NEW U2, NEW h \in Told, U = U2 \cup {h}, U2 \subseteq Told,
         AllBefore({h}, U2), NEW lv, NEW over, k.phase # "live",
         T86!Line(h) \in Els(k.page.log), ConnRight(k, {}, U, lv, over)
  PROVE  ConnRight(k, {}, U2, lv, over)
<1>1. ConnTyped(k, {}) BY DEF ConnRight
<1>2. Els(k.ch) = {}
  <2>1. k.ch = <<>> /\ k.ch \in Seq(Told) BY <1>1 DEF ConnTyped, ConnRec
  <2> QED BY <2>1, ElsIn
<1>3. ConnOrdered(k, {}, U2, lv.made)
  <2>1. ShownBefore(k.page.log, k.lines, Els(k.ch) \cup {} \cup U2)
    BY DEF ConnRight, ConnOrdered, ShownBefore
  <2>2. AllBefore(Els(k.ch) \cup {}, U2) BY <1>2 DEF AllBefore
  <2> QED BY <2>1, <2>2 DEF ConnRight, ConnOrdered
<1>4. ASSUME Brought(k, lv, U) PROVE Brought(k, lv, U2)
  <2>1. \A y \in U2 : Before(h, y) BY DEF AllBefore
  <2>2. Leads(lv, U2) BY <1>4, <2>1, LeadsWithout DEF Brought
  <2>3. PICK page : page = k.page OBVIOUS
  <2>4. page.strip \in [Windows -> Seq(0 .. StripMax)]
    BY <1>1, <2>3 DEF ConnTyped, ConnRec, T86!Page
  <2>5. Catches(lv, page, U) /\ Foreseen(lv, page, U) BY <1>4, <2>3 DEF Brought
  <2>6. Catches(lv, page, U2) BY <2>1, <2>3, <2>4, <2>5, CatchesKnown
  <2>7. Foreseen(lv, page, U2) BY <2>1, <2>5, ForeseenWithout
  <2> QED BY <2>2, <2>3, <2>6, <2>7 DEF Brought
<1>5. Els(k.ch) \cup {} \cup U = U /\ Els(k.ch) \cup {} \cup U2 = U2 BY <1>2
<1> QED BY <1>1, <1>3, <1>4, <1>5 DEF ConnRight

\* publish takes up an event for a client that is registered.
LEMMA ConnTaken ==
  ASSUME NEW k, NEW U, NEW U2, NEW h \in Told, U = U2 \cup {h}, U2 \subseteq Told,
         AllBefore({h}, U2), NEW lv, Made(U, lv.made), NEW over, k.phase = "live",
         ConnRight(k, {}, U, lv, over)
  PROVE  ConnRight(k, {h}, U2, lv, over)
<1>1. ConnTyped(k, {h}) BY DEF ConnRight, ConnTyped
<1>2. ConnOrdered(k, {h}, U2, lv.made)
  <2>1. AllBefore(Els(k.ch), {h}) BY DEF ConnRight, ConnOrdered, AllBefore
  <2>2. AllBefore(Els(k.ch) \cup {h}, U2) BY DEF ConnRight, ConnOrdered, AllBefore
  <2>3. Made(Els(k.ch) \cup {h}, lv.made) BY DEF ConnRight, ConnOrdered, Made
  <2>4. Els(k.ch) \cup {h} \cup U2 = Els(k.ch) \cup {} \cup U OBVIOUS
  <2> QED BY <2>1, <2>2, <2>3, <2>4 DEF ConnRight, ConnOrdered
<1>3. Els(k.ch) \cup {h} \cup U2 = Els(k.ch) \cup {} \cup U OBVIOUS
<1> QED BY <1>1, <1>2, <1>3 DEF ConnRight

\* The event is put behind what waits for the client, or behind what is left of it.
LEMMA ConnQueued ==
  ASSUME NEW k, NEW k2 \in ConnRec, NEW U, NEW lv, NEW over, NEW ev \in Told,
         NEW rest \in Seq(Told), k2.ch = Append(rest, ev), Len(rest) < HubCap,
         InOrder(rest), Els(rest) \subseteq Els(k.ch), rest = k.ch \/ k2.lossy,
         k2.page = k.page, k2.lines = k.lines, k2.phase = k.phase, ~k2.lossy => ~k.lossy,
         ConnRight(k, {ev}, U, lv, over)
  PROVE  ConnRight(k2, {}, U, lv, over)
<1>0. k.phase = "live" BY DEF ConnRight, ConnTyped
<1>1. PICK ch : ch = k2.ch OBVIOUS
<1>2. /\ Len(rest) \in Nat /\ Len(ch) = Len(rest) + 1
  BY <1>1, AppendFacts
<1>7. With(rest, ev, ch) BY <1>1 DEF With
<1>3. \A y : y \in Els(ch) <=> y \in Els(rest) \/ y = ev BY <1>7, ElsAppend
<1>4. ConnTyped(k2, {})
  <2>1. Len(k2.ch) <= HubCap BY <1>1, <1>2, FeedBounds
  <2> QED BY <1>0, <2>1 DEF ConnRight, ConnTyped
<1>5. ConnOrdered(k2, {}, U, lv.made)
  <2>1. AllBefore(Els(rest), {ev}) BY DEF ConnRight, ConnOrdered, AllBefore
  <2>2. InOrder(ch) BY <1>7, <2>1, InOrderAppend
  <2>3. Els(ch) \cup {} \subseteq Els(k.ch) \cup {ev} BY <1>3
  <2>4. AllBefore(Els(ch), {}) BY DEF AllBefore
  <2>5. AllBefore(Els(ch) \cup {}, U) /\ Made(Els(ch) \cup {}, lv.made)
    BY <2>3 DEF ConnRight, ConnOrdered, AllBefore, Made
  <2>6. ShownBefore(k.page.log, k.lines, Els(ch) \cup {} \cup U)
    BY <2>3 DEF ConnRight, ConnOrdered, ShownBefore
  <2> QED BY <1>1, <2>2, <2>4, <2>5, <2>6 DEF ConnRight, ConnOrdered
<1>6. ASSUME ~over, ~k2.lossy PROVE Brought(k2, lv, Els(ch) \cup {} \cup U)
  <2>1. Brought(k, lv, Els(k.ch) \cup {ev} \cup U) BY <1>0, <1>6 DEF ConnRight
  <2>2. Els(ch) \cup {} \cup U = Els(k.ch) \cup {ev} \cup U BY <1>3, <1>6
  <2>3. Brought(k, lv, Els(ch) \cup {} \cup U) BY <2>1, <2>2
  <2> QED BY <2>3 DEF Brought
<1> QED BY <1>1, <1>4, <1>5, <1>6 DEF ConnRight

\* A connection that is not there: a page that has not come or has gone.
LEMMA ConnClosed ==
  ASSUME NEW k \in ConnRec, NEW U, NEW lv, lv.made \in Nat, NEW over, k.phase = "off",
         k.ch = <<>>, k.page = T86!BlankPage, k.lines = 0
  PROVE  ConnRight(k, {}, U, lv, over)
<1>1. PICK q : q = k.ch OBVIOUS
<1>2. q \in Seq(Told) /\ Len(q) = 0 BY <1>1
<1>3. Els(q) = {} /\ 1 .. Len(q) = {} BY <1>2 DEF Els
<1>4. PICK log : log = k.page.log OBVIOUS
<1>5. log = <<>> BY <1>4 DEF T86!BlankPage
<1>6. Len(log) = 0 /\ Els(log) = {} BY <1>5 DEF Els
<1>7. \A w \in Windows : Len(k.page.strip[w]) = 0 BY DEF T86!BlankPage
<1>8. Aligned(k.page) BY <1>7 DEF Aligned
<1>9. ConnTyped(k, {}) BY <1>1, <1>2, <1>4, <1>6, FeedBounds DEF ConnTyped
<1>10. ConnOrdered(k, {}, U, lv.made)
  <2>1. InOrder(q) BY <1>3 DEF InOrder
  <2>2. AllBefore(Els(q), {}) /\ AllBefore(Els(q) \cup {}, U) /\ Made(Els(q) \cup {}, lv.made)
    BY <1>3 DEF AllBefore, Made
  <2>3. k.lines + 1 .. Len(log) = {} BY <1>6
  <2>4. LinesMade(log, lv.made) BY <1>6 DEF LinesMade
  <2>5. Sorted(log, k.lines) /\ ShownBefore(log, k.lines, Els(q) \cup {} \cup U)
    BY <2>3 DEF Sorted, ShownBefore
  <2> QED BY <1>1, <1>4, <2>1, <2>2, <2>4, <2>5 DEF ConnOrdered
<1> QED BY <1>8, <1>9, <1>10 DEF ConnRight

\* The snapshot for a page that comes.
LEMMA ConnAccepted ==
  ASSUME NEW k \in ConnRec, NEW U, U \subseteq Told, NEW lv \in LiveRec, NEW over,
         k.phase = "snapped", k.ch = <<>>, k.page.log = lv.log, k.page.win = lv.win,
         k.lines = Len(lv.log), k.page.active = (lv.open # 0),
         \A w \in Windows : k.page.strip[w] = T86!StripOf(lv.strip[w]),
         LinesMade(lv.log, lv.made), ~over => Leads(lv, U)
  PROVE  ConnRight(k, {}, U, lv, over)
<1>1. PICK q : q = k.ch OBVIOUS
<1>2. q \in Seq(Told) /\ Len(q) = 0 BY <1>1
<1>3. Els(q) = {} /\ 1 .. Len(q) = {} BY <1>2 DEF Els
<1>4. PICK log : log = k.page.log OBVIOUS
<1>5. log = lv.log /\ log \in Seq(T86!Emitters \X Nat) BY <1>4 DEF LiveRec
<1>6. Len(log) \in Nat BY <1>5, ElementsOf
<1>7. ASSUME NEW w \in Windows
      PROVE  /\ Len(k.page.strip[w]) = lv.strip[w] /\ lv.strip[w] \in Nat
             /\ \A i \in 1 .. Len(k.page.strip[w]) : k.page.strip[w][i] = i
  <2>1. PICK n : n = lv.strip[w] OBVIOUS
  <2>2. n \in 0 .. StripMax BY <2>1 DEF LiveRec
  <2>3. n \in Nat BY <2>2, FeedBounds
  <2>4. PICK s : s = k.page.strip[w] OBVIOUS
  <2>5. s = [i \in 1 .. n |-> i] BY <2>1, <2>4 DEF T86!StripOf
  <2>6. Len(s) = n /\ \A i \in 1 .. n : s[i] = i BY <2>3, <2>5
  <2> QED BY <2>1, <2>3, <2>4, <2>6
<1>8. Aligned(k.page) BY <1>7 DEF Aligned
<1>9. ConnTyped(k, {}) BY <1>1, <1>2, <1>4, <1>5, <1>6, FeedBounds DEF ConnTyped
<1>10. ConnOrdered(k, {}, U, lv.made)
  <2>1. InOrder(q) BY <1>3 DEF InOrder
  <2>2. AllBefore(Els(q), {}) /\ AllBefore(Els(q) \cup {}, U) /\ Made(Els(q) \cup {}, lv.made)
    BY <1>3 DEF AllBefore, Made
  <2>3. k.lines + 1 .. Len(log) = {} BY <1>5, <1>6
  <2>4. LinesMade(log, lv.made) BY <1>5
  <2>5. Sorted(log, k.lines) /\ ShownBefore(log, k.lines, Els(q) \cup {} \cup U)
    BY <2>3 DEF Sorted, ShownBefore
  <2> QED BY <1>1, <1>4, <2>1, <2>2, <2>4, <2>5 DEF ConnOrdered
<1>11. ASSUME ~over PROVE Brought(k, lv, Els(k.ch) \cup {} \cup U)
  <2>1. Els(k.ch) \cup {} \cup U = U BY <1>1, <1>3
  <2>2. PICK page : page = k.page OBVIOUS
  <2>3. /\ page.win = lv.win /\ page.log = lv.log /\ AirShown(page) = AirOf(lv)
        /\ \A w \in Windows : /\ Len(page.strip[w]) = lv.strip[w] /\ lv.strip[w] \in Nat
                              /\ \A i \in 1 .. Len(page.strip[w]) : page.strip[w][i] = i
    BY <1>7, <2>2 DEF AirShown, AirOf
  <2>4. Leads(lv, U) BY <1>11
  <2>5. Catches(lv, page, U) /\ Foreseen(lv, page, U) BY <2>3, <2>4, SnapshotBrought
  <2>6. Brought(k, lv, U) BY <2>2, <2>4, <2>5 DEF Brought
  <2> QED BY <2>1, <2>6
<1> QED BY <1>8, <1>9, <1>10, <1>11 DEF ConnRight

\* The page has the first of its events.
LEMMA ConnShown ==
  ASSUME NEW k, NEW k2 \in ConnRec, NEW P, NEW U, U \subseteq Told, NEW lv \in LiveRec,
         NEW over, NEW x, k.ch # <<>>, x = Head(k.ch), k2.ch = Tail(k.ch),
         Takes(k.page, x, k2.page), k2.lines = k.lines, k2.phase = k.phase,
         k2.lossy = k.lossy, ConnRight(k, P, U, lv, over)
  PROVE  ConnRight(k2, P, U, lv, over)
<1>0. /\ k \in ConnRec /\ P \subseteq Told /\ k.phase = "live" /\ Len(k.ch) <= HubCap
      /\ k.lines <= Len(k.page.log) /\ Aligned(k.page)
  BY DEF ConnRight, ConnTyped
<1>1. PICK q, p, page, page2, log, log2, n :
         /\ q = k.ch /\ p = k2.ch /\ page = k.page /\ page2 = k2.page
         /\ log = k.page.log /\ log2 = k2.page.log /\ n = k.lines
  OBVIOUS
<1>2. /\ q \in Seq(Told) /\ page \in T86!Page /\ log \in Seq(LogLines) /\ n \in Nat
      /\ Without(q, x, p) /\ Takes(page, x, page2) /\ Aligned(page)
  BY <1>0, <1>1 DEF ConnRec, T86!Page, LogLines, Without
<1>3. /\ x \in Told /\ p \in Seq(Told) /\ \A y : y \in Els(q) <=> y \in Els(p) \/ y = x
  BY <1>2, ElsTail
<1>4. Len(p) <= HubCap
  <2>1. Len(q) \in Nat /\ Len(p) = Len(q) - 1 BY <1>2, TailFacts DEF Without
  <2> QED BY <1>0, <1>1, <2>1, FeedBounds
<1>5. Shows(page, x, page2) BY <1>2, <1>3, Applied
<1>6. /\ page2 \in T86!Page /\ Aligned(page2) /\ log2 = Append(log, T86!Line(x))
  BY <1>1, <1>5 DEF Shows
<1>7. T86!Line(x) \in LogLines /\ T86!Line(x)[1] = x.by /\ T86!Line(x)[2] = x.n
  BY <1>3, ToldFacts DEF T86!Line, T86!Emitters, LogLines
<1>8. PICK line : line = T86!Line(x) OBVIOUS
<1>9. line \in LogLines /\ line[1] = x.by /\ line[2] = x.n /\ log2 = Append(log, line)
  BY <1>6, <1>7, <1>8
<1>10. /\ Len(log) \in Nat /\ Len(log2) = Len(log) + 1 /\ log2[Len(log) + 1] = line
       /\ \A i \in 1 .. Len(log) : log2[i] = log[i]
  BY <1>2, <1>9, AppendFacts
<1>11. \A l : l \in Els(log2) <=> l \in Els(log) \/ l = line
  <2>1. With(log, line, log2) BY <1>9 DEF With
  <2> QED BY <1>2, <1>9, <2>1, ElsAppend
<1>12. InOrder(p) /\ AllBefore({x}, Els(p))
  <2>1. InOrder(q) BY <1>1 DEF ConnRight, ConnOrdered
  <2> QED BY <1>2, <2>1, InOrderTail
<1>15. PICK E, V, S, T :
          E = Els(q) /\ V = E \cup P /\ S = V \cup U /\ T = Els(p) \cup P \cup U
  OBVIOUS
<1>13. /\ AllBefore(E, P) /\ AllBefore(V, U) /\ Made(V, lv.made)
       /\ LinesMade(log, lv.made) /\ Sorted(log, n) /\ ShownBefore(log, n, S)
  <2>1. ConnOrdered(k, P, U, lv.made) BY DEF ConnRight
  <2>2. E = Els(k.ch) /\ V = Els(k.ch) \cup P /\ S = Els(k.ch) \cup P \cup U BY <1>1, <1>15
  <2>3. AllBefore(E, P) BY <2>1, <2>2 DEF ConnOrdered
  <2>4. AllBefore(V, U) BY <2>1, <2>2 DEF ConnOrdered
  <2>5. Made(V, lv.made) BY <2>1, <2>2 DEF ConnOrdered
  <2>6. LinesMade(log, lv.made) /\ Sorted(log, n) BY <1>1, <2>1 DEF ConnOrdered
  <2>7. ShownBefore(log, n, S) BY <1>1, <2>1, <2>2 DEF ConnOrdered
  <2> QED BY <2>3, <2>4, <2>5, <2>6, <2>7
<1>14. ConnTyped(k2, P)
  <2>1. k2.lines <= Len(k2.page.log) BY <1>0, <1>1, <1>2, <1>10
  <2> QED BY <1>0, <1>1, <1>4, <2>1 DEF ConnTyped
<1>16. Els(p) \subseteq Told BY <1>3, ElsIn
<1>17. S = T \cup {x} /\ T \subseteq Told BY <1>0, <1>3, <1>15, <1>16
<1>18. \A y \in T : Before(x, y) BY <1>3, <1>12, <1>13, <1>15 DEF AllBefore
<1>19. ConnOrdered(k2, P, U, lv.made)
  <2>1. AllBefore(Els(p), P) /\ AllBefore(Els(p) \cup P, U) /\ Made(Els(p) \cup P, lv.made)
    BY <1>3, <1>13, <1>15 DEF AllBefore, Made
  <2>2. LinesMade(log2, lv.made)
    <3>1. x.n <= lv.made BY <1>3, <1>13, <1>15 DEF Made
    <3> QED BY <1>9, <1>11, <1>13, <3>1 DEF LinesMade
  <2>3. ASSUME NEW i \in n + 1 .. Len(log2), i # Len(log) + 1
        PROVE  i \in n + 1 .. Len(log) /\ i \in 1 .. Len(log) /\ log2[i] = log[i]
    <3>1. i \in n + 1 .. Len(log) /\ i \in 1 .. Len(log) BY <1>2, <1>10, <2>3
    <3> QED BY <1>10, <3>1
  <2>4. Sorted(log2, n)
    <3> SUFFICES ASSUME NEW i \in n + 1 .. Len(log2), NEW j \in n + 1 .. Len(log2), i < j,
                        log2[i][1] = log2[j][1]
                 PROVE  log2[i][2] < log2[j][2]
      BY DEF Sorted
    <3>1. i # Len(log) + 1 BY <1>2, <1>10
    <3>2. CASE j = Len(log) + 1
      <4>1. log[i][1] = x.by => log[i][2] < x.n
        BY <1>3, <1>13, <1>15, <2>3, <3>1 DEF ShownBefore
      <4> QED BY <1>9, <1>10, <2>3, <3>1, <3>2, <4>1
    <3>3. CASE j # Len(log) + 1 BY <1>13, <2>3, <3>1, <3>3 DEF Sorted
    <3> QED BY <3>2, <3>3
  <2>5. ShownBefore(log2, n, T)
    <3> SUFFICES ASSUME NEW i \in n + 1 .. Len(log2), NEW y \in T, log2[i][1] = y.by
                 PROVE  log2[i][2] < y.n
      BY DEF ShownBefore
    <3>1. CASE i = Len(log) + 1 BY <1>9, <1>10, <1>18, <3>1 DEF Before
    <3>2. CASE i # Len(log) + 1 BY <1>13, <1>15, <1>17, <2>3, <3>2 DEF ShownBefore
    <3> QED BY <3>1, <3>2
  <2> QED BY <1>1, <1>12, <1>15, <2>1, <2>2, <2>4, <2>5 DEF ConnOrdered
<1>20. ASSUME Brought(k, lv, S) PROVE Brought(k2, lv, T)
  <2>1. Leads(lv, S) /\ Catches(lv, page, S) BY <1>1, <1>20 DEF Brought
  <2>2. Leads(lv, T) BY <1>3, <1>17, <1>18, <2>1, LeadsWithout
  <2>3. Catches(lv, page2, T) BY <1>2, <1>3, <1>17, <1>18, <2>1, CatchesApplied
  <2> QED BY <1>0, <1>1, <2>2, <2>3 DEF Brought
<1> QED BY <1>1, <1>6, <1>14, <1>15, <1>19, <1>20 DEF ConnRight

-----------------------------------------------------------------------------
(* The steps of std-t86.                                                     *)

\* The state changes, and a goroutine is to tell of it.
LEMMA ChangeTold ==
  ASSUME T86Inv, NEW d \in T86!Emitters, ~Busy(d), NEW x \in T86!Event, x.by = d,
         emitting' = [emitting EXCEPT ![d] = x], NEW e, e = Logged(x),
         Changes(live, live', e), UNCHANGED <<eventCh, overflowed, pub, conns>>
  PROVE  T86Inv'
<1>0. FeedTyped /\ UpRight /\ ConnsRight BY DEF T86Inv
<1>1. PICK lv, lv2 : lv = live /\ lv2 = live' OBVIOUS
<1>2. Changes(lv, lv2, e) BY <1>1
<1>3. /\ e \in Told /\ lv.made \in Nat /\ e.n = lv.made + 1 /\ lv2.made = lv.made + 1
      /\ lv2.log = lv.log /\ lv2 \in LiveRec
  <2>1. lv2.made = lv.made + 1 /\ lv2 \in LiveRec BY <1>2 DEF Changes
  <2> QED BY <1>2, <2>1, ChangeFacts
<1>4. x.n = e.n /\ x.by = e.by BY DEF Logged, T86!Event
<1>5. x # T86!NoEvent
  <2>1. T86!NoEvent.n = 0 BY DEF T86!NoEvent
  <2> QED BY <1>3, <1>4, <2>1
<1>6. /\ emitting'[d] = x /\ \A f \in T86!Emitters : f # d => emitting'[f] = emitting[f]
      /\ emitting' = [f \in T86!Emitters |-> emitting'[f]]
  BY <1>0 DEF FeedTyped
<1>7. FeedTyped'
  <2>1. \A f \in T86!Emitters : emitting'[f] # T86!NoEvent =>
            emitting'[f] \in T86!Event /\ Logged(emitting'[f]) \in Told /\ emitting'[f].by = f
    <3> TAKE f \in T86!Emitters
    <3>1. CASE f = d BY <1>3, <1>6, <3>1
    <3>2. CASE f # d BY <1>0, <1>6, <3>2 DEF FeedTyped, Busy
    <3> QED BY <3>1, <3>2
  <2>2. live' \in LiveRec /\ Len(live'.log) <= LogCap BY <1>0, <1>1, <1>3 DEF FeedTyped
  <2> QED BY <1>0, <1>6, <2>1, <2>2 DEF FeedTyped, Busy
<1>8. PICK U, U2 : U = Upstream /\ U2 = Upstream' OBVIOUS
<1>9. U2 = U \cup {e}
  <2>1. \A y : y \in U <=> \/ y \in Els(eventCh)
                           \/ \E f \in T86!Emitters : Busy(f) /\ y = Logged(emitting[f])
    BY <1>8 DEF Upstream
  <2>2. \A y : y \in U2 <=> \/ y \in Els(eventCh)
                            \/ \E f \in T86!Emitters : /\ emitting'[f] # T86!NoEvent
                                                       /\ y = Logged(emitting'[f])
    BY <1>8 DEF Upstream, Busy
  <2>3. \A y : y \in U2 <=> y \in U \/ y = e BY <1>5, <1>6, <2>1, <2>2 DEF Busy
  <2> QED BY <2>3
<1>10. U \subseteq Told /\ Made(U, lv.made)
  <2>1. eventCh \in Seq(Told) BY <1>0 DEF FeedTyped
  <2>2. Els(eventCh) \subseteq Told BY <2>1, ElsIn
  <2>3. U \subseteq Told BY <1>0, <1>8, <2>2 DEF Upstream, FeedTyped
  <2> QED BY <1>0, <1>1, <1>8, <2>3 DEF UpRight
<1>11. \A y \in U : y.n \in Nat /\ y.n <= lv.made BY <1>10, ToldFacts DEF Made
<1>12. UpRight'
  <2>1. ASSUME NEW f \in T86!Emitters, emitting'[f] # T86!NoEvent
        PROVE  AllBefore(Els(eventCh), {emitting'[f]})
    <3>1. CASE f = d
      <4>1. \A y \in Els(eventCh) : y.n < x.n BY <1>3, <1>4, <1>8, <1>11 DEF Upstream
      <4> QED BY <1>6, <3>1, <4>1 DEF AllBefore, Before
    <3>2. CASE f # d BY <1>0, <1>6, <2>1, <3>2 DEF UpRight, Busy
    <3> QED BY <3>1, <3>2
  <2>2. Made(U2, lv2.made) BY <1>3, <1>9, <1>11 DEF Made
  <2>3. LinesMade(lv2.log, lv2.made)
    <3>1. \A l \in Els(lv.log) : l[2] \in Nat /\ l[2] <= lv.made
      <4>1. PICK log : log = lv.log OBVIOUS
      <4>2. log \in Seq(LogLines) BY <1>0, <1>1, <4>1 DEF FeedTyped, LiveRec, LogLines
      <4>3. Els(log) \subseteq LogLines BY <4>2, ElsIn
      <4>4. \A l \in Els(lv.log) : l[2] \in Nat BY <4>1, <4>3 DEF LogLines
      <4> QED BY <1>0, <1>1, <4>4 DEF UpRight, LinesMade
    <3> QED BY <1>3, <3>1 DEF LinesMade
  <2>4. ~overflowed => Leads(lv2, U2)
    <3>1. ~overflowed => Leads(lv, U) BY <1>0, <1>1, <1>8 DEF UpRight
    <3> QED BY <1>2, <1>9, <1>10, <3>1, LeadsGrown
  <2>5. InOrder(eventCh) BY <1>0 DEF UpRight
  <2> QED BY <1>1, <1>8, <2>1, <2>2, <2>3, <2>4, <2>5 DEF UpRight, Busy
<1>13. ASSUME NEW c \in Conns PROVE ConnRight(conns[c], Publishing(c), U2, lv2, overflowed)
  <2>1. ConnRight(conns[c], Publishing(c), U, lv, overflowed) BY <1>0, <1>1, <1>8 DEF ConnsRight
  <2> QED BY <1>2, <1>9, <1>10, <2>1, ConnChange
<1>14. ConnsRight'
  <2> SUFFICES ASSUME NEW c \in Conns PROVE ConnRight(conns[c], Publishing(c), U2, lv2, overflowed)'
    BY <1>1, <1>8 DEF ConnsRight
  <2>1. Publishing(c)' = Publishing(c) BY DEF Publishing
  <2> QED BY <1>13, <2>1
<1> QED BY <1>7, <1>12, <1>14 DEF T86Inv

\* A goroutine is to emit what it changed.
LEMMA Emits ==
  ASSUME live.made \in Nat, NEW d \in T86!Emitters, NEW what \in {"start", "end", "audio"},
         NEW w \in Windows, NEW f \in 0 .. StripMax, NEW m \in 0 .. StripMax,
         what = "audio" <=> d = "worker", what = "audio" => m = 1 /\ f < StripMax,
         T86!Emitting(d, what, w, f, m)
  PROVE  \E x \in T86!Event, e \in Told :
            /\ x.by = d /\ emitting' = [emitting EXCEPT ![d] = x] /\ e = Logged(x)
            /\ e.n = live.made + 1 /\ e.kind = what /\ e.id = w /\ e.from = f
<1>1. PICK x : x = [n |-> live.made + 1, by |-> d, kind |-> what, id |-> w, from |-> f,
                    len |-> m, logged |-> FALSE]
  OBVIOUS
<1>2. x \in T86!Event /\ x.by = d BY <1>1 DEF T86!Event
<1>3. emitting' = [emitting EXCEPT ![d] = x] BY <1>1 DEF T86!Emitting
<1>4. PICK e : e = Logged(x) OBVIOUS
<1>5. e = [n |-> live.made + 1, by |-> d, kind |-> what, id |-> w, from |-> f,
           len |-> m, logged |-> TRUE]
  BY <1>1, <1>4 DEF Logged
<1>6. e \in Told BY <1>5 DEF Told, T86!Event
<1>7. e.n = live.made + 1 /\ e.kind = what /\ e.id = w /\ e.from = f BY <1>5
<1> QED BY <1>2, <1>3, <1>4, <1>6, <1>7

\* broadcastStarted changes the state; the loop is to emit its event.
LEMMA StartTold == ASSUME T86Inv, T86!BroadcastStarted PROVE T86Inv'
<1>1. PICK id \in Windows :
         /\ T86!Quiet("loop") /\ T86!Emitting("loop", "start", id, 0, 0)
         /\ live' = [live EXCEPT !.made = @ + 1, !.open = id, !.win[id] = "open"]
         /\ UNCHANGED <<eventCh, overflowed, pub, conns>>
  BY DEF T86!BroadcastStarted
<1>2. live \in LiveRec BY DEF T86Inv, FeedTyped
<1>3. PICK win : win = [live.win EXCEPT ![id] = "open"] OBVIOUS
<1>4. /\ live' = [made |-> live.made + 1, open |-> id, win |-> win, strip |-> live.strip,
                  log |-> live.log]
      /\ live.made \in Nat
  BY <1>1, <1>2, <1>3 DEF LiveRec
<1>5. win \in [Windows -> {"none", "open", "closed"}] BY <1>2, <1>3 DEF LiveRec
<1>6. live' \in LiveRec BY <1>2, <1>4, <1>5 DEF LiveRec
<1>7. "loop" \in T86!Emitters /\ 0 \in 0 .. StripMax BY FeedBounds DEF T86!Emitters
<1>8. PICK x \in T86!Event, e \in Told :
         /\ x.by = "loop" /\ emitting' = [emitting EXCEPT !["loop"] = x] /\ e = Logged(x)
         /\ e.n = live.made + 1 /\ e.kind = "start" /\ e.id = id /\ e.from = 0
  BY <1>1, <1>4, <1>7, Emits
<1>9. Changes(live, live', e) BY <1>2, <1>3, <1>4, <1>6, <1>8 DEF Changes
<1>10. ~Busy("loop") BY <1>1 DEF Busy, T86!Quiet
<1> QED BY <1>1, <1>7, <1>8, <1>9, <1>10, ChangeTold

\* broadcastEnded changes the state; the loop is to emit its event.
LEMMA EndTold == ASSUME T86Inv, T86!FinishWindow PROVE T86Inv'
<1>0. live \in LiveRec BY DEF T86Inv, FeedTyped
<1>1. PICK id : id = live.open OBVIOUS
<1>2. /\ id \in Windows /\ T86!Quiet("loop") /\ T86!Emitting("loop", "end", id, 0, 0)
      /\ live' = [live EXCEPT !.made = @ + 1, !.open = 0, !.win[id] = "closed"]
      /\ UNCHANGED <<eventCh, overflowed, pub, conns>>
  BY <1>0, <1>1 DEF T86!FinishWindow, LiveRec
<1>3. PICK win : win = [live.win EXCEPT ![id] = "closed"] OBVIOUS
<1>4. /\ live' = [made |-> live.made + 1, open |-> 0, win |-> win, strip |-> live.strip,
                  log |-> live.log]
      /\ live.made \in Nat
  BY <1>0, <1>2, <1>3 DEF LiveRec
<1>5. win \in [Windows -> {"none", "open", "closed"}] BY <1>0, <1>3 DEF LiveRec
<1>6. live' \in LiveRec BY <1>0, <1>4, <1>5 DEF LiveRec
<1>7. "loop" \in T86!Emitters /\ 0 \in 0 .. StripMax BY FeedBounds DEF T86!Emitters
<1>8. PICK x \in T86!Event, e \in Told :
         /\ x.by = "loop" /\ emitting' = [emitting EXCEPT !["loop"] = x] /\ e = Logged(x)
         /\ e.n = live.made + 1 /\ e.kind = "end" /\ e.id = id /\ e.from = 0
  BY <1>2, <1>4, <1>7, Emits
<1>9. Changes(live, live', e) BY <1>0, <1>3, <1>4, <1>6, <1>8 DEF Changes
<1>10. ~Busy("loop") BY <1>2 DEF Busy, T86!Quiet
<1> QED BY <1>2, <1>7, <1>8, <1>9, <1>10, ChangeTold

\* setAudioStatus changes the state; the worker is to emit its event.
LEMMA AudioTold == ASSUME T86Inv, T86!AudioStatus PROVE T86Inv'
<1>0. live \in LiveRec BY DEF T86Inv, FeedTyped
<1>1. PICK id \in Windows :
         /\ T86!Quiet("worker") /\ live.strip[id] < StripMax
         /\ T86!Emitting("worker", "audio", id, live.strip[id], 1)
         /\ live' = [live EXCEPT !.made = @ + 1, !.strip[id] = @ + 1]
         /\ UNCHANGED <<eventCh, overflowed, pub, conns>>
  BY DEF T86!AudioStatus
<1>2. PICK n : n = live.strip[id] OBVIOUS
<1>3. n \in 0 .. StripMax /\ n < StripMax /\ n \in Nat /\ n + 1 \in 0 .. StripMax
  <2>1. n \in 0 .. StripMax /\ n < StripMax BY <1>0, <1>1, <1>2 DEF LiveRec
  <2> QED BY <2>1, FeedBounds
<1>4. PICK strip : strip = [live.strip EXCEPT ![id] = n + 1] OBVIOUS
<1>5. /\ live' = [made |-> live.made + 1, open |-> live.open, win |-> live.win,
                  strip |-> strip, log |-> live.log]
      /\ live.made \in Nat
  BY <1>0, <1>1, <1>2, <1>4 DEF LiveRec
<1>6. strip \in [Windows -> 0 .. StripMax] BY <1>0, <1>3, <1>4 DEF LiveRec
<1>7. live' \in LiveRec BY <1>0, <1>5, <1>6 DEF LiveRec
<1>8. "worker" \in T86!Emitters /\ 1 \in 0 .. StripMax
  BY <1>3, FeedBounds DEF T86!Emitters
<1>9. T86!Emitting("worker", "audio", id, n, 1) BY <1>1, <1>2
<1>10. PICK x \in T86!Event, e \in Told :
         /\ x.by = "worker" /\ emitting' = [emitting EXCEPT !["worker"] = x] /\ e = Logged(x)
         /\ e.n = live.made + 1 /\ e.kind = "audio" /\ e.id = id /\ e.from = n
  BY <1>3, <1>5, <1>8, <1>9, Emits
<1>11. Changes(live, live', e) BY <1>0, <1>2, <1>4, <1>5, <1>7, <1>10 DEF Changes
<1>12. ~Busy("worker") BY <1>1 DEF Busy, T86!Quiet
<1> QED BY <1>1, <1>8, <1>10, <1>11, <1>12, ChangeTold

\* What logLinesCap leaves of the log.
LEMMA LastOfFacts ==
  ASSUME NEW S, NEW q \in Seq(S), NEW k \in Nat, NEW p, p = T86!LastOf(q, k)
  PROVE  p \in Seq(S) /\ Len(p) <= k /\ \A y \in Els(p) : y \in Els(q)
<1>0. Len(q) \in Nat /\ \A j \in 1 .. Len(q) : q[j] \in S BY ElementsOf
<1>1. CASE Len(q) > k
  <2>1. p = SubSeq(q, Len(q) - k + 1, Len(q)) BY <1>1 DEF T86!LastOf
  <2>2. p = [i \in 1 .. k |-> q[i + (Len(q) - k)]]
    <3>1. PICK m : m = Len(q) - k + 1 OBVIOUS
    <3>2. m \in Nat \ {0} /\ Len(q) - m + 1 = k BY <1>0, <1>1, <3>1
    <3>3. p = [i \in 1 .. Len(q) - m + 1 |-> q[i + m - 1]] BY <1>0, <2>1, <3>1, <3>2
    <3>4. p = [i \in 1 .. k |-> q[i + m - 1]] BY <3>2, <3>3
    <3>5. \A i \in 1 .. k : i + m - 1 = i + (Len(q) - k) BY <1>0, <3>1, <3>2
    <3> QED BY <3>4, <3>5
  <2>3. \A i \in 1 .. k : i + (Len(q) - k) \in 1 .. Len(q) BY <1>0, <1>1
  <2>4. p \in [1 .. k -> S] BY <1>0, <2>2, <2>3
  <2>5. p \in Seq(S) /\ Len(p) = k BY <2>4, SeqBy
  <2>6. \A i \in 1 .. Len(p) : p[i] \in Els(q) BY <2>2, <2>3, <2>5 DEF Els
  <2> QED BY <2>5, <2>6 DEF Els
<1>2. CASE ~(Len(q) > k)
  <2>1. p = q BY <1>2 DEF T86!LastOf
  <2> QED BY <1>0, <1>2, <2>1
<1> QED BY <1>1, <1>2

\* Leads is about what is on the air, windows and strips, and not about the log.
LEMMA LeadsSame ==
  ASSUME NEW S, NEW lv, NEW lv2, lv2.open = lv.open, lv2.win = lv.win, lv2.strip = lv.strip,
         Leads(lv, S)
  PROVE  Leads(lv2, S)
<1>1. \A shown, n : ToAir(lv2, S, shown, n) <=> ToAir(lv, S, shown, n) BY DEF ToAir, AirOf
<1>2. \A w, shown, n : ToWindow(lv2, S, w, shown, n) <=> ToWindow(lv, S, w, shown, n)
  BY DEF ToWindow
<1>3. \A w, f, n : ToStrip(lv2, S, w, f, n) <=> ToStrip(lv, S, w, f, n) BY DEF ToStrip
<1> QED BY <1>1, <1>2, <1>3 DEF Leads

\* The log line of an event that is going to be sent.
LEMMA LogTold == ASSUME T86Inv, T86!AddLog PROVE T86Inv'
<1>0. FeedTyped /\ UpRight /\ ConnsRight BY DEF T86Inv
<1>1. PICK d \in T86!Emitters :
         /\ ~T86!Quiet(d)
         /\ live' = [live EXCEPT !.log = T86!LastOf(Append(live.log, T86!Line(emitting[d])), LogCap)]
         /\ emitting' = [emitting EXCEPT ![d].logged = TRUE]
         /\ UNCHANGED <<eventCh, overflowed, pub, conns>>
  BY DEF T86!AddLog
<1>2. PICK x, y : x = emitting[d] /\ y = Logged(x) OBVIOUS
<1>3. Busy(d) /\ x \in T86!Event /\ y \in Told /\ x.by = d
  BY <1>0, <1>1, <1>2 DEF T86!Quiet, Busy, FeedTyped
<1>4. /\ y.by = x.by /\ y.n = x.n /\ y \in T86!Event /\ Logged(y) = y
      /\ T86!Line(y) = T86!Line(x)
  BY <1>2, <1>3 DEF Logged, T86!Event, T86!Line
<1>5. y # T86!NoEvent
  <2>1. T86!NoEvent.n = 0 BY DEF T86!NoEvent
  <2> QED BY <1>3, <2>1, ToldFacts
<1>6. /\ emitting'[d] = y /\ \A f \in T86!Emitters : f # d => emitting'[f] = emitting[f]
      /\ emitting' = [f \in T86!Emitters |-> emitting'[f]]
  <2>1. emitting = [f \in T86!Emitters |-> emitting[f]] BY <1>0 DEF FeedTyped
  <2> QED BY <1>1, <1>2, <2>1 DEF Logged
<1>7. PICK log, log2, line, more : log = live.log /\ log2 = live'.log /\ line = T86!Line(x)
                                   /\ more = Append(log, line)
  OBVIOUS
<1>8. live \in LiveRec /\ log \in Seq(LogLines) BY <1>0, <1>7 DEF FeedTyped, LiveRec, LogLines
<1>9. live' = [live EXCEPT !.log = log2] /\ log2 = T86!LastOf(more, LogCap)
  BY <1>1, <1>2, <1>7, <1>8 DEF LiveRec
<1>10. line \in LogLines BY <1>3, <1>7 DEF T86!Line, LogLines, T86!Event
<1>11. With(log, line, more) /\ more \in Seq(LogLines)
  <2>1. With(log, line, more) BY <1>7 DEF With
  <2> QED BY <1>7, <1>8, <1>10, <2>1, AppendFacts
<1>12. \A l : l \in Els(more) <=> l \in Els(log) \/ l = line BY <1>8, <1>10, <1>11, ElsAppend
<1>13. log2 \in Seq(LogLines) /\ Len(log2) <= LogCap /\ \A l \in Els(log2) : l \in Els(more)
  BY <1>9, <1>11, LastOfFacts, FeedBounds
<1>14. PICK lv, lv2 : lv = live /\ lv2 = live' OBVIOUS
<1>15. /\ lv2 \in LiveRec /\ lv2.made = lv.made /\ lv2.open = lv.open /\ lv2.win = lv.win
       /\ lv2.strip = lv.strip /\ lv2.log = log2 /\ lv.log = log
  BY <1>7, <1>8, <1>9, <1>13, <1>14 DEF LiveRec, LogLines
<1>16. Els(lv2.log) \subseteq Els(lv.log) \cup {T86!Line(y)} BY <1>4, <1>7, <1>12, <1>13, <1>15
<1>17. FeedTyped'
  <2>1. \A f \in T86!Emitters : emitting'[f] # T86!NoEvent =>
            emitting'[f] \in T86!Event /\ Logged(emitting'[f]) \in Told /\ emitting'[f].by = f
    <3> TAKE f \in T86!Emitters
    <3>1. CASE f = d BY <1>3, <1>4, <1>6, <3>1
    <3>2. CASE f # d BY <1>0, <1>6, <3>2 DEF FeedTyped, Busy
    <3> QED BY <3>1, <3>2
  <2>2. live' \in LiveRec /\ Len(live'.log) <= LogCap BY <1>7, <1>13, <1>14, <1>15
  <2> QED BY <1>0, <1>1, <1>6, <2>1, <2>2 DEF FeedTyped, Busy
<1>18. PICK U, U2 : U = Upstream /\ U2 = Upstream' OBVIOUS
<1>19. U2 = U /\ y \in U
  <2>1. \A z : z \in U <=> \/ z \in Els(eventCh)
                           \/ \E f \in T86!Emitters : Busy(f) /\ z = Logged(emitting[f])
    BY <1>18 DEF Upstream
  <2>2. \A z : z \in U2 <=> \/ z \in Els(eventCh)
                            \/ \E f \in T86!Emitters : /\ emitting'[f] # T86!NoEvent
                                                       /\ z = Logged(emitting'[f])
    BY <1>1, <1>18 DEF Upstream, Busy
  <2>3. \A f \in T86!Emitters : /\ emitting'[f] # T86!NoEvent <=> Busy(f)
                                /\ Busy(f) => Logged(emitting'[f]) = Logged(emitting[f])
    BY <1>2, <1>3, <1>4, <1>5, <1>6 DEF Busy
  <2>4. \A z : z \in U2 <=> z \in U BY <2>1, <2>2, <2>3
  <2> QED BY <1>2, <1>3, <2>1, <2>4
<1>20. UpRight'
  <2>1. ASSUME NEW f \in T86!Emitters, emitting'[f] # T86!NoEvent
        PROVE  AllBefore(Els(eventCh), {emitting'[f]})
    <3>1. CASE f = d
      <4>1. AllBefore(Els(eventCh), {x}) BY <1>0, <1>2, <1>3 DEF UpRight
      <4> QED BY <1>4, <1>6, <3>1, <4>1 DEF AllBefore, Before
    <3>2. CASE f # d BY <1>0, <1>6, <2>1, <3>2 DEF UpRight, Busy
    <3> QED BY <3>1, <3>2
  <2>2. Made(U2, lv2.made) BY <1>0, <1>14, <1>15, <1>18, <1>19 DEF UpRight
  <2>3. LinesMade(lv2.log, lv2.made)
    <3>1. T86!Line(y)[2] = y.n BY DEF T86!Line
    <3>2. y.n <= lv.made BY <1>0, <1>14, <1>18, <1>19 DEF UpRight, Made
    <3> QED BY <1>0, <1>14, <1>15, <1>16, <3>1, <3>2 DEF UpRight, LinesMade
  <2>4. ~overflowed => Leads(lv2, U2)
    <3>1. ~overflowed => Leads(lv, U) BY <1>0, <1>14, <1>18 DEF UpRight
    <3> QED BY <1>15, <1>19, <3>1, LeadsSame
  <2>5. InOrder(eventCh) BY <1>0 DEF UpRight
  <2> QED BY <1>1, <1>14, <1>18, <2>1, <2>2, <2>3, <2>4, <2>5 DEF UpRight, Busy
<1>21. ASSUME NEW c \in Conns PROVE ConnRight(conns[c], Publishing(c), U2, lv2, overflowed)
  <2>1. ConnRight(conns[c], Publishing(c), U, lv, overflowed)
    BY <1>0, <1>14, <1>18 DEF ConnsRight
  <2>2. ConnRight(conns[c], Publishing(c), U, lv2, overflowed)
    BY <1>15, <1>16, <1>19, <2>1, ConnLogged
  <2> QED BY <1>19, <2>2
<1>22. ConnsRight'
  <2> SUFFICES ASSUME NEW c \in Conns PROVE ConnRight(conns[c], Publishing(c), U2, lv2, overflowed)'
    BY <1>14, <1>18 DEF ConnsRight
  <2>1. Publishing(c)' = Publishing(c) BY <1>1 DEF Publishing
  <2> QED BY <1>1, <1>21, <2>1
<1> QED BY <1>17, <1>20, <1>22 DEF T86Inv

\* An event goes into the channel, or finds it full and is lost.
LEMMA SendTold == ASSUME T86Inv, T86!Send PROVE T86Inv'
<1>0. FeedTyped /\ UpRight /\ ConnsRight BY DEF T86Inv
<1>1. PICK d \in T86!Emitters :
         /\ ~T86!Quiet(d) /\ emitting[d].logged
         /\ IF Len(eventCh) < EventCap
            THEN eventCh' = T86!Queued(emitting[d]) /\ UNCHANGED overflowed
            ELSE overflowed' = TRUE /\ UNCHANGED eventCh
         /\ emitting' = [emitting EXCEPT ![d] = T86!NoEvent]
         /\ UNCHANGED <<live, pub, conns>>
  BY DEF T86!Send
<1>2. PICK x : x = emitting[d] OBVIOUS
<1>3. Busy(d) /\ x \in T86!Event /\ Logged(x) \in Told /\ x.by = d /\ x.logged
  BY <1>0, <1>1, <1>2 DEF T86!Quiet, Busy, FeedTyped
<1>4. Logged(x) = x
  <2>1. x = [n |-> x.n, by |-> x.by, kind |-> x.kind, id |-> x.id, from |-> x.from,
             len |-> x.len, logged |-> x.logged] /\ x.logged = TRUE
    BY <1>3 DEF T86!Event
  <2>2. Logged(x) = [n |-> x.n, by |-> x.by, kind |-> x.kind, id |-> x.id, from |-> x.from,
                     len |-> x.len, logged |-> TRUE]
    BY <1>3 DEF T86!Event, Logged
  <2> QED BY <2>1, <2>2
<1>5. x \in Told BY <1>3, <1>4
<1>6. /\ emitting'[d] = T86!NoEvent
      /\ \A f \in T86!Emitters : f # d => emitting'[f] = emitting[f]
      /\ emitting' = [f \in T86!Emitters |-> emitting'[f]]
  <2>1. emitting = [f \in T86!Emitters |-> emitting[f]] BY <1>0 DEF FeedTyped
  <2> QED BY <1>1, <2>1
<1>7. PICK q, p : q = eventCh /\ p = eventCh' OBVIOUS
<1>8. q \in Seq(Told) /\ Len(q) <= EventCap /\ overflowed \in BOOLEAN
  BY <1>0, <1>7 DEF FeedTyped
<1>9. \/ Len(q) < EventCap /\ With(q, x, p) /\ overflowed' = overflowed
      \/ p = q /\ overflowed'
  BY <1>1, <1>2, <1>7 DEF T86!Queued, With
<1>10. /\ p \in Seq(Told) /\ Len(p) <= EventCap
       /\ \A y \in Els(p) : y \in Els(q) \/ y = x
       /\ \A y \in Els(q) : y \in Els(p)
       /\ ~overflowed' => x \in Els(p) /\ overflowed' = overflowed
  <2>1. CASE Len(q) < EventCap /\ With(q, x, p) /\ overflowed' = overflowed
    <3>1. p = Append(q, x) BY <2>1 DEF With
    <3>2. p \in Seq(Told) /\ Len(p) = Len(q) + 1 /\ Len(q) \in Nat
      BY <1>5, <1>8, <3>1, AppendFacts
    <3>3. \A y : y \in Els(p) <=> y \in Els(q) \/ y = x BY <1>5, <1>8, <2>1, ElsAppend
    <3> QED BY <2>1, <3>2, <3>3, FeedBounds
  <2>2. CASE p = q /\ overflowed' BY <1>8, <2>2
  <2> QED BY <1>9, <2>1, <2>2
<1>11. FeedTyped'
  <2>1. \A f \in T86!Emitters : emitting'[f] # T86!NoEvent =>
            emitting'[f] \in T86!Event /\ Logged(emitting'[f]) \in Told /\ emitting'[f].by = f
    <3> TAKE f \in T86!Emitters
    <3>1. CASE f = d BY <1>6, <3>1
    <3>2. CASE f # d BY <1>0, <1>6, <3>2 DEF FeedTyped, Busy
    <3> QED BY <3>1, <3>2
  <2>2. eventCh' \in Seq(Told) /\ Len(eventCh') <= EventCap BY <1>7, <1>10
  <2>3. overflowed' \in BOOLEAN BY <1>1, <1>8
  <2> QED BY <1>0, <1>1, <1>6, <2>1, <2>2, <2>3 DEF FeedTyped, Busy
<1>12. PICK U, U2 : U = Upstream /\ U2 = Upstream' OBVIOUS
<1>13. /\ x \in U /\ \A y \in U2 : y \in U
       /\ ~overflowed' => \A y \in U : y \in U2
  <2>1. \A z : z \in U <=> \/ z \in Els(q)
                           \/ \E f \in T86!Emitters : Busy(f) /\ z = Logged(emitting[f])
    BY <1>7, <1>12 DEF Upstream
  <2>2. \A z : z \in U2 <=> \/ z \in Els(p)
                            \/ \E f \in T86!Emitters : /\ emitting'[f] # T86!NoEvent
                                                       /\ z = Logged(emitting'[f])
    BY <1>7, <1>12 DEF Upstream, Busy
  <2>3. x \in U BY <1>2, <1>3, <1>4, <2>1
  <2>4. \A y \in U2 : y \in U BY <1>6, <1>10, <2>1, <2>2, <2>3 DEF Busy
  <2>5. ASSUME ~overflowed', NEW y \in U PROVE y \in U2
    <3>1. CASE y \in Els(q) BY <1>10, <2>2, <3>1
    <3>2. CASE y = x BY <1>10, <2>2, <2>5, <3>2
    <3>3. CASE \E f \in T86!Emitters : Busy(f) /\ y = Logged(emitting[f]) /\ f # d
      BY <1>6, <2>2, <3>3 DEF Busy
    <3> QED BY <1>2, <1>4, <2>1, <3>1, <3>2, <3>3
  <2> QED BY <2>3, <2>4, <2>5
<1>14. UpRight'
  <2>0. AllBefore(Els(q), {x}) BY <1>0, <1>2, <1>3, <1>7 DEF UpRight
  <2>1. ASSUME NEW f \in T86!Emitters, emitting'[f] # T86!NoEvent
        PROVE  AllBefore(Els(p), {emitting'[f]})
    <3>1. f # d /\ emitting'[f] = emitting[f] /\ Busy(f) BY <1>6, <2>1 DEF Busy
    <3>2. AllBefore(Els(q), {emitting[f]}) BY <1>0, <1>7, <3>1 DEF UpRight
    <3>3. emitting[f].by # x.by BY <1>0, <1>3, <3>1 DEF FeedTyped
    <3> QED BY <1>10, <3>1, <3>2, <3>3 DEF AllBefore, Before
  <2>2. InOrder(p)
    <3>1. InOrder(q) BY <1>0, <1>7 DEF UpRight
    <3>2. CASE With(q, x, p) BY <1>5, <1>8, <2>0, <3>1, <3>2, InOrderAppend
    <3> QED BY <1>9, <3>1, <3>2
  <2>3. Made(U2, live.made) BY <1>0, <1>12, <1>13 DEF UpRight, Made
  <2>4. LinesMade(live.log, live.made) BY <1>0 DEF UpRight
  <2>5. ~overflowed' => Leads(live, U2)
    <3> SUFFICES ASSUME ~overflowed' PROVE Leads(live, U2) OBVIOUS
    <3>1. U2 = U
      <4>1. \A y : y \in U2 <=> y \in U BY <1>13
      <4> QED BY <4>1
    <3>2. ~overflowed BY <1>10
    <3> QED BY <1>0, <1>12, <3>1, <3>2 DEF UpRight
  <2> QED BY <1>1, <1>7, <1>12, <2>1, <2>2, <2>3, <2>4, <2>5 DEF UpRight, Busy
<1>15. ASSUME NEW c \in Conns PROVE ConnRight(conns[c], Publishing(c), U2, live, overflowed')
  <2>1. PICK k, P : k = conns[c] /\ P = Publishing(c) OBVIOUS
  <2>2. ConnRight(k, P, U, live, overflowed) BY <1>0, <1>12, <2>1 DEF ConnsRight
  <2>3. k \in ConnRec BY <2>2 DEF ConnRight, ConnTyped
  <2>4. U2 \subseteq U /\ (~overflowed' => ~overflowed /\ U2 = U)
    <3>1. U2 \subseteq U BY <1>13
    <3>2. ASSUME ~overflowed' PROVE U2 = U
      <4>1. \A y : y \in U2 <=> y \in U BY <1>13, <3>2
      <4> QED BY <4>1
    <3> QED BY <1>10, <3>1, <3>2
  <2>5. PICK over, over2 : over = overflowed /\ over2 = overflowed' OBVIOUS
  <2>6. ConnRight(k, P, U2, live, over2) BY <2>2, <2>3, <2>4, <2>5, ConnKept
  <2> QED BY <2>1, <2>5, <2>6
<1>16. ConnsRight'
  <2> SUFFICES ASSUME NEW c \in Conns PROVE ConnRight(conns[c], Publishing(c), U2, live, overflowed)'
    BY <1>12 DEF ConnsRight
  <2>1. Publishing(c)' = Publishing(c) BY <1>1 DEF Publishing
  <2> QED BY <1>1, <1>15, <2>1
<1> QED BY <1>11, <1>14, <1>16 DEF T86Inv

\* drainEvents takes an event, for those who are registered to be sent it.
LEMMA DrainTold == ASSUME T86Inv, T86!Drain PROVE T86Inv'
<1>0. FeedTyped /\ UpRight /\ ConnsRight BY DEF T86Inv
<1>1. PICK q, p, h, there : q = eventCh /\ p = eventCh' /\ h = Head(eventCh)
                            /\ there = {c \in Conns : T86!Registered(c)}
  OBVIOUS
<1>2. /\ pub = T86!Idle /\ Without(q, h, p) /\ UNCHANGED <<live, emitting, overflowed>>
      /\ pub' = IF there = {} THEN pub ELSE [ev |-> h, left |-> there, full |-> {}]
      /\ conns' = [c \in Conns |->
                     IF c \in there \/ T86!Contains(conns[c].page.log, T86!Line(h))
                     THEN conns[c] ELSE T86!Misses(conns[c])]
  BY <1>1 DEF T86!Drain, T86!HubFree, Without
<1>3. q \in Seq(Told) /\ Len(q) <= EventCap /\ InOrder(q) BY <1>0, <1>1 DEF FeedTyped, UpRight
<1>4. h \in Told /\ p \in Seq(Told) /\ \A y : y \in Els(q) <=> y \in Els(p) \/ y = h
  BY <1>2, <1>3, ElsTail
<1>5. Len(p) <= EventCap
  <2>1. Len(q) \in Nat /\ Len(p) = Len(q) - 1 BY <1>2, <1>3, TailFacts DEF Without
  <2> QED BY <1>3, <2>1, FeedBounds
<1>6. InOrder(p) /\ AllBefore({h}, Els(p)) BY <1>2, <1>3, InOrderTail
<1>7. FeedTyped'
  <2>1. \/ pub' = T86!Idle
        \/ pub' \in [ev : Told, left : SUBSET Conns, full : SUBSET Conns] /\ pub'.left # {}
    <3>1. CASE there = {}
      <4>1. pub' = pub BY <1>2, <3>1
      <4>2. pub = T86!Idle BY <1>2
      <4>3. pub' = T86!Idle BY <4>1, <4>2
      <4> QED BY <4>3
    <3>2. CASE there # {}
      <4>1. pub' = [ev |-> h, left |-> there, full |-> {}] BY <1>2, <3>2
      <4>2. there \subseteq Conns BY <1>1
      <4> QED BY <1>4, <3>2, <4>1, <4>2
    <3> QED BY <3>1, <3>2
  <2>2. pub'.full \subseteq pub'.left BY <1>2 DEF T86!Idle
  <2>3. eventCh' \in Seq(Told) /\ Len(eventCh') <= EventCap BY <1>1, <1>4, <1>5
  <2>4. conns' = [c \in Conns |-> conns'[c]] BY <1>2
  <2> QED BY <1>0, <1>2, <2>1, <2>2, <2>3, <2>4 DEF FeedTyped, Busy
<1>8. PICK U, U2 : U = Upstream /\ U2 = Upstream' OBVIOUS
<1>9. /\ \A z : z \in U <=> \/ z \in Els(q)
                            \/ \E f \in T86!Emitters : Busy(f) /\ z = Logged(emitting[f])
      /\ \A z : z \in U2 <=> \/ z \in Els(p)
                             \/ \E f \in T86!Emitters : Busy(f) /\ z = Logged(emitting[f])
  BY <1>1, <1>2, <1>8 DEF Upstream, Busy
<1>10. U = U2 \cup {h}
  <2>1. \A z : z \in U <=> z \in U2 \/ z = h BY <1>4, <1>9
  <2> QED BY <2>1
<1>11. U \subseteq Told /\ Made(U, live.made)
  <2>1. Els(q) \subseteq Told BY <1>3, ElsIn
  <2>2. U \subseteq Told BY <1>0, <1>9, <2>1 DEF FeedTyped
  <2> QED BY <1>0, <1>8, <2>2 DEF UpRight
<1>12. AllBefore({h}, U2)
  <2>1. ASSUME NEW f \in T86!Emitters, Busy(f) PROVE Before(h, Logged(emitting[f]))
    <3>1. Before(h, emitting[f]) BY <1>0, <1>1, <1>4, <2>1 DEF UpRight, AllBefore
    <3>2. emitting[f] \in T86!Event BY <1>0, <2>1 DEF FeedTyped
    <3>3. Logged(emitting[f]).n = emitting[f].n /\ Logged(emitting[f]).by = emitting[f].by
      BY <3>2 DEF Logged, T86!Event
    <3> QED BY <3>1, <3>3 DEF Before
  <2>2. \A y \in Els(p) : Before(h, y) BY <1>6 DEF AllBefore
  <2>3. \A y \in U2 : Before(h, y) BY <1>9, <2>1, <2>2
  <2> QED BY <2>3 DEF AllBefore
<1>13. UpRight'
  <2>1. ASSUME NEW f \in T86!Emitters, Busy(f) PROVE AllBefore(Els(p), {emitting[f]})
    <3>1. AllBefore(Els(q), {emitting[f]}) BY <1>0, <1>1, <2>1 DEF UpRight
    <3> QED BY <1>4, <3>1 DEF AllBefore
  <2>2. Made(U2, live.made) BY <1>10, <1>11 DEF Made
  <2>3. LinesMade(live.log, live.made) BY <1>0 DEF UpRight
  <2>4. ~overflowed => Leads(live, U2)
    <3> SUFFICES ASSUME ~overflowed PROVE Leads(live, U2) OBVIOUS
    <3>1. PICK lv : lv = live OBVIOUS
    <3>2. Leads(lv, U) BY <1>0, <1>8, <3>1 DEF UpRight
    <3>3. U2 \subseteq Told /\ \A y \in U2 : Before(h, y) BY <1>10, <1>11, <1>12 DEF AllBefore
    <3>4. Leads(lv, U2) BY <1>4, <1>10, <3>2, <3>3, LeadsWithout
    <3> QED BY <3>1, <3>4
  <2> QED BY <1>1, <1>2, <1>6, <1>8, <2>1, <2>2, <2>3, <2>4 DEF UpRight, Busy
<1>14. ASSUME NEW c \in Conns PROVE ConnRight(conns'[c], Publishing(c)', U2, live, overflowed)
  <2>1. PICK k, k2, lv, over : k = conns[c] /\ k2 = conns'[c] /\ lv = live /\ over = overflowed
    OBVIOUS
  <2>2. Publishing(c) = {} BY <1>2 DEF Publishing, T86!Idle
  <2>3. ConnRight(k, {}, U, lv, over) BY <1>0, <1>8, <2>1, <2>2 DEF ConnsRight
  <2>4. k \in ConnRec BY <2>3 DEF ConnRight, ConnTyped
  <2>5. U2 \subseteq Told /\ Made(U, lv.made) BY <1>10, <1>11, <2>1
  <2>6. CASE c \in there
    <3>1. k2 = k /\ k.phase = "live" BY <1>1, <1>2, <2>1, <2>6 DEF T86!Registered
    <3>2. Publishing(c)' = {h} BY <1>2, <2>6 DEF Publishing
    <3>3. ConnRight(k, {h}, U2, lv, over)
      BY <1>4, <1>10, <1>12, <2>3, <2>5, <3>1, ConnTaken
    <3> QED BY <2>1, <3>1, <3>2, <3>3
  <2>7. CASE c \notin there
    <3>1. k.phase # "live" BY <1>1, <2>1, <2>7 DEF T86!Registered
    <3>2. Publishing(c)' = {} BY <1>2, <2>7 DEF Publishing, T86!Idle
    <3>3. CASE T86!Contains(conns[c].page.log, T86!Line(h))
      <4>1. k2 = k BY <1>2, <2>1, <3>3
      <4>2. T86!Line(h) \in Els(k.page.log) BY <2>1, <3>3 DEF T86!Contains, Els
      <4>3. ConnRight(k, {}, U2, lv, over)
        BY <1>4, <1>10, <1>12, <2>3, <2>5, <3>1, <4>2, ConnKnown
      <4> QED BY <2>1, <3>2, <4>1, <4>3
    <3>4. CASE ~T86!Contains(conns[c].page.log, T86!Line(h))
      <4>1. k2 = T86!Misses(k) BY <1>2, <2>1, <2>7, <3>4
      <4>2. /\ k2 \in ConnRec /\ k2.ch = k.ch /\ k2.page = k.page /\ k2.lines = k.lines
            /\ k2.phase = k.phase /\ (k.phase # "off" => k2.lossy)
        BY <2>4, <4>1 DEF T86!Misses, ConnRec
      <4>3. U2 \subseteq U BY <1>10
      <4>4. ConnRight(k2, {}, U2, lv, over) BY <2>3, <4>2, <4>3, ConnKept
      <4> QED BY <2>1, <3>2, <4>4
    <3> QED BY <3>3, <3>4
  <2> QED BY <2>6, <2>7
<1>15. ConnsRight'
  <2> SUFFICES ASSUME NEW c \in Conns PROVE ConnRight(conns[c], Publishing(c), U2, live, overflowed)'
    BY <1>8 DEF ConnsRight
  <2> QED BY <1>2, <1>14
<1> QED BY <1>7, <1>13, <1>15 DEF T86Inv

\* The publish under way.
PubTyped ==
    /\ \/ pub = T86!Idle
       \/ pub \in [ev : Told, left : SUBSET Conns, full : SUBSET Conns] /\ pub.left # {}
    /\ pub.full \subseteq pub.left

\* One connection goes on, by itself or because it is sent an event.
LEMMA OneConn ==
  ASSUME T86Inv, NEW c \in Conns, NEW k2, conns' = [conns EXCEPT ![c] = k2],
         UNCHANGED <<live, emitting, eventCh, overflowed>>, PubTyped',
         \A d \in Conns : d # c => Publishing(d)' = Publishing(d),
         ConnRight(k2, Publishing(c)', Upstream, live, overflowed)
  PROVE  T86Inv'
<1>0. FeedTyped /\ UpRight /\ ConnsRight BY DEF T86Inv
<1>1. /\ conns' = [d \in Conns |-> conns'[d]] /\ conns'[c] = k2
      /\ \A d \in Conns : d # c => conns'[d] = conns[d]
  BY <1>0 DEF FeedTyped
<1>2. FeedTyped' BY <1>0, <1>1 DEF FeedTyped, PubTyped, Busy
<1>3. Upstream' = Upstream BY DEF Upstream, Busy
<1>4. UpRight' BY <1>0, <1>3 DEF UpRight, Busy
<1>5. ASSUME NEW d \in Conns PROVE ConnRight(conns'[d], Publishing(d)', Upstream, live, overflowed)
  <2>1. CASE d = c BY <1>1, <2>1
  <2>2. CASE d # c
    <3>1. ConnRight(conns[d], Publishing(d), Upstream, live, overflowed) BY <1>0 DEF ConnsRight
    <3> QED BY <1>1, <2>2, <3>1
  <2> QED BY <2>1, <2>2
<1>6. ConnsRight'
  <2> SUFFICES ASSUME NEW d \in Conns PROVE ConnRight(conns[d], Publishing(d), Upstream, live, overflowed)'
    BY DEF ConnsRight
  <2> QED BY <1>3, <1>5
<1> QED BY <1>2, <1>4, <1>6 DEF T86Inv

\* publish has served a client: the event is under way to the others only.
LEMMA ServedFacts ==
  ASSUME FeedTyped, NEW c \in pub.left, T86!Served(c)
  PROVE  /\ c \in Conns /\ pub.ev \in Told /\ Publishing(c) = {pub.ev} /\ PubTyped'
         /\ Publishing(c)' = {} /\ \A d \in Conns : d # c => Publishing(d)' = Publishing(d)
<1>1. pub # T86!Idle BY DEF T86!Idle
<1>2. /\ pub \in [ev : Told, left : SUBSET Conns, full : SUBSET Conns]
      /\ pub.full \subseteq pub.left
  BY <1>1 DEF FeedTyped
<1>3. CASE pub.left = {c}
  <2>1. pub' = T86!Idle BY <1>3 DEF T86!Served
  <2>2. pub'.left = {} /\ pub'.full = {} BY <2>1 DEF T86!Idle
  <2> QED BY <1>2, <1>3, <2>1, <2>2 DEF PubTyped, Publishing
<1>4. CASE pub.left # {c}
  <2>1. pub' = [pub EXCEPT !.left = @ \ {c}, !.full = {}] BY <1>4 DEF T86!Served
  <2>2. pub' = [ev |-> pub.ev, left |-> pub.left \ {c}, full |-> {}] BY <1>2, <2>1
  <2>3. pub'.ev = pub.ev /\ pub'.left = pub.left \ {c} /\ pub'.full = {} BY <2>2
  <2>4. pub.left \ {c} # {} BY <1>4
  <2>5. PubTyped' BY <1>2, <2>2, <2>3, <2>4 DEF PubTyped
  <2> QED BY <1>2, <2>3, <2>5 DEF Publishing
<1> QED BY <1>3, <1>4

\* publish finds room in the queue of a client, or finds it full.
LEMMA PublishTold == ASSUME T86Inv, T86!PublishOne PROVE T86Inv'
<1>0. FeedTyped /\ UpRight /\ ConnsRight BY DEF T86Inv
<1>1. PICK c \in pub.left :
         /\ IF Len(conns[c].ch) < HubCap
            THEN T86!Served(c) /\ conns' = [conns EXCEPT ![c].ch = Append(@, pub.ev)]
            ELSE pub' = [pub EXCEPT !.full = {c}] /\ UNCHANGED conns
         /\ UNCHANGED <<live, emitting, eventCh, overflowed>>
  BY DEF T86!PublishOne
<1>2. pub # T86!Idle BY DEF T86!Idle
<1>3. pub \in [ev : Told, left : SUBSET Conns, full : SUBSET Conns] /\ c \in Conns
  <2>1. pub \in [ev : Told, left : SUBSET Conns, full : SUBSET Conns] BY <1>0, <1>2 DEF FeedTyped
  <2> QED BY <2>1
<1>4. PICK k, U, lv, over, ev : k = conns[c] /\ U = Upstream /\ lv = live /\ over = overflowed
                                /\ ev = pub.ev
  OBVIOUS
<1>5. Publishing(c) = {ev} /\ ev \in Told BY <1>3, <1>4 DEF Publishing
<1>6. ConnRight(k, {ev}, U, lv, over) BY <1>0, <1>3, <1>4, <1>5 DEF ConnsRight
<1>7. k \in ConnRec BY <1>6 DEF ConnRight, ConnTyped
<1>8. conns = [d \in Conns |-> conns[d]] BY <1>0 DEF FeedTyped
<1>9. CASE Len(k.ch) < HubCap
  <2>1. T86!Served(c) /\ conns' = [conns EXCEPT ![c].ch = Append(@, pub.ev)]
    BY <1>1, <1>4, <1>9
  <2>2. PICK rest, ch : rest = k.ch /\ ch = Append(rest, ev) OBVIOUS
  <2>3. rest \in Seq(Told) /\ ch \in Seq(Told)
    <3>1. rest \in Seq(Told) BY <1>7, <2>2 DEF ConnRec
    <3> QED BY <1>5, <2>2, <3>1, AppendFacts
  <2>4. PICK k2 : k2 = [k EXCEPT !.ch = ch] OBVIOUS
  <2>5. /\ k2 \in ConnRec /\ k2.ch = ch /\ k2.page = k.page /\ k2.lines = k.lines
        /\ k2.phase = k.phase /\ k2.lossy = k.lossy
    BY <1>7, <2>3, <2>4 DEF ConnRec
  <2>6. conns' = [conns EXCEPT ![c] = k2] BY <1>4, <1>8, <2>1, <2>2, <2>4
  <2>7. InOrder(rest) BY <1>6, <2>2 DEF ConnRight, ConnOrdered
  <2>8. k2.ch = Append(rest, ev) /\ Len(rest) < HubCap /\ Els(rest) \subseteq Els(k.ch)
    BY <1>9, <2>2, <2>5
  <2>9. ConnRight(k2, {}, U, lv, over) BY <1>5, <1>6, <2>2, <2>3, <2>5, <2>7, <2>8, ConnQueued
  <2>10. /\ PubTyped' /\ Publishing(c)' = {}
         /\ \A d \in Conns : d # c => Publishing(d)' = Publishing(d)
    BY <1>0, <1>1, <2>1, ServedFacts
  <2>11. ConnRight(k2, Publishing(c)', Upstream, live, overflowed) BY <1>4, <2>9, <2>10
  <2> QED BY <1>1, <1>3, <2>6, <2>10, <2>11, OneConn
<1>10. CASE ~(Len(k.ch) < HubCap)
  <2>1. pub' = [pub EXCEPT !.full = {c}] /\ UNCHANGED conns BY <1>1, <1>4, <1>10
  <2>2. conns' = [conns EXCEPT ![c] = k] BY <1>4, <1>8, <2>1
  <2>3. pub' = [ev |-> pub.ev, left |-> pub.left, full |-> {c}] BY <1>3, <2>1
  <2>4. pub'.ev = pub.ev /\ pub'.left = pub.left /\ pub'.full = {c} BY <2>3
  <2>5. PubTyped' BY <1>3, <2>3, <2>4 DEF PubTyped
  <2>6. \A d \in Conns : Publishing(d)' = Publishing(d) BY <2>4 DEF Publishing
  <2>7. ConnRight(k, Publishing(c)', Upstream, live, overflowed) BY <1>3, <1>4, <1>5, <1>6, <2>6
  <2> QED BY <1>1, <1>3, <2>2, <2>5, <2>6, <2>7, OneConn
<1> QED BY <1>9, <1>10

\* The oldest event makes room for this one.
LEMMA RoomTold == ASSUME T86Inv, T86!MakeRoom PROVE T86Inv'
<1>0. FeedTyped /\ UpRight /\ ConnsRight BY DEF T86Inv
<1>1. PICK c \in pub.full :
         /\ T86!Served(c) /\ conns' = [conns EXCEPT ![c] = T86!DropOldest(@, pub.ev)]
         /\ UNCHANGED <<live, emitting, eventCh, overflowed>>
  BY DEF T86!MakeRoom
<1>2. c \in pub.left BY <1>0 DEF FeedTyped
<1>3. /\ c \in Conns /\ pub.ev \in Told /\ Publishing(c) = {pub.ev} /\ PubTyped'
      /\ Publishing(c)' = {} /\ \A d \in Conns : d # c => Publishing(d)' = Publishing(d)
  BY <1>0, <1>1, <1>2, ServedFacts
<1>4. PICK k, U, lv, over, ev : k = conns[c] /\ U = Upstream /\ lv = live /\ over = overflowed
                                /\ ev = pub.ev
  OBVIOUS
<1>5. ConnRight(k, {ev}, U, lv, over) /\ ev \in Told BY <1>0, <1>3, <1>4 DEF ConnsRight
<1>6. k \in ConnRec /\ k.phase = "live" /\ Len(k.ch) <= HubCap
  BY <1>5 DEF ConnRight, ConnTyped
<1>7. PICK k2 : k2 = T86!DropOldest(k, ev) OBVIOUS
<1>8. conns' = [conns EXCEPT ![c] = k2] BY <1>1, <1>4, <1>7
<1>9. PICK q : q = k.ch OBVIOUS
<1>10. q \in Seq(Told) /\ InOrder(q)
  BY <1>5, <1>6, <1>9 DEF ConnRec, ConnRight, ConnOrdered
<1>11. CASE q = <<>>
  <2>1. PICK ch : ch = Append(q, ev) OBVIOUS
  <2>2. ch \in Seq(Told) BY <1>5, <1>10, <2>1, AppendFacts
  <2>3. k2 = [k EXCEPT !.ch = ch] BY <1>6, <1>7, <1>9, <1>11, <2>1 DEF T86!DropOldest, ConnRec
  <2>4. /\ k2 \in ConnRec /\ k2.ch = ch /\ k2.page = k.page /\ k2.lines = k.lines
        /\ k2.phase = k.phase /\ k2.lossy = k.lossy
    BY <1>6, <2>2, <2>3 DEF ConnRec
  <2>5. Len(q) < HubCap
    <3>1. Len(q) = 0 BY <1>11
    <3> QED BY <3>1, FeedBounds
  <2>6. Els(q) \subseteq Els(k.ch) BY <1>9
  <2>7. ConnRight(k2, {}, U, lv, over)
    BY <1>5, <1>9, <1>10, <2>1, <2>4, <2>5, <2>6, ConnQueued
  <2>8. ConnRight(k2, Publishing(c)', Upstream, live, overflowed) BY <1>3, <1>4, <2>7
  <2> QED BY <1>1, <1>3, <1>8, <2>8, OneConn
<1>12. CASE q # <<>>
  <2>1. PICK rest, ch : rest = Tail(q) /\ ch = Append(rest, ev) OBVIOUS
  <2>2. PICK h : h = Head(q) OBVIOUS
  <2>3. Without(q, h, rest) BY <1>12, <2>1, <2>2 DEF Without
  <2>4. /\ rest \in Seq(Told) /\ \A y : y \in Els(q) <=> y \in Els(rest) \/ y = h
    BY <1>10, <2>3, ElsTail
  <2>5. InOrder(rest) BY <1>10, <2>3, InOrderTail
  <2>6. ch \in Seq(Told) BY <1>5, <2>1, <2>4, AppendFacts
  <2>7. k2 = [k EXCEPT !.ch = ch, !.lossy = TRUE]
    <3>1. T86!Misses(k) = [k EXCEPT !.lossy = TRUE] BY <1>6 DEF T86!Misses, ConnRec
    <3>2. k2 = [[T86!Misses(k) EXCEPT !.ch = Tail(@)] EXCEPT !.ch = Append(@, ev)]
      BY <1>7, <1>9, <1>12 DEF T86!DropOldest
    <3> QED BY <1>6, <1>9, <2>1, <3>1, <3>2 DEF ConnRec
  <2>8. /\ k2 \in ConnRec /\ k2.ch = ch /\ k2.page = k.page /\ k2.lines = k.lines
        /\ k2.phase = k.phase /\ k2.lossy
    BY <1>6, <2>6, <2>7 DEF ConnRec
  <2>9. Len(rest) < HubCap
    <3>1. Len(q) \in Nat \ {0} /\ Len(rest) = Len(q) - 1 BY <1>10, <1>12, <2>1, TailFacts
    <3> QED BY <1>6, <1>9, <3>1, FeedBounds
  <2>10. Els(rest) \subseteq Els(k.ch) BY <1>9, <2>4
  <2>11. ConnRight(k2, {}, U, lv, over)
    BY <1>5, <2>1, <2>4, <2>5, <2>8, <2>9, <2>10, ConnQueued
  <2>12. ConnRight(k2, Publishing(c)', Upstream, live, overflowed) BY <1>3, <1>4, <2>11
  <2> QED BY <1>1, <1>3, <1>8, <2>12, OneConn
<1> QED BY <1>11, <1>12

\* One handler goes on, or its page comes or goes.
LEMMA OneAlone ==
  ASSUME T86Inv, NEW c \in Conns, NEW k2, conns' = [conns EXCEPT ![c] = k2],
         UNCHANGED <<live, emitting, eventCh, overflowed, pub>>,
         ConnRight(k2, Publishing(c), Upstream, live, overflowed)
  PROVE  T86Inv'
<1>1. PubTyped' BY DEF T86Inv, FeedTyped, PubTyped
<1>2. \A d \in Conns : Publishing(d)' = Publishing(d) BY DEF Publishing
<1>3. ConnRight(k2, Publishing(c)', Upstream, live, overflowed) BY <1>2
<1> QED BY <1>1, <1>2, <1>3, OneConn

\* What is known of a connection, and of what is on its way.
LEMMA OneKnown ==
  ASSUME T86Inv, NEW c \in Conns
  PROVE  /\ ConnRight(conns[c], Publishing(c), Upstream, live, overflowed)
         /\ conns[c] \in ConnRec /\ (conns[c].phase # "live" => Publishing(c) = {})
         /\ conns = [d \in Conns |-> conns[d]] /\ live \in LiveRec /\ Upstream \subseteq Told
         /\ LinesMade(live.log, live.made) /\ (~overflowed => Leads(live, Upstream))
<1>0. FeedTyped /\ UpRight /\ ConnsRight BY DEF T86Inv
<1>1. ConnRight(conns[c], Publishing(c), Upstream, live, overflowed) BY <1>0 DEF ConnsRight
<1>2. conns[c] \in ConnRec /\ (conns[c].phase # "live" => Publishing(c) = {})
  BY <1>1 DEF ConnRight, ConnTyped
<1>3. Upstream \subseteq Told
  <2>1. eventCh \in Seq(Told) BY <1>0 DEF FeedTyped
  <2>2. Els(eventCh) \subseteq Told BY <2>1, ElsIn
  <2> QED BY <1>0, <2>2 DEF Upstream, FeedTyped
<1>4. conns = [d \in Conns |-> conns[d]] /\ live \in LiveRec BY <1>0 DEF FeedTyped
<1>5. LinesMade(live.log, live.made) /\ (~overflowed => Leads(live, Upstream)) BY <1>0 DEF UpRight
<1> QED BY <1>1, <1>2, <1>3, <1>4, <1>5

\* A connection that is not there; its page has gone or may still come.
Away(g) == [phase |-> "off", ch |-> <<>>, page |-> T86!BlankPage, lines |-> 0, gone |-> g,
            lossy |-> FALSE]

\* A connection that is not there, or not any more.
LEMMA ClosedFacts ==
  ASSUME NEW g \in BOOLEAN, NEW k, k = Away(g)
  PROVE  /\ k \in ConnRec /\ k.phase = "off" /\ k.ch = <<>> /\ k.page = T86!BlankPage
         /\ k.lines = 0
<1> DEFINE none == <<>>
<1>1. none \in Seq(Told) /\ none \in Seq(0 .. StripMax) /\ none \in Seq(T86!Emitters \X Nat)
  OBVIOUS
<1>2. T86!BlankPage = [active |-> FALSE, win |-> [w \in Windows |-> "none"],
                       strip |-> [w \in Windows |-> none], log |-> none]
  BY DEF T86!BlankPage
<1>3. k = [phase |-> "off", ch |-> none, page |-> T86!BlankPage, lines |-> 0, gone |-> g,
           lossy |-> FALSE]
  BY DEF Away
<1>4. none = <<>> OBVIOUS
<1> HIDE DEF none
<1>5. T86!BlankPage \in T86!Page BY <1>1, <1>2 DEF T86!Page
<1>6. k \in ConnRec
  <2>1. PICK page : page = T86!BlankPage OBVIOUS
  <2>2. page \in T86!Page BY <1>5, <2>1
  <2>3. PICK z : z = [phase |-> "off", ch |-> none, page |-> page, lines |-> 0, gone |-> g,
                      lossy |-> FALSE]
    OBVIOUS
  <2>4. z \in ConnRec BY <1>1, <2>2, <2>3 DEF ConnRec
  <2>5. k = z BY <1>3, <2>1, <2>3
  <2> QED BY <2>4, <2>5
<1> QED BY <1>3, <1>4, <1>6

\* A snapshot is the state, and no event on its way is needed to bring the page to it; but
\* those made before it, and not yet sent, do no harm.
LEMMA AcceptRight == ASSUME T86Inv, NEW c \in Conns, T86!Accept(c) PROVE T86Inv'
<1>1. /\ conns[c] \in ConnRec /\ (conns[c].phase # "live" => Publishing(c) = {})
      /\ live \in LiveRec /\ Upstream \subseteq Told
      /\ LinesMade(live.log, live.made) /\ (~overflowed => Leads(live, Upstream))
  BY OneKnown
<1>2. PICK U, lv, over : U = Upstream /\ lv = live /\ over = overflowed OBVIOUS
<1>3. PICK page, log : page = T86!SnapshotPage /\ log = lv.log OBVIOUS
<1>4. PICK strip : strip = [w \in Windows |-> T86!StripOf(lv.strip[w])] OBVIOUS
<1>5. ASSUME NEW w \in Windows PROVE T86!StripOf(lv.strip[w]) \in Seq(Places)
  <2>1. PICK n : n = lv.strip[w] OBVIOUS
  <2>2. n \in 0 .. StripMax BY <1>1, <1>2, <2>1 DEF LiveRec
  <2>3. n \in Nat BY <2>2, FeedBounds
  <2>4. PICK s : s = [i \in 1 .. n |-> i] OBVIOUS
  <2>5. \A i \in 1 .. n : i \in Places BY <2>2, <2>3, FeedBounds DEF Places
  <2>6. s \in [1 .. n -> Places] BY <2>4, <2>5
  <2>7. s \in Seq(Places) BY <2>3, <2>6, SeqBy
  <2> QED BY <2>1, <2>4, <2>7 DEF T86!StripOf
<1>6. strip \in [Windows -> Seq(Places)] BY <1>4, <1>5
<1>7. page = [active |-> lv.open # 0, win |-> lv.win, strip |-> strip, log |-> log]
  BY <1>2, <1>3, <1>4 DEF T86!SnapshotPage
<1>8. page \in T86!Page BY <1>1, <1>2, <1>3, <1>6, <1>7 DEF T86!Page, LiveRec, Places
<1> DEFINE none == <<>>
<1>9. none \in Seq(Told) /\ none = <<>> OBVIOUS
<1>10. PICK m : m = Len(log) OBVIOUS
<1>11. m \in Nat
  <2>1. log \in Seq(T86!Emitters \X Nat) BY <1>1, <1>2, <1>3 DEF LiveRec
  <2> QED BY <1>10, <2>1, ElementsOf
<1>12. PICK k2 : k2 = [T86!Closed EXCEPT !.phase = "snapped", !.page = page, !.lines = m]
  OBVIOUS
<1>13. k2 = [phase |-> "snapped", ch |-> none, page |-> page, lines |-> m, gone |-> FALSE,
             lossy |-> FALSE]
  BY <1>12 DEF T86!Closed
<1>14. /\ conns[c].phase = "off" /\ conns' = [conns EXCEPT ![c] = k2]
       /\ UNCHANGED <<live, emitting, eventCh, overflowed, pub>>
  BY <1>2, <1>3, <1>10, <1>12 DEF T86!Accept
<1> HIDE DEF none
<1>15. /\ k2 \in ConnRec /\ k2.phase = "snapped" /\ k2.ch = <<>> /\ k2.page = page
       /\ k2.lines = m
  BY <1>8, <1>9, <1>11, <1>13 DEF ConnRec
<1>16. /\ k2.page.log = lv.log /\ k2.page.win = lv.win /\ k2.page.active = (lv.open # 0)
       /\ k2.lines = Len(lv.log)
       /\ \A w \in Windows : k2.page.strip[w] = T86!StripOf(lv.strip[w])
  BY <1>3, <1>4, <1>7, <1>10, <1>15
<1>17. lv \in LiveRec /\ U \subseteq Told /\ LinesMade(lv.log, lv.made) /\ (~over => Leads(lv, U))
  BY <1>1, <1>2
<1>18. ConnRight(k2, {}, U, lv, over) BY <1>15, <1>16, <1>17, ConnAccepted
<1>19. ConnRight(k2, Publishing(c), Upstream, live, overflowed) BY <1>1, <1>2, <1>14, <1>18
<1> QED BY <1>14, <1>19, OneAlone

\* The handler is gone with its page.
LEMMA GoneRight ==
  ASSUME T86Inv, NEW c \in Conns, Publishing(c) = {},
         conns' = [conns EXCEPT ![c] = [T86!Closed EXCEPT !.gone = TRUE]],
         UNCHANGED <<live, emitting, eventCh, overflowed, pub>>
  PROVE  T86Inv'
<1>1. PICK g, k2 : g = TRUE /\ k2 = Away(g) OBVIOUS
<1>2. /\ k2 \in ConnRec /\ k2.phase = "off" /\ k2.ch = <<>> /\ k2.page = T86!BlankPage
      /\ k2.lines = 0
  BY <1>1, ClosedFacts
<1>3. conns' = [conns EXCEPT ![c] = k2]
  <2>1. [T86!Closed EXCEPT !.gone = TRUE] = Away(TRUE)
    <3> DEFINE none == <<>>
    <3>1. PICK z : z = [T86!Closed EXCEPT !.gone = TRUE] OBVIOUS
    <3>2. z = [phase |-> "off", ch |-> none, page |-> T86!BlankPage, lines |-> 0,
               gone |-> TRUE, lossy |-> FALSE]
      BY <3>1 DEF T86!Closed
    <3>3. Away(TRUE) = [phase |-> "off", ch |-> none, page |-> T86!BlankPage, lines |-> 0,
                        gone |-> TRUE, lossy |-> FALSE]
      BY DEF Away
    <3> HIDE DEF none
    <3> QED BY <3>1, <3>2, <3>3
  <2> QED BY <1>1, <2>1
<1>4. PICK U, lv, over : U = Upstream /\ lv = live /\ over = overflowed OBVIOUS
<1>5. lv.made \in Nat
  <2>1. live \in LiveRec BY OneKnown
  <2> QED BY <1>4, <2>1 DEF LiveRec
<1>6. ConnRight(k2, {}, U, lv, over) BY <1>2, <1>5, ConnClosed
<1>7. ConnRight(k2, Publishing(c), Upstream, live, overflowed) BY <1>4, <1>6
<1> QED BY <1>3, <1>7, OneAlone

\* A change of its phase, or its page leaves.
LEMMA PhaseRight ==
  ASSUME T86Inv, NEW c \in Conns, NEW k2 \in ConnRec, conns' = [conns EXCEPT ![c] = k2],
         k2.ch = conns[c].ch, k2.page = conns[c].page, k2.lines = conns[c].lines,
         k2.lossy = conns[c].lossy, k2.phase # "off" => conns[c].phase # "off",
         k2.phase # "live" => conns[c].phase # "live",
         UNCHANGED <<live, emitting, eventCh, overflowed, pub>>
  PROVE  T86Inv'
<1>1. PICK k, U, lv, over, P : k = conns[c] /\ U = Upstream /\ lv = live /\ over = overflowed
                               /\ P = Publishing(c)
  OBVIOUS
<1>2. ConnRight(k, P, U, lv, over) BY <1>1, OneKnown
<1>3. /\ k2.ch = k.ch /\ k2.page = k.page /\ k2.lines = k.lines /\ k2.lossy = k.lossy
      /\ (k2.phase # "off" => k.phase # "off") /\ (k2.phase # "live" => k.phase # "live")
  BY <1>1
<1>4. U \subseteq U OBVIOUS
<1>5. ConnRight(k2, P, U, lv, over) BY <1>2, <1>3, <1>4, ConnKept
<1>6. ConnRight(k2, Publishing(c), Upstream, live, overflowed) BY <1>1, <1>5
<1> QED BY <1>6, OneAlone

\* The snapshot is written to a page that is there, or the handler returns.
LEMMA WriteRight == ASSUME T86Inv, NEW c \in Conns, T86!WriteSnapshot(c) PROVE T86Inv'
<1>1. /\ conns[c] \in ConnRec /\ (conns[c].phase # "live" => Publishing(c) = {})
      /\ conns = [d \in Conns |-> conns[d]]
  BY OneKnown
<1>2. /\ conns[c].phase = "snapped"
      /\ UNCHANGED <<live, emitting, eventCh, overflowed, pub>>
  BY DEF T86!WriteSnapshot
<1>3. CASE conns[c].gone
  <2>1. conns' = [conns EXCEPT ![c] = [T86!Closed EXCEPT !.gone = TRUE]]
    BY <1>1, <1>3 DEF T86!WriteSnapshot
  <2> QED BY <1>1, <1>2, <2>1, GoneRight
<1>4. CASE ~conns[c].gone
  <2>1. PICK k2 : k2 = [conns[c] EXCEPT !.phase = "written"] OBVIOUS
  <2>2. conns' = [conns EXCEPT ![c] = k2] BY <1>1, <1>4, <2>1 DEF T86!WriteSnapshot
  <2>3. /\ k2 \in ConnRec /\ k2.ch = conns[c].ch /\ k2.page = conns[c].page
        /\ k2.lines = conns[c].lines /\ k2.lossy = conns[c].lossy /\ k2.phase = "written"
    BY <1>1, <2>1 DEF ConnRec
  <2> QED BY <1>2, <2>2, <2>3, PhaseRight
<1> QED BY <1>3, <1>4

\* The client is registered: events are put into its queue from now on.
LEMMA RegisterRight == ASSUME T86Inv, NEW c \in Conns, T86!Register(c) PROVE T86Inv'
<1>1. conns[c] \in ConnRec /\ conns = [d \in Conns |-> conns[d]] BY OneKnown
<1>2. /\ conns[c].phase = "written" /\ conns' = [conns EXCEPT ![c].phase = "live"]
      /\ UNCHANGED <<live, emitting, eventCh, overflowed, pub>>
  BY DEF T86!Register
<1>3. PICK k2 : k2 = [conns[c] EXCEPT !.phase = "live"] OBVIOUS
<1>4. conns' = [conns EXCEPT ![c] = k2] BY <1>1, <1>2, <1>3
<1>5. /\ k2 \in ConnRec /\ k2.ch = conns[c].ch /\ k2.page = conns[c].page
      /\ k2.lines = conns[c].lines /\ k2.lossy = conns[c].lossy /\ k2.phase = "live"
  BY <1>1, <1>3 DEF ConnRec
<1> QED BY <1>2, <1>4, <1>5, PhaseRight

\* Nothing is promised to a page that has gone.
LEMMA PageGoneRight == ASSUME T86Inv, NEW c \in Conns, T86!PageLeaves(c) PROVE T86Inv'
<1>1. conns[c] \in ConnRec /\ conns = [d \in Conns |-> conns[d]] BY OneKnown
<1>2. /\ conns' = [conns EXCEPT ![c].gone = TRUE]
      /\ UNCHANGED <<live, emitting, eventCh, overflowed, pub>>
  BY DEF T86!PageLeaves
<1>3. PICK k2 : k2 = [conns[c] EXCEPT !.gone = TRUE] OBVIOUS
<1>4. conns' = [conns EXCEPT ![c] = k2] BY <1>1, <1>2, <1>3
<1>5. /\ k2 \in ConnRec /\ k2.ch = conns[c].ch /\ k2.page = conns[c].page
      /\ k2.lines = conns[c].lines /\ k2.lossy = conns[c].lossy /\ k2.phase = conns[c].phase
  BY <1>1, <1>3 DEF ConnRec
<1> QED BY <1>2, <1>4, <1>5, PhaseRight

\* The page is written the first message of its queue, or has gone.
LEMMA MessageRight == ASSUME T86Inv, NEW c \in Conns, T86!Deliver(c) PROVE T86Inv'
<1>1. /\ ConnRight(conns[c], Publishing(c), Upstream, live, overflowed)
      /\ conns[c] \in ConnRec /\ conns = [d \in Conns |-> conns[d]]
      /\ live \in LiveRec /\ Upstream \subseteq Told
  BY OneKnown
<1>2. /\ conns[c].ch # <<>> /\ UNCHANGED <<live, emitting, eventCh, overflowed, pub>>
  BY DEF T86!Deliver
<1>3. CASE conns[c].gone
  <2>1. /\ pub = T86!Idle
        /\ conns' = [conns EXCEPT ![c] = [T86!Closed EXCEPT !.gone = TRUE]]
    BY <1>3 DEF T86!Deliver, T86!HubFree
  <2>2. Publishing(c) = {} BY <2>1 DEF Publishing, T86!Idle
  <2> QED BY <1>2, <2>1, <2>2, GoneRight
<1>4. CASE ~conns[c].gone
  <2>1. PICK k, U, lv, over, P : k = conns[c] /\ U = Upstream /\ lv = live /\ over = overflowed
                                 /\ P = Publishing(c)
    OBVIOUS
  <2>2. k \in ConnRec /\ ConnRight(k, P, U, lv, over) /\ lv \in LiveRec /\ U \subseteq Told
    BY <1>1, <2>1
  <2>3. Aligned(k.page) BY <2>2 DEF ConnRight
  <2>4. PICK q, p, x : q = k.ch /\ p = Tail(q) /\ x = Head(q) OBVIOUS
  <2>5. q \in Seq(Told) /\ q # <<>> BY <1>2, <2>1, <2>2, <2>4 DEF ConnRec
  <2>6. p \in Seq(Told) /\ x \in Told
    <3>1. Without(q, x, p) BY <2>4, <2>5 DEF Without
    <3> QED BY <2>5, <3>1, ElsTail
  <2>7. PICK page, page2 : page = k.page /\ page2 = T86!Apply(page, x) OBVIOUS
  <2>8. page2 \in T86!Page
    <3>1. Takes(page, x, page2) BY <2>7 DEF Takes
    <3>2. page \in T86!Page /\ Aligned(page) BY <2>2, <2>3, <2>7 DEF ConnRec
    <3>3. Shows(page, x, page2) BY <2>6, <3>1, <3>2, Applied
    <3> QED BY <3>3 DEF Shows
  <2>9. PICK k2 : k2 = [k EXCEPT !.page = page2, !.ch = p] OBVIOUS
  <2>10. /\ k2 \in ConnRec /\ k2.ch = p /\ k2.page = page2 /\ k2.lines = k.lines
         /\ k2.phase = k.phase /\ k2.lossy = k.lossy
    BY <2>2, <2>6, <2>8, <2>9 DEF ConnRec
  <2>11. conns' = [conns EXCEPT ![c] = k2]
    <3>1. conns' = [conns EXCEPT ![c].page = T86!Apply(@, Head(conns[c].ch)), ![c].ch = Tail(@)]
      BY <1>4 DEF T86!Deliver
    <3>2. conns' = [conns EXCEPT ![c].page = page2, ![c].ch = p]
      BY <1>1, <2>1, <2>2, <2>4, <2>7, <3>1 DEF ConnRec
    <3>3. \A d \in Conns : conns'[d] = IF d = c THEN k2 ELSE conns[d]
      BY <1>1, <2>1, <2>2, <2>9, <3>2 DEF ConnRec
    <3>4. conns' = [d \in Conns |-> conns'[d]] BY <1>1, <3>2
    <3>5. conns' = [d \in Conns |-> IF d = c THEN k2 ELSE conns[d]] BY <3>3, <3>4
    <3> QED BY <1>1, <3>5
  <2>12. Takes(k.page, x, k2.page) BY <2>7, <2>10 DEF Takes
  <2>13. k.ch # <<>> /\ x = Head(k.ch) /\ k2.ch = Tail(k.ch) BY <2>4, <2>5, <2>10
  <2>14. ConnRight(k2, P, U, lv, over) BY <2>2, <2>10, <2>12, <2>13, ConnShown
  <2>15. ConnRight(k2, Publishing(c), Upstream, live, overflowed) BY <2>1, <2>14
  <2> QED BY <1>2, <2>11, <2>15, OneAlone
<1> QED BY <1>3, <1>4

\* The monitor of std-t86 before the first broadcast and without pages.
LEMMA T86Init == T86!FeedInit => T86Inv
<1> SUFFICES ASSUME T86!FeedInit PROVE T86Inv OBVIOUS
<1> DEFINE none == <<>>
<1>1. /\ none \in Seq(Told) /\ none \in Seq(T86!Emitters \X Nat) /\ Len(none) = 0
      /\ 1 .. Len(none) = {}
  OBVIOUS
<1>2. /\ live = [made |-> 0, open |-> 0, win |-> [w \in Windows |-> "none"],
                 strip |-> [w \in Windows |-> 0], log |-> none]
      /\ emitting = [e \in T86!Emitters |-> T86!NoEvent] /\ eventCh = none /\ overflowed = FALSE
      /\ pub = T86!Idle /\ conns = [c \in Conns |-> T86!Closed]
  BY DEF T86!FeedInit, T86!Idle
<1>3. T86!Closed = Away(FALSE) BY DEF T86!Closed, Away
<1> HIDE DEF none
<1>4. Els(none) = {} BY <1>1 DEF Els
<1>5. live \in LiveRec
  <2>1. PICK win, strip : win = [w \in Windows |-> "none"] /\ strip = [w \in Windows |-> 0]
    OBVIOUS
  <2>2. win \in [Windows -> {"none", "open", "closed"}] BY <2>1
  <2>3. strip \in [Windows -> 0 .. StripMax] BY <2>1, FeedBounds
  <2>4. live = [made |-> 0, open |-> 0, win |-> win, strip |-> strip, log |-> none]
    BY <1>2, <2>1
  <2> QED BY <1>1, <2>2, <2>3, <2>4 DEF LiveRec
<1>6. Upstream = {}
  <2>1. \A e \in T86!Emitters : ~Busy(e) BY <1>2 DEF Busy
  <2> QED BY <1>2, <1>4, <2>1 DEF Upstream
<1>7. FeedTyped
  <2>1. \A e \in T86!Emitters : ~Busy(e) BY <1>2 DEF Busy
  <2>2. pub.full \subseteq pub.left BY <1>2 DEF T86!Idle
  <2>3. Len(live.log) <= LogCap /\ Len(eventCh) <= EventCap BY <1>1, <1>2, FeedBounds
  <2> QED BY <1>1, <1>2, <1>5, <2>1, <2>2, <2>3 DEF FeedTyped
<1>8. UpRight
  <2>1. InOrder(none) BY <1>1 DEF InOrder
  <2>2. \A e \in T86!Emitters : ~Busy(e) BY <1>2 DEF Busy
  <2>3. Made(Upstream, live.made) BY <1>6 DEF Made
  <2>4. LinesMade(live.log, live.made) BY <1>2, <1>4 DEF LinesMade
  <2>5. Leads(live, Upstream) BY <1>6 DEF Leads
  <2> QED BY <1>2, <2>1, <2>2, <2>3, <2>4, <2>5 DEF UpRight
<1>9. ASSUME NEW c \in Conns PROVE ConnRight(conns[c], Publishing(c), Upstream, live, overflowed)
  <2>1. PICK k, g : k = conns[c] /\ g = FALSE OBVIOUS
  <2>2. k = T86!Closed BY <1>2, <2>1
  <2>3. k = Away(g) BY <1>3, <2>1, <2>2
  <2>4. /\ k \in ConnRec /\ k.phase = "off" /\ k.ch = <<>> /\ k.page = T86!BlankPage
        /\ k.lines = 0
    BY <2>1, <2>3, ClosedFacts
  <2>5. Publishing(c) = {} BY <1>2 DEF Publishing, T86!Idle
  <2>6. PICK U, lv, over : U = Upstream /\ lv = live /\ over = overflowed OBVIOUS
  <2>7. lv.made \in Nat BY <1>5, <2>6 DEF LiveRec
  <2>8. ConnRight(k, {}, U, lv, over) BY <2>4, <2>7, ConnClosed
  <2> QED BY <2>1, <2>5, <2>6, <2>8
<1> QED BY <1>7, <1>8, <1>9 DEF T86Inv, ConnsRight

\* Each step of the monitor of std-t86 keeps the invariant.
LEMMA T86Step == T86Inv /\ [T86!FeedNext]_t86Vars => T86Inv'
<1> SUFFICES ASSUME T86Inv, [T86!FeedNext]_t86Vars PROVE T86Inv' OBVIOUS
<1>1. CASE T86!BroadcastStarted BY <1>1, StartTold
<1>2. CASE T86!FinishWindow BY <1>2, EndTold
<1>3. CASE T86!AudioStatus BY <1>3, AudioTold
<1>4. CASE T86!AddLog BY <1>4, LogTold
<1>5. CASE T86!Send BY <1>5, SendTold
<1>6. CASE T86!Drain BY <1>6, DrainTold
<1>7. CASE T86!PublishOne BY <1>7, PublishTold
<1>8. CASE T86!MakeRoom BY <1>8, RoomTold
<1>9. CASE \E c \in Conns : T86!Accept(c) BY <1>9, AcceptRight
<1>10. CASE \E c \in Conns : T86!WriteSnapshot(c) BY <1>10, WriteRight
<1>11. CASE \E c \in Conns : T86!Register(c) BY <1>11, RegisterRight
<1>12. CASE \E c \in Conns : T86!Deliver(c) BY <1>12, MessageRight
<1>13. CASE \E c \in Conns : T86!PageLeaves(c) BY <1>13, PageGoneRight
<1>14. CASE UNCHANGED t86Vars
  <2>1. UNCHANGED <<live, emitting, eventCh, overflowed, pub, conns>> BY <1>14 DEF t86Vars
  <2>2. FeedTyped' BY <2>1 DEF T86Inv, FeedTyped, Busy
  <2>3. Upstream' = Upstream BY <2>1 DEF Upstream, Busy
  <2>4. UpRight' BY <2>1, <2>3 DEF T86Inv, UpRight, Busy
  <2>5. ASSUME NEW c \in Conns
        PROVE  ConnRight(conns[c], Publishing(c), Upstream, live, overflowed)'
    <3>1. Publishing(c)' = Publishing(c) BY <2>1 DEF Publishing
    <3>2. ConnRight(conns[c], Publishing(c), Upstream, live, overflowed) BY OneKnown
    <3> QED BY <2>1, <2>3, <3>1, <3>2
  <2> QED BY <2>2, <2>4, <2>5 DEF T86Inv, ConnsRight
<1> QED BY <1>1, <1>2, <1>3, <1>4, <1>5, <1>6, <1>7, <1>8, <1>9, <1>10, <1>11, <1>12, <1>13,
           <1>14 DEF T86!FeedNext, T86!Handler

\* What the inductive invariant says of the pages.
LEMMA PagesTyped == T86Inv => T86!FeedTypeOK /\ T86!StripAligned /\ T86!ShownInOrder
<1> SUFFICES ASSUME T86Inv PROVE T86!FeedTypeOK /\ T86!StripAligned /\ T86!ShownInOrder OBVIOUS
<1>1. ASSUME NEW c \in Conns
      PROVE  /\ conns[c] \in ConnRec /\ conns[c].page \in T86!Page /\ Len(conns[c].ch) <= HubCap
             /\ Aligned(conns[c].page) /\ Sorted(conns[c].page.log, conns[c].lines)
  <2>1. PICK k, P : k = conns[c] /\ P = Publishing(c) OBVIOUS
  <2>2. ConnRight(k, P, Upstream, live, overflowed) BY <2>1, OneKnown
  <2>3. ConnTyped(k, P) /\ ConnOrdered(k, P, Upstream, live.made) /\ Aligned(k.page)
    BY <2>2 DEF ConnRight
  <2>4. k \in ConnRec /\ Len(k.ch) <= HubCap BY <2>3 DEF ConnTyped
  <2>5. Sorted(k.page.log, k.lines) BY <2>3 DEF ConnOrdered
  <2> QED BY <2>1, <2>3, <2>4, <2>5 DEF ConnRec
<1>2. T86!FeedTypeOK BY <1>1 DEF T86Inv, FeedTyped, LiveRec, T86!FeedTypeOK
<1>3. T86!StripAligned
  <2> SUFFICES ASSUME NEW c \in Conns, NEW w \in Windows,
                      NEW i \in DOMAIN conns[c].page.strip[w]
               PROVE  conns[c].page.strip[w][i] \in {i, 0}
    BY DEF T86!StripAligned, T86!Unknown
  <2>1. PICK s : s = conns[c].page.strip[w] OBVIOUS
  <2>2. s \in Seq(Places) BY <1>1, <2>1 DEF T86!Page, Places
  <2>3. i \in 1 .. Len(s) BY <2>1, <2>2
  <2> QED BY <1>1, <2>1, <2>3 DEF Aligned
<1>4. T86!ShownInOrder BY <1>1 DEF T86!ShownInOrder, Sorted
<1> QED BY <1>2, <1>3, <1>4

\* Nothing is on its way: nothing brings the page to the state that it does not show.
LEMMA NothingLeft ==
  ASSUME NEW lv \in LiveRec, NEW page \in T86!Page, NEW S, S = {}, Catches(lv, page, S)
  PROVE  /\ page.active = (lv.open # 0) /\ page.win = lv.win
         /\ page.strip = [w \in Windows |-> T86!StripOf(lv.strip[w])]
         /\ \A l \in Els(lv.log) : l \in Els(page.log)
<1>1. page.active = (lv.open # 0)
  <2>1. AirShown(page) = AirOf(lv) BY DEF Catches, ToAir
  <2>2. page.active \in BOOLEAN BY DEF T86!Page
  <2> QED BY <2>1, <2>2 DEF AirShown, AirOf
<1>2. page.win = lv.win
  <2>1. \A w \in Windows : page.win[w] = lv.win[w] BY DEF Catches, ToWindow
  <2>2. PICK a, b : a = page.win /\ b = lv.win OBVIOUS
  <2>3. /\ a \in [Windows -> {"none", "open", "closed"}]
        /\ b \in [Windows -> {"none", "open", "closed"}]
    BY <2>2 DEF T86!Page, LiveRec
  <2> QED BY <2>1, <2>2, <2>3
<1>3. ASSUME NEW w \in Windows PROVE page.strip[w] = T86!StripOf(lv.strip[w])
  <2>1. PICK s, n : s = page.strip[w] /\ n = lv.strip[w] OBVIOUS
  <2>2. s \in Seq(Places) BY <2>1 DEF T86!Page, Places
  <2>3. n \in Nat
    <3>1. n \in 0 .. StripMax BY <2>1 DEF LiveRec
    <3> QED BY <3>1, FeedBounds
  <2>4. PICK m : m = Len(s) OBVIOUS
  <2>5. m \in Nat BY <2>2, <2>4, ElementsOf
  <2>6. m <= n /\ ToStrip(lv, S, w, m, 0) /\ \A k \in 1 .. m : s[k] = k
    BY <2>1, <2>4 DEF Catches
  <2>7. m = n
    <3> SUFFICES ASSUME m < n PROVE FALSE BY <2>3, <2>5, <2>6
    <3>1. m \in m .. lv.strip[w] - 1 BY <2>1, <2>3, <2>5
    <3> QED BY <2>6, <3>1 DEF ToStrip
  <2>8. s = [k \in 1 .. m |-> s[k]] BY <2>2, <2>4
  <2>9. s = [k \in 1 .. n |-> k] BY <2>6, <2>7, <2>8
  <2> QED BY <2>1, <2>9 DEF T86!StripOf
<1>4. page.strip = [w \in Windows |-> T86!StripOf(lv.strip[w])]
  <2>1. PICK a : a = page.strip OBVIOUS
  <2>2. a = [w \in Windows |-> a[w]] BY <2>1 DEF T86!Page
  <2> QED BY <1>3, <2>1, <2>2
<1>5. \A l \in Els(lv.log) : l \in Els(page.log) BY DEF Catches
<1> QED BY <1>1, <1>2, <1>4, <1>5

\* When everything is delivered, a page nothing brings to the state any more shows the state.
LEMMA PagesConverge == T86Inv => T86!Converged
<1> SUFFICES ASSUME T86Inv, T86!Settled, ~overflowed, NEW c \in Conns, T86!Follows(c),
                    ~conns[c].lossy
             PROVE  /\ conns[c].page.active = (live.open # 0) /\ conns[c].page.win = live.win
                    /\ conns[c].page.strip = T86!SnapshotPage.strip
                    /\ T86!Range(live.log) \subseteq T86!Range(conns[c].page.log)
  BY DEF T86!Converged
<1>1. PICK k, P, lv : k = conns[c] /\ P = Publishing(c) /\ lv = live OBVIOUS
<1>2. ConnRight(k, P, Upstream, lv, overflowed) /\ k \in ConnRec /\ lv \in LiveRec
  BY <1>1, OneKnown
<1>3. k.phase = "live" BY <1>1 DEF T86!Follows, T86!Registered
<1>4. Upstream = {}
  <2>1. \A e \in T86!Emitters : ~Busy(e) BY DEF T86!Settled, T86!Quiet, Busy
  <2>2. PICK q : q = eventCh OBVIOUS
  <2>3. q = <<>> BY <2>2 DEF T86!Settled
  <2>4. Els(q) = {} BY <2>3 DEF Els
  <2> QED BY <2>1, <2>2, <2>4 DEF Upstream
<1>5. P = {} BY <1>1 DEF T86!Settled, T86!HubFree, T86!Idle, Publishing
<1>6. Els(k.ch) = {}
  <2>1. PICK q : q = k.ch OBVIOUS
  <2>2. q = <<>> BY <1>1, <1>3, <2>1 DEF T86!Settled, T86!Registered
  <2>3. Els(q) = {} BY <2>2 DEF Els
  <2> QED BY <2>1, <2>3
<1>7. PICK S, page : S = Els(k.ch) \cup P \cup Upstream /\ page = k.page OBVIOUS
<1>8. S = {} BY <1>4, <1>5, <1>6, <1>7
<1>9. Catches(lv, page, S) /\ page \in T86!Page
  <2>1. ~k.lossy BY <1>1
  <2>2. Brought(k, lv, S) BY <1>2, <1>3, <1>7, <2>1 DEF ConnRight
  <2> QED BY <1>2, <1>7, <2>2 DEF Brought, ConnRec
<1>10. /\ page.active = (lv.open # 0) /\ page.win = lv.win
       /\ page.strip = [w \in Windows |-> T86!StripOf(lv.strip[w])]
       /\ \A l \in Els(lv.log) : l \in Els(page.log)
  BY <1>2, <1>8, <1>9, NothingLeft
<1>11. T86!SnapshotPage.strip = [w \in Windows |-> T86!StripOf(live.strip[w])]
  BY DEF T86!SnapshotPage
<1>12. T86!Range(live.log) \subseteq T86!Range(conns[c].page.log)
  <2>1. PICK a, b : a = lv.log /\ b = page.log OBVIOUS
  <2>2. a \in Seq(LogLines) /\ b \in Seq(LogLines)
    BY <1>2, <1>9, <2>1 DEF LiveRec, T86!Page, LogLines
  <2>3. T86!Range(a) = Els(a) /\ T86!Range(b) = Els(b) BY <2>2 DEF T86!Range, Els
  <2> QED BY <1>1, <1>7, <1>10, <2>1, <2>3
<1> QED BY <1>1, <1>7, <1>10, <1>11, <1>12

-----------------------------------------------------------------------------
(* One of the programs runs; the others stand still.                         *)

\* Whatever program runs, each keeps what is said of it.
LEMMA ProgramsStep == /\ Init => PluginInv /\ T115Inv /\ T86Inv
                      /\ PluginInv /\ [Next]_vars => PluginInv'
                      /\ T115Inv /\ [Next]_vars => T115Inv'
                      /\ T86Inv /\ [Next]_vars => T86Inv'
<1>1. Init => PluginInv /\ T115Inv /\ T86Inv BY PluginInit, T115Init, T86Init DEF Init
<1>2. [Next]_vars => [Plugin!ServerNext]_pluginVars BY DEF Next, vars
<1>3. [Next]_vars => [T115!ConnNext]_t115Vars BY DEF Next, vars
<1>4. [Next]_vars => [T86!FeedNext]_t86Vars BY DEF Next, vars
<1> QED BY <1>1, <1>2, <1>3, <1>4, PluginStep, T115Step, T86Step

\* A client of the plugin gets the sample stream in order and is behind by no more than
\* its queue while it is in the list, and a stopped server serves only whom an accept
\* thread had in hand when Stop cleared the list (IqTcpServer.cs).
THEOREM PluginServed == Spec => []PluginServes
<1>1. Spec => []PluginInv
  <2>1. PluginInv /\ [Next]_vars => PluginInv' BY ProgramsStep
  <2>2. Init => PluginInv BY ProgramsStep
  <2> QED BY <2>1, <2>2, PTL DEF Spec
<1>2. PluginInv => PluginServes BY PluginSaid DEF PluginServes
<1> QED BY <1>1, <1>2, PTL

\* The inductive invariant of the hub of std-t115.
LEMMA HubInvariant == Spec => []T115Inv
<1>1. T115Inv /\ [Next]_vars => T115Inv' BY ProgramsStep
<1>2. Init => T115Inv BY ProgramsStep
<1> QED BY <1>1, <1>2, PTL DEF Spec

\* Reader, handler and loop never send to or close a channel that is closed (hub.remove,
\* hub.broadcast).
THEOREM HubNeverPanics == Spec => []NeverPanics
<1>1. T115Inv => NeverPanics BY T115Said DEF NeverPanics
<1> QED BY <1>1, HubInvariant, PTL

\* The inductive invariant of the feed of std-t86: whatever a page shows once it has an
\* event that is on its way, the events behind that one bring it to the state (emit, send,
\* drainEvents, publish, serveWS).
THEOREM FeedInvariant == Spec => []T86Inv
<1>1. T86Inv /\ [Next]_vars => T86Inv' BY ProgramsStep
<1>2. Init => T86Inv BY ProgramsStep
<1> QED BY <1>1, <1>2, PTL DEF Spec

\* The pages of both monitors show the state, up to what was lost where the code lets it
\* be lost: of std-t86 every place of a strip is that place of the broadcast or "?", a
\* page that missed nothing shows the state once all is delivered, and the events of a
\* goroutine are shown in order and none twice; of std-t115 what is on its way brings a
\* page up to date; and no queue holds more than its capacity.
THEOREM PagesShown == Spec => []PagesRight
<1>1. T86Inv => T86!FeedTypeOK /\ T86!StripAligned /\ T86!Converged /\ T86!ShownInOrder
  BY PagesTyped, PagesConverge
<1>2. T115Inv => T115!ConnTypeOK /\ T115!NothingMissed BY T115Said
<1>3. T86Inv /\ T115Inv => PagesRight BY <1>1, <1>2 DEF PagesRight
<1> QED BY <1>3, FeedInvariant, HubInvariant, PTL
=============================================================================
