------------------------- MODULE TcpServerQueueProofs -------------------------
(***************************************************************************)
(* The functors of the connections, for any number of loops and            *)
(* connections: what is queued is what runs, once and in order, whatever   *)
(* the swap in doPendingFunctor() and the functors queued meanwhile do.    *)
(* A connection's functors wait in the queue they belong in, its           *)
(* connectEstablished before all of its others. The effect of every action *)
(* on the functors that wait is stated as sets of connections, which is    *)
(* all the proofs about the connections need to know of the queues.        *)
(***************************************************************************)
EXTENDS TcpServerProofs

\* A functor is in a queue; it is among those of a batch after the first n.
Has(s, f, c) == \E i \in DOMAIN s : s[i] = Functor(f, c)

Left(s, n, f, c) == \E i \in DOMAIN s : i > n /\ s[i] = Functor(f, c)

\* The connections whose functor f has still to run in the loop that at gives.
Waiting(f, at, queues, batches, done) ==
  {c \in Conns : Has(queues[at[c]], f, c) \/ Left(batches[at[c]], done[at[c]], f, c)}

AtBase == [c \in Conns |-> 0]

ToEstablish == Waiting("establish", loop, pending, running, taken)
ToRemove == Waiting("remove", AtBase, pending, running, taken)
ToDestroy == Waiting("destroy", loop, pending, running, taken)

\* The connections that some functor refers to, one that has run included.
Quoted(queues, batches) ==
  {c \in Conns : \E l \in Loops : Holds(queues[l], c) \/ Holds(batches[l], c)}

\* connectEstablished, connectionDestroyed and sendInLoop run in the connection's
\* loop, and the first not at all where that is the base loop;
\* removeConnectionInLoop runs in the base loop, for connections of the others.
InPlace(s, l, at) ==
  \A c \in Conns :
    /\ Has(s, "establish", c) => l = at[c] /\ l # 0
    /\ Has(s, "remove", c) => l = 0 /\ at[c] # 0
    /\ Has(s, "destroy", c) => l = at[c]
    /\ Has(s, "send", c) => l = at[c]

\* No functor of a connection is before its connectEstablished.
EstablishFirst(s) ==
  \A c \in Conns : \A i, j \in DOMAIN s :
    s[j] = Functor("establish", c) /\ i < j => s[i].conn # c

Orderly(queues, batches, at) ==
  \A l \in Loops :
    /\ InPlace(queues[l], l, at) /\ InPlace(batches[l], l, at)
    /\ EstablishFirst(queues[l]) /\ EstablishFirst(batches[l])
    /\ \A c \in Conns : Has(queues[l], "establish", c) => ~Holds(batches[l], c)

\* Only while it runs its functors has a loop a batch. The base loop's own
\* connections are destroyed in the turn that has closed them.
Batches ==
  /\ \A l \in Loops : loopAt[l] # "functors" => running[l] = <<>> /\ taken[l] = 0
  /\ \A c \in Conns : Has(pending[0], "destroy", c) => loopAt[0] = "events"

Functors == Orderly(pending, running, loop) /\ Batches

-----------------------------------------------------------------------------
(* One queue.                                                              *)

LEMMA SameFunctor ==
  /\ \A f, g, c, d : Functor(f, c) = Functor(g, d) <=> f = g /\ c = d
  /\ \A f, c : Functor(f, c).do = f /\ Functor(f, c).conn = c
  BY DEF Functor

LEMMA HasHolds ==
  ASSUME NEW s, NEW f, NEW c, Has(s, f, c)
  PROVE  Holds(s, c)
  BY SameFunctor DEF Has, Holds

LEMMA EmptyQueue ==
  /\ \A f, c : ~Has(<<>>, f, c) /\ ~Holds(<<>>, c)
  /\ \A n, f, c : ~Left(<<>>, n, f, c)
  /\ EstablishFirst(<<>>)
  /\ \A l, at : InPlace(<<>>, l, at)
<1>1. DOMAIN <<>> = {}
  OBVIOUS
<1> QED
  BY <1>1 DEF Has, Holds, Left, EstablishFirst, InPlace

\* One functor more.
LEMMA AppendedQueue ==
  ASSUME NEW s \in Seq(ServerFunctors), NEW F \in ServerFunctors
  PROVE  /\ \A f, c : Has(Append(s, F), f, c) <=> Has(s, f, c) \/ F = Functor(f, c)
         /\ \A c : Holds(Append(s, F), c) <=> Holds(s, c) \/ F.conn = c
         /\ EstablishFirst(s) /\ (F.do = "establish" => ~Holds(s, F.conn))
              => EstablishFirst(Append(s, F))
<1> DEFINE t == Append(s, F)
<1>1. /\ Len(s) \in Nat /\ DOMAIN s = 1 .. Len(s)
      /\ DOMAIN t = 1 .. Len(s) + 1
      /\ \A i \in DOMAIN s : t[i] = s[i]
      /\ t[Len(s) + 1] = F
  BY AppendProperties, LenProperties
<1> HIDE DEF t
<1>2. \A i \in DOMAIN t : i \in DOMAIN s \/ i = Len(s) + 1
  BY <1>1
<1>3. DOMAIN s \subseteq DOMAIN t /\ Len(s) + 1 \in DOMAIN t
  BY <1>1
<1>4. \A f, c : Has(t, f, c) <=> Has(s, f, c) \/ F = Functor(f, c)
  BY <1>1, <1>2, <1>3 DEF Has
<1>5. \A c : Holds(t, c) <=> Holds(s, c) \/ F.conn = c
  BY <1>1, <1>2, <1>3 DEF Holds
<1>6. ASSUME EstablishFirst(s), F.do = "establish" => ~Holds(s, F.conn)
      PROVE  EstablishFirst(t)
  <2> SUFFICES ASSUME NEW c \in Conns, NEW i \in DOMAIN t, NEW j \in DOMAIN t,
                      t[j] = Functor("establish", c), i < j
               PROVE  t[i].conn # c
    BY DEF EstablishFirst
  <2>1. i \in DOMAIN s /\ t[i] = s[i]
    BY <1>1
  <2>2. CASE j \in DOMAIN s
    BY <1>1, <1>6, <2>1, <2>2 DEF EstablishFirst
  <2>3. CASE j = Len(s) + 1
    <3>1. F = Functor("establish", c)
      BY <1>1, <2>3
    <3>2. ~Holds(s, c)
      BY <1>6, <3>1, SameFunctor
    <3> QED
      BY <2>1, <3>2 DEF Holds
  <2> QED
    BY <1>2, <2>2, <2>3
<1> QED
  BY <1>4, <1>5, <1>6 DEF t

\* All of a batch is left when nothing of it has been started, and nothing when
\* all of it has.
LEMMA LeftAtEnds ==
  ASSUME NEW s \in Seq(ServerFunctors), NEW f, NEW c
  PROVE  /\ Left(s, 0, f, c) <=> Has(s, f, c)
         /\ ~Left(s, Len(s), f, c)
<1>1. Len(s) \in Nat /\ DOMAIN s = 1 .. Len(s)
  BY LenProperties
<1> QED
  BY <1>1 DEF Left, Has

\* The next functor of a batch is started.
LEMMA LeftAfterStart ==
  ASSUME NEW s \in Seq(ServerFunctors), NEW n \in Nat, n + 1 \in DOMAIN s,
         NEW f, NEW c
  PROVE  Left(s, n, f, c) <=> Left(s, n + 1, f, c) \/ s[n + 1] = Functor(f, c)
<1>1. Len(s) \in Nat /\ DOMAIN s = 1 .. Len(s)
  BY LenProperties
<1>2. \A i \in DOMAIN s : i > n <=> i > n + 1 \/ i = n + 1
  BY <1>1
<1> QED
  BY <1>2 DEF Left

\* What is started is not followed by the connectEstablished of its connection.
LEMMA EstablishIsPast ==
  ASSUME NEW s \in Seq(ServerFunctors), EstablishFirst(s), NEW n \in Nat,
         n + 1 \in DOMAIN s, NEW c \in Conns, s[n + 1].conn = c
  PROVE  ~Left(s, n + 1, "establish", c)
  BY DEF EstablishFirst, Left

-----------------------------------------------------------------------------
(* All the queues. Each lemma says what a step does to the functors that   *)
(* wait, to those that refer to a connection, and to the order.            *)

\* What a state of the queues and batches looks like.
QueueTypes(queues, batches, done, at) ==
  /\ queues \in Queues /\ batches \in Queues
  /\ done \in [Loops -> Nat] /\ at \in [Conns -> Loops]

\* The swap at the head of doPendingFunctor().
LEMMA SwapKeeps ==
  ASSUME NEW p, NEW r, NEW t, NEW at, QueueTypes(p, r, t, at),
         NEW l \in Loops, r[l] = <<>>, t[l] = 0
  PROVE  LET q == [p EXCEPT ![l] = <<>>]
             b == [r EXCEPT ![l] = p[l]]
         IN  /\ \A f : Waiting(f, at, q, b, t) = Waiting(f, at, p, r, t)
             /\ Quoted(q, b) = Quoted(p, r)
             /\ Orderly(p, r, at) => Orderly(q, b, at)
<1> DEFINE q == [p EXCEPT ![l] = <<>>]
           b == [r EXCEPT ![l] = p[l]]
<1>1. /\ q[l] = <<>> /\ b[l] = p[l]
      /\ \A k \in Loops \ {l} : q[k] = p[k] /\ b[k] = r[k]
      /\ p[l] \in Seq(ServerFunctors)
      /\ \A c \in Conns : at[c] \in Loops
  BY DEF QueueTypes, Queues
<1> HIDE DEF q, b
<1>2. ASSUME NEW f PROVE Waiting(f, at, q, b, t) = Waiting(f, at, p, r, t)
  <2>1. ASSUME NEW c \in Conns, NEW k \in Loops
        PROVE  Has(q[k], f, c) \/ Left(b[k], t[k], f, c)
                 <=> Has(p[k], f, c) \/ Left(r[k], t[k], f, c)
    <3>1. CASE k = l
      BY <1>1, <3>1, EmptyQueue, LeftAtEnds
    <3>2. CASE k # l
      BY <1>1, <3>2
    <3> QED
      BY <3>1, <3>2
  <2> QED
    BY <1>1, <2>1 DEF Waiting
<1>3. Quoted(q, b) = Quoted(p, r)
  BY <1>1, EmptyQueue DEF Quoted
<1>4. ASSUME Orderly(p, r, at) PROVE Orderly(q, b, at)
  BY <1>1, <1>4, EmptyQueue DEF Orderly
<1> QED
  BY <1>2, <1>3, <1>4 DEF q, b

\* One more functor of a connection.
Appended(q, p, k, g, d) ==
  /\ g \in {"establish", "remove", "destroy", "send"}
  /\ q = [p EXCEPT ![k] = Append(@, Functor(g, d))]

LEMMA AppendLeavesOthers ==
  ASSUME NEW p, NEW r, NEW t, NEW at, NEW k, NEW g, NEW d, NEW q, NEW f,
         QueueTypes(p, r, t, at), k \in Loops, d \in Conns, Appended(q, p, k, g, d),
         f # g
  PROVE  Waiting(f, at, q, r, t) = Waiting(f, at, p, r, t)
<1>1. /\ q[k] = Append(p[k], Functor(g, d))
      /\ \A j \in Loops \ {k} : q[j] = p[j]
      /\ p[k] \in Seq(ServerFunctors) /\ Functor(g, d) \in ServerFunctors
      /\ \A c \in Conns : at[c] \in Loops
  BY ServerFunctorsAre DEF QueueTypes, Queues, Appended
<1>2. \A c : Has(q[k], f, c) <=> Has(p[k], f, c)
  BY <1>1, AppendedQueue, SameFunctor
<1>3. ASSUME NEW j \in Loops, NEW c
      PROVE  Has(q[j], f, c) <=> Has(p[j], f, c)
  BY <1>1, <1>2
<1> QED
  BY <1>1, <1>3 DEF Waiting

\* The loop of connection d is k.
Home(at, d, k) == at[d] = k

LEMMA AppendAdds ==
  ASSUME NEW p, NEW r, NEW t, NEW at, NEW k, NEW g, NEW d, NEW q,
         QueueTypes(p, r, t, at), k \in Loops, d \in Conns, Appended(q, p, k, g, d),
         Home(at, d, k)
  PROVE  Waiting(g, at, q, r, t) = Waiting(g, at, p, r, t) \cup {d}
<1>1. /\ q[k] = Append(p[k], Functor(g, d))
      /\ \A j \in Loops \ {k} : q[j] = p[j]
      /\ p[k] \in Seq(ServerFunctors) /\ Functor(g, d) \in ServerFunctors
      /\ \A c \in Conns : at[c] \in Loops
  BY ServerFunctorsAre DEF QueueTypes, Queues, Appended
<1>2. \A f, c : Has(q[k], f, c) <=> Has(p[k], f, c) \/ (g = f /\ d = c)
  BY <1>1, AppendedQueue, SameFunctor
<1>3. ASSUME NEW c \in Conns
      PROVE  Has(q[at[c]], g, c) <=> Has(p[at[c]], g, c) \/ c = d
  BY <1>1, <1>2 DEF Home
<1> QED
  BY <1>3 DEF Waiting

LEMMA AppendQuotes ==
  ASSUME NEW p, NEW r, NEW k, NEW g, NEW d, NEW q,
         p \in Queues, k \in Loops, d \in Conns, Appended(q, p, k, g, d)
  PROVE  q \in Queues /\ Quoted(q, r) = Quoted(p, r) \cup {d}
<1>1. /\ q[k] = Append(p[k], Functor(g, d))
      /\ \A j \in Loops \ {k} : q[j] = p[j]
      /\ p[k] \in Seq(ServerFunctors) /\ Functor(g, d) \in ServerFunctors
  BY ServerFunctorsAre DEF Queues, Appended
<1>2. q \in Queues
  BY QueuedInOne, ServerFunctorsAre DEF Appended
<1>3. \A c : Holds(q[k], c) <=> Holds(p[k], c) \/ d = c
  BY <1>1, AppendedQueue, SameFunctor
<1>4. ASSUME NEW j \in Loops, NEW c
      PROVE  Holds(q[j], c) <=> Holds(p[j], c) \/ (j = k /\ c = d)
  BY <1>1, <1>3
<1>5. Quoted(q, r) = Quoted(p, r) \cup {d}
  BY <1>4 DEF Quoted
<1> QED
  BY <1>2, <1>5

\* It is queued where it belongs, a connectEstablished as the first.
LEMMA AppendInOrder ==
  ASSUME NEW p, NEW r, NEW t, NEW at, NEW k, NEW g, NEW d, NEW q,
         QueueTypes(p, r, t, at), k \in Loops, d \in Conns, Appended(q, p, k, g, d),
         \/ g = "establish" /\ k = at[d] /\ k # 0 /\ d \notin Quoted(p, r)
         \/ g = "remove" /\ k = 0 /\ at[d] # 0
         \/ g \in {"destroy", "send"} /\ k = at[d]
  PROVE  /\ Orderly(p, r, at) => Orderly(q, r, at)
         /\ k # 0 \/ g # "destroy" =>
              \A c \in Conns : Has(q[0], "destroy", c) => Has(p[0], "destroy", c)
<1>1. /\ q[k] = Append(p[k], Functor(g, d))
      /\ \A j \in Loops \ {k} : q[j] = p[j]
      /\ p[k] \in Seq(ServerFunctors) /\ Functor(g, d) \in ServerFunctors
  BY ServerFunctorsAre DEF QueueTypes, Queues, Appended
<1>2. /\ \A f, c : Has(q[k], f, c) <=> Has(p[k], f, c) \/ (g = f /\ d = c)
      /\ \A c : Holds(q[k], c) <=> Holds(p[k], c) \/ d = c
  BY <1>1, AppendedQueue, SameFunctor
<1>3. ASSUME Orderly(p, r, at)
      PROVE  Orderly(q, r, at)
  <2>1. InPlace(q[k], k, at)
    BY <1>2, <1>3 DEF InPlace, Orderly
  <2>2. g = "establish" => ~Holds(p[k], d) /\ ~Holds(r[k], d)
    BY DEF Quoted
  <2>3. EstablishFirst(q[k])
    <3>1. EstablishFirst(p[k])
      BY <1>3 DEF Orderly
    <3> QED
      BY <1>1, <2>2, <3>1, AppendedQueue, SameFunctor
  <2>4. \A c \in Conns : Has(q[k], "establish", c) => ~Holds(r[k], c)
    BY <1>2, <1>3, <2>2 DEF Orderly
  <2> QED
    BY <1>1, <1>3, <2>1, <2>3, <2>4 DEF Orderly
<1>4. ASSUME k # 0 \/ g # "destroy", NEW c \in Conns, Has(q[0], "destroy", c)
      PROVE  Has(p[0], "destroy", c)
  BY <1>1, <1>2, <1>4, BaseLoop
<1> QED
  BY <1>3, <1>4

\* Acceptor::listen() is no functor of a connection.
ListenQueued(q, p) == q = [p EXCEPT ![0] = Append(@, Functor("listen", Acceptor))]

LEMMA ListenAdds ==
  ASSUME NEW p, NEW r, NEW t, NEW at, QueueTypes(p, r, t, at),
         NEW q, ListenQueued(q, p)
  PROVE  /\ q \in Queues
         /\ \A f : f # "listen" => Waiting(f, at, q, r, t) = Waiting(f, at, p, r, t)
         /\ Quoted(q, r) = Quoted(p, r)
         /\ Orderly(p, r, at) => Orderly(q, r, at)
         /\ \A c : Has(q[0], "destroy", c) <=> Has(p[0], "destroy", c)
<1>1. /\ q[0] = Append(p[0], Functor("listen", Acceptor))
      /\ \A j \in Loops \ {0} : q[j] = p[j]
      /\ p[0] \in Seq(ServerFunctors) /\ Functor("listen", Acceptor) \in ServerFunctors
      /\ \A c \in Conns : at[c] \in Loops
  BY ServerFunctorsAre, BaseLoop DEF QueueTypes, Queues, ListenQueued
<1>2. q \in Queues
  BY QueuedInOne, ServerFunctorsAre, BaseLoop DEF QueueTypes, ListenQueued
<1>3. ASSUME NEW j \in Loops
      PROVE  /\ \A f, c : f # "listen" => (Has(q[j], f, c) <=> Has(p[j], f, c))
             /\ \A c \in Conns : Holds(q[j], c) <=> Holds(p[j], c)
             /\ EstablishFirst(p[j]) => EstablishFirst(q[j])
  <2>1. CASE j = 0
    <3>1. \A f, c : Has(q[0], f, c)
                      <=> Has(p[0], f, c) \/ Functor("listen", Acceptor) = Functor(f, c)
      BY <1>1, AppendedQueue
    <3>2. \A c : Holds(q[0], c) <=> Holds(p[0], c) \/ Acceptor = c
      BY <1>1, AppendedQueue, SameFunctor
    <3>3. EstablishFirst(p[0]) => EstablishFirst(q[0])
      BY <1>1, AppendedQueue, SameFunctor
    <3> QED
      BY <2>1, <3>1, <3>2, <3>3, SameFunctor, BaseLoop
  <2>2. CASE j # 0
    BY <1>1, <2>2
  <2> QED
    BY <2>1, <2>2
<1>4. \A f : f # "listen" => Waiting(f, at, q, r, t) = Waiting(f, at, p, r, t)
  BY <1>1, <1>3 DEF Waiting
<1>5. Quoted(q, r) = Quoted(p, r)
  BY <1>3 DEF Quoted
<1>6. ASSUME Orderly(p, r, at) PROVE Orderly(q, r, at)
  BY <1>3, <1>6 DEF Orderly, InPlace
<1> QED
  BY <1>2, <1>3, <1>4, <1>5, <1>6, BaseLoop

\* The next functor of a batch is started; a connectEstablished waits no more
\* then, for there is only one of a connection.
Started(n, F, r, t, l) ==
  /\ t[l] + 1 \in DOMAIN r[l]
  /\ n = [t EXCEPT ![l] = @ + 1]
  /\ F = r[l][t[l] + 1]

LEMMA StartTakes ==
  ASSUME NEW p, NEW r, NEW t, NEW at, QueueTypes(p, r, t, at),
         NEW l \in Loops, NEW n, NEW F, Started(n, F, r, t, l)
  PROVE  /\ \A f : f # F.do => Waiting(f, at, p, r, n) = Waiting(f, at, p, r, t)
         /\ \A f : Waiting(f, at, p, r, n) \subseteq Waiting(f, at, p, r, t)
         /\ \A f : Waiting(f, at, p, r, t) \ {F.conn} \subseteq Waiting(f, at, p, r, n)
         /\ F.conn \in Conns /\ at[F.conn] = l /\ F = Functor(F.do, F.conn)
              => F.conn \in Waiting(F.do, at, p, r, t)
         /\ F.conn \in Conns => F.conn \in Quoted(p, r)
         /\ Orderly(p, r, at) /\ at[F.conn] = l /\ F.conn \in Conns
              => F.conn \notin Waiting("establish", at, p, r, n)
<1>1. /\ n[l] = t[l] + 1 /\ t[l] \in Nat
      /\ \A k \in Loops \ {l} : n[k] = t[k]
      /\ r[l] \in Seq(ServerFunctors)
      /\ \A c \in Conns : at[c] \in Loops
      /\ n[l] \in DOMAIN r[l] /\ F = r[l][n[l]]
  BY DEF QueueTypes, Queues, Started
<1>2. \A f, c : Left(r[l], t[l], f, c) <=> Left(r[l], n[l], f, c) \/ F = Functor(f, c)
  BY <1>1, LeftAfterStart DEF Started
<1>3. Holds(r[l], F.conn)
  BY <1>1 DEF Holds
<1>4. ASSUME NEW f, f # F.do
      PROVE  Waiting(f, at, p, r, n) = Waiting(f, at, p, r, t)
  <2>1. \A c : Left(r[l], t[l], f, c) <=> Left(r[l], n[l], f, c)
    BY <1>2, <1>4, SameFunctor
  <2>2. \A k \in Loops : \A c : Left(r[k], t[k], f, c) <=> Left(r[k], n[k], f, c)
    BY <1>1, <2>1
  <2> QED
    BY <1>1, <2>2 DEF Waiting
<1>5. ASSUME NEW f
      PROVE  /\ Waiting(f, at, p, r, n) \subseteq Waiting(f, at, p, r, t)
             /\ Waiting(f, at, p, r, t) \ {F.conn} \subseteq Waiting(f, at, p, r, n)
  <2>1. \A k \in Loops : \A c : Left(r[k], n[k], f, c) => Left(r[k], t[k], f, c)
    BY <1>1, <1>2
  <2>2. \A k \in Loops : \A c :
          Left(r[k], t[k], f, c) /\ c # F.conn => Left(r[k], n[k], f, c)
    BY <1>1, <1>2, SameFunctor
  <2> QED
    BY <1>1, <2>1, <2>2 DEF Waiting
<1>6. ASSUME F.conn \in Conns, at[F.conn] = l, F = Functor(F.do, F.conn)
      PROVE  F.conn \in Waiting(F.do, at, p, r, t)
  BY <1>2, <1>6 DEF Waiting
<1>7. ASSUME Orderly(p, r, at), at[F.conn] = l, F.conn \in Conns
      PROVE  F.conn \notin Waiting("establish", at, p, r, n)
  <2>1. ~Has(p[l], "establish", F.conn) /\ EstablishFirst(r[l])
    BY <1>3, <1>7 DEF Orderly
  <2>2. ~Left(r[l], n[l], "establish", F.conn)
    BY <1>1, <1>7, <2>1, EstablishIsPast DEF Started
  <2> QED
    BY <1>7, <2>1, <2>2 DEF Waiting
<1>8. F.conn \in Conns => F.conn \in Quoted(p, r)
  BY <1>3 DEF Quoted
<1> QED
  BY <1>4, <1>5, <1>6, <1>7, <1>8

\* A batch that has run is cleared.
LEMMA BatchGoes ==
  ASSUME NEW p, NEW r, NEW t, NEW at, QueueTypes(p, r, t, at),
         NEW l \in Loops, t[l] = Len(r[l])
  PROVE  LET b == [r EXCEPT ![l] = <<>>]
             n == [t EXCEPT ![l] = 0]
         IN  /\ QueueTypes(p, b, n, at)
             /\ \A f : Waiting(f, at, p, b, n) = Waiting(f, at, p, r, t)
             /\ Quoted(p, b) \subseteq Quoted(p, r)
             /\ Orderly(p, r, at) => Orderly(p, b, at)
<1> DEFINE b == [r EXCEPT ![l] = <<>>]
           n == [t EXCEPT ![l] = 0]
<1>1. /\ b[l] = <<>> /\ \A k \in Loops \ {l} : b[k] = r[k] /\ n[k] = t[k]
      /\ r[l] \in Seq(ServerFunctors)
      /\ \A c \in Conns : at[c] \in Loops
  BY DEF QueueTypes, Queues
<1>2. QueueTypes(p, b, n, at)
  <2>1. b \in Queues
    BY EmptiedOne DEF QueueTypes
  <2> QED
    BY <2>1 DEF QueueTypes
<1> HIDE DEF b, n
<1>3. ASSUME NEW f PROVE Waiting(f, at, p, b, n) = Waiting(f, at, p, r, t)
  <2>1. \A k \in Loops : \A c : Left(b[k], n[k], f, c) <=> Left(r[k], t[k], f, c)
    BY <1>1, LeftAtEnds, EmptyQueue
  <2> QED
    BY <1>1, <2>1 DEF Waiting
<1>4. Quoted(p, b) \subseteq Quoted(p, r)
  BY <1>1, EmptyQueue DEF Quoted
<1>5. ASSUME Orderly(p, r, at) PROVE Orderly(p, b, at)
  BY <1>1, <1>5, EmptyQueue DEF Orderly
<1> QED
  BY <1>2, <1>3, <1>4, <1>5 DEF b, n

\* A loop's queue is destroyed with the loop.
LEMMA QueueGoes ==
  ASSUME NEW p, NEW r, NEW t, NEW at, QueueTypes(p, r, t, at),
         NEW l \in Loops, r[l] = <<>>
  PROVE  LET q == [p EXCEPT ![l] = <<>>]
         IN  /\ \A f : Waiting(f, at, q, r, t) = {c \in Waiting(f, at, p, r, t) : at[c] # l}
             /\ \A f : \A c \in Waiting(f, at, p, r, t) : at[c] = l => Has(p[l], f, c)
             /\ Quoted(q, r) \subseteq Quoted(p, r)
             /\ Orderly(p, r, at) => Orderly(q, r, at)
<1> DEFINE q == [p EXCEPT ![l] = <<>>]
<1>1. /\ q[l] = <<>> /\ \A k \in Loops \ {l} : q[k] = p[k]
      /\ \A c \in Conns : at[c] \in Loops
  BY DEF QueueTypes, Queues
<1> HIDE DEF q
<1>2. ASSUME NEW f
      PROVE  /\ Waiting(f, at, q, r, t) = {c \in Waiting(f, at, p, r, t) : at[c] # l}
             /\ \A c \in Waiting(f, at, p, r, t) : at[c] = l => Has(p[l], f, c)
  BY <1>1, EmptyQueue DEF Waiting
<1>3. Quoted(q, r) \subseteq Quoted(p, r)
  BY <1>1, EmptyQueue DEF Quoted
<1>4. ASSUME Orderly(p, r, at) PROVE Orderly(q, r, at)
  BY <1>1, <1>4, EmptyQueue DEF Orderly
<1> QED
  BY <1>2, <1>3, <1>4 DEF q

\* A connection that no functor refers to may be given any loop.
Moved(a, at, d, l) == a = [at EXCEPT ![d] = l]

LEMMA NewLoopKeeps ==
  ASSUME NEW p, NEW r, NEW t, NEW at, QueueTypes(p, r, t, at),
         NEW d \in Conns, d \notin Quoted(p, r), NEW l \in Loops,
         NEW a, Moved(a, at, d, l)
  PROVE  /\ \A f : Waiting(f, a, p, r, t) = Waiting(f, at, p, r, t)
         /\ Orderly(p, r, at) => Orderly(p, r, a)
<1>1. a[d] = l /\ \A c \in Conns \ {d} : a[c] = at[c]
  BY DEF QueueTypes, Moved
<1>2. \A k \in Loops : \A f : ~Has(p[k], f, d) /\ ~Has(r[k], f, d)
  BY HasHolds DEF Quoted
<1>3. \A k \in Loops : \A f, n : ~Left(r[k], n, f, d)
  BY <1>2 DEF Left, Has
<1>4. ASSUME NEW f PROVE Waiting(f, a, p, r, t) = Waiting(f, at, p, r, t)
  <2>1. at[d] \in Loops
    BY DEF QueueTypes
  <2> QED
    BY <1>1, <1>2, <1>3, <2>1 DEF Waiting
<1>5. ASSUME Orderly(p, r, at) PROVE Orderly(p, r, a)
  BY <1>1, <1>2, <1>5 DEF Orderly, InPlace
<1> QED
  BY <1>4, <1>5

-----------------------------------------------------------------------------
(* What each action does to the functors that wait.                        *)

\* The connections that functors are bound to.
Bound == Quoted(pending, running)

SameFunctors ==
  ToEstablish' = ToEstablish /\ ToRemove' = ToRemove /\ ToDestroy' = ToDestroy

LEMMA QueuesNow ==
  ASSUME LoopTypes, MapTypes
  PROVE  /\ QueueTypes(pending, running, taken, loop)
         /\ QueueTypes(pending, running, taken, AtBase)
  BY BaseLoop DEF LoopTypes, MapTypes, QueueTypes, AtBase

\* Most actions leave the queues alone.
LEMMA QueuesStay ==
  ASSUME UNCHANGED <<pending, running, taken, loop>>
  PROVE  /\ SameFunctors /\ Bound' = Bound
         /\ Orderly(pending, running, loop) => Orderly(pending, running, loop)'
  BY DEF SameFunctors, ToEstablish, ToRemove, ToDestroy, Bound, AtBase, Waiting,
         Quoted, Orderly

LEMMA FunctorsStay ==
  ASSUME Functors, UNCHANGED <<pending, running, taken, loop>>,
         \A l \in Loops : loopAt'[l] = loopAt[l] \/ loopAt[l] = "none",
         loopAt[0] = "events" => loopAt'[0] = "events"
  PROVE  Functors'
<1>1. Orderly(pending, running, loop)'
  BY QueuesStay DEF Functors
<1>2. Batches'
  BY DEF Functors, Batches
<1> QED
  BY <1>1, <1>2 DEF Functors

\* The end of an event handler that has made its queues out of the loops'.
LEMMA HandledKeeps ==
  ASSUME LoopTypes, Batches, NEW l \in Loops, NEW ch, NEW queue, Handled(l, ch, queue),
         NEW at, QueueTypes(queue, running, taken, at)
  PROVE  /\ \A f : Waiting(f, at, pending', running', taken')
                     = Waiting(f, at, queue, running, taken)
         /\ Quoted(pending', running') = Quoted(queue, running)
         /\ Orderly(queue, running, at) => Orderly(pending', running', at)
         /\ (\A c \in Conns : Has(queue[0], "destroy", c) => loopAt[0] = "events")
              => Batches'
<1>1. /\ running[l] = <<>> /\ taken[l] = 0 /\ taken' = taken
      /\ loopAt[l] = "events"
  BY DEF Handled, Batches
<1>2. queue \in Queues /\ DOMAIN loopAt = Loops /\ running \in Queues
  BY DEF QueueTypes, LoopTypes
<1>3. CASE active[l] = {ch}
  <2> DEFINE q == [queue EXCEPT ![l] = <<>>]
             b == [running EXCEPT ![l] = queue[l]]
  <2>1. /\ pending' = q /\ running' = b
        /\ loopAt' = [loopAt EXCEPT ![l] = "functors"]
    BY <1>3 DEF Handled, swapFunctors
  <2>2. /\ \A f : Waiting(f, at, q, b, taken) = Waiting(f, at, queue, running, taken)
        /\ Quoted(q, b) = Quoted(queue, running)
        /\ Orderly(queue, running, at) => Orderly(q, b, at)
    BY <1>1, SwapKeeps
  <2>3. \A k \in Loops : loopAt'[k] # "functors" => running'[k] = <<>> /\ taken'[k] = 0
    BY <1>1, <1>2, <2>1 DEF Batches, Queues
  <2>4. \A c \in Conns : Has(pending'[0], "destroy", c) =>
          l # 0 /\ Has(queue[0], "destroy", c)
    BY <1>2, <2>1, BaseLoop, EmptyQueue DEF Queues
  <2>5. l # 0 => loopAt'[0] = loopAt[0]
    BY <1>2, <2>1, BaseLoop
  <2> HIDE DEF q, b
  <2> QED
    BY <1>1, <2>1, <2>2, <2>3, <2>4, <2>5 DEF Batches
<1>4. CASE active[l] # {ch}
  <2>1. pending' = queue /\ running' = running /\ loopAt' = loopAt
    BY <1>4 DEF Handled
  <2> QED
    BY <1>1, <2>1 DEF Batches
<1> QED
  BY <1>3, <1>4

LEMMA PollQueues ==
  ASSUME Types, Functors, NEW l \in Loops, pollEvents(l)
  PROVE  SameFunctors /\ Bound' = Bound /\ Functors'
<1>1. /\ QueueTypes(pending, running, taken, loop)
      /\ QueueTypes(pending, running, taken, AtBase)
      /\ running[l] = <<>> /\ taken[l] = 0 /\ taken' = taken /\ loop' = loop
      /\ loopAt[l] = "idle" /\ DOMAIN loopAt = Loops /\ AtBase' = AtBase
  <2>1. LoopTypes /\ MapTypes /\ DOMAIN loopAt = Loops /\ AtBase' = AtBase
    BY DEF Types, LoopTypes, AtBase
  <2>2. loopAt[l] = "idle" /\ taken' = taken /\ loop' = loop
    BY DEF pollEvents, mapVars
  <2> QED
    BY <2>1, <2>2, QueuesNow DEF Functors, Batches
<1>2. CASE active'[l] = {}
  <2> DEFINE q == [pending EXCEPT ![l] = <<>>]
             b == [running EXCEPT ![l] = pending[l]]
  <2>1. /\ pending' = q /\ running' = b
        /\ loopAt' = [loopAt EXCEPT ![l] = "functors"]
    BY <1>2 DEF pollEvents, swapFunctors
  <2>2. /\ Waiting("establish", loop, q, b, taken) = ToEstablish
        /\ Waiting("remove", AtBase, q, b, taken) = ToRemove
        /\ Waiting("destroy", loop, q, b, taken) = ToDestroy
        /\ Quoted(q, b) = Bound /\ Orderly(q, b, loop)
    BY <1>1, SwapKeeps DEF ToEstablish, ToRemove, ToDestroy, Bound, Functors
  <2>6. SameFunctors /\ Bound' = Bound /\ Orderly(pending, running, loop)'
    <3> HIDE DEF q, b
    <3> QED
      BY <1>1, <2>1, <2>2 DEF SameFunctors, ToEstablish, ToRemove, ToDestroy, Bound
  <2>3. \A k \in Loops : loopAt'[k] # "functors" => running'[k] = <<>> /\ taken'[k] = 0
    BY <1>1, <2>1 DEF Batches, Functors, QueueTypes, Queues
  <2>4. \A c \in Conns : Has(pending'[0], "destroy", c) =>
          l # 0 /\ Has(pending[0], "destroy", c)
    BY <1>1, <2>1, BaseLoop, EmptyQueue DEF QueueTypes, Queues
  <2>5. l # 0 => loopAt'[0] = loopAt[0]
    BY <1>1, <2>1, BaseLoop
  <2> QED
    BY <2>3, <2>4, <2>5, <2>6 DEF Functors, Batches
<1>3. CASE active'[l] # {}
  <2>1. /\ pending' = pending /\ running' = running
        /\ loopAt' = [loopAt EXCEPT ![l] = "events"]
    BY <1>3 DEF pollEvents
  <2>2. SameFunctors /\ Bound' = Bound /\ Orderly(pending, running, loop)'
    BY <1>1, <2>1, QueuesStay DEF Functors
  <2>3. Batches'
    BY <1>1, <2>1 DEF Functors, Batches
  <2> QED
    BY <2>2, <2>3 DEF Functors
<1> QED
  BY <1>2, <1>3

\* An event that queues nothing.
LEMMA HandledQueues ==
  ASSUME Types, Functors, NEW l \in Loops, NEW ch, Handled(l, ch, pending), loop' = loop
  PROVE  SameFunctors /\ Bound' = Bound /\ Functors'
<1>1. /\ QueueTypes(pending, running, taken, loop)
      /\ QueueTypes(pending, running, taken, AtBase)
      /\ LoopTypes /\ Batches /\ Orderly(pending, running, loop) /\ AtBase' = AtBase
  BY QueuesNow DEF Types, Functors, AtBase
<1>2. /\ Waiting("establish", loop, pending', running', taken') = ToEstablish
      /\ Waiting("remove", AtBase, pending', running', taken') = ToRemove
      /\ Waiting("destroy", loop, pending', running', taken') = ToDestroy
      /\ Quoted(pending', running') = Bound
      /\ Orderly(pending', running', loop)
    BY <1>1, HandledKeeps DEF ToEstablish, ToRemove, ToDestroy, Bound
<1>3. Batches'
  <2>1. \A c \in Conns : Has(pending[0], "destroy", c) => loopAt[0] = "events"
    BY <1>1 DEF Batches
  <2> QED
    BY <1>1, <2>1, HandledKeeps
<1> QED
  BY <1>1, <1>2, <1>3 DEF SameFunctors, ToEstablish, ToRemove, ToDestroy, Bound, Functors

\* handleClose() queues what ends the connection, in the base loop or in its own
\* when that is the same.
LEMMA CloseQueues ==
  ASSUME Types, Functors, NEW l \in Loops, NEW c \in Conns, loop[c] = l, handleClose(l, c)
  PROVE  /\ ToEstablish' = ToEstablish
         /\ ToRemove' = IF l = 0 THEN ToRemove ELSE ToRemove \cup {c}
         /\ ToDestroy' = IF l = 0 THEN ToDestroy \cup {c} ELSE ToDestroy
         /\ Bound' = Bound \cup {c}
         /\ Functors'
<1> DEFINE g == IF l = 0 THEN "destroy" ELSE "remove"
           queue == [pending EXCEPT ![0] = Append(@, Functor(g, c))]
<1>1. /\ QueueTypes(pending, running, taken, loop)
      /\ QueueTypes(pending, running, taken, AtBase)
      /\ LoopTypes /\ Batches /\ Orderly(pending, running, loop) /\ AtBase' = AtBase
      /\ AtBase[c] = 0
  BY QueuesNow DEF Types, Functors, AtBase
<1>2. Handled(l, c, queue) /\ loop' = loop /\ loopAt[l] = "events"
  BY DEF handleClose, removeConnectionInLoop, mapVars
<1>3. g \in {"remove", "destroy"} /\ 0 \in Loops
  BY BaseLoop
<1>4. /\ queue \in Queues
      /\ Waiting("establish", loop, queue, running, taken) = ToEstablish
      /\ Waiting("remove", AtBase, queue, running, taken)
           = IF l = 0 THEN ToRemove ELSE ToRemove \cup {c}
      /\ Waiting("destroy", loop, queue, running, taken)
           = IF l = 0 THEN ToDestroy \cup {c} ELSE ToDestroy
      /\ Quoted(queue, running) = Bound \cup {c}
      /\ Orderly(queue, running, loop)
      /\ l # 0 => \A d \in Conns :
           Has(queue[0], "destroy", d) => Has(pending[0], "destroy", d)
  <2>1. Appended(queue, pending, 0, g, c)
    BY <1>3 DEF Appended
  <2>2. (g = "destroy" /\ l = 0) \/ (g = "remove" /\ l # 0)
    OBVIOUS
  <2> HIDE DEF queue, g
  <2>3. /\ queue \in Queues
        /\ \A f : f # g => Waiting(f, loop, queue, running, taken)
                             = Waiting(f, loop, pending, running, taken)
        /\ l = 0 => Waiting(g, loop, queue, running, taken)
                      = Waiting(g, loop, pending, running, taken) \cup {c}
        /\ Quoted(queue, running) = Quoted(pending, running) \cup {c}
    <3>1. QueueTypes(pending, running, taken, loop) /\ 0 \in Loops /\ loop[c] = l
      BY <1>1, <1>3
    <3>2. queue \in Queues /\ Quoted(queue, running) = Quoted(pending, running) \cup {c}
      BY <2>1, <3>1, AppendQuotes DEF QueueTypes
    <3>3. l = 0 => Home(loop, c, 0)
      BY <3>1 DEF Home
    <3> QED
      BY <2>1, <3>1, <3>2, <3>3, AppendAdds, AppendLeavesOthers
  <2>5. Orderly(queue, running, loop)
    BY <1>1, <1>3, <2>1, <2>2, AppendInOrder
  <2>6. l # 0 => \A d \in Conns : Has(queue[0], "destroy", d) => Has(pending[0], "destroy", d)
    BY <1>1, <1>3, <2>1, <2>2, AppendInOrder
  <2>4. /\ \A f : f # g => Waiting(f, AtBase, queue, running, taken)
                             = Waiting(f, AtBase, pending, running, taken)
        /\ Waiting(g, AtBase, queue, running, taken)
             = Waiting(g, AtBase, pending, running, taken) \cup {c}
    <3>1. QueueTypes(pending, running, taken, AtBase) /\ Home(AtBase, c, 0) /\ 0 \in Loops
      BY <1>1, <1>3 DEF Home
    <3> QED
      BY <2>1, <3>1, AppendAdds, AppendLeavesOthers
  <2> QED
    BY <2>2, <2>3, <2>4, <2>5, <2>6 DEF ToEstablish, ToRemove, ToDestroy, Bound
<1>5. /\ QueueTypes(queue, running, taken, loop)
      /\ QueueTypes(queue, running, taken, AtBase)
  BY <1>1, <1>4 DEF QueueTypes
<1>6. \A d \in Conns : Has(queue[0], "destroy", d) => loopAt[0] = "events"
  BY <1>1, <1>2, <1>4 DEF Batches
<1> HIDE DEF queue, g
<1>7. /\ Waiting("establish", loop, pending', running', taken')
           = Waiting("establish", loop, queue, running, taken)
      /\ Waiting("remove", AtBase, pending', running', taken')
           = Waiting("remove", AtBase, queue, running, taken)
      /\ Waiting("destroy", loop, pending', running', taken')
           = Waiting("destroy", loop, queue, running, taken)
      /\ Quoted(pending', running') = Quoted(queue, running)
      /\ Orderly(pending', running', loop) /\ Batches'
  BY <1>1, <1>2, <1>4, <1>5, <1>6, HandledKeeps
<1> QED
  BY <1>1, <1>2, <1>4, <1>7 DEF ToEstablish, ToRemove, ToDestroy, Bound, Functors

\* newConnection() queues connectEstablished, unless the base loop is the
\* connection's and it runs at once.
LEMMA AcceptQueues ==
  ASSUME Types, Functors, Bound \subseteq Made, waiting > 0, NEW sock, newConnection(sock)
  PROVE  /\ ToEstablish' = IF getNextLoop = 0 THEN ToEstablish
                                              ELSE ToEstablish \cup {made + 1}
         /\ ToRemove' = ToRemove /\ ToDestroy' = ToDestroy
         /\ Bound' = IF getNextLoop = 0 THEN Bound ELSE Bound \cup {made + 1}
         /\ Functors'
<1> DEFINE c == made + 1
           l == getNextLoop
           at == [loop EXCEPT ![c] = l]
           queue == [pending EXCEPT ![l] = Append(@, Functor("establish", c))]
<1>1. /\ QueueTypes(pending, running, taken, loop)
      /\ QueueTypes(pending, running, taken, AtBase)
      /\ LoopTypes /\ Batches /\ Orderly(pending, running, loop) /\ AtBase' = AtBase
      /\ loop \in [Conns -> Loops]
  BY QueuesNow DEF Types, Functors, AtBase, MapTypes
<1>2. c \in Conns /\ c \notin Bound
  BY BoundsAssumption DEF Types, MapTypes, Conns, Made
<1>3. l \in Loops
  BY BoundsAssumption DEF Types, PoolTypes, getNextLoop, Loops
<1>4. loop' = at /\ at[c] = l /\ at \in [Conns -> Loops]
  BY <1>1, <1>2, <1>3 DEF newConnection
<1>5. /\ Waiting("establish", at, pending, running, taken) = ToEstablish
      /\ Waiting("destroy", at, pending, running, taken) = ToDestroy
      /\ Orderly(pending, running, at)
      /\ QueueTypes(pending, running, taken, at)
  <2>1. QueueTypes(pending, running, taken, at)
    BY <1>1, <1>4 DEF QueueTypes
  <2>2. Moved(at, loop, c, l)
    BY DEF Moved
  <2> HIDE DEF c, l, at
  <2>3. /\ \A f : Waiting(f, at, pending, running, taken)
                   = Waiting(f, loop, pending, running, taken)
        /\ Orderly(pending, running, at)
    BY <1>1, <1>2, <1>3, <2>2, NewLoopKeeps DEF Bound
  <2> QED
    BY <2>1, <2>3 DEF ToEstablish, ToDestroy
<1>6. Appended(queue, pending, l, "establish", c)
  BY DEF Appended
<1>7. CASE l = 0
  <2>1. Handled(0, Acceptor, pending)
    BY <1>7 DEF newConnection
  <2>2. \A d \in Conns : Has(pending[0], "destroy", d) => loopAt[0] = "events"
    BY <1>1 DEF Batches
  <2> HIDE DEF c, l, at, queue
  <2>3. /\ Waiting("establish", at, pending', running', taken') = ToEstablish
        /\ Waiting("destroy", at, pending', running', taken') = ToDestroy
        /\ Waiting("remove", AtBase, pending', running', taken') = ToRemove
        /\ Quoted(pending', running') = Bound
        /\ Orderly(pending', running', at) /\ Batches'
    BY <1>1, <1>5, <2>1, <2>2, HandledKeeps, BaseLoop DEF ToRemove, Bound
  <2> QED
    BY <1>1, <1>4, <1>7, <2>3 DEF ToEstablish, ToRemove, ToDestroy, Bound, Functors, l
<1>8. CASE l # 0
  <2>1. Handled(0, Acceptor, queue)
    BY <1>8 DEF newConnection
  <2> HIDE DEF c, l, at, queue
  <2>2. /\ queue \in Queues
        /\ Waiting("establish", at, queue, running, taken) = ToEstablish \cup {c}
        /\ Waiting("destroy", at, queue, running, taken) = ToDestroy
        /\ Quoted(queue, running) = Bound \cup {c}
    <3>1. queue \in Queues /\ Quoted(queue, running) = Bound \cup {c}
      BY <1>2, <1>3, <1>5, <1>6, AppendQuotes DEF Bound, QueueTypes
    <3>2. Waiting("establish", at, queue, running, taken)
            = Waiting("establish", at, pending, running, taken) \cup {c}
      <4>1. Home(at, c, l)
        BY <1>4 DEF Home
      <4> QED
        BY <1>2, <1>3, <1>5, <1>6, <4>1, AppendAdds
    <3>3. Waiting("destroy", at, queue, running, taken)
            = Waiting("destroy", at, pending, running, taken)
      BY <1>2, <1>3, <1>5, <1>6, AppendLeavesOthers
    <3> QED
      BY <1>5, <3>1, <3>2, <3>3
  <2>3. /\ Orderly(queue, running, at)
        /\ \A d \in Conns : Has(queue[0], "destroy", d) => Has(pending[0], "destroy", d)
    BY <1>2, <1>3, <1>4, <1>5, <1>6, <1>8, AppendInOrder DEF Bound
  <2>4. Waiting("remove", AtBase, queue, running, taken) = ToRemove
    <3>1. QueueTypes(pending, running, taken, AtBase)
      BY <1>1
    <3> QED
      BY <1>2, <1>3, <1>6, <3>1, AppendLeavesOthers DEF ToRemove
  <2>5. /\ QueueTypes(queue, running, taken, at)
        /\ QueueTypes(queue, running, taken, AtBase)
        /\ \A d \in Conns : Has(queue[0], "destroy", d) => loopAt[0] = "events"
    BY <1>1, <1>5, <2>2, <2>3 DEF QueueTypes, Batches
  <2>6. /\ Waiting("establish", at, pending', running', taken') = ToEstablish \cup {c}
        /\ Waiting("destroy", at, pending', running', taken') = ToDestroy
        /\ Waiting("remove", AtBase, pending', running', taken') = ToRemove
        /\ Quoted(pending', running') = Bound \cup {c}
        /\ Orderly(pending', running', at) /\ Batches'
    BY <1>1, <2>1, <2>2, <2>3, <2>4, <2>5, HandledKeeps, BaseLoop
  <2> QED
    BY <1>1, <1>4, <1>8, <2>6
    DEF ToEstablish, ToRemove, ToDestroy, Bound, Functors, l, c
<1> QED
  BY <1>7, <1>8

\* The last step of start(): connections are not concerned, whoever registers the
\* acceptor.
LEMMA ListeningQueues ==
  ASSUME Types, Functors, NEW s \in Callers, startListening(s)
  PROVE  SameFunctors /\ Bound' = Bound /\ Functors'
<1>1. /\ QueueTypes(pending, running, taken, loop)
      /\ QueueTypes(pending, running, taken, AtBase)
      /\ Batches /\ Orderly(pending, running, loop) /\ AtBase' = AtBase
  BY QueuesNow DEF Types, Functors, AtBase
<1>2. UNCHANGED <<running, taken, loopAt, loop>>
  BY DEF startListening, mapVars, turnVars
<1>3. CASE pending' = pending
  BY <1>2, <1>3, QueuesStay, FunctorsStay
<1>4. CASE pending' # pending
  <2>1. pending' = [pending EXCEPT ![0] = Append(@, Functor("listen", Acceptor))]
    BY <1>4 DEF startListening, Queue
  <2>2. /\ Waiting("establish", loop, pending', running, taken) = ToEstablish
        /\ Waiting("remove", AtBase, pending', running, taken) = ToRemove
        /\ Waiting("destroy", loop, pending', running, taken) = ToDestroy
        /\ Quoted(pending', running) = Bound /\ Orderly(pending', running, loop)
        /\ \A c : Has(pending'[0], "destroy", c) <=> Has(pending[0], "destroy", c)
    <3>1. ASSUME NEW at, QueueTypes(pending, running, taken, at)
          PROVE  /\ \A f : f # "listen" => Waiting(f, at, pending', running, taken)
                                           = Waiting(f, at, pending, running, taken)
                 /\ Quoted(pending', running) = Quoted(pending, running)
                 /\ Orderly(pending, running, at) => Orderly(pending', running, at)
                 /\ \A c : Has(pending'[0], "destroy", c) <=> Has(pending[0], "destroy", c)
      <4>1. ListenQueued(pending', pending)
        BY <2>1 DEF ListenQueued
      <4> QED
        BY <3>1, <4>1, ListenAdds
    <3> QED
      BY <1>1, <3>1 DEF ToEstablish, ToRemove, ToDestroy, Bound
  <2>3. Batches'
    BY <1>1, <1>2, <2>2 DEF Batches
  <2> QED
    BY <1>1, <1>2, <2>2, <2>3
    DEF SameFunctors, ToEstablish, ToRemove, ToDestroy, Bound, Functors
<1> QED
  BY <1>3, <1>4

-----------------------------------------------------------------------------
(* A functor is started.                                                   *)

\* The connection it is bound to, and where that connection belongs.
LEMMA StartedWhere ==
  ASSUME Types, Functors, NEW l \in Loops,
         NEW g \in {"establish", "remove", "destroy", "send"}, StartFunctor(l, g)
  PROVE  /\ conn(l) \in Conns /\ conn(l) \in Bound
         /\ g = "establish" => l = loop[conn(l)] /\ l # 0 /\ conn(l) \in ToEstablish
         /\ g = "remove" => l = 0 /\ loop[conn(l)] # 0 /\ conn(l) \in ToRemove
         /\ g = "destroy" => l = loop[conn(l)] /\ conn(l) \in ToDestroy
         /\ g = "send" => l = loop[conn(l)]
<1> DEFINE d == conn(l)
           F == running[l][taken[l] + 1]
<1>1. /\ d \in Conns /\ F.do = g /\ F.conn = d
      /\ taken[l] + 1 \in DOMAIN running[l] /\ running[l] \in Seq(ServerFunctors)
  BY StartedFunctor DEF Types, conn, LoopTypes, Queues
<1>2. F \in ServerFunctors
  BY <1>1, ElementOfSeq, LenProperties
<1>3. F = Functor(g, d)
  BY <1>1, <1>2 DEF ServerFunctors, Functor
<1> HIDE DEF F, d
<1>4. Has(running[l], g, d)
  BY <1>1, <1>3 DEF Has, F
<1>5. InPlace(running[l], l, loop) /\ AtBase[d] = 0
  BY <1>1 DEF Functors, Orderly, AtBase
<1>6. QueueTypes(pending, running, taken, loop) /\ QueueTypes(pending, running, taken, AtBase)
  BY QueuesNow DEF Types
<1>7. d \in Bound
  BY <1>1, <1>4, HasHolds DEF Bound, Quoted
<1>8. ASSUME NEW at, QueueTypes(pending, running, taken, at), at[d] = l
      PROVE  d \in Waiting(g, at, pending, running, taken)
  <2>1. Started([taken EXCEPT ![l] = @ + 1], F, running, taken, l)
    BY <1>1 DEF Started, F
  <2> QED
    BY <1>1, <1>3, <1>8, <2>1, StartTakes
<1> QED
  BY <1>1, <1>4, <1>5, <1>6, <1>7, <1>8 DEF InPlace, ToEstablish, ToRemove, ToDestroy, d

\* The functors that wait, when nothing is queued meanwhile.
LEMMA StartedQueues ==
  ASSUME Types, Functors, NEW l \in Loops,
         NEW g \in {"listen", "establish", "remove", "destroy", "send"},
         StartFunctor(l, g), loop' = loop
  PROVE  /\ g # "establish" =>
              ToEstablish = Waiting("establish", loop, pending, running, taken')
         /\ g # "remove" => ToRemove = Waiting("remove", AtBase, pending, running, taken')
         /\ g # "destroy" => ToDestroy = Waiting("destroy", loop, pending, running, taken')
         /\ g = "establish" =>
              Waiting("establish", loop, pending, running, taken') = ToEstablish \ {conn(l)}
         /\ Waiting("remove", AtBase, pending, running, taken') \subseteq ToRemove
         /\ ToRemove \ {conn(l)} \subseteq Waiting("remove", AtBase, pending, running, taken')
         /\ Waiting("destroy", loop, pending, running, taken') \subseteq ToDestroy
         /\ ToDestroy \ {conn(l)} \subseteq Waiting("destroy", loop, pending, running, taken')
         /\ g \in {"destroy", "send"} => conn(l) \notin ToEstablish
         /\ QueueTypes(pending, running, taken', loop)
         /\ QueueTypes(pending, running, taken', AtBase)
<1> DEFINE n == [taken EXCEPT ![l] = @ + 1]
           F == running[l][taken[l] + 1]
<1>1. /\ taken' = n /\ taken[l] + 1 \in DOMAIN running[l]
      /\ F.do = g /\ F.conn = conn(l) /\ n \in [Loops -> Nat]
  <2>1. LoopTypes
    BY DEF Types
  <2>2. taken' \in [Loops -> Nat] /\ taken[l] + 1 \in DOMAIN running[l] /\ F.do = g
    BY <2>1, StartedFunctor
  <2> QED
    BY <2>2 DEF StartFunctor, conn
<1>2. QueueTypes(pending, running, taken, loop) /\ QueueTypes(pending, running, taken, AtBase)
  BY QueuesNow DEF Types
<1>3. QueueTypes(pending, running, n, loop) /\ QueueTypes(pending, running, n, AtBase)
  BY <1>1, <1>2 DEF QueueTypes
<1>4. ASSUME NEW at, QueueTypes(pending, running, taken, at)
      PROVE  /\ \A f : f # g => Waiting(f, at, pending, running, n)
                                  = Waiting(f, at, pending, running, taken)
             /\ \A f : Waiting(f, at, pending, running, n)
                         \subseteq Waiting(f, at, pending, running, taken)
             /\ \A f : Waiting(f, at, pending, running, taken) \ {conn(l)}
                         \subseteq Waiting(f, at, pending, running, n)
             /\ Orderly(pending, running, at) /\ at[conn(l)] = l /\ conn(l) \in Conns
                  => conn(l) \notin Waiting("establish", at, pending, running, n)
  <2>1. Started(n, F, running, taken, l)
    BY <1>1 DEF Started
  <2> HIDE DEF n, F
  <2> QED
    BY <1>1, <1>4, <2>1, StartTakes
<1>5. Orderly(pending, running, loop)
  BY DEF Functors
<1>6. g \in {"establish", "destroy", "send"} => loop[conn(l)] = l /\ conn(l) \in Conns
  BY StartedWhere
<1> HIDE DEF n, F
<1>7. /\ g # "establish" => ToEstablish = Waiting("establish", loop, pending, running, n)
      /\ g # "remove" => ToRemove = Waiting("remove", AtBase, pending, running, n)
      /\ g # "destroy" => ToDestroy = Waiting("destroy", loop, pending, running, n)
  BY <1>2, <1>4 DEF ToEstablish, ToRemove, ToDestroy
<1>8. /\ Waiting("establish", loop, pending, running, n) \subseteq ToEstablish
      /\ ToEstablish \ {conn(l)} \subseteq Waiting("establish", loop, pending, running, n)
      /\ Waiting("remove", AtBase, pending, running, n) \subseteq ToRemove
      /\ ToRemove \ {conn(l)} \subseteq Waiting("remove", AtBase, pending, running, n)
      /\ Waiting("destroy", loop, pending, running, n) \subseteq ToDestroy
      /\ ToDestroy \ {conn(l)} \subseteq Waiting("destroy", loop, pending, running, n)
  BY <1>2, <1>4 DEF ToEstablish, ToRemove, ToDestroy
<1>9. g \in {"establish", "destroy", "send"} =>
        conn(l) \notin Waiting("establish", loop, pending, running, n)
  BY <1>2, <1>4, <1>5, <1>6
<1> QED
  BY <1>1, <1>3, <1>7, <1>8, <1>9

\* The batches are where they were, and the loop is still among its functors.
LEMMA StartedBatches ==
  ASSUME Types, Functors, NEW l \in Loops, NEW g, StartFunctor(l, g),
         \A c \in Conns : Has(pending'[0], "destroy", c) => Has(pending[0], "destroy", c)
  PROVE  Batches'
<1>1. /\ UNCHANGED <<loopAt, running>> /\ loopAt[l] = "functors"
      /\ \A k \in Loops \ {l} : taken'[k] = taken[k]
  BY DEF StartFunctor, Types, LoopTypes
<1> QED
  BY <1>1 DEF Functors, Batches

LEMMA RunListenQueues ==
  ASSUME Types, Functors, runListen
  PROVE  SameFunctors /\ Bound' = Bound /\ Functors'
<1>1. /\ StartFunctor(0, "listen") /\ 0 \in Loops /\ AtBase' = AtBase
      /\ UNCHANGED <<pending, running, loop>>
  BY BaseLoop DEF runListen, StartFunctor, mapVars, AtBase
<1>2. SameFunctors
  BY <1>1, StartedQueues DEF SameFunctors, ToEstablish, ToRemove, ToDestroy
<1>3. Batches'
  BY <1>1, StartedBatches
<1> QED
  BY <1>1, <1>2, <1>3 DEF Functors, Bound, Orderly

LEMMA RunEstablishedQueues ==
  ASSUME Types, Functors, NEW l \in Loops, runEstablished(l)
  PROVE  /\ conn(l) \in Conns /\ conn(l) \in Bound
         /\ loop[conn(l)] = l /\ l # 0 /\ conn(l) \in ToEstablish
         /\ ToEstablish' = ToEstablish \ {conn(l)}
         /\ ToRemove' = ToRemove /\ ToDestroy' = ToDestroy /\ Bound' = Bound
         /\ Functors'
<1>1. /\ StartFunctor(l, "establish") /\ AtBase' = AtBase
      /\ UNCHANGED <<pending, running, loop>>
  BY DEF runEstablished, StartFunctor, mapVars, AtBase
<1>2. /\ conn(l) \in Conns /\ conn(l) \in Bound
      /\ loop[conn(l)] = l /\ l # 0 /\ conn(l) \in ToEstablish
  BY <1>1, StartedWhere
<1>3. /\ Waiting("establish", loop, pending, running, taken') = ToEstablish \ {conn(l)}
      /\ Waiting("remove", AtBase, pending, running, taken') = ToRemove
      /\ Waiting("destroy", loop, pending, running, taken') = ToDestroy
  BY <1>1, StartedQueues
<1>4. Batches'
  BY <1>1, StartedBatches
<1>5. /\ ToEstablish' = Waiting("establish", loop, pending, running, taken')
      /\ ToRemove' = Waiting("remove", AtBase, pending, running, taken')
      /\ ToDestroy' = Waiting("destroy", loop, pending, running, taken')
      /\ Bound' = Bound
  BY <1>1 DEF ToEstablish, ToRemove, ToDestroy, Bound
<1>6. Functors'
  BY <1>1, <1>4 DEF Functors, Orderly
<1> QED
  BY <1>2, <1>3, <1>5, <1>6

LEMMA RunDestroyedQueues ==
  ASSUME Types, Functors, NEW l \in Loops, runDestroyed(l)
  PROVE  /\ conn(l) \in Conns /\ conn(l) \in Bound
         /\ loop[conn(l)] = l /\ conn(l) \in ToDestroy /\ conn(l) \notin ToEstablish
         /\ ToEstablish' = ToEstablish /\ ToRemove' = ToRemove
         /\ ToDestroy \ {conn(l)} \subseteq ToDestroy' /\ ToDestroy' \subseteq ToDestroy
         /\ Bound' = Bound
         /\ Functors'
<1>1. /\ StartFunctor(l, "destroy") /\ AtBase' = AtBase
      /\ UNCHANGED <<pending, running, loop>>
  BY DEF runDestroyed, StartFunctor, mapVars, AtBase
<1>2. /\ conn(l) \in Conns /\ conn(l) \in Bound
      /\ loop[conn(l)] = l /\ conn(l) \in ToDestroy
  BY <1>1, StartedWhere
<1>3. /\ Waiting("establish", loop, pending, running, taken') = ToEstablish
      /\ Waiting("remove", AtBase, pending, running, taken') = ToRemove
      /\ Waiting("destroy", loop, pending, running, taken') \subseteq ToDestroy
      /\ ToDestroy \ {conn(l)} \subseteq Waiting("destroy", loop, pending, running, taken')
      /\ conn(l) \notin ToEstablish
  BY <1>1, StartedQueues
<1>4. Batches'
  BY <1>1, StartedBatches
<1>5. /\ ToEstablish' = Waiting("establish", loop, pending, running, taken')
      /\ ToRemove' = Waiting("remove", AtBase, pending, running, taken')
      /\ ToDestroy' = Waiting("destroy", loop, pending, running, taken')
      /\ Bound' = Bound
  BY <1>1 DEF ToEstablish, ToRemove, ToDestroy, Bound
<1>6. Functors'
  BY <1>1, <1>4 DEF Functors, Orderly
<1> QED
  BY <1>2, <1>3, <1>5, <1>6

\* A send has no part in a connection's life, and runs when that has begun.
LEMMA RunSendQueues ==
  ASSUME Types, Functors, NEW l \in Loops, runSend(l)
  PROVE  /\ conn(l) \in Conns /\ conn(l) \in Bound
         /\ loop[conn(l)] = l /\ conn(l) \notin ToEstablish
         /\ SameFunctors /\ Bound' = Bound
         /\ Functors'
<1>1. /\ StartFunctor(l, "send") /\ AtBase' = AtBase
      /\ UNCHANGED <<pending, running, loop>>
  BY DEF runSend, StartFunctor, mapVars, AtBase
<1>2. conn(l) \in Conns /\ conn(l) \in Bound /\ loop[conn(l)] = l
  BY <1>1, StartedWhere
<1>3. /\ Waiting("establish", loop, pending, running, taken') = ToEstablish
      /\ Waiting("remove", AtBase, pending, running, taken') = ToRemove
      /\ Waiting("destroy", loop, pending, running, taken') = ToDestroy
      /\ conn(l) \notin ToEstablish
  BY <1>1, StartedQueues
<1>4. Batches'
  BY <1>1, StartedBatches
<1>5. SameFunctors /\ Bound' = Bound
  BY <1>1, <1>3 DEF SameFunctors, ToEstablish, ToRemove, ToDestroy, Bound
<1>6. Functors'
  BY <1>1, <1>4 DEF Functors, Orderly
<1> QED
  BY <1>2, <1>3, <1>5, <1>6

\* The functor of a send is queued in the connection's loop by another thread.
LEMMA SendQueues ==
  ASSUME Types, Functors, NEW c \in Conns, queueSend(c)
  PROVE  SameFunctors /\ Bound' = Bound \cup {c} /\ Functors'
<1> DEFINE queue == [pending EXCEPT ![loop[c]] = Append(@, Functor("send", c))]
<1>1. /\ UNCHANGED <<running, taken, loopAt, loop>> /\ AtBase' = AtBase
      /\ pending' = queue
  BY DEF queueSend, turnVars, mapVars, AtBase, Queue
<1>2. Appended(queue, pending, loop[c], "send", c)
  BY DEF Appended
<1>3. loop[c] \in Loops
  BY DEF Types, MapTypes
<1> HIDE DEF queue
<1>4. /\ QueueTypes(pending, running, taken, loop)
      /\ QueueTypes(pending, running, taken, AtBase)
      /\ Orderly(pending, running, loop) /\ Batches
  BY QueuesNow DEF Types, Functors
<1>5. /\ Waiting("establish", loop, queue, running, taken) = ToEstablish
      /\ Waiting("remove", AtBase, queue, running, taken) = ToRemove
      /\ Waiting("destroy", loop, queue, running, taken) = ToDestroy
  BY <1>2, <1>3, <1>4, AppendLeavesOthers DEF ToEstablish, ToRemove, ToDestroy
<1>6. /\ Quoted(queue, running) = Bound \cup {c}
      /\ Orderly(queue, running, loop)
      /\ \A d \in Conns : Has(queue[0], "destroy", d) => Has(pending[0], "destroy", d)
  <2>1. Quoted(queue, running) = Bound \cup {c}
    BY <1>2, <1>3, <1>4, AppendQuotes DEF Bound, QueueTypes
  <2>2. /\ Orderly(queue, running, loop)
        /\ \A d \in Conns : Has(queue[0], "destroy", d) => Has(pending[0], "destroy", d)
    BY <1>2, <1>3, <1>4, AppendInOrder
  <2> QED
    BY <2>1, <2>2
<1>7. Batches'
  BY <1>1, <1>4, <1>6 DEF Batches
<1> QED
  BY <1>1, <1>5, <1>6, <1>7
  DEF SameFunctors, ToEstablish, ToRemove, ToDestroy, Bound, Functors

\* A removal is followed by connectionDestroyed, in the connection's own loop.
LEMMA RunRemovalQueues ==
  ASSUME Types, Functors, runRemoval
  PROVE  /\ conn(0) \in Conns /\ conn(0) \in Bound
         /\ loop[conn(0)] # 0 /\ conn(0) \in ToRemove
         /\ ToEstablish' = ToEstablish
         /\ ToRemove \ {conn(0)} \subseteq ToRemove' /\ ToRemove' \subseteq ToRemove
         /\ ToDestroy' = ToDestroy \cup {conn(0)}
         /\ Bound' = Bound
         /\ Functors'
<1> DEFINE d == conn(0)
           queue == [pending EXCEPT ![loop[d]] = Append(@, Functor("destroy", d))]
<1>1. /\ StartFunctor(0, "remove") /\ 0 \in Loops /\ AtBase' = AtBase
      /\ UNCHANGED <<running, loop>> /\ pending' = queue
  BY BaseLoop
  DEF runRemoval, StartFunctor, removeConnectionInLoop, mapVars, AtBase, Queue
<1>2. Appended(queue, pending, loop[d], "destroy", d)
  BY DEF Appended
<1>3. /\ d \in Conns /\ d \in Bound /\ loop[d] # 0 /\ d \in ToRemove
  BY <1>1, StartedWhere
<1>4. loop[d] \in Loops
  BY <1>3 DEF Types, MapTypes
<1> HIDE DEF queue
<1>5. /\ QueueTypes(pending, running, taken', loop)
      /\ QueueTypes(pending, running, taken', AtBase)
      /\ Waiting("establish", loop, pending, running, taken') = ToEstablish
      /\ Waiting("remove", AtBase, pending, running, taken') \subseteq ToRemove
      /\ ToRemove \ {d} \subseteq Waiting("remove", AtBase, pending, running, taken')
      /\ Waiting("destroy", loop, pending, running, taken') = ToDestroy
  BY <1>1, StartedQueues
<1> HIDE DEF d
<1>6. /\ Waiting("establish", loop, queue, running, taken')
           = Waiting("establish", loop, pending, running, taken')
      /\ Waiting("remove", AtBase, queue, running, taken')
           = Waiting("remove", AtBase, pending, running, taken')
  BY <1>2, <1>3, <1>4, <1>5, AppendLeavesOthers
<1>7. /\ Waiting("destroy", loop, queue, running, taken') = ToDestroy \cup {d}
      /\ Quoted(queue, running) = Bound \cup {d}
  <2>1. Quoted(queue, running) = Bound \cup {d}
    BY <1>2, <1>3, <1>4, <1>5, AppendQuotes DEF Bound, QueueTypes
  <2> QED
    <3>1. Home(loop, d, loop[d])
      BY DEF Home
    <3> QED
      BY <1>2, <1>3, <1>4, <1>5, <2>1, <3>1, AppendAdds
<1>8. /\ Orderly(pending, running, loop) => Orderly(queue, running, loop)
      /\ \A c \in Conns : Has(queue[0], "destroy", c) => Has(pending[0], "destroy", c)
  BY <1>2, <1>3, <1>4, <1>5, AppendInOrder
<1>9. Batches'
  BY <1>1, <1>8, StartedBatches
<1>10. /\ ToEstablish' = Waiting("establish", loop, queue, running, taken')
       /\ ToRemove' = Waiting("remove", AtBase, queue, running, taken')
       /\ ToDestroy' = Waiting("destroy", loop, queue, running, taken')
       /\ Bound' = Quoted(queue, running)
  BY <1>1 DEF ToEstablish, ToRemove, ToDestroy, Bound
<1>11. Functors'
  BY <1>1, <1>8, <1>9 DEF Functors
<1>12. Bound \cup {d} = Bound
  BY <1>3
<1> QED
  BY <1>3, <1>5, <1>6, <1>7, <1>10, <1>11, <1>12 DEF d

-----------------------------------------------------------------------------
(* The end of the functors, and of the loops.                              *)

\* Of a loop that goes on nothing is lost; of a loop of the pool that has been
\* asked to quit, what it had queued, which the history records.
LEMMA EndQueues ==
  ASSUME Types, Functors, NEW l \in Loops, endOfFunctors(l)
  PROVE  /\ ~quit[l] \/ l = 0 => SameFunctors
         /\ quit[l] /\ l # 0 =>
              /\ ToEstablish' = {c \in ToEstablish : loop[c] # l}
              /\ ToRemove' = ToRemove
              /\ ToDestroy' = {c \in ToDestroy : loop[c] # l}
              /\ \A c \in ToEstablish \cup ToDestroy : loop[c] = l => c \in dropped'
         /\ dropped \subseteq dropped'
         /\ \A c \in dropped' \ dropped :
              quit[l] /\ l # 0 /\ loop[c] = l /\ c \in Bound
         /\ Bound' \subseteq Bound
         /\ Functors'
<1> DEFINE b == [running EXCEPT ![l] = <<>>]
           n == [taken EXCEPT ![l] = 0]
           q == [pending EXCEPT ![l] = <<>>]
<1>1. /\ running' = b /\ taken' = n /\ loop' = loop /\ AtBase' = AtBase
      /\ loopAt[l] = "functors" /\ taken[l] = Len(running[l])
      /\ loopAt' = [loopAt EXCEPT ![l] = IF quit[l] THEN "stopped" ELSE "idle"]
  BY DEF endOfFunctors, mapVars, AtBase
<1>2. /\ QueueTypes(pending, running, taken, loop)
      /\ QueueTypes(pending, running, taken, AtBase)
      /\ DOMAIN loopAt = Loops /\ Orderly(pending, running, loop) /\ Batches
  BY QueuesNow DEF Types, LoopTypes, Functors
<1>3. ASSUME NEW at, QueueTypes(pending, running, taken, at)
      PROVE  /\ QueueTypes(pending, b, n, at)
             /\ \A f : Waiting(f, at, pending, b, n) = Waiting(f, at, pending, running, taken)
             /\ Quoted(pending, b) \subseteq Quoted(pending, running)
             /\ Orderly(pending, running, at) => Orderly(pending, b, at)
  BY <1>1, <1>3, BatchGoes
<1>4. b[l] = <<>> /\ n[l] = 0 /\ \A k \in Loops \ {l} : b[k] = running[k] /\ n[k] = taken[k]
  BY <1>2 DEF QueueTypes, Queues
<1>5. ASSUME NEW at, QueueTypes(pending, b, n, at)
      PROVE  /\ \A f : Waiting(f, at, q, b, n) = {c \in Waiting(f, at, pending, b, n) : at[c] # l}
             /\ \A f : \A c \in Waiting(f, at, pending, b, n) :
                  at[c] = l => Has(pending[l], f, c)
             /\ Quoted(q, b) \subseteq Quoted(pending, b)
             /\ Orderly(pending, b, at) => Orderly(q, b, at)
  BY <1>4, <1>5, QueueGoes
<1>6. q[l] = <<>> /\ \A k \in Loops \ {l} : q[k] = pending[k]
  BY <1>2 DEF QueueTypes, Queues
<1>7. CASE quit[l] /\ l # 0
  <2>1. /\ pending' = q
        /\ dropped' = dropped \cup
             {c \in Conns : \E i \in DOMAIN pending[l] :
                              pending[l][i].conn = c /\ pending[l][i].do # "send"}
    BY <1>7 DEF endOfFunctors
  <2> HIDE DEF b, n, q
  <2>2. /\ Waiting("establish", loop, q, b, n) = {c \in ToEstablish : loop[c] # l}
        /\ Waiting("destroy", loop, q, b, n) = {c \in ToDestroy : loop[c] # l}
        /\ Quoted(q, b) \subseteq Bound /\ Orderly(q, b, loop)
    BY <1>2, <1>3, <1>5 DEF ToEstablish, ToDestroy, Bound
  <2>3. Waiting("remove", AtBase, q, b, n) = ToRemove
    <3>1. Waiting("remove", AtBase, q, b, n) = {c \in ToRemove : AtBase[c] # l}
      BY <1>2, <1>3, <1>5 DEF ToRemove
    <3>2. \A c \in ToRemove : AtBase[c] = 0
      BY DEF ToRemove, Waiting, AtBase
    <3> QED
      BY <1>7, <3>1, <3>2
  <2>4. ASSUME NEW c \in ToEstablish \cup ToDestroy, loop[c] = l
        PROVE  c \in dropped'
    <3>1. Has(pending[l], "establish", c) \/ Has(pending[l], "destroy", c)
      BY <1>2, <1>3, <1>5, <2>4 DEF ToEstablish, ToDestroy
    <3>2. c \in Conns
      BY DEF ToEstablish, ToDestroy, Waiting
    <3>3. \A f \in {"establish", "destroy"} : Has(pending[l], f, c) =>
            \E i \in DOMAIN pending[l] :
              pending[l][i].conn = c /\ pending[l][i].do # "send"
      BY SameFunctor DEF Has
    <3> QED
      BY <2>1, <3>1, <3>2, <3>3
  <2>5. Batches'
    BY <1>1, <1>2, <1>4, <1>6, <1>7, <2>1, BaseLoop DEF Batches
  <2>6. ASSUME NEW c \in dropped' \ dropped
        PROVE  loop[c] = l /\ c \in Bound
    <3>1. PICK i \in DOMAIN pending[l] :
            pending[l][i].conn = c /\ pending[l][i].do # "send"
      BY <2>1
    <3>2. pending[l] \in Seq(ServerFunctors) /\ c \in Conns
      BY <1>2, <2>1 DEF QueueTypes, Queues
    <3>3. pending[l][i] \in ServerFunctors
      BY <3>2, ElementOfSeq, LenProperties
    <3>4. PICK f \in {"establish", "remove", "destroy"} : pending[l][i] = Functor(f, c)
      BY <3>1, <3>2, <3>3, SameFunctor, BaseLoop DEF ServerFunctors
    <3>5. Has(pending[l], f, c)
      BY <3>4 DEF Has
    <3> QED
      BY <1>2, <1>7, <3>2, <3>4, <3>5, HasHolds DEF Orderly, InPlace, Bound, Quoted
  <2> QED
    BY <1>1, <1>7, <2>1, <2>2, <2>3, <2>4, <2>5, <2>6
    DEF ToEstablish, ToRemove, ToDestroy, Bound, Functors
<1>8. CASE ~(quit[l] /\ l # 0)
  <2>1. pending' = pending /\ dropped' = dropped
    BY <1>8 DEF endOfFunctors
  <2> HIDE DEF b, n, q
  <2>2. /\ Waiting("establish", loop, pending, b, n) = ToEstablish
        /\ Waiting("remove", AtBase, pending, b, n) = ToRemove
        /\ Waiting("destroy", loop, pending, b, n) = ToDestroy
        /\ Quoted(pending, b) \subseteq Bound /\ Orderly(pending, b, loop)
    BY <1>2, <1>3 DEF ToEstablish, ToRemove, ToDestroy, Bound
  <2>3. Batches'
    BY <1>1, <1>2, <1>4, <2>1, BaseLoop DEF Batches
  <2> QED
    BY <1>1, <1>8, <2>1, <2>2, <2>3
    DEF SameFunctors, ToEstablish, ToRemove, ToDestroy, Bound, Functors
<1> QED
  BY <1>7, <1>8

\* ~TcpServer() queues connectionDestroyed in another loop, and runs it in its own.
LEMMA DestructorQueues ==
  ASSUME Types, Functors, NEW n \in Conns, destroyConnection(n)
  PROVE  LET d == connections_[n]
         IN  /\ d \in Conns /\ loop[d] \in Loops
             /\ ToEstablish' = ToEstablish /\ ToRemove' = ToRemove
             /\ ToDestroy' = IF loop[d] = 0 THEN ToDestroy ELSE ToDestroy \cup {d}
             /\ Bound' = IF loop[d] = 0 THEN Bound ELSE Bound \cup {d}
             /\ Functors'
<1> DEFINE d == connections_[n]
           queue == [pending EXCEPT ![loop[d]] = Append(@, Functor("destroy", d))]
<1>1. d \in Conns /\ loop[d] \in Loops
  BY DEF destroyConnection, Types, MapTypes
<1>2. /\ UNCHANGED <<running, taken, loopAt, loop>> /\ AtBase' = AtBase
      /\ loop[d] = 0 => pending' = pending
      /\ loop[d] # 0 => pending' = queue
  BY DEF destroyConnection, turnVars, AtBase, Queue
<1>3. Appended(queue, pending, loop[d], "destroy", d)
  BY DEF Appended
<1> HIDE DEF queue, d
<1>4. CASE loop[d] = 0
  <2>1. SameFunctors /\ Bound' = Bound /\ Functors'
    BY <1>2, <1>4, QueuesStay, FunctorsStay
  <2> QED
    BY <1>1, <1>4, <2>1 DEF SameFunctors, d
<1>5. CASE loop[d] # 0
  <2>1. /\ QueueTypes(pending, running, taken, loop)
        /\ QueueTypes(pending, running, taken, AtBase)
        /\ Orderly(pending, running, loop) /\ Batches
    BY QueuesNow DEF Types, Functors
  <2>2. /\ Waiting("establish", loop, queue, running, taken) = ToEstablish
        /\ Waiting("remove", AtBase, queue, running, taken) = ToRemove
    BY <1>1, <1>3, <2>1, AppendLeavesOthers DEF ToEstablish, ToRemove
  <2>3. /\ Waiting("destroy", loop, queue, running, taken) = ToDestroy \cup {d}
        /\ Quoted(queue, running) = Bound \cup {d}
    <3>1. Quoted(queue, running) = Bound \cup {d}
      BY <1>1, <1>3, <2>1, AppendQuotes DEF Bound, QueueTypes
    <3> QED
      <4>1. Home(loop, d, loop[d])
        BY DEF Home
      <4> QED
        BY <1>1, <1>3, <2>1, <3>1, <4>1, AppendAdds DEF ToDestroy
  <2>4. /\ Orderly(queue, running, loop)
        /\ \A c \in Conns : Has(queue[0], "destroy", c) => Has(pending[0], "destroy", c)
    BY <1>1, <1>3, <1>5, <2>1, AppendInOrder
  <2>5. Batches'
    BY <1>2, <1>5, <2>1, <2>4 DEF Batches
  <2> QED
    BY <1>1, <1>2, <1>5, <2>2, <2>3, <2>4, <2>5
    DEF ToEstablish, ToRemove, ToDestroy, Bound, Functors, d
<1> QED
  BY <1>4, <1>5

\* The base loop's queue is destroyed: there are removals in it at the most, for
\* what the base loop's own connections needed has run in its last turn.
LEMMA BaseQueueGoes ==
  ASSUME Types, Functors, loopAt[0] = "stopped", destroyBaseLoop
  PROVE  /\ ToEstablish' = ToEstablish /\ ToDestroy' = ToDestroy
         /\ ToRemove' \subseteq ToRemove
         /\ Bound' \subseteq Bound
         /\ Functors'
<1> DEFINE q == [pending EXCEPT ![0] = <<>>]
<1>1. /\ pending' = q /\ UNCHANGED <<running, taken, loopAt, loop>> /\ AtBase' = AtBase
  BY DEF destroyBaseLoop, Main, turnVars, mapVars, AtBase
<1>2. /\ QueueTypes(pending, running, taken, loop)
      /\ QueueTypes(pending, running, taken, AtBase)
      /\ Orderly(pending, running, loop) /\ Batches
      /\ running[0] = <<>> /\ 0 \in Loops
  BY QueuesNow, BaseLoop DEF Types, Functors, Batches
<1>3. ASSUME NEW at, QueueTypes(pending, running, taken, at)
      PROVE  /\ \A f : Waiting(f, at, q, running, taken)
                         = {c \in Waiting(f, at, pending, running, taken) : at[c] # 0}
             /\ \A f : \A c \in Waiting(f, at, pending, running, taken) :
                  at[c] = 0 => Has(pending[0], f, c)
             /\ Quoted(q, running) \subseteq Quoted(pending, running)
             /\ Orderly(pending, running, at) => Orderly(q, running, at)
  BY <1>2, <1>3, QueueGoes
<1>4. q[0] = <<>>
  BY <1>2 DEF QueueTypes, Queues
<1> HIDE DEF q
<1>5. \A c \in Conns : ~Has(pending[0], "establish", c) /\ ~Has(pending[0], "destroy", c)
  BY <1>2 DEF Orderly, InPlace, Batches
<1>6. /\ \A c \in ToEstablish \cup ToDestroy : c \in Conns /\ loop[c] # 0
      /\ Waiting("establish", loop, q, running, taken) = ToEstablish
      /\ Waiting("destroy", loop, q, running, taken) = ToDestroy
  <2>1. ToEstablish \cup ToDestroy \subseteq Conns
    BY DEF ToEstablish, ToDestroy, Waiting
  <2>2. \A c \in ToEstablish \cup ToDestroy : loop[c] # 0
    BY <1>2, <1>3, <1>5, <2>1 DEF ToEstablish, ToDestroy
  <2> QED
    BY <1>2, <1>3, <2>1, <2>2 DEF ToEstablish, ToDestroy
<1>7. /\ Waiting("remove", AtBase, q, running, taken) \subseteq ToRemove
      /\ Quoted(q, running) \subseteq Bound /\ Orderly(q, running, loop)
  BY <1>2, <1>3 DEF ToRemove, Bound
<1>8. Batches'
  BY <1>1, <1>2, <1>4, EmptyQueue DEF Batches
<1> QED
  BY <1>1, <1>6, <1>7, <1>8 DEF ToEstablish, ToRemove, ToDestroy, Bound, Functors

LEMMA QueuesAtFirst ==
  ASSUME Init
  PROVE  ToEstablish = {} /\ ToRemove = {} /\ ToDestroy = {} /\ Bound = {} /\ Functors
<1>1. /\ \A l \in Loops : pending[l] = <<>> /\ running[l] = <<>> /\ taken[l] = 0
      /\ \A c \in Conns : loop[c] \in Loops /\ AtBase[c] \in Loops
  BY BaseLoop DEF Init, AtBase
<1> QED
  BY <1>1, EmptyQueue, BaseLoop
  DEF ToEstablish, ToRemove, ToDestroy, Waiting, Bound, Quoted, Functors, Orderly, Batches
=============================================================================
