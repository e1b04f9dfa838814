--------------------------- MODULE TcpServerProofs ---------------------------
(***************************************************************************)
(* The start of a TcpServer, for any number of threads that call start(),  *)
(* of loops, connections and descriptors: the pool is started once, and    *)
(* the acceptor listens when newConnection() has all its loops to choose   *)
(* from. The types of the variables are proved along the way, for whose    *)
(* connection a functor carries is needed to know that it leaves the       *)
(* acceptor's channel alone.                                               *)
(***************************************************************************)
EXTENDS TcpServer, SequenceTheorems, TLAPS

ServerFunctors ==
  {Functor("listen", Acceptor)}
    \cup {Functor(f, c) : f \in {"establish", "remove", "destroy", "send"}, c \in Conns}

Queues == [Loops -> Seq(ServerFunctors)]

PollerTypes ==
  /\ index \in [Channels -> {"kNew", "kAdded", "kDeleted"}]
  /\ channels_ \in [Loops -> [Fds \cup {ListenFd} -> Channels \cup {NoChannel}]]
  /\ eventListSize \in [Loops -> Nat \ {0}]

PoolTypes ==
  /\ numThreads \in Loops /\ started \in BOOLEAN
  /\ loops \in Loops
  /\ next \in Nat /\ (next = 0 \/ next < loops)
  /\ startAt \in [Callers -> {"out", "pool", "listen"}]

\* A connection is numbered, and named, when its client is accepted.
MapTypes ==
  /\ made \in Nat /\ waiting \in Nat /\ made + waiting <= MaxConns
  /\ nextConnId = made + 1
  /\ connections_ \in [Conns -> Conns \cup {NoChannel}]
  /\ name \in [Conns -> 0 .. MaxConns] /\ loop \in [Conns -> Loops]
  /\ fd \in [Conns -> Fds \cup {ListenFd}]

ConnTypes ==
  /\ state \in [Conns -> {"kConnecting", "kConnected", "kDisconnecting", "kDisconnected"}]
  /\ told \in [Conns -> {"nothing", "up", "down"}] /\ ends \in [Conns -> Nat]
  /\ sending \subseteq Conns /\ late \subseteq Conns
  /\ closed \subseteq Conns /\ free \subseteq Fds

LoopTypes ==
  /\ loopAt \in [Loops -> {"none", "idle", "events", "functors", "stopped"}]
  /\ active \in [Loops -> SUBSET Channels]
  /\ pending \in Queues /\ running \in Queues
  /\ taken \in [Loops -> Nat] /\ quit \in [Loops -> BOOLEAN]

\* The thread that is being joined is one of the pool's.
MainTypes ==
  /\ mainAt \in {"user", "connections", "pool", "join", "destroyed", "ended"}
  /\ held \in Conns \cup {NoChannel}
  /\ cur \in Nat \ {0} /\ cur <= loops + 1 /\ (mainAt = "join" => cur <= loops)
  /\ dropped \subseteq Conns

Types == PollerTypes /\ PoolTypes /\ MapTypes /\ ConnTypes /\ LoopTypes /\ MainTypes

\* The acceptor's channel is registered, or Acceptor::listen() is queued.
Listens(queue) == \E i \in DOMAIN queue : queue[i].do = "listen"

Listening == index[Acceptor] = "kAdded" \/ Listens(pending[0]) \/ Listens(running[0])

PoolReady == loops = numThreads /\ \A l \in 1 .. loops : loopAt[l] # "none"

\* At most one thread gets past the test of started_; until it has started the
\* pool there are no loops and nobody listens.
Starting ==
  /\ \A s, t \in Callers : startAt[s] # "out" /\ startAt[t] # "out" => s = t
  /\ \A s \in Callers : startAt[s] # "out" => started
  /\ \A s \in Callers : startAt[s] = "pool" => loops = 0 /\ ~Listening
  /\ \A s \in Callers : startAt[s] = "listen" => PoolReady
  /\ ~started => loops = 0 /\ ~Listening
  /\ Listening => PoolReady
  /\ loops \in {0, numThreads}

ServerInv == Types /\ Starting

-----------------------------------------------------------------------------
(* Loops and queues.                                                       *)

LEMMA BaseLoop == 0 \in Loops /\ Acceptor \in Channels /\ Acceptor \notin Conns
  BY BoundsAssumption DEF Loops, Acceptor, Channels, Conns

LEMMA ServerFunctorsAre ==
  /\ Functor("listen", Acceptor) \in ServerFunctors
  /\ \A f \in {"establish", "remove", "destroy", "send"}, c \in Conns :
       Functor(f, c) \in ServerFunctors /\ Functor(f, c).do = f
  /\ \A f \in ServerFunctors : f.do # "listen" => f.conn \in Conns
<1>1. Functor("listen", Acceptor) \in ServerFunctors
  BY DEF ServerFunctors
<1>2. ASSUME NEW f \in {"establish", "remove", "destroy", "send"}, NEW c \in Conns
      PROVE  Functor(f, c) \in ServerFunctors /\ Functor(f, c).do = f
  BY DEF ServerFunctors, Functor
<1>3. ASSUME NEW f \in ServerFunctors, f.do # "listen"
      PROVE  f.conn \in Conns
  BY <1>3 DEF ServerFunctors, Functor
<1> QED
  BY <1>1, <1>2, <1>3

\* The queues after one more functor has been queued in one of them.
LEMMA QueuedInOne ==
  ASSUME NEW queues \in Queues, NEW l \in Loops, NEW f \in ServerFunctors
  PROVE  /\ [queues EXCEPT ![l] = Append(@, f)] \in Queues
         /\ f.do # "listen" =>
              (Listens([queues EXCEPT ![l] = Append(@, f)][0]) <=> Listens(queues[0]))
<1>1. queues[l] \in Seq(ServerFunctors)
  BY DEF Queues
<1>2. /\ Append(queues[l], f) \in Seq(ServerFunctors)
      /\ DOMAIN queues[l] = 1 .. Len(queues[l]) /\ Len(queues[l]) \in Nat
      /\ DOMAIN Append(queues[l], f) = 1 .. Len(queues[l]) + 1
      /\ \A i \in DOMAIN queues[l] : Append(queues[l], f)[i] = queues[l][i]
      /\ Append(queues[l], f)[Len(queues[l]) + 1] = f
  BY <1>1, AppendProperties, LenProperties
<1>3. [queues EXCEPT ![l] = Append(@, f)] \in Queues
  BY <1>2 DEF Queues
<1>4. f.do # "listen" => (Listens(Append(queues[l], f)) <=> Listens(queues[l]))
  <2>1. \A i \in DOMAIN Append(queues[l], f) :
          i \in DOMAIN queues[l] \/ i = Len(queues[l]) + 1
    BY <1>2
  <2>2. DOMAIN queues[l] \subseteq DOMAIN Append(queues[l], f)
    BY <1>2
  <2> QED
    BY <1>2, <2>1, <2>2 DEF Listens
<1>5. [queues EXCEPT ![l] = Append(@, f)][0]
        = IF l = 0 THEN Append(queues[l], f) ELSE queues[0]
  BY BaseLoop DEF Queues
<1> QED
  BY <1>3, <1>4, <1>5

\* An empty batch or queue.
LEMMA EmptiedOne ==
  ASSUME NEW queues \in Queues, NEW l \in Loops
  PROVE  /\ [queues EXCEPT ![l] = <<>>] \in Queues
         /\ Listens([queues EXCEPT ![l] = <<>>][0]) => Listens(queues[0])
<1>1. <<>> \in Seq(ServerFunctors) /\ ~Listens(<<>>)
  BY EmptySeq DEF Listens
<1>2. [queues EXCEPT ![l] = <<>>] \in Queues
  BY <1>1 DEF Queues
<1>3. [queues EXCEPT ![l] = <<>>][0] = IF l = 0 THEN <<>> ELSE queues[0]
  BY BaseLoop DEF Queues
<1> QED
  BY <1>1, <1>2, <1>3

\* The swap at the head of doPendingFunctor().
LEMMA Swapped ==
  ASSUME LoopTypes, NEW l \in Loops, NEW queue \in Queues, swapFunctors(l, queue)
  PROVE  /\ pending' \in Queues /\ running' \in Queues
         /\ Listens(pending'[0]) => Listens(queue[0])
         /\ Listens(running'[0]) => Listens(queue[0]) \/ Listens(running[0])
<1>1. running' \in Queues /\ running'[0] = IF l = 0 THEN queue[0] ELSE running[0]
  BY BaseLoop DEF swapFunctors, LoopTypes, Queues
<1> QED
  BY <1>1, EmptiedOne DEF swapFunctors

\* The end of one event handler.
LEMMA HandledEffect ==
  ASSUME LoopTypes, NEW l \in Loops, NEW ch, NEW queue \in Queues, Handled(l, ch, queue)
  PROVE  /\ LoopTypes'
         /\ \A k \in Loops : loopAt[k] # "none" => loopAt'[k] # "none"
         /\ Listens(pending'[0]) => Listens(queue[0])
         /\ Listens(running'[0]) => Listens(queue[0]) \/ Listens(running[0])
<1>1. /\ active' \in [Loops -> SUBSET Channels]
      /\ taken' \in [Loops -> Nat] /\ quit' \in [Loops -> BOOLEAN]
  BY DEF Handled, LoopTypes
<1>2. CASE active[l] = {ch}
  <2>1. swapFunctors(l, queue) /\ loopAt' = [loopAt EXCEPT ![l] = "functors"]
    BY <1>2 DEF Handled
  <2> QED
    BY <1>1, <2>1, Swapped DEF LoopTypes
<1>3. CASE active[l] # {ch}
  BY <1>1, <1>3 DEF Handled, LoopTypes
<1> QED
  BY <1>2, <1>3

\* The functor that is started, and the rest of the loop's state.
LEMMA StartedFunctor ==
  ASSUME LoopTypes, NEW l \in Loops, NEW f, StartFunctor(l, f)
  PROVE  /\ taken' \in [Loops -> Nat]
         /\ taken[l] + 1 \in DOMAIN running[l]
         /\ running[l][taken[l] + 1].do = f
         /\ f # "listen" => conn(l) \in Conns
<1>1. /\ running[l] \in Seq(ServerFunctors) /\ taken[l] \in Nat
      /\ Len(running[l]) \in Nat /\ DOMAIN running[l] = 1 .. Len(running[l])
  BY LenProperties DEF LoopTypes, Queues
<1>2. taken' \in [Loops -> Nat] /\ taken[l] + 1 \in DOMAIN running[l]
  BY <1>1 DEF StartFunctor, LoopTypes
<1>3. running[l][taken[l] + 1] \in ServerFunctors
  BY <1>1, <1>2
<1> QED
  BY <1>2, <1>3, ServerFunctorsAre DEF StartFunctor, conn

-----------------------------------------------------------------------------
(* The poller.                                                             *)

LEMMA UpdatedChannel ==
  ASSUME PollerTypes, NEW p \in Loops, NEW ch \in Channels,
         NEW f \in Fds \cup {ListenFd}, NEW isNoneEvent \in BOOLEAN,
         updateChannel(p, ch, f, isNoneEvent)
  PROVE  PollerTypes' /\ (ch # Acceptor => index'[Acceptor] = index[Acceptor])
  BY BaseLoop DEF PollerTypes, updateChannel

LEMMA RemovedChannel ==
  ASSUME PollerTypes, NEW p \in Loops, NEW ch \in Channels,
         NEW f \in Fds \cup {ListenFd}, removeChannel(p, ch, f)
  PROVE  /\ PollerTypes'
         /\ ch # Acceptor => index'[Acceptor] = index[Acceptor]
         /\ ch = Acceptor => index'[Acceptor] = "kNew"
  BY BaseLoop DEF PollerTypes, removeChannel

LEMMA DestroyedEffect ==
  ASSUME PollerTypes, ConnTypes, MapTypes, NEW c \in Conns, connectionDestroyed(c)
  PROVE  /\ PollerTypes' /\ index'[Acceptor] = index[Acceptor]
         /\ state' \in [Conns -> {"kConnecting", "kConnected", "kDisconnecting", "kDisconnected"}]
         /\ told' \in [Conns -> {"nothing", "up", "down"}] /\ ends' \in [Conns -> Nat]
         /\ UNCHANGED sendVars
<1>1. /\ removeChannel(loop[c], c, fd[c]) /\ c \in Channels /\ c # Acceptor
      /\ loop[c] \in Loops /\ fd[c] \in Fds \cup {ListenFd}
  BY BaseLoop DEF connectionDestroyed, MapTypes, Channels
<1>2. PollerTypes' /\ index'[Acceptor] = index[Acceptor]
  BY <1>1, RemovedChannel
<1> QED
  BY <1>2 DEF connectionDestroyed, reportDown, ConnTypes, connVars

\* A send that runs leaves the acceptor's channel and all queues alone.
LEMMA SendEffect ==
  ASSUME PollerTypes, ConnTypes, MapTypes, LoopTypes, NEW l \in Loops, runSend(l)
  PROVE  /\ PollerTypes' /\ index'[Acceptor] = index[Acceptor]
         /\ ConnTypes' /\ LoopTypes'
<1>1. conn(l) \in Conns /\ taken' \in [Loops -> Nat]
  BY StartedFunctor DEF runSend
<1>2. /\ conn(l) \in Channels /\ conn(l) # Acceptor
      /\ fd[conn(l)] \in Fds \cup {ListenFd}
  BY <1>1, BaseLoop DEF MapTypes, Channels
<1>3. UNCHANGED pollerVars \/ updateChannel(l, conn(l), fd[conn(l)], FALSE)
  BY DEF runSend
<1>4. PollerTypes' /\ index'[Acceptor] = index[Acceptor]
  <2>1. CASE UNCHANGED pollerVars
    BY <2>1 DEF PollerTypes, pollerVars
  <2>2. CASE updateChannel(l, conn(l), fd[conn(l)], FALSE)
    BY <1>2, <2>2, UpdatedChannel
  <2> QED
    BY <1>3, <2>1, <2>2
<1>5. late' \in {late, late \cup {conn(l)}} /\ UNCHANGED <<state, told, ends, sending>>
  BY DEF runSend
<1>6. ConnTypes'
  BY <1>1, <1>5 DEF runSend, StartFunctor, kernelVars, ConnTypes
<1>7. LoopTypes'
  BY <1>1 DEF runSend, StartFunctor, LoopTypes
<1> QED
  BY <1>4, <1>6, <1>7

\* Acceptor::handleRead() with newConnection(): what may have changed.
LEMMA AcceptedEffect ==
  ASSUME PollerTypes, MapTypes, ConnTypes, LoopTypes, PoolTypes, handleRead
  PROVE  /\ PollerTypes' /\ index'[Acceptor] = index[Acceptor]
         /\ MapTypes' /\ ConnTypes' /\ LoopTypes'
         /\ next' \in Nat /\ (next' = 0 \/ next' < loops)
         /\ \A k \in Loops : loopAt[k] # "none" => loopAt'[k] # "none"
         /\ Listens(pending'[0]) => Listens(pending[0])
         /\ Listens(running'[0]) => Listens(pending[0]) \/ Listens(running[0])
<1>1. PICK f \in Fds :
        /\ accept4(f)
        /\ waiting' = waiting - 1
        /\ IF f > 0
           THEN newConnection(f) /\ UNCHANGED free
           ELSE /\ free' = free \ {f}
                /\ Handled(0, Acceptor, pending)
                /\ UNCHANGED <<pollerVars, next, mapVars, connVars>>
        /\ UNCHANGED <<numThreads, started, loops, startAt, closed, mainVars>>
  BY DEF handleRead
<1>2. waiting > 0 /\ waiting' \in Nat
  BY <1>1 DEF accept4, MapTypes
<1>3. CASE ~(f > 0)
  <2>1. Handled(0, Acceptor, pending) /\ UNCHANGED <<pollerVars, next, mapVars, connVars>>
        /\ free' = free \ {f}
    BY <1>1, <1>3
  <2>2. pending \in Queues
    BY DEF LoopTypes
  <2>3. /\ LoopTypes'
        /\ \A k \in Loops : loopAt[k] # "none" => loopAt'[k] # "none"
        /\ Listens(pending'[0]) => Listens(pending[0])
        /\ Listens(running'[0]) => Listens(pending[0]) \/ Listens(running[0])
    BY <2>1, <2>2, HandledEffect, BaseLoop
  <2>4. MapTypes' /\ ConnTypes' /\ PollerTypes'
    <3>1. made + waiting' <= MaxConns
      BY <1>1, <1>2, BoundsAssumption DEF MapTypes
    <3>2. MapTypes'
      BY <1>2, <2>1, <3>1 DEF MapTypes, mapVars
    <3>3. ConnTypes'
      BY <1>1, <2>1 DEF ConnTypes, connVars, sendVars
    <3> QED
      BY <2>1, <3>2, <3>3 DEF PollerTypes, pollerVars
  <2> QED
    BY <2>1, <2>3, <2>4 DEF pollerVars, PoolTypes
<1>4. CASE f > 0
  <2> DEFINE c == made + 1
             l == getNextLoop
             q == [pending EXCEPT ![l] = Append(@, Functor("establish", c))]
  <2>1. newConnection(f) /\ UNCHANGED free
    BY <1>1, <1>4
  <2>2. /\ c \in Conns /\ c \in Channels /\ c # Acceptor /\ c \in Nat
        /\ c \in 0 .. MaxConns /\ made \in Nat /\ nextConnId = c
    BY <1>2, BoundsAssumption DEF MapTypes, Conns, Channels, Acceptor
  <2>3. /\ l \in Loops
        /\ next' \in Nat /\ (next' = 0 \/ next' < loops)
    BY <2>1, BoundsAssumption
    DEF newConnection, getNextLoop, advanceNext, PoolTypes, Loops
  <2>4. /\ made' = c /\ nextConnId' = c + 1
        /\ name' = [name EXCEPT ![c] = nextConnId]
        /\ loop' = [loop EXCEPT ![c] = l]
        /\ fd' = [fd EXCEPT ![c] = f]
        /\ connections_' = [connections_ EXCEPT ![nextConnId] = c]
    BY <2>1, <2>2 DEF newConnection, nextId
  <2>5. MapTypes'
    <3>1. made' + waiting' <= MaxConns
      BY <1>1, <1>2, <2>4 DEF MapTypes
    <3> HIDE DEF c, l
    <3> QED
      BY <1>2, <2>2, <2>3, <2>4, <3>1 DEF MapTypes
  <2>6. /\ pending \in Queues /\ q \in Queues
        /\ Listens(q[0]) <=> Listens(pending[0])
    <3>1. pending \in Queues
      BY DEF LoopTypes
    <3>2. /\ Functor("establish", c) \in ServerFunctors
          /\ Functor("establish", c).do # "listen"
      BY <2>2, ServerFunctorsAre
    <3> HIDE DEF c, l
    <3> QED
      BY <2>3, <3>1, <3>2, QueuedInOne
  <2>7. PICK queue \in {pending, q} : Handled(0, Acceptor, queue)
    BY <2>1 DEF newConnection
  <2>8. /\ LoopTypes'
        /\ \A k \in Loops : loopAt[k] # "none" => loopAt'[k] # "none"
        /\ Listens(pending'[0]) => Listens(pending[0])
        /\ Listens(running'[0]) => Listens(pending[0]) \/ Listens(running[0])
    <3> HIDE DEF q
    <3>1. queue \in Queues /\ (Listens(queue[0]) <=> Listens(pending[0]))
      BY <2>6
    <3> QED
      BY <2>7, <3>1, HandledEffect, BaseLoop
  <2>9. PollerTypes' /\ index'[Acceptor] = index[Acceptor] /\ ConnTypes'
    <3>1. CASE l = 0
      <4>1. connectEstablished(c)
        BY <2>1, <3>1 DEF newConnection
      <4>2. loop'[c] = l /\ fd'[c] = f
        BY <2>2, <2>4 DEF MapTypes
      <4>3. updateChannel(l, c, f, FALSE)
        BY <4>1, <4>2 DEF connectEstablished
      <4> HIDE DEF c, l
      <4>4. PollerTypes' /\ index'[Acceptor] = index[Acceptor]
        BY <2>2, <2>3, <4>3, UpdatedChannel
      <4> QED
        BY <1>1, <2>1, <2>2, <4>1, <4>4 DEF connectEstablished, ConnTypes, sendVars
    <3>2. CASE l # 0
      <4>1. UNCHANGED <<pollerVars, connVars>>
        BY <2>1, <3>2 DEF newConnection
      <4> QED
        BY <1>1, <2>1, <4>1 DEF ConnTypes, PollerTypes, pollerVars, connVars, sendVars
    <3> QED
      BY <3>1, <3>2
  <2> QED
    BY <2>3, <2>5, <2>8, <2>9
<1> QED
  BY <1>3, <1>4

-----------------------------------------------------------------------------
(* The types.                                                              *)

LEMMA NextPollerTypes == Types /\ Starting /\ [Next]_vars => PollerTypes'
<1> SUFFICES ASSUME Types, Starting, [Next]_vars
             PROVE  PollerTypes'
  OBVIOUS
<1>0. /\ PollerTypes /\ PoolTypes /\ MapTypes
      /\ ConnTypes /\ LoopTypes /\ MainTypes
  BY DEF Types
<1> USE DEF pollerVars, serverVars, mapVars, connVars, sendVars, kernelVars,
    turnVars, loopVars, mainVars, PollerTypes
<1>1. ASSUME NEW l \in Loops, pollEvents(l)
      PROVE  PollerTypes'
  <2>1. eventListSize' \in {eventListSize, [eventListSize EXCEPT ![l] = 2 * @]}
        /\ UNCHANGED <<index, channels_>>
    BY <1>1 DEF pollEvents, poll
  <2>2. 2 * eventListSize[l] \in Nat \ {0}
    BY <1>0
  <2> QED
    BY <1>0, <2>1, <2>2
<1>2. CASE handleRead
  BY <1>0, <1>2, AcceptedEffect
<1>3. CASE handleReadFails
  BY <1>0, <1>3 DEF handleReadFails
<1>4. CASE runListen
  BY <1>0, <1>4, UpdatedChannel, BaseLoop DEF runListen, listen
<1>5. CASE runRemoval
  BY <1>0, <1>5 DEF runRemoval, StartFunctor
<1>6. ASSUME NEW l \in Loops, NEW c \in Conns, handleClose(l, c)
      PROVE  PollerTypes'
  BY <1>0, <1>6 DEF handleClose
<1>7. ASSUME NEW l \in Loops, runEstablished(l)
      PROVE  PollerTypes'
  <2>1. conn(l) \in Conns /\ taken' \in [Loops -> Nat]
    BY <1>0, <1>7, StartedFunctor, BaseLoop DEF runEstablished
  <2>2. /\ loop'[conn(l)] \in Loops /\ fd'[conn(l)] \in Fds \cup {ListenFd}
        /\ conn(l) \in Channels /\ conn(l) # Acceptor
    BY <1>0, <1>7, <2>1, BaseLoop DEF runEstablished, MapTypes, Channels
  <2> HIDE DEF PollerTypes
  <2> QED
    BY <1>0, <1>7, <2>2, UpdatedChannel DEF runEstablished, connectEstablished
<1>8. ASSUME NEW l \in Loops, runDestroyed(l)
      PROVE  PollerTypes'
  <2>1. conn(l) \in Conns /\ taken' \in [Loops -> Nat]
    BY <1>0, <1>8, StartedFunctor, BaseLoop DEF runDestroyed
  <2>2. connectionDestroyed(conn(l))
    BY <1>8 DEF runDestroyed
  <2> HIDE DEF PollerTypes
  <2> QED
    BY <1>0, <2>1, <2>2, DestroyedEffect
<1>9. ASSUME NEW l \in Loops, endOfFunctors(l)
      PROVE  PollerTypes'
  <2>1. channels_' \in {channels_,
                        [channels_ EXCEPT ![l] = [f \in DOMAIN @ |-> NoChannel]]}
        /\ UNCHANGED <<index, eventListSize>>
    BY <1>9 DEF endOfFunctors
  <2>2. [f \in DOMAIN channels_[l] |-> NoChannel]
          \in [Fds \cup {ListenFd} -> Channels \cup {NoChannel}]
    BY <1>0
  <2> QED
    BY <1>0, <2>1, <2>2
<1>10. ASSUME NEW s \in Callers, startPool(s)
      PROVE  PollerTypes'
  BY <1>0, <1>10 DEF startPool
<1>11. ASSUME NEW s \in Callers, startListening(s)
      PROVE  PollerTypes'
  <2>1. listen \/ UNCHANGED pollerVars
    BY <1>11 DEF startListening
  <2> QED
    BY <1>0, <2>1, UpdatedChannel, BaseLoop DEF listen
<1>12. ASSUME NEW n \in Conns, destroyConnection(n)
      PROVE  PollerTypes'
  <2>1. connections_[n] \in Conns /\ loop[connections_[n]] \in Loops
    BY <1>0, <1>12 DEF destroyConnection, MapTypes
  <2>2. connectionDestroyed(connections_[n]) \/ UNCHANGED pollerVars
    BY <1>12 DEF destroyConnection
  <2> QED
    BY <1>0, <2>1, <2>2, DestroyedEffect
<1>13. CASE releaseConn
  BY <1>0, <1>13 DEF releaseConn, Main
<1>14. CASE endOfConnections
  BY <1>0, <1>14 DEF endOfConnections, Main
<1>15. CASE quitLoop
  BY <1>0, <1>15 DEF quitLoop, Main
<1>16. CASE join
  BY <1>0, <1>16 DEF join, Main
<1>17. CASE destroyAcceptor
  BY <1>0, <1>17, RemovedChannel, BaseLoop DEF destroyAcceptor
<1>18. CASE destroyBaseLoop
  <2>1. [f \in DOMAIN channels_[0] |-> NoChannel]
          \in [Fds \cup {ListenFd} -> Channels \cup {NoChannel}]
    BY <1>0, BaseLoop
  <2> QED
    BY <1>0, <1>18, <2>1, BaseLoop DEF destroyBaseLoop
<1>19. ASSUME NEW m \in Loops, setThreadNum(m)
      PROVE  PollerTypes'
  BY <1>0, <1>19 DEF setThreadNum
<1>20. ASSUME NEW s \in Callers, start(s)
      PROVE  PollerTypes'
  BY <1>0, <1>20 DEF start, Begin
<1>21. CASE enterLoop
  BY <1>0, <1>21 DEF enterLoop
<1>22. ASSUME NEW c \in Conns, shutdown(c)
      PROVE  PollerTypes'
  BY <1>0, <1>22 DEF shutdown
<1>23. CASE quitBaseLoop
  BY <1>0, <1>23 DEF quitBaseLoop
<1>24. CASE destroyServer
  BY <1>0, <1>24 DEF destroyServer
<1>25. CASE clientConnects
  BY <1>0, <1>25 DEF clientConnects
<1>26. CASE clientGivesUp
  BY <1>0, <1>26 DEF clientGivesUp
<1>27. ASSUME NEW c \in Conns, peerCloses(c)
      PROVE  PollerTypes'
  BY <1>0, <1>27 DEF peerCloses
<1>28. ASSUME NEW l \in Loops, NEW c \in Conns, handleFreed(l, c)
      PROVE  PollerTypes'
  BY <1>0, <1>28 DEF handleFreed
<1>29. ASSUME NEW l \in Loops, runSend(l)
      PROVE  PollerTypes'
  BY <1>0, <1>29, SendEffect
<1>30. ASSUME NEW c \in Conns, testState(c)
      PROVE  PollerTypes'
  BY <1>0, <1>30 DEF testState
<1>31. ASSUME NEW c \in Conns, queueSend(c)
      PROVE  PollerTypes'
  BY <1>0, <1>31 DEF queueSend
<1>32. CASE UNCHANGED vars
  BY <1>0, <1>32 DEF vars
<1> QED
  BY <1>1, <1>2, <1>3, <1>4, <1>5, <1>6, <1>7, <1>8, <1>9, <1>10, <1>11, <1>12,
     <1>13, <1>14, <1>15, <1>16, <1>17, <1>18, <1>19, <1>20, <1>21, <1>22,
     <1>23, <1>24, <1>25, <1>26, <1>27, <1>28, <1>29, <1>30, <1>31, <1>32
  DEF Next, LoopSteps, StartSteps, DestructorSteps, UserCalls, Clients

LEMMA NextPoolTypes == Types /\ Starting /\ [Next]_vars => PoolTypes'
<1> SUFFICES ASSUME Types, Starting, [Next]_vars
             PROVE  PoolTypes'
  OBVIOUS
<1>0. /\ PollerTypes /\ PoolTypes /\ MapTypes
      /\ ConnTypes /\ LoopTypes /\ MainTypes
  BY DEF Types
<1> USE DEF pollerVars, serverVars, mapVars, connVars, sendVars, kernelVars,
    turnVars, loopVars, mainVars, PoolTypes
<1>1. ASSUME NEW l \in Loops, pollEvents(l)
      PROVE  PoolTypes'
  BY <1>0, <1>1 DEF pollEvents
<1>2. CASE handleRead
  <2>1. next' \in Nat /\ (next' = 0 \/ next' < loops)
    BY <1>0, <1>2, AcceptedEffect
  <2> QED
    BY <1>0, <1>2, <2>1 DEF handleRead
<1>3. CASE handleReadFails
  BY <1>0, <1>3 DEF handleReadFails
<1>4. CASE runListen
  BY <1>0, <1>4 DEF runListen, StartFunctor
<1>5. CASE runRemoval
  BY <1>0, <1>5 DEF runRemoval, StartFunctor
<1>6. ASSUME NEW l \in Loops, NEW c \in Conns, handleClose(l, c)
      PROVE  PoolTypes'
  BY <1>0, <1>6 DEF handleClose
<1>7. ASSUME NEW l \in Loops, runEstablished(l)
      PROVE  PoolTypes'
  BY <1>0, <1>7 DEF runEstablished, StartFunctor
<1>8. ASSUME NEW l \in Loops, runDestroyed(l)
      PROVE  PoolTypes'
  BY <1>0, <1>8 DEF runDestroyed, StartFunctor
<1>9. ASSUME NEW l \in Loops, endOfFunctors(l)
      PROVE  PoolTypes'
  BY <1>0, <1>9 DEF endOfFunctors
<1>10. ASSUME NEW s \in Callers, startPool(s)
      PROVE  PoolTypes'
  <2>1. loops = 0
    BY <1>10 DEF startPool, Starting
  <2> QED
    BY <1>0, <1>10, <2>1, BoundsAssumption DEF startPool, Loops
<1>11. ASSUME NEW s \in Callers, startListening(s)
      PROVE  PoolTypes'
  BY <1>0, <1>11 DEF startListening
<1>12. ASSUME NEW n \in Conns, destroyConnection(n)
      PROVE  PoolTypes'
  BY <1>0, <1>12 DEF destroyConnection
<1>13. CASE releaseConn
  BY <1>0, <1>13 DEF releaseConn, Main
<1>14. CASE endOfConnections
  BY <1>0, <1>14 DEF endOfConnections, Main
<1>15. CASE quitLoop
  BY <1>0, <1>15 DEF quitLoop, Main
<1>16. CASE join
  BY <1>0, <1>16 DEF join, Main
<1>17. CASE destroyAcceptor
  BY <1>0, <1>17 DEF destroyAcceptor, Main
<1>18. CASE destroyBaseLoop
  BY <1>0, <1>18 DEF destroyBaseLoop, Main
<1>19. ASSUME NEW m \in Loops, setThreadNum(m)
      PROVE  PoolTypes'
  BY <1>0, <1>19 DEF setThreadNum
<1>20. ASSUME NEW s \in Callers, start(s)
      PROVE  PoolTypes'
  BY <1>0, <1>20 DEF start, Begin
<1>21. CASE enterLoop
  BY <1>0, <1>21 DEF enterLoop
<1>22. ASSUME NEW c \in Conns, shutdown(c)
      PROVE  PoolTypes'
  BY <1>0, <1>22 DEF shutdown
<1>23. CASE quitBaseLoop
  BY <1>0, <1>23 DEF quitBaseLoop
<1>24. CASE destroyServer
  BY <1>0, <1>24 DEF destroyServer
<1>25. CASE clientConnects
  BY <1>0, <1>25 DEF clientConnects
<1>26. CASE clientGivesUp
  BY <1>0, <1>26 DEF clientGivesUp
<1>27. ASSUME NEW c \in Conns, peerCloses(c)
      PROVE  PoolTypes'
  BY <1>0, <1>27 DEF peerCloses
<1>28. ASSUME NEW l \in Loops, NEW c \in Conns, handleFreed(l, c)
      PROVE  PoolTypes'
  BY <1>0, <1>28 DEF handleFreed
<1>29. ASSUME NEW l \in Loops, runSend(l)
      PROVE  PoolTypes'
  BY <1>0, <1>29 DEF runSend, StartFunctor
<1>30. ASSUME NEW c \in Conns, testState(c)
      PROVE  PoolTypes'
  BY <1>0, <1>30 DEF testState
<1>31. ASSUME NEW c \in Conns, queueSend(c)
      PROVE  PoolTypes'
  BY <1>0, <1>31 DEF queueSend
<1>32. CASE UNCHANGED vars
  BY <1>0, <1>32 DEF vars
<1> QED
  BY <1>1, <1>2, <1>3, <1>4, <1>5, <1>6, <1>7, <1>8, <1>9, <1>10, <1>11, <1>12,
     <1>13, <1>14, <1>15, <1>16, <1>17, <1>18, <1>19, <1>20, <1>21, <1>22,
     <1>23, <1>24, <1>25, <1>26, <1>27, <1>28, <1>29, <1>30, <1>31, <1>32
  DEF Next, LoopSteps, StartSteps, DestructorSteps, UserCalls, Clients

LEMMA NextMapTypes == Types /\ Starting /\ [Next]_vars => MapTypes'
<1> SUFFICES ASSUME Types, Starting, [Next]_vars
             PROVE  MapTypes'
  OBVIOUS
<1>0. /\ PollerTypes /\ PoolTypes /\ MapTypes
      /\ ConnTypes /\ LoopTypes /\ MainTypes
  BY DEF Types
<1> USE DEF pollerVars, serverVars, mapVars, connVars, sendVars, kernelVars,
    turnVars, loopVars, mainVars, MapTypes
<1>1. ASSUME NEW l \in Loops, pollEvents(l)
      PROVE  MapTypes'
  BY <1>0, <1>1 DEF pollEvents
<1>2. CASE handleRead
  BY <1>0, <1>2, AcceptedEffect
<1>3. CASE handleReadFails
  BY <1>0, <1>3 DEF handleReadFails
<1>4. CASE runListen
  BY <1>0, <1>4 DEF runListen, StartFunctor
<1>5. CASE runRemoval
  <2>1. conn(0) \in Conns /\ taken' \in [Loops -> Nat]
    BY <1>0, <1>5, StartedFunctor, BaseLoop DEF runRemoval
  <2>2. connections_' = [connections_ EXCEPT ![name[conn(0)]] = NoChannel]
        /\ UNCHANGED <<nextConnId, made, name, loop, fd, waiting>>
    BY <1>5 DEF runRemoval, StartFunctor, removeConnectionInLoop
  <2> QED
    BY <1>0, <2>2
<1>6. ASSUME NEW l \in Loops, NEW c \in Conns, handleClose(l, c)
      PROVE  MapTypes'
  <2>1. connections_' \in {connections_, [connections_ EXCEPT ![name[c]] = NoChannel]}
        /\ UNCHANGED <<nextConnId, made, name, loop, fd, waiting>>
    BY <1>6 DEF handleClose, removeConnectionInLoop
  <2> QED
    BY <1>0, <2>1
<1>7. ASSUME NEW l \in Loops, runEstablished(l)
      PROVE  MapTypes'
  BY <1>0, <1>7 DEF runEstablished, StartFunctor
<1>8. ASSUME NEW l \in Loops, runDestroyed(l)
      PROVE  MapTypes'
  BY <1>0, <1>8 DEF runDestroyed, StartFunctor
<1>9. ASSUME NEW l \in Loops, endOfFunctors(l)
      PROVE  MapTypes'
  BY <1>0, <1>9 DEF endOfFunctors
<1>10. ASSUME NEW s \in Callers, startPool(s)
      PROVE  MapTypes'
  BY <1>0, <1>10 DEF startPool
<1>11. ASSUME NEW s \in Callers, startListening(s)
      PROVE  MapTypes'
  BY <1>0, <1>11 DEF startListening
<1>12. ASSUME NEW n \in Conns, destroyConnection(n)
      PROVE  MapTypes'
  BY <1>0, <1>12 DEF destroyConnection
<1>13. CASE releaseConn
  BY <1>0, <1>13 DEF releaseConn, Main
<1>14. CASE endOfConnections
  BY <1>0, <1>14 DEF endOfConnections, Main
<1>15. CASE quitLoop
  BY <1>0, <1>15 DEF quitLoop, Main
<1>16. CASE join
  BY <1>0, <1>16 DEF join, Main
<1>17. CASE destroyAcceptor
  BY <1>0, <1>17 DEF destroyAcceptor, Main
<1>18. CASE destroyBaseLoop
  BY <1>0, <1>18 DEF destroyBaseLoop, Main
<1>19. ASSUME NEW m \in Loops, setThreadNum(m)
      PROVE  MapTypes'
  BY <1>0, <1>19 DEF setThreadNum
<1>20. ASSUME NEW s \in Callers, start(s)
      PROVE  MapTypes'
  BY <1>0, <1>20 DEF start, Begin
<1>21. CASE enterLoop
  BY <1>0, <1>21 DEF enterLoop
<1>22. ASSUME NEW c \in Conns, shutdown(c)
      PROVE  MapTypes'
  BY <1>0, <1>22 DEF shutdown
<1>23. CASE quitBaseLoop
  BY <1>0, <1>23 DEF quitBaseLoop
<1>24. CASE destroyServer
  BY <1>0, <1>24 DEF destroyServer
<1>25. CASE clientConnects
  <2>1. waiting' \in Nat /\ made + waiting' <= MaxConns
    BY <1>0, <1>25, BoundsAssumption DEF clientConnects
  <2> QED
    BY <1>0, <1>25, <2>1 DEF clientConnects
<1>26. CASE clientGivesUp
  <2>1. waiting' \in Nat /\ made + waiting' <= MaxConns
    BY <1>0, <1>26, BoundsAssumption DEF clientGivesUp
  <2> QED
    BY <1>0, <1>26, <2>1 DEF clientGivesUp
<1>27. ASSUME NEW c \in Conns, peerCloses(c)
      PROVE  MapTypes'
  BY <1>0, <1>27 DEF peerCloses
<1>28. ASSUME NEW l \in Loops, NEW c \in Conns, handleFreed(l, c)
      PROVE  MapTypes'
  BY <1>0, <1>28 DEF handleFreed
<1>29. ASSUME NEW l \in Loops, runSend(l)
      PROVE  MapTypes'
  BY <1>0, <1>29 DEF runSend, StartFunctor
<1>30. ASSUME NEW c \in Conns, testState(c)
      PROVE  MapTypes'
  BY <1>0, <1>30 DEF testState
<1>31. ASSUME NEW c \in Conns, queueSend(c)
      PROVE  MapTypes'
  BY <1>0, <1>31 DEF queueSend
<1>32. CASE UNCHANGED vars
  BY <1>0, <1>32 DEF vars
<1> QED
  BY <1>1, <1>2, <1>3, <1>4, <1>5, <1>6, <1>7, <1>8, <1>9, <1>10, <1>11, <1>12,
     <1>13, <1>14, <1>15, <1>16, <1>17, <1>18, <1>19, <1>20, <1>21, <1>22,
     <1>23, <1>24, <1>25, <1>26, <1>27, <1>28, <1>29, <1>30, <1>31, <1>32
  DEF Next, LoopSteps, StartSteps, DestructorSteps, UserCalls, Clients

LEMMA NextConnTypes == Types /\ Starting /\ [Next]_vars => ConnTypes'
<1> SUFFICES ASSUME Types, Starting, [Next]_vars
             PROVE  ConnTypes'
  OBVIOUS
<1>0. /\ PollerTypes /\ PoolTypes /\ MapTypes
      /\ ConnTypes /\ LoopTypes /\ MainTypes
  BY DEF Types
<1> USE DEF pollerVars, serverVars, mapVars, connVars, sendVars, kernelVars,
    turnVars, loopVars, mainVars, ConnTypes
<1>1. ASSUME NEW l \in Loops, pollEvents(l)
      PROVE  ConnTypes'
  BY <1>0, <1>1 DEF pollEvents
<1>2. CASE handleRead
  BY <1>0, <1>2, AcceptedEffect
<1>3. CASE handleReadFails
  BY <1>0, <1>3 DEF handleReadFails
<1>4. CASE runListen
  BY <1>0, <1>4 DEF runListen, StartFunctor
<1>5. CASE runRemoval
  BY <1>0, <1>5 DEF runRemoval, StartFunctor
<1>6. ASSUME NEW l \in Loops, NEW c \in Conns, handleClose(l, c)
      PROVE  ConnTypes'
  BY <1>0, <1>6 DEF handleClose, reportDown
<1>7. ASSUME NEW l \in Loops, runEstablished(l)
      PROVE  ConnTypes'
  BY <1>0, <1>7 DEF runEstablished, StartFunctor, connectEstablished
<1>8. ASSUME NEW l \in Loops, runDestroyed(l)
      PROVE  ConnTypes'
  BY <1>0, <1>8 DEF runDestroyed, StartFunctor, connectionDestroyed,
     reportDown
<1>9. ASSUME NEW l \in Loops, endOfFunctors(l)
      PROVE  ConnTypes'
  BY <1>0, <1>9 DEF endOfFunctors
<1>10. ASSUME NEW s \in Callers, startPool(s)
      PROVE  ConnTypes'
  BY <1>0, <1>10 DEF startPool
<1>11. ASSUME NEW s \in Callers, startListening(s)
      PROVE  ConnTypes'
  BY <1>0, <1>11 DEF startListening
<1>12. ASSUME NEW n \in Conns, destroyConnection(n)
      PROVE  ConnTypes'
  BY <1>0, <1>12 DEF destroyConnection, connectionDestroyed, reportDown
<1>13. CASE releaseConn
  BY <1>0, <1>13 DEF releaseConn, Main
<1>14. CASE endOfConnections
  BY <1>0, <1>14 DEF endOfConnections, Main
<1>15. CASE quitLoop
  BY <1>0, <1>15 DEF quitLoop, Main
<1>16. CASE join
  BY <1>0, <1>16 DEF join, Main
<1>17. CASE destroyAcceptor
  BY <1>0, <1>17 DEF destroyAcceptor, Main
<1>18. CASE destroyBaseLoop
  BY <1>0, <1>18 DEF destroyBaseLoop, Main
<1>19. ASSUME NEW m \in Loops, setThreadNum(m)
      PROVE  ConnTypes'
  BY <1>0, <1>19 DEF setThreadNum
<1>20. ASSUME NEW s \in Callers, start(s)
      PROVE  ConnTypes'
  BY <1>0, <1>20 DEF start, Begin
<1>21. CASE enterLoop
  BY <1>0, <1>21 DEF enterLoop
<1>22. ASSUME NEW c \in Conns, shutdown(c)
      PROVE  ConnTypes'
  BY <1>0, <1>22 DEF shutdown
<1>23. CASE quitBaseLoop
  BY <1>0, <1>23 DEF quitBaseLoop
<1>24. CASE destroyServer
  BY <1>0, <1>24 DEF destroyServer
<1>25. CASE clientConnects
  BY <1>0, <1>25 DEF clientConnects
<1>26. CASE clientGivesUp
  BY <1>0, <1>26 DEF clientGivesUp
<1>27. ASSUME NEW c \in Conns, peerCloses(c)
      PROVE  ConnTypes'
  BY <1>0, <1>27 DEF peerCloses
<1>28. ASSUME NEW l \in Loops, NEW c \in Conns, handleFreed(l, c)
      PROVE  ConnTypes'
  BY <1>0, <1>28 DEF handleFreed
<1>29. ASSUME NEW l \in Loops, runSend(l)
      PROVE  ConnTypes'
  BY <1>0, <1>29, SendEffect
<1>30. ASSUME NEW c \in Conns, testState(c)
      PROVE  ConnTypes'
  BY <1>0, <1>30 DEF testState
<1>31. ASSUME NEW c \in Conns, queueSend(c)
      PROVE  ConnTypes'
  BY <1>0, <1>31 DEF queueSend
<1>32. CASE UNCHANGED vars
  BY <1>0, <1>32 DEF vars
<1> QED
  BY <1>1, <1>2, <1>3, <1>4, <1>5, <1>6, <1>7, <1>8, <1>9, <1>10, <1>11, <1>12,
     <1>13, <1>14, <1>15, <1>16, <1>17, <1>18, <1>19, <1>20, <1>21, <1>22,
     <1>23, <1>24, <1>25, <1>26, <1>27, <1>28, <1>29, <1>30, <1>31, <1>32
  DEF Next, LoopSteps, StartSteps, DestructorSteps, UserCalls, Clients

LEMMA NextLoopTypes == Types /\ Starting /\ [Next]_vars => LoopTypes'
<1> SUFFICES ASSUME Types, Starting, [Next]_vars
             PROVE  LoopTypes'
  OBVIOUS
<1>0. /\ PollerTypes /\ PoolTypes /\ MapTypes
      /\ ConnTypes /\ LoopTypes /\ MainTypes
  BY DEF Types
<1> USE DEF pollerVars, serverVars, mapVars, connVars, sendVars, kernelVars,
    turnVars, loopVars, mainVars, LoopTypes
<1>1. ASSUME NEW l \in Loops, pollEvents(l)
      PROVE  LoopTypes'
  <2>1. pending \in Queues
    BY <1>0
  <2>2. active' \in [Loops -> SUBSET Channels]
    <3>1. PICK events \in SUBSET Ready(l) : active' = [active EXCEPT ![l] = events \ {Wakeup}]
      BY <1>1 DEF pollEvents
    <3>2. Ready(l) \subseteq Channels \cup {Wakeup}
      BY <1>0, BaseLoop DEF Ready, ConnTypes, Channels
    <3> QED
      BY <1>0, <3>1, <3>2
  <2>3. CASE active'[l] = {}
    <3>1. swapFunctors(l, pending) /\ loopAt' = [loopAt EXCEPT ![l] = "functors"]
      BY <1>1, <2>3 DEF pollEvents
    <3>2. pending' \in Queues /\ running' \in Queues
      <4> HIDE DEF LoopTypes
      <4> QED
        BY <1>0, <2>1, <3>1, Swapped
    <3> QED
      BY <1>0, <1>1, <2>2, <3>1, <3>2 DEF pollEvents
  <2>4. CASE active'[l] # {}
    BY <1>0, <1>1, <2>2, <2>4 DEF pollEvents
  <2> QED
    BY <2>3, <2>4
<1>2. CASE handleRead
  BY <1>0, <1>2, AcceptedEffect
<1>3. CASE handleReadFails
  <2> HIDE DEF LoopTypes
  <2>1. pending \in Queues
    BY <1>0 DEF LoopTypes
  <2> QED
    BY <1>0, <1>3, <2>1, HandledEffect, BaseLoop DEF handleReadFails
<1>4. CASE runListen
  <2>1. taken' \in [Loops -> Nat]
    BY <1>0, <1>4, StartedFunctor, BaseLoop DEF runListen
  <2> QED
    BY <1>0, <1>4, <2>1 DEF runListen, StartFunctor
<1>5. CASE runRemoval
  <2>1. conn(0) \in Conns /\ taken' \in [Loops -> Nat]
    BY <1>0, <1>5, StartedFunctor, BaseLoop DEF runRemoval
  <2>2. loop[conn(0)] \in Loops /\ Functor("destroy", conn(0)) \in ServerFunctors
    BY <1>0, <2>1, ServerFunctorsAre DEF MapTypes
  <2>3. pending' \in Queues
    BY <1>0, <1>5, <2>2, QueuedInOne DEF runRemoval, Queue
  <2> QED
    BY <1>0, <1>5, <2>1, <2>3 DEF runRemoval, StartFunctor
<1>6. ASSUME NEW l \in Loops, NEW c \in Conns, handleClose(l, c)
      PROVE  LoopTypes'
  <2> HIDE DEF LoopTypes
  <2>1. Functor("destroy", c) \in ServerFunctors /\ Functor("remove", c) \in ServerFunctors
    BY ServerFunctorsAre
  <2>2. PICK k \in {0, l}, f \in ServerFunctors :
          Handled(l, c, [pending EXCEPT ![k] = Append(@, f)])
    BY <1>6, <2>1 DEF handleClose
  <2>3. [pending EXCEPT ![k] = Append(@, f)] \in Queues
    BY <1>0, QueuedInOne, BaseLoop DEF LoopTypes
  <2> QED
    BY <1>0, <2>2, <2>3, HandledEffect
<1>7. ASSUME NEW l \in Loops, runEstablished(l)
      PROVE  LoopTypes'
  <2>1. conn(l) \in Conns /\ taken' \in [Loops -> Nat]
    BY <1>0, <1>7, StartedFunctor, BaseLoop DEF runEstablished
  <2> QED
    BY <1>0, <1>7, <2>1 DEF runEstablished, StartFunctor
<1>8. ASSUME NEW l \in Loops, runDestroyed(l)
      PROVE  LoopTypes'
  <2>1. conn(l) \in Conns /\ taken' \in [Loops -> Nat]
    BY <1>0, <1>8, StartedFunctor, BaseLoop DEF runDestroyed
  <2> QED
    BY <1>0, <1>8, <2>1 DEF runDestroyed, StartFunctor
<1>9. ASSUME NEW l \in Loops, endOfFunctors(l)
      PROVE  LoopTypes'
  <2>1. running' \in Queues /\ pending' \in Queues
    BY <1>0, <1>9, EmptiedOne DEF endOfFunctors
  <2> QED
    BY <1>0, <1>9, <2>1 DEF endOfFunctors
<1>10. ASSUME NEW s \in Callers, startPool(s)
      PROVE  LoopTypes'
  BY <1>0, <1>10 DEF startPool
<1>11. ASSUME NEW s \in Callers, startListening(s)
      PROVE  LoopTypes'
  <2>0. pending \in Queues
    BY <1>0
  <2>1. pending' \in Queues
    <3> HIDE DEF LoopTypes
    <3> QED
      BY <1>11, <2>0, ServerFunctorsAre, QueuedInOne, BaseLoop DEF startListening, Queue
  <2> QED
    BY <1>0, <1>11, <2>1 DEF startListening
<1>12. ASSUME NEW n \in Conns, destroyConnection(n)
      PROVE  LoopTypes'
  <2>1. connections_[n] \in Conns /\ loop[connections_[n]] \in Loops
    BY <1>0, <1>12 DEF destroyConnection, MapTypes
  <2>0. pending \in Queues
    BY <1>0
  <2>2. pending' \in Queues
    <3> HIDE DEF LoopTypes
    <3>1. Functor("destroy", connections_[n]) \in ServerFunctors
      BY <2>1, ServerFunctorsAre
    <3> QED
      BY <1>12, <2>0, <2>1, <3>1, QueuedInOne DEF destroyConnection, Queue
  <2> QED
    BY <1>0, <1>12, <2>2 DEF destroyConnection
<1>13. CASE releaseConn
  BY <1>0, <1>13 DEF releaseConn, Main
<1>14. CASE endOfConnections
  BY <1>0, <1>14 DEF endOfConnections, Main
<1>15. CASE quitLoop
  BY <1>0, <1>15 DEF quitLoop, Main
<1>16. CASE join
  BY <1>0, <1>16 DEF join, Main
<1>17. CASE destroyAcceptor
  BY <1>0, <1>17 DEF destroyAcceptor, Main
<1>18. CASE destroyBaseLoop
  <2>1. pending' \in Queues
    BY <1>0, <1>18, EmptiedOne, BaseLoop DEF destroyBaseLoop
  <2> QED
    BY <1>0, <1>18, <2>1 DEF destroyBaseLoop, Main
<1>19. ASSUME NEW m \in Loops, setThreadNum(m)
      PROVE  LoopTypes'
  BY <1>0, <1>19 DEF setThreadNum
<1>20. ASSUME NEW s \in Callers, start(s)
      PROVE  LoopTypes'
  BY <1>0, <1>20 DEF start, Begin
<1>21. CASE enterLoop
  BY <1>0, <1>21 DEF enterLoop
<1>22. ASSUME NEW c \in Conns, shutdown(c)
      PROVE  LoopTypes'
  BY <1>0, <1>22 DEF shutdown
<1>23. CASE quitBaseLoop
  BY <1>0, <1>23 DEF quitBaseLoop
<1>24. CASE destroyServer
  BY <1>0, <1>24 DEF destroyServer
<1>25. CASE clientConnects
  BY <1>0, <1>25 DEF clientConnects
<1>26. CASE clientGivesUp
  BY <1>0, <1>26 DEF clientGivesUp
<1>27. ASSUME NEW c \in Conns, peerCloses(c)
      PROVE  LoopTypes'
  BY <1>0, <1>27 DEF peerCloses
<1>28. ASSUME NEW l \in Loops, NEW c \in Conns, handleFreed(l, c)
      PROVE  LoopTypes'
  <2> HIDE DEF LoopTypes
  <2>1. pending \in Queues
    BY <1>0 DEF LoopTypes
  <2> QED
    BY <1>0, <1>28, <2>1, HandledEffect DEF handleFreed
<1>29. ASSUME NEW l \in Loops, runSend(l)
      PROVE  LoopTypes'
  BY <1>0, <1>29, SendEffect
<1>30. ASSUME NEW c \in Conns, testState(c)
      PROVE  LoopTypes'
  BY <1>0, <1>30 DEF testState
<1>31. ASSUME NEW c \in Conns, queueSend(c)
      PROVE  LoopTypes'
  <2>1. /\ loop[c] \in Loops /\ pending \in Queues
        /\ Functor("send", c) \in ServerFunctors
    BY <1>0, ServerFunctorsAre DEF MapTypes
  <2>2. pending' \in Queues
    <3> HIDE DEF LoopTypes
    <3> QED
      BY <1>31, <2>1, QueuedInOne DEF queueSend, Queue
  <2> QED
    BY <1>0, <1>31, <2>2 DEF queueSend
<1>32. CASE UNCHANGED vars
  BY <1>0, <1>32 DEF vars
<1> QED
  BY <1>1, <1>2, <1>3, <1>4, <1>5, <1>6, <1>7, <1>8, <1>9, <1>10, <1>11, <1>12,
     <1>13, <1>14, <1>15, <1>16, <1>17, <1>18, <1>19, <1>20, <1>21, <1>22,
     <1>23, <1>24, <1>25, <1>26, <1>27, <1>28, <1>29, <1>30, <1>31, <1>32
  DEF Next, LoopSteps, StartSteps, DestructorSteps, UserCalls, Clients

LEMMA NextMainTypes == Types /\ Starting /\ [Next]_vars => MainTypes'
<1> SUFFICES ASSUME Types, Starting, [Next]_vars
             PROVE  MainTypes'
  OBVIOUS
<1>0. /\ PollerTypes /\ PoolTypes /\ MapTypes
      /\ ConnTypes /\ LoopTypes /\ MainTypes
  BY DEF Types
<1> USE DEF pollerVars, serverVars, mapVars, connVars, sendVars, kernelVars,
    turnVars, loopVars, mainVars, MainTypes
<1>1. ASSUME NEW l \in Loops, pollEvents(l)
      PROVE  MainTypes'
  BY <1>0, <1>1 DEF pollEvents
<1>2. CASE handleRead
  BY <1>0, <1>2 DEF handleRead
<1>3. CASE handleReadFails
  BY <1>0, <1>3 DEF handleReadFails
<1>4. CASE runListen
  BY <1>0, <1>4 DEF runListen, StartFunctor
<1>5. CASE runRemoval
  BY <1>0, <1>5 DEF runRemoval, StartFunctor
<1>6. ASSUME NEW l \in Loops, NEW c \in Conns, handleClose(l, c)
      PROVE  MainTypes'
  BY <1>0, <1>6 DEF handleClose
<1>7. ASSUME NEW l \in Loops, runEstablished(l)
      PROVE  MainTypes'
  BY <1>0, <1>7 DEF runEstablished, StartFunctor
<1>8. ASSUME NEW l \in Loops, runDestroyed(l)
      PROVE  MainTypes'
  BY <1>0, <1>8 DEF runDestroyed, StartFunctor
<1>9. ASSUME NEW l \in Loops, endOfFunctors(l)
      PROVE  MainTypes'
  BY <1>0, <1>9 DEF endOfFunctors
<1>10. ASSUME NEW s \in Callers, startPool(s)
      PROVE  MainTypes'
  <2>1. loops' \in Nat /\ loops <= loops'
    BY <1>0, <1>10, BoundsAssumption DEF startPool, PoolTypes, Loops
  <2> QED
    BY <1>0, <1>10, <2>1, BoundsAssumption DEF startPool, PoolTypes, Loops
<1>11. ASSUME NEW s \in Callers, startListening(s)
      PROVE  MainTypes'
  BY <1>0, <1>11 DEF startListening
<1>12. ASSUME NEW n \in Conns, destroyConnection(n)
      PROVE  MainTypes'
  BY <1>0, <1>12 DEF destroyConnection, MapTypes
<1>13. CASE releaseConn
  BY <1>0, <1>13 DEF releaseConn, Main
<1>14. CASE endOfConnections
  BY <1>0, <1>14 DEF endOfConnections, Main
<1>15. CASE quitLoop
  BY <1>0, <1>15 DEF quitLoop, Main
<1>16. CASE join
  <2>1. cur' \in Nat \ {0} /\ cur' <= loops + 1 /\ UNCHANGED <<loops, held, dropped>>
    BY <1>0, <1>16, BoundsAssumption DEF join, Main, PoolTypes, Loops
  <2> QED
    BY <1>0, <1>16, <2>1 DEF join, Main
<1>17. CASE destroyAcceptor
  BY <1>0, <1>17 DEF destroyAcceptor, Main
<1>18. CASE destroyBaseLoop
  BY <1>0, <1>18 DEF destroyBaseLoop, Main
<1>19. ASSUME NEW m \in Loops, setThreadNum(m)
      PROVE  MainTypes'
  BY <1>0, <1>19 DEF setThreadNum
<1>20. ASSUME NEW s \in Callers, start(s)
      PROVE  MainTypes'
  BY <1>0, <1>20 DEF start, Begin
<1>21. CASE enterLoop
  BY <1>0, <1>21 DEF enterLoop
<1>22. ASSUME NEW c \in Conns, shutdown(c)
      PROVE  MainTypes'
  BY <1>0, <1>22 DEF shutdown
<1>23. CASE quitBaseLoop
  BY <1>0, <1>23 DEF quitBaseLoop
<1>24. CASE destroyServer
  BY <1>0, <1>24 DEF destroyServer
<1>25. CASE clientConnects
  BY <1>0, <1>25 DEF clientConnects
<1>26. CASE clientGivesUp
  BY <1>0, <1>26 DEF clientGivesUp
<1>27. ASSUME NEW c \in Conns, peerCloses(c)
      PROVE  MainTypes'
  BY <1>0, <1>27 DEF peerCloses
<1>28. ASSUME NEW l \in Loops, NEW c \in Conns, handleFreed(l, c)
      PROVE  MainTypes'
  BY <1>0, <1>28 DEF handleFreed
<1>29. ASSUME NEW l \in Loops, runSend(l)
      PROVE  MainTypes'
  BY <1>0, <1>29 DEF runSend, StartFunctor
<1>30. ASSUME NEW c \in Conns, testState(c)
      PROVE  MainTypes'
  BY <1>0, <1>30 DEF testState
<1>31. ASSUME NEW c \in Conns, queueSend(c)
      PROVE  MainTypes'
  BY <1>0, <1>31 DEF queueSend
<1>32. CASE UNCHANGED vars
  BY <1>0, <1>32 DEF vars
<1> QED
  BY <1>1, <1>2, <1>3, <1>4, <1>5, <1>6, <1>7, <1>8, <1>9, <1>10, <1>11, <1>12,
     <1>13, <1>14, <1>15, <1>16, <1>17, <1>18, <1>19, <1>20, <1>21, <1>22,
     <1>23, <1>24, <1>25, <1>26, <1>27, <1>28, <1>29, <1>30, <1>31, <1>32
  DEF Next, LoopSteps, StartSteps, DestructorSteps, UserCalls, Clients

-----------------------------------------------------------------------------
(* The start of the server.                                                *)

\* Once a loop has been started it never has not; so whoever may listen now may
\* do so later.
LEMMA StartingStays ==
  ASSUME PoolTypes, Starting,
         UNCHANGED <<numThreads, started, loops, startAt>>,
         \A l \in Loops : loopAt[l] # "none" => loopAt'[l] # "none",
         Listening' => Listening
  PROVE  Starting'
<1>1. 1 .. loops \subseteq Loops
  BY BoundsAssumption DEF PoolTypes, Loops
<1>2. PoolReady => PoolReady'
  BY <1>1 DEF PoolReady
<1> QED
  BY <1>2 DEF Starting

LEMMA NextStarting == Types /\ Starting /\ [Next]_vars => Starting'
<1> SUFFICES ASSUME Types, Starting, [Next]_vars
             PROVE  Starting'
  OBVIOUS
<1>0. /\ PollerTypes /\ PoolTypes /\ MapTypes
      /\ ConnTypes /\ LoopTypes /\ MainTypes
  BY DEF Types
<1> USE DEF pollerVars, serverVars, mapVars, connVars, sendVars, kernelVars,
    turnVars, loopVars, mainVars
<1>1. ASSUME NEW l \in Loops, pollEvents(l)
      PROVE  Starting'
  <2>1. pending \in Queues /\ running \in Queues
    BY <1>0 DEF LoopTypes
  <2>2. \/ pending' = pending /\ running' = running
        \/ swapFunctors(l, pending)
    BY <1>1 DEF pollEvents
  <2>3. /\ Listens(pending'[0]) => Listens(pending[0])
        /\ Listens(running'[0]) => Listens(pending[0]) \/ Listens(running[0])
    BY <1>0, <2>1, <2>2, Swapped
  <2>4. /\ UNCHANGED <<index, numThreads, started, loops, startAt>>
        /\ \A k \in Loops : loopAt[k] # "none" => loopAt'[k] # "none"
    BY <1>0, <1>1 DEF pollEvents, poll, LoopTypes
  <2> QED
    BY <1>0, <2>3, <2>4, StartingStays DEF Listening
<1>2. CASE handleRead
  <2>1. UNCHANGED <<numThreads, started, loops, startAt>>
    BY <1>2 DEF handleRead
  <2> QED
    BY <1>0, <1>2, <2>1, AcceptedEffect, StartingStays DEF Listening
<1>3. CASE handleReadFails
  <2>1. pending \in Queues
    BY <1>0 DEF LoopTypes
  <2>2. /\ \A k \in Loops : loopAt[k] # "none" => loopAt'[k] # "none"
        /\ Listens(pending'[0]) => Listens(pending[0])
        /\ Listens(running'[0]) => Listens(pending[0]) \/ Listens(running[0])
    BY <1>0, <1>3, <2>1, HandledEffect, BaseLoop DEF handleReadFails
  <2> QED
    BY <1>0, <1>3, <2>2, StartingStays DEF handleReadFails, Listening
<1>4. CASE runListen
  <2>1. Listening
    BY <1>0, <1>4, StartedFunctor, BaseLoop DEF runListen, Listening, Listens
  <2> QED
    BY <1>0, <1>4, <2>1, StartingStays DEF runListen, StartFunctor
<1>5. CASE runRemoval
  <2>1. conn(0) \in Conns /\ taken' \in [Loops -> Nat]
    BY <1>0, <1>5, StartedFunctor, BaseLoop DEF runRemoval
  <2>2. /\ loop[conn(0)] \in Loops /\ pending \in Queues
        /\ Functor("destroy", conn(0)) \in ServerFunctors
        /\ Functor("destroy", conn(0)).do # "listen"
    BY <1>0, <2>1, ServerFunctorsAre DEF MapTypes, LoopTypes
  <2>3. Listens(pending'[0]) => Listens(pending[0])
    BY <1>5, <2>2, QueuedInOne DEF runRemoval, Queue
  <2> QED
    BY <1>0, <1>5, <2>3, StartingStays DEF runRemoval, StartFunctor, Listening
<1>6. ASSUME NEW l \in Loops, NEW c \in Conns, handleClose(l, c)
      PROVE  Starting'
  <2>1. /\ Functor("destroy", c) \in ServerFunctors /\ Functor("destroy", c).do # "listen"
        /\ Functor("remove", c) \in ServerFunctors /\ Functor("remove", c).do # "listen"
    BY ServerFunctorsAre
  <2>2. PICK k \in {0, l}, f \in ServerFunctors :
          /\ f.do # "listen"
          /\ Handled(l, c, [pending EXCEPT ![k] = Append(@, f)])
    BY <1>6, <2>1 DEF handleClose
  <2> DEFINE queue == [pending EXCEPT ![k] = Append(@, f)]
  <2>3. queue \in Queues /\ (Listens(queue[0]) <=> Listens(pending[0]))
    BY <1>0, <2>2, QueuedInOne, BaseLoop DEF LoopTypes
  <2>4. Handled(l, c, queue)
    BY <2>2
  <2> HIDE DEF queue
  <2>5. /\ \A j \in Loops : loopAt[j] # "none" => loopAt'[j] # "none"
        /\ Listens(pending'[0]) => Listens(pending[0])
        /\ Listens(running'[0]) => Listens(pending[0]) \/ Listens(running[0])
    BY <1>0, <2>3, <2>4, HandledEffect
  <2> QED
    BY <1>0, <1>6, <2>5, StartingStays DEF handleClose, Listening
<1>7. ASSUME NEW l \in Loops, runEstablished(l)
      PROVE  Starting'
  <2>1. conn(l) \in Conns /\ taken' \in [Loops -> Nat]
    BY <1>0, <1>7, StartedFunctor, BaseLoop DEF runEstablished
  <2>2. /\ loop'[conn(l)] \in Loops /\ fd'[conn(l)] \in Fds \cup {ListenFd}
        /\ conn(l) \in Channels /\ conn(l) # Acceptor
    BY <1>0, <1>7, <2>1, BaseLoop DEF runEstablished, MapTypes, Channels
  <2>3. index'[Acceptor] = index[Acceptor]
    BY <1>0, <1>7, <2>2, UpdatedChannel DEF runEstablished, connectEstablished
  <2> QED
    BY <1>0, <1>7, <2>3, StartingStays DEF runEstablished, StartFunctor, Listening
<1>8. ASSUME NEW l \in Loops, runDestroyed(l)
      PROVE  Starting'
  <2>1. conn(l) \in Conns /\ taken' \in [Loops -> Nat]
    BY <1>0, <1>8, StartedFunctor, BaseLoop DEF runDestroyed
  <2>2. connectionDestroyed(conn(l))
    BY <1>8 DEF runDestroyed
  <2>3. index'[Acceptor] = index[Acceptor]
    BY <1>0, <2>1, <2>2, DestroyedEffect
  <2> QED
    BY <1>0, <1>8, <2>3, StartingStays DEF runDestroyed, StartFunctor, Listening
<1>9. ASSUME NEW l \in Loops, endOfFunctors(l)
      PROVE  Starting'
  <2>1. /\ Listens(pending'[0]) => Listens(pending[0])
        /\ Listens(running'[0]) => Listens(running[0])
    BY <1>0, <1>9, EmptiedOne DEF endOfFunctors, LoopTypes
  <2>2. \A k \in Loops : loopAt[k] # "none" => loopAt'[k] # "none"
    BY <1>0, <1>9 DEF endOfFunctors, LoopTypes
  <2> QED
    BY <1>0, <1>9, <2>1, <2>2, StartingStays DEF endOfFunctors, Listening
<1>10. ASSUME NEW s \in Callers, startPool(s)
      PROVE  Starting'
  <2>1. /\ loops = 0 /\ ~Listening /\ started
        /\ \A t \in Callers : startAt[t] # "out" => t = s
    BY <1>10 DEF startPool, Starting
  <2>2. loops' = numThreads /\ loops + 1 .. loops + numThreads = 1 .. loops'
    BY <1>0, <1>10, <2>1, BoundsAssumption DEF startPool, PoolTypes, Loops
  <2>3. PoolReady'
    <3>1. 1 .. loops' \subseteq Loops
      BY <1>0, <2>2, BoundsAssumption DEF PoolTypes, Loops
    <3> QED
      BY <1>10, <2>2, <3>1 DEF startPool, PoolReady
  <2>4. /\ ~Listening' /\ started' /\ numThreads' = numThreads
        /\ \A t \in Callers : startAt'[t] = IF t = s THEN "listen" ELSE "out"
    BY <1>0, <1>10, <2>1 DEF startPool, Listening, PoolTypes
  <2> QED
    BY <2>2, <2>3, <2>4 DEF Starting
<1>11. ASSUME NEW s \in Callers, startListening(s)
      PROVE  Starting'
  <2>1. /\ PoolReady /\ started
        /\ \A t \in Callers : startAt[t] # "out" => t = s
    BY <1>11 DEF startListening, Starting
  <2>2. /\ \A t \in Callers : startAt'[t] = "out"
        /\ UNCHANGED <<numThreads, started, loops, loopAt>>
    BY <1>0, <1>11, <2>1 DEF startListening, PoolTypes
  <2> QED
    BY <2>1, <2>2 DEF Starting, PoolReady
<1>12. ASSUME NEW n \in Conns, destroyConnection(n)
      PROVE  Starting'
  <2>1. connections_[n] \in Conns /\ loop[connections_[n]] \in Loops
    BY <1>0, <1>12 DEF destroyConnection, MapTypes
  <2>2. /\ pending \in Queues
        /\ Functor("destroy", connections_[n]) \in ServerFunctors
        /\ Functor("destroy", connections_[n]).do # "listen"
    BY <1>0, <2>1, ServerFunctorsAre DEF LoopTypes
  <2>3. Listens(pending'[0]) => Listens(pending[0])
    BY <1>12, <2>1, <2>2, QueuedInOne DEF destroyConnection, Queue
  <2>4. connectionDestroyed(connections_[n]) \/ UNCHANGED pollerVars
    BY <1>12 DEF destroyConnection
  <2>5. index'[Acceptor] = index[Acceptor]
    BY <1>0, <2>1, <2>4, DestroyedEffect
  <2> QED
    BY <1>0, <1>12, <2>3, <2>5, StartingStays DEF destroyConnection, Listening
<1>13. CASE releaseConn
  BY <1>0, <1>13, StartingStays DEF releaseConn, Main, Listening
<1>14. CASE endOfConnections
  BY <1>0, <1>14, StartingStays DEF endOfConnections, Main, Listening
<1>15. CASE quitLoop
  BY <1>0, <1>15, StartingStays DEF quitLoop, Main, Listening
<1>16. CASE join
  BY <1>0, <1>16, StartingStays DEF join, Main, Listening
<1>17. CASE destroyAcceptor
  <2>1. index'[Acceptor] = "kNew"
    BY <1>0, <1>17, RemovedChannel, BaseLoop DEF destroyAcceptor
  <2> QED
    BY <1>0, <1>17, <2>1, StartingStays DEF destroyAcceptor, Main, Listening
<1>18. CASE destroyBaseLoop
  <2>1. Listens(pending'[0]) => Listens(pending[0])
    BY <1>0, <1>18, EmptiedOne, BaseLoop DEF destroyBaseLoop, LoopTypes
  <2> QED
    BY <1>0, <1>18, <2>1, StartingStays DEF destroyBaseLoop, Main, Listening
<1>19. ASSUME NEW m \in Loops, setThreadNum(m)
      PROVE  Starting'
  <2>1. /\ loops = 0 /\ ~Listening /\ ~started
        /\ \A s \in Callers : startAt[s] = "out"
    BY <1>0, <1>19 DEF setThreadNum, Starting
  <2> QED
    BY <1>19, <2>1 DEF setThreadNum, Starting, Listening
<1>20. ASSUME NEW s \in Callers, start(s)
      PROVE  Starting'
  <2>1. CASE started
    <3>1. startAt' = startAt
      BY <1>0, <1>20, <2>1 DEF start, Begin, PoolTypes
    <3> QED
      BY <1>0, <1>20, <2>1, <3>1, StartingStays DEF start, Begin, Listening
  <2>2. CASE ~started
    <3>1. /\ loops = 0 /\ ~Listening
          /\ \A t \in Callers : startAt[t] = "out"
      BY <1>0, <2>2 DEF Starting
    <3>2. \A t \in Callers : startAt'[t] = IF t = s THEN "pool" ELSE "out"
      BY <1>0, <1>20, <2>2, <3>1 DEF start, Begin, PoolTypes
    <3>3. started' /\ loops' = 0 /\ ~Listening'
      BY <1>20, <3>1 DEF start, Begin, Listening
    <3> QED
      BY <3>2, <3>3 DEF Starting
  <2> QED
    BY <2>1, <2>2
<1>21. CASE enterLoop
  <2>1. \A l \in Loops : loopAt[l] # "none" => loopAt'[l] # "none"
    BY <1>0, <1>21 DEF enterLoop, LoopTypes
  <2> QED
    BY <1>0, <1>21, <2>1, StartingStays DEF enterLoop, Listening
<1>22. ASSUME NEW c \in Conns, shutdown(c)
      PROVE  Starting'
  BY <1>0, <1>22, StartingStays DEF shutdown, Listening
<1>23. CASE quitBaseLoop
  BY <1>0, <1>23, StartingStays DEF quitBaseLoop, Listening
<1>24. CASE destroyServer
  BY <1>0, <1>24, StartingStays DEF destroyServer, Listening
<1>25. CASE clientConnects
  BY <1>0, <1>25, StartingStays DEF clientConnects, Listening
<1>26. CASE clientGivesUp
  BY <1>0, <1>26, StartingStays DEF clientGivesUp, Listening
<1>27. ASSUME NEW c \in Conns, peerCloses(c)
      PROVE  Starting'
  BY <1>0, <1>27, StartingStays DEF peerCloses, Listening
<1>28. ASSUME NEW l \in Loops, NEW c \in Conns, handleFreed(l, c)
      PROVE  Starting'
  <2>1. pending \in Queues
    BY <1>0 DEF LoopTypes
  <2>2. /\ \A k \in Loops : loopAt[k] # "none" => loopAt'[k] # "none"
        /\ Listens(pending'[0]) => Listens(pending[0])
        /\ Listens(running'[0]) => Listens(pending[0]) \/ Listens(running[0])
    BY <1>0, <1>28, <2>1, HandledEffect, BaseLoop DEF handleFreed
  <2> QED
    BY <1>0, <1>28, <2>2, StartingStays DEF handleFreed, Listening
<1>29. ASSUME NEW l \in Loops, runSend(l)
      PROVE  Starting'
  <2>1. index'[Acceptor] = index[Acceptor]
    BY <1>0, <1>29, SendEffect
  <2> QED
    BY <1>0, <1>29, <2>1, StartingStays DEF runSend, StartFunctor, Listening
<1>30. ASSUME NEW c \in Conns, testState(c)
      PROVE  Starting'
  BY <1>0, <1>30, StartingStays DEF testState, Listening
<1>31. ASSUME NEW c \in Conns, queueSend(c)
      PROVE  Starting'
  <2>1. /\ loop[c] \in Loops /\ pending \in Queues
        /\ Functor("send", c) \in ServerFunctors /\ Functor("send", c).do # "listen"
    BY <1>0, ServerFunctorsAre DEF MapTypes, LoopTypes
  <2>2. Listens(pending'[0]) => Listens(pending[0])
    BY <1>31, <2>1, QueuedInOne DEF queueSend, Queue
  <2> QED
    BY <1>0, <1>31, <2>2, StartingStays DEF queueSend, Listening
<1>32. CASE UNCHANGED vars
  BY <1>0, <1>32, StartingStays DEF vars, Listening
<1> QED
  BY <1>1, <1>2, <1>3, <1>4, <1>5, <1>6, <1>7, <1>8, <1>9, <1>10, <1>11, <1>12,
     <1>13, <1>14, <1>15, <1>16, <1>17, <1>18, <1>19, <1>20, <1>21, <1>22,
     <1>23, <1>24, <1>25, <1>26, <1>27, <1>28, <1>29, <1>30, <1>31, <1>32
  DEF Next, LoopSteps, StartSteps, DestructorSteps, UserCalls, Clients

LEMMA InitServerInv == Init => ServerInv
<1> SUFFICES ASSUME Init
             PROVE  ServerInv
  OBVIOUS
<1>1. PollerTypes /\ index[Acceptor] = "kNew"
  BY BaseLoop, EventListAssumption DEF Init, PollerInit, PollerTypes
<1>2. PoolTypes
  <2>1. /\ numThreads \in Loops /\ loops \in Loops /\ started \in BOOLEAN
        /\ next \in Nat /\ next = 0
    BY BaseLoop DEF Init
  <2>2. startAt \in [Callers -> {"out", "pool", "listen"}]
    BY DEF Init
  <2> QED
    BY <2>1, <2>2 DEF PoolTypes
<1>3. free \subseteq Fds
  BY FdsAssumption DEF Init
<1>4. ConnTypes
  BY <1>3 DEF Init, ConnTypes
<1>5. MapTypes
  BY BoundsAssumption DEF Init, MapTypes, Loops
<1>6. LoopTypes /\ ~Listens(pending[0]) /\ ~Listens(running[0])
  BY BaseLoop, EmptySeq DEF Init, LoopTypes, Queues, Listens
<1>7. MainTypes
  BY BoundsAssumption DEF Init, MainTypes
<1>8. Starting
  BY <1>1, <1>6 DEF Init, Starting, Listening
<1> QED
  BY <1>1, <1>2, <1>4, <1>5, <1>6, <1>7, <1>8 DEF ServerInv, Types

LEMMA AlwaysServerInv == Spec => []ServerInv
<1>1. ServerInv /\ [Next]_vars => ServerInv'
  BY NextPollerTypes, NextPoolTypes, NextMapTypes, NextConnTypes, NextLoopTypes,
     NextMainTypes, NextStarting
  DEF ServerInv, Types
<1> QED
  BY InitServerInv, <1>1, PTL DEF Spec

\* The variables of TcpServer, Acceptor, the pollers and the loops keep their
\* types: getNextLoop() stays inside loops_, a functor is bound to a connection
\* that exists, and every join() is of a thread of the pool.
THEOREM ServerTypeCorrect == Spec => []TypeOK
<1>1. ServerInv => TypeOK
  <2> SUFFICES ASSUME ServerInv
               PROVE  TypeOK
    OBVIOUS
  <2>1. /\ PollerTypes /\ PoolTypes /\ MapTypes
        /\ ConnTypes /\ LoopTypes /\ MainTypes
    BY DEF ServerInv, Types
  <2>2. /\ nextConnId \in 1 .. MaxConns + 1 /\ made \in 0 .. MaxConns
        /\ waiting \in 0 .. MaxConns
    BY <2>1, BoundsAssumption DEF MapTypes
  <2>3. cur \in 1 .. MaxThreads + 1
    BY <2>1, BoundsAssumption DEF MainTypes, PoolTypes, Loops
  <2>4. \A l \in Loops : eventListSize[l] \in Nat \ {0}
    BY <2>1 DEF PollerTypes
  <2> QED
    BY <2>1, <2>2, <2>3, <2>4
    DEF TypeOK, PollerTypes, PoolTypes, MapTypes, ConnTypes, LoopTypes, MainTypes
<1> QED
  BY <1>1, AlwaysServerInv, PTL

\* TcpServer::start(), called by any number of threads: the pool is started at
\* most once and with the number of threads that was set, and the acceptor is
\* registered only when all loops of the pool are running.
THEOREM ServerListensWhenReady == Spec => []ListensWhenReady
<1>1. ServerInv => ListensWhenReady
  BY DEF ServerInv, Starting, Listening, PoolReady, ListensWhenReady
<1> QED
  BY <1>1, AlwaysServerInv, PTL
=============================================================================
