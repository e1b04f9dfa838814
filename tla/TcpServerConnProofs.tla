-------------------------- MODULE TcpServerConnProofs --------------------------
(***************************************************************************)
(* The connections of a TcpServer, for any number of loops, connections    *)
(* and descriptors: the pollers' tables are right although descriptors are *)
(* reused, nobody is left uninformed, nothing calls the server after its   *)
(* destructor, and every connection lives as ConnectionLife says.          *)
(*                                                                         *)
(* The core of the argument is that a connection whose channel is, or will *)
(* be, registered is kept by something that is still to act on it: the     *)
(* server's map, a removal or a connectionDestroyed in a queue. So nobody  *)
(* else can be given its descriptor, and the entry that removeChannel()    *)
(* erases by number is its own. Only the channels that a send has put back *)
(* after their removal are kept by nothing: their entries stay when the    *)
(* connection goes, until another one gets the descriptor.                 *)
(***************************************************************************)
EXTENDS TcpServerQueueProofs

Mapped == {c \in Conns : connections_[c] = c}

\* The loops whose poller still exists.
Polled == {l \in Loops : HasPoller(l)}

\* Connections are numbered as they are made, and named by their numbers.
Numbered ==
  /\ \A n \in Conns : connections_[n] \in {n, NoChannel}
  /\ Mapped \subseteq Made /\ Bound \subseteq Made /\ held \in Made \cup {NoChannel}
  /\ sending \subseteq Made /\ late \subseteq Made /\ dropped \subseteq Made
  /\ \A c \in Conns : c \notin Made =>
       index[c] = "kNew" /\ state[c] = "kConnecting" /\ told[c] = "nothing"
  /\ \A c \in Made : name[c] = c /\ fd[c] \in Fds /\ loop[c] <= loops

\* What holds a TcpConnectionPtr holds the descriptor, which is its own.
Referred == Mapped \cup Bound \cup {c \in Conns : held = c} \cup sending

OwnSockets == \A c, d \in Referred : fd[c] = fd[d] => c = d

Registered(c, l) == loop[c] = l /\ index[c] # "kNew" /\ l \in Polled

\* A table has no channels but registered ones, and all of them that have not been
\* freed: another connection may have been given a freed one's descriptor.
Tables ==
  \A l \in Loops, f \in Fds :
    /\ channels_[l][f] # Acceptor
    /\ \A c \in Conns : channels_[l][f] = c => Registered(c, l) /\ fd[c] = f
    /\ \A c \in Referred : Registered(c, l) /\ fd[c] = f => channels_[l][f] = c

\* The channels that poll() has returned are registered until they are handled.
Activated ==
  \A l \in Loops :
    /\ active[l] # {} => loopAt[l] = "events"
    /\ \A c \in Conns : c \in active[l] => loop[c] = l /\ index[c] # "kNew"

\* They have been closed by their peers.
Closing == \A l \in Loops : active[l] \cap Conns \subseteq closed

\* How far a connection has come, against the functors that wait.
Stages ==
  \A c \in Conns :
    /\ c \in ToEstablish =>
         state[c] = "kConnecting" /\ told[c] = "nothing" /\ index[c] = "kNew"
    /\ c \in ToRemove => told[c] = "down"
    /\ index[c] # "kNew" => told[c] # "nothing"
    /\ state[c] = "kConnected" => told[c] = "up"
    /\ state[c] = "kDisconnected" => told[c] = "down"
    /\ c \in Made /\ state[c] = "kConnecting" => c \in ToEstablish \cup dropped
    /\ told[c] = "nothing" => state[c] = "kConnecting" /\ c \notin sending \cup late
    /\ c \in dropped => loop[c] \notin Polled

\* A connection that is, or will be, registered is kept by what will end it, unless
\* it has been removed before.
Kept ==
  \A c \in Conns :
    (index[c] # "kNew" /\ c \notin late) \/ c \in ToEstablish
      => c \in Mapped \cup ToRemove \cup ToDestroy \/ loop[c] \notin Polled

\* The user has been told of the end, has shut the connection down, or will be
\* told by a functor or by ~TcpServer().
Heard ==
  \A c \in Made :
    \/ told[c] = "down" \/ state[c] = "kDisconnecting"
    \/ c \in dropped \cup Mapped \cup ToDestroy

HeardWhileServing == mainAt = "user" => \A c \in Made : c \in Mapped \/ told[c] = "down"

ConnInv ==
  /\ Numbered /\ OwnSockets /\ Tables /\ Activated
  /\ Stages /\ Kept /\ Heard /\ HeardWhileServing

\* How far ~TcpServer() has come, against the loops: those of the pool run until
\* it asks them to stop, and the base loop has stopped before.
Destructor ==
  /\ mainAt # "user" => loopAt[0] = "stopped" /\ \A s \in Callers : startAt[s] = "out"
  /\ mainAt = "user" => held = NoChannel
  /\ mainAt \in {"user", "connections"} => cur = 1
  /\ mainAt \notin {"user", "connections"} =>
       held = NoChannel /\ \A n \in Conns : connections_[n] = NoChannel
  /\ mainAt \in {"destroyed", "ended"} => cur > loops /\ channels_[0][ListenFd] = NoChannel
  /\ \A l \in Loops \ {0} :
       /\ loopAt[l] # "none" => l <= loops
       /\ l < cur /\ l <= loops => loopAt[l] = "stopped"
       /\ quit[l] \/ loopAt[l] = "stopped" => mainAt \notin {"user", "connections"}

Inv == Types /\ Starting /\ Functors /\ ConnInv /\ Closing /\ Destructor

\* What a step does to the connections as their users see them: references go, a
\* connection comes up or is reported down, or one more is accepted.
Tells(c, from, to) ==
  /\ c \in Referred /\ told[c] = from
  /\ told' = [told EXCEPT ![c] = to]
  /\ ends' = IF to = "down" THEN [ends EXCEPT ![c] = @ + 1] ELSE ends
  /\ Referred' = Referred /\ Made' = Made

LifeStep ==
  \/ told' = told /\ ends' = ends /\ Referred' \subseteq Referred /\ Made' = Made
  \/ \E c \in Conns : \/ Tells(c, "nothing", "up") \/ Tells(c, "up", "down")
                      \/ c \in closed /\ Tells(c, "down", "down")
  \/ \E c \in Conns \ Made :
       /\ told' \in {told, [told EXCEPT ![c] = "up"]} /\ ends' = ends
       /\ Referred' = Referred \cup {c} /\ Made' = Made \cup {c}

-----------------------------------------------------------------------------
(* Facts about one state.                                                  *)

LEMMA WaitingAreConns ==
  /\ ToEstablish \subseteq Conns /\ ToRemove \subseteq Conns /\ ToDestroy \subseteq Conns
  /\ Bound \subseteq Conns /\ Mapped \subseteq Conns /\ Polled \subseteq Loops
  BY DEF ToEstablish, ToRemove, ToDestroy, Waiting, Bound, Quoted, Mapped, Polled

LEMMA ReferredAreConns == Types => Referred \subseteq Conns
  BY WaitingAreConns DEF Referred, Types, ConnTypes

LEMMA NoChannelIsNone ==
  /\ \A c \in Conns : NoChannel # c
  /\ NoChannel # Acceptor
  BY ChannelsAssumption, BoundsAssumption DEF Conns, Acceptor

\* A functor that waits refers to its connection.
LEMMA WaitingAreBound ==
  ASSUME Types
  PROVE  ToEstablish \cup ToRemove \cup ToDestroy \subseteq Bound
<1>1. \A s, n, f, c : Left(s, n, f, c) => Has(s, f, c)
  BY DEF Left, Has
<1>2. \A c \in Conns : loop[c] \in Loops /\ AtBase[c] \in Loops
  BY BaseLoop DEF Types, MapTypes, AtBase
<1> QED
  BY <1>1, <1>2, HasHolds DEF ToEstablish, ToRemove, ToDestroy, Waiting, Bound, Quoted

\* Alive() says of a connection that something refers to it.
LEMMA AliveIsReferred ==
  ASSUME Numbered, NEW c \in Conns
  PROVE  Alive(c) <=> c \in Referred
<1>1. (\E n \in Conns : connections_[n] = c) <=> c \in Mapped
  BY NoChannelIsNone DEF Numbered, Mapped
<1>2. (\E l \in Loops : Holds(pending[l], c) \/ Holds(running[l], c)) <=> c \in Bound
  BY DEF Bound, Quoted
<1> QED
  BY <1>1, <1>2 DEF Alive, Referred

LEMMA KeptIsReferred ==
  ASSUME Types, Kept, NEW c \in Conns,
         (index[c] # "kNew" /\ c \notin late) \/ c \in ToEstablish,
         loop[c] \in Polled
  PROVE  c \in Referred
  BY WaitingAreBound DEF Kept, Referred

-----------------------------------------------------------------------------
(* Most actions leave the connections alone, but for what stops with a     *)
(* loop: its poller goes, and with its queue the functors in it.           *)

LEMMA QuietConns ==
  ASSUME Types, Types', ConnInv,
         ToEstablish' \subseteq ToEstablish, ToRemove' \subseteq ToRemove,
         \A c \in Conns : loop[c] \in Polled' =>
           /\ c \in ToRemove => c \in ToRemove'
           /\ c \in ToDestroy => c \in ToDestroy',
         \A c \in ToEstablish : c \in ToEstablish' \cup dropped',
         \A c \in ToDestroy : c \in ToDestroy' \cup dropped',
         dropped \subseteq dropped', Bound' \subseteq Bound, held' \in {held, NoChannel},
         UNCHANGED <<connections_, made, name, loop, fd, connVars>>,
         loops <= loops', \A c \in Conns : index'[c] = index[c],
         Polled' \subseteq Polled,
         \A c \in dropped' \ dropped : c \in Made /\ loop[c] \notin Polled',
         \A l \in Polled', f \in Fds : channels_'[l][f] = channels_[l][f],
         \A l \in Loops \ Polled', f \in Fds : channels_'[l][f] = NoChannel,
         mainAt' = "user" => mainAt = "user",
         Activated'
  PROVE  ConnInv' /\ LifeStep
<1>0. UNCHANGED <<state, told, ends, sending, late>>
  BY DEF connVars, sendVars
<1>1. Mapped' = Mapped /\ Made' = Made /\ Referred' \subseteq Referred
  <2>1. Mapped' = Mapped /\ Made' = Made
    BY DEF Mapped, Made
  <2> QED
    BY <1>0, <2>1, NoChannelIsNone DEF Referred
<1>2. Numbered'
  <2>1. \A c \in Made : loop[c] <= loops'
    <3>1. \A c \in Made : c \in Conns
      BY BoundsAssumption DEF Types, MapTypes, Made, Conns
    <3>2. loops \in Int /\ loops' \in Int /\ \A c \in Made : loop[c] \in Int
      BY <3>1, BoundsAssumption DEF Types, PoolTypes, MapTypes, Loops
    <3> QED
      BY <3>2 DEF ConnInv, Numbered
  <2> QED
    BY <1>0, <1>1, <2>1 DEF ConnInv, Numbered
<1>3. OwnSockets'
  BY <1>1 DEF ConnInv, OwnSockets
<1>4. Tables'
  <2> SUFFICES ASSUME NEW l \in Loops, NEW f \in Fds
               PROVE  /\ channels_'[l][f] # Acceptor
                      /\ \A c \in Conns : channels_'[l][f] = c =>
                           Registered(c, l)' /\ fd[c] = f
                      /\ \A c \in Referred' :
                           Registered(c, l)' /\ fd[c] = f => channels_'[l][f] = c
    BY DEF Tables
  <2>0. \A c \in Conns : Registered(c, l)' <=> Registered(c, l) /\ l \in Polled'
    BY DEF Registered
  <2>1. CASE l \in Polled'
    BY <1>1, <2>0, <2>1, ReferredAreConns DEF ConnInv, Tables
  <2>2. CASE l \notin Polled'
    BY <2>2, NoChannelIsNone DEF Registered
  <2> QED
    BY <2>1, <2>2
<1>5. Stages'
  BY <1>0, <1>1 DEF ConnInv, Stages
<1>6. Kept'
  BY <1>0, <1>1 DEF ConnInv, Kept
<1>7. Heard'
  BY <1>0, <1>1 DEF ConnInv, Heard
<1>8. HeardWhileServing'
  BY <1>0, <1>1 DEF ConnInv, HeardWhileServing
<1> QED
  BY <1>0, <1>1, <1>2, <1>3, <1>4, <1>5, <1>6, <1>7, <1>8 DEF ConnInv, LifeStep

\* The same when no loop stops.
LEMMA StillConns ==
  ASSUME Types, Types', ConnInv, SameFunctors,
         Bound' \subseteq Bound, held' \in {held, NoChannel}, dropped' = dropped,
         UNCHANGED <<connections_, made, name, loop, fd, connVars>>,
         loops <= loops', \A c \in Conns : index'[c] = index[c],
         Polled' = Polled,
         \A l \in Loops, f \in Fds : channels_'[l][f] = channels_[l][f],
         mainAt' = "user" => mainAt = "user",
         Activated'
  PROVE  ConnInv' /\ LifeStep
<1>1. \A l \in Loops \ Polled, f \in Fds : channels_[l][f] = NoChannel
  BY DEF ConnInv, Tables, Registered, Types, PollerTypes, Channels
<1> QED
  BY <1>1, QuietConns, WaitingAreConns DEF SameFunctors

LEMMA PolledStays ==
  ASSUME mainAt' = "ended" <=> mainAt = "ended",
         \A l \in Loops \ {0} : loopAt'[l] = "stopped" <=> loopAt[l] = "stopped"
  PROVE  Polled' = Polled
  BY DEF Polled, HasPoller

LEMMA ActivatedStays ==
  ASSUME Activated, UNCHANGED <<active, loop>>,
         \A c \in Conns : index'[c] = index[c],
         \A l \in Loops : loopAt[l] = "events" => loopAt'[l] = "events"
  PROVE  Activated'
  BY DEF Activated

\* An event that is no connection's has been handled.
LEMMA HandledActive ==
  ASSUME LoopTypes, Activated, NEW l \in Loops, NEW ch, NEW queue, Handled(l, ch, queue),
         loop' = loop, \A c \in Conns : index'[c] = index[c] \/ index'[c] # "kNew"
  PROVE  /\ Activated'
         /\ \A k \in Loops : loopAt'[k] = "stopped" <=> loopAt[k] = "stopped"
<1>1. /\ active' = [active EXCEPT ![l] = @ \ {ch}] /\ loopAt[l] = "events"
      /\ \/ active[l] = {ch} /\ loopAt' = [loopAt EXCEPT ![l] = "functors"]
         \/ active[l] # {ch} /\ loopAt' = loopAt
  BY DEF Handled
<1>2. /\ active'[l] = active[l] \ {ch}
      /\ \A k \in Loops \ {l} : active'[k] = active[k] /\ loopAt'[k] = loopAt[k]
      /\ \/ active[l] = {ch} /\ loopAt'[l] = "functors"
         \/ active[l] # {ch} /\ loopAt'[l] = "events"
  BY <1>1 DEF LoopTypes
<1>3. \A k \in Loops : active'[k] \subseteq active[k]
  BY <1>2
<1>4. \A k \in Loops : active'[k] # {} => loopAt'[k] = "events"
  BY <1>2 DEF Activated
<1>5. \A k \in Loops : \A c \in Conns :
        c \in active'[k] => loop'[c] = k /\ index'[c] # "kNew"
  BY <1>3 DEF Activated
<1>6. \A k \in Loops : loopAt'[k] = "stopped" <=> loopAt[k] = "stopped"
  BY <1>1, <1>2
<1> QED
  BY <1>4, <1>5, <1>6 DEF Activated

\* Acceptor::listen() and ~Acceptor() leave the channels of connections alone.
LEMMA ListenLeaves ==
  ASSUME PollerTypes,
         \/ listen
         \/ removeChannel(0, Acceptor, ListenFd)
         \/ UNCHANGED pollerVars
  PROVE  /\ \A c \in Conns : index'[c] = index[c]
         /\ \A l \in Loops, f \in Fds : channels_'[l][f] = channels_[l][f]
<1>1. \A f \in Fds : f # ListenFd
  BY FdsAssumption
<1>2. \A c \in Conns : c # Acceptor /\ c \in Channels
  BY BaseLoop DEF Channels
<1>3. CASE listen
  BY <1>1, <1>2, <1>3, BaseLoop DEF listen, updateChannel, PollerTypes
<1>4. CASE removeChannel(0, Acceptor, ListenFd)
  BY <1>1, <1>2, <1>4, BaseLoop DEF removeChannel, PollerTypes
<1>5. CASE UNCHANGED pollerVars
  BY <1>5 DEF pollerVars
<1> QED
  BY <1>3, <1>4, <1>5

LEMMA NextTypes == Types /\ Starting /\ [Next]_vars => Types'
  BY NextPollerTypes, NextPoolTypes, NextMapTypes, NextConnTypes, NextLoopTypes,
     NextMainTypes
  DEF Types

LEMMA LoopsAreNumbers ==
  ASSUME PoolTypes
  PROVE  loops \in Nat /\ numThreads \in Nat
  BY BoundsAssumption DEF PoolTypes, Loops

\* An action that touches neither a queue nor a channel.
Elsewhere ==
  /\ UNCHANGED <<pending, running, taken, active, index, channels_, dropped, held>>
  /\ UNCHANGED <<connections_, made, name, loop, fd, connVars>>
  /\ loops <= loops'
  /\ mainAt' = "user" => mainAt = "user"
  /\ mainAt' = "ended" <=> mainAt = "ended"
  /\ \A k \in Loops :
       loopAt'[k] = loopAt[k] \/ (loopAt[k] = "none" /\ loopAt'[k] = "idle")

LEMMA LeftAlone ==
  ASSUME Types, Types', Functors, ConnInv, Elsewhere
  PROVE  Functors' /\ ConnInv' /\ LifeStep
<1>0. /\ UNCHANGED <<pending, running, taken, active, index, channels_, dropped, held>>
      /\ UNCHANGED <<connections_, made, name, loop, fd, connVars>>
      /\ loops <= loops'
      /\ mainAt' = "user" => mainAt = "user"
      /\ mainAt' = "ended" <=> mainAt = "ended"
      /\ \A k \in Loops :
           loopAt'[k] = loopAt[k] \/ (loopAt[k] = "none" /\ loopAt'[k] = "idle")
  BY DEF Elsewhere
<1>1. SameFunctors /\ Bound' = Bound
  BY <1>0, QueuesStay
<1>2. Functors'
  BY <1>0, FunctorsStay, BaseLoop
<1>3. Activated'
  BY <1>0, ActivatedStays DEF ConnInv
<1>4. Polled' = Polled
  BY <1>0, PolledStays
<1> QED
  BY <1>0, <1>1, <1>2, <1>3, <1>4, StillConns

\* An event that comes to nothing: no connection can be had, or the channel has
\* been freed.
LEMMA NothingHandled ==
  ASSUME Types, Types', Functors, ConnInv, NEW l \in Loops, NEW ch,
         Handled(l, ch, pending),
         UNCHANGED <<index, channels_, dropped, held, connections_, made, name, loop, fd>>,
         UNCHANGED <<connVars, loops, mainAt>>
  PROVE  Functors' /\ ConnInv' /\ LifeStep
<1>1. SameFunctors /\ Bound' = Bound /\ Functors'
  BY HandledQueues
<1>2. /\ Activated'
      /\ \A k \in Loops : loopAt'[k] = "stopped" <=> loopAt[k] = "stopped"
  BY HandledActive DEF Types, ConnInv
<1>3. Polled' = Polled
  BY <1>2, PolledStays
<1> QED
  BY <1>1, <1>2, <1>3, LoopsAreNumbers, StillConns DEF Types

-----------------------------------------------------------------------------
(* The actions that move a connection on, each with every part of the      *)
(* invariant that it can disturb.                                          *)

LEMMA MadeAreConns == Types => Made \subseteq Conns
  BY BoundsAssumption DEF Types, MapTypes, Made, Conns

\* newConnection(): the descriptor is nobody else's, so its place in the table is
\* empty.
LEMMA AcceptKeeps ==
  ASSUME Types, Types', Functors, ConnInv, Destructor, NEW sock \in Fds, accept4(sock),
         newConnection(sock), UNCHANGED <<loops, mainVars>>
  PROVE  Functors' /\ ConnInv' /\ LifeStep
<1> DEFINE c == made + 1
           l == getNextLoop
<1>1. /\ c \in Conns /\ c \notin Made /\ c = nextConnId /\ made' = c /\ Made' = Made \cup {c}
      /\ Made \subseteq Conns
  BY MadeAreConns, BoundsAssumption DEF accept4, Types, MapTypes, Conns, Made, newConnection
<1>2. l \in Loops /\ l <= loops
  BY BoundsAssumption DEF Types, PoolTypes, getNextLoop, Loops
<1>3. /\ name' = [name EXCEPT ![c] = c] /\ loop' = [loop EXCEPT ![c] = l]
      /\ fd' = [fd EXCEPT ![c] = sock] /\ connections_' = [connections_ EXCEPT ![c] = c]
  BY <1>1 DEF newConnection
<1>4. Handled(0, Acceptor, [pending EXCEPT ![l] = Append(@, Functor("establish", c))])
        \/ Handled(0, Acceptor, pending)
  BY DEF newConnection
<1>5. /\ l = 0 => /\ updateChannel(loop'[c], c, fd'[c], FALSE)
                  /\ state' = [state EXCEPT ![c] = "kConnected"]
                  /\ told' = [told EXCEPT ![c] = "up"]
      /\ l # 0 => UNCHANGED <<index, channels_, state, told>>
      /\ UNCHANGED <<ends, sending, late>>
  BY DEF newConnection, connectEstablished, pollerVars, connVars, sendVars
<1>6. Bound \subseteq Made
  BY DEF ConnInv, Numbered
<1>7. /\ ToEstablish' = IF l = 0 THEN ToEstablish ELSE ToEstablish \cup {c}
      /\ ToRemove' = ToRemove /\ ToDestroy' = ToDestroy
      /\ Bound' = IF l = 0 THEN Bound ELSE Bound \cup {c}
      /\ Functors'
  BY <1>6, AcceptQueues DEF accept4
<1>8. /\ loopAt[0] = "events" /\ mainAt = "user" /\ UNCHANGED <<mainAt, held, dropped, loops>>
      /\ active' = [active EXCEPT ![0] = @ \ {Acceptor}]
      /\ loopAt'[0] \in {"events", "functors"}
      /\ active[0] # {Acceptor} => loopAt'[0] = "events"
      /\ \A k \in Loops \ {0} : loopAt'[k] = loopAt[k]
  BY <1>4, BaseLoop DEF Handled, Destructor, mainVars, Types, LoopTypes
<1> HIDE DEF c, l
<1>9. /\ name'[c] = c /\ loop'[c] = l /\ fd'[c] = sock /\ connections_'[c] = c
      /\ \A d \in Conns \ {c} : /\ name'[d] = name[d] /\ loop'[d] = loop[d]
                                /\ fd'[d] = fd[d] /\ connections_'[d] = connections_[d]
  BY <1>1, <1>3 DEF Types, MapTypes
<1>10. /\ l = 0 => state'[c] = "kConnected" /\ told'[c] = "up" /\ index'[c] # "kNew"
       /\ l # 0 => state'[c] = "kConnecting" /\ told'[c] = "nothing" /\ index'[c] = "kNew"
       /\ \A d \in Conns \ {c} :
            state'[d] = state[d] /\ told'[d] = told[d] /\ index'[d] = index[d]
       /\ index[c] = "kNew"
  <2>1. index[c] = "kNew" /\ state[c] = "kConnecting" /\ told[c] = "nothing"
    BY <1>1 DEF ConnInv, Numbered
  <2>2. c \in Channels /\ \A d \in Conns : d \in Channels
    BY <1>1 DEF Channels
  <2> QED
    BY <1>1, <1>5, <2>1, <2>2 DEF updateChannel, Types, PollerTypes, ConnTypes
<1>11. /\ l = 0 => channels_' = [channels_ EXCEPT ![0][sock] = c]
       /\ l # 0 => channels_' = channels_
  BY <1>5, <1>9, <1>10 DEF updateChannel
<1>12. Polled' = Polled
  BY <1>8, PolledStays
<1>13. Mapped' = Mapped \cup {c}
  BY <1>1, <1>9 DEF Mapped
<1>14. Numbered'
  <2>1. \A n \in Conns : connections_'[n] \in {n, NoChannel}
    BY <1>9 DEF ConnInv, Numbered
  <2>2. /\ Mapped' \subseteq Made' /\ Bound' \subseteq Made' /\ held' \in Made' \cup {NoChannel}
        /\ sending' \subseteq Made' /\ late' \subseteq Made' /\ dropped' \subseteq Made'
    BY <1>1, <1>5, <1>7, <1>8, <1>13 DEF ConnInv, Numbered
  <2>3. \A d \in Conns : d \notin Made' =>
          index'[d] = "kNew" /\ state'[d] = "kConnecting" /\ told'[d] = "nothing"
    BY <1>1, <1>10 DEF ConnInv, Numbered
  <2>4. \A d \in Made' : name'[d] = d /\ fd'[d] \in Fds /\ loop'[d] <= loops'
    BY <1>1, <1>2, <1>8, <1>9 DEF ConnInv, Numbered
  <2> QED
    BY <2>1, <2>2, <2>3, <2>4 DEF Numbered
<1>15. \A d \in Referred : d \in Made /\ d # c /\ fd[d] # sock
  <2>1. ASSUME NEW d \in Referred
        PROVE  d \in Conns /\ d \in Made
    <3>1. d \in Conns
      BY ReferredAreConns
    <3>2. d \in Made
      BY <3>1, NoChannelIsNone DEF Referred, ConnInv, Numbered
    <3> QED
      BY <3>1, <3>2
  <2>2. ASSUME NEW d \in Referred
        PROVE  fd[d] # sock
    BY <2>1, AliveIsReferred DEF accept4, FreeFds, Live, ConnInv
  <2> QED
    BY <1>1, <2>1, <2>2
<1>16. Referred' = Referred \cup {c}
  BY <1>1, <1>5, <1>7, <1>8, <1>13 DEF Referred
<1>17. OwnSockets'
  <2>2. \A d \in Referred : d \in Conns
    BY ReferredAreConns
  <2> QED
    BY <1>9, <1>15, <1>16, <2>2 DEF ConnInv, OwnSockets
<1>18. Tables'
  <2> SUFFICES ASSUME NEW k \in Loops, NEW f \in Fds
               PROVE  /\ channels_'[k][f] # Acceptor
                      /\ \A d \in Conns : channels_'[k][f] = d =>
                           Registered(d, k)' /\ fd'[d] = f
                      /\ \A d \in Referred' :
                           Registered(d, k)' /\ fd'[d] = f => channels_'[k][f] = d
    BY DEF Tables
  <2>1. channels_'[k][f] = IF l = 0 /\ k = 0 /\ f = sock THEN c ELSE channels_[k][f]
    BY <1>11, BaseLoop DEF Types, PollerTypes
  <2>2. \A d \in Referred : d \in Conns /\ d # c
    BY <1>15, ReferredAreConns
  <2>3. \A d \in Conns \ {c} : Registered(d, k)' <=> Registered(d, k)
    BY <1>9, <1>10, <1>12 DEF Registered
  <2>4. loop'[c] = k /\ index'[c] # "kNew" /\ k \in Polled' <=> l = 0 /\ k = 0
    <3>1. 0 \in Polled
      BY <1>8, BaseLoop DEF Polled, HasPoller
    <3> QED
      BY <1>2, <1>9, <1>10, <1>12, <3>1
  <2>5. CASE l = 0 /\ k = 0 /\ f = sock
    <3>1. c # Acceptor
      BY <1>1, BaseLoop
    <3>2. \A d \in Referred : fd'[d] # sock
      BY <1>9, <1>15, <2>2
    <3> QED
      BY <1>1, <1>9, <1>16, <2>1, <2>4, <2>5, <3>1, <3>2 DEF Registered
  <2>6. CASE ~(l = 0 /\ k = 0 /\ f = sock)
    <3>1. channels_'[k][f] = channels_[k][f] /\ channels_[k][f] # c
      BY <1>1, <1>10, <2>1, <2>6 DEF ConnInv, Tables, Registered
    <3>2. \A d \in Conns : channels_[k][f] = d => Registered(d, k)' /\ fd'[d] = f
      BY <1>9, <2>3, <3>1 DEF ConnInv, Tables
    <3>3. \A d \in Referred : Registered(d, k)' /\ fd'[d] = f => channels_[k][f] = d
      BY <1>9, <2>2, <2>3 DEF ConnInv, Tables
    <3>4. ~(loop'[c] = k /\ index'[c] # "kNew" /\ k \in Polled' /\ fd'[c] = f)
      BY <1>9, <2>4, <2>6
    <3>5. \A d \in Referred' : Registered(d, k)' /\ fd'[d] = f => d \in Referred
      BY <1>16, <3>4 DEF Registered
    <3> QED
      BY <3>1, <3>2, <3>3, <3>5 DEF ConnInv, Tables
  <2> QED
    BY <2>5, <2>6
<1>19. Activated'
  <2>1. \A k \in Loops : c \notin active[k]
    BY <1>1, <1>10 DEF ConnInv, Activated
  <2>2. \A k \in Loops : active'[k] \subseteq active[k]
    BY <1>8, BaseLoop DEF Types, LoopTypes
  <2>3. \A k \in Loops : active'[k] # {} => loopAt'[k] = "events"
    BY <1>8, <2>2, BaseLoop DEF ConnInv, Activated, Types, LoopTypes
  <2> QED
    BY <1>9, <1>10, <2>1, <2>2, <2>3 DEF ConnInv, Activated
<1>20. Stages'
  <2>1. c \notin ToEstablish /\ c \notin ToRemove
    BY <1>1, <1>6, WaitingAreBound
  <2>2. c \notin sending \cup late /\ c \notin dropped
    BY <1>1 DEF ConnInv, Numbered
  <2> QED
    BY <1>1, <1>5, <1>7, <1>8, <1>9, <1>10, <1>12, <2>1, <2>2 DEF ConnInv, Stages
<1>21. Kept'
  BY <1>1, <1>5, <1>7, <1>9, <1>10, <1>12, <1>13 DEF ConnInv, Kept
<1>22. Heard'
  BY <1>1, <1>7, <1>8, <1>10, <1>13 DEF ConnInv, Heard
<1>23. HeardWhileServing'
  BY <1>1, <1>8, <1>10, <1>13 DEF ConnInv, HeardWhileServing
<1>24. LifeStep
  BY <1>1, <1>5, <1>16 DEF LifeStep
<1> QED
  BY <1>7, <1>14, <1>17, <1>18, <1>19, <1>20, <1>21, <1>22, <1>23, <1>24 DEF ConnInv

\* A channel is registered: its place in the table is nobody's who is referred to,
\* for the connection holds its descriptor already.
LEMMA OwnTables ==
  ASSUME Types, ConnInv, NEW c \in Conns, c \in Referred, loop[c] \in Polled,
         index[c] = "kNew", fd[c] \in Fds,
         channels_' = [channels_ EXCEPT ![loop[c]][fd[c]] = c],
         index'[c] # "kNew", \A d \in Conns \ {c} : index'[d] = index[d],
         UNCHANGED <<loop, fd>>, Polled' = Polled, Referred' = Referred
  PROVE  Tables'
<1> SUFFICES ASSUME NEW k \in Loops, NEW f \in Fds
             PROVE  /\ channels_'[k][f] # Acceptor
                    /\ \A d \in Conns : channels_'[k][f] = d =>
                         Registered(d, k)' /\ fd[d] = f
                    /\ \A d \in Referred :
                         Registered(d, k)' /\ fd[d] = f => channels_'[k][f] = d
  BY DEF Tables
<1>1. loop[c] \in Loops /\ \A d \in Referred : d \in Conns
  BY ReferredAreConns DEF Types, MapTypes
<1>2. channels_'[k][f] = IF k = loop[c] /\ f = fd[c] THEN c ELSE channels_[k][f]
  BY <1>1 DEF Types, PollerTypes
<1>3. /\ \A d \in Conns \ {c} : Registered(d, k)' <=> Registered(d, k)
      /\ Registered(c, k)' <=> k = loop[c]
  BY DEF Registered
<1>4. CASE k = loop[c] /\ f = fd[c]
  <2>1. c # Acceptor
    BY BaseLoop
  <2> QED
    BY <1>2, <1>3, <1>4, <2>1 DEF ConnInv, OwnSockets
<1>5. CASE ~(k = loop[c] /\ f = fd[c])
  <2>1. channels_'[k][f] = channels_[k][f] /\ channels_[k][f] # c
    BY <1>2, <1>5 DEF ConnInv, Tables, Registered
  <2> QED
    BY <1>1, <1>3, <1>5, <2>1 DEF ConnInv, Tables
<1> QED
  BY <1>4, <1>5

\* connectEstablished() in the connection's loop: the place in the table is empty,
\* for the connection holds its descriptor already.
LEMMA EstablishKeeps ==
  ASSUME Types, Types', Functors, ConnInv, NEW l \in Loops, runEstablished(l)
  PROVE  Functors' /\ ConnInv' /\ LifeStep
<1> DEFINE c == conn(l)
<1>1. /\ c \in Conns /\ c \in Bound
      /\ loop[c] = l /\ l # 0 /\ c \in ToEstablish
      /\ ToEstablish' = ToEstablish \ {c}
      /\ ToRemove' = ToRemove /\ ToDestroy' = ToDestroy /\ Bound' = Bound
      /\ Functors'
  BY RunEstablishedQueues
<1>2. /\ UNCHANGED <<connections_, made, name, loop, fd, mainAt, held, dropped, loops>>
      /\ UNCHANGED <<loopAt, active>> /\ loopAt[l] = "functors"
      /\ state' = [state EXCEPT ![c] = "kConnected"]
      /\ told' = [told EXCEPT ![c] = "up"] /\ UNCHANGED <<ends, sending, late>>
      /\ updateChannel(l, c, fd[c], FALSE)
  BY <1>1
  DEF runEstablished, StartFunctor, connectEstablished, mapVars, mainVars, serverVars,
      sendVars
<1> HIDE DEF c
<1>3. /\ c \in Made /\ c \in Referred /\ fd[c] \in Fds /\ Made \subseteq Conns
      /\ state[c] = "kConnecting" /\ told[c] = "nothing" /\ index[c] = "kNew"
  BY <1>1, MadeAreConns DEF ConnInv, Numbered, Stages, Referred
<1>4. /\ state'[c] = "kConnected" /\ told'[c] = "up" /\ index'[c] = "kAdded"
      /\ \A d \in Conns \ {c} :
           state'[d] = state[d] /\ told'[d] = told[d] /\ index'[d] = index[d]
      /\ channels_' = [channels_ EXCEPT ![l][fd[c]] = c]
  <2>1. \A d \in Conns : d \in Channels
    BY DEF Channels
  <2> QED
    BY <1>1, <1>2, <1>3, <2>1 DEF updateChannel, Types, PollerTypes, ConnTypes
<1>5. Polled' = Polled /\ Mapped' = Mapped /\ Made' = Made /\ Referred' = Referred
      /\ l \in Polled
  <2>1. Polled' = Polled
    BY <1>2, PolledStays
  <2>2. Mapped' = Mapped /\ Made' = Made
    BY <1>2 DEF Mapped, Made
  <2>3. l \in Polled
    BY <1>1, <1>2 DEF Polled, HasPoller
  <2> QED
    BY <1>1, <1>2, <2>1, <2>2, <2>3 DEF Referred
<1>6. Numbered'
  BY <1>1, <1>2, <1>3, <1>4, <1>5 DEF ConnInv, Numbered
<1>7. OwnSockets'
  BY <1>2, <1>5 DEF ConnInv, OwnSockets
<1>8. Tables'
  BY <1>1, <1>2, <1>3, <1>4, <1>5, OwnTables
<1>9. Activated'
  BY <1>2, <1>4 DEF ConnInv, Activated
<1>10. Stages'
  <2>1. c \notin ToRemove
    BY <1>1, <1>3 DEF ConnInv, Stages
  <2> QED
    BY <1>1, <1>2, <1>4, <1>5, <2>1 DEF ConnInv, Stages
<1>11. Kept'
  BY <1>1, <1>2, <1>4, <1>5 DEF ConnInv, Kept
<1>12. Heard'
  BY <1>1, <1>2, <1>3, <1>4, <1>5 DEF ConnInv, Heard
<1>13. HeardWhileServing'
  BY <1>1, <1>2, <1>3, <1>4, <1>5 DEF ConnInv, HeardWhileServing
<1>14. LifeStep
  BY <1>1, <1>2, <1>3, <1>5 DEF LifeStep, Tells
<1> QED
  BY <1>1, <1>6, <1>7, <1>8, <1>9, <1>10, <1>11, <1>12, <1>13, <1>14 DEF ConnInv

\* handleClose() tells the user of the end, and queues what removes the channel.
LEMMA CloseKeeps ==
  ASSUME Types, Types', Functors, ConnInv, Destructor, NEW l \in Loops, NEW c \in Conns,
         c \in closed, handleClose(l, c)
  PROVE  Functors' /\ ConnInv' /\ LifeStep
<1>1. /\ loopAt[l] = "events" /\ c \in active[l] /\ loop[c] = l /\ index[c] # "kNew"
      /\ c \in Made /\ name[c] = c /\ c \notin ToEstablish /\ c \in Referred
  <2>1. loopAt[l] = "events" /\ c \in active[l] /\ c \in Referred
    BY AliveIsReferred DEF handleClose, ConnInv
  <2>2. loop[c] = l /\ index[c] # "kNew"
    BY <2>1 DEF ConnInv, Activated
  <2> QED
    BY <2>1, <2>2 DEF ConnInv, Numbered, Stages
<1>2. /\ ToEstablish' = ToEstablish
      /\ ToRemove' = IF l = 0 THEN ToRemove ELSE ToRemove \cup {c}
      /\ ToDestroy' = IF l = 0 THEN ToDestroy \cup {c} ELSE ToDestroy
      /\ Bound' = Bound \cup {c}
      /\ Functors'
  BY <1>1, CloseQueues
<1>3. /\ UNCHANGED <<index, channels_, made, name, loop, fd, mainAt, held, dropped, loops>>
      /\ state' = [state EXCEPT ![c] = "kDisconnecting"]
      /\ told' = [told EXCEPT ![c] = "down"] /\ ends' = [ends EXCEPT ![c] = @ + 1]
      /\ UNCHANGED <<sending, late>>
      /\ connections_' = IF l = 0 THEN [connections_ EXCEPT ![c] = NoChannel]
                                  ELSE connections_
      /\ \E queue : Handled(l, c, queue)
  BY <1>1
  DEF handleClose, reportDown, removeConnectionInLoop, pollerVars, mapVars, serverVars,
      mainVars, sendVars
<1>4. /\ state'[c] = "kDisconnecting" /\ told'[c] = "down"
      /\ \A d \in Conns \ {c} : state'[d] = state[d] /\ told'[d] = told[d]
  BY <1>3 DEF Types, ConnTypes
<1>5. Mapped' = IF l = 0 THEN Mapped \ {c} ELSE Mapped
  BY <1>3, NoChannelIsNone DEF Mapped, Types, MapTypes
<1>6. Activated' /\ \A k \in Loops : loopAt'[k] = "stopped" <=> loopAt[k] = "stopped"
  BY <1>3, HandledActive DEF ConnInv, Types
<1>7. Polled' = Polled /\ Made' = Made /\ l \in Polled
  <2>1. Polled' = Polled
    BY <1>3, <1>6, PolledStays
  <2> QED
    BY <1>1, <1>3, <2>1 DEF Made, Polled, HasPoller, Destructor
<1>8. Referred' = Referred
  BY <1>1, <1>2, <1>3, <1>5 DEF Referred
<1>9. Numbered'
  BY <1>1, <1>2, <1>3, <1>4, <1>5, <1>7 DEF ConnInv, Numbered, Types, MapTypes
<1>10. OwnSockets'
  BY <1>3, <1>8 DEF ConnInv, OwnSockets
<1>11. Tables'
  BY <1>3, <1>7, <1>8 DEF ConnInv, Tables, Registered
<1>12. Stages'
  BY <1>1, <1>2, <1>3, <1>4, <1>7 DEF ConnInv, Stages
<1>13. Kept'
  BY <1>1, <1>2, <1>3, <1>5, <1>7 DEF ConnInv, Kept
<1>14. Heard'
  BY <1>2, <1>3, <1>4, <1>5, <1>7 DEF ConnInv, Heard, Types
<1>15. HeardWhileServing'
  BY <1>1, <1>3, <1>4, <1>5, <1>7, MadeAreConns DEF ConnInv, HeardWhileServing
<1>16. LifeStep
  <2>1. told[c] \in {"up", "down"}
    BY <1>1 DEF ConnInv, Stages, Types, ConnTypes
  <2> QED
    BY <1>1, <1>3, <1>7, <1>8, <2>1 DEF LifeStep, Tells
<1> QED
  BY <1>2, <1>6, <1>9, <1>10, <1>11, <1>12, <1>13, <1>14, <1>15, <1>16 DEF ConnInv

\* removeConnectionInLoop() in the base loop: of the connection's end the user has
\* been told, and connectionDestroyed() keeps it.
LEMMA RemovalKeeps ==
  ASSUME Types, Types', Functors, ConnInv, runRemoval
  PROVE  Functors' /\ ConnInv' /\ LifeStep
<1> DEFINE c == conn(0)
<1>1. /\ c \in Conns /\ c \in Bound /\ c \in ToRemove
      /\ ToEstablish' = ToEstablish
      /\ ToRemove \ {c} \subseteq ToRemove' /\ ToRemove' \subseteq ToRemove
      /\ ToDestroy' = ToDestroy \cup {c}
      /\ Bound' = Bound
      /\ Functors'
  BY RunRemovalQueues
<1>2. /\ c \in Made /\ name[c] = c /\ told[c] = "down"
  BY <1>1 DEF ConnInv, Numbered, Stages
<1>3. /\ UNCHANGED <<index, channels_, made, name, loop, fd, mainAt, held, dropped, loops>>
      /\ UNCHANGED <<state, told, ends, sending, late, loopAt, active>>
      /\ connections_' = [connections_ EXCEPT ![c] = NoChannel]
  BY <1>2 DEF runRemoval, StartFunctor, removeConnectionInLoop, pollerVars, connVars,
              sendVars, serverVars, mainVars
<1> HIDE DEF c
<1>4. Mapped' = Mapped \ {c} /\ Made' = Made
  BY <1>3, NoChannelIsNone DEF Mapped, Made, Types, MapTypes
<1>5. Activated' /\ Polled' = Polled
  BY <1>3, ActivatedStays, PolledStays DEF ConnInv
<1>6. Numbered'
  BY <1>1, <1>3, <1>4 DEF ConnInv, Numbered, Types, MapTypes
<1>7. OwnSockets' /\ Tables' /\ LifeStep
  <2>1. Referred' \subseteq Referred
    BY <1>1, <1>3, <1>4 DEF Referred
  <2> QED
    BY <1>3, <1>4, <1>5, <2>1 DEF ConnInv, OwnSockets, Tables, Registered, LifeStep
<1>8. Stages'
  BY <1>1, <1>3, <1>4, <1>5 DEF ConnInv, Stages
<1>9. Kept'
  BY <1>1, <1>3, <1>4, <1>5 DEF ConnInv, Kept
<1>10. Heard'
  BY <1>1, <1>2, <1>3, <1>4 DEF ConnInv, Heard
<1>11. HeardWhileServing'
  BY <1>2, <1>3, <1>4 DEF ConnInv, HeardWhileServing
<1> QED
  BY <1>1, <1>5, <1>6, <1>7, <1>8, <1>9, <1>10, <1>11 DEF ConnInv

\* The base loop's own connections are established when they are accepted.
LEMMA EstablishElsewhere ==
  ASSUME Types, Functors, NEW c \in ToEstablish
  PROVE  loop[c] # 0
<1>1. c \in Conns /\ loop[c] \in Loops
  BY WaitingAreConns DEF Types, MapTypes
<1>2. Has(pending[loop[c]], "establish", c) \/ Has(running[loop[c]], "establish", c)
  BY DEF ToEstablish, Waiting, Left, Has
<1> QED
  BY <1>1, <1>2 DEF Functors, Orderly, InPlace

\* connectionDestroyed() erases what the descriptor leads to: that is the
\* connection's own channel, or nothing.
LEMMA DestroyedTables ==
  ASSUME Types, ConnInv, NEW c \in Conns, c \in Referred, c \in Made, loop[c] \in Polled,
         connectionDestroyed(c), UNCHANGED <<loop, fd>>, Polled' = Polled,
         Referred' = Referred
  PROVE  /\ Tables'
         /\ index'[c] = "kNew" /\ \A d \in Conns \ {c} : index'[d] = index[d]
         /\ IF state[c] = "kConnected" THEN state'[c] = "kDisconnected" /\ told'[c] = "down"
                                       ELSE state'[c] = state[c] /\ told'[c] = told[c]
         /\ \A d \in Conns \ {c} : state'[d] = state[d] /\ told'[d] = told[d]
         /\ UNCHANGED sendVars
<1> DEFINE l == loop[c]
<1>1. l \in Loops /\ l \in Polled /\ fd[c] \in Fds
  BY DEF Types, MapTypes, ConnInv, Numbered
<1>2. /\ channels_' = [channels_ EXCEPT ![l][fd[c]] = NoChannel]
      /\ index' = [index EXCEPT ![c] = "kNew"]
  BY DEF connectionDestroyed, removeChannel
<1> HIDE DEF l
<1>3. index'[c] = "kNew" /\ \A d \in Conns \ {c} : index'[d] = index[d]
  <2>1. \A d \in Conns : d \in Channels
    BY DEF Channels
  <2> QED
    BY <1>2, <2>1 DEF Types, PollerTypes
<1>4. /\ IF state[c] = "kConnected" THEN state'[c] = "kDisconnected" /\ told'[c] = "down"
                                    ELSE state'[c] = state[c] /\ told'[c] = told[c]
      /\ \A d \in Conns \ {c} : state'[d] = state[d] /\ told'[d] = told[d]
      /\ UNCHANGED sendVars
  BY DEF connectionDestroyed, reportDown, connVars, Types, ConnTypes
<1>5. Tables'
  <2> SUFFICES ASSUME NEW k \in Loops, NEW f \in Fds
               PROVE  /\ channels_'[k][f] # Acceptor
                      /\ \A d \in Conns : channels_'[k][f] = d =>
                           Registered(d, k)' /\ fd[d] = f
                      /\ \A d \in Referred :
                           Registered(d, k)' /\ fd[d] = f => channels_'[k][f] = d
    BY DEF Tables
  <2>1. channels_'[k][f] = IF k = l /\ f = fd[c] THEN NoChannel ELSE channels_[k][f]
    BY <1>1, <1>2 DEF Types, PollerTypes
  <2>2. \A d \in Referred : d \in Conns
    BY ReferredAreConns
  <2>3. /\ \A d \in Conns \ {c} : Registered(d, k)' <=> Registered(d, k)
        /\ ~Registered(c, k)'
    BY <1>3 DEF Registered
  <2>4. CASE k = l /\ f = fd[c]
    BY <2>1, <2>2, <2>3, <2>4, NoChannelIsNone DEF ConnInv, OwnSockets
  <2>5. CASE ~(k = l /\ f = fd[c])
    <3>1. channels_'[k][f] = channels_[k][f] /\ channels_[k][f] # c
      BY <2>1, <2>5 DEF ConnInv, Tables, Registered, l
    <3> QED
      BY <2>2, <2>3, <2>5, <3>1 DEF ConnInv, Tables
  <2> QED
    BY <2>4, <2>5
<1> QED
  BY <1>3, <1>4, <1>5

\* connectionDestroyed() as a functor.
LEMMA DestroyedKeeps ==
  ASSUME Types, Types', Functors, ConnInv, Destructor, NEW l \in Loops, runDestroyed(l)
  PROVE  Functors' /\ ConnInv' /\ LifeStep
<1> DEFINE c == conn(l)
<1>1. /\ c \in Conns /\ c \in Bound
      /\ loop[c] = l /\ c \in ToDestroy /\ c \notin ToEstablish
      /\ ToEstablish' = ToEstablish /\ ToRemove' = ToRemove
      /\ ToDestroy \ {c} \subseteq ToDestroy' /\ ToDestroy' \subseteq ToDestroy
      /\ Bound' = Bound
      /\ Functors'
  BY RunDestroyedQueues
<1>2. /\ UNCHANGED <<connections_, made, name, loop, fd, mainAt, held, dropped, loops>>
      /\ UNCHANGED <<loopAt, active>> /\ loopAt[l] = "functors"
      /\ connectionDestroyed(c)
  BY DEF runDestroyed, StartFunctor, mapVars, mainVars, serverVars
<1> HIDE DEF c
<1>3. Mapped' = Mapped /\ Made' = Made /\ Polled' = Polled /\ l \in Polled
  <2>1. Polled' = Polled
    BY <1>2, PolledStays
  <2> QED
    BY <1>2, <2>1 DEF Mapped, Made, Polled, HasPoller, Destructor
<1>4. c \in Made /\ c \in Referred /\ Referred' = Referred
  <2>1. UNCHANGED sending
    BY <1>2 DEF connectionDestroyed, reportDown, connVars, sendVars
  <2> QED
    BY <1>1, <1>2, <1>3, <2>1 DEF ConnInv, Numbered, Referred
<1>5. /\ Tables'
      /\ index'[c] = "kNew" /\ \A d \in Conns \ {c} : index'[d] = index[d]
      /\ IF state[c] = "kConnected" THEN state'[c] = "kDisconnected" /\ told'[c] = "down"
                                    ELSE state'[c] = state[c] /\ told'[c] = told[c]
      /\ \A d \in Conns \ {c} : state'[d] = state[d] /\ told'[d] = told[d]
      /\ UNCHANGED <<sending, late>>
  BY <1>1, <1>2, <1>3, <1>4, DestroyedTables DEF sendVars
<1>6. Numbered'
  BY <1>1, <1>2, <1>3, <1>4, <1>5 DEF ConnInv, Numbered
<1>7. OwnSockets'
  BY <1>2, <1>4 DEF ConnInv, OwnSockets
<1>8. Activated'
  BY <1>1, <1>2, <1>5 DEF ConnInv, Activated
<1>9. Stages'
  BY <1>1, <1>2, <1>3, <1>5 DEF ConnInv, Stages
<1>10. Kept'
  BY <1>1, <1>2, <1>3, <1>5 DEF ConnInv, Kept
<1>11. Heard'
  <2> SUFFICES ASSUME NEW d \in Made
               PROVE  \/ told'[d] = "down" \/ state'[d] = "kDisconnecting"
                      \/ d \in dropped \cup Mapped \cup ToDestroy'
    BY <1>2, <1>3 DEF Heard
  <2>1. CASE d = c
    <3>1. state[c] \in {"kConnecting", "kConnected", "kDisconnecting", "kDisconnected"}
      BY <1>1 DEF Types, ConnTypes
    <3> QED
      BY <1>1, <1>4, <1>5, <2>1, <3>1 DEF ConnInv, Stages
  <2>2. CASE d # c
    BY <1>1, <1>5, <2>2, MadeAreConns DEF ConnInv, Heard
  <2> QED
    BY <2>1, <2>2
<1>12. HeardWhileServing'
  BY <1>2, <1>3, <1>5, MadeAreConns DEF ConnInv, HeardWhileServing
<1>13. LifeStep
  <2>1. IF state[c] = "kConnected"
        THEN told' = [told EXCEPT ![c] = "down"] /\ ends' = [ends EXCEPT ![c] = @ + 1]
        ELSE UNCHANGED <<told, ends>>
    BY <1>2 DEF connectionDestroyed, reportDown, connVars
  <2> QED
    BY <1>1, <1>3, <1>4, <2>1 DEF LifeStep, Tells, ConnInv, Stages
<1> QED
  BY <1>1, <1>5, <1>6, <1>7, <1>8, <1>9, <1>10, <1>11, <1>12, <1>13 DEF ConnInv

\* ~TcpServer() takes a connection out of the map and holds it while it destroys
\* it, or has it destroyed.
LEMMA DestructorKeeps ==
  ASSUME Types, Types', Functors, ConnInv, Destructor, NEW c \in Conns, destroyConnection(c)
  PROVE  Functors' /\ ConnInv' /\ LifeStep
<1>1. connections_[c] = c /\ mainAt = "connections" /\ held = NoChannel
  BY DEF destroyConnection, ConnInv, Numbered
<1>2. /\ ToEstablish' = ToEstablish /\ ToRemove' = ToRemove
      /\ ToDestroy' = IF loop[c] = 0 THEN ToDestroy ELSE ToDestroy \cup {c}
      /\ Bound' = IF loop[c] = 0 THEN Bound ELSE Bound \cup {c}
      /\ Functors' /\ loop[c] \in Loops
  BY <1>1, DestructorQueues
<1>3. /\ UNCHANGED <<made, name, loop, fd, mainAt, dropped, loops, loopAt, active>>
      /\ held' = c /\ connections_' = [connections_ EXCEPT ![c] = NoChannel]
      /\ loop[c] = 0 => connectionDestroyed(c)
      /\ loop[c] # 0 => UNCHANGED <<index, channels_, state, told, ends>>
      /\ UNCHANGED <<sending, late>>
  BY <1>1 DEF destroyConnection, connectionDestroyed, reportDown, turnVars, serverVars,
              pollerVars, connVars, sendVars
<1>4. /\ c \in Mapped /\ c \in Referred /\ c \in Made /\ Mapped' = Mapped \ {c} /\ Made' = Made
  <2>1. c \in Mapped
    BY <1>1 DEF Mapped
  <2> QED
    BY <1>3, <2>1, NoChannelIsNone
    DEF Mapped, Made, Referred, ConnInv, Numbered, Types, MapTypes
<1>5. Polled' = Polled /\ (loop[c] = 0 => loop[c] \in Polled)
  <2>1. Polled' = Polled
    BY <1>3, PolledStays
  <2> QED
    BY <1>1, <1>2, <2>1 DEF Polled, HasPoller
<1>6. Referred' = Referred
  BY <1>1, <1>2, <1>3, <1>4, NoChannelIsNone DEF Referred
<1>7. loop[c] = 0 => c \notin ToEstablish
  BY EstablishElsewhere
<1>8. loop[c] = 0 =>
        /\ Tables'
        /\ index'[c] = "kNew" /\ \A d \in Conns \ {c} : index'[d] = index[d]
        /\ IF state[c] = "kConnected" THEN state'[c] = "kDisconnected" /\ told'[c] = "down"
                                      ELSE state'[c] = state[c] /\ told'[c] = told[c]
        /\ \A d \in Conns \ {c} : state'[d] = state[d] /\ told'[d] = told[d]
  BY <1>3, <1>4, <1>5, <1>6, DestroyedTables
<1>9. Numbered'
  <2>1. \A n \in Conns : connections_'[n] \in {n, NoChannel}
    BY <1>3 DEF ConnInv, Numbered, Types, MapTypes
  <2> QED
    BY <1>2, <1>3, <1>4, <1>8, <2>1 DEF ConnInv, Numbered
<1>10. OwnSockets'
  BY <1>3, <1>6 DEF ConnInv, OwnSockets
<1>11. Tables'
  BY <1>3, <1>5, <1>6, <1>8 DEF ConnInv, Tables, Registered
<1>12. Activated'
  <2>1. loopAt[0] = "stopped"
    BY <1>1 DEF Destructor
  <2> QED
    BY <1>3, <1>8, <2>1 DEF ConnInv, Activated
<1>13. Stages'
  BY <1>2, <1>3, <1>4, <1>5, <1>7, <1>8 DEF ConnInv, Stages
<1>14. Kept'
  BY <1>2, <1>3, <1>4, <1>5, <1>7, <1>8 DEF ConnInv, Kept
<1>15. Heard'
  <2> SUFFICES ASSUME NEW d \in Made
               PROVE  \/ told'[d] = "down" \/ state'[d] = "kDisconnecting"
                      \/ d \in dropped \cup Mapped' \cup ToDestroy'
    BY <1>3, <1>4 DEF Heard
  <2>1. CASE d = c
    <3>1. state[c] \in {"kConnecting", "kConnected", "kDisconnecting", "kDisconnected"}
      BY DEF Types, ConnTypes
    <3> QED
      BY <1>2, <1>4, <1>7, <1>8, <2>1, <3>1 DEF ConnInv, Stages
  <2>2. CASE d # c
    BY <1>2, <1>3, <1>4, <1>8, <2>2, MadeAreConns DEF ConnInv, Heard
  <2> QED
    BY <2>1, <2>2
<1>16. HeardWhileServing'
  BY <1>1, <1>3 DEF HeardWhileServing
<1>17. LifeStep
  <2>1. \/ /\ state[c] = "kConnected"
           /\ told' = [told EXCEPT ![c] = "down"] /\ ends' = [ends EXCEPT ![c] = @ + 1]
        \/ UNCHANGED <<told, ends>>
    BY <1>3 DEF connectionDestroyed, reportDown, connVars
  <2> QED
    BY <1>4, <1>6, <2>1 DEF LifeStep, Tells, ConnInv, Stages
<1> QED
  BY <1>2, <1>9, <1>10, <1>11, <1>12, <1>13, <1>14, <1>15, <1>16, <1>17 DEF ConnInv

LEMMA ShutdownKeeps ==
  ASSUME Types, Types', Functors, ConnInv, NEW c \in Conns, shutdown(c)
  PROVE  Functors' /\ ConnInv' /\ LifeStep
<1>1. /\ UNCHANGED <<pending, running, taken, loop, loopAt, active, index, channels_>>
      /\ UNCHANGED <<connections_, made, name, fd, told, ends, sending, late>>
      /\ UNCHANGED <<mainAt, held, dropped, loops>>
      /\ state[c] = "kConnected"
      /\ state' = [state EXCEPT ![c] = "kDisconnecting"]
  BY DEF shutdown, pollerVars, serverVars, mapVars, sendVars, loopVars, turnVars, mainVars
<1>2. /\ state'[c] = "kDisconnecting"
      /\ \A d \in Conns \ {c} : state'[d] = state[d]
  BY <1>1 DEF Types, ConnTypes
<1>3. SameFunctors /\ Bound' = Bound /\ Functors'
  BY <1>1, QueuesStay, FunctorsStay
<1>4. Mapped' = Mapped /\ Made' = Made /\ Polled' = Polled
  BY <1>1, PolledStays DEF Mapped, Made
<1>5. Numbered'
  BY <1>1, <1>2, <1>3, <1>4 DEF ConnInv, Numbered, Stages, SameFunctors
<1>6. OwnSockets' /\ Tables' /\ Activated'
  BY <1>1, <1>3, <1>4 DEF ConnInv, OwnSockets, Tables, Registered, Activated, Referred
<1>7. Stages'
  BY <1>1, <1>2, <1>3, <1>4 DEF ConnInv, Stages, SameFunctors
<1>8. Kept' /\ HeardWhileServing'
  BY <1>1, <1>3, <1>4 DEF ConnInv, Kept, HeardWhileServing, SameFunctors
<1>9. Heard'
  BY <1>1, <1>2, <1>3, <1>4, MadeAreConns DEF ConnInv, Heard, SameFunctors
<1>10. LifeStep
  BY <1>1, <1>3, <1>4 DEF LifeStep, Referred
<1> QED
  BY <1>3, <1>5, <1>6, <1>7, <1>8, <1>9, <1>10 DEF ConnInv

\* sendInLoop() in the connection's loop, which may register the channel again.
LEMMA SendRunKeeps ==
  ASSUME Types, Types', Functors, ConnInv, Destructor, NEW l \in Loops, runSend(l)
  PROVE  Functors' /\ ConnInv' /\ LifeStep
<1> DEFINE c == conn(l)
<1>1. /\ c \in Conns /\ c \in Bound /\ loop[c] = l /\ c \notin ToEstablish
      /\ SameFunctors /\ Bound' = Bound /\ Functors'
  BY RunSendQueues
<1>2. /\ UNCHANGED <<connections_, made, name, loop, fd, mainAt, held, dropped, loops>>
      /\ UNCHANGED <<loopAt, active, state, told, ends, sending>> /\ loopAt[l] = "functors"
      /\ \/ UNCHANGED <<index, channels_, late>>
         \/ /\ updateChannel(l, c, fd[c], FALSE)
            /\ late' = IF index[c] = "kNew" THEN late \cup {c} ELSE late
  BY DEF runSend, StartFunctor, pollerVars, mapVars, mainVars, serverVars
<1> HIDE DEF c
<1>3. Polled' = Polled /\ Mapped' = Mapped /\ Made' = Made /\ Referred' = Referred
  <2>1. Polled' = Polled
    BY <1>2, PolledStays
  <2>2. Mapped' = Mapped /\ Made' = Made
    BY <1>2 DEF Mapped, Made
  <2> QED
    BY <1>1, <1>2, <2>1, <2>2 DEF Referred
<1>4. /\ l \in Polled /\ c \in Made /\ c \in Referred /\ fd[c] \in Fds
      /\ told[c] # "nothing"
  <2>1. l \in Polled
    BY <1>2 DEF Polled, HasPoller, Destructor
  <2>2. c \in Made /\ c \in Referred /\ fd[c] \in Fds
    BY <1>1 DEF ConnInv, Numbered, Referred
  <2> QED
    BY <1>1, <2>1, <2>2 DEF ConnInv, Stages
<1>5. /\ \A d \in Conns \ {c} : index'[d] = index[d] /\ (d \in late' <=> d \in late)
      /\ index[c] # "kNew" => index'[c] # "kNew" /\ channels_' = channels_ /\ late' = late
      /\ index[c] = "kNew" =>
           \/ index'[c] = "kNew" /\ channels_' = channels_ /\ late' = late
           \/ /\ index'[c] = "kAdded" /\ late' = late \cup {c}
              /\ channels_' = [channels_ EXCEPT ![l][fd[c]] = c]
  <2>1. \A d \in Conns : d \in Channels
    BY DEF Channels
  <2> QED
    BY <1>1, <1>2, <2>1 DEF updateChannel, Types, PollerTypes
<1>6. Numbered'
  BY <1>1, <1>2, <1>3, <1>4, <1>5 DEF ConnInv, Numbered
<1>7. OwnSockets'
  BY <1>2, <1>3 DEF ConnInv, OwnSockets
<1>8. Tables'
  <2>1. CASE index[c] = "kNew" /\ index'[c] = "kAdded"
    BY <1>1, <1>2, <1>3, <1>4, <1>5, <2>1, OwnTables
  <2>2. CASE channels_' = channels_ /\ (index'[c] = "kNew" <=> index[c] = "kNew")
    <3>1. \A d \in Conns, k \in Loops : Registered(d, k)' <=> Registered(d, k)
      BY <1>2, <1>3, <1>5, <2>2 DEF Registered
    <3> QED
      BY <1>2, <1>3, <2>2, <3>1, ReferredAreConns DEF ConnInv, Tables
  <2> QED
    BY <1>5, <2>1, <2>2
<1>9. Activated'
  BY <1>2, <1>5 DEF ConnInv, Activated
<1>10. Stages'
  BY <1>1, <1>2, <1>3, <1>4, <1>5 DEF ConnInv, Stages, SameFunctors
<1>11. Kept'
  BY <1>1, <1>2, <1>3, <1>5 DEF ConnInv, Kept, SameFunctors
<1>12. Heard' /\ HeardWhileServing'
  BY <1>1, <1>2, <1>3 DEF ConnInv, Heard, HeardWhileServing, SameFunctors
<1>13. LifeStep
  BY <1>2, <1>3 DEF LifeStep
<1> QED
  BY <1>1, <1>6, <1>7, <1>8, <1>9, <1>10, <1>11, <1>12, <1>13 DEF ConnInv

\* A send() of another thread refers to its connection from the test of the state on.
LEMMA SendKeeps ==
  ASSUME Types, Types', Functors, ConnInv, NEW c \in Conns, testState(c) \/ queueSend(c)
  PROVE  Functors' /\ ConnInv' /\ LifeStep
<1>1. /\ UNCHANGED <<loop, loopAt, active, index, channels_, connections_, made, name, fd>>
      /\ UNCHANGED <<state, told, ends, late, mainAt, held, dropped, loops>>
  BY DEF testState, queueSend, pollerVars, serverVars, mapVars, loopVars, turnVars, mainVars
<1>2. /\ c \in Referred /\ told[c] # "nothing"
      /\ \/ sending' = sending \cup {c} /\ Bound' = Bound
         \/ c \in sending /\ sending' = sending \ {c} /\ Bound' = Bound \cup {c}
      /\ SameFunctors /\ Functors'
  <2>1. CASE testState(c)
    <3>1. c \in Referred /\ told[c] # "nothing" /\ sending' = sending \cup {c}
      BY <2>1, AliveIsReferred DEF testState, ConnInv
    <3>2. UNCHANGED <<pending, running, taken, loop, loopAt>>
      BY <2>1 DEF testState, mapVars, loopVars, turnVars
    <3> QED
      BY <3>1, <3>2, QueuesStay, FunctorsStay
  <2>2. CASE queueSend(c)
    <3>1. c \in sending /\ sending' = sending \ {c}
      BY <2>2 DEF queueSend
    <3> QED
      BY <2>2, <3>1, SendQueues DEF Referred, ConnInv, Stages
  <2> QED
    BY <2>1, <2>2
<1>3. /\ Mapped' = Mapped /\ Made' = Made /\ Polled' = Polled /\ Referred' = Referred
      /\ c \in Made
  <2>1. Mapped' = Mapped /\ Made' = Made /\ Polled' = Polled
    BY <1>1, PolledStays DEF Mapped, Made
  <2>2. Referred' = Referred
    BY <1>1, <1>2, <2>1 DEF Referred
  <2> QED
    BY <1>2, <2>1, <2>2, NoChannelIsNone DEF Referred, ConnInv, Numbered
<1>4. Numbered'
  BY <1>1, <1>2, <1>3 DEF ConnInv, Numbered
<1>5. OwnSockets' /\ Tables' /\ Activated'
  BY <1>1, <1>3 DEF ConnInv, OwnSockets, Tables, Registered, Activated
<1>6. Stages'
  BY <1>1, <1>2, <1>3 DEF ConnInv, Stages, SameFunctors
<1>7. Kept' /\ Heard' /\ HeardWhileServing'
  BY <1>1, <1>2, <1>3 DEF ConnInv, Kept, Heard, HeardWhileServing, SameFunctors
<1>8. LifeStep
  BY <1>1, <1>3 DEF LifeStep
<1> QED
  BY <1>2, <1>4, <1>5, <1>6, <1>7, <1>8 DEF ConnInv

LEMMA NextConns == Inv /\ [Next]_vars => Functors' /\ ConnInv' /\ LifeStep
<1> SUFFICES ASSUME Inv, [Next]_vars
             PROVE  Functors' /\ ConnInv' /\ LifeStep
  OBVIOUS
<1>0. /\ Types /\ Types' /\ Starting /\ Functors /\ ConnInv /\ Destructor
      /\ PollerTypes /\ PoolTypes /\ MapTypes
      /\ ConnTypes /\ LoopTypes /\ MainTypes
  BY NextTypes DEF Inv, Types
<1>1. ASSUME NEW l \in Loops, pollEvents(l)
      PROVE  Functors' /\ ConnInv' /\ LifeStep
  <2>1. SameFunctors /\ Bound' = Bound /\ Functors'
    BY <1>0, <1>1, PollQueues
  <2>2. /\ UNCHANGED <<index, channels_, dropped, held, connections_, made, name, loop, fd>>
        /\ UNCHANGED <<connVars, loops, mainAt>> /\ loopAt[l] = "idle"
    BY <1>1 DEF pollEvents, poll, serverVars, mapVars, mainVars
  <2>3. PICK events \in SUBSET Ready(l) :
          active' = [active EXCEPT ![l] = events \ {Wakeup}]
    BY <1>1 DEF pollEvents
  <2>4. loopAt' = [loopAt EXCEPT ![l] = IF active'[l] = {} THEN "functors" ELSE "events"]
    BY <1>1 DEF pollEvents
  <2>5. \A c \in Conns : c \in active'[l] => loop[c] = l /\ index[c] # "kNew"
    BY <1>0, <2>3, BaseLoop DEF Ready, LoopTypes, Wakeup
  <2>6. Activated'
    BY <1>0, <2>2, <2>3, <2>4, <2>5 DEF ConnInv, Activated, LoopTypes
  <2>7. Polled' = Polled
    BY <1>0, <2>2, <2>4, PolledStays DEF LoopTypes
  <2> QED
    BY <1>0, <2>1, <2>2, <2>6, <2>7, LoopsAreNumbers, StillConns
<1>2. CASE handleRead
  <2>1. PICK f \in Fds :
          /\ accept4(f)
          /\ \/ f > 0 /\ newConnection(f)
             \/ /\ Handled(0, Acceptor, pending)
                /\ UNCHANGED <<pollerVars, next, mapVars, connVars>>
          /\ UNCHANGED <<numThreads, started, loops, startAt, closed, mainVars>>
    BY <1>2 DEF handleRead
  <2>2. CASE newConnection(f)
    BY <1>0, <2>1, <2>2, AcceptKeeps
  <2>3. CASE /\ Handled(0, Acceptor, pending)
             /\ UNCHANGED <<pollerVars, next, mapVars, connVars>>
    BY <1>0, <2>1, <2>3, BaseLoop, NothingHandled DEF pollerVars, mapVars, mainVars
  <2> QED
    BY <2>1, <2>2, <2>3
<1>3. CASE handleReadFails
  <2>1. /\ Handled(0, Acceptor, pending)
        /\ UNCHANGED <<index, channels_, dropped, held, connections_, made, name, loop, fd>>
        /\ UNCHANGED <<connVars, loops, mainAt>>
    BY <1>3 DEF handleReadFails, pollerVars, serverVars, mapVars, mainVars
  <2> QED
    BY <1>0, <2>1, BaseLoop, NothingHandled
<1>4. CASE runListen
  <2>1. SameFunctors /\ Bound' = Bound /\ Functors'
    BY <1>0, <1>4, RunListenQueues
  <2>2. /\ \A c \in Conns : index'[c] = index[c]
        /\ \A l \in Loops, f \in Fds : channels_'[l][f] = channels_[l][f]
    BY <1>0, <1>4, ListenLeaves DEF runListen
  <2>3. /\ UNCHANGED <<dropped, held, connections_, made, name, loop, fd, connVars>>
        /\ UNCHANGED <<loops, mainAt, loopAt, active>>
    BY <1>4 DEF runListen, StartFunctor, serverVars, mapVars, mainVars
  <2>4. Activated' /\ Polled' = Polled
    BY <1>0, <2>2, <2>3, ActivatedStays, PolledStays DEF ConnInv
  <2> QED
    BY <1>0, <2>1, <2>2, <2>3, <2>4, LoopsAreNumbers, StillConns
<1>5. CASE runRemoval
  BY <1>0, <1>5, RemovalKeeps
<1>6. ASSUME NEW l \in Loops, NEW c \in Conns, handleClose(l, c)
      PROVE  Functors' /\ ConnInv' /\ LifeStep
  <2>1. c \in closed
    BY <1>6 DEF handleClose, Inv, Closing
  <2> QED
    BY <1>0, <1>6, <2>1, CloseKeeps
<1>7. ASSUME NEW l \in Loops, runEstablished(l)
      PROVE  Functors' /\ ConnInv' /\ LifeStep
  BY <1>0, <1>7, EstablishKeeps
<1>8. ASSUME NEW l \in Loops, runDestroyed(l)
      PROVE  Functors' /\ ConnInv' /\ LifeStep
  BY <1>0, <1>8, DestroyedKeeps
<1>9. ASSUME NEW l \in Loops, endOfFunctors(l)
      PROVE  Functors' /\ ConnInv' /\ LifeStep
  <2>1. /\ dropped \subseteq dropped' /\ Bound' \subseteq Bound /\ Functors'
        /\ \A c \in dropped' \ dropped : quit[l] /\ l # 0 /\ loop[c] = l /\ c \in Bound
        /\ ~quit[l] \/ l = 0 => SameFunctors
        /\ quit[l] /\ l # 0 =>
             /\ ToEstablish' = {c \in ToEstablish : loop[c] # l}
             /\ ToRemove' = ToRemove
             /\ ToDestroy' = {c \in ToDestroy : loop[c] # l}
             /\ \A c \in ToEstablish \cup ToDestroy : loop[c] = l => c \in dropped'
    BY <1>0, <1>9, EndQueues
  <2>2. /\ UNCHANGED <<index, held, connections_, made, name, loop, fd, connVars>>
        /\ UNCHANGED <<loops, mainAt, active>> /\ loopAt[l] = "functors"
        /\ loopAt' = [loopAt EXCEPT ![l] = IF quit[l] THEN "stopped" ELSE "idle"]
    BY <1>9 DEF endOfFunctors, serverVars, mapVars
  <2>3. Activated'
    BY <1>0, <2>2 DEF ConnInv, Activated, LoopTypes
  <2>4. CASE quit[l] /\ l # 0
    <3>1. Polled' = Polled \ {l}
      BY <1>0, <2>2, <2>4 DEF Polled, HasPoller, LoopTypes
    <3>2. channels_' = [channels_ EXCEPT ![l] = [f \in DOMAIN @ |-> NoChannel]]
      BY <1>9, <2>4 DEF endOfFunctors
    <3>3. \A k \in Loops \ Polled, f \in Fds : channels_[k][f] = NoChannel
      BY <1>0 DEF ConnInv, Tables, Registered, PollerTypes, Channels
    <3>4. /\ \A k \in Loops \ Polled', f \in Fds : channels_'[k][f] = NoChannel
          /\ \A k \in Polled', f \in Fds : channels_'[k][f] = channels_[k][f]
      BY <1>0, <3>1, <3>2, <3>3 DEF PollerTypes
    <3>5. /\ ToEstablish' \subseteq ToEstablish /\ ToRemove' \subseteq ToRemove
          /\ \A c \in Conns : loop[c] \in Polled' =>
               /\ c \in ToRemove => c \in ToRemove'
               /\ c \in ToDestroy => c \in ToDestroy'
          /\ \A c \in ToEstablish : c \in ToEstablish' \cup dropped'
          /\ \A c \in ToDestroy : c \in ToDestroy' \cup dropped'
          /\ \A c \in dropped' \ dropped : c \in Made /\ loop[c] \notin Polled'
      BY <1>0, <2>1, <2>4, <3>1 DEF ConnInv, Numbered
    <3> QED
      BY <1>0, <2>1, <2>2, <2>3, <3>1, <3>4, <3>5, LoopsAreNumbers, QuietConns
  <2>5. CASE ~(quit[l] /\ l # 0)
    <3>1. channels_' = channels_
      BY <1>9, <2>5 DEF endOfFunctors
    <3>2. Polled' = Polled
      BY <1>0, <2>2, <2>5, PolledStays DEF LoopTypes
    <3>3. dropped' = dropped
      BY <2>1, <2>5
    <3> QED
      BY <1>0, <2>1, <2>2, <2>3, <2>5, <3>1, <3>2, <3>3, LoopsAreNumbers, StillConns
  <2> QED
    BY <2>4, <2>5
<1>10. ASSUME NEW s \in Callers, startPool(s)
      PROVE  Functors' /\ ConnInv' /\ LifeStep
  <2>0. loops = 0 /\ \A k \in Loops : k # 0 => loopAt[k] = "none"
    BY <1>0, <1>10 DEF startPool, Starting, Destructor, PoolTypes, Loops
  <2>1. Elsewhere
    BY <1>0, <1>10, <2>0, LoopsAreNumbers
    DEF Elsewhere, startPool, pollerVars, serverVars, mapVars,
        kernelVars, loopVars, turnVars, mainVars, LoopTypes
  <2> QED
    BY <1>0, <2>1, LeftAlone
<1>11. ASSUME NEW s \in Callers, startListening(s)
      PROVE  Functors' /\ ConnInv' /\ LifeStep
  <2>1. SameFunctors /\ Bound' = Bound /\ Functors'
    BY <1>0, <1>11, ListeningQueues
  <2>2. /\ \A c \in Conns : index'[c] = index[c]
        /\ \A l \in Loops, f \in Fds : channels_'[l][f] = channels_[l][f]
    BY <1>0, <1>11, ListenLeaves DEF startListening
  <2>3. /\ UNCHANGED <<dropped, held, connections_, made, name, loop, fd, connVars>>
        /\ UNCHANGED <<loops, mainAt, loopAt, active>>
    BY <1>11 DEF startListening, turnVars, mapVars, mainVars
  <2>4. Activated' /\ Polled' = Polled
    BY <1>0, <2>2, <2>3, ActivatedStays, PolledStays DEF ConnInv
  <2> QED
    BY <1>0, <2>1, <2>2, <2>3, <2>4, LoopsAreNumbers, StillConns
<1>12. ASSUME NEW n \in Conns, destroyConnection(n)
      PROVE  Functors' /\ ConnInv' /\ LifeStep
  BY <1>0, <1>12, DestructorKeeps
<1>13. CASE releaseConn
  <2>1. /\ UNCHANGED <<pending, running, taken, loop, loopAt, active, loops, mainAt>>
        /\ UNCHANGED <<dropped, connections_, made, name, fd, connVars, index, channels_>>
        /\ held' = NoChannel
    BY <1>13 DEF releaseConn, Main, pollerVars, serverVars, turnVars, mapVars
  <2>2. SameFunctors /\ Bound' = Bound /\ Functors'
    BY <1>0, <2>1, QueuesStay, FunctorsStay
  <2>3. Activated' /\ Polled' = Polled
    BY <1>0, <2>1, ActivatedStays, PolledStays DEF ConnInv
  <2> QED
    BY <1>0, <2>1, <2>2, <2>3, LoopsAreNumbers, StillConns
<1>14. CASE endOfConnections
  <2>1. Elsewhere
    BY <1>0, <1>14, LoopsAreNumbers
    DEF Elsewhere, endOfConnections, Main, pollerVars, serverVars, mapVars,
        kernelVars, loopVars, turnVars, mainVars, LoopTypes
  <2> QED
    BY <1>0, <2>1, LeftAlone
<1>15. CASE quitLoop
  <2>1. Elsewhere
    BY <1>0, <1>15, LoopsAreNumbers
    DEF Elsewhere, quitLoop, Main, pollerVars, serverVars, mapVars,
        kernelVars, loopVars, turnVars, mainVars, LoopTypes
  <2> QED
    BY <1>0, <2>1, LeftAlone
<1>16. CASE join
  <2>1. Elsewhere
    BY <1>0, <1>16, LoopsAreNumbers
    DEF Elsewhere, join, Main, pollerVars, serverVars, mapVars,
        kernelVars, loopVars, turnVars, mainVars, LoopTypes
  <2> QED
    BY <1>0, <2>1, LeftAlone
<1>17. CASE destroyAcceptor
  <2>1. /\ UNCHANGED <<pending, running, taken, loop, loopAt, active, loops>>
        /\ UNCHANGED <<dropped, held, connections_, made, name, fd, connVars>>
        /\ mainAt = "pool" /\ mainAt' = "destroyed"
    BY <1>17 DEF destroyAcceptor, Main, serverVars, turnVars, mapVars
  <2>2. SameFunctors /\ Bound' = Bound /\ Functors'
    BY <1>0, <2>1, QueuesStay, FunctorsStay
  <2>3. /\ \A c \in Conns : index'[c] = index[c]
        /\ \A l \in Loops, f \in Fds : channels_'[l][f] = channels_[l][f]
    BY <1>0, <1>17, ListenLeaves DEF destroyAcceptor
  <2>4. Activated' /\ Polled' = Polled
    BY <1>0, <2>1, <2>3, ActivatedStays, PolledStays DEF ConnInv
  <2> QED
    BY <1>0, <2>1, <2>2, <2>3, <2>4, LoopsAreNumbers, StillConns
<1>18. CASE destroyBaseLoop
  <2>1. /\ UNCHANGED <<index, held, connections_, made, name, loop, fd, connVars>>
        /\ UNCHANGED <<loops, loopAt, active, dropped>>
        /\ mainAt = "destroyed" /\ mainAt' = "ended"
        /\ channels_' = [channels_ EXCEPT ![0] = [f \in DOMAIN @ |-> NoChannel]]
    BY <1>18 DEF destroyBaseLoop, Main, serverVars, mapVars, turnVars
  <2>2. loopAt[0] = "stopped" /\ \A l \in 1 .. loops : loopAt[l] = "stopped"
    <3>1. cur > loops /\ \A l \in 1 .. loops : l \in Loops \ {0} /\ l < cur /\ l <= loops
      BY <1>0, <2>1, BoundsAssumption DEF Destructor, MainTypes, PoolTypes, Loops
    <3> QED
      BY <1>0, <2>1, <3>1 DEF Destructor
  <2>3. /\ ToEstablish' = ToEstablish /\ ToDestroy' = ToDestroy
        /\ ToRemove' \subseteq ToRemove /\ Bound' \subseteq Bound /\ Functors'
    BY <1>0, <1>18, <2>2, BaseQueueGoes
  <2>4. Activated'
    BY <1>0, <2>1, ActivatedStays DEF ConnInv
  <2>5. Polled' = Polled \ {0}
    BY <1>0, <2>1, BaseLoop DEF Polled, HasPoller
  <2>6. /\ \A k \in Loops \ Polled', f \in Fds : channels_'[k][f] = NoChannel
        /\ \A k \in Polled', f \in Fds : channels_'[k][f] = channels_[k][f]
    <3>1. \A k \in Loops \ Polled, f \in Fds : channels_[k][f] = NoChannel
      BY <1>0 DEF ConnInv, Tables, Registered, PollerTypes, Channels
    <3> QED
      BY <1>0, <2>1, <2>5, <3>1, BaseLoop DEF PollerTypes
  <2>7. \A c \in ToRemove : loop[c] \notin Polled'
    <3> SUFFICES ASSUME NEW c \in ToRemove
                 PROVE  loop[c] \notin Polled'
      OBVIOUS
    <3>1. c \in Made /\ c \in Conns
      BY <1>0, WaitingAreBound, WaitingAreConns DEF ConnInv, Numbered
    <3>2. loop[c] \in 0 .. loops
      BY <1>0, <3>1, LoopsAreNumbers, BoundsAssumption DEF ConnInv, Numbered, MapTypes, Loops
    <3>3. loop[c] = 0 \/ (loop[c] # 0 /\ loopAt[loop[c]] = "stopped")
      BY <1>0, <2>2, <3>2, LoopsAreNumbers
    <3> QED
      BY <2>1, <2>5, <3>3 DEF Polled, HasPoller
  <2> QED
    BY <1>0, <2>1, <2>3, <2>4, <2>5, <2>6, <2>7, LoopsAreNumbers, QuietConns, WaitingAreConns
<1>19. ASSUME NEW m \in Loops, setThreadNum(m)
      PROVE  Functors' /\ ConnInv' /\ LifeStep
  <2>1. Elsewhere
    BY <1>0, <1>19, LoopsAreNumbers
    DEF Elsewhere, setThreadNum, pollerVars, serverVars, mapVars,
        kernelVars, loopVars, turnVars, mainVars, LoopTypes
  <2> QED
    BY <1>0, <2>1, LeftAlone
<1>20. ASSUME NEW s \in Callers, start(s)
      PROVE  Functors' /\ ConnInv' /\ LifeStep
  <2>1. Elsewhere
    BY <1>0, <1>20, LoopsAreNumbers
    DEF Elsewhere, start, Begin, pollerVars, serverVars, mapVars,
        kernelVars, loopVars, turnVars, mainVars, LoopTypes
  <2> QED
    BY <1>0, <2>1, LeftAlone
<1>21. CASE enterLoop
  <2>1. Elsewhere
    BY <1>0, <1>21, LoopsAreNumbers
    DEF Elsewhere, enterLoop, pollerVars, serverVars, mapVars,
        kernelVars, loopVars, turnVars, mainVars, LoopTypes
  <2> QED
    BY <1>0, <2>1, LeftAlone
<1>22. ASSUME NEW c \in Conns, shutdown(c)
      PROVE  Functors' /\ ConnInv' /\ LifeStep
  BY <1>0, <1>22, ShutdownKeeps
<1>23. CASE quitBaseLoop
  <2>1. Elsewhere
    BY <1>0, <1>23, LoopsAreNumbers
    DEF Elsewhere, quitBaseLoop, pollerVars, serverVars, mapVars,
        kernelVars, loopVars, turnVars, mainVars, LoopTypes
  <2> QED
    BY <1>0, <2>1, LeftAlone
<1>24. CASE destroyServer
  <2>1. Elsewhere
    BY <1>0, <1>24, LoopsAreNumbers
    DEF Elsewhere, destroyServer, pollerVars, serverVars, mapVars,
        kernelVars, loopVars, turnVars, mainVars, LoopTypes
  <2> QED
    BY <1>0, <2>1, LeftAlone
<1>25. CASE clientConnects
  <2>1. Elsewhere
    BY <1>0, <1>25, LoopsAreNumbers
    DEF Elsewhere, clientConnects, pollerVars, serverVars, mapVars,
        kernelVars, loopVars, turnVars, mainVars, LoopTypes
  <2> QED
    BY <1>0, <2>1, LeftAlone
<1>26. CASE clientGivesUp
  <2>1. Elsewhere
    BY <1>0, <1>26, LoopsAreNumbers
    DEF Elsewhere, clientGivesUp, pollerVars, serverVars, mapVars,
        kernelVars, loopVars, turnVars, mainVars, LoopTypes
  <2> QED
    BY <1>0, <2>1, LeftAlone
<1>27. ASSUME NEW c \in Conns, peerCloses(c)
      PROVE  Functors' /\ ConnInv' /\ LifeStep
  <2>1. Elsewhere
    BY <1>0, <1>27, LoopsAreNumbers
    DEF Elsewhere, peerCloses, pollerVars, serverVars, mapVars,
        kernelVars, loopVars, turnVars, mainVars, LoopTypes
  <2> QED
    BY <1>0, <2>1, LeftAlone
<1>28. ASSUME NEW l \in Loops, NEW c \in Conns, handleFreed(l, c)
      PROVE  Functors' /\ ConnInv' /\ LifeStep
  <2>1. /\ Handled(l, c, pending)
        /\ UNCHANGED <<index, channels_, dropped, held, connections_, made, name, loop, fd>>
        /\ UNCHANGED <<connVars, loops, mainAt>>
    BY <1>28 DEF handleFreed, pollerVars, serverVars, mapVars, mainVars
  <2> QED
    BY <1>0, <2>1, NothingHandled
<1>29. ASSUME NEW l \in Loops, runSend(l)
      PROVE  Functors' /\ ConnInv' /\ LifeStep
  BY <1>0, <1>29, SendRunKeeps
<1>30. ASSUME NEW c \in Conns, testState(c)
      PROVE  Functors' /\ ConnInv' /\ LifeStep
  BY <1>0, <1>30, SendKeeps
<1>31. ASSUME NEW c \in Conns, queueSend(c)
      PROVE  Functors' /\ ConnInv' /\ LifeStep
  BY <1>0, <1>31, SendKeeps
<1>32. CASE UNCHANGED vars
  <2>1. Elsewhere
    BY <1>0, <1>32, LoopsAreNumbers
    DEF Elsewhere, vars, pollerVars, serverVars, mapVars, loopVars, turnVars,
        mainVars
  <2> QED
    BY <1>0, <2>1, LeftAlone
<1> QED
  BY <1>1, <1>2, <1>3, <1>4, <1>5, <1>6, <1>7, <1>8, <1>9, <1>10, <1>11, <1>12,
     <1>13, <1>14, <1>15, <1>16, <1>17, <1>18, <1>19, <1>20, <1>21, <1>22,
     <1>23, <1>24, <1>25, <1>26, <1>27, <1>28, <1>29, <1>30, <1>31, <1>32
  DEF Next, LoopSteps, StartSteps, DestructorSteps, UserCalls, Clients

\* Only pollEvents() brings new channels into the list, and nothing opens again what
\* a peer has closed.
LEMMA NextClosing == Types /\ Closing /\ [Next]_vars => Closing'
<1> SUFFICES ASSUME Types, Closing, [Next]_vars
             PROVE  Closing'
  OBVIOUS
<1>1. ASSUME \A l \in Loops : active'[l] \cap Conns \subseteq active[l] \cup closed,
             closed \subseteq closed'
      PROVE  Closing'
  BY <1>1 DEF Closing
<1>2. ASSUME NEW l \in Loops, pollEvents(l)
      PROVE  Closing'
  <2>1. PICK events \in SUBSET Ready(l) :
          active' = [active EXCEPT ![l] = events \ {Wakeup}]
    BY <1>2 DEF pollEvents
  <2>2. Ready(l) \cap Conns \subseteq closed
    BY BaseLoop, NoChannelIsNone DEF Ready, Wakeup
  <2>3. \A k \in Loops : active'[k] \cap Conns \subseteq active[k] \cup closed
    BY <2>1, <2>2 DEF Types, LoopTypes
  <2> QED
    BY <1>1, <1>2, <2>3 DEF pollEvents, kernelVars
<1>3. ASSUME NEW l \in Loops, NEW ch, NEW queue, Handled(l, ch, queue), closed' = closed
      PROVE  Closing'
  BY <1>1, <1>3 DEF Handled, Types, LoopTypes
<1>4. CASE handleRead \/ handleReadFails
  <2>1. closed' = closed /\ \E queue : Handled(0, Acceptor, queue)
    BY <1>4 DEF handleRead, handleReadFails, newConnection, kernelVars
  <2> QED
    BY <1>3, <2>1, BaseLoop
<1>5. ASSUME NEW l \in Loops, NEW c \in Conns, handleClose(l, c) \/ handleFreed(l, c)
      PROVE  Closing'
  <2>1. closed' = closed /\ \E queue : Handled(l, c, queue)
    BY <1>5 DEF handleClose, handleFreed, kernelVars
  <2> QED
    BY <1>3, <2>1
<1>6. ASSUME active' = active, closed \subseteq closed'
      PROVE  Closing'
  BY <1>1, <1>6
<1>7. ASSUME NEW l \in Loops,
             \/ runListen \/ runRemoval \/ runEstablished(l) \/ runDestroyed(l)
             \/ runSend(l) \/ endOfFunctors(l)
      PROVE  Closing'
  BY <1>6, <1>7
  DEF runListen, runRemoval, runEstablished, runDestroyed, runSend, endOfFunctors,
      StartFunctor, kernelVars
<1>8. ASSUME NEW s \in Callers, StartSteps(s) \/ start(s)
      PROVE  Closing'
  BY <1>6, <1>8
  DEF StartSteps, startPool, startListening, start, Begin, kernelVars, loopVars, turnVars
<1>9. CASE DestructorSteps
  BY <1>6, <1>9
  DEF DestructorSteps, destroyConnection, releaseConn, endOfConnections, quitLoop, join,
      destroyAcceptor, destroyBaseLoop, Main, kernelVars, loopVars, turnVars
<1>10. CASE UserCalls
  <2>1. ASSUME NEW n \in Loops,
               setThreadNum(n) \/ enterLoop \/ quitBaseLoop \/ destroyServer
        PROVE  Closing'
    BY <1>6, <2>1
    DEF setThreadNum, enterLoop, quitBaseLoop, destroyServer, kernelVars, loopVars, turnVars
  <2>2. ASSUME NEW c \in Conns, shutdown(c) \/ testState(c) \/ queueSend(c)
        PROVE  Closing'
    BY <1>6, <2>2 DEF shutdown, testState, queueSend, kernelVars, loopVars, turnVars
  <2> QED
    BY <1>8, <1>10, <2>1, <2>2, BaseLoop DEF UserCalls
<1>11. CASE Clients
  BY <1>6, <1>11
  DEF Clients, clientConnects, clientGivesUp, peerCloses, kernelVars, loopVars, turnVars
<1>12. CASE UNCHANGED vars
  BY <1>6, <1>12 DEF vars, kernelVars, loopVars, turnVars
<1> QED
  BY <1>2, <1>4, <1>5, <1>7, <1>8, <1>9, <1>10, <1>11, <1>12
  DEF Next, LoopSteps

\* Most actions leave ~TcpServer() where it is; what has stopped stays so.
LEMMA DestructorStays ==
  ASSUME Destructor, UNCHANGED <<mainAt, held, cur, loops>>,
         mainAt # "user" =>
           /\ loopAt'[0] = loopAt[0] /\ \A s \in Callers : startAt'[s] = startAt[s]
           /\ \A n \in Conns : connections_'[n] \in {connections_[n], NoChannel}
           /\ channels_'[0][ListenFd] \in {channels_[0][ListenFd], NoChannel},
         \A l \in Loops \ {0} :
           /\ quit'[l] = quit[l] /\ (loopAt'[l] = "none" <=> loopAt[l] = "none")
           /\ loopAt[l] = "stopped" => loopAt'[l] = "stopped"
           /\ loopAt'[l] = "stopped" => quit[l] \/ loopAt[l] = "stopped"
  PROVE  Destructor'
<1>1. /\ mainAt # "user" => loopAt'[0] = "stopped" /\ \A s \in Callers : startAt'[s] = "out"
      /\ mainAt = "user" => held = NoChannel
      /\ mainAt \in {"user", "connections"} => cur = 1
      /\ mainAt \notin {"user", "connections"} =>
           held = NoChannel /\ \A n \in Conns : connections_'[n] = NoChannel
      /\ mainAt \in {"destroyed", "ended"} =>
           cur > loops /\ channels_'[0][ListenFd] = NoChannel
  BY DEF Destructor
<1>2. \A l \in Loops \ {0} :
        /\ loopAt'[l] # "none" => l <= loops
        /\ l < cur /\ l <= loops => loopAt'[l] = "stopped"
        /\ quit'[l] \/ loopAt'[l] = "stopped" => mainAt \notin {"user", "connections"}
  BY DEF Destructor
<1> QED
  BY <1>1, <1>2 DEF Destructor

LEMMA HandledLoops ==
  ASSUME LoopTypes, NEW l \in Loops, NEW ch, NEW queue, Handled(l, ch, queue)
  PROVE  /\ loopAt[l] = "events" /\ loopAt'[l] \in {"events", "functors"} /\ quit' = quit
         /\ \A k \in Loops \ {l} : loopAt'[k] = loopAt[k]
  BY DEF Handled, LoopTypes

LEMMA NextDestructor == Inv /\ [Next]_vars => Destructor'
<1> SUFFICES ASSUME Inv, [Next]_vars
             PROVE  Destructor'
  OBVIOUS
<1>0. /\ Types /\ Types' /\ Starting /\ Functors /\ ConnInv /\ Destructor
      /\ PollerTypes /\ PoolTypes /\ MapTypes
      /\ ConnTypes /\ LoopTypes /\ MainTypes
  BY NextTypes DEF Inv, Types
<1>1. ASSUME NEW l \in Loops, pollEvents(l)
      PROVE  Destructor'
  <2>1. /\ UNCHANGED <<mainAt, held, cur, loops, quit, channels_, connections_, startAt>>
        /\ loopAt[l] = "idle" /\ loopAt'[l] \in {"events", "functors"}
        /\ \A k \in Loops \ {l} : loopAt'[k] = loopAt[k]
    BY <1>0, <1>1 DEF pollEvents, poll, serverVars, mapVars, mainVars, LoopTypes
  <2>2. l = 0 => mainAt = "user"
    BY <1>0, <2>1 DEF Destructor
  <2> QED
    BY <1>0, <2>1, <2>2, BaseLoop, DestructorStays
<1>2. CASE handleRead
  <2>1. /\ UNCHANGED <<mainAt, held, cur, loops>>
        /\ \E queue : Handled(0, Acceptor, queue)
    BY <1>2 DEF handleRead, newConnection, serverVars, mainVars
  <2>2. /\ loopAt[0] = "events" /\ loopAt'[0] \in {"events", "functors"} /\ quit' = quit
        /\ \A k \in Loops \ {0} : loopAt'[k] = loopAt[k]
    BY <1>0, <2>1, BaseLoop, HandledLoops
  <2> QED
    BY <1>0, <2>1, <2>2, DestructorStays DEF Destructor
<1>3. CASE handleReadFails
  <2>1. /\ UNCHANGED <<mainAt, held, cur, loops>>
        /\ \E queue : Handled(0, Acceptor, queue)
    BY <1>3 DEF handleReadFails, serverVars, mainVars
  <2>2. /\ loopAt[0] = "events" /\ loopAt'[0] \in {"events", "functors"} /\ quit' = quit
        /\ \A k \in Loops \ {0} : loopAt'[k] = loopAt[k]
    BY <1>0, <2>1, BaseLoop, HandledLoops
  <2> QED
    BY <1>0, <2>1, <2>2, DestructorStays DEF Destructor
<1>4. CASE runListen
  <2>1. UNCHANGED <<mainAt, held, cur, loops, quit, loopAt>> /\ loopAt[0] = "functors"
    BY <1>4 DEF runListen, StartFunctor, serverVars, mainVars
  <2> QED
    BY <1>0, <2>1, DestructorStays DEF Destructor
<1>5. CASE runRemoval
  <2>1. UNCHANGED <<mainAt, held, cur, loops, quit, loopAt>> /\ loopAt[0] = "functors"
    BY <1>5 DEF runRemoval, StartFunctor, serverVars, mainVars
  <2> QED
    BY <1>0, <2>1, DestructorStays DEF Destructor
<1>6. ASSUME NEW l \in Loops, NEW c \in Conns, handleClose(l, c)
      PROVE  Destructor'
  <2>1. /\ UNCHANGED <<mainAt, held, cur, loops, channels_, startAt>>
        /\ \E queue : Handled(l, c, queue)
        /\ l # 0 => connections_' = connections_
    BY <1>6 DEF handleClose, pollerVars, mapVars, serverVars, mainVars
  <2>2. /\ loopAt[l] = "events" /\ loopAt'[l] \in {"events", "functors"} /\ quit' = quit
        /\ \A k \in Loops \ {l} : loopAt'[k] = loopAt[k]
    BY <1>0, <2>1, HandledLoops
  <2>3. l = 0 => mainAt = "user"
    BY <1>0, <2>2 DEF Destructor
  <2> QED
    BY <1>0, <2>1, <2>2, <2>3, BaseLoop, DestructorStays
<1>7. ASSUME NEW l \in Loops, runEstablished(l)
      PROVE  Destructor'
  <2>1. /\ UNCHANGED <<mainAt, held, cur, loops, quit, loopAt, startAt, connections_>>
        /\ UNCHANGED loop /\ loopAt[l] = "functors" /\ connectEstablished(conn(l))
    BY <1>7 DEF runEstablished, StartFunctor, mapVars, serverVars, mainVars
  <2>2. loop[conn(l)] = l /\ l # 0
    BY <1>0, <1>7, RunEstablishedQueues
  <2>3. channels_'[0] = channels_[0]
    BY <1>0, <2>1, <2>2, BaseLoop DEF connectEstablished, updateChannel, PollerTypes
  <2> QED
    BY <1>0, <2>1, <2>3, DestructorStays
<1>8. ASSUME NEW l \in Loops, runDestroyed(l)
      PROVE  Destructor'
  <2>1. /\ UNCHANGED <<mainAt, held, cur, loops, quit, loopAt, startAt, connections_>>
        /\ connectionDestroyed(conn(l))
    BY <1>8 DEF runDestroyed, StartFunctor, mapVars, serverVars, mainVars
  <2>2. channels_'[0][ListenFd] \in {channels_[0][ListenFd], NoChannel}
    BY <1>0, <2>1, BaseLoop DEF connectionDestroyed, removeChannel, PollerTypes
  <2> QED
    BY <1>0, <2>1, <2>2, DestructorStays
<1>9. ASSUME NEW l \in Loops, endOfFunctors(l)
      PROVE  Destructor'
  <2>1. /\ UNCHANGED <<mainAt, held, cur, loops, quit, startAt, connections_>>
        /\ loopAt[l] = "functors"
        /\ loopAt'[l] = (IF quit[l] THEN "stopped" ELSE "idle")
        /\ \A k \in Loops \ {l} : loopAt'[k] = loopAt[k]
        /\ l # 0 => channels_'[0] = channels_[0]
    BY <1>0, <1>9, BaseLoop
    DEF endOfFunctors, mapVars, serverVars, LoopTypes, PollerTypes
  <2>2. l = 0 => mainAt = "user"
    BY <1>0, <2>1 DEF Destructor
  <2> QED
    BY <1>0, <2>1, <2>2, BaseLoop, DestructorStays
<1>10. ASSUME NEW s \in Callers, startPool(s)
      PROVE  Destructor'
  <2>1. /\ UNCHANGED <<mainAt, held, cur, quit>> /\ mainAt = "user"
        /\ loops' = loops + numThreads
        /\ \A k \in Loops : loopAt'[k] = IF k \in loops + 1 .. loops + numThreads
                                          THEN "idle" ELSE loopAt[k]
    BY <1>0, <1>10 DEF startPool, Destructor, mainVars
  <2>2. ASSUME NEW l \in Loops \ {0}
        PROVE  /\ loopAt'[l] # "none" => l <= loops'
               /\ ~(l < cur) /\ ~quit[l] /\ loopAt'[l] # "stopped"
    <3>1. cur = 1 /\ ~quit[l] /\ loopAt[l] # "stopped" /\ (loopAt[l] # "none" => l <= loops)
      BY <1>0, <2>1 DEF Destructor
    <3> QED
      BY <1>0, <2>1, <3>1, LoopsAreNumbers DEF Loops
  <2> QED
    BY <1>0, <2>1, <2>2 DEF Destructor
<1>11. ASSUME NEW s \in Callers, startListening(s)
      PROVE  Destructor'
  <2>1. UNCHANGED <<mainAt, held, cur, loops, quit, loopAt>> /\ mainAt = "user"
    BY <1>0, <1>11 DEF startListening, Destructor, turnVars, mainVars
  <2> QED
    BY <1>0, <2>1, BaseLoop, DestructorStays
<1>12. ASSUME NEW n \in Conns, destroyConnection(n)
      PROVE  Destructor'
  <2>1. /\ UNCHANGED <<mainAt, cur, loops, loopAt, startAt, quit>> /\ mainAt = "connections"
    BY <1>12 DEF destroyConnection, serverVars, turnVars
  <2> QED
    BY <1>0, <2>1 DEF Destructor
<1>13. CASE releaseConn
  <2>1. /\ UNCHANGED <<mainAt, cur, loops, loopAt, startAt, quit>> /\ mainAt = "connections"
    BY <1>13 DEF releaseConn, Main, serverVars, turnVars
  <2> QED
    BY <1>0, <2>1 DEF Destructor
<1>14. CASE endOfConnections
  <2>1. /\ UNCHANGED <<held, cur, loops, loopAt, startAt, quit, connections_>>
        /\ mainAt = "connections" /\ mainAt' = "pool"
        /\ held = NoChannel /\ \A n \in Conns : connections_[n] = NoChannel
    BY <1>14 DEF endOfConnections, Main, serverVars, mapVars, turnVars
  <2> QED
    BY <1>0, <2>1 DEF Destructor
<1>15. CASE quitLoop
  <2>1. /\ UNCHANGED <<held, cur, loops, loopAt, startAt, connections_>>
        /\ mainAt = "pool" /\ mainAt' = "join"
    BY <1>15 DEF quitLoop, Main, serverVars, mapVars, turnVars
  <2> QED
    BY <1>0, <2>1 DEF Destructor
<1>16. CASE join
  <2>1. /\ UNCHANGED <<held, loops, loopAt, startAt, connections_, quit>>
        /\ mainAt = "join" /\ mainAt' = "pool" /\ cur' = cur + 1
        /\ loopAt[cur] = "stopped"
    BY <1>16 DEF join, Main, serverVars, mapVars, turnVars
  <2>2. \A l \in Loops \ {0} : l < cur + 1 => l < cur \/ l = cur
    BY <1>0 DEF MainTypes, Loops
  <2> QED
    BY <1>0, <2>1, <2>2 DEF Destructor
<1>17. CASE destroyAcceptor
  <2>1. /\ UNCHANGED <<held, cur, loops, loopAt, startAt, connections_, quit>>
        /\ mainAt = "pool" /\ mainAt' = "destroyed" /\ cur > loops
        /\ channels_' = [channels_ EXCEPT ![0][ListenFd] = NoChannel]
    BY <1>17 DEF destroyAcceptor, Main, removeChannel, serverVars, mapVars, turnVars
  <2>2. channels_'[0][ListenFd] = NoChannel
    BY <1>0, <2>1, BaseLoop DEF PollerTypes
  <2> QED
    BY <1>0, <2>1, <2>2 DEF Destructor
<1>18. CASE destroyBaseLoop
  <2>1. /\ UNCHANGED <<held, cur, loops, loopAt, startAt, connections_, quit>>
        /\ mainAt = "destroyed" /\ mainAt' = "ended"
        /\ channels_' = [channels_ EXCEPT ![0] = [f \in DOMAIN @ |-> NoChannel]]
    BY <1>18 DEF destroyBaseLoop, Main, serverVars, mapVars, turnVars
  <2>2. channels_'[0][ListenFd] = NoChannel
    BY <1>0, <2>1, BaseLoop DEF PollerTypes
  <2> QED
    BY <1>0, <2>1, <2>2 DEF Destructor
<1>19. ASSUME NEW m \in Loops, setThreadNum(m)
      PROVE  Destructor'
  <2>1. /\ UNCHANGED <<mainAt, held, cur, loops, channels_, connections_, quit, loopAt>>
        /\ \A t \in Callers : startAt'[t] = startAt[t] \/ mainAt = "user"
    BY <1>0, <1>19
    DEF setThreadNum, Destructor, pollerVars, serverVars, mapVars, connVars, kernelVars,
        loopVars, turnVars, mainVars, PoolTypes
  <2> QED
    BY <1>0, <2>1, DestructorStays
<1>20. ASSUME NEW s \in Callers, start(s)
      PROVE  Destructor'
  <2>1. /\ UNCHANGED <<mainAt, held, cur, loops, channels_, connections_, quit, loopAt>>
        /\ \A t \in Callers : startAt'[t] = startAt[t] \/ mainAt = "user"
    BY <1>0, <1>20
    DEF start, Begin, Destructor, pollerVars, serverVars, mapVars, connVars, kernelVars,
        loopVars, turnVars, mainVars, PoolTypes
  <2> QED
    BY <1>0, <2>1, DestructorStays
<1>21. CASE enterLoop
  <2>1. /\ UNCHANGED <<mainAt, held, cur, loops, quit>> /\ mainAt = "user"
        /\ \A k \in Loops \ {0} : loopAt'[k] = loopAt[k]
    BY <1>0, <1>21 DEF enterLoop, serverVars, mainVars, LoopTypes
  <2> QED
    BY <1>0, <2>1, BaseLoop, DestructorStays
<1>22. ASSUME NEW c \in Conns, shutdown(c)
      PROVE  Destructor'
  <2>1. /\ UNCHANGED <<mainAt, held, cur, loops, channels_, connections_, quit, loopAt>>
        /\ \A t \in Callers : startAt'[t] = startAt[t] \/ mainAt = "user"
    BY <1>0, <1>22
    DEF shutdown, Destructor, pollerVars, serverVars, mapVars, connVars, kernelVars,
        loopVars, turnVars, mainVars, PoolTypes
  <2> QED
    BY <1>0, <2>1, DestructorStays
<1>23. CASE quitBaseLoop
  <2>1. /\ UNCHANGED <<mainAt, held, cur, loops, channels_, connections_, loopAt, startAt>>
        /\ \A k \in Loops \ {0} : quit'[k] = quit[k]
    BY <1>0, <1>23 DEF quitBaseLoop, pollerVars, serverVars, mapVars, turnVars, mainVars,
                    LoopTypes
  <2> QED
    BY <1>0, <2>1, BaseLoop, DestructorStays
<1>24. CASE destroyServer
  <2>1. /\ UNCHANGED <<held, cur, loops, loopAt, startAt, quit>>
        /\ mainAt = "user" /\ mainAt' = "connections" /\ loopAt[0] = "stopped"
        /\ \A s \in Callers : startAt[s] = "out"
    BY <1>24 DEF destroyServer, serverVars, loopVars, turnVars
  <2> QED
    BY <1>0, <2>1 DEF Destructor
<1>25. CASE clientConnects
  <2>1. /\ UNCHANGED <<mainAt, held, cur, loops, channels_, connections_, quit, loopAt>>
        /\ \A t \in Callers : startAt'[t] = startAt[t] \/ mainAt = "user"
    BY <1>0, <1>25
    DEF clientConnects, Destructor, pollerVars, serverVars, mapVars, connVars, kernelVars,
        loopVars, turnVars, mainVars, PoolTypes
  <2> QED
    BY <1>0, <2>1, DestructorStays
<1>26. CASE clientGivesUp
  <2>1. /\ UNCHANGED <<mainAt, held, cur, loops, channels_, connections_, quit, loopAt>>
        /\ \A t \in Callers : startAt'[t] = startAt[t] \/ mainAt = "user"
    BY <1>0, <1>26
    DEF clientGivesUp, Destructor, pollerVars, serverVars, mapVars, connVars, kernelVars,
        loopVars, turnVars, mainVars, PoolTypes
  <2> QED
    BY <1>0, <2>1, DestructorStays
<1>27. ASSUME NEW c \in Conns, peerCloses(c)
      PROVE  Destructor'
  <2>1. /\ UNCHANGED <<mainAt, held, cur, loops, channels_, connections_, quit, loopAt>>
        /\ \A t \in Callers : startAt'[t] = startAt[t] \/ mainAt = "user"
    BY <1>0, <1>27
    DEF peerCloses, Destructor, pollerVars, serverVars, mapVars, connVars, kernelVars,
        loopVars, turnVars, mainVars, PoolTypes
  <2> QED
    BY <1>0, <2>1, DestructorStays
<1>28. ASSUME NEW l \in Loops, NEW c \in Conns, handleFreed(l, c)
      PROVE  Destructor'
  <2>1. /\ UNCHANGED <<mainAt, held, cur, loops, channels_, startAt, connections_>>
        /\ \E queue : Handled(l, c, queue)
    BY <1>28 DEF handleFreed, pollerVars, mapVars, serverVars, mainVars
  <2>2. /\ loopAt[l] = "events" /\ loopAt'[l] \in {"events", "functors"} /\ quit' = quit
        /\ \A k \in Loops \ {l} : loopAt'[k] = loopAt[k]
    BY <1>0, <2>1, HandledLoops
  <2>3. l = 0 => mainAt = "user"
    BY <1>0, <2>2 DEF Destructor
  <2> QED
    BY <1>0, <2>1, <2>2, <2>3, BaseLoop, DestructorStays
<1>29. ASSUME NEW l \in Loops, runSend(l)
      PROVE  Destructor'
  <2>1. /\ UNCHANGED <<mainAt, held, cur, loops, quit, loopAt, startAt, connections_>>
        /\ UNCHANGED channels_ \/ updateChannel(l, conn(l), fd[conn(l)], FALSE)
    BY <1>29 DEF runSend, StartFunctor, pollerVars, mapVars, serverVars, mainVars
  <2>2. conn(l) \in Conns /\ conn(l) \in Bound
    BY <1>0, <1>29, RunSendQueues
  <2>3. fd[conn(l)] # ListenFd
    BY <1>0, <2>2, FdsAssumption DEF ConnInv, Numbered
  <2>4. channels_'[0][ListenFd] = channels_[0][ListenFd]
    BY <1>0, <2>1, <2>3, BaseLoop DEF updateChannel, PollerTypes
  <2> QED
    BY <1>0, <2>1, <2>4, DestructorStays
<1>30. ASSUME NEW c \in Conns, testState(c) \/ queueSend(c)
      PROVE  Destructor'
  <2>1. /\ UNCHANGED <<mainAt, held, cur, loops, channels_, connections_, quit, loopAt>>
        /\ UNCHANGED startAt
    BY <1>30
    DEF testState, queueSend, pollerVars, serverVars, mapVars, loopVars, turnVars, mainVars
  <2> QED
    BY <1>0, <2>1, DestructorStays
<1>31. CASE UNCHANGED vars
  <2>1. /\ UNCHANGED <<mainAt, held, cur, loops, channels_, connections_, quit, loopAt>>
        /\ UNCHANGED startAt
    BY <1>31 DEF vars, pollerVars, serverVars, mapVars, loopVars, turnVars, mainVars
  <2> QED
    BY <1>0, <2>1, DestructorStays
<1> QED
  BY <1>1, <1>2, <1>3, <1>4, <1>5, <1>6, <1>7, <1>8, <1>9, <1>10, <1>11, <1>12,
     <1>13, <1>14, <1>15, <1>16, <1>17, <1>18, <1>19, <1>20, <1>21, <1>22,
     <1>23, <1>24, <1>25, <1>26, <1>27, <1>28, <1>29, <1>30, <1>31
  DEF Next, LoopSteps, StartSteps, DestructorSteps, UserCalls, Clients

-----------------------------------------------------------------------------
(* The invariant, and what follows from it.                                *)

LEMMA InvAtFirst == Init => Inv
<1> SUFFICES ASSUME Init
             PROVE  Inv
  OBVIOUS
<1>1. ServerInv
  BY InitServerInv
<1>2. ToEstablish = {} /\ ToRemove = {} /\ ToDestroy = {} /\ Bound = {} /\ Functors
  BY QueuesAtFirst
<1>3. /\ Mapped = {} /\ Made = {} /\ held = NoChannel /\ mainAt = "user" /\ cur = 1
      /\ \A c \in Conns : /\ index[c] = "kNew" /\ state[c] = "kConnecting"
                          /\ told[c] = "nothing" /\ connections_[c] = NoChannel
      /\ sending = {} /\ late = {} /\ dropped = {}
      /\ \A l \in Loops : /\ active[l] = {} /\ loopAt[l] = "none" /\ ~quit[l]
                          /\ \A f \in Fds : channels_[l][f] = NoChannel
  BY NoChannelIsNone DEF Init, PollerInit, Mapped, Made, Channels
<1>4. Referred = {}
  BY <1>2, <1>3, NoChannelIsNone DEF Referred
<1>5. ConnInv
  BY <1>2, <1>3, <1>4, NoChannelIsNone
  DEF ConnInv, Numbered, OwnSockets, Tables, Activated, Stages, Kept, Heard,
      HeardWhileServing
<1>6. Destructor /\ Closing
  BY <1>3 DEF Destructor, Closing, Loops
<1> QED
  BY <1>1, <1>2, <1>5, <1>6 DEF Inv, ServerInv

LEMMA AlwaysInv == Spec => []Inv
<1>1. Inv /\ [Next]_vars => Inv'
  BY NextTypes, NextStarting, NextConns, NextClosing, NextDestructor DEF Inv
<1> QED
  BY InvAtFirst, <1>1, PTL DEF Spec

\* Live is written with the whole of what can refer to a connection.
LEMMA LiveIsReferred ==
  ASSUME Inv
  PROVE  Live = Referred /\ Referred \subseteq Made /\ Made \subseteq Conns
<1>1. Made \subseteq Conns
  BY MadeAreConns DEF Inv
<1>2. Referred \subseteq Conns
  BY ReferredAreConns DEF Inv
<1>3. Referred \subseteq Made
  BY <1>2, NoChannelIsNone DEF Referred, Inv, ConnInv, Numbered
<1>4. \A c \in Conns : Alive(c) <=> c \in Referred
  BY AliveIsReferred DEF Inv, ConnInv
<1> QED
  BY <1>1, <1>3, <1>4 DEF Live

\* EPollPoller::updateChannel() and removeChannel() write and erase an entry by the
\* descriptor's number, which the kernel reuses as soon as a socket is closed: in
\* every loop a registered channel is found under its own number, and an entry that
\* points to the channel of a connection that has been freed was put there by a
\* send that ran after connectionDestroyed().
THEOREM ServerTablesAgree == Spec => []TablesAgree
<1>1. Inv => TablesAgree
  <2> SUFFICES ASSUME Inv
               PROVE  TablesAgree
    OBVIOUS
  <2>1. /\ Types /\ Numbered /\ Tables /\ Kept
        /\ Live = Referred /\ Referred \subseteq Made /\ Referred \subseteq Conns
    BY LiveIsReferred DEF Inv, ConnInv
  <2>2. ASSUME NEW c \in Live, HasPoller(loop[c])
        PROVE  index[c] # "kNew" <=> channels_[loop[c]][fd[c]] = c
    <3>1. /\ c \in Conns /\ c \in Made /\ c \in Referred
          /\ loop[c] \in Polled /\ fd[c] \in Fds
      BY <2>1, <2>2 DEF Polled, Numbered, Types, MapTypes
    <3> QED
      BY <2>1, <3>1, WaitingAreConns DEF Tables, Registered
  <2>3. ASSUME NEW l \in Loops, NEW f \in Fds, channels_[l][f] \notin late \cup {NoChannel}
        PROVE  channels_[l][f] \in Live
    <3>1. channels_[l][f] \in Conns
      BY <2>1, <2>3 DEF Tables, Types, PollerTypes, Channels
    <3>2. /\ loop[channels_[l][f]] \in Polled
          /\ index[channels_[l][f]] # "kNew"
      BY <2>1, <3>1 DEF Tables, Registered
    <3> QED
      BY <2>1, <2>3, <3>1, <3>2, KeptIsReferred
  <2> QED
    BY <2>2, <2>3 DEF TablesAgree
<1> QED
  BY <1>1, AlwaysInv, PTL

\* The user is told of the end of every connection that came up before its last
\* reference goes, unless it has shut it down itself or the loop stopped with
\* connectionDestroyed() in its queue: also when handleClose(), the removal in the
\* base loop and ~TcpServer() overtake each other.
THEOREM ServerSilentOnlyWhenStopped == Spec => []SilentOnlyWhenStopped
<1>1. Inv => SilentOnlyWhenStopped
  <2> SUFFICES ASSUME Inv, NEW c \in Made \ Live
               PROVE  told[c] = "down" \/ state[c] = "kDisconnecting" \/ c \in dropped
    BY DEF SilentOnlyWhenStopped
  <2>1. c \in Conns /\ c \notin Mapped /\ c \notin Bound
    BY LiveIsReferred DEF Referred
  <2>2. c \notin ToDestroy
    BY <2>1, WaitingAreBound DEF Inv
  <2> QED
    BY <2>1, <2>2 DEF Inv, ConnInv, Heard
<1> QED
  BY <1>1, AlwaysInv, PTL

\* When the destructor of TcpServer returns, all threads of the pool have been
\* joined and the base loop's poller, which outlives it, has neither the
\* acceptor's channel nor any connection's but one that a late send has put back.
THEOREM ServerIsNotCalledAfterwards == Spec => []NothingCallsDestroyedServer
<1>1. Inv => NothingCallsDestroyedServer
  <2> SUFFICES ASSUME Inv, mainAt = "destroyed"
               PROVE  /\ \A l \in 1 .. loops : loopAt[l] = "stopped"
                      /\ \A f \in Fds \cup {ListenFd} :
                           channels_[0][f] \in late \cup {NoChannel}
    BY DEF NothingCallsDestroyedServer
  <2>1. /\ Types /\ Functors /\ Tables /\ Kept /\ 0 \in Loops
        /\ loopAt[0] = "stopped" /\ cur > loops /\ channels_[0][ListenFd] = NoChannel
        /\ \A n \in Conns : connections_[n] = NoChannel
        /\ \A l \in Loops \ {0} : l < cur /\ l <= loops => loopAt[l] = "stopped"
    BY BaseLoop DEF Inv, ConnInv, Destructor
  <2>2. ASSUME NEW l \in 1 .. loops
        PROVE  loopAt[l] = "stopped"
    <3>1. l \in Loops \ {0} /\ l < cur /\ l <= loops
      BY <2>1, BoundsAssumption DEF Types, MainTypes, PoolTypes, Loops
    <3> QED
      BY <2>1, <3>1
  <2>3. ASSUME NEW f \in Fds, channels_[0][f] \notin late \cup {NoChannel}
        PROVE  FALSE
    <3> DEFINE c == channels_[0][f]
    <3>1. /\ c \in Conns /\ loop[c] = 0 /\ index[c] # "kNew" /\ 0 \in Polled
          /\ c \notin late
      BY <2>1, <2>3 DEF Tables, Registered, Types, PollerTypes, Channels
    <3>2. c \notin Mapped
      BY <2>1, <3>1, NoChannelIsNone DEF Mapped
    <3>3. c \notin ToRemove /\ c \notin ToDestroy
      BY <2>1, <3>1, EmptyQueue
      DEF ToRemove, ToDestroy, Waiting, Functors, Batches, Orderly, InPlace, AtBase
    <3> QED
      BY <2>1, <3>1, <3>2, <3>3 DEF Kept
  <2> QED
    BY <2>1, <2>2, <2>3
<1> QED
  BY <1>1, AlwaysInv, PTL
=============================================================================
