----------------------------- MODULE TcpServer ------------------------------
(***************************************************************************)
(* TcpServer with its Acceptor, the loops' pollers and many connections:   *)
(* start(), the base loop that accepts connections and deals them out, the *)
(* io loops that establish and close them, their removal from the map, and *)
(* the server's destruction after the base loop has returned.              *)
(*                                                                         *)
(* Loop 0 is the base loop and loops 1, 2, ... those of the pool; without  *)
(* any the base loop is everybody's io loop. A turn of a loop handles the  *)
(* events of one poll, then the functors that are queued at the swap. Of   *)
(* what a connection does between up and down (module TcpConnection) only  *)
(* that is here which reaches the poller's tables: the sends of other      *)
(* threads, which may run when the connection has been destroyed.          *)
(***************************************************************************)
EXTENDS EPollPoller, Sequences

CONSTANTS
  MaxThreads,    \* the largest argument of setThreadNum
  MaxConns,      \* bound: how many clients connect
  MaxRemovals,   \* bound: removals of one connection that are under way
  MaxSends,      \* bound: sends of one connection that are queued
  TalkFds,       \* bound: other threads send on the connections that have these
  Callers,       \* the threads that call start()
  BaseThread,    \* the one among them that owns the base loop
  Fds,           \* the descriptors accept4() may return
  FreeSets,      \* the sets of them that may be free when the server starts
  ListenFd       \* the acceptor's

ASSUME BoundsAssumption == {MaxThreads, MaxConns, MaxRemovals, MaxSends} \subseteq Nat
ASSUME CallersAssumption == BaseThread \in Callers
ASSUME FdsAssumption ==
  Fds \subseteq Nat /\ ListenFd \notin Fds /\ FreeSets \subseteq SUBSET Fds
ASSUME ChannelsAssumption == NoChannel \notin 0 .. MaxConns

Loops == 0 .. MaxThreads
Conns == 1 .. MaxConns

\* The channels: the acceptor's and one per connection.
Acceptor == 0
Channels == {Acceptor} \cup Conns

VARIABLES
  \* TcpServer, EventLoopThreadPool and the threads in start()
  numThreads,
  started,       \* started_ is not zero
  loops,         \* how many loops the pool's loops_ holds
  next,          \* the pool's next_
  nextConnId,
  connections_,  \* the connection of each name, or NoChannel
  startAt,       \* where each caller is in start()
  \* the connections
  made,          \* how many have been constructed: 1, 2, ... made
  name, loop, fd, state,
  told,          \* what the last connection callback said
  ends,          \* history: how many connection callbacks have said "down"
  sending,       \* connections that another thread is about to queue a send for
  late,          \* history: a send has registered the channel again after its removal
  closed,        \* the peer has closed its side
  \* the kernel
  free,          \* the descriptors that are free but for the connections'
  waiting,       \* clients that wait to be accepted
  \* the loops
  loopAt,
  active,        \* activeChannels_ that have not been handled
  pending,       \* pendingFunctors_
  running,       \* doPendingFunctor's local vector, what has run included
  taken,         \* how many functors of it have been started
  quit,
  \* the base loop's thread in ~TcpServer()
  mainAt,
  held,          \* the local conn
  cur,           \* the thread of the pool that is being joined
  dropped        \* history: connectionDestroyed was queued and never ran

serverVars == <<numThreads, started, loops, next, startAt>>
mapVars == <<nextConnId, connections_, made, name, loop, fd>>
sendVars == <<sending, late>>
connVars == <<state, told, ends, sendVars>>
kernelVars == <<closed, free, waiting>>
turnVars == <<loopAt, active, running, taken>>
loopVars == <<turnVars, pending, quit>>
mainVars == <<mainAt, held, cur, dropped>>
vars == <<pollerVars, serverVars, mapVars, connVars, kernelVars, loopVars, mainVars>>

Functor(f, c) == [do |-> f, conn |-> c]

Init ==
  /\ PollerInit(Loops, Channels, Fds \cup {ListenFd})
  /\ numThreads = 0 /\ started = FALSE /\ loops = 0 /\ next = 0
  /\ nextConnId = 1
  /\ connections_ = [n \in Conns |-> NoChannel]
  /\ startAt = [s \in Callers |-> "out"]
  /\ made = 0
  /\ name = [c \in Conns |-> 0] /\ loop = [c \in Conns |-> 0]
  /\ fd = [c \in Conns |-> ListenFd]
  /\ state = [c \in Conns |-> "kConnecting"]
  /\ told = [c \in Conns |-> "nothing"] /\ ends = [c \in Conns |-> 0]
  /\ sending = {} /\ late = {}
  /\ closed = {}
  /\ free \in FreeSets
  /\ waiting = 0
  /\ loopAt = [l \in Loops |-> "none"]
  /\ active = [l \in Loops |-> {}]
  /\ pending = [l \in Loops |-> <<>>] /\ running = [l \in Loops |-> <<>>]
  /\ taken = [l \in Loops |-> 0]
  /\ quit = [l \in Loops |-> FALSE]
  /\ mainAt = "user" /\ held = NoChannel /\ cur = 1 /\ dropped = {}

-----------------------------------------------------------------------------
(* References: the map, the functors and ~TcpServer's local conn hold a    *)
(* TcpConnectionPtr. The last one closes the socket. The functor of a send *)
(* is bound to a raw pointer; the user who called send() is taken to keep  *)
(* the connection until the functor's batch has gone.                      *)

Holds(s, c) == \E i \in DOMAIN s : s[i].conn = c

Alive(c) ==
  \/ \E n \in Conns : connections_[n] = c
  \/ \E l \in Loops : Holds(pending[l], c) \/ Holds(running[l], c)
  \/ held = c
  \/ c \in sending

Made == 1 .. made
Live == {c \in Made : Alive(c)}
FreeFds == free \ {fd[c] : c \in Live}

\* A loop takes its poller and its queue with it.
HasPoller(l) == IF l = 0 THEN mainAt # "ended" ELSE loopAt[l] # "stopped"

Queue(l, f) == pending' = [pending EXCEPT ![l] = Append(@, f)]

\* How many functors f wait in the queue of loop l.
Queued(l, f) == Cardinality({i \in DOMAIN pending[l] : pending[l][i] = f})

-----------------------------------------------------------------------------
(* setThreadNum() and start(), which any thread may call.                  *)

\* The user calls it before start() and loop(), which the code does not test.
setThreadNum(n) ==
  /\ ~started /\ loopAt[0] = "none"
  /\ numThreads' = n
  /\ UNCHANGED <<pollerVars, started, loops, next, startAt, mapVars, connVars,
                 kernelVars, loopVars, mainVars>>

\* The base loop's thread calls it before loop().
Begin(s, place) ==
  /\ mainAt = "user" /\ startAt[s] = "out"
  /\ s = BaseThread => loopAt[0] = "none"
  /\ started' = TRUE
  /\ startAt' = [startAt EXCEPT ![s] = place]
  /\ UNCHANGED <<pollerVars, numThreads, loops, next, mapVars, connVars,
                 kernelVars, loopVars, mainVars>>

\* Mutation: the count is not looked at.
startAlways(s) == Begin(s, "pool")

start(s) == Begin(s, IF started THEN "out" ELSE "pool")

\* EventLoopThreadPool::start() returns loops that are ready.
startPool(s) ==
  /\ startAt[s] = "pool"
  /\ startAt' = [startAt EXCEPT ![s] = "listen"]
  /\ loops' = loops + numThreads
  /\ loopAt' = [l \in Loops |-> IF l \in loops + 1 .. loops + numThreads
                                THEN "idle" ELSE loopAt[l]]
  /\ UNCHANGED <<pollerVars, numThreads, started, next, mapVars, connVars,
                 kernelVars, active, running, taken, pending, quit, mainVars>>

\* Acceptor::listen() runs at once or is queued in the base loop.
listen == updateChannel(0, Acceptor, ListenFd, FALSE)

startListening(s) ==
  /\ startAt[s] = "listen"
  /\ startAt' = [startAt EXCEPT ![s] = "out"]
  /\ IF s = BaseThread THEN listen /\ UNCHANGED pending
                       ELSE Queue(0, Functor("listen", Acceptor)) /\ UNCHANGED pollerVars
  /\ UNCHANGED <<numThreads, started, loops, next, mapVars, connVars, kernelVars,
                 turnVars, quit, mainVars>>

-----------------------------------------------------------------------------
(* A loop's turn.                                                          *)

enterLoop ==
  /\ mainAt = "user" /\ loopAt[0] = "none"
  /\ startAt[BaseThread] = "out"
  /\ loopAt' = [loopAt EXCEPT ![0] = "idle"]
  /\ UNCHANGED <<pollerVars, serverVars, mapVars, connVars, kernelVars, active,
                 running, taken, pending, quit, mainVars>>

Removals(c) == Queued(0, Functor("remove", c))

\* The wakeup channel is ready when there are functors or quit() was called, and
\* takes a place among the events.
Wakeup == NoChannel

\* An end of stream stays ready, and removes the connection each time, until
\* the channel is removed or its descriptor closed, which takes it out of epoll.
Ready(l) ==
  {c \in closed : /\ index[c] = "kAdded" /\ loop[c] = l
                  /\ Removals(c) < MaxRemovals /\ Alive(c)}
    \cup {a \in {Acceptor} : l = 0 /\ index[a] = "kAdded" /\ waiting > 0}
    \cup {w \in {Wakeup} : pending[l] # <<>> \/ quit[l]}

swapFunctors(l, queue) ==
  /\ running' = [running EXCEPT ![l] = queue[l]]
  /\ pending' = [queue EXCEPT ![l] = <<>>]

pollEvents(l) ==
  /\ loopAt[l] = "idle" /\ Ready(l) # {}
  /\ \E events \in SUBSET Ready(l) :
       /\ poll(l, Ready(l), events)
       /\ active' = [active EXCEPT ![l] = events \ {Wakeup}]
  /\ IF active'[l] = {} THEN /\ swapFunctors(l, pending)
                             /\ loopAt' = [loopAt EXCEPT ![l] = "functors"]
                        ELSE /\ loopAt' = [loopAt EXCEPT ![l] = "events"]
                             /\ UNCHANGED <<running, pending>>
  /\ UNCHANGED <<serverVars, mapVars, connVars, kernelVars, taken, quit, mainVars>>

\* After the last event doPendingFunctor() is next.
Handled(l, ch, queue) ==
  /\ loopAt[l] = "events" /\ ch \in active[l]
  /\ active' = [active EXCEPT ![l] = @ \ {ch}]
  /\ IF active[l] = {ch}
     THEN /\ swapFunctors(l, queue)
          /\ loopAt' = [loopAt EXCEPT ![l] = "functors"]
     ELSE pending' = queue /\ UNCHANGED <<running, loopAt>>
  /\ UNCHANGED <<taken, quit>>

\* The batch goes, and with it the references its functors hold; then the loop
\* tests quit_. A loop of the pool is destroyed with what is left in its queue.
endOfFunctors(l) ==
  /\ loopAt[l] = "functors" /\ taken[l] = Len(running[l])
  /\ running' = [running EXCEPT ![l] = <<>>]
  /\ taken' = [taken EXCEPT ![l] = 0]
  /\ loopAt' = [loopAt EXCEPT ![l] = IF quit[l] THEN "stopped" ELSE "idle"]
  /\ IF quit[l] /\ l # 0
     THEN /\ pending' = [pending EXCEPT ![l] = <<>>]
          /\ channels_' = [channels_ EXCEPT ![l] = [f \in DOMAIN @ |-> NoChannel]]
          /\ dropped' = dropped \cup
               {c \in Conns : \E i \in DOMAIN pending[l] :
                                pending[l][i].conn = c /\ pending[l][i].do # "send"}
     ELSE UNCHANGED <<pending, channels_, dropped>>
  /\ UNCHANGED <<index, eventListSize, serverVars, mapVars, connVars, kernelVars,
                 active, quit, mainAt, held, cur>>

-----------------------------------------------------------------------------
(* Acceptor::handleRead() and newConnection().                             *)

getNextLoop == IF loops = 0 THEN 0 ELSE next + 1

\* Mutation: next_ is compared with the number of loops one turn too late.
advanceNextLate == IF next + 1 > loops THEN 0 ELSE next + 1

advanceNext == IF next + 1 >= loops THEN 0 ELSE next + 1

nextId == nextConnId + 1

\* connectEstablished(), in the connection's loop; tie() has nothing to do here.
connectEstablished(c) ==
  /\ state' = [state EXCEPT ![c] = "kConnected"]
  /\ told' = [told EXCEPT ![c] = "up"]
  /\ updateChannel(loop'[c], c, fd'[c], FALSE)
  /\ UNCHANGED <<ends, sendVars>>

newConnection(f) ==
  LET c == made + 1
      l == getNextLoop
  IN  /\ made' = c
      /\ next' = IF loops = 0 THEN next ELSE advanceNext
      /\ name' = [name EXCEPT ![c] = nextConnId]
      /\ nextConnId' = nextId
      /\ loop' = [loop EXCEPT ![c] = l]
      /\ fd' = [fd EXCEPT ![c] = f]
      /\ connections_' = [connections_ EXCEPT ![nextConnId] = c]
      /\ IF l = 0
         THEN connectEstablished(c) /\ Handled(0, Acceptor, pending)
         ELSE /\ Handled(0, Acceptor, [pending EXCEPT ![l] = Append(@, Functor("establish", c))])
              /\ UNCHANGED <<pollerVars, connVars>>

\* accept4() returns the smallest free descriptor.
accept4(f) == waiting > 0 /\ f \in FreeFds /\ \A g \in FreeFds : f <= g

\* A descriptor that is zero is taken for an error and never closed.
handleRead ==
  \E f \in Fds :
    /\ accept4(f)
    /\ waiting' = waiting - 1
    /\ IF f > 0
       THEN newConnection(f) /\ UNCHANGED free
       ELSE /\ free' = free \ {f}
            /\ Handled(0, Acceptor, pending)
            /\ UNCHANGED <<pollerVars, next, mapVars, connVars>>
    /\ UNCHANGED <<numThreads, started, loops, startAt, closed, mainVars>>

\* Mutation: without a descriptor the acceptor stops reading.
handleReadFailsForGood ==
  /\ FreeFds = {} \/ waiting = 0
  /\ Handled(0, Acceptor, pending)
  /\ updateChannel(0, Acceptor, ListenFd, TRUE)
  /\ UNCHANGED <<serverVars, mapVars, connVars, kernelVars, mainVars>>

\* EMFILE, or EAGAIN when the client has given up: an entry in the log.
handleReadFails ==
  /\ FreeFds = {} \/ waiting = 0
  /\ Handled(0, Acceptor, pending)
  /\ UNCHANGED <<pollerVars, serverVars, mapVars, connVars, kernelVars, mainVars>>

-----------------------------------------------------------------------------
(* The end of a connection.                                                *)

\* Mutation: the callback is not called.
reportNothing(c) == UNCHANGED <<told, ends, sendVars>>

\* connectionCallback_ in any state but kConnected.
reportDown(c) ==
  /\ told' = [told EXCEPT ![c] = "down"]
  /\ ends' = [ends EXCEPT ![c] = @ + 1]
  /\ UNCHANGED sendVars

\* Mutation: a channel is removed only if the connection has not been shut down.
destroyedIfConnected(c) ==
  IF state[c] = "kConnected"
  THEN /\ state' = [state EXCEPT ![c] = "kDisconnected"]
       /\ reportDown(c)
       /\ removeChannel(loop[c], c, fd[c])
  ELSE UNCHANGED <<pollerVars, connVars>>

\* connectionDestroyed(), after which its channel has left the poller.
connectionDestroyed(c) ==
  /\ IF state[c] = "kConnected"
     THEN state' = [state EXCEPT ![c] = "kDisconnected"] /\ reportDown(c)
     ELSE UNCHANGED connVars
  /\ removeChannel(loop[c], c, fd[c])

removeConnectionInLoop(c) ==
  /\ connections_' = [connections_ EXCEPT ![name[c]] = NoChannel]
  /\ UNCHANGED <<nextConnId, made, name, loop, fd>>

\* handleRead() sees the end of the stream. removeConnectionInLoop() runs in the
\* base loop, at once if that is the connection's own.
handleClose(l, c) ==
  /\ loopAt[l] = "events" /\ c \in active[l] /\ Alive(c)
  /\ state' = [state EXCEPT ![c] = "kDisconnecting"]
  /\ reportDown(c)
  /\ IF l = 0
     THEN /\ removeConnectionInLoop(c)
          /\ Handled(l, c, [pending EXCEPT ![l] = Append(@, Functor("destroy", c))])
     ELSE /\ Handled(l, c, [pending EXCEPT ![0] = Append(@, Functor("remove", c))])
          /\ UNCHANGED mapVars
  /\ UNCHANGED <<pollerVars, serverVars, kernelVars, mainVars>>

\* A channel that a late send has registered may be freed with its connection
\* before its event is handled. If the process survives it, the guard of
\* handleEvent() is empty and nothing is called.
handleFreed(l, c) ==
  /\ c \in active[l] /\ ~Alive(c)
  /\ Handled(l, c, pending)
  /\ UNCHANGED <<pollerVars, serverVars, mapVars, connVars, kernelVars, mainVars>>

-----------------------------------------------------------------------------
(* The functors.                                                           *)

StartFunctor(l, f) ==
  /\ loopAt[l] = "functors" /\ taken[l] < Len(running[l])
  /\ running[l][taken[l] + 1].do = f
  /\ taken' = [taken EXCEPT ![l] = @ + 1]
  /\ UNCHANGED <<serverVars, kernelVars, loopAt, active, running, quit, mainVars>>

conn(l) == running[l][taken[l] + 1].conn

runListen ==
  /\ StartFunctor(0, "listen")
  /\ listen
  /\ UNCHANGED <<mapVars, connVars, pending>>

runEstablished(l) ==
  /\ StartFunctor(l, "establish")
  /\ UNCHANGED <<mapVars, pending>>
  /\ connectEstablished(conn(l))

runRemoval ==
  /\ StartFunctor(0, "remove")
  /\ removeConnectionInLoop(conn(0))
  /\ Queue(loop[conn(0)], Functor("destroy", conn(0)))
  /\ UNCHANGED <<pollerVars, connVars>>

runDestroyed(l) ==
  /\ StartFunctor(l, "destroy")
  /\ connectionDestroyed(conn(l))
  /\ UNCHANGED <<mapVars, pending>>

\* sendInLoop() gives up in kDisconnected only. What write() does not take makes
\* it call enableReading(), which changes nothing unless the channel has been
\* removed: then it is registered once more.
runSend(l) ==
  /\ StartFunctor(l, "send")
  /\ \/ UNCHANGED <<pollerVars, late>>
     \/ /\ state[conn(l)] # "kDisconnected"
        /\ updateChannel(l, conn(l), fd[conn(l)], FALSE)
        /\ late' = IF index[conn(l)] = "kNew" THEN late \cup {conn(l)} ELSE late
  /\ UNCHANGED <<mapVars, state, told, ends, sending, pending>>

-----------------------------------------------------------------------------
(* ~TcpServer(), after the base loop has returned.                         *)

destroyServer ==
  /\ mainAt = "user" /\ loopAt[0] = "stopped"
  /\ \A s \in Callers : startAt[s] = "out"
  /\ mainAt' = "connections"
  /\ UNCHANGED <<pollerVars, serverVars, mapVars, connVars, kernelVars, loopVars,
                 held, cur, dropped>>

\* Mutation: the map's references are dropped and nothing else.
dropConnection(n) ==
  /\ mainAt = "connections" /\ held = NoChannel
  /\ connections_[n] # NoChannel
  /\ held' = connections_[n]
  /\ connections_' = [connections_ EXCEPT ![n] = NoChannel]
  /\ UNCHANGED <<pollerVars, serverVars, nextConnId, made, name, loop, fd, connVars,
                 kernelVars, loopVars, mainAt, cur, dropped>>

destroyConnection(n) ==
  /\ mainAt = "connections" /\ held = NoChannel
  /\ connections_[n] # NoChannel
  /\ held' = connections_[n]
  /\ connections_' = [connections_ EXCEPT ![n] = NoChannel]
  /\ IF loop[connections_[n]] = 0
     THEN connectionDestroyed(connections_[n]) /\ UNCHANGED pending
     ELSE /\ Queue(loop[connections_[n]], Functor("destroy", connections_[n]))
          /\ UNCHANGED <<pollerVars, connVars>>
  /\ UNCHANGED <<serverVars, nextConnId, made, name, loop, fd, kernelVars, turnVars,
                 quit, mainAt, cur, dropped>>

Main(from, to) ==
  /\ mainAt = from
  /\ mainAt' = to
  /\ UNCHANGED <<serverVars, mapVars, connVars, kernelVars, turnVars>>

releaseConn ==
  /\ Main("connections", "connections")
  /\ held # NoChannel
  /\ held' = NoChannel
  /\ UNCHANGED <<pollerVars, pending, quit, cur, dropped>>

endOfConnections ==
  /\ Main("connections", "pool")
  /\ held = NoChannel /\ \A n \in Conns : connections_[n] = NoChannel
  /\ UNCHANGED <<pollerVars, pending, quit, held, cur, dropped>>

\* threadPool_ goes first: each thread is asked to quit and joined.
quitLoop ==
  /\ Main("pool", "join")
  /\ cur <= loops
  /\ quit' = [quit EXCEPT ![cur] = TRUE]
  /\ UNCHANGED <<pollerVars, pending, held, cur, dropped>>

\* Mutation: the thread is detached.
joinNobody ==
  /\ Main("join", "pool")
  /\ cur' = cur + 1
  /\ UNCHANGED <<pollerVars, pending, quit, held, dropped>>

join ==
  /\ Main("join", "pool")
  /\ loopAt[cur] = "stopped"
  /\ cur' = cur + 1
  /\ UNCHANGED <<pollerVars, pending, quit, held, dropped>>

\* Then acceptor_; the members in between are values.
destroyAcceptor ==
  /\ Main("pool", "destroyed")
  /\ cur > loops
  /\ removeChannel(0, Acceptor, ListenFd)
  /\ UNCHANGED <<pending, quit, held, cur, dropped>>

\* The base loop follows, with what was left in its queue.
destroyBaseLoop ==
  /\ Main("destroyed", "ended")
  /\ pending' = [pending EXCEPT ![0] = <<>>]
  /\ channels_' = [channels_ EXCEPT ![0] = [f \in DOMAIN @ |-> NoChannel]]
  /\ UNCHANGED <<index, eventListSize, quit, held, cur, dropped>>

-----------------------------------------------------------------------------
(* The user, the clients and the peers.                                    *)

\* shutdown(), seen from here.
shutdown(c) ==
  /\ told[c] = "up" /\ Alive(c) /\ state[c] = "kConnected"
  /\ state' = [state EXCEPT ![c] = "kDisconnecting"]
  /\ UNCHANGED <<pollerVars, serverVars, mapVars, told, ends, sendVars, kernelVars,
                 loopVars, mainVars>>

\* send() of a thread that is not the connection's loop: the state is tested,
\* and the functor is queued later.
testState(c) ==
  /\ fd[c] \in TalkFds /\ told[c] # "nothing" /\ Alive(c) /\ c \notin sending
  /\ state[c] = "kConnected"
  /\ Queued(loop[c], Functor("send", c)) < MaxSends
  /\ sending' = sending \cup {c}
  /\ UNCHANGED <<pollerVars, serverVars, mapVars, state, told, ends, late, kernelVars,
                 loopVars, mainVars>>

queueSend(c) ==
  /\ c \in sending /\ HasPoller(loop[c])
  /\ sending' = sending \ {c}
  /\ Queue(loop[c], Functor("send", c))
  /\ UNCHANGED <<pollerVars, serverVars, mapVars, state, told, ends, late, kernelVars,
                 turnVars, quit, mainVars>>

quitBaseLoop ==
  /\ loopAt[0] \notin {"none", "stopped"} /\ ~quit[0]
  /\ quit' = [quit EXCEPT ![0] = TRUE]
  /\ UNCHANGED <<pollerVars, serverVars, mapVars, connVars, kernelVars, turnVars,
                 pending, mainVars>>

clientConnects ==
  /\ index[Acceptor] = "kAdded"
  /\ made + waiting < MaxConns
  /\ waiting' = waiting + 1
  /\ UNCHANGED <<pollerVars, serverVars, mapVars, connVars, closed, free, loopVars,
                 mainVars>>

clientGivesUp ==
  /\ waiting > 0
  /\ waiting' = waiting - 1
  /\ UNCHANGED <<pollerVars, serverVars, mapVars, connVars, closed, free, loopVars,
                 mainVars>>

peerCloses(c) ==
  /\ c \in Live \ closed
  /\ closed' = closed \cup {c}
  /\ UNCHANGED <<pollerVars, serverVars, mapVars, connVars, free, waiting, loopVars,
                 mainVars>>

-----------------------------------------------------------------------------
LoopSteps(l) ==
  \/ pollEvents(l)
  \/ l = 0 /\ (handleRead \/ handleReadFails \/ runListen \/ runRemoval)
  \/ \E c \in Conns : handleClose(l, c) \/ handleFreed(l, c)
  \/ runEstablished(l)
  \/ runDestroyed(l)
  \/ runSend(l)
  \/ endOfFunctors(l)

StartSteps(s) == startPool(s) \/ startListening(s)

DestructorSteps ==
  \/ \E n \in Conns : destroyConnection(n)
  \/ releaseConn
  \/ endOfConnections
  \/ quitLoop
  \/ join
  \/ destroyAcceptor
  \/ destroyBaseLoop

UserCalls ==
  \/ \E n \in Loops : setThreadNum(n)
  \/ \E s \in Callers : start(s)
  \/ enterLoop
  \/ \E c \in Conns : shutdown(c) \/ testState(c) \/ queueSend(c)
  \/ quitBaseLoop
  \/ destroyServer

Clients == clientConnects \/ clientGivesUp \/ \E c \in Conns : peerCloses(c)

Next ==
  \/ \E l \in Loops : LoopSteps(l)
  \/ \E s \in Callers : StartSteps(s)
  \/ DestructorSteps
  \/ UserCalls
  \/ Clients

Fairness ==
  /\ \A l \in Loops : WF_vars(LoopSteps(l))
  /\ \A s \in Callers : WF_vars(StartSteps(s))
  /\ \A c \in Conns : WF_vars(queueSend(c))

Spec == Init /\ [][Next]_vars

FairSpec == Spec /\ Fairness

-----------------------------------------------------------------------------
TypeOK ==
  /\ index \in [Channels -> {"kNew", "kAdded", "kDeleted"}]
  /\ channels_ \in [Loops -> [Fds \cup {ListenFd} -> Channels \cup {NoChannel}]]
  /\ \A l \in Loops : eventListSize[l] \in Nat \ {0}
  /\ numThreads \in Loops /\ started \in BOOLEAN
  /\ loops \in Loops
  \* getNextLoop() never leaves next_ outside loops_
  /\ next \in Nat /\ (next = 0 \/ next < loops)
  /\ nextConnId \in 1 .. MaxConns + 1
  /\ connections_ \in [Conns -> Conns \cup {NoChannel}]
  /\ startAt \in [Callers -> {"out", "pool", "listen"}]
  /\ made \in 0 .. MaxConns
  /\ name \in [Conns -> 0 .. MaxConns] /\ loop \in [Conns -> Loops]
  /\ fd \in [Conns -> Fds \cup {ListenFd}]
  /\ state \in [Conns -> {"kConnecting", "kConnected", "kDisconnecting", "kDisconnected"}]
  /\ told \in [Conns -> {"nothing", "up", "down"}] /\ ends \in [Conns -> Nat]
  /\ sending \subseteq Conns /\ late \subseteq Conns
  /\ closed \subseteq Conns /\ free \subseteq Fds /\ waiting \in 0 .. MaxConns
  /\ loopAt \in [Loops -> {"none", "idle", "events", "functors", "stopped"}]
  /\ active \in [Loops -> SUBSET Channels]
  /\ taken \in [Loops -> Nat] /\ quit \in [Loops -> BOOLEAN]
  /\ mainAt \in {"user", "connections", "pool", "join", "destroyed", "ended"}
  /\ held \in Conns \cup {NoChannel} /\ cur \in 1 .. MaxThreads + 1
  /\ dropped \subseteq Conns

\* The table of descriptors, which is written and erased by number, is right
\* although the numbers are reused: a registered channel is found under its
\* own, and an entry that points to the channel of a connection that has been
\* freed was put there by a send that ran after connectionDestroyed().
TablesAgree ==
  /\ \A c \in Live : HasPoller(loop[c]) =>
       (index[c] # "kNew" <=> channels_[loop[c]][fd[c]] = c)
  /\ \A l \in Loops, f \in Fds : channels_[l][f] \in Live \cup late \cup {NoChannel}

\* However many threads call start(), the pool is started once, and the acceptor
\* is not registered before newConnection() has all the loops to choose from.
ListensWhenReady ==
  /\ loops \in {0, numThreads}
  /\ index[Acceptor] = "kAdded" =>
       loops = numThreads /\ \A l \in 1 .. loops : loopAt[l] # "none"

\* The user hears of the end of every connection that came up, unless it shut
\* the connection down itself or the loop stopped with connectionDestroyed() in
\* its queue.
SilentOnlyWhenStopped ==
  \A c \in Made \ Live :
    told[c] = "down" \/ state[c] = "kDisconnecting" \/ c \in dropped

\* When ~TcpServer() returns nothing can call the server any more: the loops of
\* the pool have stopped, and no channel is left in the base loop's poller but
\* one that a late send has put back. The functors that carry the server are in
\* the queue of a loop that is not run.
NothingCallsDestroyedServer ==
  mainAt = "destroyed" =>
    /\ \A l \in 1 .. loops : loopAt[l] = "stopped"
    /\ \A f \in Fds \cup {ListenFd} : channels_[0][f] \in late \cup {NoChannel}

\* Seen from the user every connection lives as ConnectionLife says, which counts
\* the reports of its end: a level-triggered end of stream repeats them.
LifeOf(c) == IF c \notin Made THEN "none"
             ELSE IF ~Alive(c) THEN "freed"
             ELSE IF told[c] = "nothing" THEN "accepted" ELSE told[c]

Life == INSTANCE ConnectionLife
          WITH life <- [c \in Conns |-> LifeOf(c)], lost <- closed,
               stopping <- (mainAt # "user")

ImplementsLife == Life!Spec

Serving == loopAt[0] # "none" /\ ~quit[0]

\* A connection whose peer has closed it is freed, and its descriptor with it,
\* unless the server is stopped: also while the acceptor is ready all the time.
ClosedIsFreed == \A c \in Conns : c \in closed ~> ~Alive(c) \/ ~Serving

\* When the server has run out of descriptors and its connections are then
\* closed, the clients that wait are accepted.
WaitingIsAccepted ==
  []<>(waiting = 0 \/ ~(Live \subseteq closed) \/ free = {} \/ ~Serving)
=============================================================================
