--------------------------- MODULE TcpConnection ----------------------------
(***************************************************************************)
(* One TcpConnection with its Channel, from TcpServer::newConnection to    *)
(* the destructor: the io loop that runs its handlers, the base loop that  *)
(* removes it from the server, the user's threads that call send() and     *)
(* shutdown(), and the peer at the other end of the socket.                *)
(*                                                                         *)
(* Each loop's queue is first in, first out (module FunctorQueue). Objects *)
(* live as long as something refers to them (Refs); functors bound to a    *)
(* raw this pointer do not. Once the process has been killed by SIGPIPE or *)
(* has touched a destroyed object nothing more is said about it: loopAt is *)
(* "aborted".                                                              *)
(***************************************************************************)
EXTENDS Naturals, Sequences

CONSTANTS
  Users,        \* the user's threads, none of which owns the io loop
  IoLoop,       \* the caller that is the io loop's thread, in callbacks
  MaxCalls,     \* bound: calls of send and shutdown by each user thread
  MaxLoopCalls, \* bound: calls of send and shutdown in callbacks
  Lengths,      \* bound: the lengths of a string that is sent, in bytes
  MaxUnread,    \* bound: the messages that fit in the receive buffer
  MaxRemovals   \* bound: the io loop does not run further ahead of the base loop

ASSUME IoLoopAssumption == IoLoop \notin Users
ASSUME BoundsAssumption ==
  {MaxCalls, MaxLoopCalls, MaxUnread, MaxRemovals} \subseteq Nat /\ Lengths \subseteq Nat

Callers == Users \cup {IoLoop}

VARIABLES
  \* TcpConnection and Channel
  state,        \* state_
  interest,     \* the channel's events_
  index,        \* the channel's index_; the poller watches the fd iff kAdded
  outBuf,       \* outputBuffer_
  \* the socket and the peer
  shut,         \* SHUT_WR has been called
  wire,         \* history: the bytes the kernel has taken
  received,     \* messages that have arrived and are unread
  fin,          \* the peer has closed its side
  rst,          \* the peer has reset the connection
  sockErr,      \* SO_ERROR is pending
  \* the io loop
  loopAt,       \* where its thread is
  revents,      \* the events that remain to be handled
  pending,      \* pendingFunctors_, for this connection
  running,      \* doPendingFunctor's local vector, what has run included
  taken,        \* how many functors of it have been started
  \* TcpServer and the base loop
  oneLoop,      \* the io loop is the base loop: a server without threads
  inMap,        \* connections_ holds the connection
  removals,     \* removeConnectionInLoop functors queued in the base loop
  serverGone,   \* ~TcpServer has run
  \* the callers
  at,           \* where each user thread is in a call
  calls,        \* how many calls each caller has made
  holders,      \* the user threads that hold a TcpConnectionPtr
  told,         \* history: what the last connection callback said
  accepted,     \* history: the number of bytes sendInLoop has been given
  shutBy        \* history: the callers whose shutdownInLoop has run

connVars == <<state, interest, index>>
outVars == <<outBuf, wire, accepted>>
peerVars == <<received, fin, rst>>
loopVars == <<loopAt, revents, pending, running, taken>>
serverVars == <<oneLoop, inMap, removals, serverGone>>
userVars == <<at, calls, holders>>
vars == <<connVars, outVars, shut, peerVars, sockErr, loopVars, serverVars,
          userVars, told, shutBy>>

States == {"kDisconnected", "kConnecting", "kConnected", "kDisconnecting"}

LoopPoints == {"idle", "dispatch", "event", "functors", "up", "message",
               "down", "destroying", "destroyed", "complete", "aborted", "stopped"}

\* What append() copies from behind the end of the caller's string.
Junk == 0

Established == [kind |-> "established"]
Destroyed == [kind |-> "destroyed"]
WriteComplete == [kind |-> "writeComplete"]
Send(u, len) == [kind |-> "send", by |-> u, len |-> len]
Shutdown(u) == [kind |-> "shutdown", by |-> u]

\* newConnection() has put the connection in the map and has handed
\* connectEstablished to the io loop. With one loop it runs at once there,
\* which is no different: nobody else knows the connection yet.
Init ==
  /\ state = "kConnecting" /\ interest = {} /\ index = "kNew"
  /\ outBuf = <<>> /\ wire = <<>> /\ accepted = 0
  /\ shut = FALSE /\ sockErr = FALSE
  /\ received = 0 /\ fin = FALSE /\ rst = FALSE
  /\ loopAt = "idle" /\ revents = {}
  /\ pending = <<Established>> /\ running = <<>> /\ taken = 0
  /\ oneLoop \in BOOLEAN
  /\ inMap = TRUE /\ removals = 0 /\ serverGone = FALSE
  /\ at = [u \in Users |-> "idle"]
  /\ calls = [c \in Callers |-> 0]
  /\ holders = {} /\ told = "nothing" /\ shutBy = {}

-----------------------------------------------------------------------------
(* References.                                                             *)

HoldsConnection(functor) == functor.kind \notin {"send", "shutdown"}

Handling == loopAt \in {"event", "message", "down"}

\* What refers to the connection by shared_ptr; the loop does by the guard of
\* Channel::handleEvent while it handles an event.
Refs == {r \in {"map", "base", "guard", "pending", "running", "user"} :
           \/ r = "map" /\ inMap
           \/ r = "base" /\ removals > 0
           \/ r = "guard" /\ Handling
           \/ r = "pending" /\ \E i \in DOMAIN pending : HoldsConnection(pending[i])
           \/ r = "running" /\ \E i \in DOMAIN running : HoldsConnection(running[i])
           \/ r = "user" /\ holders # {}}

Alive == Refs # {}

isWriting == "write" \in interest

Running == loopAt \notin {"aborted", "stopped"}

-----------------------------------------------------------------------------
(* sendInLoop and shutdownInLoop. They go on at `to'; `queue' is the vector *)
(* of pending functors without the one that is being run.                   *)

Unit(k) == accepted + k

\* data[from .. to-1] of a string of length len.
Bytes(from, to, len) == [i \in 1 .. to - from |->
                           IF from + i <= len THEN Unit(from + i) ELSE Junk]

\* Mutation: only the registration is repaired, to enableWriting().
keepRestForWriting(bytes) ==
  /\ outBuf' = outBuf \o bytes
  /\ IF bytes # <<>> /\ ~isWriting
     THEN interest' = interest \cup {"write"} /\ index' = "kAdded"
     ELSE UNCHANGED <<interest, index>>
  /\ UNCHANGED state

\* The rest is kept, and the channel asks the poller for read events (again).
keepRest(bytes) ==
  /\ outBuf' = outBuf \o bytes
  /\ IF bytes # <<>> /\ ~isWriting
     THEN interest' = interest \cup {"read"} /\ index' = "kAdded"
     ELSE UNCHANGED <<interest, index>>
  /\ UNCHANGED state

WriteFirst == ~isWriting /\ outBuf = <<>>

PipeBroken == shut \/ rst

sendInLoop(len, to) ==
  \/ \* Given up: the connection has been destroyed.
     /\ state = "kDisconnected"
     /\ loopAt' = to
     /\ UNCHANGED <<connVars, outVars, sockErr, pending>>
  \/ \* write() takes n bytes, and `remaining = len = nwrote'.
     /\ state # "kDisconnected" /\ WriteFirst /\ ~PipeBroken
     /\ \E n \in (IF len = 0 THEN {0} ELSE 1 .. len) :
          /\ wire' = wire \o Bytes(0, n, len)
          /\ keepRest(Bytes(n, n + n, len))
     /\ accepted' = accepted + len
     /\ pending' = IF len = 0 THEN Append(pending, WriteComplete) ELSE pending
     /\ loopAt' = to
     /\ UNCHANGED sockErr
  \/ \* The kernel's buffer is full, or outputBuffer_ has to go first.
     /\ state # "kDisconnected"
     /\ IF WriteFirst THEN len > 0 /\ ~PipeBroken ELSE TRUE
     /\ keepRest(Bytes(0, len, len))
     /\ accepted' = accepted + len
     /\ loopAt' = to
     /\ UNCHANGED <<wire, sockErr, pending>>
  \/ \* ECONNRESET: the data is dropped.
     /\ state # "kDisconnected" /\ WriteFirst /\ sockErr
     /\ sockErr' = FALSE
     /\ loopAt' = to
     /\ UNCHANGED <<connVars, outVars, pending>>
  \/ \* EPIPE comes with SIGPIPE, which nothing in src/ ignores.
     /\ state # "kDisconnected" /\ WriteFirst /\ PipeBroken /\ ~sockErr
     /\ loopAt' = "aborted"
     /\ UNCHANGED <<connVars, outVars, sockErr, pending>>

shutdownInLoop(u) ==
  /\ shut' = (shut \/ ~isWriting)
  /\ shutBy' = shutBy \cup {u}

-----------------------------------------------------------------------------
(* The io loop: one turn handles the events of this connection, then the   *)
(* functors that are queued at the swap.                                   *)

\* EPOLLIN, EPOLLERR and EPOLLHUP as the kernel reports them, EPOLLOUT if asked.
Ready ==
  IF index # "kAdded" THEN {}
  ELSE {e \in {"in", "out", "err", "hup"} :
          \/ e = "in" /\ "read" \in interest /\ (received > 0 \/ fin \/ rst)
          \/ e = "out" /\ "write" \in interest
          \/ e = "err" /\ sockErr
          \/ e = "hup" /\ (rst \/ (fin /\ shut))}

\* epoll_wait returns when there is an event or something is queued; nothing
\* that matters here happens at a timeout. Without events doPendingFunctor() is
\* next: what is queued before its swap might as well have been there earlier.
poll ==
  /\ loopAt = "idle"
  /\ removals < MaxRemovals
  /\ Ready # {} \/ pending # <<>> \/ serverGone
  /\ revents' = Ready
  /\ IF Ready = {}
     THEN running' = pending /\ pending' = <<>> /\ loopAt' = "functors"
     ELSE loopAt' = "dispatch" /\ UNCHANGED <<pending, running>>
  /\ UNCHANGED taken
  /\ UNCHANGED <<connVars, outVars, shut, peerVars, sockErr, serverVars, userVars,
                 told, shutBy>>

\* Mutation: the connection callback is left out.
handleCloseSilently ==
  /\ state' = "kDisconnecting"
  /\ interest' = interest \ {"write"}
  /\ index' = "kAdded"
  /\ loopAt' = "down"
  /\ UNCHANGED told

\* Mutation: the end of the stream is handled once, while the connection is up.
handleCloseIfConnected ==
  IF state = "kConnected"
  THEN /\ state' = "kDisconnecting"
       /\ interest' = interest \ {"write"}
       /\ index' = "kAdded"
       /\ loopAt' = "down"
       /\ told' = "down"
  ELSE loopAt' = "event" /\ UNCHANGED <<connVars, told>>

\* The state is not kDisconnected, and the channel goes on reading. loopAt is
\* "down" in connectionCallback_; then comes closeCallback_.
handleClose ==
  /\ state' = "kDisconnecting"
  /\ interest' = interest \ {"write"}
  /\ index' = "kAdded"
  /\ loopAt' = "down"
  /\ told' = "down"

\* handleEvent() locks tie_, though the channel is itself a part of the
\* connection. EPOLLHUP counts only without EPOLLIN.
handleEvent ==
  /\ loopAt = "dispatch"
  /\ revents' = revents \ {"hup"}
  /\ IF Alive /\ "hup" \in revents /\ "in" \notin revents
     THEN handleClose
     ELSE /\ loopAt' = IF Alive THEN "event" ELSE "aborted"
          /\ UNCHANGED <<connVars, told>>
  /\ UNCHANGED <<outVars, shut, peerVars, sockErr, pending, running, taken,
                 serverVars, userVars, shutBy>>

\* handleError() fetches SO_ERROR, which clears it.
handleError ==
  /\ loopAt = "event" /\ "err" \in revents
  /\ revents' = revents \ {"err"}
  /\ sockErr' = FALSE
  /\ UNCHANGED <<connVars, outVars, shut, peerVars, loopAt, pending, running,
                 taken, serverVars, userVars, told, shutBy>>

\* readFd() takes some or all of what has arrived, then sees the end of the
\* stream. It mistakes an error for a huge read: the process dies there, or it
\* goes on to handleError().
handleRead ==
  /\ loopAt = "event" /\ revents \cap {"err", "in"} = {"in"}
  /\ revents' = revents \ {"in"}
  /\ \/ /\ received > 0
        /\ received' \in 0 .. received - 1
        /\ loopAt' = "message"
        /\ UNCHANGED <<connVars, sockErr, told>>
     \/ /\ received = 0 /\ ~sockErr
        /\ handleClose
        /\ UNCHANGED <<received, sockErr>>
     \/ /\ received = 0 /\ sockErr
        /\ sockErr' = FALSE
        /\ loopAt' \in {"event", "aborted"}
        /\ UNCHANGED <<connVars, received, told>>
  /\ UNCHANGED <<outVars, shut, fin, rst, pending, running, taken,
                 serverVars, userVars, shutBy>>

\* handleWrite() with n > 0; when the write fails nothing changes. The functors
\* it queues are swapped in with the others.
handleWrite(n) ==
  LET drained == n = Len(outBuf) IN
  /\ wire' = wire \o SubSeq(outBuf, 1, n)
  /\ outBuf' = SubSeq(outBuf, n + 1, Len(outBuf))
  /\ interest' = IF drained THEN interest \ {"write"} ELSE interest
  /\ index' = IF interest' = {} THEN "kDeleted" ELSE index
  /\ shut' = (shut \/ (drained /\ state = "kDisconnecting"))
  /\ running' = IF drained THEN Append(pending, WriteComplete) ELSE pending

\* EPOLLOUT comes last; then the loop goes on to doPendingFunctor().
endOfEvent ==
  /\ loopAt = "event" /\ revents \subseteq {"out"}
  /\ IF revents = {"out"} /\ isWriting /\ ~PipeBroken
     THEN \E n \in 1 .. Len(outBuf) : handleWrite(n)
     ELSE running' = pending /\ UNCHANGED <<outBuf, wire, interest, index, shut>>
  /\ revents' = {}
  /\ pending' = <<>>
  /\ taken' = 0
  /\ loopAt' = "functors"
  /\ UNCHANGED <<state, accepted, peerVars, sockErr, serverVars, userVars, told,
                 shutBy>>

\* The batch goes, and with it the references its functors hold; then the loop
\* tests quit_, which ~EventLoopThread sets once the server is being destroyed.
endOfFunctors ==
  /\ loopAt = "functors" /\ taken = Len(running)
  /\ running' = <<>>
  /\ taken' = 0
  /\ loopAt' \in {"idle"} \cup (IF serverGone THEN {"stopped"} ELSE {})
  /\ UNCHANGED <<connVars, outVars, shut, peerVars, sockErr, revents, pending,
                 serverVars, userVars, told, shutBy>>

-----------------------------------------------------------------------------
(* The functors.                                                           *)

NextFunctor(kind) ==
  /\ loopAt = "functors" /\ taken < Len(running)
  /\ running[taken + 1].kind = kind
  /\ taken' = taken + 1

\* tie() comes before enableReading(); the user's threads get to know the
\* connection in the connection callback.
connectEstablished ==
  /\ NextFunctor("established")
  /\ state' = "kConnected"
  /\ interest' = interest \cup {"read"}
  /\ index' = "kAdded"
  /\ told' = "up"
  /\ holders' = Users
  /\ loopAt' = "up"
  /\ UNCHANGED <<outVars, shut, peerVars, sockErr, revents, pending, running,
                 serverVars, at, calls, shutBy>>

\* The state is tested first and set afterwards.
connectionDestroyed ==
  /\ NextFunctor("destroyed")
  /\ IF state = "kConnected"
     THEN loopAt' = "destroying" /\ UNCHANGED index
     ELSE index' = "kNew" /\ UNCHANGED loopAt
  /\ UNCHANGED <<state, interest, outVars, shut, peerVars, sockErr, revents,
                 pending, running, serverVars, userVars, told, shutBy>>

\* Mutation: disableAll() clears events_ and does not tell the poller.
setDisconnectedWithoutUpdate ==
  /\ loopAt = "destroying"
  /\ state' = "kDisconnected"
  /\ interest' = {}
  /\ told' = "down"
  /\ loopAt' = "destroyed"
  /\ UNCHANGED <<index, outVars, shut, peerVars, sockErr, revents, pending,
                 running, taken, serverVars, userVars, shutBy>>

setDisconnected ==
  /\ loopAt = "destroying"
  /\ state' = "kDisconnected"
  /\ interest' = {}
  /\ index' = "kDeleted"
  /\ told' = "down"
  /\ loopAt' = "destroyed"
  /\ UNCHANGED <<outVars, shut, peerVars, sockErr, revents, pending, running,
                 taken, serverVars, userVars, shutBy>>

writeComplete ==
  /\ NextFunctor("writeComplete")
  /\ loopAt' = "complete"
  /\ UNCHANGED <<connVars, outVars, shut, peerVars, sockErr, revents, pending,
                 running, serverVars, userVars, told, shutBy>>

\* Bound to a raw this pointer.
runSend ==
  /\ NextFunctor("send")
  /\ IF Alive THEN sendInLoop(running[taken + 1].len, "functors")
     ELSE loopAt' = "aborted" /\ UNCHANGED <<connVars, outVars, sockErr, pending>>
  /\ UNCHANGED <<shut, peerVars, revents, running, serverVars, userVars, told,
                 shutBy>>

runShutdown ==
  /\ NextFunctor("shutdown")
  /\ IF Alive THEN shutdownInLoop(running[taken + 1].by) /\ UNCHANGED loopAt
     ELSE loopAt' = "aborted" /\ UNCHANGED <<shut, shutBy>>
  /\ UNCHANGED <<connVars, outVars, peerVars, sockErr, revents, pending, running,
                 serverVars, userVars, told>>

-----------------------------------------------------------------------------
(* The user's callbacks, in the io loop's thread.                          *)

InCallback == loopAt \in {"up", "message", "down", "destroyed", "complete"}

CallByLoop ==
  /\ InCallback
  /\ calls[IoLoop] < MaxLoopCalls
  /\ calls' = [calls EXCEPT ![IoLoop] = @ + 1]

sendFromLoop(len) ==
  /\ CallByLoop
  /\ state = "kConnected"
  /\ sendInLoop(len, loopAt)
  /\ UNCHANGED <<shut, peerVars, revents, running, taken, serverVars, at,
                 holders, told, shutBy>>

shutdownFromLoop ==
  /\ CallByLoop
  /\ state = "kConnected"
  /\ state' = "kDisconnecting"
  /\ shutdownInLoop(IoLoop)
  /\ UNCHANGED <<interest, index, outVars, peerVars, sockErr, loopVars,
                 serverVars, at, holders, told>>

endOfCallback ==
  /\ loopAt \in {"up", "complete", "message"}
  /\ loopAt' = IF loopAt = "message" THEN "event" ELSE "functors"
  /\ UNCHANGED <<connVars, outVars, shut, peerVars, sockErr, revents, pending,
                 running, taken, serverVars, userVars, told, shutBy>>

\* connectionDestroyed() ends with channel_->remove().
removeChannel ==
  /\ loopAt = "destroyed"
  /\ index' = "kNew"
  /\ loopAt' = "functors"
  /\ UNCHANGED <<state, interest, outVars, shut, peerVars, sockErr, revents,
                 pending, running, taken, serverVars, userVars, told, shutBy>>

-----------------------------------------------------------------------------
(* TcpServer.                                                              *)

\* Mutation: the connection is not erased from the map.
removeConnectionInLoopKeepsEntry ==
  /\ pending' = Append(pending, Destroyed)
  /\ UNCHANGED inMap

removeConnectionInLoop ==
  /\ inMap' = FALSE
  /\ pending' = Append(pending, Destroyed)

\* closeCallback_: removeConnection runs or queues removeConnectionInLoop in the
\* base loop; it is bound to a raw pointer to the server.
removeConnection ==
  /\ loopAt = "down"
  /\ IF serverGone
     THEN loopAt' = "aborted" /\ UNCHANGED <<inMap, removals, pending>>
     ELSE /\ loopAt' = "event"
          /\ IF oneLoop
             THEN removeConnectionInLoop /\ UNCHANGED removals
             ELSE removals' = removals + 1 /\ UNCHANGED <<inMap, pending>>
  /\ UNCHANGED <<connVars, outVars, shut, peerVars, sockErr, revents, running,
                 taken, oneLoop, serverGone, userVars, told, shutBy>>

runRemoval ==
  /\ Running
  /\ removals > 0
  /\ removals' = removals - 1
  /\ IF serverGone
     THEN loopAt' = "aborted" /\ UNCHANGED <<inMap, pending>>
     ELSE removeConnectionInLoop /\ UNCHANGED loopAt
  /\ UNCHANGED <<connVars, outVars, shut, peerVars, sockErr, revents, running,
                 taken, oneLoop, serverGone, userVars, told, shutBy>>

\* ~TcpServer with loops of its own: the base loop's thread drops the map's
\* reference and queues connectionDestroyed in the io loop.
destroyServer ==
  /\ Running
  /\ ~oneLoop /\ ~serverGone
  /\ serverGone' = TRUE
  /\ inMap' = FALSE
  /\ pending' = IF inMap THEN Append(pending, Destroyed) ELSE pending
  /\ UNCHANGED <<connVars, outVars, shut, peerVars, sockErr, loopAt, revents,
                 running, taken, oneLoop, removals, userVars, told,
                 shutBy>>

-----------------------------------------------------------------------------
(* send() and shutdown() from other threads: the state is tested, and       *)
(* changed, before the functor is queued.                                   *)

BeginCall(u, place) ==
  /\ Running
  /\ u \in holders /\ at[u] = "idle"
  /\ calls[u] < MaxCalls
  /\ state = "kConnected"
  /\ calls' = [calls EXCEPT ![u] = @ + 1]
  /\ at' = [at EXCEPT ![u] = place]
  /\ UNCHANGED <<connVars, outVars, shut, peerVars, sockErr, loopVars,
                 serverVars, holders, told, shutBy>>

send(u) == BeginCall(u, "send")

queueSend(u, len) ==
  /\ Running
  /\ at[u] = "send"
  /\ pending' = Append(pending, Send(u, len))
  /\ at' = [at EXCEPT ![u] = "idle"]
  /\ UNCHANGED <<connVars, outVars, shut, peerVars, sockErr, loopAt, revents,
                 running, taken, serverVars, calls, holders, told, shutBy>>

shutdown(u) == BeginCall(u, "shutdown")

setDisconnecting(u) ==
  /\ Running
  /\ at[u] = "shutdown"
  /\ state' = "kDisconnecting"
  /\ at' = [at EXCEPT ![u] = "queueShutdown"]
  /\ UNCHANGED <<interest, index, outVars, shut, peerVars, sockErr, loopVars,
                 serverVars, calls, holders, told, shutBy>>

\* Mutation: the socket is shut down on the spot, from any thread.
shutdownAtOnce(u) ==
  /\ Running
  /\ at[u] = "queueShutdown"
  /\ shutdownInLoop(u)
  /\ at' = [at EXCEPT ![u] = "idle"]
  /\ UNCHANGED <<connVars, outVars, peerVars, sockErr, loopVars, serverVars,
                 calls, holders, told>>

queueShutdown(u) ==
  /\ Running
  /\ at[u] = "queueShutdown"
  /\ pending' = Append(pending, Shutdown(u))
  /\ at' = [at EXCEPT ![u] = "idle"]
  /\ UNCHANGED <<connVars, outVars, shut, peerVars, sockErr, loopAt, revents,
                 running, taken, serverVars, calls, holders, told, shutBy>>

\* The thread drops its TcpConnectionPtr.
release(u) ==
  /\ Running
  /\ u \in holders /\ at[u] = "idle"
  /\ holders' = holders \ {u}
  /\ UNCHANGED <<connVars, outVars, shut, peerVars, sockErr, loopVars,
                 serverVars, at, calls, told, shutBy>>

-----------------------------------------------------------------------------
(* The peer.                                                               *)

peerSends ==
  /\ Running /\ Alive
  /\ ~fin /\ ~rst /\ received < MaxUnread
  /\ received' = received + 1
  /\ UNCHANGED <<connVars, outVars, shut, fin, rst, sockErr, loopVars,
                 serverVars, userVars, told, shutBy>>

peerCloses ==
  /\ Running /\ Alive
  /\ ~fin /\ ~rst
  /\ fin' = TRUE
  /\ UNCHANGED <<connVars, outVars, shut, received, rst, sockErr, loopVars,
                 serverVars, userVars, told, shutBy>>

peerResets ==
  /\ Running /\ Alive
  /\ ~rst
  /\ rst' = TRUE
  /\ sockErr' = TRUE
  /\ UNCHANGED <<connVars, outVars, shut, received, fin, loopVars,
                 serverVars, userVars, told, shutBy>>

-----------------------------------------------------------------------------
\* What the io loop's thread does by itself.
LoopSteps ==
  \/ poll
  \/ handleEvent
  \/ handleError
  \/ handleRead
  \/ endOfEvent
  \/ endOfFunctors
  \/ connectEstablished
  \/ connectionDestroyed
  \/ setDisconnected
  \/ writeComplete
  \/ runSend
  \/ runShutdown
  \/ endOfCallback
  \/ removeChannel
  \/ removeConnection

CallSteps(u) ==
  \/ \E len \in Lengths : queueSend(u, len)
  \/ setDisconnecting(u)
  \/ queueShutdown(u)

UserCalls ==
  \/ \E len \in Lengths : sendFromLoop(len)
  \/ shutdownFromLoop
  \/ \E u \in Users : send(u) \/ shutdown(u) \/ release(u)

Peer == peerSends \/ peerCloses \/ peerResets

Next ==
  \/ LoopSteps
  \/ runRemoval
  \/ \E u \in Users : CallSteps(u)
  \/ UserCalls
  \/ destroyServer
  \/ Peer

\* Callbacks return and threads inside a call go on. Nothing makes the user
\* call or let go, the peer send or close, or the server be destroyed.
Fairness ==
  /\ WF_vars(LoopSteps)
  /\ WF_vars(runRemoval)
  /\ \A u \in Users : WF_vars(CallSteps(u))

Spec == Init /\ [][Next]_vars

FairSpec == Spec /\ Fairness

-----------------------------------------------------------------------------
(* Properties.                                                             *)

Functors == {Established, Destroyed, WriteComplete}
              \cup {Send(u, len) : u \in Users, len \in Lengths}
              \cup {Shutdown(u) : u \in Users}

\* The types of the variables; before the connection is established nobody has
\* been told of it and the poller does not watch it; and what the poller watches
\* agrees with events_: an fd without events has left epoll.
TypeOK ==
  /\ state \in States
  /\ interest \subseteq {"read", "write"}
  /\ index \in {"kNew", "kAdded", "kDeleted"}
  /\ outBuf \in Seq(Nat) /\ wire \in Seq(Nat) /\ accepted \in Nat
  /\ {shut, fin, rst, sockErr} \subseteq BOOLEAN
  /\ received \in 0 .. MaxUnread
  /\ loopAt \in LoopPoints
  /\ revents \subseteq {"in", "out", "err", "hup"}
  /\ pending \in Seq(Functors) /\ running \in Seq(Functors)
  /\ taken \in 0 .. Len(running)
  /\ {oneLoop, inMap, serverGone} \subseteq BOOLEAN
  /\ removals \in Nat
  /\ at \in [Users -> {"idle", "send", "shutdown", "queueShutdown"}]
  /\ calls \in [Callers -> Nat]
  /\ holders \subseteq Users
  /\ told \in {"nothing", "up", "down"}
  /\ shutBy \subseteq Callers
  /\ index = "kAdded" => interest # {}
  /\ index = "kDeleted" => loopAt = "destroyed"
  /\ state = "kConnecting" => told = "nothing" /\ index = "kNew" /\ holders = {}

\* The bytes that reach the peer are a prefix of those given to sendInLoop: none
\* twice, none out of order and none that nobody sent, whatever mixture of full,
\* partial and refused writes the kernel answers with.
WireIsPrefix ==
  /\ Len(wire) <= accepted
  /\ \A i \in DOMAIN wire : wire[i] = i

\* As long as the server exists the user is told of the end of a connection
\* before the connection is destroyed, whoever holds the last reference.
DownBeforeFree == ~Alive /\ ~serverGone => told = "down"

\* A connection in the server's map is watched for reading from the end of
\* connectEstablished on: none is forgotten by the poller while the server still
\* counts it, whatever the user's threads and the peer do.
MappedIsWatched ==
  inMap /\ state # "kConnecting" => index = "kAdded" /\ "read" \in interest

\* A caller's shutdown never overtakes its own sends: when its shutdownInLoop
\* runs, sendInLoop has seen the data of every send it made before.
OwnSendsBeforeShutdown ==
  \A u \in shutBy \ {IoLoop} :
    /\ at[u] # "send"
    /\ \A i \in DOMAIN pending : pending[i].kind = "send" => pending[i].by # u
    /\ \A i \in taken + 1 .. Len(running) :
         running[i].kind = "send" => running[i].by # u

\* When the peer closes or resets an established connection, the library drops
\* every reference to it in the end; only the user can keep it alive.
PeerCloseFrees ==
  (fin \/ rst) /\ told # "nothing" ~> ~Running \/ Refs \subseteq {"user"}

\* What sendInLoop is given is on the wire or in outputBuffer_, in order.
OutputConserved == wire \o outBuf = [i \in 1 .. accepted |-> i]

\* Data that waits in outputBuffer_ waits for EPOLLOUT.
WaitsForWritable == outBuf # <<>> /\ Running => isWriting

\* After the write side is shut down no write is attempted.
NoWriteAfterShutdown ==
  ~(/\ loopAt = "functors" /\ taken < Len(running)
    /\ running[taken + 1].kind = "send"
    /\ Alive /\ shut /\ WriteFirst /\ state # "kDisconnected")

\* After connectionDestroyed() the channel is not in the poller.
DestroyedIsUnwatched ==
  loopAt = "idle" /\ ~inMap /\ told = "down" /\ Refs \subseteq {"user"}
    => index = "kNew"
=============================================================================
