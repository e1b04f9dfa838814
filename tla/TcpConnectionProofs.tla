------------------------- MODULE TcpConnectionProofs -------------------------
(***************************************************************************)
(* The safety of one TcpConnection, for any number of user threads, calls, *)
(* lengths and messages. Where the io loop's thread is decides what the    *)
(* batch, the poller and the server may look like (Places, Watching); a    *)
(* functor that is still to run says what has not happened yet (Fresh,     *)
(* Mapped). The wire (WireInv) and the order of a thread's calls           *)
(* (OrderInv) rest on these.                                               *)
(***************************************************************************)
EXTENDS TcpConnection, SequenceTheorems, TLAPS

\* The functors of the batch that have not been started.
Remaining == taken + 1 .. Len(running)

\* The conjuncts of TypeOK that give each variable its set.
Flags ==
  /\ shut \in BOOLEAN /\ fin \in BOOLEAN /\ rst \in BOOLEAN /\ sockErr \in BOOLEAN
  /\ oneLoop \in BOOLEAN /\ inMap \in BOOLEAN /\ serverGone \in BOOLEAN

Types ==
  /\ state \in States
  /\ interest \subseteq {"read", "write"}
  /\ index \in {"kNew", "kAdded", "kDeleted"}
  /\ outBuf \in Seq(Nat) /\ wire \in Seq(Nat) /\ accepted \in Nat
  /\ received \in 0 .. MaxUnread
  /\ loopAt \in LoopPoints
  /\ revents \subseteq {"in", "out", "err", "hup"}
  /\ pending \in Seq(Functors) /\ running \in Seq(Functors)
  /\ taken \in 0 .. Len(running)
  /\ removals \in Nat
  /\ at \in [Users -> {"idle", "send", "shutdown", "queueShutdown"}]
  /\ calls \in [Callers -> Nat]
  /\ holders \subseteq Users
  /\ told \in {"nothing", "up", "down"}
  /\ shutBy \subseteq Callers

\* The places outside the batch, those in the midst of an event, and those in
\* the midst of connectionDestroyed().
Places ==
  /\ loopAt \in {"idle", "dispatch", "event", "message", "down"} => running = <<>> /\ taken = 0
  /\ loopAt \in {"dispatch", "event", "message", "down"} => index = "kAdded"
  /\ loopAt \in {"destroying", "destroyed"} => ~inMap /\ removals = 0
  /\ loopAt = "destroyed" => state \notin {"kConnecting", "kConnected"}
  /\ loopAt = "down" \/ removals > 0 =>
       told = "down" /\ state \in {"kDisconnecting", "kDisconnected"}

\* The channel never asks for EPOLLOUT.
Watching ==
  /\ interest \subseteq {"read"}
  /\ index = "kAdded" => interest = {"read"}
  /\ index = "kDeleted" => loopAt = "destroyed"

\* connectEstablished is the first functor of all.
Fresh ==
  /\ state = "kConnecting" =>
       /\ told = "nothing" /\ index = "kNew" /\ holders = {} /\ removals = 0
       /\ \A u \in Users : at[u] = "idle"
       /\ \/ loopAt = "idle" /\ pending # <<>> /\ pending[1].kind = "established"
          \/ loopAt = "functors" /\ taken = 0 /\ running # <<>>
             /\ running[1].kind = "established"
  /\ \A i \in DOMAIN pending : pending[i].kind = "established" =>
       i = 1 /\ state = "kConnecting" /\ loopAt = "idle"
  /\ \A i \in Remaining : running[i].kind = "established" =>
       i = 1 /\ state = "kConnecting"

\* connectionDestroyed is queued by what takes the connection out of the map,
\* and that follows the connection callback unless the server is destroyed.
Mapped ==
  /\ \A i \in DOMAIN pending : pending[i].kind = "destroyed" => ~inMap
  /\ \A i \in Remaining : running[i].kind = "destroyed" => ~inMap
  /\ ~inMap /\ ~serverGone => told = "down"
  /\ MappedIsWatched

ConnInv == Flags /\ Types /\ Places /\ Watching /\ Fresh /\ Mapped

\* As nothing leaves outputBuffer_ a write goes on where the last one stopped.
WireInv == WireIsPrefix /\ (outBuf = <<>> => Len(wire) = accepted)

IsSend(f, u) == f.kind = "send" /\ f.by = u
IsShutdown(f, u) == f.kind = "shutdown" /\ f.by = u

\* A thread that has begun its shutdown sends no more, and its functors are in
\* the order of its calls.
ShutsDown(u) ==
  \/ u \in shutBy
  \/ at[u] = "queueShutdown"
  \/ \E i \in DOMAIN pending : IsShutdown(pending[i], u)
  \/ \E i \in Remaining : IsShutdown(running[i], u)

OrderOf(u) ==
  /\ ShutsDown(u) => state \notin {"kConnecting", "kConnected"} /\ at[u] # "send"
  /\ \A i, j \in DOMAIN pending :
       IsShutdown(pending[i], u) /\ IsSend(pending[j], u) => j < i
  /\ \A i, j \in Remaining :
       IsShutdown(running[i], u) /\ IsSend(running[j], u) => j < i
  /\ (\E i \in Remaining : IsShutdown(running[i], u)) \/ u \in shutBy =>
       \A j \in DOMAIN pending : ~IsSend(pending[j], u)
  /\ u \in shutBy => \A j \in Remaining : ~IsSend(running[j], u)

OrderInv == \A u \in Users : OrderOf(u)

-----------------------------------------------------------------------------
(* Functors and the vectors that hold them.                                *)

LEMMA KindsOfFunctors ==
  /\ \A f \in Functors :
       f.kind \in {"established", "destroyed", "writeComplete", "send", "shutdown"}
  /\ \A f \in Functors : f.kind = "send" => f.len \in Lengths /\ f.by \in Users
  /\ \A f \in Functors : f.kind = "shutdown" => f.by \in Users
  BY DEF Functors, Established, Destroyed, WriteComplete, Send, Shutdown

LEMMA NewFunctors ==
  /\ Established \in Functors /\ Established.kind = "established"
  /\ Destroyed \in Functors /\ Destroyed.kind = "destroyed"
  /\ WriteComplete \in Functors /\ WriteComplete.kind = "writeComplete"
  /\ \A u \in Users, len \in Lengths :
       /\ Send(u, len) \in Functors
       /\ Send(u, len).kind = "send" /\ Send(u, len).by = u
  /\ \A u \in Users :
       /\ Shutdown(u) \in Functors
       /\ Shutdown(u).kind = "shutdown" /\ Shutdown(u).by = u
<1>1. /\ Established \in Functors /\ Established.kind = "established"
      /\ Destroyed \in Functors /\ Destroyed.kind = "destroyed"
      /\ WriteComplete \in Functors /\ WriteComplete.kind = "writeComplete"
  BY DEF Functors, Established, Destroyed, WriteComplete
<1>2. ASSUME NEW u \in Users, NEW len \in Lengths
      PROVE  /\ Send(u, len) \in Functors
             /\ Send(u, len).kind = "send" /\ Send(u, len).by = u
  BY DEF Functors, Send
<1>3. ASSUME NEW u \in Users
      PROVE  /\ Shutdown(u) \in Functors
             /\ Shutdown(u).kind = "shutdown" /\ Shutdown(u).by = u
  BY DEF Functors, Shutdown
<1> QED
  BY <1>1, <1>2, <1>3

\* The vector of pending functors after one more is queued.
LEMMA QueuedLast ==
  ASSUME NEW q \in Seq(Functors), NEW f \in Functors
  PROVE  /\ Append(q, f) \in Seq(Functors)
         /\ Append(q, f) # <<>>
         /\ Len(Append(q, f)) = Len(q) + 1
         /\ DOMAIN Append(q, f) = 1 .. Len(q) + 1
         /\ \A i \in DOMAIN q : Append(q, f)[i] = q[i]
         /\ Append(q, f)[Len(q) + 1] = f
         /\ DOMAIN q = 1 .. Len(q) /\ Len(q) \in Nat
  BY AppendProperties, LenProperties

\* The functor whose turn it is.
LEMMA NextIsFunctor ==
  ASSUME Types, taken < Len(running)
  PROVE  /\ taken + 1 \in Remaining
         /\ taken + 1 \in DOMAIN running
         /\ running[taken + 1] \in Functors
         /\ taken + 1 \in 0 .. Len(running)
<1>1. Len(running) \in Nat /\ taken \in Nat /\ running \in Seq(Functors)
  BY LenProperties DEF Types
<1>2. taken + 1 \in 1 .. Len(running)
  BY <1>1
<1> QED
  BY <1>1, <1>2 DEF Remaining

\* What sendInLoop() may do while the channel does not ask for EPOLLOUT.
LEMMA SendEffect ==
  ASSUME Types, Watching, NEW len \in Lengths, NEW to, sendInLoop(len, to)
  PROVE  /\ state' = state
         /\ loopAt' \in {to, "aborted"}
         /\ \/ interest' = interest /\ index' = index
            \/ interest' = {"read"} /\ index' = "kAdded"
         /\ pending' \in {pending, Append(pending, WriteComplete)}
         /\ outBuf' \in Seq(Nat) /\ wire' \in Seq(Nat) /\ accepted' \in Nat
<1>1. len \in Nat /\ accepted \in Nat /\ outBuf \in Seq(Nat) /\ wire \in Seq(Nat)
  BY BoundsAssumption DEF Types
<1>2. ~isWriting /\ interest \cup {"read"} = {"read"}
  BY DEF Watching, isWriting
<1>3. \A from, to_ \in Nat : from <= to_ => Bytes(from, to_, len) \in Seq(Nat)
  <2> SUFFICES ASSUME NEW from \in Nat, NEW to_ \in Nat, from <= to_
               PROVE  Bytes(from, to_, len) \in Seq(Nat)
    OBVIOUS
  <2>1. to_ - from \in Nat
    OBVIOUS
  <2>2. Bytes(from, to_, len) \in [1 .. to_ - from -> Nat]
    BY <1>1, <2>1 DEF Bytes, Unit, Junk
  <2> QED
    BY <2>1, <2>2
<1>4. \A bytes \in Seq(Nat) : keepRest(bytes) =>
        /\ state' = state
        /\ \/ interest' = interest /\ index' = index
           \/ interest' = {"read"} /\ index' = "kAdded"
        /\ outBuf' \in Seq(Nat)
  BY <1>1, <1>2, ConcatProperties DEF keepRest
<1>5. CASE /\ \E n \in (IF len = 0 THEN {0} ELSE 1 .. len) :
                /\ wire' = wire \o Bytes(0, n, len)
                /\ keepRest(Bytes(n, n + n, len))
           /\ accepted' = accepted + len
           /\ pending' = IF len = 0 THEN Append(pending, WriteComplete) ELSE pending
           /\ loopAt' = to
           /\ UNCHANGED sockErr
  <2>1. PICK n \in (IF len = 0 THEN {0} ELSE 1 .. len) :
                /\ wire' = wire \o Bytes(0, n, len)
                /\ keepRest(Bytes(n, n + n, len))
    BY <1>5
  <2>2. n \in Nat /\ n + n \in Nat /\ n <= n + n
    BY <1>1
  <2>3. Bytes(0, n, len) \in Seq(Nat) /\ Bytes(n, n + n, len) \in Seq(Nat)
    BY <1>3, <2>2
  <2>4. wire' \in Seq(Nat)
    BY <1>1, <2>1, <2>3, ConcatProperties
  <2> QED
    BY <1>1, <1>4, <1>5, <2>1, <2>3, <2>4 DEF Types
<1>6. CASE /\ keepRest(Bytes(0, len, len))
           /\ accepted' = accepted + len
           /\ loopAt' = to
           /\ UNCHANGED <<wire, sockErr, pending>>
  <2>1. Bytes(0, len, len) \in Seq(Nat)
    BY <1>1, <1>3
  <2> QED
    BY <1>1, <1>4, <1>6, <2>1 DEF Types
<1>7. CASE /\ UNCHANGED <<connVars, outVars, pending>>
           /\ loopAt' \in {to, "aborted"}
           /\ sockErr' \in {sockErr, FALSE}
  BY <1>1, <1>7 DEF connVars, outVars, Types
<1> QED
  BY <1>5, <1>6, <1>7 DEF sendInLoop

\* A kind of functor that is neither queued nor in what remains of the batch
\* stays away while functors of other kinds are queued, or are started.
LEMMA KindStaysAway ==
  ASSUME Types, NEW kind,
         \A i \in DOMAIN pending : pending[i].kind # kind,
         \A i \in Remaining : running[i].kind # kind,
         \/ pending' = pending
         \/ \E f \in Functors : f.kind # kind /\ pending' = Append(pending, f),
         running' = running, taken' \in {taken, taken + 1}
  PROVE  /\ \A i \in DOMAIN pending' : pending'[i].kind # kind
         /\ \A i \in Remaining' : running'[i].kind # kind
<1>1. ASSUME NEW f \in Functors, f.kind # kind, pending' = Append(pending, f)
      PROVE  \A i \in DOMAIN pending' : pending'[i].kind # kind
  <2>1. /\ DOMAIN pending' = 1 .. Len(pending) + 1
        /\ \A i \in 1 .. Len(pending) : pending'[i] = pending[i]
        /\ pending'[Len(pending) + 1] = f
        /\ DOMAIN pending = 1 .. Len(pending) /\ Len(pending) \in Nat
    BY <1>1, QueuedLast DEF Types
  <2>2. \A i \in DOMAIN pending' : i \in DOMAIN pending \/ i = Len(pending) + 1
    BY <2>1
  <2> QED
    BY <1>1, <2>1, <2>2
<1>2. Remaining' \subseteq Remaining
  BY LenProperties DEF Remaining, Types
<1> QED
  BY <1>1, <1>2

\* Once it is established, a connection is not established again.
LEMMA FreshStays ==
  ASSUME Types, Fresh, state # "kConnecting", state' # "kConnecting",
         \/ pending' = pending
         \/ \E f \in Functors : f.kind # "established" /\ pending' = Append(pending, f),
         running' = running, taken' \in {taken, taken + 1}
  PROVE  Fresh'
<1>1. /\ \A i \in DOMAIN pending : pending[i].kind # "established"
      /\ \A i \in Remaining : running[i].kind # "established"
  BY DEF Fresh
<1>2. /\ \A i \in DOMAIN pending' : pending'[i].kind # "established"
      /\ \A i \in Remaining' : running'[i].kind # "established"
  BY <1>1, KindStaysAway
<1> QED
  BY <1>2 DEF Fresh

\* While the connection is in the map nothing queues connectionDestroyed.
LEMMA MappedStays ==
  ASSUME Types, Mapped, MappedIsWatched',
         \/ pending' = pending
         \/ \E f \in Functors : f.kind # "destroyed" /\ pending' = Append(pending, f),
         running' = running, taken' \in {taken, taken + 1},
         inMap' = inMap, serverGone' = serverGone,
         ~inMap /\ ~serverGone => told' = told
  PROVE  Mapped'
<1>1. CASE inMap
  <2>1. /\ \A i \in DOMAIN pending : pending[i].kind # "destroyed"
        /\ \A i \in Remaining : running[i].kind # "destroyed"
    BY <1>1 DEF Mapped
  <2>2. /\ \A i \in DOMAIN pending' : pending'[i].kind # "destroyed"
        /\ \A i \in Remaining' : running'[i].kind # "destroyed"
    BY <2>1, KindStaysAway
  <2> QED
    BY <1>1, <2>2 DEF Mapped
<1>2. CASE ~inMap
  BY <1>2 DEF Mapped
<1> QED
  BY <1>1, <1>2

-----------------------------------------------------------------------------
LEMMA InitConnInv == Init => ConnInv
<1> SUFFICES ASSUME Init
             PROVE  ConnInv
  OBVIOUS
<1>1. pending = <<Established>> /\ pending \in Seq(Functors) /\ pending # <<>>
      /\ DOMAIN pending = {1} /\ pending[1].kind = "established"
  BY NewFunctors DEF Init
<1>2. running = <<>> /\ running \in Seq(Functors) /\ Len(running) = 0 /\ Remaining = {}
      /\ taken = 0
  BY EmptySeq DEF Init, Remaining
<1>3. outBuf \in Seq(Nat) /\ wire \in Seq(Nat)
  BY EmptySeq DEF Init
<1>4. Types
  <2>1. /\ at \in [Users -> {"idle", "send", "shutdown", "queueShutdown"}]
        /\ calls \in [Callers -> Nat]
        /\ received \in 0 .. MaxUnread /\ accepted \in Nat /\ removals \in Nat
    BY BoundsAssumption DEF Init
  <2> QED
    BY <1>1, <1>2, <1>3, <2>1 DEF Init, Types, States, LoopPoints
<1>41. Flags
  BY DEF Init, Flags
<1>5. Places /\ Watching
  BY <1>2 DEF Init, Places, Watching
<1>6. Fresh /\ Mapped
  BY <1>1, <1>2 DEF Init, Fresh, Mapped, MappedIsWatched
<1> QED
  BY <1>4, <1>41, <1>5, <1>6 DEF ConnInv

LEMMA NextTypes == ConnInv /\ [Next]_vars => Types'
<1> SUFFICES ASSUME ConnInv, [Next]_vars
             PROVE  Types'
  OBVIOUS
<1> USE DEF ConnInv, Types, States, LoopPoints, connVars, outVars, peerVars,
    loopVars, serverVars, userVars
<1>1. CASE poll
  <2>1. Ready \subseteq {"in", "out", "err", "hup"}
    BY DEF Ready
  <2>2. <<>> \in Seq(Functors) /\ Len(pending) \in Nat /\ taken = 0
    BY <1>1, EmptySeq, LenProperties DEF poll, Places
  <2>3. \/ running' = pending /\ pending' = <<>>
        \/ pending' = pending /\ running' = running
    BY <1>1 DEF poll
  <2>4. taken' = 0 /\ pending' \in Seq(Functors) /\ running' \in Seq(Functors)
    BY <1>1, <2>2, <2>3 DEF poll
  <2>5. Len(running') \in Nat
    BY <2>4, LenProperties
  <2> QED
    BY <1>1, <2>1, <2>4, <2>5 DEF poll
<1>2. CASE handleEvent
  BY <1>2 DEF handleEvent, handleClose
<1>3. CASE handleError
  BY <1>3 DEF handleError
<1>4. CASE handleRead
  <2>1. received' \in 0 .. MaxUnread
    BY <1>4, BoundsAssumption DEF handleRead
  <2>2. /\ loopAt' \in {"message", "down", "event", "aborted"}
        /\ state' \in {state, "kDisconnecting"} /\ told' \in {told, "down"}
        /\ interest' \subseteq interest /\ index' \in {index, "kAdded"}
    BY <1>4 DEF handleRead, handleClose
  <2> QED
    BY <1>4, <2>1, <2>2 DEF handleRead
<1>5. CASE endOfEvent
  <2>1. /\ running' = pending /\ pending' = <<>> /\ taken' = 0
        /\ UNCHANGED <<outBuf, wire, interest, index, shut>>
    BY <1>5 DEF endOfEvent, Watching, isWriting
  <2>2. <<>> \in Seq(Functors) /\ Len(pending) \in Nat
    BY EmptySeq, LenProperties
  <2> QED
    BY <1>5, <2>1, <2>2 DEF endOfEvent
<1>6. CASE endOfFunctors
  BY <1>6, EmptySeq DEF endOfFunctors
<1>7. CASE connectEstablished
  BY <1>7, NextIsFunctor DEF connectEstablished, NextFunctor
<1>8. CASE connectionDestroyed
  BY <1>8, NextIsFunctor DEF connectionDestroyed, NextFunctor
<1>9. CASE setDisconnected
  BY <1>9 DEF setDisconnected
<1>10. CASE writeComplete
  BY <1>10, NextIsFunctor DEF writeComplete, NextFunctor
<1>11. CASE runSend
  <2>1. /\ running[taken + 1] \in Functors /\ running[taken + 1].len \in Lengths
        /\ taken + 1 \in 0 .. Len(running)
    BY <1>11, NextIsFunctor, KindsOfFunctors DEF runSend, NextFunctor
  <2>2. CASE Alive
    <3>1. sendInLoop(running[taken + 1].len, "functors")
      BY <1>11, <2>2 DEF runSend
    <3> HIDE DEF Types
    <3>2. /\ state' = state
          /\ loopAt' \in {"functors", "aborted"}
          /\ interest' = interest \/ interest' = {"read"}
          /\ index' \in {index, "kAdded"}
          /\ pending' \in {pending, Append(pending, WriteComplete)}
          /\ outBuf' \in Seq(Nat) /\ wire' \in Seq(Nat) /\ accepted' \in Nat
      BY <2>1, <3>1, SendEffect
    <3> USE DEF Types
    <3>3. pending' \in Seq(Functors)
      <4>1. Append(pending, WriteComplete) \in Seq(Functors)
        BY QueuedLast, NewFunctors
      <4> QED
        BY <3>2, <4>1
    <3> QED
      BY <1>11, <2>1, <3>2, <3>3 DEF runSend, NextFunctor
  <2> QED
    BY <1>11, <2>1, <2>2 DEF runSend, NextFunctor
<1>12. CASE runShutdown
  <2>1. running[taken + 1] \in Functors /\ taken + 1 \in 0 .. Len(running)
    BY <1>12, NextIsFunctor DEF runShutdown, NextFunctor
  <2>2. running[taken + 1].by \in Callers
    BY <1>12, <2>1, KindsOfFunctors DEF runShutdown, NextFunctor, Callers
  <2>3. /\ shutBy' \subseteq Callers
        /\ loopAt' \in {loopAt, "aborted"}
    BY <1>12, <2>2 DEF runShutdown, shutdownInLoop
  <2> QED
    BY <1>12, <2>1, <2>3 DEF runShutdown, NextFunctor
<1>13. CASE endOfCallback
  BY <1>13 DEF endOfCallback
<1>14. CASE removeChannel
  BY <1>14 DEF removeChannel
<1>15. CASE removeConnection
  <2>1. Append(pending, Destroyed) \in Seq(Functors)
    BY NewFunctors, QueuedLast
  <2>2. pending' \in {pending, Append(pending, Destroyed)}
    BY <1>15 DEF removeConnection, removeConnectionInLoop
  <2>3. removals' \in {removals, removals + 1} \/ (removals > 0 /\ removals' = removals - 1)
    BY <1>15 DEF removeConnection
  <2>4. loopAt' \in {loopAt, "aborted", "event"}
    BY <1>15 DEF removeConnection, removeConnectionInLoop
  <2>5. pending' \in Seq(Functors)
    BY <2>1, <2>2
  <2>6. removals' \in Nat
    BY <2>3
  <2> QED
    BY <1>15, <2>4, <2>5, <2>6 DEF removeConnection
<1>16. CASE runRemoval
  <2>1. Append(pending, Destroyed) \in Seq(Functors)
    BY NewFunctors, QueuedLast
  <2>2. pending' \in {pending, Append(pending, Destroyed)}
    BY <1>16 DEF runRemoval, removeConnectionInLoop
  <2>3. removals' \in {removals, removals + 1} \/ (removals > 0 /\ removals' = removals - 1)
    BY <1>16 DEF runRemoval
  <2>4. loopAt' \in {loopAt, "aborted", "event"}
    BY <1>16 DEF runRemoval, removeConnectionInLoop
  <2>5. pending' \in Seq(Functors)
    BY <2>1, <2>2
  <2>6. removals' \in Nat
    BY <2>3
  <2> QED
    BY <1>16, <2>4, <2>5, <2>6 DEF runRemoval
<1>17. ASSUME NEW u \in Users, NEW len \in Lengths, queueSend(u, len)
      PROVE  Types'
  <2>1. Send(u, len) \in Functors
    BY NewFunctors
  <2> QED
    BY <1>17, <2>1, QueuedLast, LenProperties DEF queueSend
<1>18. ASSUME NEW u \in Users, setDisconnecting(u)
      PROVE  Types'
  BY <1>18 DEF setDisconnecting
<1>19. ASSUME NEW u \in Users, queueShutdown(u)
      PROVE  Types'
  <2>1. Shutdown(u) \in Functors
    BY NewFunctors
  <2> QED
    BY <1>19, <2>1, QueuedLast, LenProperties DEF queueShutdown
<1>20. ASSUME NEW len \in Lengths, sendFromLoop(len)
      PROVE  Types'
  <2> HIDE DEF Types
  <2>1. sendInLoop(len, loopAt)
    BY <1>20 DEF sendFromLoop
  <2>2. /\ state' = state
        /\ loopAt' \in {loopAt, "aborted"}
        /\ interest' = interest \/ interest' = {"read"}
        /\ index' \in {index, "kAdded"}
        /\ pending' \in {pending, Append(pending, WriteComplete)}
        /\ outBuf' \in Seq(Nat) /\ wire' \in Seq(Nat) /\ accepted' \in Nat
    BY <2>1, SendEffect
  <2> USE DEF Types
  <2>3. pending' \in Seq(Functors)
    <3>1. Append(pending, WriteComplete) \in Seq(Functors)
      BY QueuedLast, NewFunctors
    <3> QED
      BY <2>2, <3>1
  <2>4. calls' \in [Callers -> Nat]
    BY <1>20 DEF sendFromLoop, CallByLoop, Callers
  <2> QED
    BY <1>20, <2>2, <2>3, <2>4 DEF sendFromLoop
<1>21. CASE shutdownFromLoop
  <2>1. calls' \in [Callers -> Nat]
    BY <1>21 DEF shutdownFromLoop, CallByLoop, Callers
  <2>2. shutBy' \subseteq Callers
    BY <1>21 DEF shutdownFromLoop, shutdownInLoop, Callers
  <2> QED
    BY <1>21, <2>1, <2>2 DEF shutdownFromLoop
<1>22. ASSUME NEW u \in Users, send(u)
      PROVE  Types'
  <2>1. at' \in [Users -> {"idle", "send", "shutdown", "queueShutdown"}]
    BY <1>22 DEF send, BeginCall
  <2>2. calls' \in [Callers -> Nat]
    BY <1>22 DEF send, BeginCall, Callers
  <2> QED
    BY <1>22, <2>1, <2>2 DEF send, BeginCall
<1>23. ASSUME NEW u \in Users, shutdown(u)
      PROVE  Types'
  <2>1. at' \in [Users -> {"idle", "send", "shutdown", "queueShutdown"}]
    BY <1>23 DEF shutdown, BeginCall
  <2>2. calls' \in [Callers -> Nat]
    BY <1>23 DEF shutdown, BeginCall, Callers
  <2> QED
    BY <1>23, <2>1, <2>2 DEF shutdown, BeginCall
<1>24. ASSUME NEW u \in Users, release(u)
      PROVE  Types'
  BY <1>24 DEF release
<1>25. CASE destroyServer
  <2>1. Destroyed \in Functors
    BY NewFunctors
  <2> QED
    BY <1>25, <2>1, QueuedLast, LenProperties DEF destroyServer
<1>26. CASE peerSends
  <2>1. received' \in 0 .. MaxUnread
    BY <1>26, BoundsAssumption DEF peerSends
  <2> QED
    BY <1>26, <2>1 DEF peerSends
<1>27. CASE peerCloses
  BY <1>27 DEF peerCloses
<1>28. CASE peerResets
  BY <1>28 DEF peerResets
<1>29. CASE UNCHANGED vars
  BY <1>29 DEF vars
<1> QED
  BY <1>1, <1>2, <1>3, <1>4, <1>5, <1>6, <1>7, <1>8, <1>9, <1>10, <1>11,
     <1>12, <1>13, <1>14, <1>15, <1>16, <1>17, <1>18, <1>19, <1>20, <1>21,
     <1>22, <1>23, <1>24, <1>25, <1>26, <1>27, <1>28, <1>29 DEF Next,
     LoopSteps, CallSteps, UserCalls, Peer

LEMMA NextFlags == ConnInv /\ [Next]_vars => Flags'
<1> SUFFICES ASSUME ConnInv, [Next]_vars
             PROVE  Flags'
  OBVIOUS
<1> USE DEF ConnInv, Flags, connVars, outVars, peerVars, loopVars, serverVars,
    userVars
<1>1. CASE poll
  BY <1>1 DEF poll
<1>2. CASE handleEvent
  BY <1>2 DEF handleEvent
<1>3. CASE handleError
  BY <1>3 DEF handleError
<1>4. CASE handleRead
  BY <1>4 DEF handleRead
<1>5. CASE endOfEvent
  BY <1>5 DEF endOfEvent, handleWrite
<1>6. CASE endOfFunctors
  BY <1>6 DEF endOfFunctors
<1>7. CASE connectEstablished
  BY <1>7 DEF connectEstablished
<1>8. CASE connectionDestroyed
  BY <1>8 DEF connectionDestroyed
<1>9. CASE setDisconnected
  BY <1>9 DEF setDisconnected
<1>10. CASE writeComplete
  BY <1>10 DEF writeComplete
<1>11. CASE runSend
  BY <1>11 DEF runSend, sendInLoop
<1>12. CASE runShutdown
  BY <1>12 DEF runShutdown, shutdownInLoop
<1>13. CASE endOfCallback
  BY <1>13 DEF endOfCallback
<1>14. CASE removeChannel
  BY <1>14 DEF removeChannel
<1>15. CASE removeConnection
  BY <1>15 DEF removeConnection, removeConnectionInLoop
<1>16. CASE runRemoval
  BY <1>16 DEF runRemoval, removeConnectionInLoop
<1>17. ASSUME NEW u \in Users, NEW len \in Lengths, queueSend(u, len)
      PROVE  Flags'
  BY <1>17 DEF queueSend
<1>18. ASSUME NEW u \in Users, setDisconnecting(u)
      PROVE  Flags'
  BY <1>18 DEF setDisconnecting
<1>19. ASSUME NEW u \in Users, queueShutdown(u)
      PROVE  Flags'
  BY <1>19 DEF queueShutdown
<1>20. ASSUME NEW len \in Lengths, sendFromLoop(len)
      PROVE  Flags'
  BY <1>20 DEF sendFromLoop, sendInLoop
<1>21. CASE shutdownFromLoop
  BY <1>21 DEF shutdownFromLoop, shutdownInLoop
<1>22. ASSUME NEW u \in Users, send(u)
      PROVE  Flags'
  BY <1>22 DEF send, BeginCall
<1>23. ASSUME NEW u \in Users, shutdown(u)
      PROVE  Flags'
  BY <1>23 DEF shutdown, BeginCall
<1>24. ASSUME NEW u \in Users, release(u)
      PROVE  Flags'
  BY <1>24 DEF release
<1>25. CASE destroyServer
  BY <1>25 DEF destroyServer
<1>26. CASE peerSends
  BY <1>26 DEF peerSends
<1>27. CASE peerCloses
  BY <1>27 DEF peerCloses
<1>28. CASE peerResets
  BY <1>28 DEF peerResets
<1>29. CASE UNCHANGED vars
  BY <1>29 DEF vars
<1> QED
  BY <1>1, <1>2, <1>3, <1>4, <1>5, <1>6, <1>7, <1>8, <1>9, <1>10, <1>11,
     <1>12, <1>13, <1>14, <1>15, <1>16, <1>17, <1>18, <1>19, <1>20, <1>21,
     <1>22, <1>23, <1>24, <1>25, <1>26, <1>27, <1>28, <1>29 DEF Next,
     LoopSteps, CallSteps, UserCalls, Peer

LEMMA NextPlaces == ConnInv /\ [Next]_vars => Places'
<1> SUFFICES ASSUME ConnInv, [Next]_vars
             PROVE  Places'
  OBVIOUS
<1> USE DEF ConnInv, Places, Watching, connVars, outVars, peerVars, loopVars,
    serverVars, userVars
<1>1. CASE poll
  BY <1>1 DEF poll, Ready
<1>2. CASE handleEvent
  BY <1>2 DEF handleEvent, handleClose
<1>3. CASE handleError
  BY <1>3 DEF handleError
<1>4. CASE handleRead
  BY <1>4 DEF handleRead, handleClose
<1>5. CASE endOfEvent
  BY <1>5 DEF endOfEvent, isWriting
<1>6. CASE endOfFunctors
  BY <1>6 DEF endOfFunctors
<1>7. CASE connectEstablished
  <2>1. state = "kConnecting" /\ removals = 0
    BY <1>7, NextIsFunctor DEF connectEstablished, NextFunctor, Fresh
  <2> QED
    BY <1>7, <2>1 DEF connectEstablished, NextFunctor
<1>8. CASE connectionDestroyed
  <2>1. ~inMap
    BY <1>8, NextIsFunctor DEF connectionDestroyed, NextFunctor, Mapped
  <2> QED
    BY <1>8, <2>1, BoundsAssumption DEF connectionDestroyed, NextFunctor, Types
<1>9. CASE setDisconnected
  BY <1>9 DEF setDisconnected
<1>10. CASE writeComplete
  BY <1>10 DEF writeComplete, NextFunctor
<1>11. CASE runSend
  <2>1. /\ running[taken + 1] \in Functors /\ running[taken + 1].len \in Lengths
    BY <1>11, NextIsFunctor, KindsOfFunctors DEF runSend, NextFunctor, ConnInv
  <2>2. /\ state' = state
        /\ loopAt' \in {"functors", "aborted"}
        /\ (interest' = interest /\ index' = index) \/ (interest' = {"read"} /\ index' = "kAdded")
    <3>1. CASE Alive
      <4>1. sendInLoop(running[taken + 1].len, "functors")
        BY <1>11, <3>1 DEF runSend
      <4> QED
        BY <2>1, <4>1, SendEffect DEF ConnInv
    <3>2. CASE ~Alive
      BY <1>11, <3>2 DEF runSend, connVars
    <3> QED
      BY <3>1, <3>2
  <2> QED
    BY <1>11, <2>2 DEF runSend, NextFunctor
<1>12. CASE runShutdown
  BY <1>12 DEF runShutdown, shutdownInLoop, NextFunctor
<1>13. CASE endOfCallback
  BY <1>13 DEF endOfCallback
<1>14. CASE removeChannel
  BY <1>14 DEF removeChannel
<1>15. CASE removeConnection
  BY <1>15 DEF removeConnection, removeConnectionInLoop
<1>16. CASE runRemoval
  BY <1>16 DEF runRemoval, removeConnectionInLoop, Running
<1>17. ASSUME NEW u \in Users, NEW len \in Lengths, queueSend(u, len)
      PROVE  Places'
  BY <1>17 DEF queueSend
<1>18. ASSUME NEW u \in Users, setDisconnecting(u)
      PROVE  Places'
  BY <1>18 DEF setDisconnecting
<1>19. ASSUME NEW u \in Users, queueShutdown(u)
      PROVE  Places'
  BY <1>19 DEF queueShutdown
<1>20. ASSUME NEW len \in Lengths, sendFromLoop(len)
      PROVE  Places'
  <2>1. sendInLoop(len, loopAt)
    BY <1>20 DEF sendFromLoop
  <2>2. /\ state' = state
        /\ loopAt' \in {loopAt, "aborted"}
        /\ (interest' = interest /\ index' = index) \/ (interest' = {"read"} /\ index' = "kAdded")
    BY <2>1, SendEffect DEF ConnInv
  <2> QED
    BY <1>20, <2>2 DEF sendFromLoop, CallByLoop, InCallback
<1>21. CASE shutdownFromLoop
  BY <1>21 DEF shutdownFromLoop, shutdownInLoop, CallByLoop, InCallback
<1>22. ASSUME NEW u \in Users, send(u)
      PROVE  Places'
  BY <1>22 DEF send, BeginCall
<1>23. ASSUME NEW u \in Users, shutdown(u)
      PROVE  Places'
  BY <1>23 DEF shutdown, BeginCall
<1>24. ASSUME NEW u \in Users, release(u)
      PROVE  Places'
  BY <1>24 DEF release
<1>25. CASE destroyServer
  BY <1>25 DEF destroyServer
<1>26. CASE peerSends
  BY <1>26 DEF peerSends
<1>27. CASE peerCloses
  BY <1>27 DEF peerCloses
<1>28. CASE peerResets
  BY <1>28 DEF peerResets
<1>29. CASE UNCHANGED vars
  BY <1>29 DEF vars
<1> QED
  BY <1>1, <1>2, <1>3, <1>4, <1>5, <1>6, <1>7, <1>8, <1>9, <1>10, <1>11,
     <1>12, <1>13, <1>14, <1>15, <1>16, <1>17, <1>18, <1>19, <1>20, <1>21,
     <1>22, <1>23, <1>24, <1>25, <1>26, <1>27, <1>28, <1>29 DEF Next,
     LoopSteps, CallSteps, UserCalls, Peer

LEMMA NextWatching == ConnInv /\ [Next]_vars => Watching'
<1> SUFFICES ASSUME ConnInv, [Next]_vars
             PROVE  Watching'
  OBVIOUS
<1> USE DEF ConnInv, Places, Watching, connVars, outVars, peerVars, loopVars,
    serverVars, userVars
<1>1. CASE poll
  BY <1>1 DEF poll
<1>2. CASE handleEvent
  BY <1>2 DEF handleEvent, handleClose
<1>3. CASE handleError
  BY <1>3 DEF handleError
<1>4. CASE handleRead
  BY <1>4 DEF handleRead, handleClose
<1>5. CASE endOfEvent
  BY <1>5 DEF endOfEvent, isWriting
<1>6. CASE endOfFunctors
  BY <1>6 DEF endOfFunctors
<1>7. CASE connectEstablished
  BY <1>7 DEF connectEstablished, NextFunctor
<1>8. CASE connectionDestroyed
  BY <1>8 DEF connectionDestroyed, NextFunctor
<1>9. CASE setDisconnected
  BY <1>9 DEF setDisconnected
<1>10. CASE writeComplete
  BY <1>10 DEF writeComplete, NextFunctor
<1>11. CASE runSend
  <2>1. /\ running[taken + 1] \in Functors /\ running[taken + 1].len \in Lengths
    BY <1>11, NextIsFunctor, KindsOfFunctors DEF runSend, NextFunctor, ConnInv
  <2>2. /\ state' = state
        /\ loopAt' \in {"functors", "aborted"}
        /\ (interest' = interest /\ index' = index) \/ (interest' = {"read"} /\ index' = "kAdded")
    <3>1. CASE Alive
      <4>1. sendInLoop(running[taken + 1].len, "functors")
        BY <1>11, <3>1 DEF runSend
      <4> QED
        BY <2>1, <4>1, SendEffect DEF ConnInv
    <3>2. CASE ~Alive
      BY <1>11, <3>2 DEF runSend, connVars
    <3> QED
      BY <3>1, <3>2
  <2> QED
    BY <1>11, <2>2 DEF runSend, NextFunctor
<1>12. CASE runShutdown
  BY <1>12 DEF runShutdown, shutdownInLoop, NextFunctor
<1>13. CASE endOfCallback
  BY <1>13 DEF endOfCallback
<1>14. CASE removeChannel
  BY <1>14 DEF removeChannel
<1>15. CASE removeConnection
  BY <1>15 DEF removeConnection, removeConnectionInLoop
<1>16. CASE runRemoval
  BY <1>16 DEF runRemoval, removeConnectionInLoop, Running
<1>17. ASSUME NEW u \in Users, NEW len \in Lengths, queueSend(u, len)
      PROVE  Watching'
  BY <1>17 DEF queueSend
<1>18. ASSUME NEW u \in Users, setDisconnecting(u)
      PROVE  Watching'
  BY <1>18 DEF setDisconnecting
<1>19. ASSUME NEW u \in Users, queueShutdown(u)
      PROVE  Watching'
  BY <1>19 DEF queueShutdown
<1>20. ASSUME NEW len \in Lengths, sendFromLoop(len)
      PROVE  Watching'
  <2>1. sendInLoop(len, loopAt)
    BY <1>20 DEF sendFromLoop
  <2>2. /\ state' = state
        /\ loopAt' \in {loopAt, "aborted"}
        /\ (interest' = interest /\ index' = index) \/ (interest' = {"read"} /\ index' = "kAdded")
    BY <2>1, SendEffect DEF ConnInv
  <2> QED
    BY <1>20, <2>2 DEF sendFromLoop, CallByLoop, InCallback
<1>21. CASE shutdownFromLoop
  BY <1>21 DEF shutdownFromLoop, shutdownInLoop, CallByLoop, InCallback
<1>22. ASSUME NEW u \in Users, send(u)
      PROVE  Watching'
  BY <1>22 DEF send, BeginCall
<1>23. ASSUME NEW u \in Users, shutdown(u)
      PROVE  Watching'
  BY <1>23 DEF shutdown, BeginCall
<1>24. ASSUME NEW u \in Users, release(u)
      PROVE  Watching'
  BY <1>24 DEF release
<1>25. CASE destroyServer
  BY <1>25 DEF destroyServer
<1>26. CASE peerSends
  BY <1>26 DEF peerSends
<1>27. CASE peerCloses
  BY <1>27 DEF peerCloses
<1>28. CASE peerResets
  BY <1>28 DEF peerResets
<1>29. CASE UNCHANGED vars
  BY <1>29 DEF vars
<1> QED
  BY <1>1, <1>2, <1>3, <1>4, <1>5, <1>6, <1>7, <1>8, <1>9, <1>10, <1>11,
     <1>12, <1>13, <1>14, <1>15, <1>16, <1>17, <1>18, <1>19, <1>20, <1>21,
     <1>22, <1>23, <1>24, <1>25, <1>26, <1>27, <1>28, <1>29 DEF Next,
     LoopSteps, CallSteps, UserCalls, Peer

LEMMA NextFresh == ConnInv /\ [Next]_vars => Fresh'
<1> SUFFICES ASSUME ConnInv, [Next]_vars
             PROVE  Fresh'
  OBVIOUS
<1> USE DEF ConnInv, Fresh, Places, Watching, Remaining, connVars, outVars,
    peerVars, loopVars, serverVars, userVars
<1>1. CASE poll
  <2>1. CASE Ready = {}
    BY <1>1, <2>1, EmptySeq, LenProperties DEF poll, Types
  <2>2. CASE Ready # {}
    <3>1. index = "kAdded"
      BY <2>2 DEF Ready
    <3> QED
      BY <1>1, <2>2, <3>1 DEF poll
  <2> QED
    BY <2>1, <2>2
<1>2. CASE handleEvent
  BY <1>2 DEF handleEvent, handleClose
<1>3. CASE handleError
  BY <1>3 DEF handleError
<1>4. CASE handleRead
  BY <1>4 DEF handleRead, handleClose
<1>5. CASE endOfEvent
  BY <1>5, EmptySeq, LenProperties DEF endOfEvent, isWriting, Types
<1>6. CASE endOfFunctors
  BY <1>6, EmptySeq, LenProperties DEF endOfFunctors, Types
<1>7. CASE connectEstablished
  <2>1. taken + 1 \in Remaining /\ running[taken + 1] \in Functors /\ taken \in Nat
    BY <1>7, NextIsFunctor DEF connectEstablished, NextFunctor, Types
  <2>2. Remaining' \subseteq Remaining \ {taken + 1}
    BY <1>7, <2>1 DEF connectEstablished, NextFunctor, Remaining, Types
  <2> QED
    BY <1>7, <2>1, <2>2 DEF connectEstablished, NextFunctor
<1>8. CASE connectionDestroyed
  <2>1. taken + 1 \in Remaining /\ running[taken + 1] \in Functors /\ taken \in Nat
    BY <1>8, NextIsFunctor DEF connectionDestroyed, NextFunctor, Types
  <2>2. Remaining' \subseteq Remaining \ {taken + 1}
    BY <1>8, <2>1 DEF connectionDestroyed, NextFunctor, Remaining, Types
  <2> QED
    BY <1>8, <2>1, <2>2 DEF connectionDestroyed, NextFunctor
<1>9. CASE setDisconnected
  BY <1>9 DEF setDisconnected
<1>10. CASE writeComplete
  <2>1. taken + 1 \in Remaining /\ running[taken + 1] \in Functors /\ taken \in Nat
    BY <1>10, NextIsFunctor DEF writeComplete, NextFunctor, Types
  <2>2. Remaining' \subseteq Remaining \ {taken + 1}
    BY <1>10, <2>1 DEF writeComplete, NextFunctor, Remaining, Types
  <2> QED
    BY <1>10, <2>1, <2>2 DEF writeComplete, NextFunctor
<1>11. CASE runSend
  <2>1. /\ running[taken + 1] \in Functors /\ running[taken + 1].len \in Lengths
        /\ running[taken + 1].kind = "send" /\ taken + 1 \in Remaining
    BY <1>11, NextIsFunctor, KindsOfFunctors DEF runSend, NextFunctor, ConnInv
  <2>2. state # "kConnecting"
    BY <1>11, <2>1, EmptySeq DEF runSend, NextFunctor
  <2>3. /\ state' = state
        /\ \/ pending' = pending
           \/ \E f \in Functors : f.kind # "established" /\ pending' = Append(pending, f)
    <3>1. CASE Alive
      <4>1. sendInLoop(running[taken + 1].len, "functors")
        BY <1>11, <3>1 DEF runSend
      <4> QED
        BY <2>1, <4>1, SendEffect, NewFunctors DEF ConnInv
    <3>2. CASE ~Alive
      BY <1>11, <3>2 DEF runSend
    <3> QED
      BY <3>1, <3>2
  <2> QED
    BY <1>11, <2>2, <2>3, FreshStays DEF runSend, NextFunctor
<1>12. CASE runShutdown
  <2>1. taken + 1 \in Remaining /\ running[taken + 1] \in Functors /\ taken \in Nat
    BY <1>12, NextIsFunctor DEF runShutdown, NextFunctor, Types
  <2>2. Remaining' \subseteq Remaining \ {taken + 1}
    BY <1>12, <2>1 DEF runShutdown, NextFunctor, Remaining, Types
  <2> QED
    BY <1>12, <2>1, <2>2 DEF runShutdown, NextFunctor
<1>13. CASE endOfCallback
  BY <1>13 DEF endOfCallback
<1>14. CASE removeChannel
  BY <1>14 DEF removeChannel
<1>15. CASE removeConnection
  <2>1. state # "kConnecting" /\ state' = state
    BY <1>15 DEF removeConnection
  <2>2. /\ running' = running /\ taken' = taken
        /\ pending' = pending \/ pending' = Append(pending, Destroyed)
    BY <1>15 DEF removeConnection, removeConnectionInLoop
  <2> QED
    BY <2>1, <2>2, NewFunctors, FreshStays
<1>16. CASE runRemoval
  <2>1. state # "kConnecting" /\ state' = state
    BY <1>16 DEF runRemoval
  <2>2. /\ running' = running /\ taken' = taken
        /\ pending' = pending \/ pending' = Append(pending, Destroyed)
    BY <1>16 DEF runRemoval, removeConnectionInLoop
  <2> QED
    BY <2>1, <2>2, NewFunctors, FreshStays
<1>17. ASSUME NEW u \in Users, NEW len \in Lengths, queueSend(u, len)
      PROVE  Fresh'
  <2>1. Send(u, len) \in Functors /\ Send(u, len).kind = "send"
    BY NewFunctors
  <2>2. state # "kConnecting"
    BY <1>17 DEF queueSend
  <2> QED
    BY <1>17, <2>1, <2>2, FreshStays DEF queueSend
<1>18. ASSUME NEW u \in Users, setDisconnecting(u)
      PROVE  Fresh'
  BY <1>18 DEF setDisconnecting
<1>19. ASSUME NEW u \in Users, queueShutdown(u)
      PROVE  Fresh'
  <2>1. Shutdown(u) \in Functors /\ Shutdown(u).kind = "shutdown"
    BY NewFunctors
  <2>2. state # "kConnecting"
    BY <1>19 DEF queueShutdown
  <2> QED
    BY <1>19, <2>1, <2>2, FreshStays DEF queueShutdown
<1>20. ASSUME NEW len \in Lengths, sendFromLoop(len)
      PROVE  Fresh'
  <2>1. sendInLoop(len, loopAt)
    BY <1>20 DEF sendFromLoop
  <2>2. /\ state' = state
        /\ loopAt' \in {loopAt, "aborted"}
        /\ (interest' = interest /\ index' = index) \/ (interest' = {"read"} /\ index' = "kAdded")
    BY <2>1, SendEffect DEF ConnInv
  <2>3. \/ pending' = pending
        \/ \E f \in Functors : f.kind # "established" /\ pending' = Append(pending, f)
    BY <2>1, SendEffect, NewFunctors DEF ConnInv
  <2> QED
    BY <1>20, <2>2, <2>3, FreshStays DEF sendFromLoop
<1>21. CASE shutdownFromLoop
  BY <1>21 DEF shutdownFromLoop, shutdownInLoop, CallByLoop, InCallback
<1>22. ASSUME NEW u \in Users, send(u)
      PROVE  Fresh'
  BY <1>22 DEF send, BeginCall
<1>23. ASSUME NEW u \in Users, shutdown(u)
      PROVE  Fresh'
  BY <1>23 DEF shutdown, BeginCall
<1>24. ASSUME NEW u \in Users, release(u)
      PROVE  Fresh'
  BY <1>24 DEF release
<1>25. CASE destroyServer
  <2>1. Destroyed \in Functors /\ Destroyed.kind = "destroyed"
    BY NewFunctors
  <2>2. CASE inMap
    <3>0. pending' = Append(pending, Destroyed) /\ pending \in Seq(Functors)
      BY <1>25, <2>2 DEF destroyServer, Types
    <3>1. /\ pending' # <<>> /\ DOMAIN pending' = 1 .. Len(pending) + 1
          /\ \A i \in 1 .. Len(pending) : pending'[i] = pending[i]
          /\ pending'[Len(pending) + 1] = Destroyed
          /\ DOMAIN pending = 1 .. Len(pending) /\ Len(pending) \in Nat
      BY <2>1, <3>0, QueuedLast
    <3>2. pending # <<>> => 1 \in DOMAIN pending
      BY <3>1, EmptySeq DEF Types
    <3> QED
      BY <1>25, <2>1, <3>1, <3>2 DEF destroyServer
  <2>3. CASE ~inMap
    BY <1>25, <2>3 DEF destroyServer
  <2> QED
    BY <2>2, <2>3
<1>26. CASE peerSends
  BY <1>26 DEF peerSends
<1>27. CASE peerCloses
  BY <1>27 DEF peerCloses
<1>28. CASE peerResets
  BY <1>28 DEF peerResets
<1>29. CASE UNCHANGED vars
  BY <1>29 DEF vars
<1> QED
  BY <1>1, <1>2, <1>3, <1>4, <1>5, <1>6, <1>7, <1>8, <1>9, <1>10, <1>11,
     <1>12, <1>13, <1>14, <1>15, <1>16, <1>17, <1>18, <1>19, <1>20, <1>21,
     <1>22, <1>23, <1>24, <1>25, <1>26, <1>27, <1>28, <1>29 DEF Next,
     LoopSteps, CallSteps, UserCalls, Peer

LEMMA NextMapped == ConnInv /\ [Next]_vars => Mapped'
<1> SUFFICES ASSUME ConnInv, [Next]_vars
             PROVE  Mapped'
  OBVIOUS
<1> USE DEF ConnInv, Fresh, Places, Watching, Mapped, Remaining,
    MappedIsWatched, connVars, outVars, peerVars, loopVars, serverVars,
    userVars
<1>1. CASE poll
  BY <1>1, EmptySeq, LenProperties DEF poll, Types
<1>2. CASE handleEvent
  BY <1>2 DEF handleEvent, handleClose
<1>3. CASE handleError
  BY <1>3 DEF handleError
<1>4. CASE handleRead
  BY <1>4 DEF handleRead, handleClose
<1>5. CASE endOfEvent
  BY <1>5, EmptySeq, LenProperties DEF endOfEvent, isWriting, Types
<1>6. CASE endOfFunctors
  BY <1>6, EmptySeq, LenProperties DEF endOfFunctors, Types
<1>7. CASE connectEstablished
  <2>1. state = "kConnecting" /\ told = "nothing"
    BY <1>7, NextIsFunctor DEF connectEstablished, NextFunctor, Fresh
  <2>2. MappedIsWatched'
    BY <1>7 DEF connectEstablished, Watching
  <2> QED
    BY <1>7, <2>1, <2>2, MappedStays DEF connectEstablished, NextFunctor, Mapped
<1>8. CASE connectionDestroyed
  <2>1. ~inMap
    BY <1>8, NextIsFunctor DEF connectionDestroyed, NextFunctor
  <2> QED
    BY <1>8, <2>1 DEF connectionDestroyed, NextFunctor
<1>9. CASE setDisconnected
  BY <1>9 DEF setDisconnected
<1>10. CASE writeComplete
  <2>2. MappedIsWatched'
    BY <1>10 DEF writeComplete, NextFunctor
  <2> QED
    BY <1>10, <2>2, MappedStays DEF writeComplete, NextFunctor
<1>11. CASE runSend
  <2>1. /\ running[taken + 1] \in Functors /\ running[taken + 1].len \in Lengths
        /\ running[taken + 1].kind = "send" /\ taken + 1 \in Remaining
    BY <1>11, NextIsFunctor, KindsOfFunctors DEF runSend, NextFunctor, ConnInv
  <2>2. state # "kConnecting"
    BY <1>11, <2>1, EmptySeq DEF runSend, NextFunctor
  <2>3. /\ state' = state
        /\ (interest' = interest /\ index' = index) \/ (interest' = {"read"} /\ index' = "kAdded")
        /\ \/ pending' = pending
           \/ \E f \in Functors : f.kind # "destroyed" /\ pending' = Append(pending, f)
    <3>1. CASE Alive
      <4>1. sendInLoop(running[taken + 1].len, "functors")
        BY <1>11, <3>1 DEF runSend
      <4> QED
        BY <2>1, <4>1, SendEffect, NewFunctors DEF ConnInv
    <3>2. CASE ~Alive
      BY <1>11, <3>2 DEF runSend, connVars
    <3> QED
      BY <3>1, <3>2
  <2>4. MappedIsWatched'
    BY <1>11, <2>3 DEF runSend
  <2> QED
    BY <1>11, <2>3, <2>4, MappedStays DEF runSend, NextFunctor
<1>12. CASE runShutdown
  <2>2. MappedIsWatched'
    BY <1>12 DEF runShutdown, NextFunctor
  <2> QED
    BY <1>12, <2>2, MappedStays DEF runShutdown, NextFunctor
<1>13. CASE endOfCallback
  BY <1>13 DEF endOfCallback
<1>14. CASE removeChannel
  BY <1>14 DEF removeChannel
<1>15. CASE removeConnection
  BY <1>15 DEF removeConnection, removeConnectionInLoop
<1>16. CASE runRemoval
  BY <1>16 DEF runRemoval, removeConnectionInLoop
<1>17. ASSUME NEW u \in Users, NEW len \in Lengths, queueSend(u, len)
      PROVE  Mapped'
  <2>1. Send(u, len) \in Functors /\ Send(u, len).kind = "send"
    BY NewFunctors
  <2>2. MappedIsWatched'
    BY <1>17 DEF queueSend
  <2> QED
    BY <1>17, <2>1, <2>2, MappedStays DEF queueSend
<1>18. ASSUME NEW u \in Users, setDisconnecting(u)
      PROVE  Mapped'
  BY <1>18 DEF setDisconnecting
<1>19. ASSUME NEW u \in Users, queueShutdown(u)
      PROVE  Mapped'
  <2>1. Shutdown(u) \in Functors /\ Shutdown(u).kind = "shutdown"
    BY NewFunctors
  <2>2. MappedIsWatched'
    BY <1>19 DEF queueShutdown
  <2> QED
    BY <1>19, <2>1, <2>2, MappedStays DEF queueShutdown
<1>20. ASSUME NEW len \in Lengths, sendFromLoop(len)
      PROVE  Mapped'
  <2>1. sendInLoop(len, loopAt)
    BY <1>20 DEF sendFromLoop
  <2>2. /\ state' = state
        /\ loopAt' \in {loopAt, "aborted"}
        /\ (interest' = interest /\ index' = index) \/ (interest' = {"read"} /\ index' = "kAdded")
    BY <2>1, SendEffect DEF ConnInv
  <2>3. \/ pending' = pending
        \/ \E f \in Functors : f.kind # "destroyed" /\ pending' = Append(pending, f)
    BY <2>1, SendEffect, NewFunctors DEF ConnInv
  <2>4. MappedIsWatched'
    BY <1>20, <2>2 DEF sendFromLoop
  <2> QED
    BY <1>20, <2>3, <2>4, MappedStays DEF sendFromLoop
<1>21. CASE shutdownFromLoop
  BY <1>21 DEF shutdownFromLoop, shutdownInLoop, CallByLoop, InCallback
<1>22. ASSUME NEW u \in Users, send(u)
      PROVE  Mapped'
  BY <1>22 DEF send, BeginCall
<1>23. ASSUME NEW u \in Users, shutdown(u)
      PROVE  Mapped'
  BY <1>23 DEF shutdown, BeginCall
<1>24. ASSUME NEW u \in Users, release(u)
      PROVE  Mapped'
  BY <1>24 DEF release
<1>25. CASE destroyServer
  BY <1>25 DEF destroyServer
<1>26. CASE peerSends
  BY <1>26 DEF peerSends
<1>27. CASE peerCloses
  BY <1>27 DEF peerCloses
<1>28. CASE peerResets
  BY <1>28 DEF peerResets
<1>29. CASE UNCHANGED vars
  BY <1>29 DEF vars
<1> QED
  BY <1>1, <1>2, <1>3, <1>4, <1>5, <1>6, <1>7, <1>8, <1>9, <1>10, <1>11,
     <1>12, <1>13, <1>14, <1>15, <1>16, <1>17, <1>18, <1>19, <1>20, <1>21,
     <1>22, <1>23, <1>24, <1>25, <1>26, <1>27, <1>28, <1>29 DEF Next,
     LoopSteps, CallSteps, UserCalls, Peer

LEMMA NextConnInv == ConnInv /\ [Next]_vars => ConnInv'
  BY NextTypes, NextFlags, NextPlaces, NextWatching, NextFresh, NextMapped DEF ConnInv

LEMMA AlwaysConnInv == Spec => []ConnInv
  BY InitConnInv, NextConnInv, PTL DEF Spec

LEMMA ConnInvImpliesTypeOK == ConnInv => TypeOK
<1> SUFFICES ASSUME ConnInv
             PROVE  TypeOK
  OBVIOUS
<1>1. {shut, fin, rst, sockErr} \subseteq BOOLEAN /\ {oneLoop, inMap, serverGone} \subseteq BOOLEAN
  BY Zenon DEF ConnInv, Flags
<1>2. /\ index = "kAdded" => interest # {}
      /\ index = "kDeleted" => loopAt = "destroyed"
      /\ state = "kConnecting" => told = "nothing" /\ index = "kNew" /\ holders = {}
  BY DEF ConnInv, Watching, Fresh
<1> QED
  BY <1>1, <1>2 DEF ConnInv, Types, TypeOK

LEMMA ConnInvImpliesDownBeforeFree == ConnInv => DownBeforeFree
<1> SUFFICES ASSUME ConnInv, ~Alive, ~serverGone
             PROVE  told = "down"
  BY DEF DownBeforeFree
<1>1. "map" \notin Refs
  BY DEF Alive
<1>2. ~inMap
  BY <1>1 DEF Refs
<1> QED
  BY <1>2 DEF ConnInv, Mapped

\* The variables of a TcpConnection, of its Channel, of the loop's vectors and
\* of the server keep their types; what Channel::update() leaves in index_
\* agrees with events_, and a channel without events is only met inside
\* connectionDestroyed(), whatever the calls, the lengths and the threads.
THEOREM ConnectionTypeCorrect == Spec => []TypeOK
  BY AlwaysConnInv, ConnInvImpliesTypeOK, PTL

\* From connectEstablished() on, a connection that connections_ still holds is
\* registered with the poller for reading: handleClose() and sendInLoop() never
\* leave the peer's end unnoticed, for any number of threads and calls.
THEOREM ConnectionMappedIsWatched == Spec => []MappedIsWatched
<1>1. ConnInv => MappedIsWatched
  BY DEF ConnInv, Mapped
<1> QED
  BY <1>1, AlwaysConnInv, PTL

\* No shared_ptr to the connection is the last before connectionCallback_ has
\* told the user that it is down, unless ~TcpServer has dropped it.
THEOREM ConnectionDownBeforeFree == Spec => []DownBeforeFree
  BY AlwaysConnInv, ConnInvImpliesDownBeforeFree, PTL

-----------------------------------------------------------------------------
(* The bytes on the wire.                                                  *)

\* write() is only tried when everything that was sent before is on the wire,
\* and a write that takes n > 0 bytes leaves n bytes (the wrong number, and in
\* part the wrong bytes) in outputBuffer_, so that it is the last one.
LEMMA SendKeepsPrefix ==
  ASSUME Types, Watching, WireInv, NEW len \in Lengths, NEW to, sendInLoop(len, to)
  PROVE  WireInv'
<1>1. /\ len \in Nat /\ accepted \in Nat /\ outBuf \in Seq(Nat) /\ wire \in Seq(Nat)
      /\ Len(wire) \in Nat /\ Len(outBuf) \in Nat /\ ~isWriting
  BY BoundsAssumption, LenProperties DEF Types, Watching, isWriting
<1>2. \A from, to_ \in Nat : from <= to_ =>
        /\ Bytes(from, to_, len) \in Seq(Nat)
        /\ Len(Bytes(from, to_, len)) = to_ - from
        /\ \A i \in 1 .. to_ - from :
             from + i <= len => Bytes(from, to_, len)[i] = accepted + (from + i)
  <2> SUFFICES ASSUME NEW from \in Nat, NEW to_ \in Nat, from <= to_
               PROVE  /\ Bytes(from, to_, len) \in Seq(Nat)
                      /\ Len(Bytes(from, to_, len)) = to_ - from
                      /\ \A i \in 1 .. to_ - from :
                           from + i <= len => Bytes(from, to_, len)[i] = accepted + (from + i)
    OBVIOUS
  <2>1. to_ - from \in Nat
    OBVIOUS
  <2>2. Bytes(from, to_, len) \in [1 .. to_ - from -> Nat]
    BY <1>1, <2>1 DEF Bytes, Unit, Junk
  <2>3. Bytes(from, to_, len) \in Seq(Nat) /\ Len(Bytes(from, to_, len)) = to_ - from
    BY <2>1, <2>2
  <2>4. \A i \in 1 .. to_ - from :
          from + i <= len => Bytes(from, to_, len)[i] = accepted + (from + i)
    BY DEF Bytes, Unit
  <2> QED
    BY <2>3, <2>4
<1>3. CASE /\ WriteFirst
           /\ \E n \in (IF len = 0 THEN {0} ELSE 1 .. len) :
                /\ wire' = wire \o Bytes(0, n, len)
                /\ keepRest(Bytes(n, n + n, len))
           /\ accepted' = accepted + len
  <2>1. PICK n \in (IF len = 0 THEN {0} ELSE 1 .. len) :
                /\ wire' = wire \o Bytes(0, n, len)
                /\ keepRest(Bytes(n, n + n, len))
    BY <1>3
  <2>2. n \in Nat /\ n <= len /\ (n = 0 => len = 0) /\ n + n \in Nat
    BY <1>1
  <2>3. outBuf = <<>> /\ Len(wire) = accepted /\ \A i \in 1 .. accepted : wire[i] = i
    BY <1>1, <1>3, LenProperties DEF WriteFirst, WireInv, WireIsPrefix
  <2> DEFINE taking == Bytes(0, n, len)
             keeping == Bytes(n, n + n, len)
  <2>4. /\ taking \in Seq(Nat) /\ Len(taking) = n
        /\ \A i \in 1 .. n : taking[i] = accepted + i
    <3>1. 0 \in Nat /\ 0 <= n /\ n - 0 = n /\ \A i \in 1 .. n : 0 + i = i /\ i <= len
      BY <1>1, <2>2
    <3>2. /\ taking \in Seq(Nat) /\ Len(taking) = n - 0
          /\ \A i \in 1 .. n - 0 : 0 + i <= len => taking[i] = accepted + (0 + i)
      BY <1>2, <2>2, <3>1, Zenon
    <3> QED
      BY <3>1, <3>2
  <2>5. keeping \in Seq(Nat) /\ Len(keeping) = n
    <3>1. n <= n + n /\ (n + n) - n = n
      BY <2>2
    <3>2. keeping \in Seq(Nat) /\ Len(keeping) = (n + n) - n
      BY <1>2, <2>2, <3>1, Zenon
    <3> QED
      BY <3>1, <3>2
  <2>6. wire' = wire \o taking /\ outBuf' = outBuf \o keeping
    BY <2>1 DEF keepRest
  <2> HIDE DEF taking, keeping
  <2>7. /\ wire' \in Seq(Nat) /\ Len(wire') = accepted + n
        /\ \A i \in 1 .. accepted + n :
             wire'[i] = IF i <= accepted THEN wire[i] ELSE taking[i - accepted]
    BY <1>1, <2>3, <2>4, <2>6, ConcatProperties
  <2>8. \A i \in DOMAIN wire' : wire'[i] = i
    <3>1. DOMAIN wire' = 1 .. accepted + n
      BY <2>7, LenProperties
    <3>2. \A i \in 1 .. accepted + n : wire'[i] = i
      BY <1>1, <2>2, <2>3, <2>4, <2>7
    <3> QED
      BY <3>1, <3>2
  <2>9. outBuf' = <<>> => Len(wire') = accepted'
    <3>1. Len(outBuf') = n
      BY <1>1, <2>3, <2>5, <2>6, ConcatProperties, EmptySeq
    <3>2. outBuf' = <<>> => n = 0
      BY <3>1, EmptySeq
    <3> QED
      BY <1>1, <1>3, <2>2, <2>7, <3>2
  <2> QED
    BY <1>1, <1>3, <2>2, <2>7, <2>8, <2>9 DEF WireInv, WireIsPrefix
<1>4. CASE /\ outBuf # <<>> \/ len > 0
           /\ keepRest(Bytes(0, len, len))
           /\ accepted' = accepted + len
           /\ UNCHANGED wire
  <2>1. Bytes(0, len, len) \in Seq(Nat) /\ Len(Bytes(0, len, len)) = len
    BY <1>1, <1>2
  <2>2. outBuf' = outBuf \o Bytes(0, len, len)
    BY <1>4 DEF keepRest
  <2>3. Len(outBuf') = Len(outBuf) + len
    BY <1>1, <2>1, <2>2, ConcatProperties
  <2>4. outBuf' # <<>>
    BY <1>1, <1>4, <2>3, EmptySeq
  <2> QED
    BY <1>1, <1>4, <2>4 DEF WireInv, WireIsPrefix
<1>5. CASE UNCHANGED outVars
  BY <1>5 DEF WireInv, WireIsPrefix, outVars
<1> QED
  BY <1>1, <1>3, <1>4, <1>5 DEF sendInLoop, WriteFirst, outVars

LEMMA NextWireInv == ConnInv /\ WireInv /\ [Next]_vars => WireInv'
<1> SUFFICES ASSUME ConnInv, WireInv, [Next]_vars
             PROVE  WireInv'
  OBVIOUS
<1> USE DEF WireInv, WireIsPrefix, connVars, outVars, peerVars, loopVars,
    serverVars, userVars
<1>1. CASE poll
  BY <1>1 DEF poll
<1>2. CASE handleEvent
  BY <1>2 DEF handleEvent
<1>3. CASE handleError
  BY <1>3 DEF handleError
<1>4. CASE handleRead
  BY <1>4 DEF handleRead
<1>5. CASE endOfEvent
  BY <1>5 DEF endOfEvent, isWriting, ConnInv, Watching
<1>6. CASE endOfFunctors
  BY <1>6 DEF endOfFunctors
<1>7. CASE connectEstablished
  BY <1>7 DEF connectEstablished
<1>8. CASE connectionDestroyed
  BY <1>8 DEF connectionDestroyed
<1>9. CASE setDisconnected
  BY <1>9 DEF setDisconnected
<1>10. CASE writeComplete
  BY <1>10 DEF writeComplete
<1>11. CASE runSend
  <2> HIDE DEF WireInv, WireIsPrefix
  <2>1. running[taken + 1].len \in Lengths
    BY <1>11, NextIsFunctor, KindsOfFunctors DEF runSend, NextFunctor, ConnInv
  <2>2. CASE Alive
    BY <1>11, <2>1, <2>2, SendKeepsPrefix DEF runSend, ConnInv
  <2>3. CASE ~Alive
    BY <1>11, <2>3 DEF runSend, WireInv, WireIsPrefix
  <2> QED
    BY <2>2, <2>3
<1>12. CASE runShutdown
  BY <1>12 DEF runShutdown
<1>13. CASE endOfCallback
  BY <1>13 DEF endOfCallback
<1>14. CASE removeChannel
  BY <1>14 DEF removeChannel
<1>15. CASE removeConnection
  BY <1>15 DEF removeConnection
<1>16. CASE runRemoval
  BY <1>16 DEF runRemoval
<1>17. ASSUME NEW u \in Users, NEW len \in Lengths, queueSend(u, len)
      PROVE  WireInv'
  BY <1>17 DEF queueSend
<1>18. ASSUME NEW u \in Users, setDisconnecting(u)
      PROVE  WireInv'
  BY <1>18 DEF setDisconnecting
<1>19. ASSUME NEW u \in Users, queueShutdown(u)
      PROVE  WireInv'
  BY <1>19 DEF queueShutdown
<1>20. ASSUME NEW len \in Lengths, sendFromLoop(len)
      PROVE  WireInv'
  <2> HIDE DEF WireInv, WireIsPrefix
  <2> QED
    BY <1>20, SendKeepsPrefix DEF sendFromLoop, ConnInv
<1>21. CASE shutdownFromLoop
  BY <1>21 DEF shutdownFromLoop
<1>22. ASSUME NEW u \in Users, send(u)
      PROVE  WireInv'
  BY <1>22 DEF send, BeginCall
<1>23. ASSUME NEW u \in Users, shutdown(u)
      PROVE  WireInv'
  BY <1>23 DEF shutdown, BeginCall
<1>24. ASSUME NEW u \in Users, release(u)
      PROVE  WireInv'
  BY <1>24 DEF release
<1>25. CASE destroyServer
  BY <1>25 DEF destroyServer
<1>26. CASE peerSends
  BY <1>26 DEF peerSends
<1>27. CASE peerCloses
  BY <1>27 DEF peerCloses
<1>28. CASE peerResets
  BY <1>28 DEF peerResets
<1>29. CASE UNCHANGED vars
  BY <1>29 DEF vars
<1> QED
  BY <1>1, <1>2, <1>3, <1>4, <1>5, <1>6, <1>7, <1>8, <1>9, <1>10, <1>11,
     <1>12, <1>13, <1>14, <1>15, <1>16, <1>17, <1>18, <1>19, <1>20, <1>21,
     <1>22, <1>23, <1>24, <1>25, <1>26, <1>27, <1>28, <1>29 DEF Next,
     LoopSteps, CallSteps, UserCalls, Peer

\* What TcpConnection::sendInLoop() gives to the peer, over all full, partial
\* and refused writes, is a prefix of what it was given, for every number of
\* calls and every length: nothing twice, nothing out of order, no stray byte.
THEOREM WireIsPrefixTheorem == Spec => []WireIsPrefix
<1>1. Init => WireInv
  BY EmptySeq DEF Init, WireInv, WireIsPrefix
<1>2. WireInv => WireIsPrefix
  BY DEF WireInv
<1> QED
  BY <1>1, <1>2, AlwaysConnInv, NextWireInv, PTL DEF Spec

-----------------------------------------------------------------------------
(* The order of a thread's calls.                                          *)

\* Functors of other kinds do not disturb the order of sends and shutdowns.
LEMMA OrderStays ==
  ASSUME Types, OrderInv,
         \/ pending' = pending
         \/ \E f \in Functors : /\ f.kind \notin {"send", "shutdown"}
                               /\ pending' = Append(pending, f),
         running' = running, taken' \in {taken, taken + 1}, at' = at,
         \A u \in Users : u \in shutBy' => u \in shutBy,
         \A v \in Users : ShutsDown(v) => state' \notin {"kConnecting", "kConnected"}
  PROVE  OrderInv'
<1>1. \A u \in Users, i \in DOMAIN pending' :
        IsSend(pending'[i], u) \/ IsShutdown(pending'[i], u) =>
          i \in DOMAIN pending /\ pending'[i] = pending[i]
  <2>1. CASE pending' = pending
    BY <2>1
  <2>2. ASSUME NEW f \in Functors, f.kind \notin {"send", "shutdown"},
               pending' = Append(pending, f)
        PROVE  \A u \in Users, i \in DOMAIN pending' :
                 IsSend(pending'[i], u) \/ IsShutdown(pending'[i], u) =>
                   i \in DOMAIN pending /\ pending'[i] = pending[i]
    <3>1. /\ DOMAIN pending' = 1 .. Len(pending) + 1
          /\ \A i \in DOMAIN pending : pending'[i] = pending[i]
          /\ pending'[Len(pending) + 1] = f
          /\ DOMAIN pending = 1 .. Len(pending) /\ Len(pending) \in Nat
      BY <2>2, QueuedLast DEF Types
    <3>2. \A i \in DOMAIN pending' : i \in DOMAIN pending \/ i = Len(pending) + 1
      BY <3>1
    <3> QED
      BY <2>2, <3>1, <3>2 DEF IsSend, IsShutdown
  <2> QED
    BY <2>1, <2>2
<1>2. Remaining' \subseteq Remaining
  BY LenProperties DEF Remaining, Types
<1>3. \A u \in Users : ShutsDown(u)' => ShutsDown(u)
  BY <1>1, <1>2 DEF ShutsDown
<1> SUFFICES ASSUME NEW u \in Users
             PROVE  OrderOf(u)'
  BY DEF OrderInv
<1>4. OrderOf(u)
  BY DEF OrderInv
<1> QED
  BY <1>1, <1>2, <1>3, <1>4 DEF OrderOf

LEMMA NextOrderInv == ConnInv /\ OrderInv /\ [Next]_vars => OrderInv'
<1> SUFFICES ASSUME ConnInv, OrderInv, [Next]_vars
             PROVE  OrderInv'
  OBVIOUS
<1> USE DEF connVars, outVars, peerVars, loopVars, serverVars, userVars
<1>0. Types
  BY DEF ConnInv
<1> USE <1>0

<1>1. CASE poll
  <2>1. CASE Ready = {}
    <3>1. /\ running' = pending /\ pending' = <<>> /\ taken' = 0
          /\ UNCHANGED <<state, at, shutBy>>
      BY <1>1, <2>1 DEF poll, Places, ConnInv
    <3>2. Remaining' = DOMAIN pending /\ DOMAIN pending' = {}
      BY <3>1, EmptySeq, LenProperties DEF Remaining, Types
    <3>3. ASSUME NEW v \in Users
          PROVE  OrderOf(v)'
      <4>1. OrderOf(v)
        BY DEF OrderInv
      <4>2. ShutsDown(v)' => ShutsDown(v)
        BY <3>1, <3>2 DEF ShutsDown
      <4> QED
        BY <3>1, <3>2, <4>1, <4>2 DEF OrderOf
    <3> QED
      BY <3>3 DEF OrderInv
  <2>2. CASE Ready # {}
    <3>1. UNCHANGED <<state, at, shutBy, pending, running, taken>>
      BY <1>1, <2>2 DEF poll
    <3>2. \A v \in Users : ShutsDown(v) => state' \notin {"kConnecting", "kConnected"}
      BY <3>1 DEF OrderInv, OrderOf
    <3> QED
      BY <3>1, <3>2, OrderStays
  <2> QED
    BY <2>1, <2>2
<1>2. CASE handleEvent
  <2>1. \A v \in Users : ShutsDown(v) => state' \notin {"kConnecting", "kConnected"}
    BY <1>2 DEF OrderInv, OrderOf, handleEvent, handleClose
  <2> QED
    BY <1>2, <2>1, OrderStays DEF handleEvent, handleClose
<1>3. CASE handleError
  <2>1. \A v \in Users : ShutsDown(v) => state' \notin {"kConnecting", "kConnected"}
    BY <1>3 DEF OrderInv, OrderOf, handleError
  <2> QED
    BY <1>3, <2>1, OrderStays DEF handleError
<1>4. CASE handleRead
  <2>1. \A v \in Users : ShutsDown(v) => state' \notin {"kConnecting", "kConnected"}
    BY <1>4 DEF OrderInv, OrderOf, handleRead, handleClose
  <2> QED
    BY <1>4, <2>1, OrderStays DEF handleRead, handleClose
<1>5. CASE endOfEvent
  <2>1. /\ running' = pending /\ pending' = <<>> /\ taken' = 0
        /\ UNCHANGED <<state, at, shutBy>>
    BY <1>5 DEF endOfEvent, isWriting, ConnInv, Watching
  <2>2. Remaining' = DOMAIN pending /\ DOMAIN pending' = {}
    BY <2>1, EmptySeq, LenProperties DEF Remaining, Types
  <2>3. ASSUME NEW v \in Users
        PROVE  OrderOf(v)'
    <3>1. OrderOf(v)
      BY DEF OrderInv
    <3>2. ShutsDown(v)' => ShutsDown(v)
      BY <2>1, <2>2 DEF ShutsDown
    <3> QED
      BY <2>1, <2>2, <3>1, <3>2 DEF OrderOf
  <2> QED
    BY <2>3 DEF OrderInv
<1>6. CASE endOfFunctors
  <2>1. /\ running' = <<>> /\ taken' = 0
        /\ UNCHANGED <<state, at, shutBy, pending>>
    BY <1>6 DEF endOfFunctors
  <2>2. Remaining' = {}
    BY <2>1, EmptySeq DEF Remaining
  <2>3. ASSUME NEW v \in Users
        PROVE  OrderOf(v)'
    <3>1. OrderOf(v)
      BY DEF OrderInv
    <3>2. ShutsDown(v)' => ShutsDown(v)
      BY <2>1, <2>2 DEF ShutsDown
    <3> QED
      BY <2>1, <2>2, <3>1, <3>2 DEF OrderOf
  <2> QED
    BY <2>3 DEF OrderInv
<1>7. CASE connectEstablished
  <2>1. state = "kConnecting"
    BY <1>7, NextIsFunctor DEF connectEstablished, NextFunctor, ConnInv, Fresh
  <2>2. \A u \in Users : ~ShutsDown(u)
    BY <2>1 DEF OrderInv, OrderOf
  <2> QED
    BY <1>7, <2>2, OrderStays DEF connectEstablished, NextFunctor
<1>8. CASE connectionDestroyed
  <2>1. \A v \in Users : ShutsDown(v) => state' \notin {"kConnecting", "kConnected"}
    BY <1>8 DEF OrderInv, OrderOf, connectionDestroyed, NextFunctor
  <2> QED
    BY <1>8, <2>1, OrderStays DEF connectionDestroyed, NextFunctor
<1>9. CASE setDisconnected
  <2>1. \A v \in Users : ShutsDown(v) => state' \notin {"kConnecting", "kConnected"}
    BY <1>9 DEF OrderInv, OrderOf, setDisconnected
  <2> QED
    BY <1>9, <2>1, OrderStays DEF setDisconnected
<1>10. CASE writeComplete
  <2>1. \A v \in Users : ShutsDown(v) => state' \notin {"kConnecting", "kConnected"}
    BY <1>10 DEF OrderInv, OrderOf, writeComplete, NextFunctor
  <2> QED
    BY <1>10, <2>1, OrderStays DEF writeComplete, NextFunctor
<1>11. CASE runSend
  <2>1. running[taken + 1].len \in Lengths
    BY <1>11, NextIsFunctor, KindsOfFunctors DEF runSend, NextFunctor
  <2>2. /\ state' = state
        /\ pending' \in {pending, Append(pending, WriteComplete)}
    <3>1. CASE Alive
      <4>1. sendInLoop(running[taken + 1].len, "functors")
        BY <1>11, <3>1 DEF runSend
      <4> QED
        BY <2>1, <4>1, SendEffect DEF ConnInv
    <3>2. CASE ~Alive
      BY <1>11, <3>2 DEF runSend
    <3> QED
      BY <3>1, <3>2
  <2>3. WriteComplete \in Functors /\ WriteComplete.kind \notin {"send", "shutdown"}
    BY NewFunctors
  <2>4. \A v \in Users : ShutsDown(v) => state' \notin {"kConnecting", "kConnected"}
    BY <2>2 DEF OrderInv, OrderOf
  <2> QED
    BY <1>11, <2>2, <2>3, <2>4, OrderStays DEF runSend, NextFunctor
<1>12. CASE runShutdown
  <2> DEFINE by == running[taken + 1].by
  <2>1. /\ taken + 1 \in Remaining /\ taken \in Nat /\ Len(running) \in Nat
        /\ by \in Users /\ IsShutdown(running[taken + 1], by)
    BY <1>12, NextIsFunctor, KindsOfFunctors, LenProperties
    DEF runShutdown, NextFunctor, IsShutdown, Types
  <2>2. /\ UNCHANGED <<state, at, pending, running>> /\ taken' = taken + 1
        /\ shutBy' \in {shutBy, shutBy \cup {by}}
    BY <1>12 DEF runShutdown, NextFunctor, shutdownInLoop
  <2>3. Remaining' \subseteq Remaining /\ \A j \in Remaining' : j > taken + 1
    BY <2>1, <2>2 DEF Remaining
  <2>4. ASSUME NEW v \in Users
        PROVE  OrderOf(v)'
    <3>1. OrderOf(v)
      BY DEF OrderInv
    <3>2. ShutsDown(v)' => ShutsDown(v)
      BY <2>1, <2>2, <2>3 DEF ShutsDown
    <3>3. v = by => \A j \in Remaining' : ~IsSend(running[j], v)
      <4>1. v = by => \A j \in Remaining : IsSend(running[j], v) => j < taken + 1
        BY <2>1, <3>1 DEF OrderOf
      <4>2. \A j \in Remaining' : ~(j < taken + 1)
        BY <2>1, <2>3 DEF Remaining
      <4> QED
        BY <2>3, <4>1, <4>2
    <3>4. v = by => \A j \in DOMAIN pending : ~IsSend(pending[j], v)
      BY <2>1, <3>1 DEF OrderOf
    <3> QED
      BY <2>2, <2>3, <3>1, <3>2, <3>3, <3>4 DEF OrderOf
  <2> QED
    BY <2>4 DEF OrderInv
<1>13. CASE endOfCallback
  <2>1. \A v \in Users : ShutsDown(v) => state' \notin {"kConnecting", "kConnected"}
    BY <1>13 DEF OrderInv, OrderOf, endOfCallback
  <2> QED
    BY <1>13, <2>1, OrderStays DEF endOfCallback
<1>14. CASE removeChannel
  <2>1. \A v \in Users : ShutsDown(v) => state' \notin {"kConnecting", "kConnected"}
    BY <1>14 DEF OrderInv, OrderOf, removeChannel
  <2> QED
    BY <1>14, <2>1, OrderStays DEF removeChannel
<1>15. CASE removeConnection
  <2>1. Destroyed \in Functors /\ Destroyed.kind \notin {"send", "shutdown"}
    BY NewFunctors
  <2>2. \A v \in Users : ShutsDown(v) => state' \notin {"kConnecting", "kConnected"}
    BY <1>15, <2>1 DEF OrderInv, OrderOf, removeConnection, removeConnectionInLoop
  <2> QED
    BY <1>15, <2>1, <2>2, OrderStays DEF removeConnection, removeConnectionInLoop
<1>16. CASE runRemoval
  <2>1. Destroyed \in Functors /\ Destroyed.kind \notin {"send", "shutdown"}
    BY NewFunctors
  <2>2. \A v \in Users : ShutsDown(v) => state' \notin {"kConnecting", "kConnected"}
    BY <1>16, <2>1 DEF OrderInv, OrderOf, runRemoval, removeConnectionInLoop
  <2> QED
    BY <1>16, <2>1, <2>2, OrderStays DEF runRemoval, removeConnectionInLoop
<1>17. ASSUME NEW u \in Users, NEW len \in Lengths, queueSend(u, len)
      PROVE  OrderInv'
  <2>1. /\ UNCHANGED <<state, running, taken, shutBy>>
        /\ at' = [at EXCEPT ![u] = "idle"] /\ at[u] = "send"
        /\ pending' = Append(pending, Send(u, len))
    BY <1>17 DEF queueSend
  <2>2. Send(u, len) \in Functors /\ Send(u, len).kind = "send" /\ Send(u, len).by = u
    BY NewFunctors
  <2>3. /\ DOMAIN pending' = 1 .. Len(pending) + 1
        /\ \A i \in DOMAIN pending : pending'[i] = pending[i]
        /\ pending'[Len(pending) + 1] = Send(u, len)
        /\ DOMAIN pending = 1 .. Len(pending) /\ Len(pending) \in Nat
    BY <2>1, <2>2, QueuedLast DEF Types
  <2>4. \A i \in DOMAIN pending' : i \in DOMAIN pending \/ i = Len(pending) + 1
    BY <2>3
  <2>5. Remaining' = Remaining
    BY <2>1 DEF Remaining
  <2>6. ASSUME NEW v \in Users
        PROVE  OrderOf(v)'
    <3>1. OrderOf(v)
      BY DEF OrderInv
    <3>2. at'[v] = IF v = u THEN "idle" ELSE at[v]
      BY <2>1 DEF Types
    <3>3. /\ \A i \in DOMAIN pending' : IsShutdown(pending'[i], v) =>
                i \in DOMAIN pending /\ IsShutdown(pending[i], v)
          /\ \A i \in DOMAIN pending' : IsSend(pending'[i], v) =>
                \/ i \in DOMAIN pending /\ IsSend(pending[i], v)
                \/ v = u /\ i = Len(pending) + 1
      BY <2>2, <2>3, <2>4 DEF IsSend, IsShutdown
    <3>4. ShutsDown(v)' => ShutsDown(v)
      BY <2>1, <2>5, <3>2, <3>3 DEF ShutsDown
    <3>5. v = u => ~ShutsDown(v)
      BY <2>1, <3>1 DEF OrderOf
    <3> QED
      BY <2>1, <2>3, <2>5, <3>1, <3>2, <3>3, <3>4, <3>5 DEF OrderOf, ShutsDown
  <2> QED
    BY <2>6 DEF OrderInv
<1>18. ASSUME NEW u \in Users, setDisconnecting(u)
      PROVE  OrderInv'
  <2>1. /\ state' = "kDisconnecting" /\ UNCHANGED <<pending, running, taken, shutBy>>
        /\ at' = [at EXCEPT ![u] = "queueShutdown"] /\ at[u] = "shutdown"
    BY <1>18 DEF setDisconnecting
  <2>2. ASSUME NEW v \in Users
        PROVE  OrderOf(v)'
    <3>1. OrderOf(v)
      BY DEF OrderInv
    <3>2. at'[v] = IF v = u THEN "queueShutdown" ELSE at[v]
      BY <2>1 DEF Types
    <3>3. Remaining' = Remaining
      BY <2>1 DEF Remaining
    <3>4. ShutsDown(v)' => ShutsDown(v) \/ v = u
      BY <2>1, <3>2, <3>3 DEF ShutsDown
    <3> QED
      BY <1>18, <2>1, <3>1, <3>2, <3>3, <3>4 DEF OrderOf, setDisconnecting
  <2> QED
    BY <2>2 DEF OrderInv
<1>19. ASSUME NEW u \in Users, queueShutdown(u)
      PROVE  OrderInv'
  <2>1. /\ UNCHANGED <<state, running, taken, shutBy>>
        /\ at' = [at EXCEPT ![u] = "idle"] /\ at[u] = "queueShutdown"
        /\ pending' = Append(pending, Shutdown(u))
    BY <1>19 DEF queueShutdown
  <2>2. Shutdown(u) \in Functors /\ Shutdown(u).kind = "shutdown" /\ Shutdown(u).by = u
    BY NewFunctors
  <2>3. /\ DOMAIN pending' = 1 .. Len(pending) + 1
        /\ \A i \in DOMAIN pending : pending'[i] = pending[i]
        /\ pending'[Len(pending) + 1] = Shutdown(u)
        /\ DOMAIN pending = 1 .. Len(pending) /\ Len(pending) \in Nat
    BY <2>1, <2>2, QueuedLast DEF Types
  <2>4. \A i \in DOMAIN pending' : i \in DOMAIN pending \/ i = Len(pending) + 1
    BY <2>3
  <2>5. Remaining' = Remaining
    BY <2>1 DEF Remaining
  <2>6. ASSUME NEW v \in Users
        PROVE  OrderOf(v)'
    <3>1. OrderOf(v)
      BY DEF OrderInv
    <3>2. at'[v] = IF v = u THEN "idle" ELSE at[v]
      BY <2>1 DEF Types
    <3>3. /\ \A i \in DOMAIN pending' : IsSend(pending'[i], v) =>
                i \in DOMAIN pending /\ IsSend(pending[i], v)
          /\ \A i \in DOMAIN pending' : IsShutdown(pending'[i], v) =>
                \/ i \in DOMAIN pending /\ IsShutdown(pending[i], v)
                \/ v = u /\ i = Len(pending) + 1
      BY <2>2, <2>3, <2>4 DEF IsSend, IsShutdown
    <3>4. ShutsDown(v)' => ShutsDown(v)
      BY <2>1, <2>5, <3>2, <3>3 DEF ShutsDown
    <3>5. /\ v = u => ShutsDown(v)
          /\ \A j \in DOMAIN pending : j < Len(pending) + 1
      BY <2>1, <2>3 DEF ShutsDown
    <3> QED
      BY <2>1, <2>3, <2>5, <3>1, <3>2, <3>3, <3>4, <3>5 DEF OrderOf
  <2> QED
    BY <2>6 DEF OrderInv
<1>20. ASSUME NEW len \in Lengths, sendFromLoop(len)
      PROVE  OrderInv'
  <2>1. /\ state' = state
        /\ pending' \in {pending, Append(pending, WriteComplete)}
    BY <1>20, SendEffect DEF sendFromLoop, ConnInv
  <2>2. WriteComplete \in Functors /\ WriteComplete.kind \notin {"send", "shutdown"}
    BY NewFunctors
  <2>3. \A v \in Users : ShutsDown(v) => state' \notin {"kConnecting", "kConnected"}
    BY <2>1 DEF OrderInv, OrderOf
  <2> QED
    BY <1>20, <2>1, <2>2, <2>3, OrderStays DEF sendFromLoop
<1>21. CASE shutdownFromLoop
  <2>1. \A u \in Users : u \in shutBy' => u \in shutBy
    BY <1>21, IoLoopAssumption DEF shutdownFromLoop, shutdownInLoop
  <2>2. state' = "kDisconnecting"
    BY <1>21 DEF shutdownFromLoop
  <2> QED
    BY <1>21, <2>1, <2>2, OrderStays DEF shutdownFromLoop
<1>22. ASSUME NEW u \in Users, send(u)
      PROVE  OrderInv'
  <2>1. /\ state' = state /\ UNCHANGED <<pending, running, taken, shutBy>>
        /\ at' = [at EXCEPT ![u] = "send"] /\ at[u] = "idle"
    BY <1>22 DEF send, BeginCall
  <2>2. ASSUME NEW v \in Users
        PROVE  OrderOf(v)'
    <3>1. OrderOf(v)
      BY DEF OrderInv
    <3>2. at'[v] = IF v = u THEN "send" ELSE at[v]
      BY <2>1 DEF Types
    <3>3. Remaining' = Remaining
      BY <2>1 DEF Remaining
    <3>4. ShutsDown(v)' => ShutsDown(v)
      BY <2>1, <3>2, <3>3 DEF ShutsDown
    <3> QED
      BY <1>22, <2>1, <3>1, <3>2, <3>3, <3>4 DEF OrderOf, send, BeginCall
  <2> QED
    BY <2>2 DEF OrderInv
<1>23. ASSUME NEW u \in Users, shutdown(u)
      PROVE  OrderInv'
  <2>1. /\ state' = state /\ UNCHANGED <<pending, running, taken, shutBy>>
        /\ at' = [at EXCEPT ![u] = "shutdown"] /\ at[u] = "idle"
    BY <1>23 DEF shutdown, BeginCall
  <2>2. ASSUME NEW v \in Users
        PROVE  OrderOf(v)'
    <3>1. OrderOf(v)
      BY DEF OrderInv
    <3>2. at'[v] = IF v = u THEN "shutdown" ELSE at[v]
      BY <2>1 DEF Types
    <3>3. Remaining' = Remaining
      BY <2>1 DEF Remaining
    <3>4. ShutsDown(v)' => ShutsDown(v)
      BY <2>1, <3>2, <3>3 DEF ShutsDown
    <3> QED
      BY <1>23, <2>1, <3>1, <3>2, <3>3, <3>4 DEF OrderOf, shutdown, BeginCall
  <2> QED
    BY <2>2 DEF OrderInv
<1>24. ASSUME NEW u \in Users, release(u)
      PROVE  OrderInv'
  <2>1. \A v \in Users : ShutsDown(v) => state' \notin {"kConnecting", "kConnected"}
    BY <1>24 DEF OrderInv, OrderOf, release
  <2> QED
    BY <1>24, <2>1, OrderStays DEF release
<1>25. CASE destroyServer
  <2>1. Destroyed \in Functors /\ Destroyed.kind \notin {"send", "shutdown"}
    BY NewFunctors
  <2>2. \A v \in Users : ShutsDown(v) => state' \notin {"kConnecting", "kConnected"}
    BY <1>25, <2>1 DEF OrderInv, OrderOf, destroyServer
  <2> QED
    BY <1>25, <2>1, <2>2, OrderStays DEF destroyServer
<1>26. CASE peerSends
  <2>1. \A v \in Users : ShutsDown(v) => state' \notin {"kConnecting", "kConnected"}
    BY <1>26 DEF OrderInv, OrderOf, peerSends
  <2> QED
    BY <1>26, <2>1, OrderStays DEF peerSends
<1>27. CASE peerCloses
  <2>1. \A v \in Users : ShutsDown(v) => state' \notin {"kConnecting", "kConnected"}
    BY <1>27 DEF OrderInv, OrderOf, peerCloses
  <2> QED
    BY <1>27, <2>1, OrderStays DEF peerCloses
<1>28. CASE peerResets
  <2>1. \A v \in Users : ShutsDown(v) => state' \notin {"kConnecting", "kConnected"}
    BY <1>28 DEF OrderInv, OrderOf, peerResets
  <2> QED
    BY <1>28, <2>1, OrderStays DEF peerResets
<1>29. CASE UNCHANGED vars
  <2>1. UNCHANGED <<state, at, shutBy, pending, running, taken>>
    BY <1>29 DEF vars
  <2>2. \A v \in Users : ShutsDown(v) => state' \notin {"kConnecting", "kConnected"}
    BY <2>1 DEF OrderInv, OrderOf
  <2> QED
    BY <2>1, <2>2, OrderStays
<1> QED
  BY <1>1, <1>2, <1>3, <1>4, <1>5, <1>6, <1>7, <1>8, <1>9, <1>10, <1>11,
     <1>12, <1>13, <1>14, <1>15, <1>16, <1>17, <1>18, <1>19, <1>20, <1>21,
     <1>22, <1>23, <1>24, <1>25, <1>26, <1>27, <1>28, <1>29 DEF Next,
     LoopSteps, CallSteps, UserCalls, Peer

\* shutdown() followed by no send() of the same thread, in whatever order the
\* functors of all threads are queued and the loop runs them: shutdownInLoop()
\* has every string that its caller sent before it already in its hands.
THEOREM SendsPrecedeShutdown == Spec => []OwnSendsBeforeShutdown
<1>1. Init => OrderInv
  <2>1. ASSUME Init
        PROVE  OrderInv
    <3>1. /\ pending = <<Established>> /\ DOMAIN pending = {1}
          /\ pending[1].kind = "established"
      BY <2>1, NewFunctors DEF Init
    <3>2. running = <<>> /\ Remaining = {}
      BY <2>1, EmptySeq DEF Init, Remaining
    <3>3. \A u \in Users : at[u] = "idle" /\ u \notin shutBy
      BY <2>1 DEF Init
    <3> QED
      BY <3>1, <3>2, <3>3 DEF OrderInv, OrderOf, ShutsDown, IsSend, IsShutdown
  <2> QED
    BY <2>1
<1>2. ConnInv /\ OrderInv => OwnSendsBeforeShutdown
  <2> SUFFICES ASSUME ConnInv, OrderInv, NEW u \in shutBy \ {IoLoop}
               PROVE  /\ at[u] # "send"
                      /\ \A i \in DOMAIN pending :
                           pending[i].kind = "send" => pending[i].by # u
                      /\ \A i \in taken + 1 .. Len(running) :
                           running[i].kind = "send" => running[i].by # u
    BY DEF OwnSendsBeforeShutdown
  <2>1. u \in Users
    BY DEF ConnInv, Types, Callers
  <2>2. OrderOf(u) /\ ShutsDown(u)
    BY <2>1 DEF OrderInv, ShutsDown
  <2> QED
    BY <2>2 DEF OrderOf, IsSend, Remaining
<1> QED
  BY <1>1, <1>2, AlwaysConnInv, NextOrderInv, PTL DEF Spec
=============================================================================
