-------------------------- MODULE TcpServerLifeProofs --------------------------
(***************************************************************************)
(* A TcpServer, for any number of loops, connections and descriptors, does *)
(* for every connection what ConnectionLife says: each of its steps is one *)
(* of ConnectionLife or leaves the connections, seen from the user, as     *)
(* they are. The steps are told apart by who is still referred to and by   *)
(* what the callbacks have said; module TcpServerConnProofs shows how an   *)
(* action changes these, as LifeStep.                                      *)
(***************************************************************************)
EXTENDS TcpServerConnProofs

\* LifeOf() with the set of all connections that something refers to.
Stage(c) == IF c \notin Made THEN "none"
            ELSE IF c \notin Referred THEN "freed"
            ELSE IF told[c] = "nothing" THEN "accepted" ELSE told[c]

TheLife == [c \in Conns |-> LifeOf(c)]

Stopping == mainAt # "user"

LEMMA LifeIsStage == Numbered => \A c \in Conns : TheLife[c] = Stage(c)
<1> SUFFICES ASSUME Numbered, NEW c \in Conns
             PROVE  TheLife[c] = Stage(c)
  OBVIOUS
<1> QED
  BY AliveIsReferred DEF TheLife, LifeOf, Stage

LEMMA LifeIsStageNext == Numbered' => \A c \in Conns : TheLife'[c] = Stage(c)'
<1>1. (Numbered => \A c \in Conns : TheLife[c] = Stage(c))'
  BY LifeIsStage, PTL
<1> QED
  BY <1>1

\* A step that neither begins the destruction nor is a peer's.
LeavesPeers == Stopping' = Stopping /\ closed' = closed

\* One connection comes up, is reported down or is accepted.
LEMMA OneAdvances ==
  ASSUME Numbered, Numbered', NEW c \in Conns, NEW from, NEW to,
         Stage(c) \in from, Stage(c)' = to,
         \A d \in Conns \ {c} : Stage(d)' = Stage(d), LeavesPeers
  PROVE  Life!Advance(c, from, to)
<1>1. \A d \in Conns : TheLife[d] = Stage(d) /\ TheLife'[d] = Stage(d)'
  BY LifeIsStage, LifeIsStageNext
<1>2. TheLife' = [TheLife EXCEPT ![c] = to]
  BY <1>1 DEF TheLife
<1> QED
  BY <1>1, <1>2 DEF Life!Advance, TheLife, Stopping, LeavesPeers

\* The last references to some connections go: nothing is lost but while the
\* server is being destroyed, for until then the user has been told.
LEMMA SomeAreFreed ==
  ASSUME Inv, Inv', told' = told, ends' = ends, Referred' \subseteq Referred,
         Made' = Made, LeavesPeers
  PROVE  [Life!Next]_Life!vars
<1> DEFINE S == Referred \ Referred'
<1>1. Numbered /\ Numbered' /\ Referred \subseteq Conns /\ Referred \subseteq Made
  <2>1. Referred \subseteq Conns
    BY ReferredAreConns DEF Inv
  <2> QED
    BY <2>1, LiveIsReferred DEF Inv, ConnInv
<1>2. \A c \in Conns : TheLife[c] = Stage(c) /\ TheLife'[c] = Stage(c)'
  BY <1>1, LifeIsStage, LifeIsStageNext
<1>3. ASSUME NEW c \in Conns
      PROVE  TheLife'[c] = IF c \in S THEN "freed" ELSE TheLife[c]
  BY <1>1, <1>2 DEF Stage
<1>4. CASE S = {}
  <2>1. TheLife' = TheLife
    BY <1>3, <1>4 DEF TheLife
  <2> QED
    BY <2>1 DEF Life!vars, TheLife, Stopping, LeavesPeers
<1>5. CASE S # {}
  <2>1. ASSUME NEW c \in S
        PROVE  TheLife[c] = "down" \/ (Stopping /\ TheLife[c] \in {"accepted", "up"})
    <3>1. c \in Conns /\ c \in Made /\ TheLife[c] = Stage(c)
      BY <1>1, <1>2
    <3>2. told[c] \in {"nothing", "up", "down"}
      BY <3>1 DEF Inv, Types, ConnTypes
    <3>3. ~Stopping => told[c] = "down"
      <4>1. c \notin Mapped' /\ c \in Made'
        BY <3>1 DEF Referred
      <4>2. HeardWhileServing'
        BY DEF Inv, ConnInv
      <4> QED
        BY <4>1, <4>2 DEF HeardWhileServing, Stopping, LeavesPeers
    <3> QED
      BY <3>1, <3>2, <3>3 DEF Stage
  <2>2. TheLife' = [c \in Conns |-> IF c \in S THEN "freed" ELSE TheLife[c]]
    BY <1>3 DEF TheLife
  <2>3. S \in SUBSET Conns
    BY <1>1
  <2> HIDE DEF S
  <2>4. Life!Free(S)
    BY <1>5, <2>1, <2>2 DEF Life!Free, TheLife, Stopping, LeavesPeers
  <2> QED
    BY <2>3, <2>4 DEF Life!Next
<1> QED
  BY <1>4, <1>5

LEMMA LifeStepImplements ==
  ASSUME Inv, Inv', LifeStep, LeavesPeers
  PROVE  [Life!Next]_Life!vars
<1>1. /\ Numbered /\ Numbered' /\ Referred \subseteq Made /\ Made \subseteq Conns
      /\ \A c \in Conns \ Made : told[c] = "nothing"
  BY LiveIsReferred DEF Inv, ConnInv, Numbered
<1>2. CASE told' = told /\ ends' = ends /\ Referred' \subseteq Referred /\ Made' = Made
  BY <1>2, SomeAreFreed
<1>3. ASSUME NEW c \in Conns,
             \/ Tells(c, "nothing", "up") \/ Tells(c, "up", "down")
             \/ c \in closed /\ Tells(c, "down", "down")
      PROVE  Life!Up(c) \/ Life!Down(c) \/ Life!DownAgain(c)
  <2>1. /\ c \in Made /\ c \in Referred /\ Referred' = Referred /\ Made' = Made
        /\ \A d \in Conns \ {c} : told'[d] = told[d]
        /\ \/ told[c] = "nothing" /\ told'[c] = "up" /\ ends' = ends
           \/ /\ \/ told[c] = "up" /\ told'[c] = "down"
                 \/ c \in closed /\ told[c] = "down" /\ told'[c] = "down"
              /\ ends' = [ends EXCEPT ![c] = @ + 1]
    BY <1>1, <1>3 DEF Tells, Inv, Types, ConnTypes
  <2>2. \A d \in Conns \ {c} : Stage(d)' = Stage(d)
    BY <2>1 DEF Stage
  <2>3. /\ Stage(c) = (IF told[c] = "nothing" THEN "accepted" ELSE told[c])
        /\ Stage(c)' = told'[c] \/ told'[c] = "nothing"
    BY <2>1 DEF Stage
  <2>4. \/ Life!Advance(c, {"none", "accepted"}, "up") /\ ends' = ends
        \/ /\ \/ Life!Advance(c, {"up"}, "down")
              \/ c \in closed /\ Life!Advance(c, {"down"}, "down")
           /\ ends' = [ends EXCEPT ![c] = @ + 1]
    BY <1>1, <2>1, <2>2, <2>3, OneAdvances
  <2> QED
    BY <2>4 DEF Life!Up, Life!Down, Life!DownAgain, Life!Report
<1>4. ASSUME NEW c \in Conns \ Made, told' \in {told, [told EXCEPT ![c] = "up"]},
             ends' = ends, Referred' = Referred \cup {c}, Made' = Made \cup {c}
      PROVE  Life!Accept(c) \/ Life!Up(c)
  <2>1. /\ \A d \in Conns \ {c} : told'[d] = told[d]
        /\ told'[c] \in {"nothing", "up"}
    BY <1>1, <1>4 DEF Inv, Types, ConnTypes
  <2>2. \A d \in Conns \ {c} : Stage(d)' = Stage(d)
    BY <1>4, <2>1 DEF Stage
  <2>3. /\ Stage(c) = "none"
        /\ Stage(c)' = "accepted" \/ Stage(c)' = "up"
    BY <1>4, <2>1 DEF Stage
  <2>4. \/ Life!Advance(c, {"none"}, "accepted")
        \/ Life!Advance(c, {"none", "accepted"}, "up")
    BY <1>1, <2>2, <2>3, OneAdvances
  <2> QED
    BY <1>4, <2>4 DEF Life!Accept, Life!Up
<1> QED
  BY <1>2, <1>3, <1>4 DEF LifeStep, Life!Next

\* The destructor begins in one step, which changes nothing else.
LEMMA ServerStops ==
  ASSUME destroyServer
  PROVE  Life!Stop
<1>1. /\ UNCHANGED <<connections_, pending, running, held, made, told, ends, sending>>
      /\ closed' = closed /\ ~Stopping /\ Stopping'
  BY DEF destroyServer, mapVars, connVars, sendVars, kernelVars, loopVars, turnVars, Stopping
<1>2. TheLife' = TheLife
  BY <1>1 DEF TheLife, LifeOf, Alive, Made
<1> QED
  BY <1>1, <1>2 DEF Life!Stop, TheLife, Stopping

\* So does the end of a stream.
LEMMA PeerLoses ==
  ASSUME Types, NEW c \in Conns, peerCloses(c)
  PROVE  Life!Lose(c)
<1>1. /\ UNCHANGED <<connections_, pending, running, held, made, told, ends, sending>>
      /\ Stopping' = Stopping /\ closed' = closed \cup {c} /\ c \in Made /\ Alive(c)
  BY DEF peerCloses, Live, mapVars, connVars, sendVars, loopVars, turnVars, mainVars, Stopping
<1>2. TheLife' = TheLife
  BY <1>1 DEF TheLife, LifeOf, Alive, Made
<1> QED
  BY <1>1, <1>2 DEF Life!Lose, TheLife, LifeOf, Stopping, Types, ConnTypes

LEMMA OthersLeavePeers ==
  [Next]_vars => destroyServer \/ (\E c \in Conns : peerCloses(c)) \/ LeavesPeers
<1> SUFFICES ASSUME [Next]_vars, ~destroyServer, \A c \in Conns : ~peerCloses(c)
             PROVE  /\ mainAt' = mainAt \/ (mainAt # "user" /\ mainAt' # "user")
                    /\ closed' = closed
  BY DEF Stopping, LeavesPeers
<1>1. ASSUME NEW l \in Loops, LoopSteps(l)
      PROVE  mainAt' = mainAt /\ closed' = closed
  <2>1. CASE \E c \in Conns : handleClose(l, c) \/ handleFreed(l, c)
    BY <2>1 DEF handleClose, handleFreed, mainVars, kernelVars
  <2>2. CASE pollEvents(l) \/ handleRead \/ handleReadFails
    BY <2>2 DEF pollEvents, handleRead, newConnection, handleReadFails, mainVars, kernelVars
  <2>3. CASE \/ runListen \/ runRemoval \/ runEstablished(l) \/ runDestroyed(l)
             \/ runSend(l) \/ endOfFunctors(l)
    BY <2>3
    DEF runListen, runRemoval, runEstablished, runDestroyed, runSend, endOfFunctors,
        StartFunctor, mainVars, kernelVars
  <2> QED
    BY <1>1, <2>1, <2>2, <2>3 DEF LoopSteps
<1>2. ASSUME NEW s \in Callers, StartSteps(s)
      PROVE  mainAt' = mainAt /\ closed' = closed
  BY <1>2 DEF StartSteps, startPool, startListening, mainVars, kernelVars
<1>3. CASE DestructorSteps
  BY <1>3
  DEF DestructorSteps, destroyConnection, releaseConn, endOfConnections, quitLoop, join,
      destroyAcceptor, destroyBaseLoop, Main, kernelVars
<1>4. CASE UserCalls
  BY <1>4
  DEF UserCalls, setThreadNum, start, Begin, enterLoop, shutdown, testState, queueSend,
      quitBaseLoop, mainVars, kernelVars
<1>5. CASE Clients
  BY <1>5 DEF Clients, clientConnects, clientGivesUp, mainVars
<1>6. CASE UNCHANGED vars
  BY <1>6 DEF vars, mainVars, kernelVars
<1> QED
  BY <1>1, <1>2, <1>3, <1>4, <1>5, <1>6 DEF Next

\* The lives of all connections begin as ConnectionLife says, and every step of
\* the server's threads, the user, the clients and ~TcpServer() is a step of it or
\* none at all: a connection comes up once, its end is reported after that, a second
\* time only if its peer has closed it, and it is freed last; nothing is freed
\* without a word before the destructor has begun.
THEOREM ServerImplementsLife == Spec => ImplementsLife
<1>1. Init => Life!Init
  BY DEF Init, Life!Init, LifeOf, Made
<1>2. Inv /\ Inv' /\ [Next]_vars => [Life!Next]_Life!vars
  <2> SUFFICES ASSUME Inv, Inv', [Next]_vars
               PROVE  [Life!Next]_Life!vars
    OBVIOUS
  <2>1. CASE destroyServer
    BY <2>1, ServerStops DEF Life!Next
  <2>2. ASSUME NEW c \in Conns, peerCloses(c)
        PROVE  [Life!Next]_Life!vars
    BY <2>2, PeerLoses DEF Life!Next, Inv
  <2>3. CASE LeavesPeers
    <3>1. LifeStep
      BY NextConns
    <3> QED
      BY <2>3, <3>1, LifeStepImplements
  <2> QED
    BY <2>1, <2>2, <2>3, OthersLeavePeers
<1> QED
  BY <1>1, <1>2, AlwaysInv, PTL DEF Spec, ImplementsLife, Life!Spec
=============================================================================
