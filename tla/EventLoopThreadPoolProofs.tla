--------------------- MODULE EventLoopThreadPoolProofs ---------------------
(***************************************************************************)
(* The safety of EventLoopThreadPool for any number of threads and of      *)
(* connections. Where the base loop's thread is in a call decides which    *)
(* workers exist and serve their loops (MainInv, WorkerInv); the position  *)
(* of next_ says how the connections have been dealt out (ShareInv).       *)
(***************************************************************************)
EXTENDS EventLoopThreadPool, SequenceTheorems, TLAPS

Serving(k) == at[k] \in {"reset", "test", "poll"} /\ ~quit[k]

\* The destructor has not yet asked worker k to quit.
Untouched(k) ==
  \/ ~Destroying
  \/ mainAt \in {"dtor", "quit"} /\ k >= cur
  \/ mainAt \in {"wakeup", "join"} /\ k > cur

\* The base loop's thread: loops_ has the workers that were started, in order,
\* cur is the last of them until the destructor walks through them again, and
\* the workers beyond it do not exist.
MainInv ==
  /\ Len(loops) \in Loops
  /\ \A k \in Workers : k <= Len(loops) => loops[k] = k
  /\ mainAt \in {"idle", "starting"} => cur = Len(loops)
  /\ mainAt = "starting" => cur <= numThreads
  /\ mainAt \in {"sem", "check", "waiting"} =>
       cur \in 1 .. numThreads /\ Len(loops) = cur - 1
  /\ Destroying => cur >= 1
  /\ mainAt \in {"quit", "wakeup", "join"} => cur <= Len(loops)
  /\ ~started => Len(loops) = 0 /\ (mainAt = "idle" \/ Destroying)
  /\ started /\ mainAt = "idle" /\ Len(loops) = 0 => 0 \in initDone
  /\ \A i \in Workers :
       /\ ~Destroying /\ i > cur => at[i] = "none"
       /\ at[i] = "created" => mainAt = "sem" /\ i = cur

\* A worker in loops_ serves its loop until the destructor asks it to quit, and
\* has finished when the destructor goes on to the next one; no worker stops
\* before that.
WorkerOK(i) ==
  /\ i <= Len(loops) /\ Untouched(i) => Serving(i)
  /\ i <= Len(loops) /\ Destroying /\ (i < cur \/ mainAt = "destroyed") =>
       at[i] = "finished"
  /\ at[i] \notin {"none", "created", "construct", "callback"} => i \in initDone
  /\ at[i] \in {"unpublish", "destroy", "finished"} \/ quit[i] => Destroying

WorkerInv == \A i \in Workers : WorkerOK(i)

\* The loops before next_ are one connection ahead of the others.
ShareInv ==
  /\ ~started \/ Starting => next = 0 /\ \A i \in Workers : given[i] = 0
  /\ Len(loops) > 0 => next < Len(loops)
  /\ \A k \in Workers :
       k <= Len(loops) =>
         given[k] = IF k <= next THEN given[Len(loops)] + 1 ELSE given[Len(loops)]

-----------------------------------------------------------------------------
LEMMA TakeLoopAppends ==
  ASSUME TypeOK, MainInv, takeLoop
  PROVE  /\ cur \in Workers
         /\ loops' \in Seq(Workers)
         /\ Len(loops') = cur
         /\ \A k \in Workers : k <= cur => loops'[k] = k
<1>1. cur \in Workers /\ Len(loops) = cur - 1
  BY MaxThreadsAssumption DEF MainInv, TypeOK, takeLoop, Loops, Workers
<1>2. loops \in Seq(Workers) /\ loops' = Append(loops, cur)
  BY DEF TypeOK, takeLoop
<1>3. /\ loops' \in Seq(Workers)
      /\ Len(loops') = Len(loops) + 1
      /\ loops'[Len(loops) + 1] = cur
      /\ \A k \in 1 .. Len(loops) : loops'[k] = loops[k]
  BY <1>1, <1>2, AppendProperties
<1>4. \A k \in Workers : k <= Len(loops) => loops[k] = k
  BY DEF MainInv
<1> QED
  BY <1>1, <1>3, <1>4, MaxThreadsAssumption DEF Workers

-----------------------------------------------------------------------------
LEMMA InitTypeOK == Init => TypeOK
<1> SUFFICES ASSUME Init
             PROVE  TypeOK
  OBVIOUS
<1>1. loops \in Seq(Workers)
  BY EmptySeq DEF Init
<1>2. /\ numThreads \in Loops
      /\ given \in [Loops -> Nat]
  BY MaxThreadsAssumption DEF Init, Loops
<1>3. /\ at \in [Workers -> WorkerPoints]
      /\ loop_ \in [Workers -> BOOLEAN]
      /\ alive \in [Workers -> BOOLEAN]
      /\ quit \in [Workers -> BOOLEAN]
      /\ wakeupFd \in [Workers -> BOOLEAN]
  BY DEF Init, WorkerPoints
<1>4. \A i \in Workers : at[i] = "none" /\ ~alive[i] /\ ~loop_[i]
  BY DEF Init
<1> QED
  BY <1>1, <1>2, <1>3, <1>4 DEF Init, TypeOK, MainPoints

LEMMA NextTypeOK == TypeOK /\ MainInv /\ [Next]_vars => TypeOK'
<1> SUFFICES ASSUME TypeOK, MainInv, [Next]_vars
             PROVE  TypeOK'
  OBVIOUS
<1> USE DEF TypeOK, MainPoints, WorkerPoints, mainVars, workerVars
<1>1. ASSUME NEW n \in Loops, setThreadNum(n)
      PROVE  TypeOK'
  BY <1>1 DEF setThreadNum
<1>2. CASE start
  BY <1>2 DEF start
<1>3. CASE startThread
  <2>1. cur + 1 \in Workers => at[cur + 1] = "none"
    BY <1>3, MaxThreadsAssumption DEF startThread, MainInv, Destroying, Workers
  <2>2. at' \in [Workers -> WorkerPoints]
    BY <1>3 DEF startThread
  <2>3. \A i \in Workers :
          \/ at'[i] = at[i]
          \/ at[i] = "none" /\ at'[i] = "created"
    BY <1>3, <2>1 DEF startThread
  <2>4. cur' \in Nat
    BY <1>3 DEF startThread
  <2> QED
    BY <1>3, <2>2, <2>3, <2>4 DEF startThread
<1>4. CASE endOfStart
  BY <1>4 DEF endOfStart
<1>5. CASE getNextLoop
  <2>1. next' \in Nat
    BY <1>5, MaxThreadsAssumption DEF getNextLoop, MainInv, Loops
  <2>2. given' \in [Loops -> Nat]
    <3>1. given' = [given EXCEPT ![nextLoop] = given[nextLoop] + 1]
      BY <1>5 DEF getNextLoop
    <3>2. nextLoop \in Loops => given[nextLoop] + 1 \in Nat
      OBVIOUS
    <3> QED
      BY <3>1, <3>2
  <2> QED
    BY <1>5, <2>1, <2>2 DEF getNextLoop
<1>6. CASE waitForLoop
  BY <1>6 DEF waitForLoop
<1>7. CASE spuriousWakeup
  BY <1>7 DEF spuriousWakeup
<1>8. CASE takeLoop
  BY <1>8, TakeLoopAppends DEF takeLoop
<1>9. CASE destroyPool
  BY <1>9 DEF destroyPool
<1>10. CASE testLoopPointer
  BY <1>10 DEF testLoopPointer
<1>11. CASE setQuit
  BY <1>11 DEF setQuit
<1>12. CASE wakeup
  BY <1>12 DEF wakeup
<1>13. CASE join
  BY <1>13 DEF join
<1>14. CASE endOfDestructor
  BY <1>14 DEF endOfDestructor
<1>15. ASSUME NEW i \in Workers, postTid(i)
      PROVE  TypeOK'
  BY <1>15 DEF Step, postTid
<1>16. ASSUME NEW i \in Workers, constructLoop(i)
      PROVE  TypeOK'
  BY <1>16 DEF Step, constructLoop
<1>17. ASSUME NEW i \in Workers, initCallback(i)
      PROVE  TypeOK'
  <2>1. Workers \subseteq Loops
    BY MaxThreadsAssumption DEF Workers, Loops
  <2> QED
    BY <1>17, <2>1 DEF Step, initCallback
<1>18. ASSUME NEW i \in Workers, publishLoop(i)
      PROVE  TypeOK'
  BY <1>18 DEF Step, publishLoop
<1>19. ASSUME NEW i \in Workers, resetQuit(i)
      PROVE  TypeOK'
  BY <1>19 DEF Step, resetQuit
<1>20. ASSUME NEW i \in Workers, testQuit(i)
      PROVE  TypeOK'
  BY <1>20 DEF Step, testQuit
<1>21. ASSUME NEW i \in Workers, pollAndHandle(i)
      PROVE  TypeOK'
  BY <1>21 DEF Step, pollAndHandle
<1>22. ASSUME NEW i \in Workers, unpublishLoop(i)
      PROVE  TypeOK'
  BY <1>22 DEF Step, unpublishLoop
<1>23. ASSUME NEW i \in Workers, destroyLoop(i)
      PROVE  TypeOK'
  BY <1>23 DEF Step, destroyLoop
<1>24. CASE UNCHANGED vars
  BY <1>24 DEF vars
<1> QED
  BY <1>1, <1>2, <1>3, <1>4, <1>5, <1>6, <1>7, <1>8, <1>9, <1>10, <1>11,
     <1>12, <1>13, <1>14, <1>15, <1>16, <1>17, <1>18, <1>19, <1>20, <1>21,
     <1>22, <1>23, <1>24 DEF Next, MainCalls, MainSteps, WorkerStep

-----------------------------------------------------------------------------
LEMMA InitMainInv == Init => MainInv
<1> SUFFICES ASSUME Init
             PROVE  MainInv
  OBVIOUS
<1>1. Len(loops) = 0
  BY EmptySeq DEF Init
<1>2. \A i \in Workers : at[i] = "none"
  BY DEF Init
<1> QED
  BY <1>1, <1>2, MaxThreadsAssumption DEF Init, MainInv, Destroying, Loops, Workers

LEMMA NextMainInv == TypeOK /\ MainInv /\ [Next]_vars => MainInv'
<1> SUFFICES ASSUME TypeOK, MainInv, [Next]_vars
             PROVE  MainInv'
  OBVIOUS
<1> USE MaxThreadsAssumption
    DEF MainInv, TypeOK, Destroying, Loops, Workers, mainVars, workerVars
<1>1. ASSUME NEW n \in Loops, setThreadNum(n)
      PROVE  MainInv'
  BY <1>1 DEF setThreadNum
<1>2. CASE start
  <2>1. Len(loops) = 0 /\ cur = 0
    BY <1>2 DEF start
  <2>2. /\ mainAt' = "starting" /\ started' = TRUE
        /\ loops' = loops /\ cur' = cur /\ numThreads' = numThreads
        /\ at' = at /\ initDone' = initDone /\ mainAt = "idle"
    BY <1>2 DEF start
  <2> QED
    BY <2>1, <2>2
<1>3. CASE startThread
  BY <1>3 DEF startThread
<1>4. CASE endOfStart
  BY <1>4 DEF endOfStart
<1>5. CASE getNextLoop
  BY <1>5 DEF getNextLoop
<1>6. CASE waitForLoop
  BY <1>6 DEF waitForLoop
<1>7. CASE spuriousWakeup
  BY <1>7 DEF spuriousWakeup
<1>8. CASE takeLoop
  BY <1>8, TakeLoopAppends DEF takeLoop
<1>9. CASE destroyPool
  BY <1>9 DEF destroyPool
<1>10. CASE testLoopPointer
  <2>1. Len(loops) \in Nat /\ cur \in Nat /\ cur <= Len(loops) /\ mainAt = "dtor"
    BY <1>10 DEF testLoopPointer
  <2>2. /\ loops' = loops /\ numThreads' = numThreads /\ started' = started
        /\ at' = at /\ initDone' = initDone
    BY <1>10 DEF testLoopPointer
  <2>3. CASE mainAt' = "quit" /\ cur' = cur
    BY <2>1, <2>2, <2>3
  <2>4. CASE mainAt' = mainAt /\ cur' = cur + 1
    BY <2>1, <2>2, <2>4
  <2> QED
    BY <1>10, <2>3, <2>4 DEF testLoopPointer
<1>11. CASE setQuit
  BY <1>11 DEF setQuit
<1>12. CASE wakeup
  BY <1>12 DEF wakeup
<1>13. CASE join
  BY <1>13 DEF join
<1>14. CASE endOfDestructor
  BY <1>14 DEF endOfDestructor
<1>15. ASSUME NEW i \in Workers, postTid(i)
      PROVE  MainInv'
  BY <1>15 DEF Step, postTid
<1>16. ASSUME NEW i \in Workers, constructLoop(i)
      PROVE  MainInv'
  BY <1>16 DEF Step, constructLoop
<1>17. ASSUME NEW i \in Workers, initCallback(i)
      PROVE  MainInv'
  BY <1>17 DEF Step, initCallback
<1>18. ASSUME NEW i \in Workers, publishLoop(i)
      PROVE  MainInv'
  BY <1>18 DEF Step, publishLoop
<1>19. ASSUME NEW i \in Workers, resetQuit(i)
      PROVE  MainInv'
  BY <1>19 DEF Step, resetQuit
<1>20. ASSUME NEW i \in Workers, testQuit(i)
      PROVE  MainInv'
  BY <1>20 DEF Step, testQuit
<1>21. ASSUME NEW i \in Workers, pollAndHandle(i)
      PROVE  MainInv'
  BY <1>21 DEF Step, pollAndHandle
<1>22. ASSUME NEW i \in Workers, unpublishLoop(i)
      PROVE  MainInv'
  BY <1>22 DEF Step, unpublishLoop
<1>23. ASSUME NEW i \in Workers, destroyLoop(i)
      PROVE  MainInv'
  BY <1>23 DEF Step, destroyLoop
<1>24. CASE UNCHANGED vars
  BY <1>24 DEF vars
<1> QED
  BY <1>1, <1>2, <1>3, <1>4, <1>5, <1>6, <1>7, <1>8, <1>9, <1>10, <1>11,
     <1>12, <1>13, <1>14, <1>15, <1>16, <1>17, <1>18, <1>19, <1>20, <1>21,
     <1>22, <1>23, <1>24 DEF Next, MainCalls, MainSteps, WorkerStep

-----------------------------------------------------------------------------
LEMMA InitWorkerInv == Init => WorkerInv
<1> SUFFICES ASSUME Init, NEW i \in Workers
             PROVE  WorkerOK(i)
  BY DEF WorkerInv
<1>1. Len(loops) = 0 /\ at[i] = "none" /\ ~quit[i]
  BY EmptySeq DEF Init
<1> QED
  BY <1>1, MaxThreadsAssumption DEF WorkerOK, Workers

LEMMA NextWorkerInv == TypeOK /\ MainInv /\ WorkerInv /\ [Next]_vars => WorkerInv'
<1> SUFFICES ASSUME TypeOK, MainInv, WorkerInv, [Next]_vars, NEW k \in Workers
             PROVE  WorkerOK(k)'
  BY DEF WorkerInv
<1>0. WorkerOK(k)
  BY DEF WorkerInv
<1> USE <1>0, MaxThreadsAssumption
    DEF WorkerOK, MainInv, TypeOK, Destroying, Untouched, Serving, Loops, Workers,
        mainVars, workerVars
<1>1. ASSUME NEW n \in Loops, setThreadNum(n)
      PROVE  WorkerOK(k)'
  BY <1>1 DEF setThreadNum
<1>2. CASE start
  BY <1>2 DEF start
<1>3. CASE startThread
  BY <1>3 DEF startThread
<1>4. CASE endOfStart
  BY <1>4 DEF endOfStart
<1>5. CASE getNextLoop
  BY <1>5 DEF getNextLoop
<1>6. CASE waitForLoop
  BY <1>6 DEF waitForLoop
<1>7. CASE spuriousWakeup
  BY <1>7 DEF spuriousWakeup
<1>8. CASE takeLoop
  BY <1>8, TakeLoopAppends DEF takeLoop
<1>9. CASE destroyPool
  BY <1>9 DEF destroyPool
<1>10. CASE testLoopPointer
  <2>1. cur \in Workers /\ mainAt = "dtor"
    BY <1>10 DEF testLoopPointer
  <2>2. at[cur] \in {"reset", "test", "poll"}
    <3>1. WorkerOK(cur)
      BY <2>1 DEF WorkerInv
    <3>2. cur <= Len(loops) /\ Untouched(cur)
      BY <1>10, <2>1 DEF testLoopPointer
    <3> QED
      BY <3>1, <3>2
  <2>3. loop_[cur]
    BY <2>1, <2>2
  <2>4. mainAt' = "quit" /\ cur' = cur
    BY <1>10, <2>3 DEF testLoopPointer
  <2>5. /\ loops' = loops /\ at' = at /\ quit' = quit /\ initDone' = initDone
    BY <1>10 DEF testLoopPointer
  <2> QED
    BY <2>1, <2>4, <2>5
<1>11. CASE setQuit
  BY <1>11 DEF setQuit
<1>12. CASE wakeup
  BY <1>12 DEF wakeup
<1>13. CASE join
  BY <1>13 DEF join
<1>14. CASE endOfDestructor
  BY <1>14 DEF endOfDestructor
<1>15. ASSUME NEW i \in Workers, postTid(i)
      PROVE  WorkerOK(k)'
  BY <1>15 DEF Step, postTid
<1>16. ASSUME NEW i \in Workers, constructLoop(i)
      PROVE  WorkerOK(k)'
  BY <1>16 DEF Step, constructLoop
<1>17. ASSUME NEW i \in Workers, initCallback(i)
      PROVE  WorkerOK(k)'
  BY <1>17 DEF Step, initCallback
<1>18. ASSUME NEW i \in Workers, publishLoop(i)
      PROVE  WorkerOK(k)'
  BY <1>18 DEF Step, publishLoop
<1>19. ASSUME NEW i \in Workers, resetQuit(i)
      PROVE  WorkerOK(k)'
  BY <1>19 DEF Step, resetQuit
<1>20. ASSUME NEW i \in Workers, testQuit(i)
      PROVE  WorkerOK(k)'
  BY <1>20 DEF Step, testQuit
<1>21. ASSUME NEW i \in Workers, pollAndHandle(i)
      PROVE  WorkerOK(k)'
  BY <1>21 DEF Step, pollAndHandle
<1>22. ASSUME NEW i \in Workers, unpublishLoop(i)
      PROVE  WorkerOK(k)'
  BY <1>22 DEF Step, unpublishLoop
<1>23. ASSUME NEW i \in Workers, destroyLoop(i)
      PROVE  WorkerOK(k)'
  BY <1>23 DEF Step, destroyLoop
<1>24. CASE UNCHANGED vars
  BY <1>24 DEF vars
<1> QED
  BY <1>1, <1>2, <1>3, <1>4, <1>5, <1>6, <1>7, <1>8, <1>9, <1>10, <1>11,
     <1>12, <1>13, <1>14, <1>15, <1>16, <1>17, <1>18, <1>19, <1>20, <1>21,
     <1>22, <1>23, <1>24 DEF Next, MainCalls, MainSteps, WorkerStep

-----------------------------------------------------------------------------
LEMMA InitShareInv == Init => ShareInv
<1> SUFFICES ASSUME Init
             PROVE  ShareInv
  OBVIOUS
<1>1. Len(loops) = 0
  BY EmptySeq DEF Init
<1>2. \A i \in Workers : given[i] = 0
  BY MaxThreadsAssumption DEF Init, Loops, Workers
<1> QED
  BY <1>1, <1>2, MaxThreadsAssumption DEF Init, ShareInv, Workers

LEMMA NextShareInv == TypeOK /\ MainInv /\ ShareInv /\ [Next]_vars => ShareInv'
<1> SUFFICES ASSUME TypeOK, MainInv, ShareInv, [Next]_vars
             PROVE  ShareInv'
  OBVIOUS
<1> USE MaxThreadsAssumption
    DEF ShareInv, MainInv, TypeOK, Starting, Destroying, Loops, Workers,
        mainVars, workerVars
<1>1. ASSUME NEW n \in Loops, setThreadNum(n)
      PROVE  ShareInv'
  BY <1>1 DEF setThreadNum
<1>2. CASE start
  BY <1>2 DEF start
<1>3. CASE startThread
  BY <1>3 DEF startThread
<1>4. CASE endOfStart
  BY <1>4 DEF endOfStart
<1>5. CASE getNextLoop
  <2>1. CASE Len(loops) = 0
    <3>1. loops = <<>>
      BY <2>1, EmptySeq
    <3>2. given' = [given EXCEPT ![0] = @ + 1] /\ next' = next /\ loops' = loops
      BY <1>5, <3>1 DEF getNextLoop, nextLoop
    <3> QED
      BY <1>5, <2>1, <3>2 DEF getNextLoop
  <2>2. CASE Len(loops) > 0
    <3>1. loops # <<>>
      BY <2>2, EmptySeq
    <3>2. next + 1 \in Workers /\ loops[next + 1] = next + 1
      <4>1. next + 1 \in Workers /\ next + 1 <= Len(loops)
        BY <2>2
      <4> QED
        BY <4>1
    <3>3. /\ given' = [given EXCEPT ![next + 1] = @ + 1]
          /\ next' = IF next + 1 >= Len(loops) THEN 0 ELSE next + 1
          /\ loops' = loops
      BY <1>5, <3>1, <3>2 DEF getNextLoop, nextLoop
    <3>4. \A k \in Workers :
            k <= Len(loops) =>
              given'[k] = IF k <= next' THEN given'[Len(loops)] + 1
                          ELSE given'[Len(loops)]
      <4>1. CASE next + 1 = Len(loops)
        BY <2>2, <3>3, <4>1
      <4>2. CASE next + 1 < Len(loops)
        <5>1. next' = next + 1 /\ Len(loops) \in Workers
          BY <2>2, <3>3, <4>2
        <5>2. given'[Len(loops)] = given[Len(loops)]
          BY <3>2, <3>3, <4>2, <5>1
        <5>3. given'[next + 1] = given[Len(loops)] + 1
          <6>1. given[next + 1] = given[Len(loops)]
            <7>1. given[next + 1] = IF next + 1 <= next THEN given[Len(loops)] + 1
                                    ELSE given[Len(loops)]
              BY <3>2, <4>2 DEF ShareInv
            <7>2. ~(next + 1 <= next)
              BY DEF TypeOK
            <7> QED
              BY <7>1, <7>2
          <6>2. given'[next + 1] = given[next + 1] + 1
            BY <3>2, <3>3
          <6> QED
            BY <6>1, <6>2
        <5>4. \A k \in Workers : k # next + 1 => given'[k] = given[k]
          BY <3>2, <3>3
        <5> SUFFICES ASSUME NEW k \in Workers, k <= Len(loops)
                     PROVE  given'[k] = IF k <= next' THEN given'[Len(loops)] + 1
                                        ELSE given'[Len(loops)]
          OBVIOUS
        <5>5. CASE k = next + 1
          BY <5>1, <5>2, <5>3, <5>5
        <5>6. CASE k # next + 1
          <6>1. given'[k] = given[k]
            BY <5>4, <5>6
          <6>2. k <= next' <=> k <= next
            BY <5>1, <5>6
          <6>3. given[k] = IF k <= next THEN given[Len(loops)] + 1
                           ELSE given[Len(loops)]
            OBVIOUS
          <6> QED
            BY <5>2, <6>1, <6>2, <6>3
        <5> QED
          BY <5>5, <5>6
      <4> QED
        BY <2>2, <4>1, <4>2
    <3> QED
      BY <1>5, <2>2, <3>3, <3>4 DEF getNextLoop
  <2> QED
    BY <2>1, <2>2
<1>6. CASE waitForLoop
  BY <1>6 DEF waitForLoop
<1>7. CASE spuriousWakeup
  BY <1>7 DEF spuriousWakeup
<1>8. CASE takeLoop
  BY <1>8, TakeLoopAppends DEF takeLoop
<1>9. CASE destroyPool
  BY <1>9 DEF destroyPool
<1>10. CASE testLoopPointer
  BY <1>10 DEF testLoopPointer
<1>11. CASE setQuit
  BY <1>11 DEF setQuit
<1>12. CASE wakeup
  BY <1>12 DEF wakeup
<1>13. CASE join
  BY <1>13 DEF join
<1>14. CASE endOfDestructor
  BY <1>14 DEF endOfDestructor
<1>15. ASSUME NEW i \in Workers, postTid(i)
      PROVE  ShareInv'
  BY <1>15 DEF Step, postTid
<1>16. ASSUME NEW i \in Workers, constructLoop(i)
      PROVE  ShareInv'
  BY <1>16 DEF Step, constructLoop
<1>17. ASSUME NEW i \in Workers, initCallback(i)
      PROVE  ShareInv'
  BY <1>17 DEF Step, initCallback
<1>18. ASSUME NEW i \in Workers, publishLoop(i)
      PROVE  ShareInv'
  BY <1>18 DEF Step, publishLoop
<1>19. ASSUME NEW i \in Workers, resetQuit(i)
      PROVE  ShareInv'
  BY <1>19 DEF Step, resetQuit
<1>20. ASSUME NEW i \in Workers, testQuit(i)
      PROVE  ShareInv'
  BY <1>20 DEF Step, testQuit
<1>21. ASSUME NEW i \in Workers, pollAndHandle(i)
      PROVE  ShareInv'
  BY <1>21 DEF Step, pollAndHandle
<1>22. ASSUME NEW i \in Workers, unpublishLoop(i)
      PROVE  ShareInv'
  BY <1>22 DEF Step, unpublishLoop
<1>23. ASSUME NEW i \in Workers, destroyLoop(i)
      PROVE  ShareInv'
  BY <1>23 DEF Step, destroyLoop
<1>24. CASE UNCHANGED vars
  BY <1>24 DEF vars
<1> QED
  BY <1>1, <1>2, <1>3, <1>4, <1>5, <1>6, <1>7, <1>8, <1>9, <1>10, <1>11,
     <1>12, <1>13, <1>14, <1>15, <1>16, <1>17, <1>18, <1>19, <1>20, <1>21,
     <1>22, <1>23, <1>24 DEF Next, MainCalls, MainSteps, WorkerStep

-----------------------------------------------------------------------------
PoolInv == TypeOK /\ MainInv /\ WorkerInv /\ ShareInv

LEMMA PoolInvariant == Spec => []PoolInv
<1>1. Init => PoolInv
  BY InitTypeOK, InitMainInv, InitWorkerInv, InitShareInv DEF PoolInv
<1>2. PoolInv /\ [Next]_vars => PoolInv'
  BY NextTypeOK, NextMainInv, NextWorkerInv, NextShareInv DEF PoolInv
<1> QED
  BY <1>1, <1>2, PTL DEF Spec

\* The indices of loops_, as the lemmas above count them.
LEMMA LoopIndices ==
  ASSUME PoolInv, NEW k \in DOMAIN loops
  PROVE  k \in Workers /\ k <= Len(loops) /\ loops[k] = k
<1>1. k \in 1 .. Len(loops)
  BY LenProperties DEF PoolInv, TypeOK
<1> QED
  BY <1>1, MaxThreadsAssumption DEF PoolInv, MainInv, Loops, Workers

\* The variables keep their types, and the objects of a worker agree with the
\* place it is at, for any number of threads.
THEOREM PoolTypeCorrect == Spec => []TypeOK
<1>1. PoolInv => TypeOK
  BY DEF PoolInv
<1> QED
  BY <1>1, PoolInvariant, PTL

\* However many threads are started and however they interleave, the pool hands
\* out loops that exist, are published and have had the thread-init callback.
THEOREM PoolLoopsAreReady == Spec => []LoopsAreReady
<1>1. ASSUME PoolInv
      PROVE  LoopsAreReady
  <2>1. ASSUME NEW k \in DOMAIN loops
        PROVE  /\ loops[k] = k
               /\ ~Destroying => alive[k] /\ loop_[k]
               /\ ~Destroying => k \in initDone
    <3>1. k \in Workers /\ k <= Len(loops) /\ loops[k] = k
      BY <1>1, <2>1, LoopIndices
    <3>2. WorkerOK(k)
      BY <1>1, <3>1 DEF PoolInv, WorkerInv
    <3>3. ~Destroying => at[k] \in {"reset", "test", "poll"}
      BY <3>1, <3>2 DEF WorkerOK, Untouched, Serving
    <3>4. ~Destroying => alive[k] /\ loop_[k]
      BY <1>1, <3>1, <3>3 DEF PoolInv, TypeOK
    <3> QED
      BY <3>1, <3>2, <3>3, <3>4 DEF WorkerOK
  <2>2. ASSUME started, mainAt = "idle", NEW k \in DOMAIN getAllLoops
        PROVE  getAllLoops[k] \in initDone
    <3>1. CASE loops = <<>>
      <4>1. 0 \in initDone
        BY <1>1, <2>2, <3>1, EmptySeq DEF PoolInv, MainInv
      <4>2. getAllLoops = <<0>>
        BY <3>1 DEF getAllLoops
      <4> QED
        BY <2>2, <4>1, <4>2
    <3>2. CASE loops # <<>>
      BY <2>1, <2>2, <3>2 DEF getAllLoops, Destroying
    <3> QED
      BY <3>1, <3>2
  <2> QED
    BY <2>1, <2>2 DEF LoopsAreReady
<1> QED
  BY <1>1, PoolInvariant, PTL

\* The round robin of getNextLoop deals the connections out evenly among any
\* number of loops.
THEOREM PoolSharesFairly == Spec => []FairShare
<1>1. ASSUME PoolInv
      PROVE  FairShare
  <2>1. ASSUME NEW i \in DOMAIN loops, NEW j \in DOMAIN loops, i < j
        PROVE  given[loops[i]] - given[loops[j]] \in {0, 1}
    <3>1. /\ i \in Workers /\ i <= Len(loops) /\ loops[i] = i
          /\ j \in Workers /\ j <= Len(loops) /\ loops[j] = j
      BY <1>1, <2>1, LoopIndices
    <3>2. Len(loops) \in Loops /\ next \in Nat /\ given \in [Loops -> Nat]
      BY <1>1 DEF PoolInv, TypeOK, MainInv
    <3>3. /\ given[i] = IF i <= next THEN given[Len(loops)] + 1
                        ELSE given[Len(loops)]
          /\ given[j] = IF j <= next THEN given[Len(loops)] + 1
                        ELSE given[Len(loops)]
      BY <1>1, <3>1 DEF PoolInv, ShareInv
    <3>4. given[Len(loops)] \in Nat
      BY <3>2
    <3> QED
      BY <2>1, <3>1, <3>2, <3>3, <3>4, MaxThreadsAssumption DEF Workers
  <2> QED
    BY <2>1 DEF FairShare
<1> QED
  BY <1>1, PoolInvariant, PTL

\* When the destructor has passed a worker, its thread has finished.
THEOREM PoolDestroysFinished == Spec => []DestroyedMeansFinished
<1>1. ASSUME PoolInv, Destroying, NEW k \in DOMAIN loops,
             k < cur \/ mainAt = "destroyed"
      PROVE  at[loops[k]] = "finished"
  <2>1. k \in Workers /\ k <= Len(loops) /\ loops[k] = k
    BY <1>1, LoopIndices
  <2>2. WorkerOK(k)
    BY <1>1, <2>1 DEF PoolInv, WorkerInv
  <2> QED
    BY <1>1, <2>1, <2>2 DEF WorkerOK
<1>2. PoolInv => DestroyedMeansFinished
  BY <1>1 DEF DestroyedMeansFinished
<1> QED
  BY <1>2, PoolInvariant, PTL
=============================================================================
