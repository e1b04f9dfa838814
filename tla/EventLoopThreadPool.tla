------------------------ MODULE EventLoopThreadPool -------------------------
(***************************************************************************)
(* EventLoopThreadPool, with EventLoopThread and Thread below it: the      *)
(* thread that owns the base loop sets the number of threads, starts them  *)
(* one after the other, takes loops from the pool for new connections and  *)
(* at the end destroys the pool; each worker constructs its own EventLoop, *)
(* publishes it, runs it and destroys it.                                  *)
(*                                                                         *)
(* A worker's loop is reduced to what starting and stopping it depends on: *)
(* quit_, the eventfd, and whether the object is alive. Module EventLoop   *)
(* has the rest. Loop 0 is the base loop and loop i that of thread i.      *)
(***************************************************************************)
EXTENDS Integers, Sequences

CONSTANTS
  MaxThreads,   \* the largest argument of setThreadNum
  MaxShare      \* bound: how often getNextLoop may return the same loop

ASSUME MaxThreadsAssumption == MaxThreads \in Nat
ASSUME MaxShareAssumption == MaxShare \in Nat

Workers == 1 .. MaxThreads
Loops == 0 .. MaxThreads

VARIABLES
  numThreads,   \* numThreads_
  started,      \* started_
  loops,        \* loops_
  next,         \* next_
  mainAt,       \* where the base loop's thread is in a call of the pool
  cur,          \* the EventLoopThread that call is working on
  at,           \* where each worker is in threadFunc()
  loop_,        \* EventLoopThread::loop_ is not null
  alive,        \* the worker's EventLoop exists
  quit,         \* its quit_
  wakeupFd,     \* its eventfd is readable
  initDone,     \* the loops the thread-init callback has run on
  given         \* history: how often getNextLoop returned each loop

mainVars == <<numThreads, started, loops, next, mainAt, cur, given>>
workerVars == <<at, loop_, alive, quit, wakeupFd>>
vars == <<mainVars, workerVars, initDone>>

MainPoints == {"idle", "starting", "sem", "check", "waiting", "dtor", "quit",
               "wakeup", "join", "destroyed"}

WorkerPoints == {"none", "created", "construct", "callback", "publish", "reset",
                 "test", "poll", "unpublish", "destroy", "finished"}

Init ==
  /\ numThreads = 0
  /\ started = FALSE
  /\ loops = <<>>
  /\ next = 0
  /\ mainAt = "idle"
  /\ cur = 0
  /\ at = [i \in Workers |-> "none"]
  /\ loop_ = [i \in Workers |-> FALSE]
  /\ alive = [i \in Workers |-> FALSE]
  /\ quit = [i \in Workers |-> FALSE]
  /\ wakeupFd = [i \in Workers |-> FALSE]
  /\ initDone = {}
  /\ given = [l \in Loops |-> 0]

-----------------------------------------------------------------------------
(* The pool's functions, called by the base loop's thread.                 *)

setThreadNum(n) ==
  /\ mainAt = "idle"
  /\ numThreads' = n
  /\ UNCHANGED <<started, loops, next, mainAt, cur, given, workerVars, initDone>>

\* TcpServer::start() calls it once.
start ==
  /\ mainAt = "idle" /\ ~started
  /\ started' = TRUE
  /\ mainAt' = "starting"
  /\ UNCHANGED <<numThreads, loops, next, cur, given, workerVars, initDone>>

\* Thread::start() returns when the new thread has stored its tid.
startThread ==
  /\ mainAt = "starting" /\ cur < numThreads
  /\ cur' = cur + 1
  /\ at' = [at EXCEPT ![cur + 1] = "created"]
  /\ mainAt' = "sem"
  /\ UNCHANGED <<numThreads, started, loops, next, given, loop_, alive, quit,
                 wakeupFd, initDone>>

\* Without threads the callback runs on the base loop.
endOfStart ==
  /\ mainAt = "starting" /\ cur = numThreads
  /\ initDone' = IF numThreads = 0 THEN initDone \cup {0} ELSE initDone
  /\ mainAt' = "idle"
  /\ UNCHANGED <<numThreads, started, loops, next, cur, given, workerVars>>

getAllLoops == IF loops = <<>> THEN <<0>> ELSE loops

nextLoop == IF loops = <<>> THEN 0 ELSE loops[next + 1]

\* Mutation: the walk starts again from the second loop.
getNextLoopFromSecond ==
  /\ mainAt = "idle"
  /\ given[nextLoop] < MaxShare
  /\ given' = [given EXCEPT ![nextLoop] = @ + 1]
  /\ next' = IF loops = <<>> THEN next
             ELSE IF next + 1 >= Len(loops) THEN Len(loops) - 1 ELSE next + 1
  /\ UNCHANGED <<numThreads, started, loops, mainAt, cur, workerVars, initDone>>

getNextLoop ==
  /\ mainAt = "idle"
  /\ given[nextLoop] < MaxShare
  /\ given' = [given EXCEPT ![nextLoop] = @ + 1]
  /\ next' = IF loops = <<>> THEN next
             ELSE IF next + 1 >= Len(loops) THEN 0 ELSE next + 1
  /\ UNCHANGED <<numThreads, started, loops, mainAt, cur, workerVars, initDone>>

-----------------------------------------------------------------------------
(* EventLoopThread::startLoop(), after Thread::start() has returned.       *)

\* Mutation: no test of loop_ before the first wait.
waitForLoopUntested ==
  /\ mainAt = "check"
  /\ mainAt' = "waiting"
  /\ UNCHANGED <<numThreads, started, loops, next, cur, given, workerVars, initDone>>

\* Inside the mutex: the wait releases it in the same step.
waitForLoop ==
  /\ mainAt = "check" /\ ~loop_[cur]
  /\ mainAt' = "waiting"
  /\ UNCHANGED <<numThreads, started, loops, next, cur, given, workerVars, initDone>>

spuriousWakeup ==
  /\ mainAt = "waiting"
  /\ mainAt' = "check"
  /\ UNCHANGED <<numThreads, started, loops, next, cur, given, workerVars, initDone>>

\* Mutation: loop_ is taken as it is found.
takeLoopUntested ==
  /\ mainAt = "check"
  /\ loops' = Append(loops, cur)
  /\ mainAt' = "starting"
  /\ UNCHANGED <<numThreads, started, next, cur, given, workerVars, initDone>>

takeLoop ==
  /\ mainAt = "check" /\ loop_[cur]
  /\ loops' = Append(loops, cur)
  /\ mainAt' = "starting"
  /\ UNCHANGED <<numThreads, started, next, cur, given, workerVars, initDone>>

-----------------------------------------------------------------------------
(* ~EventLoopThreadPool() and ~EventLoopThread().                          *)

destroyPool ==
  /\ mainAt = "idle"
  /\ mainAt' = "dtor"
  /\ cur' = 1
  /\ UNCHANGED <<numThreads, started, loops, next, given, workerVars, initDone>>

\* loop_ is read without the mutex; a null one skips quit() and join().
testLoopPointer ==
  /\ mainAt = "dtor" /\ cur <= Len(loops)
  /\ IF loop_[cur] THEN mainAt' = "quit" /\ UNCHANGED cur
                   ELSE cur' = cur + 1 /\ UNCHANGED mainAt
  /\ UNCHANGED <<numThreads, started, loops, next, given, workerVars, initDone>>

setQuit ==
  /\ mainAt = "quit"
  /\ quit' = [quit EXCEPT ![cur] = TRUE]
  /\ mainAt' = "wakeup"
  /\ UNCHANGED <<numThreads, started, loops, next, cur, given, at, loop_, alive,
                 wakeupFd, initDone>>

\* Mutation: quit() trusts the loop to look at quit_ by itself.
wakeupNothing ==
  /\ mainAt = "wakeup"
  /\ mainAt' = "join"
  /\ UNCHANGED <<numThreads, started, loops, next, cur, given, workerVars, initDone>>

\* When the loop is gone already, its eventfd is closed and nobody sees the write.
wakeup ==
  /\ mainAt = "wakeup"
  /\ wakeupFd' = [wakeupFd EXCEPT ![cur] = alive[cur]]
  /\ mainAt' = "join"
  /\ UNCHANGED <<numThreads, started, loops, next, cur, given, at, loop_, alive,
                 quit, initDone>>

\* Mutation: the thread is detached, as Thread's destructor does by itself.
joinNobody ==
  /\ mainAt = "join"
  /\ cur' = cur + 1
  /\ mainAt' = "dtor"
  /\ UNCHANGED <<numThreads, started, loops, next, given, workerVars, initDone>>

join ==
  /\ mainAt = "join" /\ at[cur] = "finished"
  /\ cur' = cur + 1
  /\ mainAt' = "dtor"
  /\ UNCHANGED <<numThreads, started, loops, next, given, workerVars, initDone>>

endOfDestructor ==
  /\ mainAt = "dtor" /\ cur > Len(loops)
  /\ mainAt' = "destroyed"
  /\ UNCHANGED <<numThreads, started, loops, next, cur, given, workerVars, initDone>>

-----------------------------------------------------------------------------
(* threadFunc(), in worker i.                                              *)

Step(i, from, to) == at[i] = from /\ at' = [at EXCEPT ![i] = to]

postTid(i) ==
  /\ Step(i, "created", "construct")
  /\ mainAt' = "check"
  /\ UNCHANGED <<numThreads, started, loops, next, cur, given, loop_, alive, quit,
                 wakeupFd, initDone>>

constructLoop(i) ==
  /\ Step(i, "construct", "callback")
  /\ alive' = [alive EXCEPT ![i] = TRUE]
  /\ UNCHANGED <<mainVars, loop_, quit, wakeupFd, initDone>>

initCallback(i) ==
  /\ Step(i, "callback", "publish")
  /\ initDone' = initDone \cup {i}
  /\ UNCHANGED <<mainVars, loop_, alive, quit, wakeupFd>>

\* loop_ is set and the condition notified in one critical section.
publishLoop(i) ==
  /\ Step(i, "publish", "reset")
  /\ loop_' = [loop_ EXCEPT ![i] = TRUE]
  /\ mainAt' = IF mainAt = "waiting" THEN "check" ELSE mainAt
  /\ UNCHANGED <<numThreads, started, loops, next, cur, given, alive, quit,
                 wakeupFd, initDone>>

\* The first statement of loop() that matters here: quit_ = false.
resetQuit(i) ==
  /\ Step(i, "reset", "test")
  /\ quit' = [quit EXCEPT ![i] = FALSE]
  /\ UNCHANGED <<mainVars, loop_, alive, wakeupFd, initDone>>

testQuit(i) ==
  /\ Step(i, "test", IF quit[i] THEN "unpublish" ELSE "poll")
  /\ UNCHANGED <<mainVars, loop_, alive, quit, wakeupFd, initDone>>

\* One turn of the loop, which consumes the wakeup. It may also be due to
\* another event or to the timeout.
pollAndHandle(i) ==
  /\ Step(i, "poll", "test")
  /\ wakeupFd' = [wakeupFd EXCEPT ![i] = FALSE]
  /\ UNCHANGED <<mainVars, loop_, alive, quit, initDone>>

\* Mutation: loop_ is left pointing to the loop that is about to go.
unpublishNothing(i) ==
  /\ Step(i, "unpublish", "destroy")
  /\ UNCHANGED <<mainVars, loop_, alive, quit, wakeupFd, initDone>>

unpublishLoop(i) ==
  /\ Step(i, "unpublish", "destroy")
  /\ loop_' = [loop_ EXCEPT ![i] = FALSE]
  /\ UNCHANGED <<mainVars, alive, quit, wakeupFd, initDone>>

\* The loop is a local variable of threadFunc().
destroyLoop(i) ==
  /\ Step(i, "destroy", "finished")
  /\ alive' = [alive EXCEPT ![i] = FALSE]
  /\ UNCHANGED <<mainVars, loop_, quit, wakeupFd, initDone>>

-----------------------------------------------------------------------------
MainCalls ==
  \/ \E n \in Loops : setThreadNum(n)
  \/ start
  \/ getNextLoop
  \/ destroyPool

\* What follows by itself once the base loop's thread is inside a call.
MainSteps ==
  \/ startThread
  \/ endOfStart
  \/ waitForLoop
  \/ takeLoop
  \/ testLoopPointer
  \/ setQuit
  \/ wakeup
  \/ join
  \/ endOfDestructor

WorkerStep(i) ==
  \/ postTid(i)
  \/ constructLoop(i)
  \/ initCallback(i)
  \/ publishLoop(i)
  \/ resetQuit(i)
  \/ testQuit(i)
  \/ pollAndHandle(i)
  \/ unpublishLoop(i)
  \/ destroyLoop(i)

Next == MainCalls \/ MainSteps \/ spuriousWakeup \/ \E i \in Workers : WorkerStep(i)

\* A thread inside a call goes on unless it is blocked: nothing makes the base
\* loop's thread call the pool, and a worker in epoll_wait need not return
\* before its eventfd is readable.
Fairness ==
  /\ WF_vars(MainSteps)
  /\ \A i \in Workers :
       WF_vars(WorkerStep(i) /\ (at[i] = "poll" => wakeupFd[i]))

Spec == Init /\ [][Next]_vars

FairSpec == Spec /\ Fairness

-----------------------------------------------------------------------------
(* Properties.                                                             *)

Starting == mainAt \in {"starting", "sem", "check", "waiting"}
Destroying == mainAt \in {"dtor", "quit", "wakeup", "join", "destroyed"}

\* The types of the variables, and the objects agree with the places: a worker's
\* EventLoop exists from its constructor to its destructor, and loop_ is not
\* null from publishLoop to unpublishLoop.
TypeOK ==
  /\ numThreads \in Loops
  /\ started \in BOOLEAN
  /\ loops \in Seq(Workers)
  /\ next \in Nat
  /\ mainAt \in MainPoints
  /\ cur \in Nat
  /\ at \in [Workers -> WorkerPoints]
  /\ loop_ \in [Workers -> BOOLEAN]
  /\ alive \in [Workers -> BOOLEAN]
  /\ quit \in [Workers -> BOOLEAN]
  /\ wakeupFd \in [Workers -> BOOLEAN]
  /\ initDone \subseteq Loops
  /\ given \in [Loops -> Nat]
  /\ \A i \in Workers :
       /\ alive[i] <=> at[i] \notin {"none", "created", "construct", "finished"}
       /\ loop_[i] <=> at[i] \in {"reset", "test", "poll", "unpublish"}

\* Between start() and the destructor every loop the pool may hand out exists,
\* has had the thread-init callback and is still published, however the worker
\* that publishes it and the thread that waits for it interleave, and whatever
\* the condition variable does; loops_ lists the workers in order.
LoopsAreReady ==
  /\ \A k \in DOMAIN loops :
       /\ loops[k] = k
       /\ ~Destroying => alive[k] /\ loop_[k] /\ k \in initDone
  /\ started /\ mainAt = "idle" =>
       \A k \in DOMAIN getAllLoops : getAllLoops[k] \in initDone

\* The connections are dealt out evenly: the counts of two loops of the pool
\* never differ by more than one, and an earlier loop is never behind.
FairShare ==
  \A i, j \in DOMAIN loops :
    i < j => given[loops[i]] - given[loops[j]] \in {0, 1}

\* When ~EventLoopThread() has returned, its thread has finished: nothing of it
\* can touch the mutex, the pointer or the callback that are being freed.
DestroyedMeansFinished ==
  Destroying => \A k \in DOMAIN loops : k < cur \/ mainAt = "destroyed" =>
                                          at[loops[k]] = "finished"

\* start() returns: no notification is lost between a worker and the thread that
\* waits for its loop.
StartReturns == Starting ~> mainAt = "idle"

\* A quit that lands after loop() has cleared quit_ ends the thread, even if its
\* loop is asleep in epoll_wait.
QuitInTimeEndsThread ==
  \A i \in Workers :
    mainAt = "wakeup" /\ cur = i /\ quit[i] /\ at[i] # "reset"
      ~> at[i] = "finished"

\* The destructor returns. EventLoop::quit() says it works from another thread.
DestructorReturns == mainAt = "dtor" ~> mainAt = "destroyed"

\* The loop that quit() wakes up still exists.
WakeupReachesLoop == mainAt = "wakeup" => alive[cur]
=============================================================================
