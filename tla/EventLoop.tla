----------------------------- MODULE EventLoop ------------------------------
(***************************************************************************)
(* EventLoop (EventLoop.h, EventLoop.cc): one loop, the thread that owns   *)
(* it, and the other threads that hand it functors or ask it to quit.      *)
(*                                                                         *)
(* A step of this module is what one thread does between two accesses to   *)
(* state that other threads share: the functor vector behind mutex_, the   *)
(* atomics quit_ and callPendingFunctor_, and the eventfd.                 *)
(***************************************************************************)
EXTENDS Naturals, Sequences

CONSTANTS
  Threads,         \* the threads other than the one that owns the loop
  LoopThread,      \* the thread threadId_ names
  Functors,        \* one element per call of queueInLoop or runInLoop
  EarlyFunctors    \* those the owner may queue before it calls loop()

ASSUME ThreadsAssumption == LoopThread \notin Threads
ASSUME FunctorsAssumption == EarlyFunctors \subseteq Functors

VARIABLES
  looping,       \* looping_
  quit,          \* quit_
  callPending,   \* callPendingFunctor_
  pending,       \* pendingFunctors_
  functors,      \* doPendingFunctor's local vector, what is left of it
  wakeupFd,      \* the eventfd's counter is not zero
  active,        \* activeChannels_: the wakeup channel, some other channel
  loopAt,        \* where the owner is in loop()
  at,            \* where each thread is in a call of queueInLoop or quit
  issued,        \* history: the functors handed to the loop
  calls,         \* history: those that were queued, in the order of the pushes
  done           \* history: the functors run by doPendingFunctor, in order

vars == <<looping, quit, callPending, pending, functors, wakeupFd, active,
          loopAt, at, issued, calls, done>>

AllThreads == Threads \cup {LoopThread}

LoopPoints == {"constructed", "entered", "test", "poll", "handling",
               "swap", "run", "functor", "stopped"}

Init ==
  /\ looping = FALSE
  /\ quit = FALSE
  /\ callPending = FALSE
  /\ pending = <<>>
  /\ functors = <<>>
  /\ wakeupFd = FALSE
  /\ active = {}
  /\ loopAt = "constructed"
  /\ at = [t \in AllThreads |-> "idle"]
  /\ issued = {}
  /\ calls = <<>>
  /\ done = <<>>

isInLoopThread(t) == t = LoopThread

\* The owner runs code that may call the loop's functions before and after
\* loop(), in the callback of a channel of the user, and in a functor.
InUserCode ==
  \/ loopAt \in {"constructed", "functor", "stopped"}
  \/ loopAt = "handling" /\ "io" \in active

MayCall(t) == at[t] = "idle" /\ (isInLoopThread(t) => InUserCode)

Fresh(t, f) ==
  /\ f \notin issued
  /\ isInLoopThread(t) /\ loopAt = "constructed" => f \in EarlyFunctors

-----------------------------------------------------------------------------
(* The functions any thread may call.                                      *)

\* Mutation: no wakeup for a functor queued by a functor.
queueInLoopForeignWakeupOnly(t, f) ==
  /\ MayCall(t) /\ Fresh(t, f)
  /\ issued' = issued \cup {f}
  /\ pending' = Append(pending, f)
  /\ calls' = Append(calls, f)
  /\ at' = [at EXCEPT ![t] = IF isInLoopThread(t) THEN "idle" ELSE "wakeup"]
  /\ UNCHANGED <<looping, quit, callPending, functors, wakeupFd, active, loopAt, done>>

\* The push is one critical section; the eventfd is written after it.
queueInLoop(t, f) ==
  /\ MayCall(t) /\ Fresh(t, f)
  /\ issued' = issued \cup {f}
  /\ pending' = Append(pending, f)
  /\ calls' = Append(calls, f)
  /\ at' = [at EXCEPT ![t] = IF ~isInLoopThread(t) \/ callPending
                             THEN "wakeup" ELSE "idle"]
  /\ UNCHANGED <<looping, quit, callPending, functors, wakeupFd, active, loopAt, done>>

callAtOnce(t, f) ==
  /\ isInLoopThread(t)
  /\ MayCall(t) /\ f \notin issued
  /\ issued' = issued \cup {f}
  /\ UNCHANGED <<looping, quit, callPending, pending, functors, wakeupFd,
                 active, loopAt, at, calls, done>>

\* The owner runs the functor on the spot, another thread queues it.
runInLoop(t, f) ==
  \/ callAtOnce(t, f)
  \/ ~isInLoopThread(t) /\ queueInLoop(t, f)

\* Mutation: no wakeup, as if quit() were called by the owner alone.
quitWithoutWakeup(t) ==
  /\ MayCall(t)
  /\ quit' = TRUE
  /\ UNCHANGED <<looping, callPending, pending, functors, wakeupFd, active,
                 loopAt, at, issued, calls, done>>

quitLoop(t) ==
  /\ MayCall(t)
  /\ quit' = TRUE
  /\ at' = [at EXCEPT ![t] = IF isInLoopThread(t) THEN "idle" ELSE "wakeup"]
  /\ UNCHANGED <<looping, callPending, pending, functors, wakeupFd, active,
                 loopAt, issued, calls, done>>

wakeup(t) ==
  /\ at[t] = "wakeup"
  /\ wakeupFd' = TRUE
  /\ at' = [at EXCEPT ![t] = "idle"]
  /\ UNCHANGED <<looping, quit, callPending, pending, functors, active,
                 loopAt, issued, calls, done>>

-----------------------------------------------------------------------------
(* loop(), step by step.                                                   *)

enterLoop ==
  /\ loopAt = "constructed" /\ at[LoopThread] = "idle"
  /\ looping' = TRUE
  /\ loopAt' = "entered"
  /\ UNCHANGED <<quit, callPending, pending, functors, wakeupFd, active, at,
                 issued, calls, done>>

resetQuit ==
  /\ loopAt = "entered"
  /\ quit' = FALSE
  /\ loopAt' = "test"
  /\ UNCHANGED <<looping, callPending, pending, functors, wakeupFd, active, at,
                 issued, calls, done>>

testQuit ==
  /\ loopAt = "test"
  /\ looping' = ~quit
  /\ loopAt' = IF quit THEN "stopped" ELSE "poll"
  /\ UNCHANGED <<quit, callPending, pending, functors, wakeupFd, active, at,
                 issued, calls, done>>

\* epoll_wait reports the wakeup channel exactly when the eventfd is readable;
\* it also returns for another channel, at the timeout and on a signal.
poll ==
  /\ loopAt = "poll"
  /\ \E others \in SUBSET {"io"} :
       active' = others \cup (IF wakeupFd THEN {"wakeup"} ELSE {})
  /\ loopAt' = "handling"
  /\ UNCHANGED <<looping, quit, callPending, pending, functors, wakeupFd, at,
                 issued, calls, done>>

handleRead ==
  /\ loopAt = "handling" /\ at[LoopThread] = "idle"
  /\ "wakeup" \in active
  /\ wakeupFd' = FALSE
  /\ active' = active \ {"wakeup"}
  /\ UNCHANGED <<looping, quit, callPending, pending, functors, loopAt, at,
                 issued, calls, done>>

\* The callback of some other channel returns.
endOfEvent ==
  /\ loopAt = "handling" /\ at[LoopThread] = "idle"
  /\ "io" \in active
  /\ active' = active \ {"io"}
  /\ UNCHANGED <<looping, quit, callPending, pending, functors, wakeupFd,
                 loopAt, at, issued, calls, done>>

-----------------------------------------------------------------------------
(* doPendingFunctor().                                                     *)

startPendingFunctors ==
  /\ loopAt = "handling" /\ active = {} /\ at[LoopThread] = "idle"
  /\ callPending' = TRUE
  /\ loopAt' = "swap"
  /\ UNCHANGED <<looping, quit, pending, functors, wakeupFd, active, at,
                 issued, calls, done>>

\* Mutation: the batch is copied out and the vector is not emptied.
swapFunctorsByCopy ==
  /\ loopAt = "swap"
  /\ functors' = pending
  /\ loopAt' = "run"
  /\ UNCHANGED <<looping, quit, callPending, pending, wakeupFd, active, at,
                 issued, calls, done>>

\* Mutation: callPendingFunctor_ falls before the batch has run.
swapFunctorsEarlyReset ==
  /\ loopAt = "swap"
  /\ functors' = pending
  /\ pending' = <<>>
  /\ callPending' = FALSE
  /\ loopAt' = "run"
  /\ UNCHANGED <<looping, quit, wakeupFd, active, at, issued, calls, done>>

swapFunctors ==
  /\ loopAt = "swap"
  /\ functors' = pending
  /\ pending' = <<>>
  /\ loopAt' = "run"
  /\ UNCHANGED <<looping, quit, callPending, wakeupFd, active, at, issued, calls, done>>

\* Mutation: the batch runs from its back.
callFunctorFromBack ==
  /\ loopAt = "run" /\ functors # <<>>
  /\ done' = Append(done, functors[Len(functors)])
  /\ functors' = SubSeq(functors, 1, Len(functors) - 1)
  /\ loopAt' = "functor"
  /\ UNCHANGED <<looping, quit, callPending, pending, wakeupFd, active, at, issued, calls>>

callFunctor ==
  /\ loopAt = "run" /\ functors # <<>>
  /\ done' = Append(done, Head(functors))
  /\ functors' = Tail(functors)
  /\ loopAt' = "functor"
  /\ UNCHANGED <<looping, quit, callPending, pending, wakeupFd, active, at, issued, calls>>

endOfFunctor ==
  /\ loopAt = "functor" /\ at[LoopThread] = "idle"
  /\ loopAt' = "run"
  /\ UNCHANGED <<looping, quit, callPending, pending, functors, wakeupFd,
                 active, at, issued, calls, done>>

\* Mutation: callPendingFunctor_ is not reset.
endPendingFunctorsNoReset ==
  /\ loopAt = "run" /\ functors = <<>>
  /\ loopAt' = "test"
  /\ UNCHANGED <<looping, quit, callPending, pending, functors, wakeupFd,
                 active, at, issued, calls, done>>

endPendingFunctors ==
  /\ loopAt = "run" /\ functors = <<>>
  /\ callPending' = FALSE
  /\ loopAt' = "test"
  /\ UNCHANGED <<looping, quit, pending, functors, wakeupFd, active, at,
                 issued, calls, done>>

-----------------------------------------------------------------------------
Call(t) ==
  \/ \E f \in Functors : queueInLoop(t, f) \/ runInLoop(t, f)
  \/ quitLoop(t)

Loop ==
  \/ enterLoop
  \/ resetQuit
  \/ testQuit
  \/ poll
  \/ handleRead
  \/ endOfEvent
  \/ startPendingFunctors
  \/ swapFunctors
  \/ callFunctor
  \/ endOfFunctor
  \/ endPendingFunctors

Next == Loop \/ \E t \in AllThreads : Call(t) \/ wakeup(t)

\* No thread stops for ever between two statements. The owner, once it waits
\* in epoll_wait, need not return before the eventfd is readable: nothing below
\* relies on the poll timeout or on other channels.
Fairness ==
  /\ WF_vars(Loop /\ (loopAt = "poll" => wakeupFd))
  /\ \A t \in AllThreads : WF_vars(wakeup(t))

Spec == Init /\ [][Next]_vars

FairSpec == Spec /\ Fairness

-----------------------------------------------------------------------------
(* Properties.                                                             *)

\* The types of the variables; and the flags and the vectors agree with the
\* place the owner is at: looping_ and callPendingFunctor_ are up exactly inside
\* loop() and doPendingFunctor(), channels are active only while their events
\* are handled, and no functor of a batch is left when the loop polls or stops.
TypeOK ==
  /\ quit \in BOOLEAN
  /\ wakeupFd \in BOOLEAN
  /\ pending \in Seq(Functors)
  /\ functors \in Seq(Functors)
  /\ done \in Seq(Functors)
  /\ issued \subseteq Functors /\ calls \in Seq(Functors)
  /\ active \subseteq {"wakeup", "io"}
  /\ loopAt \in LoopPoints
  /\ at \in [AllThreads -> {"idle", "wakeup"}]
  /\ looping \in BOOLEAN /\ callPending \in BOOLEAN
  /\ looping <=> (loopAt \notin {"constructed", "stopped"})
  /\ callPending <=> (loopAt \in {"swap", "run", "functor"})
  /\ active # {} => loopAt = "handling"
  /\ functors # <<>> => loopAt \in {"run", "functor"}
  /\ at[LoopThread] = "wakeup" => loopAt = "functor"

HasWork == \E i \in DOMAIN pending : pending[i] \notin EarlyFunctors

WakeupComing == wakeupFd \/ \E t \in AllThreads : at[t] = "wakeup"

\* The loop never goes to sleep in epoll_wait with a functor queued or a quit
\* requested, unless the eventfd is readable or about to be written. The
\* functors the owner queued before loop() are the exception: queueInLoop
\* wakes nobody up for them, and they wait for the first event or timeout.
NoLostWakeup == loopAt = "poll" /\ (quit \/ HasWork) => WakeupComing

\* The order of everything queued, from the first functor run to the last one
\* waiting.
History == done \o functors \o pending

\* Every functor that was queued has run, is in the batch or waits, in the order of
\* the pushes and once: none is lost, repeated or overtaken, however the pushes of
\* other threads interleave with the swap and the run of the batch.
ExactlyOnce ==
  /\ History = calls
  /\ \A i, j \in DOMAIN calls : calls[i] = calls[j] => i = j

Queue == INSTANCE FunctorQueue
           WITH queue <- functors \o pending, stopped <- loopAt = "stopped"

\* The loop implements the queue of functors: first in, first out, nothing lost
\* at the swap, nothing run once the loop has stopped.
ImplementsQueue == Queue!Spec

\* A queued functor runs, or the loop stops first; no timeout is needed.
QueuedFunctorRuns ==
  \A f \in Functors \ EarlyFunctors :
    (\E i \in DOMAIN pending : pending[i] = f)
      ~> (loopAt = "stopped" \/ \E i \in DOMAIN done : done[i] = f)

\* A quit that lands after loop() has cleared quit_ ends the loop.
QuitStopsLoop ==
  quit /\ loopAt \notin {"constructed", "entered"} ~> loopAt = "stopped"
=============================================================================
