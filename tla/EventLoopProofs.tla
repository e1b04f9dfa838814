-------------------------- MODULE EventLoopProofs ---------------------------
(***************************************************************************)
(* What module EventLoop promises, for any number of threads and functors. *)
(* The types and the places of the flags come first; NoLostWakeup follows  *)
(* from an invariant that says at which places of the loop unfinished work *)
(* is always announced; ExactlyOnce and the refinement of FunctorQueue     *)
(* rest on how each step changes the history of the queue.                 *)
(***************************************************************************)
EXTENDS EventLoop, SequenceTheorems, TLAPS

\* The functor at the head of a batch moves to the functors that have run: the
\* order of the whole is unchanged.
LEMMA MoveHead ==
  ASSUME NEW S, NEW s \in Seq(S), NEW t \in Seq(S), t # <<>>
  PROVE  /\ Append(s, Head(t)) \in Seq(S)
         /\ Tail(t) \in Seq(S)
         /\ Append(s, Head(t)) \o Tail(t) = s \o t
<1>1. Head(t) \in S /\ Tail(t) \in Seq(S)
  BY HeadTailProperties
<1>2. Append(s, Head(t)) \in Seq(S)
  BY <1>1, AppendProperties
<1>3. <<Head(t)>> \in Seq(S)
  BY <1>1
<1>4. t = <<Head(t)>> \o Tail(t)
  <2>1. <<Head(t)>> \o Tail(t) \in Seq(S)
    BY <1>1, <1>3, ConcatProperties
  <2>2. Len(<<Head(t)>> \o Tail(t)) = Len(t)
    BY <1>1, <1>3, ConcatProperties, HeadTailProperties, LenProperties
  <2>3. \A i \in 1 .. Len(t) : t[i] = (<<Head(t)>> \o Tail(t))[i]
    BY <1>1, <1>3, ConcatProperties, HeadTailProperties, LenProperties
  <2> QED
    BY <2>1, <2>2, <2>3, SeqEqual
<1>5. Append(s, Head(t)) = s \o <<Head(t)>>
  BY <1>1, AppendIsConcat
<1>6. (s \o <<Head(t)>>) \o Tail(t) = s \o (<<Head(t)>> \o Tail(t))
  BY <1>1, <1>3, ConcatAssociative
<1> QED
  BY <1>1, <1>2, <1>4, <1>5, <1>6

\* A functor pushed on the vector is pushed on everything before it too.
LEMMA AppendToSuffix ==
  ASSUME NEW S, NEW s \in Seq(S), NEW t \in Seq(S), NEW e \in S
  PROVE  s \o Append(t, e) = Append(s \o t, e)
<1>1. <<e>> \in Seq(S) /\ s \o t \in Seq(S)
  BY ConcatProperties
<1>2. Append(t, e) = t \o <<e>> /\ Append(s \o t, e) = (s \o t) \o <<e>>
  BY <1>1, AppendIsConcat
<1> QED
  BY <1>1, <1>2, ConcatAssociative

-----------------------------------------------------------------------------
LEMMA InitTypeOK == Init => TypeOK
<1> SUFFICES ASSUME Init
             PROVE  TypeOK
  OBVIOUS
<1>1. <<>> \in Seq(Functors)
  BY EmptySeq
<1>2. at \in [AllThreads -> {"idle", "wakeup"}] /\ at[LoopThread] = "idle"
  BY DEF Init, AllThreads
<1> QED
  BY <1>1, <1>2 DEF Init, TypeOK, LoopPoints

LEMMA NextTypeOK == TypeOK /\ [Next]_vars => TypeOK'
<1> SUFFICES ASSUME TypeOK, [Next]_vars
             PROVE  TypeOK'
  OBVIOUS
<1> USE DEF TypeOK, LoopPoints, isInLoopThread, MayCall, InUserCode
<1>1. ASSUME NEW t \in AllThreads, NEW f \in Functors, queueInLoop(t, f)
      PROVE  TypeOK'
  <2>1. pending' \in Seq(Functors) /\ calls' \in Seq(Functors)
    BY <1>1, AppendProperties DEF queueInLoop
  <2> QED
    BY <1>1, <2>1 DEF queueInLoop
<1>2. ASSUME NEW t \in AllThreads, NEW f \in Functors, callAtOnce(t, f)
      PROVE  TypeOK'
  BY <1>2 DEF callAtOnce
<1>3. ASSUME NEW t \in AllThreads, quitLoop(t)
      PROVE  TypeOK'
  BY <1>3 DEF quitLoop
<1>4. ASSUME NEW t \in AllThreads, wakeup(t)
      PROVE  TypeOK'
  BY <1>4 DEF wakeup
<1>5. CASE enterLoop
  BY <1>5 DEF enterLoop
<1>6. CASE resetQuit
  BY <1>6 DEF resetQuit
<1>7. CASE testQuit
  BY <1>7 DEF testQuit
<1>8. CASE poll
  BY <1>8 DEF poll
<1>9. CASE handleRead
  BY <1>9 DEF handleRead
<1>10. CASE endOfEvent
  BY <1>10 DEF endOfEvent
<1>11. CASE startPendingFunctors
  BY <1>11 DEF startPendingFunctors
<1>12. CASE swapFunctors
  BY <1>12, EmptySeq DEF swapFunctors
<1>13. CASE callFunctor
  <2>1. done' \in Seq(Functors) /\ functors' \in Seq(Functors)
    BY <1>13, MoveHead DEF callFunctor
  <2> QED
    BY <1>13, <2>1 DEF callFunctor
<1>14. CASE endOfFunctor
  BY <1>14 DEF endOfFunctor
<1>15. CASE endPendingFunctors
  BY <1>15 DEF endPendingFunctors
<1>16. CASE UNCHANGED vars
  BY <1>16 DEF vars
<1> QED
  BY <1>1, <1>2, <1>3, <1>4, <1>5, <1>6, <1>7, <1>8, <1>9, <1>10, <1>11, <1>12,
     <1>13, <1>14, <1>15, <1>16 DEF Next, Loop, Call, runInLoop

\* The variables keep their types and the flags agree with the place the owner
\* is at, whatever the other threads do in between.
THEOREM TypeCorrect == Spec => []TypeOK
  BY InitTypeOK, NextTypeOK, PTL DEF Spec

-----------------------------------------------------------------------------
(* The places of the loop where work that is waiting has been announced. In *)
(* the callbacks of channels the owner queues functors without waking       *)
(* itself up: doPendingFunctor() is about to run.                           *)
Announced ==
  /\ /\ loopAt \in {"constructed", "entered", "test", "poll", "run", "functor"}
     /\ HasWork
     => WakeupComing
  /\ loopAt = "poll" /\ quit => WakeupComing

WakeInv == TypeOK /\ Announced

LEMMA InitWakeInv == Init => WakeInv
  BY InitTypeOK DEF Init, WakeInv, Announced, HasWork

\* Only the loop itself consumes a wakeup, and only while it handles events.
LEMMA NextAnnounced == WakeInv /\ [Next]_vars => Announced'
<1> SUFFICES ASSUME TypeOK, Announced, [Next]_vars
             PROVE  Announced'
  BY DEF WakeInv
<1> USE DEF isInLoopThread
<1>1. ASSUME NEW t \in AllThreads, NEW f \in Functors, queueInLoop(t, f)
      PROVE  Announced'
  <2>1. CASE at'[t] = "wakeup"
    BY <2>1 DEF Announced, WakeupComing
  <2>2. CASE at'[t] # "wakeup"
    <3>1. t = LoopThread /\ ~callPending
      BY <1>1, <2>2 DEF queueInLoop, TypeOK
    <3>2. CASE loopAt = "constructed"
      <4>1. f \in EarlyFunctors
        BY <1>1, <3>1, <3>2 DEF queueInLoop, Fresh
      <4>2. HasWork' => HasWork
        <5> SUFFICES ASSUME HasWork'
                     PROVE  HasWork
          OBVIOUS
        <5>1. PICK i \in DOMAIN pending' : pending'[i] \notin EarlyFunctors
          BY DEF HasWork
        <5>2. pending' = Append(pending, f) /\ pending \in Seq(Functors)
          BY <1>1 DEF queueInLoop, TypeOK
        <5>3. i \in 1 .. Len(pending) + 1
          BY <5>1, <5>2, AppendProperties, LenProperties
        <5>4. i # Len(pending) + 1
          BY <4>1, <5>1, <5>2, AppendProperties
        <5>5. i \in DOMAIN pending /\ pending[i] = pending'[i]
          BY <5>2, <5>3, <5>4, AppendProperties, LenProperties
        <5> QED
          BY <5>1, <5>5 DEF HasWork
      <4>3. WakeupComing => WakeupComing'
        BY <1>1 DEF queueInLoop, MayCall, WakeupComing, TypeOK
      <4> QED
        BY <1>1, <3>2, <4>2, <4>3 DEF queueInLoop, Announced
    <3>3. CASE loopAt \in {"handling", "stopped"}
      BY <1>1, <3>3 DEF queueInLoop, Announced
    <3> QED
      BY <1>1, <3>1, <3>2, <3>3 DEF queueInLoop, MayCall, InUserCode, TypeOK
  <2> QED
    BY <2>1, <2>2
<1>2. ASSUME NEW t \in AllThreads, NEW f \in Functors, callAtOnce(t, f)
      PROVE  Announced'
  BY <1>2 DEF callAtOnce, Announced, HasWork, WakeupComing
<1>3. ASSUME NEW t \in AllThreads, quitLoop(t)
      PROVE  Announced'
  <2>1. CASE t = LoopThread
    BY <1>3, <2>1 DEF quitLoop, MayCall, InUserCode, Announced, HasWork,
       WakeupComing, TypeOK
  <2>2. CASE t # LoopThread
    BY <1>3, <2>2 DEF quitLoop, Announced, WakeupComing, TypeOK
  <2> QED
    BY <2>1, <2>2
<1>4. ASSUME NEW t \in AllThreads, wakeup(t)
      PROVE  Announced'
  BY <1>4 DEF wakeup, Announced, WakeupComing
<1>5. CASE enterLoop
  BY <1>5 DEF enterLoop, Announced, HasWork, WakeupComing
<1>6. CASE resetQuit
  BY <1>6 DEF resetQuit, Announced, HasWork, WakeupComing
<1>7. CASE testQuit
  BY <1>7 DEF testQuit, Announced, HasWork, WakeupComing
<1>8. CASE poll
  BY <1>8 DEF poll, Announced
<1>9. CASE handleRead
  BY <1>9 DEF handleRead, Announced
<1>10. CASE endOfEvent
  BY <1>10 DEF endOfEvent, Announced
<1>11. CASE startPendingFunctors
  BY <1>11 DEF startPendingFunctors, Announced
<1>12. CASE swapFunctors
  <2>1. ~HasWork'
    BY <1>12, EmptySeq DEF swapFunctors, HasWork
  <2> QED
    BY <1>12, <2>1 DEF swapFunctors, Announced
<1>13. CASE callFunctor
  BY <1>13 DEF callFunctor, Announced, HasWork, WakeupComing
<1>14. CASE endOfFunctor
  BY <1>14 DEF endOfFunctor, Announced, HasWork, WakeupComing
<1>15. CASE endPendingFunctors
  BY <1>15 DEF endPendingFunctors, Announced, HasWork, WakeupComing
<1>16. CASE UNCHANGED vars
  BY <1>16 DEF vars, Announced, HasWork, WakeupComing
<1> QED
  BY <1>1, <1>2, <1>3, <1>4, <1>5, <1>6, <1>7, <1>8, <1>9, <1>10, <1>11, <1>12,
     <1>13, <1>14, <1>15, <1>16 DEF Next, Loop, Call, runInLoop

\* However many threads queue functors and ask the loop to quit, the owner does
\* not sleep in epoll_wait over work nobody will wake it up for.
THEOREM WakeupNotLost == Spec => []NoLostWakeup
<1>1. WakeInv /\ [Next]_vars => WakeInv'
  BY NextTypeOK, NextAnnounced DEF WakeInv
<1>2. WakeInv => NoLostWakeup
  BY DEF WakeInv, Announced, NoLostWakeup
<1> QED
  BY InitWakeInv, <1>1, <1>2, PTL DEF Spec

-----------------------------------------------------------------------------
(* The steps that change the history of the queue.                          *)

\* queueInLoop adds at the end of what is waiting, and of the whole history.
LEMMA QueueInLoopAppends ==
  ASSUME TypeOK, NEW t \in AllThreads, NEW f \in Functors, queueInLoop(t, f)
  PROVE  /\ (functors \o pending)' = Append(functors \o pending, f)
         /\ History' = Append(History, f)
<1>1. pending \in Seq(Functors) /\ functors \in Seq(Functors) /\ done \in Seq(Functors)
  BY DEF TypeOK
<1>2. pending' = Append(pending, f) /\ functors' = functors /\ done' = done
  BY DEF queueInLoop
<1>3. functors \o Append(pending, f) = Append(functors \o pending, f)
  BY <1>1, AppendToSuffix
<1>4. done \o functors \in Seq(Functors)
  BY <1>1, ConcatProperties
<1>5. (done \o functors) \o Append(pending, f) = Append((done \o functors) \o pending, f)
  BY <1>1, <1>4, AppendToSuffix
<1> QED
  BY <1>2, <1>3, <1>5 DEF History

\* The swap moves the vector to the batch: nothing that waits changes place.
LEMMA SwapKeepsOrder ==
  ASSUME TypeOK, swapFunctors
  PROVE  /\ (functors \o pending)' = functors \o pending
         /\ History' = History
<1>1. pending \in Seq(Functors) /\ done \in Seq(Functors)
  BY DEF TypeOK
<1>2. functors = <<>> /\ functors' = pending /\ pending' = <<>> /\ done' = done
  BY DEF swapFunctors, TypeOK
<1>3. functors \o pending = pending /\ pending \o <<>> = pending /\ done \o <<>> = done
  BY <1>1, <1>2, ConcatEmptySeq
<1>4. done \o pending \in Seq(Functors)
  BY <1>1, ConcatProperties
<1>5. (done \o pending) \o <<>> = done \o pending
  BY <1>4, ConcatEmptySeq
<1> QED
  BY <1>2, <1>3, <1>5 DEF History

\* Starting a functor takes the head of what is waiting and adds it to done.
LEMMA CallTakesHead ==
  ASSUME TypeOK, callFunctor
  PROVE  /\ functors \o pending # <<>>
         /\ done' = Append(done, Head(functors \o pending))
         /\ (functors \o pending)' = Tail(functors \o pending)
         /\ History' = History
<1>1. pending \in Seq(Functors) /\ functors \in Seq(Functors) /\ done \in Seq(Functors)
  BY DEF TypeOK
<1>2. /\ functors # <<>>
      /\ functors' = Tail(functors) /\ pending' = pending
      /\ done' = Append(done, Head(functors))
  BY DEF callFunctor
<1>3. functors \o pending \in Seq(Functors) /\ Len(functors) \in Nat \ {0}
  BY <1>1, <1>2, ConcatProperties, EmptySeq
<1>4. functors \o pending # <<>>
  BY <1>1, <1>2, ConcatEqualIffEmpty
<1>5. Head(functors \o pending) = Head(functors)
  BY <1>1, <1>2, <1>3, <1>4, ConcatProperties, LenProperties
<1>6. Tail(functors \o pending) = Tail(functors) \o pending
  <2>1. /\ Tail(functors) \in Seq(Functors)
        /\ Tail(functors \o pending) \in Seq(Functors)
        /\ Tail(functors) \o pending \in Seq(Functors)
    BY <1>1, <1>2, <1>3, <1>4, HeadTailProperties, ConcatProperties
  <2>2. Len(Tail(functors \o pending)) = Len(Tail(functors) \o pending)
    BY <1>1, <1>2, <1>3, <1>4, <2>1, HeadTailProperties, ConcatProperties, LenProperties
  <2>3. ASSUME NEW i \in 1 .. Len(Tail(functors \o pending))
        PROVE  Tail(functors \o pending)[i] = (Tail(functors) \o pending)[i]
    <3>1. Len(functors) \in Nat /\ Len(pending) \in Nat
      BY <1>1, LenProperties
    <3>2. /\ Len(Tail(functors)) = Len(functors) - 1
          /\ \A j \in 1 .. Len(Tail(functors)) : Tail(functors)[j] = functors[j + 1]
      BY <1>1, <1>2, HeadTailProperties
    <3>3. /\ Len(functors \o pending) = Len(functors) + Len(pending)
          /\ Len(Tail(functors \o pending)) = Len(functors) + Len(pending) - 1
          /\ Tail(functors \o pending)[i] = (functors \o pending)[i + 1]
      BY <1>1, <1>3, <1>4, HeadTailProperties, ConcatProperties
    <3>4. (functors \o pending)[i + 1]
            = IF i + 1 <= Len(functors) THEN functors[i + 1]
                                        ELSE pending[i + 1 - Len(functors)]
      BY <1>1, <3>1, <3>3, ConcatProperties
    <3>5. (Tail(functors) \o pending)[i]
            = IF i <= Len(functors) - 1 THEN Tail(functors)[i]
                                        ELSE pending[i - (Len(functors) - 1)]
      BY <1>1, <2>1, <3>1, <3>2, <3>3, ConcatProperties
    <3> QED
      BY <3>1, <3>2, <3>3, <3>4, <3>5
  <2> QED
    BY <2>1, <2>2, <2>3, SeqEqual
<1>7. /\ Append(done, Head(functors)) \o Tail(functors) = done \o functors
  BY <1>1, <1>2, MoveHead
<1> QED
  BY <1>2, <1>4, <1>5, <1>6, <1>7 DEF History

\* Every other step leaves the queue and what has run alone.
LEMMA HistoryCases ==
  ASSUME TypeOK, [Next]_vars
  PROVE  \/ \E t \in AllThreads, f \in Functors :
              /\ queueInLoop(t, f) /\ calls' = Append(calls, f)
              /\ f \notin issued /\ issued' = issued \cup {f}
         \/ swapFunctors /\ UNCHANGED <<issued, calls>>
         \/ callFunctor /\ UNCHANGED <<issued, calls>>
         \/ /\ UNCHANGED <<pending, functors, done, calls>>
            /\ issued \subseteq issued'
  BY DEF Next, Loop, Call, runInLoop, callAtOnce, queueInLoop, Fresh, quitLoop,
     wakeup, enterLoop, resetQuit, testQuit, poll, handleRead, endOfEvent,
     startPendingFunctors, swapFunctors, callFunctor, endOfFunctor,
     endPendingFunctors, vars

\* A functor is new when it is queued: runInLoop() may have run it at once.
OnceInv == ExactlyOnce /\ \A i \in DOMAIN calls : calls[i] \in issued

\* For any number of functors and threads, what has run, what is left of the batch
\* and what waits are together what was queued, in that order, and each of them
\* is there once.
THEOREM RunsExactlyOnce == Spec => []ExactlyOnce
<1>1. Init => OnceInv
  <2> SUFFICES ASSUME Init
               PROVE  OnceInv
    OBVIOUS
  <2>1. History = <<>> /\ calls = <<>>
    BY EmptySeq, ConcatEmptySeq DEF Init, History
  <2> QED
    BY <2>1 DEF OnceInv, ExactlyOnce
<1>2. TypeOK /\ OnceInv /\ [Next]_vars => OnceInv'
  <2> SUFFICES ASSUME TypeOK, OnceInv, [Next]_vars
               PROVE  OnceInv'
    OBVIOUS
  <2>1. calls \in Seq(Functors)
    BY DEF TypeOK
  <2>2. ASSUME NEW t \in AllThreads, NEW f \in Functors, queueInLoop(t, f),
               calls' = Append(calls, f), f \notin issued, issued' = issued \cup {f}
        PROVE  OnceInv'
    <3>1. History' = calls'
      BY <2>2, QueueInLoopAppends DEF OnceInv, ExactlyOnce
    <3>2. /\ Len(calls) \in Nat
          /\ DOMAIN calls = 1 .. Len(calls)
          /\ DOMAIN calls' = 1 .. Len(calls) + 1
          /\ \A i \in DOMAIN calls : calls'[i] = calls[i]
          /\ calls'[Len(calls) + 1] = f
      BY <2>1, <2>2, AppendProperties, LenProperties
    <3>3. \A i \in DOMAIN calls : calls[i] # f
      BY <2>2 DEF OnceInv
    <3>4. \A i \in DOMAIN calls' : i \in DOMAIN calls \/ i = Len(calls) + 1
      BY <3>2
    <3>5. \A i \in DOMAIN calls' : calls'[i] \in issued'
      BY <2>2, <3>2, <3>4 DEF OnceInv
    <3>6. \A i, j \in DOMAIN calls' : calls'[i] = calls'[j] => i = j
      BY <3>2, <3>3, <3>4 DEF OnceInv, ExactlyOnce
    <3> QED
      BY <3>1, <3>5, <3>6 DEF OnceInv, ExactlyOnce
  <2>3. CASE swapFunctors /\ UNCHANGED <<issued, calls>>
    BY <2>3, SwapKeepsOrder DEF OnceInv, ExactlyOnce
  <2>4. CASE callFunctor /\ UNCHANGED <<issued, calls>>
    BY <2>4, CallTakesHead DEF OnceInv, ExactlyOnce
  <2>5. CASE UNCHANGED <<pending, functors, done, calls>> /\ issued \subseteq issued'
    BY <2>5 DEF OnceInv, ExactlyOnce, History
  <2> QED
    BY <2>2, <2>3, <2>4, <2>5, HistoryCases
<1> QED
  BY InitTypeOK, NextTypeOK, <1>1, <1>2, PTL DEF Spec, OnceInv

-----------------------------------------------------------------------------
\* The loop with its mutex, its eventfd and its batches does what the plain
\* queue of module FunctorQueue does, step by step: queueInLoop submits,
\* callFunctor runs the next functor, and the loop stops at its test of quit_.
THEOREM LoopImplementsQueue == Spec => ImplementsQueue
<1> USE DEF Queue!vars
<1>1. Init => Queue!Init
  <2> SUFFICES ASSUME Init
               PROVE  Queue!Init
    OBVIOUS
  <2>1. functors \o pending = <<>>
    BY EmptySeq, ConcatEmptySeq DEF Init
  <2> QED
    BY <2>1 DEF Init, Queue!Init
<1>2. TypeOK /\ [Next]_vars => [Queue!Next]_(Queue!vars)
  <2> SUFFICES ASSUME TypeOK, [Next]_vars
               PROVE  [Queue!Next]_(Queue!vars)
    OBVIOUS
  <2>1. ASSUME NEW t \in AllThreads, NEW f \in Functors, queueInLoop(t, f)
        PROVE  Queue!Submit(f)
    BY <2>1, QueueInLoopAppends DEF queueInLoop, Fresh, Queue!Submit
  <2>2. ASSUME NEW t \in AllThreads, NEW f \in Functors, callAtOnce(t, f)
        PROVE  Queue!RunAtOnce(f)
    BY <2>2 DEF callAtOnce, Queue!RunAtOnce
  <2>3. CASE testQuit
    <3>1. CASE quit
      BY <2>3, <3>1 DEF testQuit, Queue!Stop, Queue!Next
    <3>2. CASE ~quit
      BY <2>3, <3>2 DEF testQuit
    <3> QED
      BY <3>1, <3>2
  <2>4. CASE swapFunctors
    BY <2>4, SwapKeepsOrder DEF swapFunctors
  <2>5. CASE callFunctor
    BY <2>5, CallTakesHead DEF callFunctor, Queue!RunNext, Queue!Next
  <2>6. ASSUME \/ \E t \in AllThreads : quitLoop(t) \/ wakeup(t)
               \/ enterLoop \/ resetQuit \/ poll \/ handleRead \/ endOfEvent
               \/ startPendingFunctors \/ endOfFunctor \/ endPendingFunctors
               \/ UNCHANGED vars
        PROVE  UNCHANGED Queue!vars
    BY <2>6 DEF quitLoop, wakeup, enterLoop, resetQuit, poll, handleRead,
       endOfEvent, startPendingFunctors, endOfFunctor, endPendingFunctors, vars
  <2> QED
    BY <2>1, <2>2, <2>3, <2>4, <2>5, <2>6 DEF Next, Loop, Call, runInLoop, Queue!Next
<1> QED
  BY InitTypeOK, NextTypeOK, <1>1, <1>2, PTL DEF Spec, Queue!Spec, ImplementsQueue

=============================================================================
