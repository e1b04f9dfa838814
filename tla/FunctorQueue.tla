---------------------------- MODULE FunctorQueue ----------------------------
(***************************************************************************)
(* What an EventLoop promises the callers of queueInLoop and runInLoop: a  *)
(* functor is accepted once and, as long as the loop has not stopped, the  *)
(* accepted functors run one at a time in the order they were queued.      *)
(* How threads are woken up and how functors are batched is the business   *)
(* of module EventLoop, which implements this one.                         *)
(***************************************************************************)
EXTENDS Sequences

CONSTANT Functors   \* one element per call of queueInLoop or runInLoop

VARIABLES
  issued,    \* the functors handed to the loop so far
  queue,     \* the queued functors that have not started
  done,      \* the functors taken from the queue, in the order they ran
  stopped    \* loop() has returned

vars == <<issued, queue, done, stopped>>

Init ==
  /\ issued = {}
  /\ queue = <<>>
  /\ done = <<>>
  /\ stopped = FALSE

Submit(f) ==
  /\ f \notin issued
  /\ issued' = issued \cup {f}
  /\ queue' = Append(queue, f)
  /\ UNCHANGED <<done, stopped>>

\* A functor handed to runInLoop by the loop's own thread bypasses the queue.
RunAtOnce(f) ==
  /\ f \notin issued
  /\ issued' = issued \cup {f}
  /\ UNCHANGED <<queue, done, stopped>>

RunNext ==
  /\ ~stopped
  /\ queue # <<>>
  /\ done' = Append(done, Head(queue))
  /\ queue' = Tail(queue)
  /\ UNCHANGED <<issued, stopped>>

\* The functors still queued when the loop stops stay there.
Stop ==
  /\ ~stopped
  /\ stopped' = TRUE
  /\ UNCHANGED <<issued, queue, done>>

Next ==
  \/ \E f \in Functors : Submit(f) \/ RunAtOnce(f)
  \/ RunNext
  \/ Stop

Spec == Init /\ [][Next]_vars
=============================================================================
