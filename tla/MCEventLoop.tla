---------------------------- MODULE MCEventLoop -----------------------------
(***************************************************************************)
(* A small instance of EventLoop: the owner and two other threads, three   *)
(* functors of which the owner may queue one before it calls loop().       *)
(***************************************************************************)
EXTENDS EventLoop

CONSTANTS t1, t2, owner, early, f1, f2

MCThreads == {t1, t2}
MCFunctors == {early, f1, f2}
MCEarlyFunctors == {early}
=============================================================================
