----------------------- MODULE MCEventLoopThreadPool ------------------------
(***************************************************************************)
(* Small instances of EventLoopThreadPool: up to three threads, so that a  *)
(* pool without threads, with one, and with an odd number all occur.       *)
(***************************************************************************)
EXTENDS EventLoopThreadPool
=============================================================================
