------------------------------ MODULE MCBuffer -------------------------------
(***************************************************************************)
(* A small instance of Buffer: two bytes in front, room for two, a buffer  *)
(* of three bytes on the stack.                                            *)
(***************************************************************************)
EXTENDS Buffer
=============================================================================
