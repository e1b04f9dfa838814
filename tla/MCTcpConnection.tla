-------------------------- MODULE MCTcpConnection ---------------------------
(***************************************************************************)
(* Small instances of TcpConnection: one user thread beside the io loop's  *)
(* own callbacks, sends of no bytes and of two.                            *)
(***************************************************************************)
EXTENDS TcpConnection

CONSTANTS u1, io

EmptyAndTwo == {0, 2}
OneUser == {u1}
=============================================================================
