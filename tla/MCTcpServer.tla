----------------------------- MODULE MCTcpServer -----------------------------
EXTENDS TcpServer

CONSTANTS base, other   \* the threads that call start()

MCCallers == {base, other}
MCFds == 0 .. 3
=============================================================================
