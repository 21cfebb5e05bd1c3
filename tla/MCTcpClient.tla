---------------------------- MODULE MCTcpClient ----------------------------
(* Three descriptors: a connection, the next attempt, and one to spare.    *)
EXTENDS TcpClient, TLC

CONSTANTS f1, f2, f3

MCFds == {f1, f2, f3}
=============================================================================
