---------------------------- MODULE MCTcpServer ----------------------------
(* Instances of TcpServer.                                                 *)
EXTENDS TcpServer, TLC

CONSTANTS a1, a2

Clients == {a1, a2}
=============================================================================
