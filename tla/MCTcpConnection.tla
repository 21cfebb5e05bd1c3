-------------------------- MODULE MCTcpConnection --------------------------
(* An instance of TcpConnection: two units fit into the send buffer.       *)
EXTENDS TcpConnection
=============================================================================
