---------------------------- MODULE MCHandshake ----------------------------
(* Instances of Handshake.                                                 *)
EXTENDS Handshake

Accepted == {TRUE}
AnyResult == BOOLEAN
=============================================================================
