--------------------------- MODULE ConnectionLife ---------------------------
(***************************************************************************)
(* What a server promises of every connection: it is accepted, then the    *)
(* application is told that it is up, then that it has ended, and only     *)
(* after that the TcpConnection goes and its descriptor is closed.         *)
(***************************************************************************)
CONSTANT Connections
VARIABLE life

Init == life = [c \in Connections |-> "none"]

Becomes(c, from, to) == life[c] = from /\ life' = [life EXCEPT ![c] = to]

Next ==
    \E c \in Connections :
        \/ Becomes(c, "none", "accepted")
        \/ Becomes(c, "accepted", "connected")
        \/ Becomes(c, "connected", "disconnected")
        \/ Becomes(c, "disconnected", "released")

Spec == Init /\ [][Next]_life
=============================================================================
