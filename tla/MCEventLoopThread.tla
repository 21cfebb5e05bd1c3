------------------------- MODULE MCEventLoopThread -------------------------
(* The owner and another thread hand functions to the loop of an io thread *)
(* that watches two channels.                                              *)
EXTENDS EventLoopThread

CONSTANTS main, t2, c1, c2

MCPosters == {main, t2}
MCChannels == {c1, c2}
=============================================================================
