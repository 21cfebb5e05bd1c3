---------------------------- MODULE MCLiveRelay ----------------------------
(* Instances of LiveRelay.                                                 *)
EXTENDS LiveRelay, TLC

CONSTANTS p1, v1, v2

OnePublisher == {p1}
OneViewer == {v1}
TwoViewers == {v1, v2}
ViewerSymmetry == Permutations(TwoViewers)

(* RtmpServerConnection.cpp:236-245: TagReachesViewer for one of the       *)
(* viewers, which are all alike.                                           *)
TagReachesV1 == TagReachesViewer(v1)
=============================================================================
