------------------------------- MODULE MCLane -------------------------------
(* Instances of Lane for TLC. *)
EXTENDS Lane, TLC

CONSTANTS p1, p2

TwoLanes == {p1, p2}
OneLane == {p1}

\* One lane meets a second request queued behind the first; the other one
\* interferes through ACTIVE_LANES, the bus and the reset.
TwoAndOne == p1 :> 2 @@ p2 :> 1
Two == p1 :> 2

\* A vendor request takes the path of a reboot, without the reset at its end.
LaneKinds == AllKinds \ {"vendor"}
EngineKinds == {"process", "abort", "reboot"}
=============================================================================
