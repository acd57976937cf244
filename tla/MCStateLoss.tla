---------------------------- MODULE MCStateLoss ----------------------------
(***************************************************************************)
(* An instance of SessionizerStateLoss for TLC: one ride on one partition. *)
(***************************************************************************)
EXTENDS SessionizerStateLoss, TLC

CONSTANTS p1, r1

OnePartition == r1 :> p1
Cancelled == r1 :> {"requested", "cancelled"}
Instant == r1 :> [t \in RideEventType |-> 0]
=============================================================================
