------------------------------ MODULE MCZombie ------------------------------
(***************************************************************************)
(* An instance of SessionizerZombie for TLC: one ride on one partition.    *)
(***************************************************************************)
EXTENDS SessionizerZombie, TLC

CONSTANTS p1, r1

OnePartition == r1 :> p1
Cancelled == r1 :> {"requested", "cancelled"}
Instant == r1 :> [t \in RideEventType |-> 0]
=============================================================================
