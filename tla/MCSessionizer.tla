--------------------------- MODULE MCSessionizer ---------------------------
(***************************************************************************)
(* Instances of Sessionizer for TLC.                                       *)
(***************************************************************************)
EXTENDS SessionizerInduction, TLC

CONSTANTS p1, r1, r2

(* Two rides on one partition: r1 runs to a terminal event, r2 goes quiet. *)
(* r1's terminal event is late enough to make r2 overdue.                  *)
SharedPartitionOf == (r1 :> p1) @@ (r2 :> p1)

QuietLifecycle == (r1 :> {"requested", "cancelled"}) @@ (r2 :> {"requested", "matched"})

Times(requested, other) ==
    [t \in RideEventType |-> IF t = "requested" THEN requested ELSE other]

MCEventTs == (r1 :> Times(1, 4)) @@ (r2 :> Times(2, 3))
============================================================================
