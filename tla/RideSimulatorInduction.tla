----------------------- MODULE RideSimulatorInduction -----------------------
(***************************************************************************)
(* What the tick loop relies on beyond what it promises: the inductive     *)
(* invariant from which RideSimulatorProofs derives the module's safety    *)
(* properties.                                                             *)
(***************************************************************************)
EXTENDS RideSimulator

(* A ride in progress has a driver from matched on, and not before.        *)
DriversOK ==
    \A r \in InProgress :
        /\ rides[r].state \in {"requested", "matched", "driver_arrived", "started"}
        /\ IF rides[r].state = "requested" THEN rides[r].driver_id = NoDriver
                                           ELSE rides[r].driver_id \in Drivers

(* No ride in progress has completed, and a ride that does not exist yet   *)
(* has no history.                                                         *)
HistoryOK ==
    /\ \A r \in InProgress : ~HasFired(r, "completed")
    /\ \A r \in Rides : r > counter => fired[r] = <<>> /\ rides[r].driver_id = NoDriver

(* Every driver but the first was spawned for a ride that got one: there   *)
(* is always room for the one that assign spawns.                          *)
Served == {r \in Rides : rides[r].driver_id # NoDriver}

FleetSizeOK == Cardinality(Spawned) <= 1 + Cardinality(Served)

(* The simulator's inductive invariant: the rides and the fleet agree,     *)
(* rides in progress can go on, and everything a later step of on_tick     *)
(* takes for granted about drivers, histories and queued payments.         *)
SimulatorInv ==
    /\ TypeOK
    /\ RidesAndFleetAgree
    /\ LifecycleAdvances
    /\ ChargedOnceIffCompleted
    /\ DriversOK
    /\ HistoryOK
    /\ IsFiniteSet(payments)
    /\ FleetSizeOK
=============================================================================
