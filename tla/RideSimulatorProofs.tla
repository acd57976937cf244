------------------------- MODULE RideSimulatorProofs -------------------------
(***************************************************************************)
(* Theorems about the tick loop, for every number of rides and ticks, and  *)
(* every choice of delays and intervals.                                   *)
(***************************************************************************)
EXTENDS RideSimulatorInduction, FiniteSetTheorems, WellFoundedInduction, SequenceTheorems, TLAPS

USE DEF Fleet, DriverRecord, PingRecord, ActiveRide

-----------------------------------------------------------------------------
(* Numbers. *)

(* The clock. *)
LEMMA NowIsNat ==
    ASSUME TypeOK
    PROVE  now_ms \in Nat /\ TickMs \in Nat
<1>1. ticks \in Nat /\ TickMs \in Nat
  BY TimeAssumption DEF TypeOK
<1>2. \A x, y \in Nat : x * y \in Nat
  OBVIOUS
<1> QED BY <1>1, <1>2 DEF now_ms

(* A driver's first ping is at a time. *)
LEMMA FirstPingIsNat ==
    ASSUME NEW at_ms \in Nat, NEW first \in FirstPings(at_ms)
    PROVE  first \in Nat
BY TimeAssumption DEF FirstPings

(* A non-empty set of numbers has a smallest element. *)
LEMMA SmallestExists ==
    ASSUME NEW S \in SUBSET Nat, S # {}
    PROVE  \E m \in S : \A y \in S : m <= y
<1>1. PICK m \in S : \A y \in S : ~(<<y, m>> \in OpToRel(<, Nat))
  BY NatLessThanWellFounded, WFMin, Zenon
<1>2. \A y \in S : m <= y
  <2> SUFFICES ASSUME NEW y \in S, y < m PROVE FALSE
    OBVIOUS
  <2>1. <<y, m>> \in OpToRel(<, Nat)
    BY DEF OpToRel
  <2> QED BY <1>1, <2>1
<1> QED BY <1>2

-----------------------------------------------------------------------------
(* The fleet. *)

(* The drivers are finitely many. *)
LEMMA FiniteFleet ==
    ASSUME TypeOK
    PROVE  /\ IsFiniteSet(Drivers) /\ Cardinality(Drivers) = MaxRides + 1
           /\ IsFiniteSet(Rides) /\ Cardinality(Rides) = MaxRides
           /\ IsFiniteSet(Spawned) /\ Cardinality(Spawned) \in Nat
           /\ IsFiniteSet(Served) /\ Cardinality(Served) \in Nat
<1>1. IsFiniteSet(Drivers) /\ Cardinality(Drivers) = MaxRides + 1
  BY BoundAssumption, FS_Interval DEF Drivers
<1>2. IsFiniteSet(Rides) /\ Cardinality(Rides) = MaxRides
  BY BoundAssumption, FS_Interval DEF Rides
<1>3. Spawned \in SUBSET Drivers /\ Served \in SUBSET Rides
  BY DEF Spawned, Served
<1>4. IsFiniteSet(Spawned) /\ IsFiniteSet(Served)
  BY <1>1, <1>2, <1>3, FS_Subset
<1> QED BY <1>1, <1>2, <1>4, FS_CardinalityType

(* A ride without a driver gets one that no other ride has: an idle one,   *)
(* or a new one, for which there is room.                                  *)
LEMMA AssignableFree ==
    ASSUME SimulatorInv, NEW r \in Rides, rides[r].driver_id = NoDriver, NEW d \in Assignable
    PROVE  d \in Drivers /\ fleet[d].status \in {"idle", "unborn"}
<1>1. CASE Idle # {}
  BY <1>1 DEF Assignable, Idle
<1>2. CASE Idle = {}
  <2> DEFINE Free == Drivers \ Spawned
  <2>1. Served \in SUBSET (Rides \ {r})
    BY DEF Served
  <2>2. Cardinality(Served) <= MaxRides - 1
    <3>1. IsFiniteSet(Rides \ {r}) /\ Cardinality(Rides \ {r}) = MaxRides - 1
      BY FiniteFleet, FS_RemoveElement DEF SimulatorInv
    <3> QED BY <2>1, <3>1, FS_Subset
  <2>3. Cardinality(Spawned) # Cardinality(Drivers)
    BY <2>2, FiniteFleet, BoundAssumption DEF SimulatorInv, FleetSizeOK
  <2>4. Free # {}
    BY <2>3 DEF Spawned
  <2>5. Free \in SUBSET Nat
    BY BoundAssumption DEF Drivers
  <2>6. \E m \in Free : \A y \in Free : m <= y
    BY <2>4, <2>5, SmallestExists
  <2>7. d = CHOOSE m \in Free : \A y \in Free : m <= y
    BY <1>2 DEF Assignable
  <2>8. d \in Free
    BY <2>6, <2>7
  <2> QED BY <2>8 DEF Spawned
<1> QED BY <1>1, <1>2

-----------------------------------------------------------------------------
(* The initial states satisfy the invariant. *)
LEMMA InitSimulator == Init => SimulatorInv
<1> SUFFICES ASSUME Init PROVE SimulatorInv
  OBVIOUS
<1> USE DEF Init
<1>1. PICK first \in FirstPings(0) :
        fleet = [d \in Drivers |-> IF d = 0 THEN Driver("idle", first) ELSE Driver("unborn", 0)]
  OBVIOUS
<1>2. first \in Nat
  BY <1>1, FirstPingIsNat
<1>3. TypeOK
  <2>1. fleet \in Fleet
    BY <1>1, <1>2 DEF Driver
  <2>2. rides \in [Rides -> ActiveRide]
    OBVIOUS
  <2>3. pings \in Seq(PingRecord)
    OBVIOUS
  <2>4. fired \in [Rides -> Seq(RideEventType \X Nat)] /\ paid \in [Rides -> Nat]
    OBVIOUS
  <2>5. ticks \in 0..MaxTicks /\ counter \in 0..MaxRides
    BY TimeAssumption, BoundAssumption
  <2> QED BY <2>1, <2>2, <2>3, <2>4, <2>5 DEF TypeOK
<1>4. InProgress = {} /\ \A r, d : ~Holds(r, d)
  BY DEF InProgress, Holds
<1>5. \A d \in Drivers : fleet[d].status \in {"idle", "unborn"}
  BY <1>1 DEF Driver
<1>6. RidesAndFleetAgree
  BY <1>4, <1>5 DEF RidesAndFleetAgree
<1>7. LifecycleAdvances /\ DriversOK
  BY <1>4 DEF LifecycleAdvances, DriversOK
<1>8. HistoryOK
  BY <1>4 DEF HistoryOK
<1>9. ChargedOnceIffCompleted
  <2> SUFFICES ASSUME NEW r \in Rides
               PROVE  paid[r] + Cardinality({p \in payments : p[2] = r})
                         = IF HasFired(r, "completed") THEN 1 ELSE 0
    BY DEF ChargedOnceIffCompleted
  <2>1. {p \in payments : p[2] = r} = {}
    OBVIOUS
  <2>2. ~HasFired(r, "completed")
    BY DEF HasFired
  <2> QED BY <2>1, <2>2, FS_EmptySet
<1>10. IsFiniteSet(payments)
  BY FS_EmptySet
<1>11. FleetSizeOK
  <2>1. Spawned = {0}
    BY <1>1, BoundAssumption DEF Spawned, Driver, Drivers
  <2>2. Cardinality({0}) = 1
    BY FS_Singleton
  <2> QED BY <1>3, <2>1, <2>2, FiniteFleet DEF FleetSizeOK
<1> QED BY <1>3, <1>6, <1>7, <1>8, <1>9, <1>10, <1>11 DEF SimulatorInv

-----------------------------------------------------------------------------
(* The fleet's part of a tick. *)

(* A driver that serves no ride comes back, pings or goes offline, and one *)
(* that serves a ride pings: whether it is spawned, and busy, stays.       *)
LEMMA FleetTurn ==
    ASSUME SimulatorInv, UNCHANGED <<ticks, pc, simulator>>,
           fleet' \in Fleet,
           pings' \in Seq(PingRecord),
           \A e \in Drivers :
              \/ fleet'[e].status = fleet[e].status
              \/ {fleet[e].status, fleet'[e].status} \subseteq {"idle", "offline"}
    PROVE  SimulatorInv'
<1> USE DEF SimulatorInv
<1>0. UNCHANGED <<counter, rides, active, done, payments, fired, paid>>
  BY DEF simulator
<1>1. TypeOK'
  BY <1>0 DEF TypeOK
<1>2. InProgress' = InProgress
  BY <1>0 DEF InProgress
<1>3. \A r, d : Holds(r, d)' <=> Holds(r, d)
  BY <1>0, <1>2 DEF Holds
<1>4. RidesAndFleetAgree'
  BY <1>0, <1>3 DEF RidesAndFleetAgree
<1>5. LifecycleAdvances' /\ DriversOK'
  BY <1>0, <1>2 DEF LifecycleAdvances, DriversOK
<1>6. HistoryOK' /\ ChargedOnceIffCompleted'
  BY <1>0, <1>2 DEF HistoryOK, ChargedOnceIffCompleted, HasFired
<1>7. Spawned' = Spawned /\ Served' = Served
  BY <1>0 DEF Spawned, Served
<1>8. FleetSizeOK'
  BY <1>7 DEF FleetSizeOK
<1> QED BY <1>0, <1>1, <1>4, <1>5, <1>6, <1>8

(* A driver of the fleet. *)
LEMMA DriverType ==
    ASSUME TypeOK, NEW d \in Drivers
    PROVE  /\ fleet[d] \in DriverRecord
           /\ fleet[d].status \in {"unborn", "idle", "en_route", "on_trip", "offline"}
           /\ fleet[d].next_ping \in Nat /\ fleet[d].back_online \in Nat
BY DEF TypeOK

(* A driver whose time offline is over comes back. *)
LEMMA BackOnlineInv ==
    ASSUME SimulatorInv, NEW d \in Drivers, BackOnline(d)
    PROVE  SimulatorInv'
<1>1. TypeOK
  BY DEF SimulatorInv
<1>2. fleet' = [fleet EXCEPT ![d].status = "idle", ![d].next_ping = now_ms]
  BY DEF BackOnline
<1>3. fleet' \in Fleet
  BY <1>1, <1>2, NowIsNat, ZenonT(40) DEF TypeOK
<1>4. \A e \in Drivers : \/ fleet'[e].status = fleet[e].status
                         \/ {fleet[e].status, fleet'[e].status} \subseteq {"idle", "offline"}
  BY <1>1, <1>2 DEF BackOnline, BackDue, TypeOK
<1> QED BY <1>1, <1>3, <1>4, FleetTurn DEF BackOnline, TypeOK

(* A ping is one. *)
LEMMA PingType ==
    ASSUME TypeOK, NEW d \in Drivers, PingDue(d)
    PROVE  Ping(d) \in PingRecord
BY DriverType DEF Ping, PingDue

(* A driver that is due pings. *)
LEMMA PingOnlineInv ==
    ASSUME SimulatorInv, NEW d \in Drivers, PingOnline(d)
    PROVE  SimulatorInv'
<1>1. TypeOK
  BY DEF SimulatorInv
<1>2. fleet' = [fleet EXCEPT ![d].next_ping = @ + PingMs]
  BY DEF PingOnline
<1>3. fleet[d].next_ping + PingMs \in Nat
  BY <1>1, DriverType, TimeAssumption
<1>4. fleet' \in Fleet
  BY <1>1, <1>2, <1>3 DEF TypeOK
<1>5. \A e \in Drivers : fleet'[e].status = fleet[e].status
  BY <1>1, <1>2 DEF TypeOK
<1>6. pings' \in Seq(PingRecord)
  BY <1>1, PingType, AppendProperties DEF PingOnline, TypeOK
<1> QED BY <1>1, <1>4, <1>5, <1>6, FleetTurn DEF PingOnline

(* An idle driver goes offline after its ping. *)
LEMMA GoOfflineInv ==
    ASSUME SimulatorInv, NEW d \in Drivers, PingAndGoOffline(d)
    PROVE  SimulatorInv'
<1>1. TypeOK
  BY DEF SimulatorInv
<1>2. fleet' = [fleet EXCEPT ![d] = [status |-> "offline", next_ping |-> @.next_ping + PingMs,
                                     back_online |-> @.next_ping + OfflineMs]]
  BY DEF PingAndGoOffline
<1>3. fleet[d].next_ping + PingMs \in Nat /\ fleet[d].next_ping + OfflineMs \in Nat
  BY <1>1, DriverType, TimeAssumption
<1>4. fleet' \in Fleet
  BY <1>1, <1>2, <1>3 DEF TypeOK
<1>5. \A e \in Drivers : \/ fleet'[e].status = fleet[e].status
                         \/ {fleet[e].status, fleet'[e].status} \subseteq {"idle", "offline"}
  BY <1>1, <1>2 DEF PingAndGoOffline, TypeOK
<1>6. pings' \in Seq(PingRecord)
  <2>1. Ping(d) \in PingRecord
    BY <1>1, PingType DEF PingAndGoOffline
  <2>2. <<d, fleet[d].next_ping, "offline">> \in PingRecord
    BY <1>1, DriverType
  <2>3. <<Ping(d), <<d, fleet[d].next_ping, "offline">>>>
          \in Seq(PingRecord)
    BY <2>1, <2>2
  <2> QED BY <1>1, <2>3, ConcatProperties DEF PingAndGoOffline, TypeOK
<1> QED BY <1>1, <1>4, <1>5, <1>6, FleetTurn DEF PingAndGoOffline

-----------------------------------------------------------------------------
(* Rides. *)

(* A step of the loop that touches neither the rides nor the fleet. *)
LEMMA ClockInv ==
    ASSUME SimulatorInv, UNCHANGED <<simulator, fleet>>, ticks' \in 0..MaxTicks,
           pc' \in {"fleet", "spawn", "progress", "payments", "yield"}, pings' \in Seq(PingRecord)
    PROVE  SimulatorInv'
<1> USE DEF SimulatorInv
<1>0. UNCHANGED <<counter, rides, active, done, payments, fired, paid>>
  BY DEF simulator
<1>1. TypeOK'
  BY <1>0 DEF TypeOK
<1>2. InProgress' = InProgress
  BY <1>0 DEF InProgress
<1>3. RidesAndFleetAgree'
  BY <1>0, <1>2 DEF RidesAndFleetAgree, Holds
<1>4. LifecycleAdvances' /\ DriversOK'
  BY <1>0, <1>2 DEF LifecycleAdvances, DriversOK
<1>5. HistoryOK' /\ ChargedOnceIffCompleted'
  BY <1>0, <1>2 DEF HistoryOK, ChargedOnceIffCompleted, HasFired
<1>6. FleetSizeOK'
  BY <1>0 DEF FleetSizeOK, Spawned, Served
<1> QED BY <1>0, <1>1, <1>3, <1>4, <1>5, <1>6

(* The rides that are done leave the loop's table. *)
LEMMA ProgressDoneInv ==
    ASSUME SimulatorInv, ProgressDone
    PROVE  SimulatorInv'
<1> USE DEF SimulatorInv, ProgressDone
<1>1. TypeOK'
  BY DEF TypeOK
<1>2. InProgress' = InProgress
  BY DEF InProgress
<1>3. RidesAndFleetAgree'
  BY <1>2 DEF RidesAndFleetAgree, Holds
<1>4. LifecycleAdvances' /\ DriversOK'
  BY <1>2 DEF LifecycleAdvances, DriversOK
<1>5. HistoryOK' /\ ChargedOnceIffCompleted'
  BY <1>2 DEF HistoryOK, ChargedOnceIffCompleted, HasFired
<1>6. FleetSizeOK'
  BY DEF FleetSizeOK, Spawned, Served
<1> QED BY <1>1, <1>3, <1>4, <1>5, <1>6

(* What is due is emitted and leaves the queue. *)
LEMMA DuePaymentsInv ==
    ASSUME SimulatorInv, DuePayments
    PROVE  SimulatorInv'
<1> USE DEF SimulatorInv
<1>0. /\ pc' = "yield" /\ payments' = {p \in payments : p[1] > now_ms}
      /\ UNCHANGED <<ticks, counter, rides, active, done, fired, fleet, pings>>
  BY DEF DuePayments, StillQueued
<1>1. ASSUME NEW r \in Rides
      PROVE  /\ paid'[r] \in Nat
             /\ paid'[r] + Cardinality({p \in payments' : p[2] = r})
                   = paid[r] + Cardinality({p \in payments : p[2] = r})
  <2> DEFINE Q == {p \in payments : p[2] = r}
             Due == {p \in payments : p[1] <= now_ms /\ p[2] = r}
             Late == {p \in payments' : p[2] = r}
  <2>1. paid'[r] = paid[r] + Cardinality(Due)
    BY DEF DuePayments
  <2>2. \A p \in payments : p[1] \in Nat
    BY DEF TypeOK
  <2>3. Q = Due \cup Late /\ Due \cap Late = {}
    BY <1>0, <2>2, NowIsNat
  <2>4. IsFiniteSet(Due) /\ IsFiniteSet(Late) /\ IsFiniteSet(Q)
    <3>1. Due \in SUBSET payments /\ Late \in SUBSET payments /\ Q \in SUBSET payments
      BY <1>0
    <3> HIDE DEF Due, Late, Q
    <3> QED BY <3>1, FS_Subset
  <2>5. paid[r] \in Nat
    BY DEF TypeOK
  <2> HIDE DEF Due, Late, Q
  <2>6. Cardinality(Due) \in Nat /\ Cardinality(Late) \in Nat /\ Cardinality({}) = 0
    BY <2>4, FS_CardinalityType, FS_EmptySet
  <2>7. Cardinality(Q) = Cardinality(Due) + Cardinality(Late)
    <3>1. Cardinality(Due \cup Late)
            = Cardinality(Due) + Cardinality(Late) - Cardinality(Due \cap Late)
      BY <2>4, FS_Union
    <3>2. Cardinality(Due \cap Late) = 0
      BY <2>3, <2>6
    <3>3. Cardinality(Due \cup Late) = Cardinality(Due) + Cardinality(Late)
      BY <2>6, <3>1, <3>2
    <3> QED BY <2>3, <3>3
  <2>8. paid'[r] + Cardinality(Late) = paid[r] + Cardinality(Q)
    BY <2>1, <2>5, <2>6, <2>7
  <2>9. paid'[r] \in Nat
    BY <2>1, <2>5, <2>6
  <2> QED BY <2>8, <2>9 DEF Late, Q
<1>2. TypeOK'
  <2>1. paid' \in [Rides -> Nat]
    <3>1. paid' = [r \in Rides |-> paid'[r]]
      BY DEF DuePayments
    <3> QED BY <1>1, <3>1
  <2> QED BY <1>0, <2>1 DEF TypeOK
<1>3. InProgress' = InProgress
  BY <1>0 DEF InProgress
<1>4. RidesAndFleetAgree'
  BY <1>0, <1>3 DEF RidesAndFleetAgree, Holds
<1>5. LifecycleAdvances' /\ DriversOK' /\ HistoryOK'
  BY <1>0, <1>3 DEF LifecycleAdvances, DriversOK, HistoryOK, HasFired
<1>6. ChargedOnceIffCompleted'
  <2>1. \A r : HasFired(r, "completed")' <=> HasFired(r, "completed")
    BY <1>0 DEF HasFired
  <2> QED BY <1>1, <2>1 DEF ChargedOnceIffCompleted
<1>7. FleetSizeOK'
  BY <1>0 DEF FleetSizeOK, Spawned, Served
<1>8. IsFiniteSet(payments')
  <2>1. payments' \in SUBSET payments
    BY <1>0
  <2> QED BY <2>1, FS_Subset
<1> QED BY <1>2, <1>4, <1>5, <1>6, <1>7, <1>8

(* A ride is created. *)
LEMMA CreateRideInv ==
    ASSUME SimulatorInv, CreateRide
    PROVE  SimulatorInv'
<1> USE DEF SimulatorInv
<1>0. PICK r : r = counter + 1
  OBVIOUS
<1>1. PICK requested_ms \in now_ms..(now_ms + TickMs - 1),
           stop \in {NoEvent, "matched", "driver_arrived"}, plan \in FirstPlans :
        /\ rides' = [rides EXCEPT ![r] =
              [state |-> "requested", driver_id |-> NoDriver, next_event |-> plan[1],
               next_at |-> requested_ms + plan[2], stop_after |-> stop]]
        /\ active' = active \cup {r}
        /\ fired' = [fired EXCEPT ![r] = <<<<"requested", requested_ms>>>>]
  BY <1>0 DEF CreateRide
<1>2. /\ counter' = r /\ counter < MaxRides
      /\ UNCHANGED <<ticks, pc, done, payments, paid, fleet, pings>>
  BY <1>0 DEF CreateRide
<1>3. /\ counter \in Nat /\ r \in Rides /\ r > counter
      /\ requested_ms \in Nat
  <2>1. counter \in Nat
    BY BoundAssumption DEF TypeOK
  <2>2. r \in Rides /\ r > counter
    BY <1>0, <1>2, <2>1, BoundAssumption DEF Rides
  <2>3. now_ms \in Nat /\ TickMs \in Nat
    BY NowIsNat
  <2> HIDE DEF SimulatorInv
  <2>4. requested_ms \in Nat
    BY <2>3
  <2> QED BY <2>1, <2>2, <2>4
<1>4. plan[1] \in {"cancelled", "matched"} /\ plan[2] \in Nat
  BY TimeAssumption DEF FirstPlans
<1>5. /\ rides'[r] = [state |-> "requested", driver_id |-> NoDriver, next_event |-> plan[1],
                      next_at |-> requested_ms + plan[2], stop_after |-> stop]
      /\ fired'[r] = <<<<"requested", requested_ms>>>>
      /\ \A s \in Rides : s # r => rides'[s] = rides[s] /\ fired'[s] = fired[s]
  BY <1>1, <1>3 DEF TypeOK
<1>6. r \notin active /\ r \notin done
  <2>1. r \notin 1..counter
    BY <1>3
  <2> QED BY <2>1 DEF TypeOK
<1>7. InProgress' = InProgress \cup {r} /\ r \notin InProgress /\ InProgress \subseteq Rides
  BY <1>1, <1>2, <1>6, BoundAssumption DEF InProgress, TypeOK, Rides
<1>8. TypeOK'
  <2>1. rides'[r] \in ActiveRide
    BY <1>3, <1>4, <1>5 DEF RideEventType
  <2>2. rides' \in [Rides -> ActiveRide]
    BY <1>1, <1>5, <2>1 DEF TypeOK
  <2>3. <<<<"requested", requested_ms>>>> \in Seq(RideEventType \X Nat)
    BY <1>3 DEF RideEventType
  <2>4. fired' \in [Rides -> Seq(RideEventType \X Nat)]
    BY <1>1, <1>5, <2>3 DEF TypeOK
  <2>5. counter' \in 0..MaxRides /\ active' \subseteq 1..counter' /\ done' \subseteq active'
    BY <1>0, <1>1, <1>2, <1>3, BoundAssumption DEF TypeOK
  <2> QED BY <1>2, <2>2, <2>4, <2>5 DEF TypeOK
<1>9. \A s \in Rides, d \in Drivers : Holds(s, d)' <=> Holds(s, d)
  <2>1. NoDriver \notin Drivers
    BY BoundAssumption DEF NoDriver, Drivers
  <2> QED BY <1>5, <1>7, <2>1 DEF Holds
<1>10. RidesAndFleetAgree'
  <2>1. \A s \in Rides, d \in Drivers : Holds(s, d) => rides'[s] = rides[s]
    BY <1>5, <1>7 DEF Holds
  <2> QED BY <1>2, <1>9, <2>1 DEF RidesAndFleetAgree
<1>11. LifecycleAdvances'
  <2>1. Len(fired'[r]) = 1 /\ fired'[r][1] = <<"requested", requested_ms>>
    BY <1>5
  <2>2. /\ rides'[r].next_event \in LEGAL_TRANSITIONS[rides'[r].state]
        /\ rides'[r].state = fired'[r][Len(fired'[r])][1]
        /\ rides'[r].next_at >= fired'[r][Len(fired'[r])][2]
    BY <1>3, <1>4, <1>5, <2>1 DEF LEGAL_TRANSITIONS
  <2> QED BY <1>5, <1>7, <2>2 DEF LifecycleAdvances
<1>12. DriversOK'
  BY <1>5, <1>7 DEF DriversOK
<1>13. \A s \in Rides : HasFired(s, "completed")' <=> HasFired(s, "completed")
  <2>1. ~HasFired(r, "completed")'
    BY <1>5 DEF HasFired
  <2>2. ~HasFired(r, "completed")
    BY <1>3 DEF HasFired, HistoryOK
  <2> QED BY <1>5, <2>1, <2>2 DEF HasFired
<1>14. HistoryOK'
  <2>1. \A s \in InProgress' : ~HasFired(s, "completed")'
    <3>1. ~HasFired(r, "completed")
      BY <1>3 DEF HasFired, HistoryOK
    <3> QED BY <1>3, <1>7, <1>13, <3>1 DEF HistoryOK
  <2>2. ASSUME NEW s \in Rides, s > counter'
        PROVE  fired'[s] = <<>> /\ rides'[s].driver_id = NoDriver
    <3>1. s # r /\ s > counter
      BY <1>0, <1>2, <1>3, <2>2 DEF Rides
    <3> QED BY <1>5, <3>1 DEF HistoryOK
  <2> QED BY <2>1, <2>2 DEF HistoryOK
<1>15. ChargedOnceIffCompleted'
  BY <1>2, <1>13 DEF ChargedOnceIffCompleted
<1>16. FleetSizeOK'
  <2>1. Served' = Served
    BY <1>3, <1>5 DEF Served, HistoryOK
  <2> QED BY <1>2, <2>1 DEF FleetSizeOK, Spawned
<1> QED BY <1>2, <1>8, <1>10, <1>11, <1>12, <1>14, <1>15, <1>16

-----------------------------------------------------------------------------
(* Firing an event. *)

(* Ride r fires event, keeps or gets driver d, and plans the next event.   *)
Firing(r, event, d, next, delay) ==
    /\ Fires(r, event)
    /\ Planned(r, d, next, delay)
    /\ d \in Drivers \cup {NoDriver}
    /\ next \in RideEventType \cup {NoEvent}
    /\ delay \in Nat

Ends(r, event) == event \in TERMINAL_STATES \/ rides[r].stop_after = event

(* What such a step does to the rides and their histories. *)
LEMMA FiringFacts ==
    ASSUME TypeOK, NEW r \in Rides, NEW event, NEW d, NEW next, NEW delay,
           Firing(r, event, d, next, delay)
    PROVE  /\ r \in InProgress /\ InProgress \subseteq Rides
           /\ event \in LEGAL_TRANSITIONS[rides[r].state] /\ event = rides[r].next_event
           /\ event \in RideEventType \cup {NoEvent}
           /\ rides[r].next_at \in Nat
           /\ rides'[r].state = event /\ rides'[r].driver_id = d
           /\ rides'[r].next_event = next /\ rides'[r].next_at = rides[r].next_at + delay
           /\ fired'[r] = Append(fired[r], <<event, rides[r].next_at>>)
           /\ \A s \in Rides : s # r => rides'[s] = rides[s] /\ fired'[s] = fired[s]
           /\ InProgress' = IF Ends(r, event) THEN InProgress \ {r} ELSE InProgress
           /\ rides' \in [Rides -> ActiveRide]
           /\ done' \subseteq active
           /\ UNCHANGED <<ticks, pc, counter, active, pings>>
<1> USE DEF Firing
<1>1. r \in active \ done
  BY DEF Fires, DueRides
<1>2. InProgress \subseteq Rides
  BY BoundAssumption DEF InProgress, TypeOK, Rides
<1>3. rides[r] \in ActiveRide
  BY DEF TypeOK
<1>4. event = rides[r].next_event /\ event \in LEGAL_TRANSITIONS[rides[r].state]
  BY DEF Fires
<1>5. rides' = [rides EXCEPT ![r].state = event, ![r].driver_id = d,
                             ![r].next_event = next, ![r].next_at = rides[r].next_at + delay]
  BY <1>4 DEF Planned
<1>6. /\ rides'[r] = [state |-> event, driver_id |-> d, next_event |-> next,
                      next_at |-> rides[r].next_at + delay, stop_after |-> rides[r].stop_after]
      /\ \A s \in Rides : s # r => rides'[s] = rides[s]
  <2>1. rides \in [Rides -> ActiveRide]
    BY DEF TypeOK
  <2> HIDE DEF ActiveRide
  <2>2. rides'[r] = [rides[r] EXCEPT !.state = event, !.driver_id = d,
                                     !.next_event = next, !.next_at = rides[r].next_at + delay]
    BY <1>5, <2>1
  <2>3. \A s \in Rides : s # r => rides'[s] = rides[s]
    BY <1>5, <2>1
  <2> HIDE DEF Firing
  <2>4. rides'[r] = [state |-> event, driver_id |-> d, next_event |-> next,
                     next_at |-> rides[r].next_at + delay, stop_after |-> rides[r].stop_after]
    BY <1>3, <2>2 DEF ActiveRide
  <2> QED BY <2>3, <2>4
<1>6a. /\ rides'[r].state = event /\ rides'[r].driver_id = d
       /\ rides'[r].next_event = next /\ rides'[r].next_at = rides[r].next_at + delay
  <2> HIDE DEF Firing
  <2> QED BY <1>6
<1>7. event \in RideEventType \cup {NoEvent} /\ rides[r].next_at \in Nat
  BY <1>3, <1>4
<1>8. rides'[r] \in ActiveRide
  BY <1>3, <1>6, <1>7
<1>9. rides' \in [Rides -> ActiveRide]
  <2>1. rides' = [s \in Rides |-> rides'[s]]
    BY <1>5 DEF TypeOK
  <2> QED BY <1>6, <1>8, <2>1 DEF TypeOK
<1>10. /\ fired'[r] = Append(fired[r], <<event, rides[r].next_at>>)
       /\ \A s \in Rides : s # r => fired'[s] = fired[s]
  BY DEF Fires, TypeOK
<1>11. done' = IF Ends(r, event) THEN done \cup {r} ELSE done
  BY DEF Fires, Ends
<1>12. UNCHANGED <<ticks, pc, counter, active, pings>>
  BY DEF Fires
<1>13. InProgress' = IF Ends(r, event) THEN InProgress \ {r} ELSE InProgress
  BY <1>11, <1>12 DEF InProgress
<1>14. done' \subseteq active
  BY <1>1, <1>11 DEF TypeOK
<1> QED
  BY <1>1, <1>2, <1>4, <1>6, <1>6a, <1>7, <1>9, <1>10, <1>12, <1>13, <1>14 DEF InProgress

(* The history of the ride has one event more. *)
LEMMA FiredHistory ==
    ASSUME SimulatorInv, NEW r \in Rides, NEW event, NEW d, NEW next, NEW delay,
           Firing(r, event, d, next, delay)
    PROVE  /\ event \in {"matched", "driver_arrived", "started", "completed", "cancelled"}
           /\ rides[r].state \in {"requested", "matched", "driver_arrived", "started"}
           /\ fired' \in [Rides -> Seq(RideEventType \X Nat)]
           /\ Len(fired'[r]) \in Nat
           /\ fired'[r][Len(fired'[r])] = <<event, rides[r].next_at>>
           /\ \A s \in Rides : s # r => (HasFired(s, "completed")' <=> HasFired(s, "completed"))
           /\ ~HasFired(r, "completed")
           /\ HasFired(r, "completed")' <=> event = "completed"
<1>0. TypeOK
  BY DEF SimulatorInv
<1>1. /\ r \in InProgress /\ event \in LEGAL_TRANSITIONS[rides[r].state]
      /\ rides[r].next_at \in Nat
      /\ fired'[r] = Append(fired[r], <<event, rides[r].next_at>>)
      /\ \A s \in Rides : s # r => fired'[s] = fired[s]
  BY <1>0, FiringFacts
<1>2. rides[r].state \in {"requested", "matched", "driver_arrived", "started"}
  BY <1>1 DEF SimulatorInv, DriversOK
<1>3. event \in {"matched", "driver_arrived", "started", "completed", "cancelled"}
  BY <1>1, <1>2 DEF LEGAL_TRANSITIONS
<1>4. <<event, rides[r].next_at>> \in RideEventType \X Nat
  BY <1>1, <1>3 DEF RideEventType
<1>5. fired[r] \in Seq(RideEventType \X Nat) /\ Len(fired[r]) \in Nat
  BY <1>0, LenProperties DEF TypeOK
<1>6. /\ fired'[r] \in Seq(RideEventType \X Nat) /\ Len(fired'[r]) = Len(fired[r]) + 1
      /\ \A i \in 1..Len(fired[r]) : fired'[r][i] = fired[r][i]
      /\ fired'[r][Len(fired[r]) + 1] = <<event, rides[r].next_at>>
  BY <1>1, <1>4, <1>5, AppendProperties
<1>7. fired' \in [Rides -> Seq(RideEventType \X Nat)]
  <2>1. fired' = [s \in Rides |-> fired'[s]]
    BY <1>0 DEF Firing, Fires, TypeOK
  <2> QED BY <1>0, <1>1, <1>6, <2>1 DEF TypeOK
<1>8. ~HasFired(r, "completed")
  BY <1>1 DEF SimulatorInv, HistoryOK
<1>9. HasFired(r, "completed")' <=> event = "completed"
  <2>1. ASSUME event = "completed" PROVE HasFired(r, "completed")'
    BY <1>5, <1>6, <2>1 DEF HasFired
  <2>2. ASSUME HasFired(r, "completed")', event # "completed" PROVE FALSE
    <3>1. PICK i \in 1..(Len(fired[r]) + 1) : fired'[r][i][1] = "completed"
      BY <1>6, <2>2 DEF HasFired
    <3>2. i # Len(fired[r]) + 1
      BY <1>6, <2>2, <3>1
    <3>3. i \in 1..Len(fired[r])
      BY <1>5, <3>1, <3>2
    <3> QED BY <1>6, <1>8, <3>1, <3>3 DEF HasFired
  <2> QED BY <2>1, <2>2
<1>10. \A s \in Rides : s # r => (HasFired(s, "completed")' <=> HasFired(s, "completed"))
  BY <1>1 DEF HasFired
<1> QED BY <1>2, <1>3, <1>5, <1>6, <1>7, <1>8, <1>9, <1>10

(* What the branches of _fire have in common: the driver is the ride's own *)
(* or one that serves no ride; it is given back when the ride ends, and is *)
(* in the leg of the ride otherwise, with a legal event planned.           *)
Branch(r, event, d, next, delay) ==
    /\ Firing(r, event, d, next, delay)
    /\ fleet' \in Fleet
    /\ \A e \in Drivers : e # d => fleet'[e].status = fleet[e].status
    /\ \/ rides[r].driver_id = d
       \/ rides[r].driver_id = NoDriver /\ d \in Drivers /\ fleet[d].status \in {"idle", "unborn"}
    /\ Ends(r, event) /\ d # NoDriver => fleet'[d].status = "idle"
    /\ ~Ends(r, event) =>
          /\ d \in Drivers
          /\ fleet'[d].status = IF event = "started" THEN "on_trip" ELSE "en_route"
          /\ next \in LEGAL_TRANSITIONS[event]
    /\ IF event = "completed" THEN payments' \in Queued(r, rides[r].next_at) ELSE payments' = payments
    /\ paid' = paid

(* Such a step keeps the rides and the fleet in agreement. *)
LEMMA BranchAgrees ==
    ASSUME SimulatorInv, NEW r \in Rides, NEW event, NEW d, NEW next, NEW delay,
           Branch(r, event, d, next, delay)
    PROVE  RidesAndFleetAgree'
<1>0. TypeOK /\ RidesAndFleetAgree /\ Firing(r, event, d, next, delay)
  BY DEF SimulatorInv, Branch
<1>1. /\ r \in InProgress /\ InProgress \subseteq Rides
      /\ rides'[r].driver_id = d /\ rides'[r].state = event
      /\ \A s \in Rides : s # r => rides'[s] = rides[s]
      /\ InProgress' = IF Ends(r, event) THEN InProgress \ {r} ELSE InProgress
  BY <1>0, FiringFacts
<1>2. NoDriver \notin Drivers
  BY BoundAssumption DEF NoDriver, Drivers
<1>3. ASSUME NEW s \in Rides, s # r, NEW x PROVE Holds(s, x)' <=> Holds(s, x)
  BY <1>1, <1>3 DEF Holds
<1>4. ASSUME NEW x PROVE Holds(r, x)' <=> ~Ends(r, event) /\ x = d
  BY <1>1 DEF Holds
<1>5. ASSUME NEW s \in Rides, s # r PROVE d \in Drivers => ~Holds(s, d)
  <2>1. CASE rides[r].driver_id = d
    BY <1>0, <1>1, <1>5, <2>1 DEF RidesAndFleetAgree, Holds
  <2>2. CASE rides[r].driver_id # d
    <3>1. fleet[d].status \in {"idle", "unborn"}
      BY <2>2 DEF Branch
    <3> QED BY <1>0, <3>1 DEF RidesAndFleetAgree
  <2> QED BY <2>1, <2>2
<1>6. ASSUME NEW x \in Drivers, fleet'[x].status \in {"en_route", "on_trip"}
      PROVE  \E s \in Rides : Holds(s, x)'
  <2>1. CASE x = d
    <3>1. ~Ends(r, event)
      BY <1>2, <1>6, <2>1 DEF Branch
    <3> QED BY <1>4, <2>1, <3>1
  <2>2. CASE x # d
    <3>1. fleet[x].status \in {"en_route", "on_trip"}
      BY <1>6, <2>2 DEF Branch
    <3>2. PICK s \in Rides : Holds(s, x)
      BY <1>0, <3>1 DEF RidesAndFleetAgree
    <3>3. s # r
      BY <1>2, <2>2, <3>2 DEF Holds, Branch
    <3> QED BY <1>3, <3>2, <3>3
  <2> QED BY <2>1, <2>2
<1>7. ASSUME NEW x \in Drivers, NEW s \in Rides, NEW t \in Rides, Holds(s, x)', Holds(t, x)'
      PROVE  s = t
  BY <1>0, <1>3, <1>4, <1>5, <1>7 DEF RidesAndFleetAgree
<1>8. ASSUME NEW x \in Drivers, NEW s \in Rides, Holds(s, x)'
      PROVE  fleet'[x].status = IF rides'[s].state = "started" THEN "on_trip" ELSE "en_route"
  <2>1. CASE s = r
    <3>1. ~Ends(r, event) /\ x = d
      BY <1>4, <1>8, <2>1
    <3> QED BY <1>1, <2>1, <3>1 DEF Branch
  <2>2. CASE s # r
    <3>1. Holds(s, x)
      BY <1>3, <1>8, <2>2
    <3>2. x # d
      BY <1>5, <2>2, <3>1
    <3>3. fleet'[x].status = fleet[x].status
      BY <3>2 DEF Branch
    <3> QED BY <1>0, <1>1, <2>2, <3>1, <3>3 DEF RidesAndFleetAgree
  <2> QED BY <2>1, <2>2
<1> QED BY <1>6, <1>7, <1>8 DEF RidesAndFleetAgree

(* It spawns a driver only for a ride that had none. *)
LEMMA BranchSize ==
    ASSUME SimulatorInv, NEW r \in Rides, NEW event, NEW d, NEW next, NEW delay,
           Branch(r, event, d, next, delay), TypeOK'
    PROVE  FleetSizeOK'
<1>0. TypeOK /\ RidesAndFleetAgree /\ FleetSizeOK /\ Firing(r, event, d, next, delay)
  BY DEF SimulatorInv, Branch
<1>1. /\ r \in InProgress /\ rides'[r].driver_id = d
      /\ \A s \in Rides : s # r => rides'[s] = rides[s]
  BY <1>0, FiringFacts
<1>2. NoDriver \notin Drivers
  BY BoundAssumption DEF NoDriver, Drivers
<1>3. Spawned' \subseteq Spawned \cup {d}
  BY DEF Spawned, Branch
<1>4. /\ IsFiniteSet(Spawned) /\ Cardinality(Spawned) \in Nat /\ IsFiniteSet(Served)
      /\ Cardinality(Served) \in Nat /\ IsFiniteSet(Spawned') /\ Cardinality(Spawned') \in Nat
      /\ IsFiniteSet(Served') /\ Cardinality(Served') \in Nat
  <2>1. /\ IsFiniteSet(Spawned) /\ Cardinality(Spawned) \in Nat
        /\ IsFiniteSet(Served) /\ Cardinality(Served) \in Nat
    BY <1>0, FiniteFleet
  <2>2. Spawned' \in SUBSET Drivers /\ Served' \in SUBSET Rides
    BY DEF Spawned, Served
  <2>3. IsFiniteSet(Drivers) /\ IsFiniteSet(Rides)
    BY <1>0, FiniteFleet
  <2>4. IsFiniteSet(Spawned') /\ IsFiniteSet(Served')
    BY <2>2, <2>3, FS_Subset
  <2> QED BY <2>1, <2>4, FS_CardinalityType
<1>5. CASE rides[r].driver_id = d
  <2>1. Served' = Served
    BY <1>1, <1>5 DEF Served
  <2>2. d \in Drivers => d \in Spawned
    <3> SUFFICES ASSUME d \in Drivers PROVE d \in Spawned
      OBVIOUS
    <3>1. fleet[d].status \in {"en_route", "on_trip"}
      BY <1>0, <1>1, <1>5 DEF RidesAndFleetAgree, Holds
    <3> QED BY <3>1 DEF Spawned
  <2>3. Spawned' \in SUBSET Spawned
    BY <1>3, <2>2 DEF Spawned
  <2>4. Cardinality(Spawned') <= Cardinality(Spawned)
    BY <1>4, <2>3, FS_Subset
  <2> QED BY <1>0, <1>4, <2>1, <2>4 DEF FleetSizeOK
<1>6. CASE rides[r].driver_id # d
  <2>1. rides[r].driver_id = NoDriver /\ d \in Drivers
    BY <1>6 DEF Branch
  <2>2. Served' = Served \cup {r} /\ r \notin Served
    BY <1>1, <1>2, <2>1 DEF Served
  <2>3. Cardinality(Served \cup {r}) = Cardinality(Served) + 1
    BY <1>4, <2>2, FS_AddElement
  <2>4. IsFiniteSet(Spawned \cup {d}) /\ Cardinality(Spawned \cup {d}) <= Cardinality(Spawned) + 1
           /\ Cardinality(Spawned \cup {d}) \in Nat
    <3>1. /\ IsFiniteSet(Spawned \cup {d})
          /\ Cardinality(Spawned \cup {d}) =
                IF d \in Spawned THEN Cardinality(Spawned) ELSE Cardinality(Spawned) + 1
      BY <1>4, FS_AddElement
    <3> QED BY <1>4, <3>1
  <2>5. Cardinality(Spawned') <= Cardinality(Spawned \cup {d})
    BY <1>3, <2>4, FS_Subset
  <2> QED BY <1>0, <1>4, <2>2, <2>3, <2>4, <2>5 DEF FleetSizeOK
<1> QED BY <1>5, <1>6

(* It charges the ride exactly when it fires completed. *)
LEMMA BranchCharges ==
    ASSUME SimulatorInv, NEW r \in Rides, NEW event, NEW d, NEW next, NEW delay,
           Branch(r, event, d, next, delay)
    PROVE  ChargedOnceIffCompleted' /\ IsFiniteSet(payments') /\ payments' \subseteq Nat \X Rides
<1>0. /\ TypeOK /\ IsFiniteSet(payments) /\ ChargedOnceIffCompleted
      /\ Firing(r, event, d, next, delay) /\ paid' = paid
  BY DEF SimulatorInv, Branch
<1>1. /\ \A s \in Rides : s # r => (HasFired(s, "completed")' <=> HasFired(s, "completed"))
      /\ ~HasFired(r, "completed")
      /\ HasFired(r, "completed")' <=> event = "completed"
  BY FiredHistory, <1>0
<1>2. rides[r].next_at \in Nat
  BY <1>0, FiringFacts
<1>3. payments \subseteq Nat \X Rides
  BY <1>0 DEF TypeOK
<1>4. CASE event # "completed"
  <2>1. payments' = payments
    BY <1>4 DEF Branch
  <2>2. \A s \in Rides : HasFired(s, "completed")' <=> HasFired(s, "completed")
    BY <1>1, <1>4
  <2>3. ChargedOnceIffCompleted'
    BY <1>0, <2>1, <2>2 DEF ChargedOnceIffCompleted
  <2> QED BY <1>0, <1>3, <2>1, <2>3
<1>5. CASE event = "completed"
  <2>1. PICK w \in Delays : payments' = payments \cup {<<rides[r].next_at + w, r>>}
    BY <1>5 DEF Branch, Queued
  <2>2. PICK new : new = <<rides[r].next_at + w, r>>
    OBVIOUS
  <2>3. new \in Nat \X Rides /\ new[2] = r
    BY <1>2, <2>2, TimeAssumption
  <2>4. IsFiniteSet(payments') /\ payments' \subseteq Nat \X Rides
    BY <1>0, <1>3, <2>1, <2>2, <2>3, FS_AddElement
  <2>5. ASSUME NEW s \in Rides, s # r
        PROVE  {p \in payments' : p[2] = s} = {p \in payments : p[2] = s}
    BY <2>1, <2>2, <2>3, <2>5
  <2> DEFINE Q == {p \in payments : p[2] = r}
  <2>6. {p \in payments' : p[2] = r} = Q \cup {new}
    BY <2>1, <2>2, <2>3
  <2>7. paid[r] \in Nat /\ IsFiniteSet(Q)
    <3>1. Q \in SUBSET payments
      OBVIOUS
    <3> HIDE DEF Q
    <3> QED BY <1>0, <3>1, FS_Subset DEF TypeOK
  <2>8. paid[r] + Cardinality(Q) = 0
    BY <1>0, <1>1 DEF ChargedOnceIffCompleted
  <2> HIDE DEF Q
  <2>9. Cardinality(Q) \in Nat
    BY <2>7, FS_CardinalityType
  <2>10. paid[r] = 0 /\ Cardinality(Q) = 0
    BY <2>7, <2>8, <2>9
  <2>11. Q = {}
    BY <2>7, <2>10, FS_EmptySet
  <2>12. Cardinality({p \in payments' : p[2] = r}) = 1
    <3>1. {p \in payments' : p[2] = r} = {new}
      BY <2>6, <2>11
    <3> QED BY <3>1, FS_Singleton
  <2>13. ASSUME NEW s \in Rides
         PROVE  paid'[s] + Cardinality({p \in payments' : p[2] = s})
                   = IF HasFired(s, "completed")' THEN 1 ELSE 0
    <3>1. CASE s = r
      BY <1>0, <1>1, <1>5, <2>10, <2>12, <3>1
    <3>2. CASE s # r
      BY <1>0, <1>1, <2>5, <3>2 DEF ChargedOnceIffCompleted
    <3> QED BY <3>1, <3>2
  <2>14. ChargedOnceIffCompleted'
    BY <2>13 DEF ChargedOnceIffCompleted
  <2> QED BY <2>4, <2>14
<1> QED BY <1>4, <1>5

(* It preserves the invariant. *)
LEMMA BranchInv ==
    ASSUME SimulatorInv, NEW r \in Rides, NEW event, NEW d, NEW next, NEW delay,
           Branch(r, event, d, next, delay)
    PROVE  SimulatorInv'
<1>0. TypeOK /\ Firing(r, event, d, next, delay) /\ paid' = paid /\ fleet' \in Fleet
  BY DEF SimulatorInv, Branch
<1>1. /\ r \in InProgress /\ InProgress \subseteq Rides
      /\ rides[r].next_at \in Nat
      /\ rides'[r].state = event /\ rides'[r].driver_id = d
      /\ rides'[r].next_event = next /\ rides'[r].next_at = rides[r].next_at + delay
      /\ \A s \in Rides : s # r => rides'[s] = rides[s] /\ fired'[s] = fired[s]
      /\ InProgress' = IF Ends(r, event) THEN InProgress \ {r} ELSE InProgress
      /\ rides' \in [Rides -> ActiveRide]
      /\ done' \subseteq active
      /\ UNCHANGED <<ticks, pc, counter, active, pings>>
  BY <1>0, FiringFacts
<1>2. /\ event \in {"matched", "driver_arrived", "started", "completed", "cancelled"}
      /\ fired' \in [Rides -> Seq(RideEventType \X Nat)]
      /\ fired'[r][Len(fired'[r])] = <<event, rides[r].next_at>>
      /\ \A s \in Rides : s # r => (HasFired(s, "completed")' <=> HasFired(s, "completed"))
      /\ HasFired(r, "completed")' <=> event = "completed"
  BY <1>0, FiredHistory
<1>3. ChargedOnceIffCompleted' /\ IsFiniteSet(payments') /\ payments' \subseteq Nat \X Rides
  BY BranchCharges
<1>4. TypeOK'
  BY <1>0, <1>1, <1>2, <1>3 DEF TypeOK
<1>5. RidesAndFleetAgree' /\ FleetSizeOK'
  BY <1>4, BranchAgrees, BranchSize
<1>6. r \in InProgress' => ~Ends(r, event)
  BY <1>1
<1>7. LifecycleAdvances'
  <2>1. ASSUME NEW s \in InProgress', s # r
        PROVE  /\ rides'[s].next_event \in LEGAL_TRANSITIONS[rides'[s].state]
               /\ rides'[s].state = fired'[s][Len(fired'[s])][1]
               /\ rides'[s].next_at >= fired'[s][Len(fired'[s])][2]
    BY <1>1, <2>1 DEF SimulatorInv, LifecycleAdvances
  <2>2. ASSUME r \in InProgress'
        PROVE  /\ rides'[r].next_event \in LEGAL_TRANSITIONS[rides'[r].state]
               /\ rides'[r].state = fired'[r][Len(fired'[r])][1]
               /\ rides'[r].next_at >= fired'[r][Len(fired'[r])][2]
    <3>1. next \in LEGAL_TRANSITIONS[event]
      BY <1>6, <2>2 DEF Branch
    <3>2. rides[r].next_at + delay >= rides[r].next_at
      BY <1>0, <1>1 DEF Firing
    <3> QED BY <1>1, <1>2, <3>1, <3>2
  <2> QED BY <2>1, <2>2 DEF LifecycleAdvances
<1>8. DriversOK'
  <2>1. ASSUME NEW s \in InProgress', s # r
        PROVE  s \in InProgress /\ rides'[s] = rides[s]
    BY <1>1, <2>1
  <2>2. ASSUME r \in InProgress'
        PROVE  rides'[r].state \in {"matched", "driver_arrived", "started"} /\ rides'[r].driver_id \in Drivers
    <3>1. ~Ends(r, event)
      BY <1>6, <2>2
    <3>2. event \notin TERMINAL_STATES /\ d \in Drivers
      BY <3>1 DEF Ends, Branch
    <3> QED BY <1>1, <1>2, <3>2 DEF TERMINAL_STATES
  <2> QED BY <2>1, <2>2 DEF SimulatorInv, DriversOK
<1>9. HistoryOK'
  <2>1. ASSUME NEW s \in InProgress' PROVE ~HasFired(s, "completed")'
    <3>1. CASE s = r
      BY <1>2, <1>6, <3>1, <2>1 DEF Ends, TERMINAL_STATES
    <3>2. CASE s # r
      BY <1>1, <1>2, <3>2, <2>1 DEF SimulatorInv, HistoryOK
    <3> QED BY <3>1, <3>2
  <2>2. ASSUME NEW s \in Rides, s > counter
        PROVE  fired'[s] = <<>> /\ rides'[s].driver_id = NoDriver
    <3>1. r \in 1..counter
      BY <1>0, <1>1 DEF InProgress, TypeOK
    <3>2. s # r
      BY <1>0, <2>2, <3>1 DEF TypeOK
    <3> QED BY <1>1, <2>2, <3>2 DEF SimulatorInv, HistoryOK
  <2> QED BY <1>1, <2>1, <2>2 DEF HistoryOK
<1> QED BY <1>3, <1>4, <1>5, <1>7, <1>8, <1>9 DEF SimulatorInv

-----------------------------------------------------------------------------
(* The branches of _fire. *)

(* Changing a driver's status. *)
LEMMA StatusFleet ==
    ASSUME NEW f \in Fleet, NEW d \in Drivers,
           NEW status \in {"unborn", "idle", "en_route", "on_trip", "offline"}, NEW g,
           g = [f EXCEPT ![d].status = status]
    PROVE  /\ g \in Fleet
           /\ g[d].status = status
           /\ \A e \in Drivers : e # d => g[e] = f[e]
OBVIOUS

(* The fleet after assign. *)
LEMMA AssignedFleet ==
    ASSUME TypeOK, NEW d \in Drivers, NEW at_ms \in Nat, NEW f \in Assigned(d, at_ms)
    PROVE  /\ f \in Fleet
           /\ f[d].status = "en_route"
           /\ \A e \in Drivers : e # d => f[e] = fleet[e]
<1>1. CASE d \in Spawned
  <2>1. f = [fleet EXCEPT ![d].status = "en_route"] /\ fleet \in Fleet
    BY <1>1 DEF Assigned, TypeOK
  <2> QED BY <2>1, StatusFleet
<1>2. CASE d \notin Spawned
  <2>1. PICK first \in FirstPings(at_ms) : f = [fleet EXCEPT ![d] = Driver("en_route", first)]
    BY <1>2 DEF Assigned
  <2>2. first \in Nat
    BY FirstPingIsNat
  <2> QED BY <2>1, <2>2 DEF TypeOK, Driver
<1> QED BY <1>1, <1>2

(* A due event of a ride in progress. *)
LEMMA FiresFacts ==
    ASSUME SimulatorInv, NEW r \in Rides, NEW event, Fires(r, event)
    PROVE  /\ r \in InProgress /\ rides[r] \in ActiveRide /\ rides[r].next_at \in Nat
           /\ rides[r].state \in {"requested", "matched", "driver_arrived", "started"}
           /\ event \in LEGAL_TRANSITIONS[rides[r].state]
           /\ rides[r].state = "requested" => rides[r].driver_id = NoDriver
           /\ rides[r].state # "requested" => rides[r].driver_id \in Drivers
           /\ rides[r].driver_id \in Drivers \cup {NoDriver}
           /\ rides[r].stop_after \in {NoEvent, "matched", "driver_arrived"}
           /\ fleet \in Fleet
<1>1. r \in InProgress
  BY DEF Fires, DueRides, InProgress
<1>2. rides[r] \in ActiveRide /\ fleet \in Fleet
  BY DEF SimulatorInv, TypeOK
<1>3. event \in LEGAL_TRANSITIONS[rides[r].state]
  BY DEF Fires
<1>4. /\ rides[r].state \in {"requested", "matched", "driver_arrived", "started"}
      /\ rides[r].state = "requested" => rides[r].driver_id = NoDriver
      /\ rides[r].state # "requested" => rides[r].driver_id \in Drivers
  BY <1>1 DEF SimulatorInv, DriversOK
<1>5. rides[r].next_at \in Nat /\ rides[r].driver_id \in Drivers \cup {NoDriver}
         /\ rides[r].stop_after \in {NoEvent, "matched", "driver_arrived"}
  BY <1>2
<1> QED BY <1>1, <1>2, <1>3, <1>4, <1>5

(* _after_matched *)
LEMMA FireMatchedInv ==
    ASSUME SimulatorInv, NEW r \in Rides, FireMatched(r)
    PROVE  SimulatorInv'
<1>0. TypeOK
  BY DEF SimulatorInv
<1>1. Fires(r, "matched") /\ UNCHANGED <<payments, paid>>
  BY DEF FireMatched
<1>2. rides[r].driver_id = NoDriver /\ rides[r].next_at \in Nat
  BY <1>1, FiresFacts DEF LEGAL_TRANSITIONS
<1>3. PICK d \in Assignable :
          IF rides[r].stop_after = "matched"
          THEN /\ \E taken \in Assigned(d, rides[r].next_at) :
                     fleet' = [taken EXCEPT ![d].status = "idle"]
               /\ Planned(r, d, NoEvent, 0)
          ELSE /\ fleet' \in Assigned(d, rides[r].next_at)
               /\ \/ \E delay \in CancelDelays : Planned(r, d, "cancelled", delay)
                  \/ \E delay \in Delays : Planned(r, d, "driver_arrived", delay)
  BY DEF FireMatched
<1>4. d \in Drivers /\ fleet[d].status \in {"idle", "unborn"}
  BY <1>2, AssignableFree
<1>5. Ends(r, "matched") <=> rides[r].stop_after = "matched"
  BY DEF Ends, TERMINAL_STATES
<1>6. CASE rides[r].stop_after = "matched"
  <2>1. PICK taken \in Assigned(d, rides[r].next_at) : fleet' = [taken EXCEPT ![d].status = "idle"]
    BY <1>3, <1>6
  <2>2. taken \in Fleet /\ \A e \in Drivers : e # d => taken[e] = fleet[e]
    BY <1>0, <1>2, <1>4, AssignedFleet
  <2>3. /\ fleet' \in Fleet /\ fleet'[d].status = "idle"
        /\ \A e \in Drivers : e # d => fleet'[e] = taken[e]
    BY <1>4, <2>1, <2>2, StatusFleet
  <2>4. Firing(r, "matched", d, NoEvent, 0)
    BY <1>1, <1>3, <1>4, <1>6 DEF Firing
  <2>5. Branch(r, "matched", d, NoEvent, 0)
    BY <1>1, <1>2, <1>4, <1>5, <1>6, <2>2, <2>3, <2>4 DEF Branch
  <2> QED BY <2>5, BranchInv
<1>7. CASE rides[r].stop_after # "matched"
  <2>1. PICK next \in {"cancelled", "driver_arrived"}, delay \in CancelDelays \cup Delays :
          Planned(r, d, next, delay)
    BY <1>3, <1>7
  <2>2. fleet' \in Fleet /\ fleet'[d].status = "en_route" /\ \A e \in Drivers : e # d => fleet'[e] = fleet[e]
    BY <1>0, <1>2, <1>3, <1>4, <1>7, AssignedFleet
  <2>3. delay \in Nat /\ next \in LEGAL_TRANSITIONS["matched"] /\ next \in RideEventType
    BY <2>1, TimeAssumption DEF LEGAL_TRANSITIONS, RideEventType
  <2>4. Firing(r, "matched", d, next, delay)
    BY <1>1, <1>4, <2>1, <2>3 DEF Firing
  <2>5. Branch(r, "matched", d, next, delay)
    BY <1>1, <1>2, <1>4, <1>5, <1>7, <2>2, <2>3, <2>4 DEF Branch
  <2> QED BY <2>5, BranchInv
<1> QED BY <1>6, <1>7

(* A ride with a driver in a busy leg, and the fleet once it is released. *)
LEMMA ReleasedFleet ==
    ASSUME NEW d \in Drivers \cup {NoDriver}, fleet \in Fleet, fleet' = Released(d)
    PROVE  /\ fleet' \in Fleet
           /\ d # NoDriver => fleet'[d].status = "idle"
           /\ \A e \in Drivers : e # d => fleet'[e].status = fleet[e].status
<1>1. CASE d = NoDriver
  BY <1>1 DEF Released
<1>2. CASE d # NoDriver
  <2>1. fleet' = [fleet EXCEPT ![d].status = "idle"] /\ d \in Drivers
    BY <1>2 DEF Released
  <2> QED BY <1>2, <2>1, StatusFleet
<1> QED BY <1>1, <1>2

(* _after_arrived *)
LEMMA FireArrivedInv ==
    ASSUME SimulatorInv, NEW r \in Rides, FireArrived(r)
    PROVE  SimulatorInv'
<1> DEFINE d == rides[r].driver_id
<1>1. Fires(r, "driver_arrived") /\ UNCHANGED <<payments, paid>>
  BY DEF FireArrived
<1>2. d \in Drivers /\ r \in InProgress /\ rides[r].state # "started" /\ fleet \in Fleet
  BY <1>1, FiresFacts DEF LEGAL_TRANSITIONS
<1>3. d # NoDriver
  BY <1>2, BoundAssumption DEF NoDriver, Drivers
<1>4. Ends(r, "driver_arrived") <=> rides[r].stop_after = "driver_arrived"
  BY DEF Ends, TERMINAL_STATES
<1>5. CASE rides[r].stop_after = "driver_arrived"
  <2>1. fleet' = Released(d) /\ Planned(r, d, NoEvent, 0)
    BY <1>5 DEF FireArrived
  <2>2. Firing(r, "driver_arrived", d, NoEvent, 0)
    BY <1>1, <1>2, <2>1 DEF Firing
  <2>3. /\ fleet' \in Fleet /\ fleet'[d].status = "idle"
        /\ \A e \in Drivers : e # d => fleet'[e].status = fleet[e].status
    BY <1>2, <1>3, <2>1, ReleasedFleet
  <2>4. Branch(r, "driver_arrived", d, NoEvent, 0)
    BY <1>1, <1>4, <1>5, <2>2, <2>3 DEF Branch
  <2> QED BY <2>4, BranchInv
<1>6. CASE rides[r].stop_after # "driver_arrived"
  <2>1. PICK next \in {"cancelled", "started"}, delay \in CancelDelays \cup Delays :
          Planned(r, d, next, delay)
    BY <1>6 DEF FireArrived
  <2>2. fleet' = fleet
    BY <1>6 DEF FireArrived
  <2>3. delay \in Nat /\ next \in LEGAL_TRANSITIONS["driver_arrived"] /\ next \in RideEventType
    BY <2>1, TimeAssumption DEF LEGAL_TRANSITIONS, RideEventType
  <2>4. Firing(r, "driver_arrived", d, next, delay)
    BY <1>1, <1>2, <2>1, <2>3 DEF Firing
  <2>5. fleet[d].status = "en_route"
    BY <1>2 DEF SimulatorInv, RidesAndFleetAgree, Holds
  <2>6. Branch(r, "driver_arrived", d, next, delay)
    BY <1>1, <1>2, <1>4, <1>6, <2>2, <2>3, <2>4, <2>5 DEF Branch
  <2> QED BY <2>6, BranchInv
<1> QED BY <1>5, <1>6

(* _after_started *)
LEMMA FireStartedInv ==
    ASSUME SimulatorInv, NEW r \in Rides, FireStarted(r)
    PROVE  SimulatorInv'
<1> DEFINE d == rides[r].driver_id
<1>1. Fires(r, "started") /\ UNCHANGED <<payments, paid>> /\ fleet' = OnTrip(d)
  BY DEF FireStarted
<1>2. /\ d \in Drivers /\ fleet \in Fleet
      /\ rides[r].stop_after \in {NoEvent, "matched", "driver_arrived"}
  BY <1>1, FiresFacts DEF LEGAL_TRANSITIONS
<1>3. ~Ends(r, "started")
  BY <1>2 DEF Ends, TERMINAL_STATES, NoEvent
<1>4. PICK next \in {"cancelled", "completed"}, delay \in Delays : Planned(r, d, next, delay)
  BY DEF FireStarted
<1>5. delay \in Nat /\ next \in LEGAL_TRANSITIONS["started"] /\ next \in RideEventType
  BY <1>4, TimeAssumption DEF LEGAL_TRANSITIONS, RideEventType
<1>6. Firing(r, "started", d, next, delay)
  BY <1>1, <1>2, <1>4, <1>5 DEF Firing
<1>7. fleet' \in Fleet /\ fleet'[d].status = "on_trip" /\ \A e \in Drivers : e # d => fleet'[e] = fleet[e]
  BY <1>1, <1>2, StatusFleet DEF OnTrip
<1>8. Branch(r, "started", d, next, delay)
  BY <1>1, <1>2, <1>3, <1>5, <1>6, <1>7 DEF Branch
<1> QED BY <1>8, BranchInv

(* A terminal event. *)
LEMMA FireTerminalInv ==
    ASSUME SimulatorInv, NEW r \in Rides, FireCompleted(r) \/ FireCancelled(r)
    PROVE  SimulatorInv'
<1> DEFINE d == rides[r].driver_id
<1>1. PICK event \in {"completed", "cancelled"} :
        /\ Fires(r, event)
        /\ fleet' = Released(d)
        /\ Planned(r, d, NoEvent, 0)
        /\ IF event = "completed" THEN payments' \in Queued(r, rides[r].next_at) ELSE payments' = payments
        /\ paid' = paid
  BY DEF FireCompleted, FireCancelled
<1>2. d \in Drivers \cup {NoDriver} /\ fleet \in Fleet
  BY <1>1, FiresFacts
<1>3. Ends(r, event)
  BY DEF Ends, TERMINAL_STATES
<1>4. Firing(r, event, d, NoEvent, 0)
  BY <1>1, <1>2 DEF Firing
<1>5. /\ fleet' \in Fleet
      /\ d # NoDriver => fleet'[d].status = "idle"
      /\ \A e \in Drivers : e # d => fleet'[e].status = fleet[e].status
  BY <1>1, <1>2, ReleasedFleet
<1>6. Branch(r, event, d, NoEvent, 0)
  BY <1>1, <1>3, <1>4, <1>5 DEF Branch
<1> QED BY <1>6, BranchInv

-----------------------------------------------------------------------------
(* The theorems. *)

(* Every step of the tick loop preserves the invariant. *)
LEMMA SimulatorStep ==
    ASSUME SimulatorInv, [Next]_vars
    PROVE  SimulatorInv'
<1>0. /\ ticks \in 0..MaxTicks /\ pings \in Seq(PingRecord)
      /\ pc \in {"fleet", "spawn", "progress", "payments", "yield"}
  BY DEF SimulatorInv, TypeOK
<1>1. ASSUME NEW d \in Drivers, BackOnline(d) \/ PingOnline(d) \/ PingAndGoOffline(d)
      PROVE  SimulatorInv'
  BY <1>1, BackOnlineInv, PingOnlineInv, GoOfflineInv
<1>2. CASE FleetDone \/ SpawnDone
  BY <1>0, <1>2, ClockInv DEF FleetDone, SpawnDone
<1>3. CASE CreateRide
  BY <1>3, CreateRideInv
<1>4. ASSUME NEW r \in Rides,
             \/ FireMatched(r) \/ FireArrived(r) \/ FireStarted(r)
             \/ FireCompleted(r) \/ FireCancelled(r)
      PROVE  SimulatorInv'
  BY <1>4, FireMatchedInv, FireArrivedInv, FireStartedInv, FireTerminalInv
<1>5. CASE ProgressDone
  BY <1>5, ProgressDoneInv
<1>6. CASE DuePayments
  BY <1>6, DuePaymentsInv
<1>7. CASE Advance
  <2>1. ticks' \in 0..MaxTicks
    BY <1>0, <1>7, TimeAssumption DEF Advance
  <2>2. pings' \in Seq(PingRecord)
    BY <1>7 DEF Advance
  <2> QED BY <1>7, <2>1, <2>2, ClockInv DEF Advance
<1>8. CASE Finished \/ UNCHANGED vars
  <2>1. UNCHANGED <<simulator, fleet>> /\ UNCHANGED <<ticks, pc, pings>>
    BY <1>8 DEF Finished, vars
  <2> QED BY <1>0, <2>1, ClockInv
<1> QED
  BY <1>1, <1>2, <1>3, <1>4, <1>5, <1>6, <1>7, <1>8 DEF Next

(* The simulator's inductive invariant holds throughout every run          *)
(* (RideSimulator.on_tick, DriverFleet).                                   *)
THEOREM SimulatorInvariant == Spec => []SimulatorInv
<1>1. SimulatorInv /\ [Next]_vars => SimulatorInv'
  BY SimulatorStep
<1> QED BY <1>1, InitSimulator, PTL DEF Spec

(* Type correctness of the clock, the rides, the fleet and the queues:     *)
(* assign never runs out of drivers it may spawn.                          *)
THEOREM SimulatorTypeOK == Spec => []TypeOK
<1>1. SimulatorInv => TypeOK
  BY DEF SimulatorInv
<1> QED BY <1>1, SimulatorInvariant, PTL

(* A driver is busy exactly when one ride in progress holds it, in the leg *)
(* that ride is in (assign, ride_started, release).                        *)
THEOREM RidesAndFleetAlwaysAgree == Spec => []RidesAndFleetAgree
<1>1. SimulatorInv => RidesAndFleetAgree
  BY DEF SimulatorInv
<1> QED BY <1>1, SimulatorInvariant, PTL

(* A ride in progress has its next event planned, on a legal edge and in   *)
(* lifecycle order of event time (_plan, RideStateMachine.advance).        *)
THEOREM LifecycleAlwaysAdvances == Spec => []LifecycleAdvances
<1>1. SimulatorInv => LifecycleAdvances
  BY DEF SimulatorInv
<1> QED BY <1>1, SimulatorInvariant, PTL

(* A ride is charged once if it completed and never otherwise              *)
(* (_queue_payment, _due_payments).                                        *)
THEOREM CompletedRidesAreCharged == Spec => []ChargedOnceIffCompleted
<1>1. SimulatorInv => ChargedOnceIffCompleted
  BY DEF SimulatorInv
<1> QED BY <1>1, SimulatorInvariant, PTL
=============================================================================
