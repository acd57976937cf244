---------------------------- MODULE RideSimulator ----------------------------
(***************************************************************************)
(* The source of the platform's data: the tick loop (generator/            *)
(* simulate.py) over the ride lifecycle (generator/rides.py) and the       *)
(* driver fleet (generator/drivers.py).  A ride plans its next event some  *)
(* time ahead and fires it when the clock gets there; on the way it takes  *)
(* a driver out of the fleet and has to give it back.  Draws of the seeded *)
(* generators are choices from small sets; places, speeds and fares, which *)
(* no decision about the lifecycle reads, are left out, and the nearest    *)
(* idle driver is any idle driver.                                         *)
(***************************************************************************)
EXTENDS Integers, Sequences, FiniteSets, RideEvents

CONSTANTS
    TickMs,        \* tick_ms
    Delays,        \* the delays of matching, travel, waiting, riding and paying
    CancelDelays,  \* the delays of a cancellation, which have no lower bound
    OfflineMs,     \* how long a driver stays offline
    PingMs,        \* ping_interval_sec
    MaxRides,      \* bound: rides created
    MaxTicks       \* ticks_for(cfg): the length of the run

(* A driver is offline for minutes and a tick is a second: it never comes  *)
(* back in the tick it left.                                               *)
ASSUME TimeAssumption ==
    /\ TickMs \in Nat \ {0} /\ PingMs \in Nat \ {0} /\ MaxTicks \in Nat
    /\ OfflineMs \in Nat /\ OfflineMs >= 2 * TickMs
    /\ Delays \subseteq Nat \ {0} /\ CancelDelays \subseteq Nat
ASSUME BoundAssumption == MaxRides \in Nat

Rides   == 1..MaxRides
Drivers == 0..MaxRides   \* driver 0 is the fleet at the start; a ride spawns at most one more
NoDriver == -1
NoEvent  == "none"

VARIABLES
    ticks,      \* SimClock.ticks
    pc,         \* the part of on_tick that runs
    counter,    \* self._counter
    rides,      \* ride -> ActiveRide
    active,     \* the keys of self._active
    done,       \* local of _progress
    payments,   \* self._payments: <<due_ms, ride>>
    fleet,      \* driver -> Driver
    pings,      \* the pings of this tick
    fired,      \* ride -> the events it has emitted, with their event_ts
    paid        \* ride -> the payments emitted for it

simulator == <<counter, rides, active, done, payments, fired, paid>>
vars == <<ticks, pc, simulator, fleet, pings>>

now_ms == ticks * TickMs

-----------------------------------------------------------------------------
(* drivers.py *)

Spawned == {d \in Drivers : fleet[d].status # "unborn"}
Idle    == {d \in Drivers : fleet[d].status = "idle"}

(* A driver's first ping is up to one interval away. *)
FirstPings(at_ms) == at_ms..(at_ms + PingMs - 1)

Driver(status, next_ping) == [status |-> status, next_ping |-> next_ping, back_online |-> 0]

(* on_tick goes through the drivers in the order of their creation: one    *)
(* whose time is over comes back; one that is due moves and pings; an idle *)
(* one may then go offline, and pings once more.                           *)
BackDue(d) == fleet[d].status = "offline" /\ now_ms >= fleet[d].back_online
PingDue(d) == fleet[d].status \notin {"unborn", "offline"} /\ fleet[d].next_ping <= now_ms

Turn(d) ==
    /\ pc = "fleet"
    /\ \A e \in Drivers : e < d => ~BackDue(e) /\ ~PingDue(e)

BackOnline(d) ==
    /\ Turn(d)
    /\ BackDue(d)
    /\ fleet' = [fleet EXCEPT ![d].status = "idle", ![d].next_ping = now_ms]
    /\ UNCHANGED <<ticks, pc, simulator, pings>>

Ping(d) == <<d, fleet[d].next_ping, fleet[d].status>>

PingOnline(d) ==
    /\ Turn(d)
    /\ PingDue(d)
    /\ pings' = Append(pings, Ping(d))
    /\ fleet' = [fleet EXCEPT ![d].next_ping = @ + PingMs]
    /\ UNCHANGED <<ticks, pc, simulator>>

PingAndGoOffline(d) ==
    /\ Turn(d)
    /\ PingDue(d)
    /\ fleet[d].status = "idle"
    /\ fleet' = [fleet EXCEPT ![d] = [status |-> "offline", next_ping |-> @.next_ping + PingMs,
                                      back_online |-> @.next_ping + OfflineMs]]
    /\ pings' = pings \o <<Ping(d), <<d, fleet[d].next_ping, "offline">>>>
    /\ UNCHANGED <<ticks, pc, simulator>>

FleetDone ==
    /\ pc = "fleet"
    /\ \A d \in Drivers : ~BackDue(d) /\ ~PingDue(d)
    /\ pc' = "spawn"
    /\ UNCHANGED <<ticks, simulator, fleet, pings>>

(* assign: an idle driver of the city, or a new one when there is none.    *)
Assignable ==
    IF Idle # {} THEN Idle
    ELSE {CHOOSE d \in Drivers \ Spawned : \A e \in Drivers \ Spawned : d <= e}

-----------------------------------------------------------------------------
(* rides.py *)

Init ==
    /\ ticks = 0
    /\ pc = "fleet"
    /\ counter = 0
    /\ rides = [r \in Rides |-> [state |-> NoEvent, driver_id |-> NoDriver, next_event |-> NoEvent,
                                 next_at |-> 0, stop_after |-> NoEvent]]
    /\ active = {}
    /\ done = {}
    /\ payments = {}
    /\ \E first \in FirstPings(0) :
          fleet = [d \in Drivers |-> IF d = 0 THEN Driver("idle", first) ELSE Driver("unborn", 0)]
    /\ pings = <<>>
    /\ fired = [r \in Rides |-> <<>>]
    /\ paid = [r \in Rides |-> 0]

(* _schedule_after_requested *)
FirstPlans == ({"cancelled"} \X CancelDelays) \cup ({"matched"} \X Delays)

(* _create_ride: an abandoned ride stops after matched or driver_arrived.  *)
CreateRide ==
    /\ pc = "spawn"
    /\ counter < MaxRides
    /\ counter' = counter + 1
    /\ LET r == counter + 1
       IN  \E requested_ms \in now_ms..(now_ms + TickMs - 1),
              stop \in {NoEvent, "matched", "driver_arrived"} :
           \E plan \in FirstPlans :
              /\ rides' = [rides EXCEPT ![r] =
                    [state |-> "requested", driver_id |-> NoDriver, next_event |-> plan[1],
                     next_at |-> requested_ms + plan[2], stop_after |-> stop]]
              /\ active' = active \cup {r}
              /\ fired' = [fired EXCEPT ![r] = <<<<"requested", requested_ms>>>>]
    /\ UNCHANGED <<ticks, pc, done, payments, paid, fleet, pings>>

(* _spawn_carry decides how many rides a tick creates. *)
SpawnDone ==
    /\ pc = "spawn"
    /\ pc' = "progress"
    /\ UNCHANGED <<ticks, simulator, fleet, pings>>

has_due_event(r) == rides[r].next_event # NoEvent /\ rides[r].next_at <= now_ms

(* _progress: the rides in the order of their creation, each one until it  *)
(* has no due event left or is done.                                       *)
DueRides == {r \in active \ done : has_due_event(r)}

(* _fire, up to the branch on the event type, and the check that follows   *)
(* in _progress.  machine.advance raises on an edge that does not exist,   *)
(* and the generator stops: no action is enabled then.                     *)
Fires(r, event_type) ==
    /\ pc = "progress"
    /\ r \in DueRides
    /\ \A s \in DueRides : r <= s
    /\ rides[r].next_event = event_type
    /\ event_type \in LEGAL_TRANSITIONS[rides[r].state]
    /\ fired' = [fired EXCEPT ![r] = Append(@, <<event_type, rides[r].next_at>>)]
    /\ done' = IF event_type \in TERMINAL_STATES \/ rides[r].stop_after = event_type
               THEN done \cup {r} ELSE done
    /\ UNCHANGED <<ticks, pc, counter, active, pings>>

(* Mutant: every delay counts from the request. *)
Planned_FromRequest(r, driver, event, delay) ==
    rides' = [rides EXCEPT ![r].state = rides[r].next_event, ![r].driver_id = driver,
                           ![r].next_event = event, ![r].next_at = fired[r][1][2] + delay]

(* The ride after it fired an event: what _plan sets, or nothing planned.  *)
Planned(r, driver, event, delay) ==
    rides' = [rides EXCEPT ![r].state = rides[r].next_event, ![r].driver_id = driver,
                           ![r].next_event = event, ![r].next_at = rides[r].next_at + delay]

(* _fleet.release, for the driver of the ride if it has one.               *)
Released(d) == IF d = NoDriver THEN fleet ELSE [fleet EXCEPT ![d].status = "idle"]

(* The driver a ride got, en route; one spawned for it pings within the    *)
(* next interval.                                                          *)
Assigned(d, at_ms) ==
    IF d \in Spawned THEN {[fleet EXCEPT ![d].status = "en_route"]}
    ELSE {[fleet EXCEPT ![d] = Driver("en_route", first)] : first \in FirstPings(at_ms)}

(* _after_matched *)
FireMatched(r) ==
    /\ Fires(r, "matched")
    /\ \E d \in Assignable :
          IF rides[r].stop_after = "matched"
          THEN /\ \E taken \in Assigned(d, rides[r].next_at) :
                     fleet' = [taken EXCEPT ![d].status = "idle"]
               /\ Planned(r, d, NoEvent, 0)
          ELSE /\ fleet' \in Assigned(d, rides[r].next_at)
               /\ \/ \E delay \in CancelDelays : Planned(r, d, "cancelled", delay)
                  \/ \E delay \in Delays : Planned(r, d, "driver_arrived", delay)
    /\ UNCHANGED <<payments, paid>>

(* Mutant: a ride abandoned at the pickup keeps its driver. *)
FireArrived_KeepsDriver(r) ==
    /\ Fires(r, "driver_arrived")
    /\ \/ \E delay \in CancelDelays : Planned(r, rides[r].driver_id, "cancelled", delay)
       \/ \E delay \in Delays : Planned(r, rides[r].driver_id, "started", delay)
    /\ UNCHANGED <<payments, paid, fleet>>

(* _after_arrived, unless the ride is abandoned here. *)
FireArrived(r) ==
    /\ Fires(r, "driver_arrived")
    /\ LET d == rides[r].driver_id
       IN  IF rides[r].stop_after = "driver_arrived"
           THEN fleet' = Released(d) /\ Planned(r, d, NoEvent, 0)
           ELSE /\ \/ \E delay \in CancelDelays : Planned(r, d, "cancelled", delay)
                   \/ \E delay \in Delays : Planned(r, d, "started", delay)
                /\ UNCHANGED fleet
    /\ UNCHANGED <<payments, paid>>

(* _fleet.ride_started *)
OnTrip(d) == [fleet EXCEPT ![d].status = "on_trip"]

(* _after_started *)
FireStarted(r) ==
    /\ Fires(r, "started")
    /\ LET d == rides[r].driver_id
       IN  /\ fleet' = OnTrip(d)
           /\ \E event \in {"cancelled", "completed"}, delay \in Delays : Planned(r, d, event, delay)
    /\ UNCHANGED <<payments, paid>>

(* _queue_payment *)
Queued(r, completed_ms) == {payments \cup {<<completed_ms + delay, r>>} : delay \in Delays}

FireCompleted(r) ==
    /\ Fires(r, "completed")
    /\ payments' \in Queued(r, rides[r].next_at)
    /\ fleet' = Released(rides[r].driver_id)
    /\ Planned(r, rides[r].driver_id, NoEvent, 0)
    /\ UNCHANGED paid

FireCancelled(r) ==
    /\ Fires(r, "cancelled")
    /\ fleet' = Released(rides[r].driver_id)
    /\ Planned(r, rides[r].driver_id, NoEvent, 0)
    /\ UNCHANGED <<payments, paid>>

(* Mutant: done is not reset. *)
ProgressDone_KeepsDone ==
    /\ pc = "progress"
    /\ DueRides = {}
    /\ active' = active \ done
    /\ pc' = "payments"
    /\ UNCHANGED <<ticks, counter, rides, done, payments, fired, paid, fleet, pings>>

(* The end of _progress: the rides that are done leave self._active.       *)
ProgressDone ==
    /\ pc = "progress"
    /\ DueRides = {}
    /\ active' = active \ done
    /\ done' = {}
    /\ pc' = "payments"
    /\ UNCHANGED <<ticks, counter, rides, payments, fired, paid, fleet, pings>>

(* Mutant: what is due right now stays queued. *)
StillQueued_DueNow(queue) == {p \in queue : p[1] >= now_ms}

(* _due_payments: what is due is emitted and leaves the queue.             *)
StillQueued(queue) == {p \in queue : p[1] > now_ms}

DuePayments ==
    /\ pc = "payments"
    /\ paid' = [r \in Rides |-> paid[r] + Cardinality({p \in payments : p[1] <= now_ms /\ p[2] = r})]
    /\ payments' = StillQueued(payments)
    /\ pc' = "yield"
    /\ UNCHANGED <<ticks, counter, rides, active, done, fired, fleet, pings>>

(* simulate_ticks: the tick's events are out, the clock advances.          *)
Advance ==
    /\ pc = "yield"
    /\ ticks + 1 < MaxTicks
    /\ ticks' = ticks + 1
    /\ pings' = <<>>
    /\ pc' = "fleet"
    /\ UNCHANGED <<simulator, fleet>>

(* The loop ends after the last tick, whatever is still in flight.         *)
Finished ==
    /\ pc = "yield"
    /\ ticks + 1 >= MaxTicks
    /\ UNCHANGED vars

-----------------------------------------------------------------------------

Next ==
    \/ \E d \in Drivers : BackOnline(d) \/ PingOnline(d) \/ PingAndGoOffline(d)
    \/ FleetDone \/ CreateRide \/ SpawnDone
    \/ \E r \in Rides :
          \/ FireMatched(r) \/ FireArrived(r) \/ FireStarted(r)
          \/ FireCompleted(r) \/ FireCancelled(r)
    \/ ProgressDone \/ DuePayments \/ Advance \/ Finished

Spec == Init /\ [][Next]_vars

-----------------------------------------------------------------------------
(* Properties *)

ActiveRide ==
    [state : RideEventType \cup {NoEvent}, driver_id : Drivers \cup {NoDriver},
     next_event : RideEventType \cup {NoEvent}, next_at : Nat,
     stop_after : {NoEvent, "matched", "driver_arrived"}]
DriverRecord ==
    [status : {"unborn", "idle", "en_route", "on_trip", "offline"}, next_ping : Nat, back_online : Nat]
Fleet == [Drivers -> DriverRecord]
PingRecord == Drivers \X Nat \X {"idle", "en_route", "on_trip", "offline"}

TypeOK ==
    /\ ticks \in 0..MaxTicks
    /\ pc \in {"fleet", "spawn", "progress", "payments", "yield"}
    /\ counter \in 0..MaxRides
    /\ rides \in [Rides -> ActiveRide]
    /\ active \subseteq 1..counter
    /\ done \subseteq active
    /\ payments \subseteq Nat \X Rides
    /\ fleet \in Fleet
    /\ pings \in Seq(PingRecord)
    /\ fired \in [Rides -> Seq(RideEventType \X Nat)]
    /\ paid \in [Rides -> Nat]

InProgress == active \ done
Holds(r, d) == r \in InProgress /\ rides[r].driver_id = d
HasFired(r, event_type) == \E i \in 1..Len(fired[r]) : fired[r][i][1] = event_type

(* The rides and the fleet agree: a driver is busy exactly when one ride   *)
(* in progress holds it, in the leg that ride is in.  A ride that ends, by *)
(* completion, cancellation or abandonment, has given its driver back, and *)
(* no driver serves two rides (assign, ride_started, release).             *)
RidesAndFleetAgree ==
    /\ \A d \in Drivers : fleet[d].status \in {"en_route", "on_trip"} => \E r \in Rides : Holds(r, d)
    /\ \A d \in Drivers : \A r, s \in Rides : Holds(r, d) /\ Holds(s, d) => r = s
    /\ \A d \in Drivers, r \in Rides :
          Holds(r, d) => fleet[d].status = IF rides[r].state = "started" THEN "on_trip" ELSE "en_route"

(* A ride in progress always has its next event planned, on a legal edge   *)
(* and not before the event it last emitted: no ride stalls without being  *)
(* dropped, none makes RideStateMachine.advance raise, and its events      *)
(* carry event times in lifecycle order (_plan, _fire).                    *)
LifecycleAdvances ==
    \A r \in InProgress :
        /\ rides[r].next_event \in LEGAL_TRANSITIONS[rides[r].state]
        /\ rides[r].state = fired[r][Len(fired[r])][1]
        /\ rides[r].next_at >= fired[r][Len(fired[r])][2]

(* A ride is charged exactly when it completed, and once: its payment is   *)
(* queued or has been emitted, never both (_queue_payment, _due_payments). *)
ChargedOnceIffCompleted ==
    \A r \in Rides :
        paid[r] + Cardinality({p \in payments : p[2] = r})
            = IF HasFired(r, "completed") THEN 1 ELSE 0

(* What pg-sink keeps of the pings it is sent: ON CONFLICT (driver_id, ts) *)
(* DO NOTHING, so the first one under each key.                            *)
StoredPings ==
    {pings[i] : i \in {i \in 1..Len(pings) : \A j \in 1..(i - 1) :
                          <<pings[j][1], pings[j][2]>> # <<pings[i][1], pings[i][2]>>}}

(* A driver that goes offline leaves an offline marker in the table that   *)
(* the shift model splits its pings at (int_drivers__shifts.sql: "no       *)
(* offline marker in between").                                            *)
OfflineMarkersAreStored ==
    \A i \in 1..Len(pings) : pings[i][3] = "offline" => pings[i] \in StoredPings
=============================================================================
