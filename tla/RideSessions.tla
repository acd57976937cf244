--------------------------- MODULE RideSessions ---------------------------
(***************************************************************************)
(* What a session is: the partitioned input of the sessionizer, the fold   *)
(* of a ride's events into one record (processors/session_builder.py), and *)
(* what a prefix of the input says about a ride.                           *)
(***************************************************************************)
EXTENDS Integers, Sequences, FiniteSetsExt, RideEvents

CONSTANTS
    Partitions,   \* partitions of rides.events
    Rides,        \* ride ids
    PartitionOf,  \* the partition that a ride's key hashes to
    Lifecycle,    \* the event types that a ride emits
    EventTs,      \* the event_ts of each of them
    Timeout,      \* session_timeout_ms
    MaxEventTs,   \* bound: event times are in 0..MaxEventTs
    Poison        \* a message whose value does not deserialise

(* An event is known by its ride and its type: event_id is ride_id plus    *)
(* the lifecycle ordinal, a duplicate is the same record sent again, and a *)
(* replayed dead letter is the record with its bytes repaired.             *)
Event == {e \in [ride_id : Rides, event_type : RideEventType] :
              e.event_type \in Lifecycle[e.ride_id]}

ASSUME PartitionAssumption == Partitions # {} /\ PartitionOf \in [Rides -> Partitions]
ASSUME LifecycleAssumption == \A r \in Rides : IsLifecycle(Lifecycle[r])
ASSUME TimeAssumption ==
    /\ Timeout \in Nat
    /\ MaxEventTs \in Nat
    /\ EventTs \in [Rides -> [RideEventType -> 0..MaxEventTs]]
ASSUME PoisonAssumption == Poison \notin [ride_id : Rides, event_type : RideEventType]

(* Messages that partition p can carry: its rides' events, in any order    *)
(* and any number of times, and poison.                                    *)
MessagesOf(p) == {e \in Event : PartitionOf[e.ride_id] = p} \cup {Poison}

ts(e) == EventTs[e.ride_id][e.event_type]

-----------------------------------------------------------------------------
(* The fold.  The slots of an accumulator are indexed by lifecycle ordinal, *)
(* so they are a set of event types: order and repetition leave no trace.   *)

terminal(slots) == slots \cap TERMINAL_STATES

last_event_ts(r, slots) == Max({EventTs[r][t] : t \in slots})

timed_out(r, slots, watermark_ms) ==
    slots # {} /\ watermark_ms - last_event_ts(r, slots) > Timeout

(* The record, reduced to what tells two closes of the same ride apart.     *)
build_session(slots) ==
    [slots |-> slots,
     terminal_state |-> IF terminal(slots) # {}
                        THEN CHOOSE t \in terminal(slots) : TRUE
                        ELSE "abandoned"]

Session == [slots : SUBSET RideEventType,
            terminal_state : TERMINAL_STATES \cup {"abandoned"}]

-----------------------------------------------------------------------------
(* What the first n records of a partition say.                             *)

(* Offsets below n whose value deserialises, and the other ones. *)
Decoded(log, p, n)  == {o \in 0..(n - 1) : log[p][o + 1] # Poison}
Poisoned(log, p, n) == {o \in 0..(n - 1) : log[p][o + 1] = Poison}

(* The event types of ride r among them ... *)
SeenTypes(log, r, n) ==
    {t \in RideEventType : \E o \in 0..(n - 1) :
        log[PartitionOf[r]][o + 1] = [ride_id |-> r, event_type |-> t]}

(* ... and the event times of all rides. *)
SeenTs(log, p, n) == {ts(log[p][o + 1]) : o \in Decoded(log, p, n)}

(* Some event of the partition is later than r's last activity by more     *)
(* than the timeout.                                                       *)
Overdue(log, r, n) ==
    \E w \in SeenTs(log, PartitionOf[r], n) : timed_out(r, SeenTypes(log, r, n), w)

(* s lists the set S of offsets, each once, in ascending order. *)
Lists(s, S) ==
    /\ {s[i] : i \in 1..Len(s)} = S
    /\ \A i, j \in 1..Len(s) : i < j => s[i] < s[j]
===========================================================================
