---------------------------- MODULE RideEvents ----------------------------
(***************************************************************************)
(* The vocabulary of a ride's lifecycle, shared by the generator and by    *)
(* every consumer: event types, terminal states and the edges between them *)
(* (generator/state_machine.py).                                           *)
(***************************************************************************)

RideEventType ==
    {"requested", "matched", "driver_arrived", "started", "completed", "cancelled"}

TERMINAL_STATES == {"completed", "cancelled"}

LEGAL_TRANSITIONS ==
    [requested      |-> {"matched", "cancelled"},
     matched        |-> {"driver_arrived", "cancelled"},
     driver_arrived |-> {"started", "cancelled"},
     started        |-> {"completed", "cancelled"},
     completed      |-> {},
     cancelled      |-> {}]

(* The types a ride may have emitted: it begins with requested, and every  *)
(* other event follows one that has a legal edge to it.  A ride has at     *)
(* most one terminal event.                                                *)
IsLifecycle(S) ==
    /\ S \subseteq RideEventType
    /\ "requested" \in S
    /\ \A t \in S \ {"requested"} : \E u \in S : t \in LEGAL_TRANSITIONS[u]
    /\ \A t, u \in S \cap TERMINAL_STATES : t = u
===========================================================================
