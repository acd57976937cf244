---------------------------- MODULE MCEventFeed ----------------------------
(* Two ride events, a payment and a ping over two ticks, with a producer   *)
(* queue of two: it fills, an event held for one tick is released, and one *)
(* held for two outlives the run.                                          *)
EXTENDS EventFeedInduction, TLC

CONSTANTS e1, e2, p1, d1

const_RideIds == {e1, e2}
const_Payments   == {p1}
const_Pings      == {d1}
const_HoldTicks  == {1, 2}

Symmetry == Permutations(const_RideIds)
============================================================================
