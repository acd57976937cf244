-------------------------- MODULE MCRideSimulator --------------------------
(* Two rides over a fleet that starts with one driver: there are no idle   *)
(* drivers left when the second ride is matched, or the driver is offline, *)
(* or it is the one the first ride gave back.  A tick is 2 ms, a lifecycle *)
(* delay no shorter than that and a cancellation immediate, in proportion  *)
(* to the program's 1 s tick and its 3 s and 0 s minima; six ticks see a   *)
(* ride through to its payment.                                            *)
EXTENDS RideSimulatorInduction

const_Delays       == {2}
const_CancelDelays == {0}
============================================================================
