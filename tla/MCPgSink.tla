------------------------------ MODULE MCPgSink ------------------------------
(***************************************************************************)
(* Instances of PgSink for TLC.                                            *)
(***************************************************************************)
EXTENDS PgSinkInduction, TLC

CONSTANTS events, sessions, p1, p2, k1, k2, w1, w2, poor, rich

TwoTopics == <<events, sessions>>

(* One partition of each of two topics, or both keys on one partition. *)
OneTopicEach  == (p1 :> events) @@ (p2 :> sessions)
OneKeyEach    == (k1 :> p1) @@ (k2 :> p2)
SessionsOnly  == p2 :> sessions
BothKeysOnP2  == (k1 :> p2) @@ (k2 :> p2)

(* Closes of a ride with fewer and with more events. *)
TwoContents == (poor :> 1) @@ (rich :> 2)
=============================================================================
