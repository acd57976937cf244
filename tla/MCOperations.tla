---------------------------- MODULE MCOperations ----------------------------
(***************************************************************************)
(* An instance of Operations for TLC.                                      *)
(***************************************************************************)
EXTENDS OperationsInduction, TLC

CONSTANTS plain, txn, sessionizer, pgsink, e1, e2

(* A partition of a plain topic and one of a transactional topic, where a  *)
(* message and its marker, and an aborted one, fit.                        *)
TwoPartitions == <<plain, txn>>
OneBrokerGroup == <<sessionizer>>
OneTopicEach == (sessionizer :> {plain}) @@ (pgsink :> {txn})
OffsetBounds == (plain :> 1) @@ (txn :> 4)

TwoEvents == <<e1, e2>>
=============================================================================
