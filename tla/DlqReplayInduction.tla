------------------------ MODULE DlqReplayInduction ------------------------
(***************************************************************************)
(* The inductive invariant of the dead-letter cycle, from which            *)
(* OperationsProofs derives its safety properties.                         *)
(***************************************************************************)
EXTENDS DlqReplay

(* The dead-letter replay: without a futile run, what comes back on a      *)
(* framed topic is repaired, so that a message that cannot be decoded is   *)
(* an original one, produced once, and every envelope, queued or           *)
(* delivered, wraps such a message.                                        *)
Repaired(messages) == \A i \in DOMAIN messages : messages[i].first = "0x00"

Wraps(d) ==
    /\ d.offset \in 1..Len(source)
    /\ d = build_envelope(d.offset)
    /\ d.first # "0x00"

OriginalsOnce ==
    (framed /\ ~futile) =>
        /\ Repaired(outbox)
        /\ \A i \in 1..Len(source) : source[i].first # "0x00" =>
              \E k \in 1..arrived : source[i].event = SourceEvents[k]
        /\ \A i, j \in 1..Len(source) :
              (source[i].first # "0x00" /\ source[j].first # "0x00" /\ source[i].event = source[j].event) => i = j
        /\ \A j \in 1..Len(dead) : Wraps(dead[j])
        /\ \A g \in RideReaders : \A j \in 1..Len(wrapped[g]) : Wraps(wrapped[g][j])

(* The inductive invariant of the dead-letter cycle (dlq/envelope.py,      *)
(* scripts/replay_dlq.py).                                                 *)
ReplayInv ==
    /\ ReplayTypeOK
    /\ OriginalsOnce
    /\ RepairDoesNotFeedBack
=============================================================================
