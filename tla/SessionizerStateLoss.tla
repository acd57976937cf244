------------------------ MODULE SessionizerStateLoss ------------------------
(***************************************************************************)
(* The sessionizer whose operator deletes the SQLite file while it is      *)
(* down, as docs/runbook.md allows when the file is corrupt.               *)
(***************************************************************************)
EXTENDS Sessionizer

(* rm state/sessionizer.db; the schema is created again at the next start. *)
DeleteState ==
    /\ pc = "down"
    /\ journal' = {}
    /\ closes' = [r \in Rides |-> NoOffset]
    /\ UNCHANGED <<log, committed, topics, txn, pc, memory>>

NextWithLoss == Next \/ DeleteState

SpecWithLoss == Init /\ [][NextWithLoss]_vars

(* "It is SAFE to delete state/sessionizer.db: the store is rebuilt from   *)
(* the Kafka-committed offsets": between two batches the accumulators hold *)
(* what the committed input says of the rides that have no session yet.    *)
RebuiltFromCommittedOffsets ==
    pc = "poll" /\ batch = EmptyBatch =>
        \A r \in Rides : rides_sessions[r] = <<>> =>
            accs[r] = SeenTypes(log, r, Resume(PartitionOf[r]))
=============================================================================
