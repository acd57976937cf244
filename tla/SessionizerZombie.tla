-------------------------- MODULE SessionizerZombie --------------------------
(***************************************************************************)
(* Two sessionizers that share transactional.id and the state file: one    *)
(* stalls between consume() and append_batch, its group session expires, a *)
(* second one starts and fences it, and then the first wakes up.           *)
(***************************************************************************)
EXTENDS Sessionizer

VARIABLE zombie  \* the batch of the stalled process, or EmptyBatch

zombieVars == <<vars, zombie>>

InitZombie == Init /\ zombie = EmptyBatch

(* The process stalls with a batch it has collected; for the group and for *)
(* whoever starts the next one it is down.                                 *)
Stall ==
    /\ pc = "append"
    /\ zombie = EmptyBatch
    /\ zombie' = batch
    /\ pc' = "down"
    /\ FreshMemory
    /\ UNCHANGED <<log, committed, topics, txn, store, pending>>

(* It wakes up after its successor has called init_transactions.  SQLite   *)
(* knows of no fencing, so append_batch goes through; _transact raises, so *)
(* does abort_transaction, and it dies before the rollback.                *)
ZombieAppends ==
    /\ zombie # EmptyBatch
    /\ pc # "down"
    /\ journal' = journal \cup zombie.journal
    /\ closes' = [r \in Rides |-> IF zombie.sessions[r] # <<>>
                                  THEN zombie.max_offset[PartitionOf[r]] ELSE closes[r]]
    /\ zombie' = EmptyBatch
    /\ UNCHANGED <<log, committed, topics, txn, pc, memory>>

NextZombie ==
    \/ Next /\ UNCHANGED zombie
    \/ Stall
    \/ ZombieAppends

SpecZombie == InitZombie /\ [][NextZombie]_zombieVars

(* "Kill the zombie; the fencing is the system working": with a fenced     *)
(* predecessor around, too, no consumed input loses its session.           *)
FencingKeepsSessions == ConsumedInputHasSession
=============================================================================
