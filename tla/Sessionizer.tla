---------------------------- MODULE Sessionizer ----------------------------
(***************************************************************************)
(* The transactional ride sessionizer (processors/ride_sessionizer.py)     *)
(* with its offset-tagged SQLite store (processors/state_store.py), the    *)
(* fold of a ride's events into a session (processors/session_builder.py)  *)
(* and the parts of Kafka it relies on: the partitions of rides.events,    *)
(* the group's committed offsets and the transaction coordinator.          *)
(*                                                                         *)
(* The process reads rides.events in batches.  A batch is folded into one  *)
(* accumulator per ride, written to SQLite, and only then published: the   *)
(* sessions it closes, a mirror of every event that decoded, a dead letter *)
(* for every one that did not, and the consumed offsets, all in one Kafka  *)
(* transaction.  SQLite commits before Kafka does.  A crash between the    *)
(* two leaves state that Kafka never confirmed; recovery erases it.        *)
(***************************************************************************)
EXTENDS RideSessions

CONSTANTS
    BatchMax,     \* batch_max: the most messages one consume() returns
    MaxLog        \* bound: records appended to a partition

ASSUME BoundAssumption == MaxLog \in Nat /\ BatchMax \in Nat \ {0}

Offsets == 0..(MaxLog - 1)
NoOffset == -1

VARIABLES
    \* Kafka
    log,             \* partition of rides.events -> messages; offset o is at index o + 1
    committed,       \* partition -> the group's committed offset, or NoOffset
    rides_sessions,  \* ride -> the session records published for it
    rides_clean,     \* partition -> source offsets mirrored to rides.events.clean
    rides_dlq,       \* partition -> source offsets dead-lettered
    txn,             \* the transactional.id at its coordinator
    \* SQLite
    journal,         \* rows <<partition, kafka_offset>>; the value is the message there
    closes,          \* ride -> kafka_offset of its close row, or NoOffset
    \* the process
    pc,
    accs,            \* ride -> filled slots of its accumulator, {} when it has none
    watermark,       \* partition -> watermark_ms
    position,        \* partition -> the next offset consume() returns
    batch,           \* locals of process_batch
    pending          \* partition -> what on_assign or the except block still owes it

topics == <<rides_sessions, rides_clean, rides_dlq>>
store  == <<journal, closes>>
memory == <<accs, watermark, position, batch, pending>>
vars   == <<log, committed, topics, txn, store, pc, memory>>

-----------------------------------------------------------------------------
(* The store: state_store.py.  Each operator is what one statement leaves  *)
(* in the table, or what one query returns.                                *)

Message(p, o) == log[p][o + 1]

(* Mutant: the row at the resume offset survives. *)
JournalAfterRollback_OneLate(p, resume) ==
    {row \in journal : ~(row[1] = p /\ row[2] > resume)}

JournalAfterRollback(p, resume) ==
    {row \in journal : ~(row[1] = p /\ row[2] >= resume)}

(* Mutants: only the journal is rolled back; the close at the resume       *)
(* offset survives.                                                        *)
ClosesAfterRollback_Kept(p, resume) == closes
ClosesAfterRollback_OneLate(p, resume) ==
    [r \in Rides |-> IF PartitionOf[r] = p /\ closes[r] > resume
                     THEN NoOffset ELSE closes[r]]

ClosesAfterRollback(p, resume) ==
    [r \in Rides |-> IF PartitionOf[r] = p /\ closes[r] >= resume
                     THEN NoOffset ELSE closes[r]]

(* Mutant: everything below the confirmed offset is purged, open rides     *)
(* included.                                                               *)
JournalAfterPurge_OpenToo(p, below) ==
    {row \in journal : ~(row[1] = p /\ row[2] < below)}

JournalAfterPurge(p, below) ==
    {row \in journal : LET r == Message(row[1], row[2]).ride_id
                       IN  ~(PartitionOf[r] = p /\ closes[r] \in 0..(below - 1))}

(* The slots that the journal rows of ride r fill. *)
JournalTypes(rows, r) ==
    {t \in RideEventType : \E row \in rows :
        Message(row[1], row[2]) = [ride_id |-> r, event_type |-> t]}

is_closed(r) == closes[r] # NoOffset

open_rides(rows, p) ==
    {r \in Rides : ~is_closed(r) /\ \E row \in rows :
                        row[1] = p /\ Message(row[1], row[2]).ride_id = r}

JournalTs(rows, p) == {ts(Message(row[1], row[2])) : row \in {x \in rows : x[1] = p}}

max_journal_ts(rows, p) == Max(JournalTs(rows, p) \cup {0})

-----------------------------------------------------------------------------
(* resume = tp.offset if tp.offset >= 0 else 0 *)
Resume(p) == IF committed[p] >= 0 THEN committed[p] ELSE 0

NoSessions == [r \in Rides |-> <<>>]
NoRecords  == [p \in Partitions |-> <<>>]
NoOffsets  == [p \in Partitions |-> NoOffset]

EmptyBatch ==
    [consumed |-> 0, max_offset |-> NoOffsets, journal |-> {},
     clean_forward |-> NoRecords, poisons |-> NoRecords, sessions |-> NoSessions]

EmptyTxn(state) ==
    [state |-> state, sessions |-> NoSessions, clean |-> NoRecords,
     dlq |-> NoRecords, offsets |-> NoOffsets]

(* What a process that is not running, or has just started, remembers.     *)
FreshMemory ==
    /\ accs' = [r \in Rides |-> {}]
    /\ watermark' = [p \in Partitions |-> 0]
    /\ position' = [p \in Partitions |-> 0]
    /\ batch' = EmptyBatch

Init ==
    /\ log = [p \in Partitions |-> <<>>]
    /\ committed = NoOffsets
    /\ rides_sessions = NoSessions
    /\ rides_clean = NoRecords
    /\ rides_dlq = NoRecords
    /\ txn = EmptyTxn("empty")
    /\ journal = {}
    /\ closes = [r \in Rides |-> NoOffset]
    /\ pc = "down"
    /\ accs = [r \in Rides |-> {}]
    /\ watermark = [p \in Partitions |-> 0]
    /\ position = [p \in Partitions |-> 0]
    /\ batch = EmptyBatch
    /\ pending = [p \in Partitions |-> "done"]

-----------------------------------------------------------------------------
(* A record is appended to rides.events: an event, in or out of order,     *)
(* late or for the second time, or one whose value is corrupt.             *)
Produce(p) ==
    /\ Len(log[p]) < MaxLog
    /\ \E m \in MessagesOf(p) : log' = [log EXCEPT ![p] = Append(@, m)]
    /\ UNCHANGED <<committed, topics, txn, store, pc, memory>>

-----------------------------------------------------------------------------
(* run(): init_transactions() comes before subscribe().  It waits for a    *)
(* transaction that is already committing, aborts one that is open, and    *)
(* fences the predecessor.  Then the group assigns the partitions.         *)
Start ==
    /\ pc = "down"
    /\ txn.state # "prepare_commit"
    /\ txn' = EmptyTxn("empty")
    /\ pc' = "assign"
    /\ pending' = [p \in Partitions |-> "rollback"]
    /\ UNCHANGED <<log, committed, topics, store, accs, watermark, position, batch>>

(* on_assign, one partition after the other: roll the store back to the    *)
(* committed offset, in a SQLite transaction of its own ...                *)
OnAssignRollback(p) ==
    /\ pc = "assign"
    /\ pending[p] = "rollback"
    /\ \A q \in Partitions : pending[q] # "purge"
    /\ journal' = JournalAfterRollback(p, Resume(p))
    /\ closes' = ClosesAfterRollback(p, Resume(p))
    /\ pending' = [pending EXCEPT ![p] = "purge"]
    /\ UNCHANGED <<log, committed, topics, txn, pc, accs, watermark, position, batch>>

(* ... purge the journal of confirmed closes, in another one, and rebuild  *)
(* the accumulators and the watermark from what is left.                   *)
OnAssignRebuild(p) ==
    /\ pc = "assign"
    /\ pending[p] = "purge"
    /\ journal' = JournalAfterPurge(p, Resume(p))
    /\ accs' = [r \in Rides |-> IF r \in open_rides(journal', p)
                                THEN JournalTypes(journal', r) ELSE accs[r]]
    /\ watermark' = [watermark EXCEPT ![p] = max_journal_ts(journal', p)]
    /\ position' = [position EXCEPT ![p] = Resume(p)]
    /\ pending' = [pending EXCEPT ![p] = "done"]
    /\ pc' = IF \A q \in Partitions \ {p} : pending[q] = "done" THEN "poll" ELSE pc
    /\ UNCHANGED <<log, committed, topics, txn, closes, batch>>

(* A rebalance between two batches: on_revoke forgets every partition, and *)
(* on_assign follows.                                                      *)
OnRevoke ==
    /\ pc = "poll"
    /\ batch = EmptyBatch
    /\ FreshMemory
    /\ pc' = "assign"
    /\ pending' = [p \in Partitions |-> "rollback"]
    /\ UNCHANGED <<log, committed, topics, txn, store>>

-----------------------------------------------------------------------------
(* One turn of process_batch's loop, for the next message of a partition.  *)

ConsumePoison(p) ==
    /\ batch' = [batch EXCEPT !.consumed = @ + 1,
                              !.max_offset[p] = position[p],
                              !.poisons[p] = Append(@, position[p])]
    /\ UNCHANGED <<accs, watermark>>

ConsumeEvent(p, e) ==
    LET r == e.ride_id
    IN  /\ batch' = [batch EXCEPT !.consumed = @ + 1,
                                  !.max_offset[p] = position[p],
                                  !.clean_forward[p] = Append(@, position[p]),
                                  !.journal = IF is_closed(r) THEN @
                                              ELSE @ \cup {<<p, position[p]>>}]
        /\ watermark' = [watermark EXCEPT ![p] = IF ts(e) > @ THEN ts(e) ELSE @]
        /\ accs' = IF is_closed(r) THEN accs
                   ELSE [accs EXCEPT ![r] = @ \cup {e.event_type}]

Consume(p) ==
    /\ pc = "poll"
    /\ batch.consumed < BatchMax
    /\ position[p] < Len(log[p])
    /\ IF Message(p, position[p]) = Poison
       THEN ConsumePoison(p)
       ELSE ConsumeEvent(p, Message(p, position[p]))
    /\ position' = [position EXCEPT ![p] = @ + 1]
    /\ UNCHANGED <<log, committed, topics, txn, store, pc, pending>>

(* Mutant: the timeout is measured from time zero and not from the ride's  *)
(* last activity.                                                          *)
Closable_NoLastActivity(r) ==
    /\ accs[r] # {}
    /\ batch.max_offset[PartitionOf[r]] # NoOffset
    /\ \/ terminal(accs[r]) # {}
       \/ watermark[PartitionOf[r]] > Timeout

(* _collect_closes: rides with a terminal event or overdue, on partitions  *)
(* that had input in this batch.                                           *)
Closable(r) ==
    /\ accs[r] # {}
    /\ batch.max_offset[PartitionOf[r]] # NoOffset
    /\ \/ terminal(accs[r]) # {}
       \/ timed_out(r, accs[r], watermark[PartitionOf[r]])

CollectCloses ==
    /\ pc = "poll"
    /\ batch.consumed > 0
    /\ batch' = [batch EXCEPT !.sessions =
                    [r \in Rides |-> IF Closable(r) THEN <<build_session(accs[r])>> ELSE <<>>]]
    /\ pc' = "append"
    /\ UNCHANGED <<log, committed, topics, txn, store, accs, watermark, position, pending>>

(* append_batch: one SQLite transaction for the journal and the closes.    *)
AppendBatch ==
    /\ pc = "append"
    /\ journal' = journal \cup batch.journal
    /\ closes' = [r \in Rides |-> IF batch.sessions[r] # <<>>
                                  THEN batch.max_offset[PartitionOf[r]] ELSE closes[r]]
    /\ pc' = "transact"
    /\ UNCHANGED <<log, committed, topics, txn, memory>>

-----------------------------------------------------------------------------
(* _transact.                                                               *)

(* begin_transaction, then produce() for every output of the batch. *)
ProduceOutputs ==
    /\ pc = "transact"
    /\ txn' = [state |-> "ongoing", sessions |-> batch.sessions,
               clean |-> batch.clean_forward, dlq |-> batch.poisons,
               offsets |-> NoOffsets]
    /\ pc' = "send_offsets"
    /\ UNCHANGED <<log, committed, topics, store, memory>>

(* Mutants: the offset sent is that of the last message, or two past it.   *)
OffsetToCommit_Last(p) == batch.max_offset[p]
OffsetToCommit_TwoPast(p) ==
    IF batch.max_offset[p] >= 0 THEN batch.max_offset[p] + 2 ELSE NoOffset

OffsetToCommit(p) ==
    IF batch.max_offset[p] >= 0 THEN batch.max_offset[p] + 1 ELSE NoOffset

SendOffsets ==
    /\ pc = "send_offsets"
    /\ txn.state = "ongoing"
    /\ txn' = [txn EXCEPT !.offsets =
                                [p \in Partitions |-> OffsetToCommit(p)]]
    /\ pc' = "commit"
    /\ UNCHANGED <<log, committed, topics, store, memory>>

(* commit_transaction: the request reaches the coordinator ... *)
EndTxn ==
    /\ pc = "commit"
    /\ txn.state = "ongoing"
    /\ txn' = [txn EXCEPT !.state = "prepare_commit"]
    /\ UNCHANGED <<log, committed, topics, store, pc, memory>>

(* ... which makes outputs and offsets visible together, whether or not    *)
(* the process is still there ...                                          *)
CompleteCommit ==
    /\ txn.state = "prepare_commit"
    /\ rides_sessions' = [r \in Rides |-> rides_sessions[r] \o txn.sessions[r]]
    /\ rides_clean' = [p \in Partitions |-> rides_clean[p] \o txn.clean[p]]
    /\ rides_dlq' = [p \in Partitions |-> rides_dlq[p] \o txn.dlq[p]]
    /\ committed' = [p \in Partitions |-> IF txn.offsets[p] # NoOffset
                                          THEN txn.offsets[p] ELSE committed[p]]
    /\ txn' = EmptyTxn("complete_commit")
    /\ UNCHANGED <<log, store, pc, memory>>

(* ... and answers.  process_batch drops the closed rides and returns.     *)
PostCommit ==
    /\ pc = "commit"
    /\ txn.state = "complete_commit"
    /\ accs' = [r \in Rides |-> IF batch.sessions[r] # <<>> THEN {} ELSE accs[r]]
    /\ batch' = EmptyBatch
    /\ pc' = "poll"
    /\ UNCHANGED <<log, committed, topics, txn, store, watermark, position, pending>>

(* A call of _transact raises: abort_transaction, then the except block    *)
(* owes a rollback to every partition of the batch.  (When the abort       *)
(* raises too, the process ends there: Crash.)                             *)
AbortBatch ==
    /\ pc \in {"send_offsets", "commit"}
    /\ txn' = EmptyTxn("complete_abort")
    /\ pc' = "rollback"
    /\ pending' = [p \in Partitions |-> IF batch.max_offset[p] >= 0
                                        THEN "rollback" ELSE "done"]
    /\ UNCHANGED <<log, committed, topics, store, accs, watermark, position, batch>>

(* The call fails on its own: a timeout, a failed produce, a stale group   *)
(* generation ...                                                          *)
TransactFails == txn.state = "ongoing" /\ AbortBatch

(* ... or the coordinator refuses it because it has aborted the            *)
(* transaction itself.                                                     *)
TransactRefused == txn.state = "complete_abort" /\ AbortBatch

(* The except block's loop; after the last partition the exception leaves  *)
(* run() and the process ends.                                             *)
RollbackAborted(p) ==
    /\ pc = "rollback"
    /\ pending[p] = "rollback"
    /\ journal' = JournalAfterRollback(p, Resume(p))
    /\ closes' = ClosesAfterRollback(p, Resume(p))
    /\ pending' = [pending EXCEPT ![p] = "done"]
    /\ IF \A q \in Partitions \ {p} : pending[q] = "done"
       THEN pc' = "down" /\ FreshMemory
       ELSE UNCHANGED <<pc, accs, watermark, position, batch>>
    /\ UNCHANGED <<log, committed, topics, txn>>

-----------------------------------------------------------------------------
(* The coordinator aborts a transaction that was left open too long. *)
TxnTimeout ==
    /\ txn.state = "ongoing"
    /\ txn' = EmptyTxn("complete_abort")
    /\ UNCHANGED <<log, committed, topics, store, pc, memory>>

(* The process dies, or an exception that nothing handles ends it.         *)
Crash ==
    /\ pc # "down"
    /\ pc' = "down"
    /\ FreshMemory
    /\ pending' = [p \in Partitions |-> "done"]
    /\ UNCHANGED <<log, committed, topics, txn, store>>

ProcessStep ==
    \/ Start
    \/ \E p \in Partitions : OnAssignRollback(p) \/ OnAssignRebuild(p)
    \/ \E p \in Partitions : Consume(p)
    \/ CollectCloses
    \/ AppendBatch
    \/ ProduceOutputs
    \/ SendOffsets
    \/ EndTxn
    \/ PostCommit
    \/ TransactRefused
    \/ \E p \in Partitions : RollbackAborted(p)

Failure == OnRevoke \/ TransactFails \/ TxnTimeout \/ Crash

Next ==
    \/ \E p \in Partitions : Produce(p)
    \/ ProcessStep
    \/ CompleteCommit
    \/ Failure

Spec == Init /\ [][Next]_vars

(* Every step of the process that is enabled is eventually taken, by each  *)
(* partition: consume() serves the partitions in turn, the calls of        *)
(* _transact return or raise, and the container is restarted whenever it   *)
(* ends (restart: unless-stopped).  The coordinator completes a commit it  *)
(* has accepted.                                                           *)
FairSpec ==
    /\ Spec
    /\ WF_vars(Start)
    /\ \A p \in Partitions :
          /\ WF_vars(OnAssignRollback(p))
          /\ WF_vars(OnAssignRebuild(p))
          /\ WF_vars(Consume(p))
          /\ WF_vars(RollbackAborted(p))
    /\ WF_vars(CollectCloses)
    /\ WF_vars(AppendBatch)
    /\ WF_vars(ProduceOutputs)
    /\ WF_vars(SendOffsets)
    /\ WF_vars(EndTxn)
    /\ WF_vars(CompleteCommit)
    /\ WF_vars(PostCommit)
    /\ WF_vars(TransactRefused)

-----------------------------------------------------------------------------
Output == [Partitions -> Seq(Offsets)]

Txn ==
    [state : {"empty", "ongoing", "prepare_commit", "complete_commit", "complete_abort"},
     sessions : [Rides -> Seq(Session)], clean : Output, dlq : Output,
     offsets : [Partitions -> 0..MaxLog \cup {NoOffset}]]

Batch ==
    [consumed : 0..BatchMax, max_offset : [Partitions -> Offsets \cup {NoOffset}],
     journal : SUBSET (Partitions \X Offsets), clean_forward : Output,
     poisons : Output, sessions : [Rides -> Seq(Session)]]

(* Type correctness: what each table, topic and local of the sessionizer   *)
(* can hold.                                                               *)
TypeOK ==
    /\ log \in [Partitions -> Seq(Event \cup {Poison})]
    /\ committed \in [Partitions -> 0..MaxLog \cup {NoOffset}]
    /\ rides_sessions \in [Rides -> Seq(Session)]
    /\ rides_clean \in Output
    /\ rides_dlq \in Output
    /\ txn \in Txn
    /\ journal \subseteq Partitions \X Offsets
    /\ closes \in [Rides -> Offsets \cup {NoOffset}]
    /\ pc \in {"down", "assign", "poll", "append", "transact", "send_offsets", "commit", "rollback"}
    /\ accs \in [Rides -> SUBSET RideEventType]
    /\ watermark \in [Partitions -> 0..MaxEventTs]
    /\ position \in [Partitions -> 0..MaxLog]
    /\ batch \in Batch
    /\ pending \in [Partitions -> {"rollback", "purge", "done"}]

(* "a session can never be published for input the group did not consume": *)
(* a ride has at most one session in rides.sessions, whatever crashes and  *)
(* aborts its batches went through, and that session is the fold of all    *)
(* the events of the ride in some prefix of the committed input, none of   *)
(* them lost or added by recovery.                                         *)
SessionsOnceAndComplete ==
    \A r \in Rides :
        rides_sessions[r] # <<>> =>
            /\ Len(rides_sessions[r]) = 1
            /\ \E n \in 1..Resume(PartitionOf[r]) :
                  rides_sessions[r][1] = build_session(SeenTypes(log, r, n))

(* "nor consumed input lose its session": once the terminal event of a     *)
(* ride is behind the committed offset, the ride has its session.          *)
ConsumedInputHasSession ==
    \A r \in Rides :
        terminal(SeenTypes(log, r, Resume(PartitionOf[r]))) # {} => rides_sessions[r] # <<>>

(* "exactly once" for the mirror, and "a DLQ record exists if and only if  *)
(* the offsets that produced it were committed": rides.events.clean lists  *)
(* the decoded offsets below the committed one, in their order and each    *)
(* once, and the dead-letter queue the other ones.                         *)
OutputsMatchCommittedOffsets ==
    \A p \in Partitions :
        /\ Lists(rides_clean[p], Decoded(log, p, Resume(p)))
        /\ Lists(rides_dlq[p], Poisoned(log, p, Resume(p)))

(* The two-store gap is closed whenever the process starts a batch: the    *)
(* closes in SQLite are those of the sessions in Kafka, and the            *)
(* accumulators hold what the committed input says of the open rides.      *)
StoresAgreeBetweenBatches ==
    pc = "poll" /\ batch = EmptyBatch =>
        \A r \in Rides :
            /\ is_closed(r) <=> rides_sessions[r] # <<>>
            /\ accs[r] = IF is_closed(r) THEN {}
                         ELSE SeenTypes(log, r, Resume(PartitionOf[r]))

(* The sessionizer implements its promise: each step either appends to     *)
(* rides.events, or publishes a batch atomically, or changes nothing that  *)
(* a read-committed consumer can see.                                      *)
Promise == INSTANCE SessionsExactlyOnce WITH
    consumed <- [p \in Partitions |-> Resume(p)],
    sessions <- rides_sessions,
    clean <- rides_clean,
    dlq <- rides_dlq

ImplementsPromise == Promise!Spec

(* Every record appended to rides.events is eventually consumed and every  *)
(* ride whose terminal event was appended eventually has its session, if   *)
(* rebalances, aborts and crashes come to an end.                          *)
FailuresCease == <>[][~Failure]_vars

EventuallyConsumed ==
    FailuresCease =>
        \A p \in Partitions : \A o \in Offsets : o < Len(log[p]) ~> o < Resume(p)

EventuallyClosed ==
    FailuresCease =>
        \A r \in Rides :
            terminal(SeenTypes(log, r, Len(log[PartitionOf[r]]))) # {} ~> rides_sessions[r] # <<>>

(* "Rides with no terminal event are closed as abandoned when the          *)
(* per-partition event-time watermark (max event_ts seen) passes           *)
(* session_timeout_ms beyond their last activity": after a batch of its    *)
(* partition is committed, no ride is both open and overdue.               *)
NoOverdueOpenRide ==
    \A r \in Rides :
        rides_sessions[r] = <<>> => ~Overdue(log, r, Resume(PartitionOf[r]))
============================================================================
