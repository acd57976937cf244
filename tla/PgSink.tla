------------------------------- MODULE PgSink -------------------------------
(***************************************************************************)
(* The idempotent Postgres sink (processors/pg_sink.py): batches of Kafka  *)
(* records become upserts, and the position of the sink is a row of the    *)
(* same Postgres transaction.  Nothing here depends on the consumer group  *)
(* giving a partition to one process only: a worker that was stalled, or   *)
(* whose last COMMIT is still on the wire when its successor starts, may   *)
(* work on the partitions of another one, and the upserts have to absorb   *)
(* it.  Poison goes to the dead-letter queue through a producer of its own *)
(* (dlq/envelope.py), outside of the Postgres transaction.                 *)
(***************************************************************************)
EXTENDS Integers, Sequences, FiniteSetsExt, Functions

CONSTANTS
    Workers,      \* processes of the sink, over time: a restart is another one
    SinkTopics,   \* SINK_TOPICS, in that order
    Partitions,   \* partitions of SINK_TOPICS
    TopicOf,      \* the topic of a partition
    Keys,         \* primary keys of the raw tables
    PartitionOf,  \* the partition that carries a key
    Merged,       \* topics with ON CONFLICT DO UPDATE: rides.sessions
    Contents,     \* what two records of the same key can differ in
    EventSeq,     \* the event_seq of a session with that content
    Poison,       \* a message that has no row: deserialising or ROW_BUILDERS raises
    NoRow,
    BatchMax,     \* batch_max
    MaxLog        \* bound: records appended, to all partitions together

ASSUME KeyAssumption ==
    /\ PartitionOf \in [Keys -> Partitions]
    /\ SinkTopics \in Seq(Range(SinkTopics))
    /\ TopicOf \in [Partitions -> Range(SinkTopics)]
    /\ Merged \subseteq Range(SinkTopics)
ASSUME SeqAssumption == EventSeq \in [Contents -> Nat]
ASSUME BoundAssumption == MaxLog \in Nat /\ BatchMax \in Nat \ {0}

(* A record is its primary key and the other columns.  A session's         *)
(* event_seq, which UPSERTS compares, is the number of its filled slots.   *)
Record == [key : Keys, content : Contents]

MergedKeys == {k \in Keys : TopicOf[PartitionOf[k]] \in Merged}

event_seq(m) == EventSeq[m.content]

ASSUME NoneAssumption == Poison \notin Record

MessagesOf(p) == {m \in Record : PartitionOf[m.key] = p} \cup {Poison}

(* A row: the record that inserted it, which the columns missing from      *)
(* DO UPDATE SET still show, and the one the updated columns come from.    *)
Row == [inserted : Record, updated : Record]

ASSUME NoRowAssumption == NoRow \notin Row

Offsets == 0..(MaxLog - 1)
NoOffset == -1

VARIABLES
    log,               \* partition -> messages, as a read-committed consumer sees them
    dlq,               \* <<partition, offset>> of the envelopes in the dead-letter topics
    raw,               \* key -> its row in its raw table, or NoRow
    consumer_offsets,  \* partition -> serving.consumer_offsets.kafka_offset, or NoOffset
    pg,                \* worker -> the transaction on its connection
    pc,                \* worker -> where it is
    position,          \* worker -> partition -> the next offset consume() returns
    batch,             \* worker -> locals of process_batch
    envelopes          \* worker -> what its DlqProducer has queued and not sent

postgres == <<raw, consumer_offsets, pg>>
vars == <<log, dlq, postgres, pc, position, batch, envelopes>>

-----------------------------------------------------------------------------
(* Mutants: the WHERE clause is missing; every topic gets DO UPDATE. *)
Upsert_NoWhere(row, m) ==
    IF row = NoRow THEN [inserted |-> m, updated |-> m]
    ELSE IF m.key \in MergedKeys THEN [row EXCEPT !.updated = m]
    ELSE row
Upsert_EveryTopic(row, m) ==
    IF row = NoRow THEN [inserted |-> m, updated |-> m]
    ELSE IF event_seq(m) > event_seq(row.updated) THEN [row EXCEPT !.updated = m]
    ELSE row

(* UPSERTS: the row that one INSERT ... ON CONFLICT leaves. *)
Upsert(row, m) ==
    IF row = NoRow THEN [inserted |-> m, updated |-> m]
    ELSE IF m.key \in MergedKeys /\ event_seq(m) > event_seq(row.updated)
    THEN [row EXCEPT !.updated = m]
    ELSE row

(* Mutant: DO UPDATE SET without GREATEST. *)
OffsetUpsert_NoGreatest(stored, offset) == offset

(* OFFSET_UPSERT *)
OffsetUpsert(stored, offset) == IF offset > stored THEN offset ELSE stored

NoOffsets  == [p \in Partitions |-> NoOffset]
NoRows     == [t \in Range(SinkTopics) |-> <<>>]
EmptyBatch == [count |-> 0, rows |-> NoRows, max_offsets |-> NoOffsets, order |-> <<>>]

(* A transaction holds the rows it has locked, with their new values, and  *)
(* the offset rows.                                                        *)
EmptyPg(state) == [state |-> state, rows |-> [k \in Keys |-> NoRow], offsets |-> NoOffsets]

Init ==
    /\ log = [p \in Partitions |-> <<>>]
    /\ dlq = {}
    /\ raw = [k \in Keys |-> NoRow]
    /\ consumer_offsets = NoOffsets
    /\ pg = [w \in Workers |-> EmptyPg("none")]
    /\ pc = [w \in Workers |-> "down"]
    /\ position = [w \in Workers |-> [p \in Partitions |-> 0]]
    /\ batch = [w \in Workers |-> EmptyBatch]
    /\ envelopes = [w \in Workers |-> <<>>]

Appended == MapThenSumSet(LAMBDA q : Len(log[q]), Partitions)

Produce(p) ==
    /\ Appended < MaxLog
    /\ \E m \in MessagesOf(p) : log' = [log EXCEPT ![p] = Append(@, m)]
    /\ UNCHANGED <<dlq, postgres, pc, position, batch, envelopes>>

-----------------------------------------------------------------------------
(* __init__ and subscribe.  A connection whose COMMIT is still under way   *)
(* is not reused.                                                          *)
Start(w) ==
    /\ pc[w] = "down"
    /\ pg[w].state = "none"
    /\ pc' = [pc EXCEPT ![w] = "assign"]
    /\ UNCHANGED <<log, dlq, postgres, position, batch, envelopes>>

(* Mutant: the stored offset is taken for the next one, and one is added   *)
(* for the seek.                                                           *)
OnAssign_SkipsOne(w) ==
    /\ pc[w] = "assign"
    /\ position' = [position EXCEPT ![w] = [p \in Partitions |-> consumer_offsets[p] + 2]]
    /\ pc' = [pc EXCEPT ![w] = "poll"]
    /\ UNCHANGED <<log, dlq, postgres, batch, envelopes>>

(* on_assign: seek to the stored offset + 1; NoOffset + 1 is the beginning. *)
OnAssign(w) ==
    /\ pc[w] = "assign"
    /\ position' = [position EXCEPT ![w] = [p \in Partitions |-> consumer_offsets[p] + 1]]
    /\ pc' = [pc EXCEPT ![w] = "poll"]
    /\ UNCHANGED <<log, dlq, postgres, batch, envelopes>>

(* A rebalance between two batches. *)
Rebalance(w) ==
    /\ pc[w] = "poll"
    /\ batch[w] = EmptyBatch
    /\ pc' = [pc EXCEPT ![w] = "assign"]
    /\ UNCHANGED <<log, dlq, postgres, position, batch, envelopes>>

(* Batch b with one more message: the row joins those of its topic, and a  *)
(* partition that is new in the batch goes to the end of max_offsets.      *)
Collected(b, p, o, poison) ==
    [b EXCEPT !.count = @ + 1,
              !.max_offsets[p] = o,
              !.order = IF b.max_offsets[p] = NoOffset THEN Append(@, p) ELSE @,
              !.rows[TopicOf[p]] = IF poison THEN @ ELSE Append(@, <<p, o>>)]

(* One turn of process_batch's loop.  DlqProducer.handle only queues the   *)
(* envelope.                                                               *)
Consume(w, p) ==
    LET o == position[w][p]
        poison == log[p][o + 1] = Poison
    IN  /\ pc[w] = "poll"
        /\ batch[w].count < BatchMax
        /\ o < Len(log[p])
        /\ batch' = [batch EXCEPT ![w] = Collected(@, p, o, poison)]
        /\ envelopes' = [envelopes EXCEPT ![w] = IF poison THEN Append(@, <<p, o>>) ELSE @]
        /\ position' = [position EXCEPT ![w][p] = o + 1]
        /\ UNCHANGED <<log, dlq, postgres, pc>>

(* librdkafka sends a queued envelope in the background. *)
Deliver(w) ==
    /\ envelopes[w] # <<>>
    /\ dlq' = dlq \cup {Head(envelopes[w])}
    /\ envelopes' = [envelopes EXCEPT ![w] = Tail(@)]
    /\ UNCHANGED <<log, postgres, pc, position, batch>>

-----------------------------------------------------------------------------
(* The Postgres transaction (READ COMMITTED).  A statement sees what other *)
(* transactions have committed and what its own has written, and waits for *)
(* a row that another one has locked.                                      *)

(* Mutant: a batch without rows is not worth a transaction. *)
BeginWrite_RowsOnly(w) ==
    /\ pc[w] = "poll"
    /\ batch[w].rows # NoRows
    /\ pc' = [pc EXCEPT ![w] = "execute"]
    /\ pg' = [pg EXCEPT ![w] = EmptyPg("open")]
    /\ UNCHANGED <<log, dlq, raw, consumer_offsets, position, batch, envelopes>>

BeginWrite(w) ==
    /\ pc[w] = "poll"
    /\ batch[w].count > 0
    /\ pc' = [pc EXCEPT ![w] = "execute"]
    /\ pg' = [pg EXCEPT ![w] = EmptyPg("open")]
    /\ UNCHANGED <<log, dlq, raw, consumer_offsets, position, batch, envelopes>>

Visible(w, k) == IF pg[w].rows[k] # NoRow THEN pg[w].rows[k] ELSE raw[k]

(* The topic whose rows executemany is working on: the first that has any. *)
CurrentTopic(w) ==
    SinkTopics[Min({i \in 1..Len(SinkTopics) : batch[w].rows[SinkTopics[i]] # <<>>})]

(* The record of the next row. *)
NextRow(w) ==
    LET at == Head(batch[w].rows[CurrentTopic(w)])
    IN  log[at[1]][at[2] + 1]

(* executemany(UPSERTS), one row.  DO NOTHING on a committed row locks     *)
(* nothing.                                                                *)
ExecuteUpsert(w) ==
    /\ pc[w] = "execute"
    /\ batch[w].rows # NoRows
    /\ LET m == NextRow(w)
           ignored == m.key \notin MergedKeys /\ raw[m.key] # NoRow
       IN  /\ \A v \in Workers \ {w} : pg[v].rows[m.key] = NoRow
           /\ pg' = IF ignored THEN pg
                    ELSE [pg EXCEPT ![w].rows[m.key] = Upsert(Visible(w, m.key), m)]
    /\ batch' = [batch EXCEPT ![w].rows[CurrentTopic(w)] = Tail(@)]
    /\ UNCHANGED <<log, dlq, raw, consumer_offsets, pc, position, envelopes>>

(* executemany(OFFSET_UPSERT), one row, in the order of max_offsets; after *)
(* the last one COMMIT is sent.                                            *)
ExecuteOffset(w) ==
    /\ pc[w] = "execute"
    /\ batch[w].rows = NoRows
    /\ LET p == Head(batch[w].order)
       IN  /\ \A v \in Workers \ {w} : pg[v].offsets[p] = NoOffset
           /\ pg' = [pg EXCEPT
                  ![w].state = IF Len(batch[w].order) = 1 THEN "commit_sent" ELSE @,
                  ![w].offsets[p] = OffsetUpsert(consumer_offsets[p], batch[w].max_offsets[p])]
    /\ pc' = [pc EXCEPT ![w] = IF Len(batch[w].order) = 1 THEN "commit" ELSE @]
    /\ batch' = [batch EXCEPT ![w].order = Tail(@)]
    /\ UNCHANGED <<log, dlq, raw, consumer_offsets, position, envelopes>>

(* The server commits: rows and offsets appear together, whether or not    *)
(* the worker is still there.                                              *)
ServerCommit(w) ==
    /\ pg[w].state = "commit_sent"
    /\ raw' = [k \in Keys |-> Visible(w, k)]
    /\ consumer_offsets' = [p \in Partitions |->
          IF pg[w].offsets[p] # NoOffset THEN pg[w].offsets[p] ELSE consumer_offsets[p]]
    /\ pg' = [pg EXCEPT ![w] = EmptyPg(IF pc[w] = "commit" THEN "committed" ELSE "none")]
    /\ UNCHANGED <<log, dlq, pc, position, batch, envelopes>>

(* ... or the connection is gone before the COMMIT reaches it. *)
ServerRollback(w) ==
    /\ pg[w].state = "commit_sent"
    /\ pc[w] # "commit"
    /\ pg' = [pg EXCEPT ![w] = EmptyPg("none")]
    /\ UNCHANGED <<log, dlq, raw, consumer_offsets, pc, position, batch, envelopes>>

CommitReturns(w) ==
    /\ pc[w] = "commit"
    /\ pg[w].state = "committed"
    /\ pc' = [pc EXCEPT ![w] = "poll"]
    /\ pg' = [pg EXCEPT ![w] = EmptyPg("none")]
    /\ batch' = [batch EXCEPT ![w] = EmptyBatch]
    /\ UNCHANGED <<log, dlq, raw, consumer_offsets, position, envelopes>>

-----------------------------------------------------------------------------
(* What is left of the connection when the process gives it up: a COMMIT   *)
(* that was sent may still be served, anything else is rolled back.        *)
Abandon(w) ==
    pg' = [pg EXCEPT ![w] = IF @.state = "commit_sent" THEN @ ELSE EmptyPg("none")]

(* An exception: a message with an error, a failed query of on_assign, or  *)
(* the except block of process_batch, which rolls back and raises again.   *)
(* It leaves run(), whose finally block flushes the DlqProducer ...        *)
Raise(w) ==
    /\ pc[w] \in {"assign", "poll", "execute", "commit"}
    /\ Abandon(w)
    /\ pc' = [pc EXCEPT ![w] = "close"]
    /\ batch' = [batch EXCEPT ![w] = EmptyBatch]
    /\ UNCHANGED <<log, dlq, raw, consumer_offsets, position, envelopes>>

(* Postgres breaks a cycle of waiting statements by failing one of them.   *)
Waits(w, v) ==
    /\ pc[w] = "execute"
    /\ IF batch[w].rows # NoRows THEN pg[v].rows[NextRow(w).key] # NoRow
       ELSE pg[v].offsets[Head(batch[w].order)] # NoOffset

DeadlockVictim(w) ==
    /\ \E v \in Workers \ {w} : Waits(w, v) /\ \E u \in Workers \ {v} : Waits(v, u)
    /\ Raise(w)

(* ... for at most ten seconds: what has not been delivered by then is     *)
(* lost with the process.                                                  *)
Close(w) ==
    /\ pc[w] = "close"
    /\ pc' = [pc EXCEPT ![w] = "down"]
    /\ envelopes' = [envelopes EXCEPT ![w] = <<>>]
    /\ UNCHANGED <<log, dlq, postgres, position, batch>>

Crash(w) ==
    /\ pc[w] # "down"
    /\ pc' = [pc EXCEPT ![w] = "down"]
    /\ Abandon(w)
    /\ batch' = [batch EXCEPT ![w] = EmptyBatch]
    /\ envelopes' = [envelopes EXCEPT ![w] = <<>>]
    /\ UNCHANGED <<log, dlq, raw, consumer_offsets, position>>

WorkerStep(w) ==
    \/ Start(w)
    \/ OnAssign(w)
    \/ \E p \in Partitions : Consume(w, p)
    \/ BeginWrite(w)
    \/ ExecuteUpsert(w)
    \/ ExecuteOffset(w)
    \/ CommitReturns(w)
    \/ DeadlockVictim(w)
    \/ Close(w)

Failure(w) == Rebalance(w) \/ Raise(w) \/ Crash(w)

Next ==
    \/ \E p \in Partitions : Produce(p)
    \/ \E w \in Workers : \/ WorkerStep(w)
                          \/ Deliver(w)
                          \/ ServerCommit(w)
                          \/ ServerRollback(w)
                          \/ Failure(w)

Spec == Init /\ [][Next]_vars

(* Each worker is restarted when it ends and takes its enabled steps, a    *)
(* partition with records is read, and the server answers.                 *)
FairSpec ==
    /\ Spec
    /\ \A w \in Workers :
          /\ WF_vars(Start(w))
          /\ WF_vars(OnAssign(w))
          /\ \A p \in Partitions : WF_vars(Consume(w, p))
          /\ WF_vars(BeginWrite(w))
          /\ WF_vars(ExecuteUpsert(w))
          /\ WF_vars(ExecuteOffset(w))
          /\ WF_vars(CommitReturns(w))
          /\ WF_vars(DeadlockVictim(w))
          /\ WF_vars(Close(w))
          /\ WF_vars(ServerCommit(w) \/ ServerRollback(w))

-----------------------------------------------------------------------------
(* Places in the log. *)
Places == {at \in Partitions \X Nat : at[2] < Len(log[at[1]])}

Batch == [count : 0..BatchMax, rows : [Range(SinkTopics) -> Seq(Partitions \X Nat)],
          max_offsets : [Partitions -> Nat \cup {NoOffset}], order : Seq(Partitions)]

Pg == [state : {"none", "open", "commit_sent", "committed"},
       rows : [Keys -> Row \cup {NoRow}], offsets : [Partitions -> Nat \cup {NoOffset}]]

(* Type correctness of the tables, the offsets and the workers' locals;    *)
(* the stored offset of a partition is one of its records, no worker reads *)
(* past the end, and an envelope names a message of the log.               *)
TypeOK ==
    /\ log \in [Partitions -> Seq(Record \cup {Poison})]
    /\ \A p \in Partitions : log[p] \in Seq(MessagesOf(p))
    /\ dlq \subseteq Places
    /\ raw \in [Keys -> Row \cup {NoRow}]
    /\ consumer_offsets \in [Partitions -> Nat \cup {NoOffset}]
    /\ \A p \in Partitions : consumer_offsets[p] < Len(log[p])
    /\ pg \in [Workers -> Pg]
    /\ pc \in [Workers -> {"down", "assign", "poll", "execute", "commit", "close"}]
    /\ position \in [Workers -> [Partitions -> Nat]]
    /\ \A w \in Workers : \A p \in Partitions : position[w][p] <= Len(log[p])
    /\ batch \in [Workers -> Batch]
    /\ envelopes \in [Workers -> Seq(Places)]

-----------------------------------------------------------------------------
(* Offsets of the records of key k up to offset n. *)
OffsetsOf(k, n) ==
    {o \in 0..n : /\ log[PartitionOf[k]][o + 1] # Poison
                  /\ log[PartitionOf[k]][o + 1].key = k}

(* What the table should show for key k when offsets 0..n of its partition *)
(* have been applied once, in order: the first record inserts the row, and *)
(* for a session the richest one, or the first of the richest, updates it. *)
RowAfter(k, n) ==
    LET at(o) == log[PartitionOf[k]][o + 1]
        S == OffsetsOf(k, n)
        richest == {o \in S : \A x \in S : event_seq(at(x)) <= event_seq(at(o))}
    IN  IF S = {} THEN NoRow
        ELSE [inserted |-> at(Min(S)),
              updated  |-> IF k \in MergedKeys THEN at(Min(richest)) ELSE at(Min(S))]

(* "data and position commit atomically or not at all", and "idempotent    *)
(* upserts make the replay invisible": the tables show exactly the records *)
(* up to the stored offsets, as if applied once and in order, whatever     *)
(* workers crashed, replayed a batch, worked on the same partitions or     *)
(* left a COMMIT behind.                                                   *)
TablesMatchOffsets ==
    \A k \in Keys : raw[k] = RowAfter(k, consumer_offsets[PartitionOf[k]])

(* The sink implements its promise: every step appends to a topic, or      *)
(* takes records into the tables that were not in them, once and in order, *)
(* or changes nothing that a query can see, with any number of workers on  *)
(* the same partitions.                                                    *)
Promise == INSTANCE TablesExactlyOnce WITH
    table <- raw,
    taken <- [p \in Partitions |-> consumer_offsets[p] + 1]

ImplementsExactlyOnce == Promise!Spec

(* A late COMMIT never takes back progress: the stored offsets never go    *)
(* down, a row never disappears and a session never becomes poorer.        *)
NothingRegresses ==
    [][/\ \A p \in Partitions : consumer_offsets'[p] >= consumer_offsets[p]
       /\ \A k \in Keys : raw[k] # NoRow =>
             /\ raw'[k] # NoRow
             /\ raw'[k].inserted = raw[k].inserted
             /\ event_seq(raw'[k].updated) >= event_seq(raw[k].updated)]_vars

(* Every record is eventually behind the stored offset, poison included,   *)
(* if rebalances, exceptions and crashes come to an end.                   *)
FailuresCease == <>[][\A w \in Workers : ~Failure(w)]_vars

EventuallyStored ==
    FailuresCease =>
        \A p \in Partitions : \A o \in Offsets : o < Len(log[p]) ~> o <= consumer_offsets[p]

(* "malformed messages go to <topic>.dlq": poison behind the stored offset *)
(* has an envelope in the dead-letter topic, or a worker still holds it.   *)
PoisonDeadLettered ==
    \A p \in Partitions : \A o \in 0..consumer_offsets[p] :
        log[p][o + 1] = Poison =>
            \/ <<p, o>> \in dlq
            \/ \E w \in Workers : \E i \in 1..Len(envelopes[w]) : envelopes[w][i] = <<p, o>>

(* "keeping the richer close (higher event_seq) if a session is ever       *)
(* re-derived": the row of a ride is one of its closes, the richest.       *)
RowIsTheRicherClose ==
    \A k \in MergedKeys : raw[k] # NoRow => raw[k].inserted = raw[k].updated
=============================================================================
