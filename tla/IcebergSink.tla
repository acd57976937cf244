----------------------------- MODULE IcebergSink -----------------------------
(***************************************************************************)
(* The lakehouse archive: the sink that appends rides.events to one        *)
(* Iceberg table (sinks/iceberg_sink.py) and the hourly job that rewrites  *)
(* its small files (scripts/compact_iceberg.py).  They share nothing but   *)
(* the table.  The catalog lets a writer replace the snapshot that it      *)
(* started from and refuses it when another writer was faster; the sink    *)
(* ends on a refused append and replays from the broker's offsets, which   *)
(* it commits after the append.  Poison goes to the dead-letter queue      *)
(* through the DlqProducer, as in the Postgres sink.                       *)
(***************************************************************************)
EXTENDS Integers, Sequences, FiniteSets

CONSTANTS
    Partitions,   \* partitions of rides.events
    Cells,        \* partitions of the table: (event_day, city_id)
    Poison,       \* a message whose value does not deserialise
    MinFiles,     \* --min-files
    MaxLog,       \* bound: records appended to a partition
    MaxFaults     \* bound: crashes, rebalances and compaction jobs

ASSUME BoundAssumption == MaxLog \in Nat /\ MaxFaults \in Nat /\ MinFiles \in Nat
ASSUME CellsAssumption == IsFiniteSet(Cells)

Event == [cell : Cells, payload_version : {1, 2}]

ASSUME PoisonAssumption == Poison \notin Event

Offsets == 0..(MaxLog - 1)

VARIABLES
    log,          \* partition -> messages
    committed,    \* partition -> committed offset of the group, 0 when there is none
    dlq,          \* <<partition, offset>> of the envelopes in rides.events.dlq
    table,        \* the table in the catalog
    \* the sink
    pc,
    view,         \* the snapshot that self._table holds
    has_promo,    \* self._has_promo
    position,     \* partition -> the next offset consume() returns
    buffer,       \* self._buffer, as the places of the events in the log
    envelopes,    \* what its DlqProducer has queued and not sent
    \* the compaction job
    job,
    faults        \* counter for the bound MaxFaults

sink == <<pc, view, has_promo, position, buffer, envelopes>>
vars == <<log, committed, dlq, table, sink, job, faults>>

Message(at) == log[at[1]][at[2] + 1]

-----------------------------------------------------------------------------
(* The table: for each of its partitions the number of data files and the  *)
(* rows, which a scan returns in no particular order.  A row is the place  *)
(* of its event in the log, the snapshot whose append wrote it and its     *)
(* index in that batch, and whether it has the promo_code column.          *)
Row == [at : Partitions \X Offsets, append : Nat, index : Nat, promo : BOOLEAN]

EmptyTable ==
    [snapshot |-> 0, promo |-> FALSE, cells |-> [c \in Cells |-> [files |-> 0, rows |-> {}]]]

(* Mutant: all() in place of any(). *)
should_evolve_All(values, already_evolved) ==
    /\ ~already_evolved
    /\ \A i \in 1..Len(values) : Message(values[i]).payload_version >= 2

should_evolve(values, already_evolved) ==
    /\ ~already_evolved
    /\ \E i \in 1..Len(values) : Message(values[i]).payload_version >= 2

(* The rows that a batch adds to cell c. *)
to_arrow(values, c, with_promo) ==
    {[at |-> values[i], append |-> table.snapshot + 1, index |-> i, promo |-> with_promo] :
        i \in {i \in 1..Len(values) : Message(values[i]).cell = c}}

(* What the catalog's metadata says of each partition of the table. *)
partition_inventory(t) ==
    [c \in Cells |-> [files |-> t.cells[c].files, rows |-> Cardinality(t.cells[c].rows)]]

(* Locals of compact(): the loaded table, the partitions left to rewrite,  *)
(* the one just rewritten, and the inventory it started from.              *)
Idle == [state |-> "idle", table |-> EmptyTable, todo |-> {}, last |-> {},
         before |-> partition_inventory(EmptyTable)]

Init ==
    /\ log = [p \in Partitions |-> <<>>]
    /\ committed = [p \in Partitions |-> 0]
    /\ dlq = {}
    /\ table = EmptyTable
    /\ pc = "down"
    /\ view = 0
    /\ has_promo = FALSE
    /\ position = [p \in Partitions |-> 0]
    /\ buffer = <<>>
    /\ envelopes = {}
    /\ job = Idle
    /\ faults = 0

Produce(p) ==
    /\ Len(log[p]) < MaxLog
    /\ \E m \in Event \cup {Poison} : log' = [log EXCEPT ![p] = Append(@, m)]
    /\ UNCHANGED <<committed, dlq, table, sink, job, faults>>

-----------------------------------------------------------------------------
(* __init__ loads the table and subscribe resumes at the committed offsets. *)
Start ==
    /\ pc = "down"
    /\ pc' = "poll"
    /\ view' = table.snapshot
    /\ has_promo' = table.promo
    /\ position' = committed
    /\ UNCHANGED <<log, committed, dlq, table, buffer, envelopes, job, faults>>

(* _ingest, one message. *)
Ingest(p) ==
    LET at == <<p, position[p]>>
    IN  /\ pc = "poll"
        /\ position[p] < Len(log[p])
        /\ IF Message(at) = Poison
           THEN envelopes' = envelopes \cup {at} /\ UNCHANGED buffer
           ELSE buffer' = Append(buffer, at) /\ UNCHANGED envelopes
        /\ position' = [position EXCEPT ![p] = @ + 1]
        /\ UNCHANGED <<log, committed, dlq, table, pc, view, has_promo, job, faults>>

(* librdkafka sends a queued envelope in the background. *)
Deliver(at) ==
    /\ at \in envelopes
    /\ dlq' = dlq \cup {at}
    /\ envelopes' = envelopes \ {at}
    /\ UNCHANGED <<log, committed, table, pc, view, has_promo, position, buffer, job, faults>>

(* flush, when the buffer is full or the interval is over.  Only the sink  *)
(* changes the schema, so the catalog accepts the new column and hands     *)
(* back the current snapshot.                                              *)
Flush ==
    /\ pc = "poll"
    /\ buffer # <<>>
    /\ pc' = "append"
    /\ IF should_evolve(buffer, has_promo)
       THEN /\ table' = [table EXCEPT !.promo = TRUE]
            /\ view' = table.snapshot
            /\ has_promo' = TRUE
       ELSE UNCHANGED <<table, view, has_promo>>
    /\ UNCHANGED <<log, committed, dlq, position, buffer, envelopes, job, faults>>

AppendTable ==
    /\ pc = "append"
    /\ view = table.snapshot
    /\ table' = [table EXCEPT
          !.snapshot = @ + 1,
          !.cells = [c \in Cells |->
              LET new == to_arrow(buffer, c, has_promo)
              IN  IF new = {} THEN @[c]
                  ELSE [files |-> @[c].files + 1, rows |-> @[c].rows \cup new]]]
    /\ view' = table.snapshot + 1
    /\ pc' = "commit"
    /\ UNCHANGED <<log, committed, dlq, has_promo, position, buffer, envelopes, job, faults>>

(* What an exception leaves: run() closes the consumer without a commit.   *)
(* Its last dlq.flush() is Deliver, as far as it gets.                     *)
Down ==
    /\ pc' = "down"
    /\ buffer' = <<>>
    /\ envelopes' = {}
    /\ UNCHANGED <<log, committed, dlq, table, view, has_promo, position, job>>

(* Mutant: the exception is swallowed, and the batch retried later on.     *)
AppendRefused_Swallowed ==
    /\ pc = "append"
    /\ view # table.snapshot
    /\ pc' = "poll"
    /\ UNCHANGED <<log, committed, dlq, table, view, has_promo, position, buffer,
                   envelopes, job, faults>>

(* Another writer was faster: append raises. *)
AppendRefused ==
    /\ pc = "append"
    /\ view # table.snapshot
    /\ Down
    /\ UNCHANGED faults

(* Mutants: one is added to offsets that already name the next record; the *)
(* offsets are committed before the append.                                *)
CommitOffsets_OnePast ==
    /\ pc = "commit"
    /\ committed' = [p \in Partitions |-> position[p] + 1]
    /\ pc' = "poll"
    /\ buffer' = <<>>
    /\ UNCHANGED <<log, dlq, table, view, has_promo, position, envelopes, job, faults>>
CommitOffsets_First ==
    /\ pc \in {"append", "commit"}
    /\ committed' = position
    /\ pc' = IF pc = "commit" THEN "poll" ELSE pc
    /\ buffer' = IF pc = "commit" THEN <<>> ELSE buffer
    /\ UNCHANGED <<log, dlq, table, view, has_promo, position, envelopes, job, faults>>

(* commit(): the positions of everything consumed so far, poison included. *)
CommitOffsets ==
    /\ pc = "commit"
    /\ committed' = position
    /\ pc' = "poll"
    /\ buffer' = <<>>
    /\ UNCHANGED <<log, dlq, table, view, has_promo, position, envelopes, job, faults>>

(* A rebalance sends the consumer back to the committed offsets.  There is *)
(* no callback: the buffer stays.                                          *)
Rebalance ==
    /\ pc = "poll"
    /\ faults < MaxFaults
    /\ faults' = faults + 1
    /\ position' = committed
    /\ UNCHANGED <<log, committed, dlq, table, pc, view, has_promo, buffer, envelopes, job>>

Crash ==
    /\ pc # "down"
    /\ faults < MaxFaults
    /\ faults' = faults + 1
    /\ Down

-----------------------------------------------------------------------------
(* compact(): the inventory of the loaded table selects the partitions.    *)
CompactScan ==
    /\ job.state = "idle"
    /\ faults < MaxFaults
    /\ faults' = faults + 1
    /\ LET candidates == {c \in Cells : partition_inventory(table)[c].files > MinFiles}
       IN  /\ candidates # {}
           /\ job' = [state |-> "rewrite", table |-> table, todo |-> candidates, last |-> {},
                      before |-> partition_inventory(table)]
    /\ UNCHANGED <<log, committed, dlq, table, sink>>

(* Mutant: the condition on city_id is missing. *)
day_filter_AllCities(c) == Cells

(* The partitions of the table whose rows day_filter selects. *)
day_filter(c) == {c}

(* One partition: read it from the loaded snapshot, compare the row count  *)
(* with the inventory, overwrite it with a file of the columns that the    *)
(* loaded table has ...                                                    *)
CompactOverwrite(c) ==
    LET read  == job.table.cells[c].rows
        frame == {[row EXCEPT !.promo = @ /\ job.table.promo] : row \in read}
    IN  /\ job.state = "rewrite"
        /\ c \in job.todo
        /\ Cardinality(frame) = job.before[c].rows
        /\ job.table.snapshot = table.snapshot
        /\ table' = [table EXCEPT
              !.snapshot = @ + 1,
              !.cells = [d \in Cells |-> IF d = c THEN [files |-> 1, rows |-> frame]
                                         ELSE IF d \in day_filter(c) THEN [files |-> 0, rows |-> {}]
                                         ELSE @[d]]]
        /\ job' = [job EXCEPT !.state = "verify", !.todo = @ \ {c}, !.last = {c}]
        /\ UNCHANGED <<log, committed, dlq, sink, faults>>

(* ... or raise, because the counts differ or the overwrite is refused ... *)
CompactRefused ==
    /\ job.state = "rewrite"
    /\ \E c \in job.todo : \/ Cardinality(job.table.cells[c].rows) # job.before[c].rows
                           \/ job.table.snapshot # table.snapshot
    /\ job' = Idle
    /\ UNCHANGED <<log, committed, dlq, table, sink, faults>>

(* ... and load the table again.  The job ends after the last partition,   *)
(* or with an exception when the partition's row count has changed.        *)
CompactVerify ==
    /\ job.state = "verify"
    /\ job' = IF /\ \A c \in job.last : partition_inventory(table)[c].rows = job.before[c].rows
                 /\ job.todo # {}
              THEN [job EXCEPT !.state = "rewrite", !.table = table]
              ELSE Idle
    /\ UNCHANGED <<log, committed, dlq, table, sink, faults>>

(* The job is killed. *)
CompactKilled ==
    /\ job.state # "idle"
    /\ job' = Idle
    /\ UNCHANGED <<log, committed, dlq, table, sink, faults>>

SinkStep ==
    \/ Start
    \/ \E p \in Partitions : Ingest(p)
    \/ Flush
    \/ AppendTable
    \/ AppendRefused
    \/ CommitOffsets

CompactStep ==
    \/ CompactScan
    \/ \E c \in Cells : CompactOverwrite(c)
    \/ CompactRefused
    \/ CompactVerify
    \/ CompactKilled

Next ==
    \/ \E p \in Partitions : Produce(p)
    \/ SinkStep
    \/ \E at \in envelopes : Deliver(at)
    \/ Rebalance
    \/ Crash
    \/ CompactStep

Spec == Init /\ [][Next]_vars

(* The container is restarted, consume() serves every partition, and the   *)
(* flush interval comes to an end.                                         *)
FairSpec ==
    /\ Spec
    /\ WF_vars(Start)
    /\ \A p \in Partitions : WF_vars(Ingest(p))
    /\ WF_vars(Flush)
    /\ WF_vars(AppendTable)
    /\ WF_vars(AppendRefused)
    /\ WF_vars(CommitOffsets)

-----------------------------------------------------------------------------
Table == [snapshot : Nat, promo : BOOLEAN, cells : [Cells -> [files : Nat, rows : SUBSET Row]]]

Job ==
    [state : {"idle", "rewrite", "verify"}, table : Table, todo : SUBSET Cells,
     last : SUBSET Cells, before : [Cells -> [files : Nat, rows : Nat]]]

(* Type correctness of the table, the offsets and the sink's fields. *)
TypeOK ==
    /\ log \in [Partitions -> Seq(Event \cup {Poison})]
    /\ committed \in [Partitions -> 0..MaxLog]
    /\ dlq \subseteq Partitions \X Offsets
    /\ table \in Table
    /\ pc \in {"down", "poll", "append", "commit"}
    /\ view \in Nat
    /\ has_promo \in BOOLEAN
    /\ position \in [Partitions -> 0..MaxLog]
    /\ buffer \in Seq(Partitions \X Offsets)
    /\ envelopes \subseteq Partitions \X Offsets
    /\ job \in Job
    /\ faults \in 0..MaxFaults

(* The rows that come from place at, each with its cell, and how many the  *)
(* table has.                                                              *)
RowsAt(cells, at) == UNION {{c} \X {row \in cells[c].rows : row.at = at} : c \in Cells}

Copies(at) == Cardinality(RowsAt(table.cells, at))

Decoded(p) == {o \in 0..(Len(log[p]) - 1) : log[p][o + 1] # Poison}

(* "Offsets commit only AFTER the append: at-least-once, never data loss": *)
(* every event behind the committed offsets has a row, whatever the sink,  *)
(* the rebalances and the compaction job did to the table since.           *)
NeverDataLoss ==
    \A p \in Partitions : \A o \in Decoded(p) : o < committed[p] => Copies(<<p, o>>) > 0

(* "OVERWRITE exactly that partition with the same rows": a step of the    *)
(* job changes the number of files and no row, and a step of the sink      *)
(* takes none away.                                                        *)
CompactionKeepsRows ==
    [][/\ \A p \in Partitions : \A o \in Decoded(p) :
             /\ Copies(<<p, o>>)' >= Copies(<<p, o>>)
             /\ job' # job => Copies(<<p, o>>)' = Copies(<<p, o>>)]_vars

(* A v2 event is archived with its promo_code: the sink evolves the table  *)
(* before it writes the first one, and a compaction that loaded the table  *)
(* before the evolution does not drop the column's values.                 *)
PromoKept ==
    \A c \in Cells : \A row \in table.cells[c].rows :
        Message(row.at).payload_version >= 2 => row.promo

(* Every event is eventually behind the committed offset, however often    *)
(* the compaction job makes an append fail (it runs a bounded number of    *)
(* times, as do crashes).  Poison at the end of the log is not: flush      *)
(* returns early when the buffer is empty.                                 *)
EventuallyArchived ==
    \A p \in Partitions : \A o \in Offsets :
        o \in Decoded(p) ~> o < committed[p]
=============================================================================
