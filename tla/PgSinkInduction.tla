-------------------------- MODULE PgSinkInduction --------------------------
(***************************************************************************)
(* The inductive invariant of PgSink.  Most of it says what the parts of a *)
(* batch that are still to be executed, the rows a transaction has locked  *)
(* and the committed tables are to each other at every point of            *)
(* process_batch, with other workers on the same partitions.               *)
(***************************************************************************)
EXTENDS PgSink

(* Offsets of the records of key k in s, up to offset n. *)
KeyOffsets(s, k, n) == {o \in 0..n : s[o + 1] # Poison /\ s[o + 1].key = k}

(* The row that the records of key k at the offsets S of s leave: inserted *)
(* by the first, and of a session updated by the first of the richest.     *)
IsRow(row, k, s, S) ==
    IF S = {} THEN row = NoRow
    ELSE \E i, u \in S :
            /\ row = [inserted |-> s[i + 1], updated |-> s[u + 1]]
            /\ \A x \in S : i <= x
            /\ IF k \in MergedKeys
               THEN \A x \in S : /\ event_seq(s[x + 1]) <= event_seq(s[u + 1])
                                 /\ x < u => event_seq(s[x + 1]) < event_seq(s[u + 1])
               ELSE u = i

(* The record at offset o of p is in batch b and not executed yet. *)
IsPending(b, p, o) ==
    \E i \in 1..Len(b.rows[TopicOf[p]]) : b.rows[TopicOf[p]][i] = <<p, o>>

(* Offsets of key k that the transaction of batch b has executed.  Below   *)
(* the batch it is as if every record had been: it started at or before    *)
(* the stored offset.                                                      *)
Applied(b, s, k) ==
    {o \in KeyOffsets(s[PartitionOf[k]], k, b.max_offsets[PartitionOf[k]]) :
        ~IsPending(b, PartitionOf[k], o)}

-----------------------------------------------------------------------------
(* The committed rows are what the records up to the stored offsets leave. *)
TablesOK(s, c, r) ==
    \A k \in Keys :
        IsRow(r[k], k, s[PartitionOf[k]],
              KeyOffsets(s[PartitionOf[k]], k, c[PartitionOf[k]]))

(* No two transactions have the same row. *)
Disjoint(g, h) ==
    /\ \A k \in Keys : g.rows[k] = NoRow \/ h.rows[k] = NoRow
    /\ \A p \in Partitions : g.offsets[p] = NoOffset \/ h.offsets[p] = NoOffset

(* Where the worker is, what state its transaction is in, and when there   *)
(* is nothing in the transaction or in the batch.                          *)
ControlOK(at, g, b) ==
    /\ at \in {"down", "close"} => g.state \in {"none", "commit_sent"}
    /\ at \in {"assign", "poll"} => g.state = "none"
    /\ at = "execute" => g.state = "open"
    /\ at = "commit" => g.state \in {"commit_sent", "committed"}
    /\ g.state \in {"none", "committed"} => g = EmptyPg(g.state)
    /\ at \in {"down", "close", "assign"} => b = EmptyBatch

(* A partition that is not in the batch is read from the stored offset or  *)
(* before, one that is in it up to its maximum.                            *)
PositionOK(b, pos, c) ==
    \A p \in Partitions :
        IF b.max_offsets[p] = NoOffset THEN pos[p] <= c[p] + 1
        ELSE pos[p] = b.max_offsets[p] + 1

(* The rows to execute are records of the batch, in the order of their     *)
(* offsets, and none of the batch's later records is missing.              *)
RowsOK(b, s) ==
    /\ \A t \in Range(SinkTopics) : \A i \in 1..Len(b.rows[t]) :
          /\ TopicOf[b.rows[t][i][1]] = t
          /\ b.rows[t][i][2] <= b.max_offsets[b.rows[t][i][1]]
          /\ s[b.rows[t][i][1]][b.rows[t][i][2] + 1] # Poison
          /\ \A j \in 1..Len(b.rows[t]) :
                i < j /\ b.rows[t][i][1] = b.rows[t][j][1] => b.rows[t][i][2] < b.rows[t][j][2]
          /\ \A x \in 0..b.max_offsets[b.rows[t][i][1]] :
                b.rows[t][i][2] < x /\ s[b.rows[t][i][1]][x + 1] # Poison
                    => IsPending(b, b.rows[t][i][1], x)
    /\ \A i \in 1..Len(b.order) : b.max_offsets[b.order[i]] # NoOffset

(* While the batch is collected nothing of it has been executed. *)
PollOK(b, s, c) ==
    /\ b.count > 0 => b.order # <<>>
    /\ \A p \in Partitions : b.max_offsets[p] # NoOffset =>
          /\ p \in Range(b.order)
          /\ \A o \in 0..b.max_offsets[p] :
                s[p][o + 1] # Poison => o <= c[p] \/ IsPending(b, p, o)

(* While it is executed: a locked row is what the committed records and    *)
(* the executed ones leave; where no row is locked, the executed records   *)
(* had no effect, for they are behind the stored offset or are ignored.    *)
(* The offsets come last.                                                  *)
ExecuteOK(b, g, s, c, r) ==
    /\ b.order # <<>>
    /\ \A k \in Keys :
          LET p == PartitionOf[k]
          IN  IF g.rows[k] = NoRow
              THEN \A o \in Applied(b, s, k) : o <= c[p] \/ (k \notin MergedKeys /\ r[k] # NoRow)
              ELSE /\ b.max_offsets[p] # NoOffset
                   /\ IsRow(g.rows[k], k, s[p], KeyOffsets(s[p], k, c[p]) \cup Applied(b, s, k))
    /\ \A p \in Partitions :
          /\ g.offsets[p] # NoOffset => /\ b.rows = NoRows
                                        /\ b.max_offsets[p] # NoOffset
                                        /\ g.offsets[p] = OffsetUpsert(c[p], b.max_offsets[p])
          /\ b.max_offsets[p] # NoOffset => g.offsets[p] # NoOffset \/ p \in Range(b.order)

(* Once COMMIT has been sent, the transaction can be applied to the tables *)
(* at any time, with or without the worker.                                *)
SentOK(g, s, c, r) ==
    /\ \A p \in Partitions : g.offsets[p] # NoOffset => c[p] <= g.offsets[p] /\ g.offsets[p] < Len(s[p])
    /\ \A k \in Keys :
          LET p == PartitionOf[k]
              n == g.offsets[p]
          IN  IF g.rows[k] = NoRow
              THEN \A o \in KeyOffsets(s[p], k, n) : o <= c[p] \/ (k \notin MergedKeys /\ r[k] # NoRow)
              ELSE n # NoOffset /\ IsRow(g.rows[k], k, s[p], KeyOffsets(s[p], k, n))

(* A worker that waits for COMMIT has read to where the commit will be. *)
CommitOK(g, pos, c) ==
    \A p \in Partitions : pos[p] <= c[p] + 1 \/ pos[p] <= g.offsets[p] + 1

WorkerOK(w) ==
    /\ ControlOK(pc[w], pg[w], batch[w])
    /\ pc[w] \in {"poll", "execute"} => PositionOK(batch[w], position[w], consumer_offsets)
    /\ pc[w] \in {"poll", "execute"} => RowsOK(batch[w], log)
    /\ pc[w] = "poll" => PollOK(batch[w], log, consumer_offsets)
    /\ pc[w] = "execute" => ExecuteOK(batch[w], pg[w], log, consumer_offsets, raw)
    /\ pg[w].state = "commit_sent" => SentOK(pg[w], log, consumer_offsets, raw)
    /\ pc[w] = "commit" => CommitOK(pg[w], position[w], consumer_offsets)

(* The tables match the stored offsets, locks exclude, and every worker's  *)
(* batch and transaction extend the tables by the records that it read:    *)
(* what makes a COMMIT right whenever and in whatever order it is served.  *)
SinkInv ==
    /\ TypeOK
    /\ TablesOK(log, consumer_offsets, raw)
    /\ \A v, w \in Workers : v # w => Disjoint(pg[v], pg[w])
    /\ \A w \in Workers : WorkerOK(w)
=============================================================================
