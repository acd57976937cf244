------------------------ MODULE IcebergSinkInduction ------------------------
(***************************************************************************)
(* What the archive relies on beyond what it promises: the inductive       *)
(* invariant from which IcebergSinkProofs derives the module's safety      *)
(* properties.                                                             *)
(***************************************************************************)
EXTENDS IcebergSink

(* Every offset is inside its partition's log. *)
OffsetsOK ==
    \A p \in Partitions :
        /\ Len(log[p]) <= MaxLog
        /\ committed[p] <= Len(log[p])
        /\ position[p] <= Len(log[p])

(* The buffer holds places of decoded events ... *)
BufferOK == \A i \in 1..Len(buffer) : buffer[i][2] \in Decoded(buffer[i][1])

(* ... and every event that was consumed since the start or the last       *)
(* rebalance is behind the committed offset or still in it.                *)
Buffered(at) == \E i \in 1..Len(buffer) : buffer[i] = at

ConsumedOK ==
    pc # "down" => \A p \in Partitions : \A o \in Decoded(p) :
        o < position[p] => o < committed[p] \/ Buffered(<<p, o>>)

(* Between the append and the commit, the whole buffer has its rows.       *)
Archived(at) == \E c \in Cells : \E row \in table.cells[c].rows : row.at = at

AppendedOK == pc = "commit" => \A i \in 1..Len(buffer) : Archived(buffer[i])

(* What is behind the committed offsets has its row. *)
CommittedOK == \A p \in Partitions : \A o \in Decoded(p) : o < committed[p] => Archived(<<p, o>>)

(* A row has the column only in a table that has it: what the sink         *)
(* believes of the schema is true, and a batch that needs the column is    *)
(* appended after the evolution.                                           *)
ColumnOK(t) == \A c \in Cells : \A row \in t.cells[c].rows : row.promo => t.promo

EvolvedOK ==
    /\ has_promo => table.promo
    /\ pc = "append" =>
          \A i \in 1..Len(buffer) : Message(buffer[i]).payload_version >= 2 => has_promo

RowsOK ==
    \A c \in Cells :
        /\ IsFiniteSet(table.cells[c].rows)
        /\ \A row \in table.cells[c].rows : row.at[2] < Len(log[row.at[1]])

(* The job's copy is an earlier state of the table, and while no snapshot  *)
(* has replaced the one it was read from, the rows are the same.           *)
JobOK ==
    /\ job.table.snapshot <= table.snapshot
    /\ job.state = "rewrite" /\ job.table.snapshot = table.snapshot =>
          job.table.cells = table.cells
    /\ \A c \in Cells : IsFiniteSet(job.table.cells[c].rows)

(* The archive's inductive invariant: consumed events are committed or     *)
(* buffered, the committed and the appended ones have rows, and a job that *)
(* the catalog would still accept holds the current rows, with a schema    *)
(* that covers them (flush, AppendTable, compact).                         *)
ArchiveInv ==
    /\ TypeOK
    /\ OffsetsOK
    /\ BufferOK
    /\ ConsumedOK
    /\ AppendedOK
    /\ CommittedOK
    /\ ColumnOK(table)
    /\ ColumnOK(job.table)
    /\ EvolvedOK
    /\ RowsOK
    /\ PromoKept
    /\ JobOK
=============================================================================
