-------------------------- MODULE IcebergSinkProofs --------------------------
(***************************************************************************)
(* Theorems about the archive, for every number of partitions, cells and   *)
(* records, and any number of crashes, rebalances and compaction jobs.     *)
(***************************************************************************)
EXTENDS IcebergSinkInduction, FiniteSetTheorems, FunctionTheorems, SequenceTheorems, TLAPS

-----------------------------------------------------------------------------
(* Counting rows. *)

(* The image of a finite set is finite. *)
LEMMA ImageFinite ==
    ASSUME NEW S, IsFiniteSet(S), NEW f
    PROVE  IsFiniteSet({f[x] : x \in S})
<1> DEFINE T == {f[x] : x \in S}
           g == [x \in S |-> f[x]]
<1>1. g \in Surjection(S, T)
  BY DEF Surjection
<1>2. IsFiniteSet(T)
  BY <1>1, FS_Surjection
<1> QED BY <1>2

(* Finitely many rows in each cell are finitely many rows in the table. *)
LEMMA RowsAtFinite ==
    ASSUME NEW cells, \A c \in Cells : IsFiniteSet(cells[c].rows), NEW at
    PROVE  IsFiniteSet(RowsAt(cells, at))
<1> DEFINE f == [c \in Cells |-> {c} \X {row \in cells[c].rows : row.at = at}]
           S == {f[c] : c \in Cells}
<1>1. IsFiniteSet(S)
  <2> HIDE DEF f
  <2> QED BY ImageFinite, CellsAssumption
<1>2. ASSUME NEW c \in Cells PROVE IsFiniteSet(f[c])
  <2> DEFINE R == {row \in cells[c].rows : row.at = at}
  <2>1. IsFiniteSet(R)
    BY FS_Subset
  <2>2. IsFiniteSet({c})
    BY FS_Singleton
  <2>3. f[c] = {c} \X R
    OBVIOUS
  <2> HIDE DEF R, f
  <2> QED BY <2>1, <2>2, <2>3, FS_Product
<1>3. \A U \in S : IsFiniteSet(U)
  <2> HIDE DEF f
  <2> QED BY <1>2
<1>4. IsFiniteSet(UNION S)
  <2> HIDE DEF S
  <2> QED BY <1>1, <1>3, FS_UNION
<1>5. S = {{c} \X {row \in cells[c].rows : row.at = at} : c \in Cells}
  BY Zenon
<1> HIDE DEF S
<1> QED BY <1>4, <1>5 DEF RowsAt

(* More rows, more copies. *)
LEMMA MoreRows ==
    ASSUME NEW old, NEW new, \A c \in Cells : IsFiniteSet(new[c].rows),
           \A c \in Cells : old[c].rows \subseteq new[c].rows, NEW at
    PROVE  Cardinality(RowsAt(new, at)) >= Cardinality(RowsAt(old, at))
<1>1. RowsAt(old, at) \subseteq RowsAt(new, at)
  BY DEF RowsAt
<1>2. IsFiniteSet(RowsAt(new, at))
  BY RowsAtFinite
<1>3. IsFiniteSet(RowsAt(old, at)) /\ Cardinality(RowsAt(old, at)) <= Cardinality(RowsAt(new, at))
  BY <1>1, <1>2, FS_Subset
<1>4. Cardinality(RowsAt(old, at)) \in Nat /\ Cardinality(RowsAt(new, at)) \in Nat
  BY <1>2, <1>3, FS_CardinalityType
<1> QED BY <1>3, <1>4

(* The same rows, the same copies, however they are split into files. *)
LEMMA SameRows ==
    ASSUME NEW old, NEW new, \A c \in Cells : new[c].rows = old[c].rows, NEW at
    PROVE  RowsAt(new, at) = RowsAt(old, at)
BY DEF RowsAt

(* An event that has a row has a copy. *)
LEMMA ArchivedCopies ==
    ASSUME \A c \in Cells : IsFiniteSet(table.cells[c].rows), NEW at, Archived(at)
    PROVE  Copies(at) > 0
<1>1. PICK c \in Cells : \E row \in table.cells[c].rows : row.at = at
  BY DEF Archived
<1>2. RowsAt(table.cells, at) # {}
  <2>1. PICK row \in table.cells[c].rows : row.at = at
    BY <1>1
  <2>2. <<c, row>> \in {c} \X {r \in table.cells[c].rows : r.at = at}
    BY <2>1
  <2>3. <<c, row>> \in RowsAt(table.cells, at)
    BY <2>2, Zenon DEF RowsAt
  <2> QED BY <2>3
<1>3. IsFiniteSet(RowsAt(table.cells, at))
  BY RowsAtFinite
<1>4. Cardinality(RowsAt(table.cells, at)) \in Nat /\ Cardinality(RowsAt(table.cells, at)) # 0
  BY <1>2, <1>3, FS_CardinalityType, FS_EmptySet
<1> QED BY <1>4 DEF Copies

(* What the catalog's metadata says of a table. *)
LEMMA InventoryType ==
    ASSUME NEW t \in Table, \A c \in Cells : IsFiniteSet(t.cells[c].rows)
    PROVE  /\ partition_inventory(t) \in [Cells -> [files : Nat, rows : Nat]]
           /\ \A c \in Cells : partition_inventory(t)[c].rows = Cardinality(t.cells[c].rows)
<1>1. ASSUME NEW c \in Cells PROVE t.cells[c].files \in Nat /\ Cardinality(t.cells[c].rows) \in Nat
  <2>1. t.cells[c] \in [files : Nat, rows : SUBSET Row]
    BY DEF Table
  <2> QED BY <2>1, FS_CardinalityType
<1> QED BY <1>1 DEF partition_inventory

(* The empty table. *)
LEMMA EmptyTableType ==
    /\ EmptyTable \in Table
    /\ \A c \in Cells : EmptyTable.cells[c].rows = {}
    /\ EmptyTable.snapshot = 0
BY DEF EmptyTable, Table

(* A job that has not started. *)
LEMMA IdleType ==
    /\ Idle \in Job
    /\ Idle.state = "idle"
    /\ Idle.table = EmptyTable
<1>1. partition_inventory(EmptyTable) \in [Cells -> [files : Nat, rows : Nat]]
  BY EmptyTableType, InventoryType, FS_EmptySet
<1> QED BY <1>1, EmptyTableType DEF Idle, Job

(* What JobOK and ColumnOK say of it. *)
LEMMA IdleOK ==
    ASSUME TypeOK
    PROVE  /\ Idle.table.snapshot <= table.snapshot
           /\ Idle.state # "rewrite"
           /\ \A c \in Cells : IsFiniteSet(Idle.table.cells[c].rows)
           /\ ColumnOK(Idle.table)
<1>1. table.snapshot \in Nat
  BY DEF TypeOK, Table
<1>2. \A c \in Cells : Idle.table.cells[c].rows = {}
  BY IdleType, EmptyTableType
<1>3. \A c \in Cells : IsFiniteSet(Idle.table.cells[c].rows)
  BY <1>2, FS_EmptySet
<1>4. ColumnOK(Idle.table)
  BY <1>2 DEF ColumnOK
<1>5. Idle.table.snapshot <= table.snapshot /\ Idle.state # "rewrite"
  BY <1>1, IdleType, EmptyTableType
<1> QED BY <1>3, <1>4, <1>5

(* The initial states. *)
LEMMA InitArchive == Init => ArchiveInv
<1> SUFFICES ASSUME Init PROVE ArchiveInv
  OBVIOUS
<1> USE DEF Init
<1>0. \A p \in Partitions : log[p] = <<>> /\ Len(log[p]) = 0
  OBVIOUS
<1>1. TypeOK
  <2>1. /\ log \in [Partitions -> Seq(Event \cup {Poison})]
        /\ committed \in [Partitions -> 0..MaxLog]
        /\ position \in [Partitions -> 0..MaxLog]
        /\ faults \in 0..MaxFaults
    BY BoundAssumption
  <2>2. buffer \in Seq(Partitions \X Offsets)
    OBVIOUS
  <2>3. /\ table \in Table
        /\ job \in Job
    BY IdleType, EmptyTableType
  <2> QED BY <2>1, <2>2, <2>3 DEF TypeOK
<1>2. OffsetsOK
  BY <1>0, BoundAssumption DEF OffsetsOK
<1>3. BufferOK /\ ConsumedOK /\ AppendedOK
  BY DEF BufferOK, ConsumedOK, AppendedOK
<1>4. \A p \in Partitions : Decoded(p) = {}
  BY <1>0 DEF Decoded
<1>5. CommittedOK
  BY <1>4 DEF CommittedOK
<1>6. ColumnOK(table) /\ ColumnOK(job.table)
  BY EmptyTableType, IdleType DEF ColumnOK
<1>7. EvolvedOK /\ RowsOK /\ PromoKept
  BY EmptyTableType, FS_EmptySet DEF EvolvedOK, RowsOK, PromoKept
<1>8. JobOK
  BY <1>1, IdleOK DEF JobOK
<1> QED BY <1>1, <1>2, <1>3, <1>5, <1>6, <1>7, <1>8 DEF ArchiveInv

-----------------------------------------------------------------------------
(* The steps. *)

(* A decoded event. *)
LEMMA DecodedEvent ==
    ASSUME TypeOK, NEW p \in Partitions, NEW o \in Decoded(p)
    PROVE  /\ o \in Nat /\ o < Len(log[p])
           /\ log[p][o + 1] \in Event
<1>1. log[p] \in Seq(Event \cup {Poison})
  BY DEF TypeOK
<1>2. Len(log[p]) \in Nat
  BY <1>1, LenProperties
<1>3. o \in Nat /\ o < Len(log[p]) /\ log[p][o + 1] # Poison
  BY <1>2 DEF Decoded
<1>4. o + 1 \in 1..Len(log[p])
  BY <1>2, <1>3
<1>5. log[p][o + 1] \in Event \cup {Poison}
  BY <1>1, <1>4, ElementOfSeq
<1> QED BY <1>3, <1>5

(* A place of the buffer. *)
LEMMA BufferPlace ==
    ASSUME TypeOK, BufferOK, NEW i \in 1..Len(buffer)
    PROVE  /\ buffer[i] \in Partitions \X Offsets
           /\ buffer[i] = <<buffer[i][1], buffer[i][2]>>
           /\ buffer[i][1] \in Partitions
           /\ buffer[i][2] \in Decoded(buffer[i][1])
           /\ buffer[i][2] \in Nat /\ buffer[i][2] < Len(log[buffer[i][1]])
           /\ Message(buffer[i]) \in Event
<1>1. buffer[i] \in Partitions \X Offsets
  BY ElementOfSeq DEF TypeOK
<1>2. buffer[i] = <<buffer[i][1], buffer[i][2]>> /\ buffer[i][1] \in Partitions
  BY <1>1
<1>3. buffer[i][2] \in Decoded(buffer[i][1])
  BY DEF BufferOK
<1> QED BY <1>1, <1>2, <1>3, DecodedEvent DEF Message

(* A row of the table. *)
LEMMA RowPlace ==
    ASSUME TypeOK, NEW c \in Cells, NEW row \in table.cells[c].rows
    PROVE  row \in Row /\ row.at[1] \in Partitions /\ row.at[2] \in Nat
<1>1. table.cells[c] \in [files : Nat, rows : SUBSET Row]
  BY DEF TypeOK, Table
<1>2. row \in Row
  BY <1>1
<1> QED BY <1>2, BoundAssumption DEF Row, Offsets

(* The log only grows. *)
LEMMA LogGrows ==
    ASSUME TypeOK, NEW q \in Partitions, Produce(q), NEW p \in Partitions
    PROVE  /\ log'[p] \in Seq(Event \cup {Poison})
           /\ Len(log[p]) \in Nat /\ Len(log'[p]) \in Nat
           /\ Len(log[p]) <= Len(log'[p])
           /\ \A o \in Nat : o < Len(log[p]) => log'[p][o + 1] = log[p][o + 1]
           /\ \A o \in Decoded(p)' : o < Len(log[p]) => o \in Decoded(p)
           /\ Decoded(p) \subseteq Decoded(p)'
<1>1. PICK m \in Event \cup {Poison} : log' = [log EXCEPT ![q] = Append(@, m)]
  BY DEF Produce
<1>2. log[p] \in Seq(Event \cup {Poison}) /\ Len(log[p]) \in Nat
  BY LenProperties DEF TypeOK
<1>3. log'[p] = IF p = q THEN Append(log[p], m) ELSE log[p]
  BY <1>1 DEF TypeOK
<1>4. log'[p] \in Seq(Event \cup {Poison}) /\ Len(log'[p]) \in Nat /\ Len(log[p]) <= Len(log'[p])
  BY <1>2, <1>3, AppendProperties
<1>5. ASSUME NEW o \in Nat, o < Len(log[p]) PROVE log'[p][o + 1] = log[p][o + 1]
  <2>1. o + 1 \in 1..Len(log[p])
    BY <1>2, <1>5
  <2> QED BY <1>2, <1>3, <2>1, AppendProperties
<1>6. ASSUME NEW o \in Decoded(p)', o < Len(log[p]) PROVE o \in Decoded(p)
  BY <1>2, <1>4, <1>5, <1>6 DEF Decoded
<1>7. ASSUME NEW o \in Decoded(p) PROVE o \in Decoded(p)'
  <2>1. o \in Nat /\ o < Len(log[p]) /\ log[p][o + 1] # Poison
    BY <1>2 DEF Decoded
  <2>2. o \in 0..(Len(log'[p]) - 1) /\ log'[p][o + 1] # Poison
    BY <1>2, <1>4, <1>5, <2>1
  <2> QED BY <2>2 DEF Decoded
<1> QED BY <1>2, <1>4, <1>5, <1>6, <1>7

(* The producer appends a record. *)
LEMMA ProduceInv ==
    ASSUME ArchiveInv, NEW q \in Partitions, Produce(q)
    PROVE  ArchiveInv'
<1> USE DEF ArchiveInv
<1>0. UNCHANGED <<committed, dlq, table, pc, view, has_promo, position, buffer, envelopes, job, faults>>
  BY DEF Produce, sink
<1>1. PICK m \in Event \cup {Poison} : log' = [log EXCEPT ![q] = Append(@, m)]
  BY DEF Produce
<1>2. TypeOK'
  <2>1. log' \in [Partitions -> Seq(Event \cup {Poison})]
    <3>1. log' = [p \in Partitions |-> log'[p]]
      BY <1>1 DEF TypeOK
    <3> QED BY <3>1, LogGrows
  <2> QED BY <1>0, <2>1 DEF TypeOK, Table, Job
<1>3. OffsetsOK'
  <2> SUFFICES ASSUME NEW p \in Partitions
               PROVE  Len(log'[p]) <= MaxLog /\ committed[p] <= Len(log'[p]) /\ position[p] <= Len(log'[p])
    BY <1>0 DEF OffsetsOK
  <2>1. Len(log'[p]) <= MaxLog
    <3>1. CASE p = q
      <4>1. log[p] \in Seq(Event \cup {Poison}) /\ log'[p] = Append(log[p], m)
        BY <1>1, <3>1 DEF TypeOK
      <4>2. Len(log'[p]) = Len(log[p]) + 1 /\ Len(log[p]) \in Nat
        BY <4>1, AppendProperties, LenProperties
      <4>3. Len(log[p]) < MaxLog
        BY <3>1 DEF Produce
      <4> QED BY <4>2, <4>3, BoundAssumption
    <3>2. CASE p # q
      BY <1>1, <3>2 DEF TypeOK, OffsetsOK
    <3> QED BY <3>1, <3>2
  <2>2. committed[p] \in Nat /\ position[p] \in Nat
    BY BoundAssumption DEF TypeOK
  <2> QED BY <2>1, <2>2, LogGrows DEF OffsetsOK
<1>4. BufferOK'
  BY <1>0, BufferPlace, LogGrows DEF BufferOK
<1>5. ASSUME NEW p \in Partitions, NEW o \in Decoded(p)', o < position[p] \/ o < committed[p]
      PROVE  o \in Decoded(p)
  <2>1. o \in Nat
    BY LogGrows DEF Decoded
  <2>2. committed[p] \in Nat /\ position[p] \in Nat /\ Len(log[p]) \in Nat
    BY BoundAssumption, LenProperties DEF TypeOK
  <2>3. o < Len(log[p])
    BY <1>5, <2>1, <2>2 DEF OffsetsOK
  <2> QED BY <2>3, LogGrows
<1>6. ConsumedOK'
  <2>1. \A at : Buffered(at)' <=> Buffered(at)
    BY <1>0 DEF Buffered
  <2> QED BY <1>0, <1>5, <2>1 DEF ConsumedOK
<1>7. AppendedOK' /\ CommittedOK'
  <2>1. \A at : Archived(at)' <=> Archived(at)
    BY <1>0 DEF Archived
  <2> QED BY <1>0, <1>5, <2>1 DEF AppendedOK, CommittedOK
<1>8. ColumnOK(table)' /\ ColumnOK(job.table)' /\ JobOK'
  BY <1>0 DEF ColumnOK, JobOK
<1>9. EvolvedOK'
  <2>1. \A i \in 1..Len(buffer) : Message(buffer[i])' = Message(buffer[i])
    BY <1>0, BufferPlace, LogGrows DEF Message
  <2> QED BY <1>0, <2>1 DEF EvolvedOK
<1>10. ASSUME NEW c \in Cells, NEW row \in table.cells[c].rows
       PROVE  row.at[2] < Len(log'[row.at[1]]) /\ Message(row.at)' = Message(row.at)
  <2>1. row.at[1] \in Partitions /\ row.at[2] \in Nat /\ row.at[2] < Len(log[row.at[1]])
    BY RowPlace DEF RowsOK
  <2>2. PICK p, o : p = row.at[1] /\ o = row.at[2]
    OBVIOUS
  <2>3. /\ Len(log[p]) \in Nat /\ Len(log'[p]) \in Nat /\ Len(log[p]) <= Len(log'[p])
        /\ log'[p][o + 1] = log[p][o + 1]
    BY <1>0, <2>1, <2>2, LogGrows
  <2> QED BY <2>1, <2>2, <2>3 DEF Message
<1>11. RowsOK' /\ PromoKept'
  BY <1>0, <1>10 DEF RowsOK, PromoKept
<1> QED BY <1>2, <1>3, <1>4, <1>6, <1>7, <1>8, <1>9, <1>11

(* A step that leaves the log and the rows alone preserves what the        *)
(* invariant says of them.                                                 *)
LEMMA RowsUnchanged ==
    ASSUME ArchiveInv, UNCHANGED log, \A c \in Cells : table'.cells[c].rows = table.cells[c].rows
    PROVE  /\ RowsOK' /\ PromoKept'
           /\ \A at : Message(at)' = Message(at)
           /\ \A at : Archived(at)' <=> Archived(at)
           /\ \A p \in Partitions : Decoded(p)' = Decoded(p)
<1>1. \A at : Message(at)' = Message(at)
  BY DEF Message
<1> QED BY <1>1 DEF ArchiveInv, RowsOK, PromoKept, Archived, Decoded

(* The same when it also leaves the schema and the job alone. *)
LEMMA TableUnchanged ==
    ASSUME ArchiveInv, UNCHANGED <<log, table, job>>
    PROVE  /\ ColumnOK(table)' /\ ColumnOK(job.table)' /\ RowsOK' /\ PromoKept' /\ JobOK'
           /\ \A at : Message(at)' = Message(at)
           /\ \A at : Archived(at)' <=> Archived(at)
           /\ \A p \in Partitions : Decoded(p)' = Decoded(p)
<1>1. ColumnOK(table)' /\ ColumnOK(job.table)' /\ JobOK'
  BY DEF ArchiveInv, ColumnOK, JobOK
<1> QED BY <1>1, RowsUnchanged

(* The container starts. *)
LEMMA StartInv ==
    ASSUME ArchiveInv, Start
    PROVE  ArchiveInv'
<1> USE DEF ArchiveInv, Start
<1>1. TypeOK'
  BY DEF TypeOK, Table
<1>2. OffsetsOK'
  BY DEF OffsetsOK
<1>3. BufferOK' /\ ConsumedOK' /\ AppendedOK' /\ CommittedOK'
  BY TableUnchanged, <1>1 DEF BufferOK, ConsumedOK, AppendedOK, CommittedOK, TypeOK, Decoded
<1>4. EvolvedOK'
  BY DEF EvolvedOK
<1> QED BY <1>1, <1>2, <1>3, <1>4, TableUnchanged

(* One message is consumed. *)
LEMMA IngestInv ==
    ASSUME ArchiveInv, NEW p \in Partitions, Ingest(p)
    PROVE  ArchiveInv'
<1> USE DEF ArchiveInv
<1>at. PICK at : at = <<p, position[p]>>
  OBVIOUS
<1>0. UNCHANGED <<log, committed, dlq, table, pc, view, has_promo, job, faults>> /\ pc = "poll"
  BY DEF Ingest
<1>1. /\ log[p] \in Seq(Event \cup {Poison}) /\ Len(log[p]) \in Nat
      /\ position[p] \in Nat /\ position[p] < Len(log[p]) /\ Len(log[p]) <= MaxLog
  BY BoundAssumption, LenProperties DEF TypeOK, Ingest, OffsetsOK
<1>2. at \in Partitions \X Offsets
  BY <1>at, <1>1, BoundAssumption DEF Offsets
<1>3. position' = [position EXCEPT ![p] = @ + 1]
  BY DEF Ingest
<1>4. position' \in [Partitions -> 0..MaxLog]
  BY <1>1, <1>3, BoundAssumption, SMTT(30) DEF TypeOK
<1>5. OffsetsOK'
  BY <1>0, <1>1, <1>3 DEF OffsetsOK, TypeOK
<1>6. \A q \in Partitions : Decoded(q) \subseteq Nat
  <2> SUFFICES ASSUME NEW q \in Partitions PROVE Decoded(q) \subseteq Nat
    OBVIOUS
  <2> QED BY DecodedEvent
<1>7. ASSUME NEW q \in Partitions, NEW o \in Decoded(q), o < position'[q]
      PROVE  o < position[q] \/ <<q, o>> = at
  <2>1. o \in Nat /\ position[q] \in Nat
    BY <1>6, BoundAssumption DEF TypeOK
  <2>2. position'[q] = IF q = p THEN position[q] + 1 ELSE position[q]
    BY <1>3 DEF TypeOK
  <2> QED BY <1>at, <1>7, <2>1, <2>2
<1>8. AppendedOK' /\ EvolvedOK' /\ CommittedOK'
  BY <1>0, TableUnchanged DEF AppendedOK, EvolvedOK, CommittedOK
<1>9. CASE Message(at) = Poison
  <2>1. envelopes' = envelopes \cup {at} /\ buffer' = buffer
    BY <1>at, <1>9 DEF Ingest
  <2>2. TypeOK'
    BY <1>0, <1>2, <1>4, <2>1 DEF TypeOK
  <2>3. BufferOK'
    BY <1>0, <2>1, TableUnchanged, BufferPlace DEF BufferOK
  <2>4. \A q \in Partitions : position[q] \notin Decoded(q) \/ q # p
    BY <1>at, <1>9, <1>1 DEF Decoded, Message
  <2>5. ConsumedOK'
    <3>1. \A x : Buffered(x)' <=> Buffered(x)
      BY <2>1 DEF Buffered
    <3> QED BY <1>at, <1>0, <1>7, <2>4, <3>1, TableUnchanged DEF ConsumedOK
  <2> QED BY <1>5, <1>8, <2>2, <2>3, <2>5, <1>0, TableUnchanged
<1>10. CASE Message(at) # Poison
  <2>1. buffer' = Append(buffer, at) /\ envelopes' = envelopes
    BY <1>at, <1>10 DEF Ingest
  <2>2. /\ buffer \in Seq(Partitions \X Offsets) /\ buffer' \in Seq(Partitions \X Offsets)
        /\ Len(buffer) \in Nat /\ Len(buffer') = Len(buffer) + 1
        /\ \A i \in 1..Len(buffer) : buffer'[i] = buffer[i]
        /\ buffer'[Len(buffer) + 1] = at
    BY <1>2, <2>1, AppendProperties, LenProperties DEF TypeOK
  <2>3. TypeOK'
    BY <1>0, <1>4, <2>1, <2>2 DEF TypeOK
  <2>4. at[2] \in Decoded(at[1])
    BY <1>at, <1>1, <1>10 DEF Decoded, Message
  <2>5. BufferOK'
    <3> SUFFICES ASSUME NEW i \in 1..Len(buffer') PROVE buffer'[i][2] \in Decoded(buffer'[i][1])
      BY <1>0 DEF BufferOK, Decoded
    <3>1. i \in 1..Len(buffer) \/ i = Len(buffer) + 1
      BY <2>2
    <3>2. CASE i \in 1..Len(buffer)
      BY <1>0, <2>2, <3>2, BufferPlace, TableUnchanged
    <3>3. CASE i = Len(buffer) + 1
      BY <1>0, <2>2, <2>4, <3>3, TableUnchanged
    <3> QED BY <3>1, <3>2, <3>3
  <2>6. ConsumedOK'
    <3>1. \A x : Buffered(x) => Buffered(x)'
      BY <2>2 DEF Buffered
    <3>2. Buffered(at)'
      BY <2>2 DEF Buffered
    <3> QED BY <1>0, <1>7, <3>1, <3>2, TableUnchanged DEF ConsumedOK
  <2> QED BY <1>5, <1>8, <2>3, <2>5, <2>6, <1>0, TableUnchanged
<1> QED BY <1>9, <1>10

(* An envelope leaves for the dead-letter queue. *)
LEMMA DeliverInv ==
    ASSUME ArchiveInv, NEW at, Deliver(at)
    PROVE  ArchiveInv'
<1> USE DEF ArchiveInv, Deliver
<1>1. TypeOK'
  BY DEF TypeOK
<1>2. OffsetsOK' /\ BufferOK' /\ EvolvedOK'
  BY DEF OffsetsOK, BufferOK, EvolvedOK, Decoded, Message
<1>3. ConsumedOK'
  BY DEF ConsumedOK, Decoded, Buffered
<1>4. AppendedOK' /\ CommittedOK'
  BY DEF AppendedOK, CommittedOK, Decoded, Archived
<1> QED BY <1>1, <1>2, <1>3, <1>4, TableUnchanged

(* The schema evolves when the batch needs it. *)
LEMMA FlushInv ==
    ASSUME ArchiveInv, Flush
    PROVE  ArchiveInv'
<1> USE DEF ArchiveInv
<1>0. /\ pc = "poll" /\ pc' = "append"
      /\ UNCHANGED <<log, committed, dlq, position, buffer, envelopes, job, faults>>
  BY DEF Flush
<1>1. /\ table'.cells = table.cells /\ table'.snapshot = table.snapshot
      /\ table.promo => table'.promo
      /\ has_promo' => table'.promo
      /\ TypeOK'
  <2>1. CASE should_evolve(buffer, has_promo)
    <3>1. table' = [table EXCEPT !.promo = TRUE] /\ view' = table.snapshot /\ has_promo' = TRUE
      BY <2>1 DEF Flush
    <3>2. table' \in Table /\ table'.promo = TRUE /\ table'.cells = table.cells
             /\ table'.snapshot = table.snapshot /\ view' \in Nat
      BY <3>1 DEF TypeOK, Table
    <3> QED BY <1>0, <3>1, <3>2 DEF TypeOK
  <2>2. CASE ~should_evolve(buffer, has_promo)
    <3>1. UNCHANGED <<table, view, has_promo>>
      BY <2>2 DEF Flush
    <3> QED BY <1>0, <3>1 DEF TypeOK, EvolvedOK
  <2> QED BY <2>1, <2>2
<1>2. \A i \in 1..Len(buffer) : Message(buffer[i]).payload_version >= 2 => has_promo'
  BY DEF Flush, should_evolve
<1>3. RowsOK' /\ PromoKept' /\ \A at : (Message(at)' = Message(at)) /\ (Archived(at)' <=> Archived(at))
  BY <1>0, <1>1, RowsUnchanged
<1>4. \A p \in Partitions : Decoded(p)' = Decoded(p)
  BY <1>0, <1>1, RowsUnchanged
<1>5. OffsetsOK' /\ AppendedOK' /\ CommittedOK'
  BY <1>0, <1>3, <1>4 DEF OffsetsOK, AppendedOK, CommittedOK
<1>6. BufferOK' /\ ConsumedOK'
  BY <1>0 DEF BufferOK, ConsumedOK, Buffered, Decoded
<1>7. EvolvedOK'
  BY <1>0, <1>1, <1>2, <1>3 DEF EvolvedOK
<1>8. ColumnOK(table)' /\ ColumnOK(job.table)' /\ JobOK'
  BY <1>0, <1>1 DEF ColumnOK, JobOK
<1> QED BY <1>1, <1>3, <1>5, <1>6, <1>7, <1>8

(* A set of rows, one for each index of a batch. *)
LEMMA ToArrow ==
    ASSUME ArchiveInv, pc = "append", NEW c \in Cells
    PROVE  /\ IsFiniteSet(to_arrow(buffer, c, has_promo))
           /\ to_arrow(buffer, c, has_promo) \subseteq Row
           /\ \A row \in to_arrow(buffer, c, has_promo) :
                 /\ row.promo = has_promo
                 /\ row.at[2] < Len(log[row.at[1]])
                 /\ Message(row.at).payload_version >= 2 => has_promo
           /\ \A i \in 1..Len(buffer) : Message(buffer[i]).cell = c =>
                 \E row \in to_arrow(buffer, c, has_promo) : row.at = buffer[i]
<1> USE DEF ArchiveInv
<1> DEFINE I == {i \in 1..Len(buffer) : Message(buffer[i]).cell = c}
           f == [i \in 1..Len(buffer) |->
                    [at |-> buffer[i], append |-> table.snapshot + 1, index |-> i, promo |-> has_promo]]
<1>1. to_arrow(buffer, c, has_promo) = {f[i] : i \in I}
  BY DEF to_arrow
<1>2. Len(buffer) \in Nat /\ table.snapshot \in Nat /\ has_promo \in BOOLEAN
  BY LenProperties DEF TypeOK, Table
<1>3. IsFiniteSet(I)
  <2>1. IsFiniteSet(1..Len(buffer))
    BY <1>2, FS_Interval
  <2>2. I \in SUBSET (1..Len(buffer))
    OBVIOUS
  <2> HIDE DEF I
  <2> QED BY <2>1, <2>2, FS_Subset
<1>4. IsFiniteSet({f[i] : i \in I})
  <2> HIDE DEF f, I
  <2> QED BY <1>3, ImageFinite
<1>5. ASSUME NEW i \in 1..Len(buffer)
      PROVE  /\ f[i] \in Row /\ f[i].promo = has_promo /\ f[i].at = buffer[i]
             /\ f[i].at[2] < Len(log[f[i].at[1]])
             /\ Message(f[i].at).payload_version >= 2 => has_promo
  <2>1. buffer[i] \in Partitions \X Offsets /\ buffer[i][2] < Len(log[buffer[i][1]])
    BY BufferPlace
  <2>2. Message(buffer[i]).payload_version >= 2 => has_promo
    BY DEF EvolvedOK
  <2>3. f[i].promo = has_promo /\ f[i].at = buffer[i]
    OBVIOUS
  <2>4. f[i] \in Row
    BY <1>2, <2>1 DEF Row
  <2> QED BY <2>1, <2>2, <2>3, <2>4
<1>6. I \subseteq 1..Len(buffer) /\ \A i \in 1..Len(buffer) : Message(buffer[i]).cell = c => i \in I
  OBVIOUS
<1> HIDE DEF f, I
<1> QED BY <1>1, <1>4, <1>5, <1>6

(* The batch is appended to the current snapshot. *)
LEMMA AppendInv ==
    ASSUME ArchiveInv, AppendTable
    PROVE  /\ ArchiveInv'
           /\ \A c \in Cells : table.cells[c].rows \subseteq table'.cells[c].rows
<1> USE DEF ArchiveInv
<1>0. /\ pc = "append" /\ pc' = "commit" /\ view' = table.snapshot + 1
      /\ UNCHANGED <<log, committed, dlq, has_promo, position, buffer, envelopes, job, faults>>
  BY DEF AppendTable
<1>1. table \in Table
  BY DEF TypeOK
<1>2. /\ table'.snapshot = table.snapshot + 1
      /\ table'.promo = table.promo
      /\ table'.cells = [c \in Cells |->
             IF to_arrow(buffer, c, has_promo) = {} THEN table.cells[c]
             ELSE [files |-> table.cells[c].files + 1,
                   rows |-> table.cells[c].rows \cup to_arrow(buffer, c, has_promo)]]
      /\ table' = [snapshot |-> table'.snapshot, promo |-> table'.promo, cells |-> table'.cells]
  BY <1>1 DEF AppendTable, Table
<1>3. ASSUME NEW c \in Cells
      PROVE  /\ table'.cells[c] \in [files : Nat, rows : SUBSET Row]
             /\ table'.cells[c].rows = table.cells[c].rows \cup to_arrow(buffer, c, has_promo)
  <2>1. table.cells[c] \in [files : Nat, rows : SUBSET Row]
    BY <1>1 DEF Table
  <2> QED BY <1>0, <1>2, <2>1, ToArrow
<1>4. TypeOK'
  <2>1. table.snapshot \in Nat /\ table.promo \in BOOLEAN
    BY <1>1 DEF Table
  <2>2. table'.cells \in [Cells -> [files : Nat, rows : SUBSET Row]]
    BY <1>2, <1>3
  <2>3. table' \in Table
    BY <1>2, <2>1, <2>2 DEF Table
  <2> QED BY <1>0, <2>1, <2>3 DEF TypeOK
<1>5. OffsetsOK' /\ BufferOK' /\ ConsumedOK'
  BY <1>0 DEF OffsetsOK, BufferOK, ConsumedOK, Decoded, Buffered
<1>6. \A at : Archived(at) => Archived(at)'
  BY <1>3 DEF Archived
<1>7. AppendedOK'
  <2> SUFFICES ASSUME NEW i \in 1..Len(buffer) PROVE Archived(buffer[i])'
    BY <1>0 DEF AppendedOK
  <2>1. Message(buffer[i]).cell \in Cells
    BY BufferPlace DEF Event
  <2> QED BY <1>0, <1>3, <2>1, ToArrow DEF Archived
<1>8. CommittedOK'
  BY <1>0, <1>6 DEF CommittedOK, Decoded
<1>9. ASSUME NEW c \in Cells, NEW row \in table'.cells[c].rows
      PROVE  /\ row.promo => table'.promo
             /\ row.at[2] < Len(log[row.at[1]])
             /\ Message(row.at).payload_version >= 2 => row.promo
  <2>1. CASE row \in table.cells[c].rows
    BY <1>2, <2>1 DEF ColumnOK, RowsOK, PromoKept
  <2>2. CASE row \in to_arrow(buffer, c, has_promo)
    BY <1>0, <1>2, <2>2, ToArrow DEF EvolvedOK
  <2> QED BY <1>3, <1>9, <2>1, <2>2
<1>10. ASSUME NEW c \in Cells PROVE IsFiniteSet(table'.cells[c].rows)
  <2>1. IsFiniteSet(table.cells[c].rows) /\ IsFiniteSet(to_arrow(buffer, c, has_promo))
    BY <1>0, ToArrow DEF RowsOK
  <2>2. IsFiniteSet(table.cells[c].rows \cup to_arrow(buffer, c, has_promo))
    BY <2>1, FS_Union
  <2> QED BY <1>3, <2>2
<1>11. ColumnOK(table)' /\ RowsOK' /\ PromoKept'
  BY <1>0, <1>9, <1>10 DEF ColumnOK, RowsOK, PromoKept, Message
<1>12. ColumnOK(job.table)' /\ EvolvedOK'
  BY <1>0, <1>2 DEF ColumnOK, EvolvedOK
<1>13. JobOK'
  <2>1. job.table.snapshot \in Nat /\ table.snapshot \in Nat
    BY DEF TypeOK, Job, Table
  <2> QED BY <1>0, <1>2, <2>1 DEF JobOK
<1> QED BY <1>3, <1>4, <1>5, <1>7, <1>8, <1>11, <1>12, <1>13

(* The process ends without a commit. *)
LEMMA DownInv ==
    ASSUME ArchiveInv, Down, faults' \in 0..MaxFaults
    PROVE  ArchiveInv'
<1> USE DEF ArchiveInv, Down
<1>1. TypeOK'
  BY DEF TypeOK
<1>2. OffsetsOK'
  BY DEF OffsetsOK
<1>3. BufferOK' /\ ConsumedOK' /\ AppendedOK'
  BY DEF BufferOK, ConsumedOK, AppendedOK
<1>4. CommittedOK' /\ EvolvedOK'
  BY TableUnchanged DEF CommittedOK, EvolvedOK
<1> QED BY <1>1, <1>2, <1>3, <1>4, TableUnchanged

(* The offsets of an appended batch are committed. *)
LEMMA CommitInv ==
    ASSUME ArchiveInv, CommitOffsets
    PROVE  ArchiveInv'
<1> USE DEF ArchiveInv, CommitOffsets
<1>1. TypeOK'
  BY DEF TypeOK
<1>2. OffsetsOK'
  BY DEF OffsetsOK
<1>3. BufferOK' /\ AppendedOK' /\ EvolvedOK'
  BY DEF BufferOK, AppendedOK, EvolvedOK
<1>4. ConsumedOK'
  BY TableUnchanged DEF ConsumedOK
<1>5. CommittedOK'
  <2> SUFFICES ASSUME NEW p \in Partitions, NEW o \in Decoded(p), o < position[p]
               PROVE  Archived(<<p, o>>)
    BY TableUnchanged DEF CommittedOK
  <2>1. CASE o < committed[p]
    BY <2>1 DEF CommittedOK
  <2>2. CASE Buffered(<<p, o>>)
    BY <2>2 DEF Buffered, AppendedOK
  <2> QED BY <2>1, <2>2 DEF ConsumedOK
<1> QED BY <1>1, <1>2, <1>3, <1>4, <1>5, TableUnchanged

(* The consumer is sent back to the committed offsets. *)
LEMMA RebalanceInv ==
    ASSUME ArchiveInv, Rebalance
    PROVE  ArchiveInv'
<1> USE DEF ArchiveInv, Rebalance
<1>1. TypeOK'
  BY BoundAssumption DEF TypeOK
<1>2. OffsetsOK'
  BY DEF OffsetsOK
<1>3. BufferOK' /\ AppendedOK' /\ EvolvedOK'
  BY DEF BufferOK, AppendedOK, EvolvedOK, Decoded
<1>4. ConsumedOK' /\ CommittedOK'
  BY TableUnchanged DEF ConsumedOK, CommittedOK
<1> QED BY <1>1, <1>2, <1>3, <1>4, TableUnchanged

-----------------------------------------------------------------------------
(* The compaction job. *)

(* A step of the job that does not write. *)
LEMMA JobOnly ==
    ASSUME ArchiveInv, UNCHANGED <<log, committed, dlq, table, sink>>, faults' \in 0..MaxFaults,
           job' \in Job, JobOK', ColumnOK(job.table)'
    PROVE  ArchiveInv'
<1> USE DEF ArchiveInv, sink
<1>1. TypeOK'
  BY DEF TypeOK
<1>2. OffsetsOK' /\ BufferOK' /\ ConsumedOK' /\ EvolvedOK'
  BY DEF OffsetsOK, BufferOK, ConsumedOK, EvolvedOK, Decoded, Buffered, Message
<1>3. AppendedOK' /\ CommittedOK' /\ ColumnOK(table)'
  BY DEF AppendedOK, CommittedOK, ColumnOK, Archived, Decoded
<1>4. RowsOK' /\ PromoKept'
  BY RowsUnchanged
<1> QED BY <1>1, <1>2, <1>3, <1>4

(* The job ends. *)
LEMMA JobEnds ==
    ASSUME ArchiveInv, UNCHANGED <<log, committed, dlq, table, sink, faults>>, job' = Idle
    PROVE  ArchiveInv'
<1>1. JobOK' /\ ColumnOK(job.table)'
  BY IdleOK DEF JobOK, ArchiveInv, ColumnOK
<1>2. job' \in Job
  BY IdleType
<1>3. faults' \in 0..MaxFaults
  BY DEF ArchiveInv, TypeOK
<1> QED BY <1>1, <1>2, <1>3, JobOnly

(* The job loads the table and selects partitions. *)
LEMMA ScanInv ==
    ASSUME ArchiveInv, CompactScan
    PROVE  ArchiveInv'
<1> USE DEF ArchiveInv
<1>1. PICK candidates \in SUBSET Cells :
        job' = [state |-> "rewrite", table |-> table, todo |-> candidates, last |-> {},
                before |-> partition_inventory(table)]
  BY DEF CompactScan
<1>2. table \in Table /\ \A c \in Cells : IsFiniteSet(table.cells[c].rows)
  BY DEF TypeOK, RowsOK
<1>3. job' \in Job
  BY <1>1, <1>2, InventoryType DEF Job
<1>4. job'.table = table /\ table' = table /\ job'.state = "rewrite"
  BY <1>1 DEF CompactScan
<1>5. table.snapshot \in Nat
  BY <1>2 DEF Table
<1>6. JobOK'
  BY <1>2, <1>4, <1>5 DEF JobOK
<1>7. ColumnOK(job.table)'
  BY <1>4 DEF ColumnOK
<1>8. faults' \in 0..MaxFaults
  BY BoundAssumption DEF CompactScan, TypeOK
<1> QED BY <1>3, <1>6, <1>7, <1>8, JobOnly DEF CompactScan

(* The job loads the table again. *)
LEMMA VerifyInv ==
    ASSUME ArchiveInv, CompactVerify
    PROVE  ArchiveInv'
<1> USE DEF ArchiveInv
<1>1. UNCHANGED <<log, committed, dlq, table, sink, faults>>
  BY DEF CompactVerify
<1>2. CASE job' = Idle
  BY <1>1, <1>2, JobEnds
<1>3. CASE job' = [job EXCEPT !.state = "rewrite", !.table = table]
  <2>1. job \in Job /\ table \in Table /\ \A c \in Cells : IsFiniteSet(table.cells[c].rows)
    BY DEF TypeOK, RowsOK
  <2>2. job' \in Job /\ job'.table = table
    BY <1>3, <2>1 DEF Job
  <2>3. table.snapshot \in Nat
    BY <2>1 DEF Table
  <2>4. JobOK' /\ ColumnOK(job.table)'
    BY <1>1, <2>1, <2>2, <2>3 DEF JobOK, ColumnOK
  <2>5. faults' \in 0..MaxFaults
    BY <1>1 DEF TypeOK
  <2> QED BY <1>1, <2>2, <2>4, <2>5, JobOnly
<1> QED BY <1>2, <1>3 DEF CompactVerify

(* The job overwrites one partition with the rows it read from it. *)
LEMMA OverwriteInv ==
    ASSUME ArchiveInv, NEW c \in Cells, CompactOverwrite(c)
    PROVE  /\ ArchiveInv'
           /\ \A d \in Cells : table'.cells[d].rows = table.cells[d].rows
<1> USE DEF ArchiveInv
<1> DEFINE read == job.table.cells[c].rows
           frame == {[row EXCEPT !.promo = @ /\ job.table.promo] : row \in read}
<1>0. /\ job.state = "rewrite" /\ job.table.snapshot = table.snapshot
      /\ UNCHANGED <<log, committed, dlq, sink, faults>>
      /\ job' = [job EXCEPT !.state = "verify", !.todo = @ \ {c}, !.last = {c}]
      /\ table' = [table EXCEPT
            !.snapshot = @ + 1,
            !.cells = [d \in Cells |-> IF d = c THEN [files |-> 1, rows |-> frame]
                                       ELSE IF d \in day_filter(c) THEN [files |-> 0, rows |-> {}]
                                       ELSE @[d]]]
  BY DEF CompactOverwrite
<1>1. table \in Table /\ job \in Job /\ job.table \in Table
  BY DEF TypeOK, Job
<1>2. job.table.cells = table.cells
  BY <1>0 DEF JobOK
<1>3. frame = table.cells[c].rows
  <2>1. table.cells[c].rows \subseteq Row
    BY <1>1 DEF Table
  <2>2. ASSUME NEW row \in read PROVE [row EXCEPT !.promo = @ /\ job.table.promo] = row
    <3>1. row \in Row /\ (row.promo => job.table.promo)
      BY <1>2, <2>1 DEF ColumnOK
    <3>2. job.table.promo \in BOOLEAN /\ row.promo \in BOOLEAN
      BY <1>1, <3>1 DEF Table, Row
    <3>3. (row.promo /\ job.table.promo) = row.promo
      BY <3>1, <3>2
    <3> QED BY <3>1, <3>3 DEF Row
  <2>3. frame = {row : row \in read}
    BY <2>2
  <2> QED BY <1>2, <2>3
<1> HIDE DEF frame
<1>4. /\ table'.snapshot = table.snapshot + 1
      /\ table'.promo = table.promo
      /\ table'.cells = [d \in Cells |-> IF d = c THEN [files |-> 1, rows |-> frame] ELSE table.cells[d]]
      /\ table' = [snapshot |-> table'.snapshot, promo |-> table'.promo, cells |-> table'.cells]
  BY <1>0, <1>1 DEF Table, day_filter
<1>5. ASSUME NEW d \in Cells
      PROVE  /\ table'.cells[d].rows = table.cells[d].rows
             /\ table'.cells[d] \in [files : Nat, rows : SUBSET Row]
  <2>1. table.cells[d] \in [files : Nat, rows : SUBSET Row]
    BY <1>1 DEF Table
  <2> QED BY <1>3, <1>4, <2>1
<1>6. table' \in Table
  <2>1. table'.cells \in [Cells -> [files : Nat, rows : SUBSET Row]]
    BY <1>4, <1>5
  <2>2. table.snapshot \in Nat /\ table.promo \in BOOLEAN
    BY <1>1 DEF Table
  <2> QED BY <1>4, <2>1, <2>2 DEF Table
<1>7. job' \in Job /\ job'.table = job.table /\ job'.state = "verify"
  BY <1>0, <1>1 DEF Job
<1>8. TypeOK'
  BY <1>0, <1>6, <1>7 DEF TypeOK, sink
<1>9. OffsetsOK' /\ BufferOK' /\ ConsumedOK'
  BY <1>0 DEF OffsetsOK, BufferOK, ConsumedOK, Decoded, Buffered, sink
<1>10. AppendedOK' /\ CommittedOK' /\ RowsOK' /\ PromoKept'
  BY <1>0, <1>5, RowsUnchanged DEF AppendedOK, CommittedOK, sink
<1>11. ColumnOK(table)' /\ ColumnOK(job.table)'
  BY <1>4, <1>5, <1>7 DEF ColumnOK
<1>12. EvolvedOK'
  BY <1>0, <1>4 DEF EvolvedOK, Message, sink
<1>13. JobOK'
  <2>1. job.table.snapshot \in Nat /\ table.snapshot \in Nat
    BY <1>1 DEF Table
  <2> QED BY <1>4, <1>7, <2>1 DEF JobOK
<1> QED BY <1>5, <1>8, <1>9, <1>10, <1>11, <1>12, <1>13

-----------------------------------------------------------------------------
(* The theorems. *)

(* A step of the archive other than an append keeps every row; an append   *)
(* adds rows while the job stands still.                                   *)
LEMMA StepInv ==
    ASSUME ArchiveInv, [Next]_vars
    PROVE  /\ ArchiveInv'
           /\ \/ \A c \in Cells : table'.cells[c].rows = table.cells[c].rows
              \/ /\ \A c \in Cells : table.cells[c].rows \subseteq table'.cells[c].rows
                 /\ UNCHANGED job
<1>1. CASE UNCHANGED vars
  <2>1. UNCHANGED <<log, committed, dlq, table, sink>> /\ UNCHANGED <<job, faults>>
    BY <1>1 DEF vars
  <2>2. job' \in Job /\ JobOK' /\ ColumnOK(job.table)' /\ faults' \in 0..MaxFaults
    BY <2>1 DEF ArchiveInv, TypeOK, JobOK, ColumnOK
  <2> QED BY <2>1, <2>2, JobOnly
<1>2. ASSUME NEW p \in Partitions, Produce(p)
      PROVE  ArchiveInv' /\ UNCHANGED table
  BY <1>2, ProduceInv DEF Produce
<1>3. CASE Start
  BY <1>3, StartInv DEF Start
<1>4. ASSUME NEW p \in Partitions, Ingest(p)
      PROVE  ArchiveInv' /\ UNCHANGED table
  BY <1>4, IngestInv DEF Ingest
<1>5. CASE Flush
  <2>1. table'.cells = table.cells
    BY <1>5 DEF Flush, ArchiveInv, TypeOK, Table
  <2> QED BY <1>5, <2>1, FlushInv
<1>6. CASE AppendTable
  <2>1. UNCHANGED job
    BY <1>6 DEF AppendTable
  <2> QED BY <1>6, <2>1, AppendInv
<1>7. CASE AppendRefused
  <2>1. faults' \in 0..MaxFaults /\ Down
    BY <1>7 DEF AppendRefused, ArchiveInv, TypeOK
  <2> QED BY <2>1, DownInv DEF Down
<1>8. CASE CommitOffsets
  BY <1>8, CommitInv DEF CommitOffsets
<1>9. ASSUME NEW at, Deliver(at)
      PROVE  ArchiveInv' /\ UNCHANGED table
  BY <1>9, DeliverInv DEF Deliver
<1>10. CASE Rebalance
  BY <1>10, RebalanceInv DEF Rebalance
<1>11. CASE Crash
  <2>1. faults' \in 0..MaxFaults /\ Down
    BY <1>11, BoundAssumption DEF Crash, ArchiveInv, TypeOK
  <2> QED BY <2>1, DownInv DEF Down
<1>12. CASE CompactScan
  BY <1>12, ScanInv DEF CompactScan
<1>13. ASSUME NEW c \in Cells, CompactOverwrite(c)
       PROVE  ArchiveInv' /\ \A d \in Cells : table'.cells[d].rows = table.cells[d].rows
  BY <1>13, OverwriteInv
<1>14. CASE CompactRefused \/ CompactKilled
  BY <1>14, JobEnds DEF CompactRefused, CompactKilled
<1>15. CASE CompactVerify
  BY <1>15, VerifyInv DEF CompactVerify
<1> QED
  BY <1>1, <1>2, <1>3, <1>4, <1>5, <1>6, <1>7, <1>8, <1>9, <1>10, <1>11, <1>12, <1>13, <1>14, <1>15
  DEF Next, SinkStep, CompactStep

(* The archive's inductive invariant holds in every behaviour of the sink  *)
(* and the compaction job (iceberg_sink.py, compact_iceberg.py).           *)
THEOREM ArchiveInvariant == Spec => []ArchiveInv
<1>1. Init => ArchiveInv
  BY InitArchive
<1>2. ArchiveInv /\ [Next]_vars => ArchiveInv'
  BY StepInv
<1> QED BY <1>1, <1>2, PTL DEF Spec

(* Type correctness of the table, the offsets and the fields of the sink   *)
(* and the job, through every replay, rebalance and rewrite.               *)
THEOREM ArchiveTypeOK == Spec => []TypeOK
<1>1. ArchiveInv => TypeOK
  BY DEF ArchiveInv
<1> QED BY <1>1, ArchiveInvariant, PTL

(* Every event behind the committed offsets has a row in the table: the    *)
(* commit that follows the append loses nothing, whatever was replayed,    *)
(* rebalanced or compacted (IcebergSink.flush, compact).                   *)
THEOREM ArchiveNeverLosesData == Spec => []NeverDataLoss
<1>1. ArchiveInv => NeverDataLoss
  <2> SUFFICES ASSUME ArchiveInv, NEW p \in Partitions, NEW o \in Decoded(p), o < committed[p]
               PROVE  Copies(<<p, o>>) > 0
    BY DEF NeverDataLoss
  <2>1. Archived(<<p, o>>)
    BY DEF ArchiveInv, CommittedOK
  <2>2. \A c \in Cells : IsFiniteSet(table.cells[c].rows)
    BY DEF ArchiveInv, RowsOK
  <2> QED BY <2>1, <2>2, ArchivedCopies
<1> QED BY <1>1, ArchiveInvariant, PTL

(* A v2 event is archived with its promo_code, and stays so through the    *)
(* rewrites (should_evolve, to_arrow, compact).                            *)
THEOREM ArchiveKeepsPromo == Spec => []PromoKept
<1>1. ArchiveInv => PromoKept
  BY DEF ArchiveInv
<1> QED BY <1>1, ArchiveInvariant, PTL

(* No step takes a row away, and a step of the compaction job adds none    *)
(* either: it overwrites a partition with the rows that are in it.         *)
THEOREM CompactionPreservesRows == Spec => CompactionKeepsRows
<1>1. ASSUME ArchiveInv, [Next]_vars, NEW at
      PROVE  /\ Copies(at)' >= Copies(at)
             /\ job' # job => Copies(at)' = Copies(at)
  <2>1. /\ \A c \in Cells : IsFiniteSet(table.cells[c].rows)
        /\ \A c \in Cells : IsFiniteSet(table'.cells[c].rows)
    BY <1>1, StepInv DEF ArchiveInv, RowsOK
  <2>2. Copies(at) \in Nat
    BY <2>1, RowsAtFinite, FS_CardinalityType DEF Copies
  <2>3. Copies(at)' = Cardinality(RowsAt(table'.cells, at))
    BY DEF Copies, RowsAt
  <2>4. CASE \A c \in Cells : table'.cells[c].rows = table.cells[c].rows
    <3>1. RowsAt(table'.cells, at) = RowsAt(table.cells, at)
      BY <2>4, SameRows
    <3>2. Copies(at)' = Copies(at)
      BY <2>3, <3>1 DEF Copies
    <3> QED BY <2>2, <3>2
  <2>5. CASE (\A c \in Cells : table.cells[c].rows \subseteq table'.cells[c].rows) /\ UNCHANGED job
    <3>1. Cardinality(RowsAt(table'.cells, at)) >= Cardinality(RowsAt(table.cells, at))
      BY <2>1, <2>5, MoreRows
    <3> QED BY <2>3, <2>5, <3>1 DEF Copies
  <2> QED BY <1>1, <2>4, <2>5, StepInv
<1>2. ArchiveInv /\ [Next]_vars =>
        [\A p \in Partitions : \A o \in Decoded(p) :
            /\ Copies(<<p, o>>)' >= Copies(<<p, o>>)
            /\ job' # job => Copies(<<p, o>>)' = Copies(<<p, o>>)]_vars
  BY <1>1
<1> QED BY <1>2, ArchiveInvariant, PTL DEF Spec, CompactionKeepsRows
=============================================================================
