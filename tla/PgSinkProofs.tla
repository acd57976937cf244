---------------------------- MODULE PgSinkProofs ----------------------------
(***************************************************************************)
(* Theorems about PgSink, for every number of workers, partitions, topics, *)
(* keys and records, and every batch size.                                 *)
(***************************************************************************)
EXTENDS PgSinkInduction, WellFoundedInduction, SequenceTheorems, TLAPS

-----------------------------------------------------------------------------
(* Rows and the records they come from. *)

(* Min is the smallest element when there is one. *)
LEMMA MinIs ==
    ASSUME NEW S \in SUBSET Int, NEW i \in S, \A x \in S : i <= x
    PROVE  Min(S) = i
<1>1. Min(S) \in S /\ \A y \in S : Min(S) <= y
  BY DEF Min
<1>2. i <= Min(S) /\ Min(S) <= i
  BY <1>1
<1>3. i \in Int /\ Min(S) \in Int
  BY <1>1
<1> QED BY <1>2, <1>3

(* A non-empty set of numbers has a smallest element. *)
LEMMA LeastOf ==
    ASSUME NEW S \in SUBSET Nat, S # {}
    PROVE  \E m \in S : \A y \in S : m <= y
<1>1. PICK m \in S : \A y \in S : ~(<<y, m>> \in OpToRel(<, Nat))
  BY NatLessThanWellFounded, WFMin, Zenon
<1>2. \A y \in S : m <= y
  <2> SUFFICES ASSUME NEW y \in S, y < m PROVE FALSE
    OBVIOUS
  <2>1. <<y, m>> \in OpToRel(<, Nat)
    BY DEF OpToRel
  <2> QED BY <1>1, <2>1
<1> QED BY <1>2

LEMMA MinExists ==
    ASSUME NEW S \in SUBSET Nat, S # {}
    PROVE  Min(S) \in S
BY LeastOf, MinIs

(* What is at the offsets of a key. *)
LEMMA KeyRecord ==
    ASSUME NEW s \in Seq(Record \cup {Poison}), NEW k \in Keys, NEW n \in Int, n < Len(s),
           NEW o \in KeyOffsets(s, k, n)
    PROVE  /\ o \in Nat /\ o <= n
           /\ s[o + 1] \in Record
           /\ s[o + 1].key = k
           /\ event_seq(s[o + 1]) \in Nat
<1>1. o \in Nat /\ o <= n /\ s[o + 1] # Poison /\ s[o + 1].key = k
  BY DEF KeyOffsets
<1>2. o + 1 \in 1..Len(s)
  BY <1>1
<1>3. s[o + 1] \in Record \cup {Poison}
  BY <1>2, ElementOfSeq
<1>4. s[o + 1] \in Record
  BY <1>1, <1>3
<1>5. s[o + 1].content \in Contents
  BY <1>4 DEF Record
<1> QED BY <1>1, <1>4, <1>5, SeqAssumption DEF event_seq

(* A row that records leave is a row. *)
LEMMA IsRowType ==
    ASSUME NEW s \in Seq(Record \cup {Poison}), NEW k \in Keys, NEW n \in Int, n < Len(s),
           NEW S \in SUBSET KeyOffsets(s, k, n), NEW row, IsRow(row, k, s, S)
    PROVE  /\ row \in Row \cup {NoRow}
           /\ row = NoRow <=> S = {}
<1>1. CASE S = {}
  BY <1>1 DEF IsRow
<1>2. CASE S # {}
  <2>1. PICK i, u \in S : row = [inserted |-> s[i + 1], updated |-> s[u + 1]]
    BY <1>2 DEF IsRow
  <2>2. s[i + 1] \in Record /\ s[u + 1] \in Record
    BY KeyRecord
  <2>3. row \in Row
    BY <2>1, <2>2 DEF Row
  <2> QED BY <2>3, <1>2, NoRowAssumption
<1> QED BY <1>1, <1>2

(* INSERT ... ON CONFLICT of one more record, or of one that is already    *)
(* behind the row.                                                         *)
LEMMA UpsertRow ==
    ASSUME NEW s \in Seq(Record \cup {Poison}), NEW k \in Keys, NEW n \in Int, n < Len(s),
           NEW S \in SUBSET KeyOffsets(s, k, n), NEW o \in KeyOffsets(s, k, n),
           o \in S \/ \A x \in S : x < o,
           NEW row, IsRow(row, k, s, S)
    PROVE  IsRow(Upsert(row, s[o + 1]), k, s, S \cup {o})
<1> DEFINE T == S \cup {o}
<1>0. \A x \in T : x \in Nat /\ s[x + 1] \in Record /\ s[x + 1].key = k /\ event_seq(s[x + 1]) \in Nat
  BY KeyRecord
<1>1. CASE S = {}
  <2>1. row = NoRow /\ T = {o}
    BY <1>1 DEF IsRow
  <2>2. Upsert(row, s[o + 1]) = [inserted |-> s[o + 1], updated |-> s[o + 1]]
    BY <2>1 DEF Upsert
  <2> QED BY <1>0, <2>1, <2>2 DEF IsRow
<1>2. CASE S # {}
  <2>1. PICK i, u \in S :
           /\ row = [inserted |-> s[i + 1], updated |-> s[u + 1]]
           /\ \A x \in S : i <= x
           /\ IF k \in MergedKeys
              THEN \A x \in S : /\ event_seq(s[x + 1]) <= event_seq(s[u + 1])
                                /\ x < u => event_seq(s[x + 1]) < event_seq(s[u + 1])
              ELSE u = i
    BY <1>2 DEF IsRow
  <2>2. row # NoRow
    BY <1>2, IsRowType
  <2>3. \A x \in T : i <= x
    BY <2>1, <1>0
  <2>4. CASE k \in MergedKeys /\ event_seq(s[o + 1]) > event_seq(s[u + 1])
    <3>1. Upsert(row, s[o + 1]) = [inserted |-> s[i + 1], updated |-> s[o + 1]]
      BY <1>0, <2>1, <2>2, <2>4 DEF Upsert
    <3>2. \A x \in S : event_seq(s[x + 1]) < event_seq(s[o + 1])
      BY <1>0, <2>1, <2>4
    <3>3. \A x \in T : /\ event_seq(s[x + 1]) <= event_seq(s[o + 1])
                       /\ x < o => event_seq(s[x + 1]) < event_seq(s[o + 1])
      BY <3>2, <1>0
    <3> QED BY <2>3, <2>4, <3>1, <3>3 DEF IsRow
  <2>5. CASE ~(k \in MergedKeys /\ event_seq(s[o + 1]) > event_seq(s[u + 1]))
    <3>1. Upsert(row, s[o + 1]) = row
      BY <1>0, <2>1, <2>2, <2>5 DEF Upsert
    <3>2. IF k \in MergedKeys
          THEN \A x \in T : /\ event_seq(s[x + 1]) <= event_seq(s[u + 1])
                            /\ x < u => event_seq(s[x + 1]) < event_seq(s[u + 1])
          ELSE u = i
      BY <1>0, <2>1, <2>5, SMTT(30)
    <3> QED BY <2>1, <2>3, <3>1, <3>2 DEF IsRow
  <2> QED BY <2>4, <2>5
<1> QED BY <1>1, <1>2

(* DO NOTHING: later records leave the row of such a table as it is. *)
LEMMA IgnoredRow ==
    ASSUME NEW s, NEW k \in Keys \ MergedKeys, NEW n \in Int,
           NEW T \in SUBSET KeyOffsets(s, k, n), NEW S \in SUBSET T, S # {},
           \A x \in T \ S : \E y \in S : y <= x,
           NEW row, IsRow(row, k, s, S)
    PROVE  IsRow(row, k, s, T)
<1>1. PICK i \in S : row = [inserted |-> s[i + 1], updated |-> s[i + 1]] /\ \A x \in S : i <= x
  BY DEF IsRow
<1>2. \A x \in T : x \in Int
  BY DEF KeyOffsets
<1>3. \A x \in T : i <= x
  BY <1>1, <1>2
<1> QED BY <1>1, <1>3 DEF IsRow

(* More records never take an insert back, and never make a session poorer. *)
LEMMA RowGrows ==
    ASSUME NEW s \in Seq(Record \cup {Poison}), NEW k \in Keys, NEW n \in Int, n < Len(s),
           NEW T \in SUBSET KeyOffsets(s, k, n), NEW S \in SUBSET T, S # {},
           \A x \in T \ S : \E y \in S : y <= x,
           NEW row, IsRow(row, k, s, S), NEW new, IsRow(new, k, s, T)
    PROVE  /\ new # NoRow
           /\ new.inserted = row.inserted
           /\ event_seq(new.updated) >= event_seq(row.updated)
<1>0. \A x \in T : x \in Nat /\ event_seq(s[x + 1]) \in Nat
  BY KeyRecord
<1>1. PICK i, u \in S :
         /\ row = [inserted |-> s[i + 1], updated |-> s[u + 1]]
         /\ \A x \in S : i <= x
         /\ k \notin MergedKeys => u = i
  BY DEF IsRow
<1>2. PICK j, v \in T :
         /\ new = [inserted |-> s[j + 1], updated |-> s[v + 1]]
         /\ \A x \in T : j <= x
         /\ IF k \in MergedKeys THEN \A x \in T : event_seq(s[x + 1]) <= event_seq(s[v + 1])
            ELSE v = j
  BY DEF IsRow
<1>3. i = j
  <2>1. j <= i
    BY <1>2
  <2>2. PICK y \in S : y <= j
    BY <1>2, <1>0
  <2>3. i <= y /\ i \in Int /\ j \in Int /\ y \in Int
    BY <1>1, <1>0
  <2> QED BY <2>1, <2>2, <2>3
<1>4. new # NoRow
  BY IsRowType
<1>5. new.inserted = row.inserted
  BY <1>1, <1>2, <1>3
<1>6. event_seq(s[v + 1]) >= event_seq(s[u + 1])
  <2>1. CASE k \in MergedKeys
    BY <1>2, <2>1
  <2>2. CASE k \notin MergedKeys
    <3>1. u = v
      BY <1>1, <1>2, <1>3, <2>2
    <3>2. event_seq(s[u + 1]) \in Nat
      BY <1>0
    <3> QED BY <3>1, <3>2
  <2> QED BY <2>1, <2>2
<1>7. new.updated = s[v + 1] /\ row.updated = s[u + 1]
  BY <1>1, <1>2
<1> QED BY <1>4, <1>5, <1>6, <1>7

(* A row that the records up to offset n leave is the one the table should *)
(* show after them.                                                        *)
LEMMA RowIsRowAfter ==
    ASSUME NEW k \in Keys, log[PartitionOf[k]] \in Seq(Record \cup {Poison}),
           NEW n \in Int, n < Len(log[PartitionOf[k]]),
           NEW row, IsRow(row, k, log[PartitionOf[k]], KeyOffsets(log[PartitionOf[k]], k, n))
    PROVE  row = RowAfter(k, n)
<1> DEFINE s == log[PartitionOf[k]]
           S == OffsetsOf(k, n)
           richest == {o \in S : \A x \in S : event_seq(s[x + 1]) <= event_seq(s[o + 1])}
<1>1. S = KeyOffsets(s, k, n)
  BY DEF OffsetsOf, KeyOffsets
<1>0. \A x \in S : x \in Nat /\ event_seq(s[x + 1]) \in Nat
  BY <1>1, KeyRecord
<1>2. RowAfter(k, n) = IF S = {} THEN NoRow
        ELSE [inserted |-> s[Min(S) + 1],
              updated  |-> IF k \in MergedKeys THEN s[Min(richest) + 1] ELSE s[Min(S) + 1]]
  BY DEF RowAfter
<1>3. CASE S = {}
  BY <1>1, <1>2, <1>3 DEF IsRow
<1>4. CASE S # {}
  <2>1. PICK i, u \in S :
           /\ row = [inserted |-> s[i + 1], updated |-> s[u + 1]]
           /\ \A x \in S : i <= x
           /\ IF k \in MergedKeys
              THEN \A x \in S : /\ event_seq(s[x + 1]) <= event_seq(s[u + 1])
                                /\ x < u => event_seq(s[x + 1]) < event_seq(s[u + 1])
              ELSE u = i
    BY <1>1, <1>4 DEF IsRow
  <2>2. Min(S) = i
    BY <1>0, <2>1, MinIs
  <2>3. k \in MergedKeys => Min(richest) = u
    <3> SUFFICES ASSUME k \in MergedKeys PROVE Min(richest) = u
      OBVIOUS
    <3>1. u \in richest
      BY <2>1
    <3>2. \A x \in richest : u <= x
      BY <2>1, <1>0
    <3>3. richest \in SUBSET Int
      BY <1>0
    <3> QED BY <3>1, <3>2, <3>3, MinIs
  <2> HIDE DEF richest, S
  <2> QED BY <1>2, <1>4, <2>1, <2>2, <2>3
<1> QED BY <1>3, <1>4

-----------------------------------------------------------------------------
(* A log that has grown says the same of the offsets it had. *)

(* t is s with more messages at the ends of partitions. *)
Extends(s, t) ==
    \A p \in Partitions :
        /\ Len(s[p]) <= Len(t[p])
        /\ \A i \in 1..Len(s[p]) : t[p][i] = s[p][i]

Logs == [Partitions -> Seq(Record \cup {Poison})]

LEMMA KeyOffsetsStable ==
    ASSUME NEW s \in Logs, NEW t \in Logs, Extends(s, t),
           NEW k \in Keys, NEW n \in Int, n < Len(s[PartitionOf[k]])
    PROVE  KeyOffsets(t[PartitionOf[k]], k, n) = KeyOffsets(s[PartitionOf[k]], k, n)
<1>1. PartitionOf[k] \in Partitions
  BY KeyAssumption
<1>2. \A o \in 0..n : o + 1 \in 1..Len(s[PartitionOf[k]])
  BY <1>1, LenProperties DEF Logs
<1>3. \A o \in 0..n : t[PartitionOf[k]][o + 1] = s[PartitionOf[k]][o + 1]
  BY <1>1, <1>2 DEF Extends
<1> QED BY <1>3 DEF KeyOffsets

LEMMA IsRowStable ==
    ASSUME NEW s \in Logs, NEW t \in Logs, Extends(s, t),
           NEW k \in Keys, NEW n \in Int, n < Len(s[PartitionOf[k]]),
           NEW S \in SUBSET KeyOffsets(s[PartitionOf[k]], k, n),
           NEW row, IsRow(row, k, s[PartitionOf[k]], S)
    PROVE  IsRow(row, k, t[PartitionOf[k]], S)
<1>1. PartitionOf[k] \in Partitions
  BY KeyAssumption
<1>2. \A o \in S : o + 1 \in 1..Len(s[PartitionOf[k]])
  BY <1>1, LenProperties DEF Logs, KeyOffsets
<1>3. \A o \in S : t[PartitionOf[k]][o + 1] = s[PartitionOf[k]][o + 1]
  BY <1>1, <1>2 DEF Extends
<1> QED BY <1>3 DEF IsRow

(* The batch's maximum is a message of the log. *)
InBatch(b, pos, c, s) ==
    /\ PositionOK(b, pos, c)
    /\ \A p \in Partitions : pos[p] <= Len(s[p])

LEMMA MaxInLog ==
    ASSUME NEW s \in Logs, NEW b \in Batch, NEW pos \in [Partitions -> Nat],
           NEW c \in [Partitions -> Nat \cup {NoOffset}], InBatch(b, pos, c, s),
           NEW p \in Partitions
    PROVE  /\ b.max_offsets[p] \in Int
           /\ Len(s[p]) \in Nat
           /\ b.max_offsets[p] < Len(s[p])
<1>1. b.max_offsets[p] \in Nat \cup {NoOffset} /\ Len(s[p]) \in Nat
  BY LenProperties DEF Batch, Logs
<1> QED BY <1>1 DEF InBatch, PositionOK, NoOffset

LEMMA RowsStable ==
    ASSUME NEW s \in Logs, NEW t \in Logs, Extends(s, t), NEW b \in Batch,
           NEW pos \in [Partitions -> Nat], NEW c \in [Partitions -> Nat \cup {NoOffset}],
           InBatch(b, pos, c, s), RowsOK(b, s)
    PROVE  RowsOK(b, t)
<1> SUFFICES ASSUME NEW u \in Range(SinkTopics), NEW i \in 1..Len(b.rows[u])
             PROVE  LET p == b.rows[u][i][1] IN
                    /\ t[p][b.rows[u][i][2] + 1] # Poison
                    /\ \A x \in 0..b.max_offsets[p] :
                          b.rows[u][i][2] < x /\ t[p][x + 1] # Poison => IsPending(b, p, x)
  BY DEF RowsOK
<1> DEFINE p == b.rows[u][i][1]
           o == b.rows[u][i][2]
<1>1. p \in Partitions /\ o \in Nat
  BY ElementOfSeq DEF Batch
<1>2. o <= b.max_offsets[p] /\ s[p][o + 1] # Poison
      /\ \A x \in 0..b.max_offsets[p] : o < x /\ s[p][x + 1] # Poison => IsPending(b, p, x)
  BY DEF RowsOK
<1>3. b.max_offsets[p] \in Int /\ Len(s[p]) \in Nat /\ b.max_offsets[p] < Len(s[p])
  BY <1>1, MaxInLog
<1> HIDE DEF p, o
<1>4. \A x \in 0..b.max_offsets[p] : x + 1 \in 1..Len(s[p])
  BY <1>3
<1>5. \A x \in 0..b.max_offsets[p] : t[p][x + 1] = s[p][x + 1]
  BY <1>1, <1>4 DEF Extends
<1>6. o \in 0..b.max_offsets[p]
  BY <1>1, <1>2, <1>3
<1> QED BY <1>2, <1>5, <1>6 DEF p, o

LEMMA PollStable ==
    ASSUME NEW s \in Logs, NEW t \in Logs, Extends(s, t), NEW b \in Batch,
           NEW pos \in [Partitions -> Nat], NEW c \in [Partitions -> Nat \cup {NoOffset}],
           InBatch(b, pos, c, s), PollOK(b, s, c)
    PROVE  PollOK(b, t, c)
<1>1. \A p \in Partitions : \A o \in 0..b.max_offsets[p] : o + 1 \in 1..Len(s[p])
  BY MaxInLog
<1>2. \A p \in Partitions : \A o \in 0..b.max_offsets[p] : t[p][o + 1] = s[p][o + 1]
  BY <1>1 DEF Extends
<1> QED BY <1>2 DEF PollOK

LEMMA AppliedStable ==
    ASSUME NEW s \in Logs, NEW t \in Logs, Extends(s, t), NEW b \in Batch,
           NEW pos \in [Partitions -> Nat], NEW c \in [Partitions -> Nat \cup {NoOffset}],
           InBatch(b, pos, c, s), NEW k \in Keys
    PROVE  Applied(b, t, k) = Applied(b, s, k)
<1>1. PartitionOf[k] \in Partitions
  BY KeyAssumption
<1>2. KeyOffsets(t[PartitionOf[k]], k, b.max_offsets[PartitionOf[k]])
        = KeyOffsets(s[PartitionOf[k]], k, b.max_offsets[PartitionOf[k]])
  BY <1>1, MaxInLog, KeyOffsetsStable
<1> QED BY <1>2 DEF Applied

(* The offsets behind a locked row are offsets of the log. *)
LEMMA AppliedInLog ==
    ASSUME NEW s \in Logs, NEW b \in Batch, NEW pos \in [Partitions -> Nat],
           NEW c \in [Partitions -> Nat \cup {NoOffset}], InBatch(b, pos, c, s),
           \A p \in Partitions : c[p] < Len(s[p]), NEW k \in Keys
    PROVE  KeyOffsets(s[PartitionOf[k]], k, c[PartitionOf[k]]) \cup Applied(b, s, k)
             \subseteq KeyOffsets(s[PartitionOf[k]], k, Len(s[PartitionOf[k]]) - 1)
<1>1. PartitionOf[k] \in Partitions
  BY KeyAssumption
<1>2. /\ b.max_offsets[PartitionOf[k]] \in Int
      /\ Len(s[PartitionOf[k]]) \in Nat
      /\ b.max_offsets[PartitionOf[k]] < Len(s[PartitionOf[k]])
  BY <1>1, MaxInLog
<1>3. c[PartitionOf[k]] \in Int /\ c[PartitionOf[k]] < Len(s[PartitionOf[k]])
  BY <1>1 DEF NoOffset
<1>4. /\ 0..c[PartitionOf[k]] \subseteq 0..(Len(s[PartitionOf[k]]) - 1)
      /\ 0..b.max_offsets[PartitionOf[k]] \subseteq 0..(Len(s[PartitionOf[k]]) - 1)
  BY <1>2, <1>3
<1> QED BY <1>4 DEF Applied, KeyOffsets

LEMMA ExecuteStable ==
    ASSUME NEW s \in Logs, NEW t \in Logs, Extends(s, t), NEW b \in Batch, NEW g \in Pg,
           NEW pos \in [Partitions -> Nat], NEW c \in [Partitions -> Nat \cup {NoOffset}],
           InBatch(b, pos, c, s), \A p \in Partitions : c[p] < Len(s[p]),
           NEW r, ExecuteOK(b, g, s, c, r)
    PROVE  ExecuteOK(b, g, t, c, r)
<1>1. \A k \in Keys : Applied(b, t, k) = Applied(b, s, k)
  BY AppliedStable
<1>2. ASSUME NEW k \in Keys, g.rows[k] # NoRow
      PROVE  IsRow(g.rows[k], k, t[PartitionOf[k]],
                   KeyOffsets(t[PartitionOf[k]], k, c[PartitionOf[k]]) \cup Applied(b, t, k))
  <2> DEFINE p == PartitionOf[k]
             S == KeyOffsets(s[p], k, c[p]) \cup Applied(b, s, k)
  <2>1. p \in Partitions
    BY KeyAssumption
  <2>2. KeyOffsets(t[p], k, c[p]) = KeyOffsets(s[p], k, c[p])
    BY <2>1, KeyOffsetsStable DEF NoOffset
  <2>3. IsRow(g.rows[k], k, s[p], S)
    BY <1>2 DEF ExecuteOK
  <2>4. S \in SUBSET KeyOffsets(s[p], k, Len(s[p]) - 1)
    BY AppliedInLog
  <2>5. Len(s[p]) - 1 \in Int /\ Len(s[p]) - 1 < Len(s[p])
    BY <2>1, LenProperties DEF Logs
  <2> HIDE DEF S
  <2>6. IsRow(g.rows[k], k, t[p], S)
    BY <2>3, <2>4, <2>5, IsRowStable
  <2> QED BY <2>2, <2>6, <1>1 DEF S
<1> QED BY <1>1, <1>2 DEF ExecuteOK

LEMMA SentStable ==
    ASSUME NEW s \in Logs, NEW t \in Logs, Extends(s, t), NEW g \in Pg,
           NEW c \in [Partitions -> Nat \cup {NoOffset}], NEW r, SentOK(g, s, c, r)
    PROVE  SentOK(g, t, c, r)
<1>1. ASSUME NEW p \in Partitions
      PROVE  /\ Len(s[p]) \in Nat /\ Len(t[p]) \in Nat /\ Len(s[p]) <= Len(t[p])
             /\ g.offsets[p] \in Int
             /\ g.offsets[p] < Len(s[p])
  <2>1. Len(s[p]) \in Nat /\ Len(t[p]) \in Nat /\ Len(s[p]) <= Len(t[p])
    BY LenProperties DEF Logs, Extends
  <2>2. g.offsets[p] \in Nat \cup {NoOffset}
    BY DEF Pg
  <2> QED BY <2>1, <2>2 DEF SentOK, NoOffset
<1>2. ASSUME NEW k \in Keys
      PROVE  /\ PartitionOf[k] \in Partitions
             /\ KeyOffsets(t[PartitionOf[k]], k, g.offsets[PartitionOf[k]])
                  = KeyOffsets(s[PartitionOf[k]], k, g.offsets[PartitionOf[k]])
             /\ g.rows[k] # NoRow =>
                  IsRow(g.rows[k], k, t[PartitionOf[k]],
                        KeyOffsets(s[PartitionOf[k]], k, g.offsets[PartitionOf[k]]))
  <2>1. PartitionOf[k] \in Partitions
    BY KeyAssumption
  <2>2. KeyOffsets(t[PartitionOf[k]], k, g.offsets[PartitionOf[k]])
                  = KeyOffsets(s[PartitionOf[k]], k, g.offsets[PartitionOf[k]])
    BY <1>1, <2>1, KeyOffsetsStable
  <2>3. g.rows[k] # NoRow => IsRow(g.rows[k], k, s[PartitionOf[k]],
                        KeyOffsets(s[PartitionOf[k]], k, g.offsets[PartitionOf[k]]))
    BY DEF SentOK
  <2>4. g.rows[k] # NoRow => IsRow(g.rows[k], k, t[PartitionOf[k]],
                        KeyOffsets(s[PartitionOf[k]], k, g.offsets[PartitionOf[k]]))
    BY <1>1, <2>1, <2>3, IsRowStable
  <2> QED BY <2>1, <2>2, <2>4
<1>3. \A p \in Partitions : g.offsets[p] # NoOffset => c[p] <= g.offsets[p] /\ g.offsets[p] < Len(t[p])
  BY <1>1 DEF SentOK
<1> QED BY <1>2, <1>3 DEF SentOK

LEMMA TablesStable ==
    ASSUME NEW s \in Logs, NEW t \in Logs, Extends(s, t),
           NEW c \in [Partitions -> Nat \cup {NoOffset}], \A p \in Partitions : c[p] < Len(s[p]),
           NEW r, TablesOK(s, c, r)
    PROVE  TablesOK(t, c, r)
<1> SUFFICES ASSUME NEW k \in Keys
             PROVE  IsRow(r[k], k, t[PartitionOf[k]],
                          KeyOffsets(t[PartitionOf[k]], k, c[PartitionOf[k]]))
  BY DEF TablesOK
<1>1. PartitionOf[k] \in Partitions
  BY KeyAssumption
<1>2. c[PartitionOf[k]] \in Int
  BY <1>1 DEF NoOffset
<1>3. IsRow(r[k], k, s[PartitionOf[k]], KeyOffsets(s[PartitionOf[k]], k, c[PartitionOf[k]]))
  BY DEF TablesOK
<1>4. IsRow(r[k], k, t[PartitionOf[k]], KeyOffsets(s[PartitionOf[k]], k, c[PartitionOf[k]]))
  BY <1>1, <1>2, <1>3, IsRowStable
<1> QED BY <1>1, <1>2, <1>4, KeyOffsetsStable

-----------------------------------------------------------------------------
(* What another worker's COMMIT does to a batch and to a transaction. *)

LEMMA PollFrame ==
    ASSUME NEW s, NEW b \in Batch, NEW c \in [Partitions -> Nat \cup {NoOffset}],
           NEW c2 \in [Partitions -> Nat \cup {NoOffset}],
           \A p \in Partitions : c[p] <= c2[p], PollOK(b, s, c)
    PROVE  PollOK(b, s, c2)
<1>1. \A p \in Partitions : c[p] \in Int /\ c2[p] \in Int
  BY DEF NoOffset
<1>2. ASSUME NEW p \in Partitions, NEW o \in 0..b.max_offsets[p], o <= c[p] PROVE o <= c2[p]
  BY <1>1, <1>2
<1> QED BY <1>2 DEF PollOK

LEMMA PositionFrame ==
    ASSUME NEW b \in Batch, NEW pos \in [Partitions -> Nat],
           NEW c \in [Partitions -> Nat \cup {NoOffset}],
           NEW c2 \in [Partitions -> Nat \cup {NoOffset}],
           \A p \in Partitions : c[p] <= c2[p], PositionOK(b, pos, c)
    PROVE  PositionOK(b, pos, c2)
<1>1. \A p \in Partitions : c[p] \in Int /\ c2[p] \in Int
  BY DEF NoOffset
<1> QED BY <1>1 DEF PositionOK

LEMMA CommitFrame ==
    ASSUME NEW g \in Pg, NEW pos \in [Partitions -> Nat],
           NEW c \in [Partitions -> Nat \cup {NoOffset}],
           NEW c2 \in [Partitions -> Nat \cup {NoOffset}],
           \A p \in Partitions : c[p] <= c2[p], CommitOK(g, pos, c)
    PROVE  CommitOK(g, pos, c2)
<1>1. \A p \in Partitions : c[p] \in Int /\ c2[p] \in Int
  BY DEF NoOffset
<1> QED BY <1>1 DEF CommitOK

LEMMA SentFrame ==
    ASSUME NEW s, NEW g \in Pg, NEW c \in [Partitions -> Nat \cup {NoOffset}],
           NEW c2 \in [Partitions -> Nat \cup {NoOffset}],
           \A p \in Partitions : c[p] <= c2[p],
           NEW r, NEW r2, \A k \in Keys : r[k] # NoRow => r2[k] # NoRow,
           \A p \in Partitions : g.offsets[p] # NoOffset => c2[p] = c[p],
           SentOK(g, s, c, r)
    PROVE  SentOK(g, s, c2, r2)
<1>1. \A p \in Partitions : c[p] \in Int /\ c2[p] \in Int
  BY DEF NoOffset
<1>2. \A p \in Partitions : g.offsets[p] # NoOffset => c2[p] <= g.offsets[p] /\ g.offsets[p] < Len(s[p])
  BY DEF SentOK
<1>3. ASSUME NEW k \in Keys, g.rows[k] = NoRow,
             NEW o \in KeyOffsets(s[PartitionOf[k]], k, g.offsets[PartitionOf[k]])
      PROVE  o <= c2[PartitionOf[k]] \/ (k \notin MergedKeys /\ r2[k] # NoRow)
  <2>1. o <= c[PartitionOf[k]] \/ (k \notin MergedKeys /\ r[k] # NoRow)
    BY <1>3 DEF SentOK
  <2>2. PartitionOf[k] \in Partitions /\ o \in Int
    BY KeyAssumption DEF KeyOffsets
  <2> QED BY <2>1, <2>2, <1>1
<1> QED BY <1>2, <1>3 DEF SentOK

(* The records between an old and a new stored offset, seen by a           *)
(* transaction that has locked no row for their key, leave no trace.       *)
NoTrace(s, c, c2, r, k) ==
    \A o \in KeyOffsets(s[PartitionOf[k]], k, c2[PartitionOf[k]]) :
        o <= c[PartitionOf[k]] \/ (k \notin MergedKeys /\ r[k] # NoRow)

LEMMA NoTraceRow ==
    ASSUME NEW s \in Logs, NEW c \in [Partitions -> Nat \cup {NoOffset}],
           NEW c2 \in [Partitions -> Nat \cup {NoOffset}],
           \A p \in Partitions : c[p] <= c2[p] /\ c2[p] < Len(s[p]),
           NEW r, TablesOK(s, c, r), NEW k \in Keys, NoTrace(s, c, c2, r, k),
           NEW A \in SUBSET KeyOffsets(s[PartitionOf[k]], k, Len(s[PartitionOf[k]]) - 1), NEW row,
           IsRow(row, k, s[PartitionOf[k]],
                 KeyOffsets(s[PartitionOf[k]], k, c[PartitionOf[k]]) \cup A)
    PROVE  IsRow(row, k, s[PartitionOf[k]],
                 KeyOffsets(s[PartitionOf[k]], k, c2[PartitionOf[k]]) \cup A)
<1> DEFINE p == PartitionOf[k]
           S == KeyOffsets(s[p], k, c[p])
           T == KeyOffsets(s[p], k, c2[p])
           All == KeyOffsets(s[p], k, Len(s[p]) - 1)
<1>1. p \in Partitions
  BY KeyAssumption
<1>2. /\ c[p] \in Int /\ c2[p] \in Int /\ c[p] <= c2[p]
      /\ Len(s[p]) \in Nat /\ c2[p] < Len(s[p])
  BY <1>1, LenProperties DEF NoOffset, Logs
<1> HIDE DEF p
<1>3. S \subseteq T /\ T \subseteq All
  BY <1>2 DEF KeyOffsets
<1>4. \A x \in T : x \in Int /\ (x <= c[p] => x \in S)
  BY <1>2 DEF KeyOffsets
<1>5. \A x \in S : x \in Int /\ x <= c[p]
  BY <1>2 DEF KeyOffsets
<1>6. CASE T \subseteq S
  <2>1. T = S
    BY <1>3, <1>6
  <2> QED BY <2>1 DEF p
<1>7. CASE ~(T \subseteq S)
  <2>1. k \in Keys \ MergedKeys /\ r[k] # NoRow
    BY <1>4, <1>7 DEF NoTrace, p
  <2>2. S # {}
    BY <2>1 DEF TablesOK, IsRow, p
  <2>3. \A x \in (T \cup A) \ (S \cup A) : \E y \in S \cup A : y <= x
    <3> SUFFICES ASSUME NEW x \in T, x \notin S PROVE \E y \in S : y <= x
      OBVIOUS
    <3>1. PICK y \in S : TRUE
      BY <2>2
    <3>2. x \in Int /\ y \in Int /\ y <= c[p] /\ ~(x <= c[p])
      BY <1>4, <1>5
    <3> QED BY <3>2, <1>2
  <2>4. IsRow(row, k, s[p], S \cup A)
    BY DEF p
  <2>5. T \cup A \in SUBSET KeyOffsets(s[p], k, Len(s[p]) - 1) /\ S \cup A \in SUBSET (T \cup A)
        /\ Len(s[p]) - 1 \in Int /\ S \cup A # {}
    BY <1>2, <1>3, <2>2 DEF p
  <2> HIDE DEF S, T
  <2>6. IsRow(row, k, s[p], T \cup A)
    BY <2>1, <2>3, <2>4, <2>5, IgnoredRow
  <2> QED BY <2>6 DEF p, T
<1> QED BY <1>6, <1>7

LEMMA ExecuteFrame ==
    ASSUME NEW s \in Logs, NEW b \in Batch, NEW g \in Pg, NEW pos \in [Partitions -> Nat],
           NEW c \in [Partitions -> Nat \cup {NoOffset}],
           NEW c2 \in [Partitions -> Nat \cup {NoOffset}],
           InBatch(b, pos, c, s),
           \A p \in Partitions : c[p] < Len(s[p]) /\ c[p] <= c2[p] /\ c2[p] < Len(s[p]),
           NEW r, NEW r2, \A k \in Keys : r[k] # NoRow => r2[k] # NoRow, TablesOK(s, c, r),
           \A p \in Partitions : g.offsets[p] # NoOffset => c2[p] = c[p],
           \A k \in Keys : g.rows[k] # NoRow => NoTrace(s, c, c2, r, k),
           ExecuteOK(b, g, s, c, r)
    PROVE  ExecuteOK(b, g, s, c2, r2)
<1>1. \A p \in Partitions : c[p] \in Int /\ c2[p] \in Int
  BY DEF NoOffset
<1>2. ASSUME NEW k \in Keys, g.rows[k] = NoRow, NEW o \in Applied(b, s, k)
      PROVE  o <= c2[PartitionOf[k]] \/ (k \notin MergedKeys /\ r2[k] # NoRow)
  <2>1. o <= c[PartitionOf[k]] \/ (k \notin MergedKeys /\ r[k] # NoRow)
    BY <1>2 DEF ExecuteOK
  <2>2. PartitionOf[k] \in Partitions /\ o \in Int
    BY KeyAssumption DEF Applied, KeyOffsets
  <2> QED BY <2>1, <2>2, <1>1
<1>3. ASSUME NEW k \in Keys, g.rows[k] # NoRow
      PROVE  /\ b.max_offsets[PartitionOf[k]] # NoOffset
             /\ IsRow(g.rows[k], k, s[PartitionOf[k]],
                      KeyOffsets(s[PartitionOf[k]], k, c2[PartitionOf[k]]) \cup Applied(b, s, k))
  <2>1. Applied(b, s, k) \in SUBSET KeyOffsets(s[PartitionOf[k]], k, Len(s[PartitionOf[k]]) - 1)
    BY AppliedInLog
  <2>2. b.max_offsets[PartitionOf[k]] # NoOffset
        /\ IsRow(g.rows[k], k, s[PartitionOf[k]],
                 KeyOffsets(s[PartitionOf[k]], k, c[PartitionOf[k]]) \cup Applied(b, s, k))
    BY <1>3 DEF ExecuteOK
  <2>3. NoTrace(s, c, c2, r, k)
    BY <1>3
  <2> QED BY <2>1, <2>2, <2>3, NoTraceRow
<1> QED BY <1>2, <1>3 DEF ExecuteOK

(* The tables c and r become c2 and r2, when the server applies g. *)
Commits(s, g, c, r, c2, r2) ==
    /\ s \in Logs /\ g \in Pg
    /\ c \in [Partitions -> Nat \cup {NoOffset}] /\ \A p \in Partitions : c[p] < Len(s[p])
    /\ c2 \in [Partitions -> Nat \cup {NoOffset}]
    /\ TablesOK(s, c, r) /\ SentOK(g, s, c, r)
    /\ \A p \in Partitions : c2[p] = IF g.offsets[p] # NoOffset THEN g.offsets[p] ELSE c[p]
    /\ \A k \in Keys : r2[k] = IF g.rows[k] # NoRow THEN g.rows[k] ELSE r[k]

LEMMA CommitTables ==
    ASSUME NEW s, NEW g, NEW c, NEW c2, NEW r, NEW r2, Commits(s, g, c, r, c2, r2)
    PROVE  /\ \A p \in Partitions : c[p] <= c2[p] /\ c2[p] < Len(s[p])
           /\ \A k \in Keys : g.rows[k] = NoRow => NoTrace(s, c, c2, r, k)
           /\ TablesOK(s, c2, r2)
<1> USE DEF Commits
<1>1. \A p \in Partitions : c[p] <= c2[p] /\ c2[p] < Len(s[p])
  BY DEF SentOK, NoOffset
<1>2. ASSUME NEW k \in Keys, g.rows[k] = NoRow PROVE NoTrace(s, c, c2, r, k)
  <2>1. PartitionOf[k] \in Partitions
    BY KeyAssumption
  <2>2. CASE g.offsets[PartitionOf[k]] = NoOffset
    BY <2>1, <2>2 DEF NoTrace, KeyOffsets, NoOffset
  <2>3. CASE g.offsets[PartitionOf[k]] # NoOffset
    BY <1>2, <2>1, <2>3 DEF NoTrace, SentOK
  <2> QED BY <2>2, <2>3
<1>3. ASSUME NEW k \in Keys
      PROVE  IsRow(r2[k], k, s[PartitionOf[k]],
                   KeyOffsets(s[PartitionOf[k]], k, c2[PartitionOf[k]]))
  <2>1. PartitionOf[k] \in Partitions
    BY KeyAssumption
  <2>2. CASE g.rows[k] # NoRow
    BY <2>1, <2>2 DEF SentOK
  <2>3. CASE g.rows[k] = NoRow
    <3>1. NoTrace(s, c, c2, r, k)
      BY <1>2, <2>3
    <3>2. IsRow(r[k], k, s[PartitionOf[k]],
                KeyOffsets(s[PartitionOf[k]], k, c[PartitionOf[k]]) \cup {})
      BY DEF TablesOK
    <3>3. IsRow(r[k], k, s[PartitionOf[k]],
                KeyOffsets(s[PartitionOf[k]], k, c2[PartitionOf[k]]) \cup {})
      BY <1>1, <3>1, <3>2, NoTraceRow
    <3> QED BY <2>3, <3>3
  <2> QED BY <2>2, <2>3
<1> QED BY <1>1, <1>2, <1>3 DEF TablesOK

-----------------------------------------------------------------------------
(* The worker's own steps. *)

(* An empty batch, read from the stored offsets. *)
LEMMA EmptyBatchOK ==
    ASSUME NEW s, NEW pos \in [Partitions -> Nat],
           NEW c \in [Partitions -> Nat \cup {NoOffset}], \A p \in Partitions : pos[p] <= c[p] + 1
    PROVE  /\ EmptyBatch \in Batch
           /\ PositionOK(EmptyBatch, pos, c)
           /\ RowsOK(EmptyBatch, s)
           /\ PollOK(EmptyBatch, s, c)
<1>1. /\ EmptyBatch.count = 0 /\ EmptyBatch.order = <<>>
      /\ \A t \in Range(SinkTopics) : EmptyBatch.rows[t] = <<>>
      /\ \A p \in Partitions : EmptyBatch.max_offsets[p] = NoOffset
  BY DEF EmptyBatch, NoRows, NoOffsets
<1>2. EmptyBatch \in Batch
  BY BoundAssumption DEF EmptyBatch, NoRows, NoOffsets, Batch
<1> QED BY <1>1, <1>2, SMTT(30) DEF PositionOK, RowsOK, PollOK

LEMMA EmptyPgOK ==
    ASSUME NEW state \in {"none", "open", "commit_sent", "committed"}
    PROVE  /\ EmptyPg(state) \in Pg
           /\ EmptyPg(state).state = state
           /\ \A k \in Keys : EmptyPg(state).rows[k] = NoRow
           /\ \A p \in Partitions : EmptyPg(state).offsets[p] = NoOffset
BY DEF EmptyPg, NoOffsets, Pg

(* What one turn of the loop does to batch b. *)
LEMMA CollectedIs ==
    ASSUME NEW b \in Batch, b.count < BatchMax, NEW p \in Partitions, NEW o \in Nat,
           NEW poison \in BOOLEAN, NEW d, d = Collected(b, p, o, poison)
    PROVE  /\ d \in Batch
           /\ d.max_offsets = [b.max_offsets EXCEPT ![p] = o]
           /\ d.order = IF b.max_offsets[p] = NoOffset THEN Append(b.order, p) ELSE b.order
           /\ \A t \in Range(SinkTopics) :
                 d.rows[t] = IF t = TopicOf[p] /\ ~poison THEN Append(b.rows[t], <<p, o>>)
                             ELSE b.rows[t]
<1> DEFINE rows == [b.rows EXCEPT ![TopicOf[p]] = IF poison THEN @ ELSE Append(@, <<p, o>>)]
           order == IF b.max_offsets[p] = NoOffset THEN Append(b.order, p) ELSE b.order
<1>1. TopicOf[p] \in Range(SinkTopics)
  BY KeyAssumption
<1>2. /\ b.rows \in [Range(SinkTopics) -> Seq(Partitions \X Nat)]
      /\ b.order \in Seq(Partitions)
      /\ b.max_offsets \in [Partitions -> Nat \cup {NoOffset}]
      /\ b.count \in 0..BatchMax
      /\ b = [count |-> b.count, rows |-> b.rows, max_offsets |-> b.max_offsets, order |-> b.order]
  BY DEF Batch
<1>3. d = [count |-> b.count + 1, rows |-> rows,
           max_offsets |-> [b.max_offsets EXCEPT ![p] = o], order |-> order]
  <2>1. d.count = b.count + 1
    BY DEF Collected, Batch
  <2>2. d.rows = rows
    BY DEF Collected, Batch
  <2>3. d.max_offsets = [b.max_offsets EXCEPT ![p] = o]
    BY DEF Collected, Batch
  <2>4. d.order = order
    BY DEF Collected, Batch
  <2>5. d = [count |-> d.count, rows |-> d.rows, max_offsets |-> d.max_offsets, order |-> d.order]
    BY DEF Collected, Batch
  <2> HIDE DEF rows, order
  <2> QED BY <2>1, <2>2, <2>3, <2>4, <2>5
<1>4. rows \in [Range(SinkTopics) -> Seq(Partitions \X Nat)]
  <2>1. Append(b.rows[TopicOf[p]], <<p, o>>) \in Seq(Partitions \X Nat)
    BY <1>1, <1>2, AppendProperties
  <2> QED BY <1>1, <1>2, <2>1
<1>5. order \in Seq(Partitions)
  BY <1>2, AppendProperties
<1>6. b.count + 1 \in 0..BatchMax
  BY <1>2, BoundAssumption
<1>7. [b.max_offsets EXCEPT ![p] = o] \in [Partitions -> Nat \cup {NoOffset}]
  BY <1>2
<1>8. d \in Batch
  <2> HIDE DEF rows, order
  <2> QED BY <1>3, <1>4, <1>5, <1>6, <1>7 DEF Batch
<1>9. \A t \in Range(SinkTopics) :
         rows[t] = IF t = TopicOf[p] /\ ~poison THEN Append(b.rows[t], <<p, o>>) ELSE b.rows[t]
  BY <1>1, <1>2
<1>10. d.max_offsets = [b.max_offsets EXCEPT ![p] = o] /\ d.order = order /\ d.rows = rows
  <2> HIDE DEF rows, order
  <2> QED BY <1>3
<1> QED BY <1>8, <1>9, <1>10

LEMMA ConsumeOK ==
    ASSUME NEW s \in Logs, NEW b \in Batch, b.count < BatchMax, NEW pos \in [Partitions -> Nat],
           NEW c \in [Partitions -> Nat \cup {NoOffset}], InBatch(b, pos, c, s),
           RowsOK(b, s), PollOK(b, s, c), NEW p \in Partitions, pos[p] < Len(s[p])
    PROVE  LET d == Collected(b, p, pos[p], s[p][pos[p] + 1] = Poison) IN
           /\ d \in Batch
           /\ PositionOK(d, [pos EXCEPT ![p] = pos[p] + 1], c)
           /\ RowsOK(d, s)
           /\ PollOK(d, s, c)
<1> DEFINE o == pos[p]
           poison == s[p][o + 1] = Poison
           d == Collected(b, p, o, poison)
<1>1. o \in Nat /\ poison \in BOOLEAN
  OBVIOUS
<1>2. /\ d \in Batch
      /\ d.max_offsets = [b.max_offsets EXCEPT ![p] = o]
      /\ d.order = IF b.max_offsets[p] = NoOffset THEN Append(b.order, p) ELSE b.order
      /\ \A t \in Range(SinkTopics) :
            d.rows[t] = IF t = TopicOf[p] /\ ~poison THEN Append(b.rows[t], <<p, o>>) ELSE b.rows[t]
  <2> HIDE DEF o, poison
  <2> QED BY <1>1, CollectedIs, SMTT(30)
<1>3. /\ \A q \in Partitions : b.max_offsets[q] \in Int /\ b.max_offsets[q] >= NoOffset
      /\ b.max_offsets \in [Partitions -> Nat \cup {NoOffset}]
      /\ b.order \in Seq(Partitions)
      /\ b.rows \in [Range(SinkTopics) -> Seq(Partitions \X Nat)]
  BY DEF Batch, NoOffset
<1>4. /\ b.max_offsets[p] < o
      /\ b.max_offsets[p] # NoOffset => o = b.max_offsets[p] + 1
      /\ b.max_offsets[p] = NoOffset => o <= c[p] + 1
  BY <1>3, <1>1 DEF InBatch, PositionOK, NoOffset
<1>5. \A q \in Partitions : TopicOf[q] \in Range(SinkTopics)
  BY KeyAssumption
<1>a. \A q \in Partitions : d.max_offsets[q] = IF q = p THEN o ELSE b.max_offsets[q]
  BY <1>2, <1>3
<1> HIDE DEF d, poison
(* Lengths and elements of the queues. *)
<1>6. ASSUME NEW t \in Range(SinkTopics)
      PROVE  /\ Len(b.rows[t]) \in Nat
             /\ Len(d.rows[t]) \in Nat
             /\ Len(d.rows[t]) = IF t = TopicOf[p] /\ ~poison THEN Len(b.rows[t]) + 1 ELSE Len(b.rows[t])
             /\ \A i \in 1..Len(b.rows[t]) : d.rows[t][i] = b.rows[t][i] /\ b.rows[t][i] \in Partitions \X Nat
             /\ t = TopicOf[p] /\ ~poison => d.rows[t][Len(b.rows[t]) + 1] = <<p, o>>
  <2>1. b.rows[t] \in Seq(Partitions \X Nat)
    BY <1>3
  <2>2. \A i \in 1..Len(b.rows[t]) : b.rows[t][i] \in Partitions \X Nat
    BY <2>1, ElementOfSeq
  <2>3. Len(b.rows[t]) \in Nat
    BY <2>1
  <2>4. CASE t = TopicOf[p] /\ ~poison
    <3>1. d.rows[t] = Append(b.rows[t], <<p, o>>)
      BY <1>2, <2>4
    <3>2. <<p, o>> \in Partitions \X Nat
      BY <1>1
    <3>3. /\ Len(d.rows[t]) = Len(b.rows[t]) + 1
          /\ \A i \in 1..Len(b.rows[t]) : d.rows[t][i] = b.rows[t][i]
          /\ d.rows[t][Len(b.rows[t]) + 1] = <<p, o>>
      BY <2>1, <3>1, <3>2, AppendProperties, SMTT(30)
    <3>4. Len(d.rows[t]) \in Nat
      BY <2>3, <3>3
    <3> QED BY <2>2, <2>3, <2>4, <3>3, <3>4
  <2>5. CASE ~(t = TopicOf[p] /\ ~poison)
    <3>1. d.rows[t] = b.rows[t]
      BY <1>2, <2>5
    <3> QED BY <2>2, <2>3, <2>5, <3>1
  <2> QED BY <2>4, <2>5
<1>7. \A q \in Partitions : \A x : IsPending(b, q, x) => IsPending(d, q, x)
  <2> SUFFICES ASSUME NEW q \in Partitions, NEW x, NEW i \in 1..Len(b.rows[TopicOf[q]]),
                      b.rows[TopicOf[q]][i] = <<q, x>>
               PROVE  \E j \in 1..Len(d.rows[TopicOf[q]]) : d.rows[TopicOf[q]][j] = <<q, x>>
    BY DEF IsPending
  <2>0. PICK t \in Range(SinkTopics) : t = TopicOf[q]
    BY <1>5
  <2>1. /\ Len(b.rows[t]) \in Nat /\ Len(d.rows[t]) \in Nat /\ Len(b.rows[t]) <= Len(d.rows[t])
        /\ d.rows[t][i] = b.rows[t][i]
    <3>1. PICK m, n : /\ m = Len(b.rows[t]) /\ n = Len(d.rows[t])
                      /\ m \in Nat /\ (n = m \/ n = m + 1)
      BY <1>6
    <3>3. n \in Nat /\ m <= n
      BY <3>1
    <3>2. d.rows[t][i] = b.rows[t][i]
      <4>1. i \in 1..Len(b.rows[t])
        BY <2>0
      <4> QED BY <1>6, <4>1, SMTT(30)
    <3> QED BY <3>1, <3>2, <3>3
  <2>2. i \in 1..Len(d.rows[t])
    BY <2>0, <2>1
  <2> QED BY <2>0, <2>1, <2>2
<1>8. ~poison => IsPending(d, p, o)
  <2>1. ~poison => Len(b.rows[TopicOf[p]]) + 1 \in 1..Len(d.rows[TopicOf[p]])
    BY <1>5, <1>6
  <2> QED BY <2>1, <1>5, <1>6 DEF IsPending
<1>9. PositionOK(d, [pos EXCEPT ![p] = pos[p] + 1], c)
  <2> SUFFICES ASSUME NEW q \in Partitions
               PROVE  LET to == [pos EXCEPT ![p] = pos[p] + 1] IN
                      IF d.max_offsets[q] = NoOffset THEN to[q] <= c[q] + 1
                      ELSE to[q] = d.max_offsets[q] + 1
    BY DEF PositionOK
  <2>1. CASE q = p
    BY <2>1, <1>a, <1>1 DEF NoOffset
  <2>2. CASE q # p
    BY <2>2, <1>a DEF InBatch, PositionOK
  <2> QED BY <2>1, <2>2
<1>10. RowsOK(d, s)
  <2>1. ASSUME NEW t \in Range(SinkTopics), NEW i \in 1..Len(d.rows[t])
        PROVE  /\ TopicOf[d.rows[t][i][1]] = t
               /\ d.rows[t][i][2] <= d.max_offsets[d.rows[t][i][1]]
               /\ s[d.rows[t][i][1]][d.rows[t][i][2] + 1] # Poison
               /\ \A j \in 1..Len(d.rows[t]) :
                     i < j /\ d.rows[t][i][1] = d.rows[t][j][1] => d.rows[t][i][2] < d.rows[t][j][2]
               /\ \A x \in 0..d.max_offsets[d.rows[t][i][1]] :
                     d.rows[t][i][2] < x /\ s[d.rows[t][i][1]][x + 1] # Poison
                         => IsPending(d, d.rows[t][i][1], x)
    <3>1. CASE i \in 1..Len(b.rows[t])
      <4> DEFINE q == b.rows[t][i][1]
                 y == b.rows[t][i][2]
      <4>1. d.rows[t][i] = b.rows[t][i] /\ q \in Partitions /\ y \in Nat
        BY <1>6, <3>1
      <4>2. /\ TopicOf[q] = t
            /\ y <= b.max_offsets[q]
            /\ s[q][y + 1] # Poison
            /\ \A j \in 1..Len(b.rows[t]) : i < j /\ q = b.rows[t][j][1] => y < b.rows[t][j][2]
            /\ \A x \in 0..b.max_offsets[q] : y < x /\ s[q][x + 1] # Poison => IsPending(b, q, x)
        BY <3>1 DEF RowsOK
      <4> HIDE DEF q, y
      <4>3. y <= d.max_offsets[q] /\ (q = p => y < o /\ b.max_offsets[p] # NoOffset)
        <5> HIDE DEF o
        <5>1. CASE q = p
          <6>1. d.max_offsets[q] = o /\ b.max_offsets[p] \in Int /\ y <= b.max_offsets[p]
            BY <5>1, <4>1, <4>2, <1>3, <1>a
          <6> QED BY <6>1, <4>1, <1>1, <1>4 DEF NoOffset
        <5>2. CASE q # p
          BY <5>2, <4>1, <4>2, <1>a
        <5> QED BY <5>1, <5>2
      <4>4. ASSUME NEW j \in 1..Len(d.rows[t]), i < j, q = d.rows[t][j][1]
            PROVE  y < d.rows[t][j][2]
        <5>1. CASE j \in 1..Len(b.rows[t])
          BY <4>2, <4>4, <5>1, <1>6
        <5>2. CASE j \notin 1..Len(b.rows[t])
          <6>1. j = Len(b.rows[t]) + 1 /\ t = TopicOf[p] /\ ~poison
            BY <5>2, <1>6, SMTT(30)
          <6>2. d.rows[t][j] = <<p, o>>
            BY <6>1, <1>6
          <6> QED BY <6>2, <4>3, <4>4
        <5> QED BY <5>1, <5>2
      <4>5. ASSUME NEW x \in 0..d.max_offsets[q], y < x, s[q][x + 1] # Poison
            PROVE  IsPending(d, q, x)
        <5>1. CASE x \in 0..b.max_offsets[q]
          BY <5>1, <4>1, <4>2, <4>5, <1>7
        <5>2. CASE x \notin 0..b.max_offsets[q]
          <6>1. q = p /\ x = o
            BY <5>2, <4>1, <4>3, <1>a, <1>3, <1>4, <1>1
          <6> QED BY <6>1, <4>5, <1>8 DEF poison
        <5> QED BY <5>1, <5>2
      <4> QED BY <4>1, <4>2, <4>3, <4>4, <4>5 DEF q, y
    <3>2. CASE i \notin 1..Len(b.rows[t])
      <4>1. i = Len(b.rows[t]) + 1 /\ t = TopicOf[p] /\ ~poison /\ i = Len(d.rows[t])
        BY <3>2, <1>6, SMTT(30)
      <4>2. d.rows[t][i] = <<p, o>>
        BY <4>1, <1>6
      <4>3. d.max_offsets[p] = o
        BY <1>a
      <4>4. s[p][o + 1] # Poison
        BY <4>1 DEF poison
      <4>5. \A j \in 1..Len(d.rows[t]) : ~(i < j)
        BY <4>1, <1>6
      <4>6. \A x \in 0..o : ~(o < x)
        BY <1>1
      <4> HIDE DEF o
      <4>7. d.rows[t][i][1] = p /\ d.rows[t][i][2] = o
        BY <4>2
      <4>8. o <= o
        BY <1>1
      <4> QED BY <4>1, <4>3, <4>4, <4>5, <4>6, <4>7, <4>8
    <3> QED BY <3>1, <3>2
  <2>2. \A i \in 1..Len(d.order) : d.max_offsets[d.order[i]] # NoOffset
    <3> SUFFICES ASSUME NEW i \in 1..Len(d.order) PROVE d.max_offsets[d.order[i]] # NoOffset
      OBVIOUS
    <3>1. CASE i \in 1..Len(b.order)
      <4>1. d.order[i] = b.order[i] /\ b.order[i] \in Partitions
        BY <3>1, <1>2, <1>3, AppendProperties, ElementOfSeq
      <4>2. b.max_offsets[b.order[i]] # NoOffset
        BY <3>1 DEF RowsOK
      <4> QED BY <4>1, <4>2, <1>a, <1>1 DEF NoOffset
    <3>2. CASE i \notin 1..Len(b.order)
      <4>1. b.max_offsets[p] = NoOffset
        BY <3>2, <1>2
      <4>2. d.order = Append(b.order, p)
        BY <4>1, <1>2
      <4>3. i = Len(b.order) + 1
        BY <3>2, <4>2, <1>3, AppendProperties
      <4>4. d.order[i] = p
        BY <4>2, <4>3, <1>3, AppendProperties
      <4> QED BY <4>4, <1>a, <1>1 DEF NoOffset
    <3> QED BY <3>1, <3>2
  <2> QED BY <2>1, <2>2 DEF RowsOK
<1>11. PollOK(d, s, c)
  <2>1. \A q \in Partitions : q = p \/ q \in Range(b.order) => q \in Range(d.order)
    <3>1. CASE b.max_offsets[p] = NoOffset
      <4>1. d.order = Append(b.order, p)
        BY <3>1, <1>2
      <4>2. /\ Len(b.order) \in Nat
            /\ Len(d.order) = Len(b.order) + 1
            /\ \A i \in 1..Len(b.order) : d.order[i] = b.order[i]
            /\ d.order[Len(b.order) + 1] = p
            /\ DOMAIN d.order = 1..Len(d.order) /\ DOMAIN b.order = 1..Len(b.order)
        BY <4>1, <1>3, AppendProperties, LenProperties
      <4>3. Len(b.order) + 1 \in DOMAIN d.order /\ DOMAIN b.order \subseteq DOMAIN d.order
        BY <4>2
      <4> QED BY <4>2, <4>3 DEF Range
    <3>2. CASE b.max_offsets[p] # NoOffset
      <4>1. d.order = b.order
        BY <3>2, <1>2
      <4> QED BY <3>2, <4>1 DEF PollOK
    <3> QED BY <3>1, <3>2
  <2>2. d.order # <<>>
    <3>1. p \in Range(d.order)
      BY <2>1
    <3> QED BY <3>1 DEF Range
  <2>3. ASSUME NEW q \in Partitions, d.max_offsets[q] # NoOffset,
               NEW x \in 0..d.max_offsets[q], s[q][x + 1] # Poison
        PROVE  x <= c[q] \/ IsPending(d, q, x)
    <3>1. CASE q # p
      BY <3>1, <2>3, <1>a, <1>7 DEF PollOK
    <3>2. CASE q = p
      <4>1. CASE x = o
        BY <4>1, <3>2, <2>3, <1>8 DEF poison
      <4>2. CASE x # o
        <5>1. x \in 0..o
          BY <3>2, <2>3, <1>a
        <5>2. CASE b.max_offsets[p] = NoOffset
          <6>1. c[p] \in Int
            BY DEF NoOffset
          <6> QED BY <4>2, <5>1, <5>2, <6>1, <1>4, <1>1, <3>2
        <5>3. CASE b.max_offsets[p] # NoOffset
          <6>1. x \in 0..b.max_offsets[p]
            BY <4>2, <5>1, <5>3, <1>4, <1>3, <1>1
          <6> QED BY <6>1, <5>3, <3>2, <2>3, <1>7 DEF PollOK
        <5> QED BY <5>2, <5>3
      <4> QED BY <4>1, <4>2
    <3> QED BY <3>1, <3>2
  <2>4. \A q \in Partitions : d.max_offsets[q] # NoOffset => q \in Range(d.order)
    BY <2>1, <1>a DEF PollOK
  <2> QED BY <2>2, <2>3, <2>4 DEF PollOK
<1> QED BY <1>2, <1>9, <1>10, <1>11 DEF d, poison

(* BEGIN: nothing of the batch is executed, and what is not pending is     *)
(* behind the stored offsets.                                              *)
LEMMA BeginOK ==
    ASSUME NEW s \in Logs, NEW b \in Batch, b.count > 0,
           NEW c \in [Partitions -> Nat \cup {NoOffset}], NEW r, PollOK(b, s, c)
    PROVE  ExecuteOK(b, EmptyPg("open"), s, c, r)
<1>1. /\ \A k \in Keys : EmptyPg("open").rows[k] = NoRow
      /\ \A p \in Partitions : EmptyPg("open").offsets[p] = NoOffset
  BY EmptyPgOK
<1>2. ASSUME NEW k \in Keys, NEW o \in Applied(b, s, k) PROVE o <= c[PartitionOf[k]]
  <2> DEFINE p == PartitionOf[k]
  <2>1. p \in Partitions /\ o \in 0..b.max_offsets[p] /\ s[p][o + 1] # Poison /\ ~IsPending(b, p, o)
    BY KeyAssumption DEF Applied, KeyOffsets
  <2>2. b.max_offsets[p] # NoOffset
    BY <2>1 DEF NoOffset
  <2> QED BY <2>1, <2>2 DEF PollOK
<1>3. b.order # <<>> /\ \A p \in Partitions : b.max_offsets[p] # NoOffset => p \in Range(b.order)
  BY DEF PollOK
<1> QED BY <1>1, <1>2, <1>3 DEF ExecuteOK

(* Batch b without the first of the rows of topic t. *)
Executed(b, t) == [b EXCEPT !.rows[t] = Tail(@)]

(* What is left of the batch, when the row of <<p, o>> is executed. *)
LEMMA ExecutedIs ==
    ASSUME NEW s \in Logs, NEW b \in Batch, RowsOK(b, s),
           NEW t \in Range(SinkTopics), b.rows[t] # <<>>,
           NEW p, NEW o, Head(b.rows[t]) = <<p, o>>, NEW d, d = Executed(b, t)
    PROVE  /\ d \in Batch
           /\ d.max_offsets = b.max_offsets /\ d.order = b.order
           /\ p \in Partitions /\ o \in Nat
           /\ TopicOf[p] = t /\ o <= b.max_offsets[p] /\ s[p][o + 1] # Poison
           /\ IsPending(b, p, o)
           /\ \A x \in 0..b.max_offsets[p] :
                 ~IsPending(b, p, x) /\ s[p][x + 1] # Poison => x < o
           /\ \A q \in Partitions : \A x :
                 IsPending(d, q, x) <=> IsPending(b, q, x) /\ <<q, x>> # <<p, o>>
           /\ RowsOK(d, s)
<1>1. /\ b.rows \in [Range(SinkTopics) -> Seq(Partitions \X Nat)]
      /\ b.rows[t] \in Seq(Partitions \X Nat)
  BY DEF Batch
<1>2. /\ Len(b.rows[t]) \in Nat /\ 1 <= Len(b.rows[t])
      /\ b.rows[t][1] = <<p, o>> /\ <<p, o>> \in Partitions \X Nat
      /\ Tail(b.rows[t]) \in Seq(Partitions \X Nat)
      /\ Len(Tail(b.rows[t])) = Len(b.rows[t]) - 1
      /\ \A i \in 1..Len(Tail(b.rows[t])) : Tail(b.rows[t])[i] = b.rows[t][i + 1]
  BY <1>1, HeadTailProperties, EmptySeq, LenProperties
<1>3. d.rows = [b.rows EXCEPT ![t] = Tail(@)]
  BY <1>1 DEF Executed, Batch
<1>4. d.max_offsets = b.max_offsets /\ d.order = b.order /\ d.count = b.count
      /\ d = [count |-> d.count, rows |-> d.rows, max_offsets |-> d.max_offsets, order |-> d.order]
  BY DEF Executed, Batch
<1>5. d.rows \in [Range(SinkTopics) -> Seq(Partitions \X Nat)]
  BY <1>1, <1>2, <1>3
<1>6. d \in Batch
  BY <1>4, <1>5 DEF Batch
<1>7. /\ Len(d.rows[t]) = Len(b.rows[t]) - 1
      /\ \A i \in 1..Len(d.rows[t]) : d.rows[t][i] = b.rows[t][i + 1]
      /\ \A u \in Range(SinkTopics) : u # t => d.rows[u] = b.rows[u]
  BY <1>1, <1>2, <1>3
<1>8. p \in Partitions /\ o \in Nat
  BY <1>2
<1>9. 1 \in 1..Len(b.rows[t]) /\ b.rows[t][1][1] = p /\ b.rows[t][1][2] = o
  BY <1>2
<1>10. /\ TopicOf[p] = t
       /\ o <= b.max_offsets[p]
       /\ s[p][o + 1] # Poison
       /\ \A j \in 1..Len(b.rows[t]) : 1 < j /\ p = b.rows[t][j][1] => o < b.rows[t][j][2]
       /\ \A x \in 0..b.max_offsets[p] : o < x /\ s[p][x + 1] # Poison => IsPending(b, p, x)
  BY <1>9 DEF RowsOK
<1>11. IsPending(b, p, o)
  BY <1>2, <1>9, <1>10 DEF IsPending
<1>12. \A x \in 0..b.max_offsets[p] : ~IsPending(b, p, x) /\ s[p][x + 1] # Poison => x < o
  BY <1>8, <1>10, <1>11
<1>13. \A q \in Partitions : \A x :
          IsPending(d, q, x) <=> IsPending(b, q, x) /\ <<q, x>> # <<p, o>>
  <2> SUFFICES ASSUME NEW q \in Partitions, NEW x
               PROVE  IsPending(d, q, x) <=> IsPending(b, q, x) /\ <<q, x>> # <<p, o>>
    OBVIOUS
  <2>0. TopicOf[q] \in Range(SinkTopics)
    BY KeyAssumption
  <2>1. CASE TopicOf[q] # t
    BY <2>0, <2>1, <1>7, <1>10 DEF IsPending
  <2>2. CASE TopicOf[q] = t
    <3>1. ASSUME NEW i \in 1..Len(d.rows[t]), d.rows[t][i] = <<q, x>>
          PROVE  IsPending(b, q, x) /\ <<q, x>> # <<p, o>>
      <4>1. i + 1 \in 1..Len(b.rows[t]) /\ 1 < i + 1 /\ b.rows[t][i + 1] = <<q, x>>
        <5>1. Len(b.rows[t]) \in Nat /\ Len(d.rows[t]) = Len(b.rows[t]) - 1
          BY <1>2, <1>7
        <5>2. b.rows[t][i + 1] = <<q, x>>
          BY <3>1, <1>7
        <5> QED BY <5>1, <5>2
      <4>2. IsPending(b, q, x)
        BY <4>1, <2>2 DEF IsPending
      <4>3. b.rows[t][i + 1][1] = q /\ b.rows[t][i + 1][2] = x
        BY <4>1
      <4>4. q = p => o < x
        BY <4>1, <4>3, <1>10
      <4> QED BY <4>2, <4>4, <1>8
    <3>2. ASSUME NEW i \in 1..Len(b.rows[t]), b.rows[t][i] = <<q, x>>, <<q, x>> # <<p, o>>
          PROVE  IsPending(d, q, x)
      <4>1. i # 1
        BY <3>2, <1>2
      <4>2. i - 1 \in 1..Len(d.rows[t]) /\ d.rows[t][i - 1] = b.rows[t][(i - 1) + 1] /\ (i - 1) + 1 = i
        <5>1. Len(b.rows[t]) \in Nat /\ Len(d.rows[t]) = Len(b.rows[t]) - 1
          BY <1>2, <1>7
        <5>2. i - 1 \in 1..Len(d.rows[t]) /\ (i - 1) + 1 = i
          BY <4>1, <5>1
        <5> QED BY <5>2, <1>7
      <4>3. d.rows[t][i - 1] = <<q, x>>
        BY <4>2, <3>2
      <4> QED BY <4>2, <4>3, <2>2 DEF IsPending
    <3> QED BY <3>1, <3>2, <2>2 DEF IsPending
  <2> QED BY <2>1, <2>2
<1>14. RowsOK(d, s)
  <2>1. ASSUME NEW u \in Range(SinkTopics), NEW i \in 1..Len(d.rows[u])
        PROVE  /\ TopicOf[d.rows[u][i][1]] = u
               /\ d.rows[u][i][2] <= d.max_offsets[d.rows[u][i][1]]
               /\ s[d.rows[u][i][1]][d.rows[u][i][2] + 1] # Poison
               /\ \A j \in 1..Len(d.rows[u]) :
                     i < j /\ d.rows[u][i][1] = d.rows[u][j][1] => d.rows[u][i][2] < d.rows[u][j][2]
               /\ \A x \in 0..d.max_offsets[d.rows[u][i][1]] :
                     d.rows[u][i][2] < x /\ s[d.rows[u][i][1]][x + 1] # Poison
                         => IsPending(d, d.rows[u][i][1], x)
    <3>1. PICK n \in {0, 1} : /\ n = 1 <=> u = t
                              /\ Len(d.rows[u]) = Len(b.rows[u]) - n
                              /\ \A j \in 1..Len(d.rows[u]) : d.rows[u][j] = b.rows[u][j + n]
      <4>1. CASE u = t
        BY <4>1, <1>7
      <4>2. CASE u # t
        <5>1. d.rows[u] = b.rows[u]
          BY <4>2, <1>7
        <5>2. Len(b.rows[u]) \in Nat
          BY <1>1
        <5>3. \A j \in 1..Len(d.rows[u]) : d.rows[u][j] = b.rows[u][j + 0]
          BY <5>1, <5>2
        <5> QED BY <5>1, <5>2, <5>3, <4>2
      <4> QED BY <4>1, <4>2
    <3>2. Len(b.rows[u]) \in Nat /\ \A j \in 1..Len(d.rows[u]) : j + n \in 1..Len(b.rows[u])
      BY <1>1, <3>1
    <3> DEFINE q == b.rows[u][i + n][1]
               y == b.rows[u][i + n][2]
    <3>3. /\ TopicOf[q] = u
          /\ y <= b.max_offsets[q]
          /\ s[q][y + 1] # Poison
          /\ \A j \in 1..Len(b.rows[u]) : i + n < j /\ q = b.rows[u][j][1] => y < b.rows[u][j][2]
          /\ \A x \in 0..b.max_offsets[q] : y < x /\ s[q][x + 1] # Poison => IsPending(b, q, x)
      BY <3>2 DEF RowsOK
    <3>4. d.rows[u][i][1] = q /\ d.rows[u][i][2] = y
      BY <3>1
    <3>5. q \in Partitions /\ y \in Nat
      <4>1. b.rows[u] \in Seq(Partitions \X Nat) /\ i + n \in 1..Len(b.rows[u])
        BY <1>1, <3>2
      <4>2. b.rows[u][i + n] \in Partitions \X Nat
        BY <4>1, ElementOfSeq
      <4> QED BY <4>2
    <3> HIDE DEF q, y
    <3>6. ASSUME NEW j \in 1..Len(d.rows[u]), i < j, q = d.rows[u][j][1]
          PROVE  y < d.rows[u][j][2]
      <4>1. i + n < j + n /\ d.rows[u][j] = b.rows[u][j + n] /\ j + n \in 1..Len(b.rows[u])
        BY <3>6, <3>1, <3>2
      <4> QED BY <4>1, <3>3, <3>6
    <3>7. ASSUME NEW x \in 0..b.max_offsets[q], y < x, s[q][x + 1] # Poison
          PROVE  IsPending(d, q, x)
      <4>1. IsPending(b, q, x)
        BY <3>3, <3>7
      <4>2. q = p => o < y
        <5> SUFFICES ASSUME q = p PROVE o < y
          OBVIOUS
        <5>1. u = t /\ n = 1
          BY <3>1, <3>3, <1>10
        <5>2. i + n \in 1..Len(b.rows[t]) /\ 1 < i + n /\ b.rows[t][i + n][1] = p
              /\ b.rows[t][i + n][2] = y
          BY <5>1, <3>2 DEF q, y
        <5> QED BY <5>2, <1>10
      <4>3. <<q, x>> # <<p, o>>
        BY <4>2, <3>5, <3>7, <1>8
      <4> QED BY <4>1, <4>3, <3>5, <1>13
    <3> QED BY <3>3, <3>4, <3>6, <3>7, <1>4
  <2>2. \A i \in 1..Len(d.order) : d.max_offsets[d.order[i]] # NoOffset
    BY <1>4 DEF RowsOK
  <2> QED BY <2>1, <2>2 DEF RowsOK
<1> QED BY <1>4, <1>6, <1>8, <1>10, <1>11, <1>12, <1>13, <1>14

(* The transaction g after an upsert of the record m. *)
Upserted(g, r, m) ==
    IF m.key \notin MergedKeys /\ r[m.key] # NoRow THEN g
    ELSE [g EXCEPT !.rows[m.key] = Upsert(IF g.rows[m.key] # NoRow THEN g.rows[m.key]
                                          ELSE r[m.key], m)]

(* A worker in the middle of executemany. *)
Executing(s, b, g, pos, c, r) ==
    /\ s \in Logs /\ \A q \in Partitions : s[q] \in Seq(MessagesOf(q))
    /\ b \in Batch /\ g \in Pg /\ pos \in [Partitions -> Nat]
    /\ c \in [Partitions -> Nat \cup {NoOffset}] /\ \A q \in Partitions : c[q] < Len(s[q])
    /\ InBatch(b, pos, c, s) /\ RowsOK(b, s)
    /\ TablesOK(s, c, r) /\ ExecuteOK(b, g, s, c, r)

LEMMA UpsertOK ==
    ASSUME NEW s, NEW b, NEW g, NEW pos, NEW c, NEW r, Executing(s, b, g, pos, c, r),
           NEW t \in Range(SinkTopics), b.rows[t] # <<>>,
           NEW p, NEW o, Head(b.rows[t]) = <<p, o>>,
           NEW m, m = s[p][o + 1], NEW d, d = Executed(b, t), NEW h, h = Upserted(g, r, m)
    PROVE  /\ m.key \in Keys
           /\ h \in Pg
           /\ h.state = g.state /\ h.offsets = g.offsets
           /\ \A k \in Keys : k # m.key => h.rows[k] = g.rows[k]
           /\ ExecuteOK(d, h, s, c, r)
<1> DEFINE k == m.key
<1>0. /\ s \in Logs /\ \A q \in Partitions : s[q] \in Seq(MessagesOf(q))
      /\ b \in Batch /\ g \in Pg /\ pos \in [Partitions -> Nat]
      /\ c \in [Partitions -> Nat \cup {NoOffset}] /\ \A q \in Partitions : c[q] < Len(s[q])
      /\ InBatch(b, pos, c, s) /\ RowsOK(b, s)
      /\ TablesOK(s, c, r) /\ ExecuteOK(b, g, s, c, r)
  BY DEF Executing
<1> USE <1>0
<1>1. /\ d \in Batch
      /\ d.max_offsets = b.max_offsets /\ d.order = b.order
      /\ p \in Partitions /\ o \in Nat
      /\ TopicOf[p] = t /\ o <= b.max_offsets[p] /\ s[p][o + 1] # Poison
      /\ IsPending(b, p, o)
      /\ \A x \in 0..b.max_offsets[p] : ~IsPending(b, p, x) /\ s[p][x + 1] # Poison => x < o
      /\ \A q \in Partitions : \A x :
            IsPending(d, q, x) <=> IsPending(b, q, x) /\ <<q, x>> # <<p, o>>
      /\ RowsOK(d, s)
  BY ExecutedIs
<1>2. b.max_offsets[p] \in Int /\ Len(s[p]) \in Nat /\ b.max_offsets[p] < Len(s[p])
      /\ c[p] \in Int /\ c[p] < Len(s[p])
  <2>1. b.max_offsets[p] \in Int /\ Len(s[p]) \in Nat /\ b.max_offsets[p] < Len(s[p])
    BY <1>1, MaxInLog
  <2>2. c[p] \in Int /\ c[p] < Len(s[p])
    BY <1>1 DEF NoOffset
  <2> QED BY <2>1, <2>2
<1>3. m \in Record /\ k \in Keys /\ PartitionOf[k] = p
  <2>1. o + 1 \in 1..Len(s[p])
    BY <1>1, <1>2
  <2>2. m \in MessagesOf(p)
    BY <1>1, <2>1, ElementOfSeq
  <2>3. m # Poison
    BY <1>1
  <2> QED BY <2>2, <2>3 DEF MessagesOf, Record
<1>4. o \in 0..b.max_offsets[p] /\ o \in KeyOffsets(s[p], k, b.max_offsets[p])
  BY <1>1, <1>2 DEF KeyOffsets
<1> HIDE DEF k
(* What has been executed. *)
<1>5. ASSUME NEW j \in Keys, j # k PROVE Applied(d, s, j) = Applied(b, s, j)
  <2>1. PartitionOf[j] \in Partitions
    BY KeyAssumption
  <2>2. \A x \in KeyOffsets(s[PartitionOf[j]], j, b.max_offsets[PartitionOf[j]]) :
           <<PartitionOf[j], x>> # <<p, o>>
    BY <1>5 DEF KeyOffsets, k
  <2>3. \A x \in KeyOffsets(s[PartitionOf[j]], j, b.max_offsets[PartitionOf[j]]) :
           IsPending(d, PartitionOf[j], x) <=> IsPending(b, PartitionOf[j], x)
    BY <2>1, <2>2, <1>1
  <2> QED BY <2>3, <1>1 DEF Applied
<1>6. Applied(d, s, k) = Applied(b, s, k) \cup {o}
  <2>1. \A x \in KeyOffsets(s[p], k, b.max_offsets[p]) :
           ~IsPending(d, p, x) <=> ~IsPending(b, p, x) \/ x = o
    BY <1>1
  <2> QED BY <2>1, <1>1, <1>3, <1>4 DEF Applied
<1> DEFINE S == KeyOffsets(s[p], k, c[p]) \cup Applied(b, s, k)
           All == KeyOffsets(s[p], k, Len(s[p]) - 1)
<1>7. S \subseteq All /\ o \in All /\ Len(s[p]) - 1 \in Int /\ Len(s[p]) - 1 < Len(s[p])
  <2>1. S \subseteq All
    BY <1>3, AppliedInLog
  <2>2. o \in All
    BY <1>2, <1>4 DEF KeyOffsets
  <2> QED BY <2>1, <2>2, <1>2
<1>8. \A x \in Applied(b, s, k) : x \in Nat /\ x < o
  BY <1>1, <1>3 DEF Applied, KeyOffsets
<1>9. o \in S \/ \A x \in S : x < o
  <2>1. CASE o <= c[p]
    <3>1. o \in KeyOffsets(s[p], k, c[p])
      BY <2>1, <1>1, <1>2, <1>4 DEF KeyOffsets
    <3> QED BY <3>1
  <2>2. CASE ~(o <= c[p])
    <3>1. \A x \in KeyOffsets(s[p], k, c[p]) : x < o
      BY <2>2, <1>1, <1>2 DEF KeyOffsets
    <3> QED BY <3>1, <1>8
  <2> QED BY <2>1, <2>2
<1> DEFINE ignored == k \notin MergedKeys /\ r[k] # NoRow
           visible == IF g.rows[k] # NoRow THEN g.rows[k] ELSE r[k]
<1>10. s[p] \in Seq(Record \cup {Poison})
  BY <1>1 DEF Logs
<1>11. g.rows[k] # NoRow => IsRow(g.rows[k], k, s[p], S)
  BY <1>3 DEF ExecuteOK
<1>12. CASE ignored
  <2>1. h = g
    BY <1>12 DEF Upserted, k
  <2>2. g.rows[k] = NoRow =>
           \A x \in Applied(d, s, k) : x <= c[p] \/ (k \notin MergedKeys /\ r[k] # NoRow)
    BY <1>12
  <2>3. ASSUME g.rows[k] # NoRow PROVE IsRow(g.rows[k], k, s[p], S \cup {o})
    <3> HIDE DEF S, All
    <3>1. IsRow(g.rows[k], k, s[p], S)
      BY <2>3, <1>11
    <3>2. S # {}
      BY <2>3, <3>1 DEF IsRow
    <3>3. \A x \in S : x \in Int
      BY <1>7 DEF All, KeyOffsets
    <3>4. \A x \in (S \cup {o}) \ S : \E y \in S : y <= x
      BY <3>2, <3>3, <1>9, <1>1
    <3>5. S \cup {o} \in SUBSET KeyOffsets(s[p], k, Len(s[p]) - 1) /\ S \in SUBSET (S \cup {o})
      BY <1>7 DEF All
    <3>6. k \in Keys \ MergedKeys
      BY <1>3, <1>12
    <3> QED BY <3>1, <3>2, <3>4, <3>5, <3>6, <1>7, IgnoredRow
  <2>4. S \cup {o} = KeyOffsets(s[p], k, c[p]) \cup Applied(d, s, k)
    BY <1>6
  <2>5. ASSUME NEW j \in Keys
        PROVE  IF h.rows[j] = NoRow
               THEN \A x \in Applied(d, s, j) : x <= c[PartitionOf[j]] \/ (j \notin MergedKeys /\ r[j] # NoRow)
               ELSE /\ d.max_offsets[PartitionOf[j]] # NoOffset
                    /\ IsRow(h.rows[j], j, s[PartitionOf[j]],
                             KeyOffsets(s[PartitionOf[j]], j, c[PartitionOf[j]]) \cup Applied(d, s, j))
    <3>1. CASE j # k
      <4>1. Applied(d, s, j) = Applied(b, s, j)
        BY <3>1, <1>5
      <4> QED BY <4>1, <2>1, <1>1 DEF ExecuteOK
    <3>2. CASE j = k
      <4>1. g.rows[k] # NoRow => b.max_offsets[p] # NoOffset
        BY <1>3 DEF ExecuteOK
      <4> HIDE DEF S
      <4> QED BY <4>1, <3>2, <2>1, <2>2, <2>3, <2>4, <1>1, <1>3
    <3> QED BY <3>1, <3>2
  <2>6. ASSUME NEW q \in Partitions
        PROVE  /\ h.offsets[q] # NoOffset => /\ d.rows = NoRows
                                             /\ d.max_offsets[q] # NoOffset
                                             /\ h.offsets[q] = OffsetUpsert(c[q], d.max_offsets[q])
               /\ d.max_offsets[q] # NoOffset => h.offsets[q] # NoOffset \/ q \in Range(d.order)
    <3>1. b.rows # NoRows
      BY DEF NoRows
    <3> QED BY <3>1, <2>1, <1>1 DEF ExecuteOK
  <2>7. ExecuteOK(d, h, s, c, r)
    BY <2>5, <2>6, <1>1 DEF ExecuteOK
  <2> QED BY <2>1, <2>7, <1>3 DEF k
<1>13. CASE ~ignored
  <2> DEFINE new == Upsert(visible, m)
  <2>1. h = [g EXCEPT !.rows[k] = new]
    BY <1>13 DEF Upserted, k
  <2>2. /\ h.rows = [g.rows EXCEPT ![k] = new]
        /\ h.state = g.state /\ h.offsets = g.offsets
        /\ h = [state |-> h.state, rows |-> h.rows, offsets |-> h.offsets]
    <3> HIDE DEF new
    <3> QED BY <2>1 DEF Pg
  <2>3. IsRow(visible, k, s[p], S)
    <3>1. CASE g.rows[k] # NoRow
      BY <3>1, <1>11
    <3>2. CASE g.rows[k] = NoRow
      <4>1. \A x \in Applied(b, s, k) : x <= c[p]
        BY <3>2, <1>13, <1>3 DEF ExecuteOK
      <4>2. \A x \in Applied(b, s, k) : x \in KeyOffsets(s[p], k, c[p])
        BY <4>1, <1>2, <1>3 DEF Applied, KeyOffsets
      <4>3. S = KeyOffsets(s[p], k, c[p])
        BY <4>2
      <4>4. IsRow(r[k], k, s[p], KeyOffsets(s[p], k, c[p]))
        BY <1>3 DEF TablesOK
      <4> QED BY <4>3, <4>4, <3>2
    <3> QED BY <3>1, <3>2
  <2> HIDE DEF visible, S
  <2>4. IsRow(new, k, s[p], S \cup {o})
    BY <2>3, <1>3, <1>7, <1>9, <1>10, UpsertRow
  <2>5. new \in Row /\ new # NoRow
    <3>1. S \cup {o} \in SUBSET KeyOffsets(s[p], k, Len(s[p]) - 1)
      BY <1>7
    <3>2. new \in Row \cup {NoRow} /\ (new = NoRow <=> S \cup {o} = {})
      <4> DEFINE T == S \cup {o}
      <4> HIDE DEF new, T
      <4>1. T \in SUBSET KeyOffsets(s[p], k, Len(s[p]) - 1) /\ IsRow(new, k, s[p], T)
        BY <2>4, <3>1 DEF T
      <4>2. new \in Row \cup {NoRow} /\ (new = NoRow <=> T = {})
        BY <4>1, <1>3, <1>7, <1>10, IsRowType, ZenonT(40)
      <4> QED BY <4>2 DEF T
    <3> QED BY <3>2
  <2> HIDE DEF new
  <2>6. h \in Pg
    BY <2>2, <2>5, <1>3 DEF Pg
  <2>7. /\ h.rows[k] = new
        /\ \A j \in Keys : j # k => h.rows[j] = g.rows[j]
    BY <2>2, <1>3 DEF Pg
  <2>8. S \cup {o} = KeyOffsets(s[p], k, c[p]) \cup Applied(d, s, k)
    BY <1>6 DEF S
  <2>9. ASSUME NEW j \in Keys
        PROVE  IF h.rows[j] = NoRow
               THEN \A x \in Applied(d, s, j) : x <= c[PartitionOf[j]] \/ (j \notin MergedKeys /\ r[j] # NoRow)
               ELSE /\ d.max_offsets[PartitionOf[j]] # NoOffset
                    /\ IsRow(h.rows[j], j, s[PartitionOf[j]],
                             KeyOffsets(s[PartitionOf[j]], j, c[PartitionOf[j]]) \cup Applied(d, s, j))
    <3>1. CASE j # k
      <4>1. Applied(d, s, j) = Applied(b, s, j)
        BY <3>1, <1>5
      <4> QED BY <4>1, <3>1, <2>7, <1>1 DEF ExecuteOK
    <3>2. CASE j = k
      <4>1. d.max_offsets[p] # NoOffset
        BY <1>1, <1>2 DEF NoOffset
      <4> QED BY <4>1, <3>2, <2>4, <2>5, <2>7, <2>8, <1>3
    <3> QED BY <3>1, <3>2
  <2>10. ASSUME NEW q \in Partitions
        PROVE  /\ h.offsets[q] # NoOffset => /\ d.rows = NoRows
                                             /\ d.max_offsets[q] # NoOffset
                                             /\ h.offsets[q] = OffsetUpsert(c[q], d.max_offsets[q])
               /\ d.max_offsets[q] # NoOffset => h.offsets[q] # NoOffset \/ q \in Range(d.order)
    <3>1. b.rows # NoRows
      BY DEF NoRows
    <3> QED BY <3>1, <2>2, <1>1 DEF ExecuteOK
  <2>11. ExecuteOK(d, h, s, c, r)
    BY <2>9, <2>10, <1>1 DEF ExecuteOK
  <2> QED BY <2>2, <2>6, <2>7, <2>11, <1>3 DEF k
<1> QED BY <1>12, <1>13

(* The transaction g after the upsert of the offset of p. *)
Moved(g, b, c, p, state) ==
    [g EXCEPT !.state = state, !.offsets[p] = OffsetUpsert(c[p], b.max_offsets[p])]

LEMMA MovedIs ==
    ASSUME NEW b \in Batch, NEW g \in Pg, NEW c \in [Partitions -> Nat \cup {NoOffset}],
           NEW p \in Partitions, b.max_offsets[p] # NoOffset,
           NEW state \in {"open", "commit_sent"}, NEW h, h = Moved(g, b, c, p, state)
    PROVE  /\ h \in Pg
           /\ h.state = state /\ h.rows = g.rows
           /\ h.offsets[p] = OffsetUpsert(c[p], b.max_offsets[p])
           /\ \A q \in Partitions : q # p => h.offsets[q] = g.offsets[q]
           /\ OffsetUpsert(c[p], b.max_offsets[p]) \in Nat
           /\ c[p] <= OffsetUpsert(c[p], b.max_offsets[p])
           /\ b.max_offsets[p] <= OffsetUpsert(c[p], b.max_offsets[p])
<1> DEFINE n == OffsetUpsert(c[p], b.max_offsets[p])
<1>1. c[p] \in Nat \cup {NoOffset} /\ b.max_offsets[p] \in Nat
  BY DEF Batch
<1>2. n \in Nat /\ c[p] <= n /\ b.max_offsets[p] <= n
  BY <1>1 DEF OffsetUpsert, NoOffset
<1> HIDE DEF n
<1>3. h = [g EXCEPT !.state = state, !.offsets[p] = n]
  BY DEF Moved, n
<1>4. /\ h.state = state /\ h.rows = g.rows
      /\ h.offsets = [g.offsets EXCEPT ![p] = n]
      /\ h = [state |-> h.state, rows |-> h.rows, offsets |-> h.offsets]
  BY <1>3 DEF Pg
<1>5. h \in Pg
  BY <1>2, <1>4 DEF Pg
<1>6. h.offsets[p] = n /\ \A q \in Partitions : q # p => h.offsets[q] = g.offsets[q]
  BY <1>4 DEF Pg
<1> QED BY <1>2, <1>4, <1>5, <1>6 DEF n

(* All rows are executed: the transaction has applied every record up to   *)
(* the maximum, and with the committed ones every record up to the larger  *)
(* of the two offsets.                                                     *)
LEMMA AllApplied ==
    ASSUME NEW s, NEW b, b.rows = NoRows, NEW k \in Keys
    PROVE  Applied(b, s, k) = KeyOffsets(s[PartitionOf[k]], k, b.max_offsets[PartitionOf[k]])
<1>1. PartitionOf[k] \in Partitions /\ TopicOf[PartitionOf[k]] \in Range(SinkTopics)
  BY KeyAssumption
<1>2. b.rows[TopicOf[PartitionOf[k]]] = <<>>
  BY <1>1 DEF NoRows
<1>3. \A x : ~IsPending(b, PartitionOf[k], x)
  BY <1>2 DEF IsPending
<1> QED BY <1>3 DEF Applied

LEMMA KeyOffsetsUnion ==
    ASSUME NEW s, NEW k, NEW m \in Int, NEW n \in Int
    PROVE  KeyOffsets(s, k, m) \cup KeyOffsets(s, k, n) = KeyOffsets(s, k, OffsetUpsert(m, n))
BY DEF KeyOffsets, OffsetUpsert

(* Batch b without the first of the offsets. *)
Stored(b) == [b EXCEPT !.order = Tail(@)]

(* OFFSET_UPSERT with more to come. *)
LEMMA OffsetOK ==
    ASSUME NEW s, NEW b, NEW g, NEW pos, NEW c, NEW r, Executing(s, b, g, pos, c, r),
           b.rows = NoRows, Len(b.order) # 1,
           NEW d, d = Stored(b),
           NEW h, h = Moved(g, b, c, Head(b.order), "open")
    PROVE  /\ d \in Batch
           /\ d.max_offsets = b.max_offsets
           /\ RowsOK(d, s)
           /\ ExecuteOK(d, h, s, c, r)
<1> DEFINE p == Head(b.order)
<1>0. /\ b \in Batch /\ g \in Pg /\ c \in [Partitions -> Nat \cup {NoOffset}]
      /\ RowsOK(b, s) /\ ExecuteOK(b, g, s, c, r)
  BY DEF Executing
<1> USE <1>0
<1>1. b.order # <<>> /\ b.order \in Seq(Partitions)
  BY DEF ExecuteOK, Batch
<1>2. /\ Len(b.order) \in Nat /\ Len(b.order) > 1
      /\ p \in Partitions /\ p = b.order[1]
      /\ Tail(b.order) \in Seq(Partitions) /\ Len(Tail(b.order)) = Len(b.order) - 1
      /\ \A i \in 1..Len(Tail(b.order)) : Tail(b.order)[i] = b.order[i + 1]
  <2>1. /\ p \in Partitions
        /\ Tail(b.order) \in Seq(Partitions) /\ Len(Tail(b.order)) = Len(b.order) - 1
        /\ \A i \in 1..Len(Tail(b.order)) : Tail(b.order)[i] = b.order[i + 1]
    BY <1>1, HeadTailProperties
  <2>2. Len(b.order) \in Nat /\ Len(b.order) # 0
    BY <1>1, EmptySeq, LenProperties
  <2>3. p = b.order[1]
    BY <1>1
  <2>4. Len(b.order) > 1
    <3>1. \A n \in Nat : n # 0 /\ n # 1 => n > 1
      OBVIOUS
    <3>2. Len(b.order) # 1
      OBVIOUS
    <3> HIDE DEF p
    <3> QED BY <2>2, <3>1, <3>2, Zenon
  <2> HIDE DEF p
  <2> QED BY <2>1, <2>2, <2>3, <2>4
<1>3. b.max_offsets[p] # NoOffset
  <2>1. 1 \in 1..Len(b.order)
    BY <1>2
  <2> QED BY <2>1, <1>2 DEF RowsOK
<1>4. /\ d.max_offsets = b.max_offsets /\ d.rows = b.rows /\ d.count = b.count
      /\ d.order = Tail(b.order)
      /\ d = [count |-> d.count, rows |-> d.rows, max_offsets |-> d.max_offsets, order |-> d.order]
  BY DEF Stored, Batch
<1>5. d \in Batch
  BY <1>2, <1>4 DEF Batch
<1> HIDE DEF p
<1>6. /\ h.rows = g.rows
      /\ h.offsets[p] = OffsetUpsert(c[p], b.max_offsets[p])
      /\ \A q \in Partitions : q # p => h.offsets[q] = g.offsets[q]
      /\ h.offsets[p] \in Nat
  <2>1. h = Moved(g, b, c, p, "open")
    BY DEF p
  <2> QED BY <1>2, <1>3, <2>1, MovedIs
<1>7. \A k \in Keys : Applied(d, s, k) = Applied(b, s, k)
  BY <1>4 DEF Applied, IsPending
<1>8. \A q \in Partitions : q # p /\ q \in Range(b.order) => q \in Range(d.order)
  <2> SUFFICES ASSUME NEW q \in Partitions, q # p, q \in Range(b.order) PROVE q \in Range(d.order)
    OBVIOUS
  <2>1. DOMAIN b.order = 1..Len(b.order) /\ DOMAIN d.order = 1..Len(d.order)
    BY <1>1, <1>2, <1>4, LenProperties
  <2>2. PICK i \in 1..Len(b.order) : b.order[i] = q
    BY <2>1 DEF Range
  <2>3. i # 1
    BY <2>2, <1>2
  <2>4. i - 1 \in 1..Len(Tail(b.order)) /\ (i - 1) + 1 = i
    BY <2>3, <1>2
  <2>5. Tail(b.order)[i - 1] = q
    BY <2>2, <2>4, <1>2
  <2> QED BY <2>1, <2>4, <2>5, <1>4 DEF Range
<1>9. RowsOK(d, s)
  <2>1. \A i \in 1..Len(d.order) : d.max_offsets[d.order[i]] # NoOffset
    <3> SUFFICES ASSUME NEW i \in 1..Len(Tail(b.order)) PROVE b.max_offsets[Tail(b.order)[i]] # NoOffset
      BY <1>4
    <3>1. i + 1 \in 1..Len(b.order) /\ Tail(b.order)[i] = b.order[i + 1]
      BY <1>2
    <3> QED BY <3>1 DEF RowsOK
  <2>2. \A q, x : IsPending(d, q, x) <=> IsPending(b, q, x)
    BY <1>4 DEF IsPending
  <2> QED BY <2>1, <2>2, <1>4, SMTT(30) DEF RowsOK
<1>10. d.order # <<>>
  <2>1. Len(d.order) > 0
    BY <1>2, <1>4
  <2> QED BY <2>1
<1>11. ASSUME NEW q \in Partitions
       PROVE  /\ h.offsets[q] # NoOffset => /\ d.rows = NoRows
                                            /\ d.max_offsets[q] # NoOffset
                                            /\ h.offsets[q] = OffsetUpsert(c[q], d.max_offsets[q])
              /\ d.max_offsets[q] # NoOffset => h.offsets[q] # NoOffset \/ q \in Range(d.order)
  <2>1. CASE q = p
    BY <2>1, <1>3, <1>4, <1>6 DEF NoOffset
  <2>2. CASE q # p
    BY <2>2, <1>4, <1>6, <1>8 DEF ExecuteOK
  <2> QED BY <2>1, <2>2
<1>12. ASSUME NEW k \in Keys
       PROVE  IF h.rows[k] = NoRow
              THEN \A x \in Applied(d, s, k) : x <= c[PartitionOf[k]] \/ (k \notin MergedKeys /\ r[k] # NoRow)
              ELSE /\ d.max_offsets[PartitionOf[k]] # NoOffset
                   /\ IsRow(h.rows[k], k, s[PartitionOf[k]],
                            KeyOffsets(s[PartitionOf[k]], k, c[PartitionOf[k]]) \cup Applied(d, s, k))
  BY <1>4, <1>6, <1>7 DEF ExecuteOK
<1> QED BY <1>4, <1>5, <1>9, <1>10, <1>11, <1>12 DEF ExecuteOK

(* The last OFFSET_UPSERT: the transaction is complete. *)
LEMMA LastOffsetOK ==
    ASSUME NEW s \in Logs, NEW b \in Batch, NEW g \in Pg, b.rows = NoRows,
           NEW pos \in [Partitions -> Nat], NEW c \in [Partitions -> Nat \cup {NoOffset}],
           InBatch(b, pos, c, s), \A p \in Partitions : c[p] < Len(s[p]),
           NEW r, RowsOK(b, s), ExecuteOK(b, g, s, c, r), Len(b.order) = 1,
           NEW h, h = Moved(g, b, c, Head(b.order), "commit_sent")
    PROVE  /\ SentOK(h, s, c, r)
           /\ CommitOK(h, pos, c)
<1> DEFINE p == Head(b.order)
<1>1. b.order # <<>> /\ b.order \in Seq(Partitions)
  BY DEF ExecuteOK, Batch
<1>2. p \in Partitions /\ p = b.order[1] /\ DOMAIN b.order = 1..1
  BY <1>1, HeadTailProperties, EmptySeq, LenProperties
<1>3. b.max_offsets[p] # NoOffset
  BY <1>2 DEF RowsOK
<1> HIDE DEF p
<1>4. /\ h.rows = g.rows
      /\ h.offsets[p] = OffsetUpsert(c[p], b.max_offsets[p])
      /\ \A q \in Partitions : q # p => h.offsets[q] = g.offsets[q]
      /\ h.offsets[p] \in Nat
  <2>1. h = Moved(g, b, c, p, "commit_sent")
    BY DEF p
  <2>2. /\ h.rows = g.rows
        /\ h.offsets[p] = OffsetUpsert(c[p], b.max_offsets[p])
        /\ \A q \in Partitions : q # p => h.offsets[q] = g.offsets[q]
        /\ OffsetUpsert(c[p], b.max_offsets[p]) \in Nat
    BY <1>2, <1>3, <2>1, MovedIs, SMTT(30)
  <2> QED BY <2>2
<1>5. \A q \in Partitions : q \in Range(b.order) => q = p
  BY <1>2 DEF Range
<1>6. ASSUME NEW q \in Partitions
      PROVE  /\ b.max_offsets[q] \in Nat \cup {NoOffset}
             /\ b.max_offsets[q] < Len(s[q]) /\ Len(s[q]) \in Nat
             /\ c[q] \in Nat \cup {NoOffset} /\ c[q] < Len(s[q])
             /\ b.max_offsets[q] = NoOffset <=> h.offsets[q] = NoOffset
             /\ h.offsets[q] # NoOffset => h.offsets[q] = OffsetUpsert(c[q], b.max_offsets[q])
  <2>1. b.max_offsets[q] < Len(s[q]) /\ Len(s[q]) \in Nat
    BY MaxInLog
  <2>2. b.max_offsets[q] \in Nat \cup {NoOffset}
    BY DEF Batch
  <2>3. CASE q = p
    BY <2>1, <2>2, <2>3, <1>3, <1>4 DEF NoOffset
  <2>4. CASE q # p
    <3>1. g.offsets[q] # NoOffset => /\ b.max_offsets[q] # NoOffset
                                     /\ g.offsets[q] = OffsetUpsert(c[q], b.max_offsets[q])
      BY DEF ExecuteOK
    <3>2. b.max_offsets[q] # NoOffset => g.offsets[q] # NoOffset
      BY <2>4, <1>5 DEF ExecuteOK
    <3> QED BY <2>1, <2>2, <2>4, <3>1, <3>2, <1>4
  <2> QED BY <2>3, <2>4
<1>7. \A q \in Partitions : h.offsets[q] # NoOffset => c[q] <= h.offsets[q] /\ h.offsets[q] < Len(s[q])
  BY <1>6 DEF OffsetUpsert, NoOffset
<1>8. ASSUME NEW k \in Keys
      PROVE  IF h.rows[k] = NoRow
             THEN \A o \in KeyOffsets(s[PartitionOf[k]], k, h.offsets[PartitionOf[k]]) :
                     o <= c[PartitionOf[k]] \/ (k \notin MergedKeys /\ r[k] # NoRow)
             ELSE /\ h.offsets[PartitionOf[k]] # NoOffset
                  /\ IsRow(h.rows[k], k, s[PartitionOf[k]],
                           KeyOffsets(s[PartitionOf[k]], k, h.offsets[PartitionOf[k]]))
  <2> DEFINE q == PartitionOf[k]
  <2>1. q \in Partitions
    BY KeyAssumption
  <2>2. /\ Applied(b, s, k) = KeyOffsets(s[q], k, b.max_offsets[q])
        /\ KeyOffsets(s[q], k, c[q]) \cup Applied(b, s, k)
             = KeyOffsets(s[q], k, OffsetUpsert(c[q], b.max_offsets[q]))
    <3>1. Applied(b, s, k) = KeyOffsets(s[q], k, b.max_offsets[q])
      BY AllApplied
    <3>2. c[q] \in Int /\ b.max_offsets[q] \in Int
      BY <2>1, <1>6 DEF NoOffset
    <3>3. KeyOffsets(s[q], k, c[q]) \cup KeyOffsets(s[q], k, b.max_offsets[q])
            = KeyOffsets(s[q], k, OffsetUpsert(c[q], b.max_offsets[q]))
      BY <3>2, KeyOffsetsUnion
    <3> QED BY <3>1, <3>3
  <2>3. CASE g.rows[k] = NoRow
    <3>1. \A o \in Applied(b, s, k) : o <= c[q] \/ (k \notin MergedKeys /\ r[k] # NoRow)
      BY <2>3 DEF ExecuteOK
    <3>2. \A o \in KeyOffsets(s[q], k, c[q]) : o <= c[q]
      BY <2>1, <1>6 DEF KeyOffsets, NoOffset
    <3>3. CASE h.offsets[q] = NoOffset
      BY <3>3, <2>3, <1>4, SMTT(30) DEF KeyOffsets, NoOffset
    <3>4. CASE h.offsets[q] # NoOffset
      BY <3>1, <3>2, <3>4, <2>1, <2>2, <2>3, <1>4, <1>6
    <3> QED BY <3>3, <3>4
  <2>4. CASE g.rows[k] # NoRow
    <3>1. /\ b.max_offsets[q] # NoOffset
          /\ IsRow(g.rows[k], k, s[q], KeyOffsets(s[q], k, c[q]) \cup Applied(b, s, k))
      BY <2>4 DEF ExecuteOK
    <3>2. h.offsets[q] # NoOffset /\ h.offsets[q] = OffsetUpsert(c[q], b.max_offsets[q])
      BY <3>1, <2>1, <1>6
    <3> QED BY <3>1, <3>2, <2>2, <2>4, <1>4
  <2> QED BY <2>3, <2>4
<1>9. CommitOK(h, pos, c)
  <2> SUFFICES ASSUME NEW q \in Partitions PROVE pos[q] <= c[q] + 1 \/ pos[q] <= h.offsets[q] + 1
    BY DEF CommitOK
  <2>1. CASE b.max_offsets[q] = NoOffset
    BY <2>1 DEF InBatch, PositionOK
  <2>2. CASE b.max_offsets[q] # NoOffset
    <3>1. pos[q] = b.max_offsets[q] + 1
      BY <2>2 DEF InBatch, PositionOK
    <3>2. b.max_offsets[q] <= h.offsets[q] /\ h.offsets[q] \in Int
      BY <2>2, <1>6 DEF OffsetUpsert, NoOffset
    <3> QED BY <2>2, <3>1, <3>2, <1>6
  <2> QED BY <2>1, <2>2
<1> QED BY <1>7, <1>8, <1>9 DEF SentOK

-----------------------------------------------------------------------------
(* Every action keeps the invariant.  A step of worker w alone leaves the  *)
(* log, the tables and the other workers as they are.                      *)
Own(w) ==
    /\ log' = log /\ raw' = raw /\ consumer_offsets' = consumer_offsets
    /\ \A v \in Workers \ {w} : /\ pc'[v] = pc[v] /\ pg'[v] = pg[v]
                                /\ batch'[v] = batch[v] /\ position'[v] = position[v]

(* The rows and offsets that w holds after the step, it held before or     *)
(* nobody else holds.                                                      *)
Locks(w) ==
    /\ \A k \in Keys : pg'[w].rows[k] # NoRow =>
          pg[w].rows[k] # NoRow \/ \A v \in Workers \ {w} : pg[v].rows[k] = NoRow
    /\ \A p \in Partitions : pg'[w].offsets[p] # NoOffset =>
          pg[w].offsets[p] # NoOffset \/ \A v \in Workers \ {w} : pg[v].offsets[p] = NoOffset

LEMMA OwnStep ==
    ASSUME SinkInv, NEW w \in Workers, Own(w), Locks(w), TypeOK', WorkerOK(w)'
    PROVE  SinkInv'
<1>1. TablesOK(log, consumer_offsets, raw)'
  BY DEF SinkInv, Own
<1>2. \A v \in Workers \ {w} : WorkerOK(v)'
  BY DEF SinkInv, Own, WorkerOK
<1>3. ASSUME NEW v \in Workers \ {w} PROVE Disjoint(pg'[v], pg'[w]) /\ Disjoint(pg'[w], pg'[v])
  <2>1. pg'[v] = pg[v]
    BY DEF Own
  <2>2. Disjoint(pg[v], pg[w])
    BY DEF SinkInv
  <2> QED BY <2>1, <2>2 DEF Locks, Disjoint
<1>4. ASSUME NEW u \in Workers, NEW v \in Workers, u # v PROVE Disjoint(pg'[u], pg'[v])
  <2>1. CASE u = w \/ v = w
    BY <1>3, <1>4, <2>1
  <2>2. CASE u # w /\ v # w
    <3>1. pg'[u] = pg[u] /\ pg'[v] = pg[v]
      BY <2>2 DEF Own
    <3> QED BY <1>4, <3>1 DEF SinkInv
  <2> QED BY <2>1, <2>2
<1> QED BY <1>1, <1>2, <1>4 DEF SinkInv

(* Without a change of the log and of the tables, types are a matter of    *)
(* the workers' state.                                                     *)
LEMMA OwnTypes ==
    ASSUME TypeOK, log' = log, raw' = raw, consumer_offsets' = consumer_offsets,
           dlq' \subseteq Places,
           pg' \in [Workers -> Pg],
           pc' \in [Workers -> {"down", "assign", "poll", "execute", "commit", "close"}],
           position' \in [Workers -> [Partitions -> Nat]],
           \A w \in Workers : \A p \in Partitions : position'[w][p] <= Len(log[p]),
           batch' \in [Workers -> Batch],
           envelopes' \in [Workers -> Seq(Places)]
    PROVE  TypeOK'
<1>1. Places' = Places
  BY DEF Places
<1> QED BY <1>1 DEF TypeOK

LEMMA InitInv == Init => SinkInv
<1> SUFFICES ASSUME Init PROVE SinkInv
  OBVIOUS
<1>1. \A p \in Partitions : Len(log[p]) = 0 /\ log[p] = <<>>
  BY DEF Init
<1>2. EmptyBatch \in Batch
  BY BoundAssumption DEF EmptyBatch, NoRows, NoOffsets, Batch
<1>3. EmptyPg("none") \in Pg
  BY EmptyPgOK
<1>4. TypeOK
  <2>1. log \in [Partitions -> Seq(Record \cup {Poison})]
        /\ \A p \in Partitions : log[p] \in Seq(MessagesOf(p))
    BY DEF Init
  <2>2. consumer_offsets \in [Partitions -> Nat \cup {NoOffset}]
        /\ \A p \in Partitions : consumer_offsets[p] < Len(log[p])
    BY <1>1 DEF Init, NoOffsets, NoOffset
  <2>3. position \in [Workers -> [Partitions -> Nat]]
        /\ \A w \in Workers : \A p \in Partitions : position[w][p] <= Len(log[p])
    BY <1>1 DEF Init
  <2>4. envelopes \in [Workers -> Seq(Places)]
    BY DEF Init
  <2>5. /\ dlq \subseteq Places
        /\ raw \in [Keys -> Row \cup {NoRow}]
        /\ pg \in [Workers -> Pg]
        /\ pc \in [Workers -> {"down", "assign", "poll", "execute", "commit", "close"}]
        /\ batch \in [Workers -> Batch]
    BY <1>2, <1>3 DEF Init
  <2> QED BY <2>1, <2>2, <2>3, <2>4, <2>5 DEF TypeOK
<1>5. TablesOK(log, consumer_offsets, raw)
  <2> SUFFICES ASSUME NEW k \in Keys
               PROVE  IsRow(raw[k], k, log[PartitionOf[k]],
                        KeyOffsets(log[PartitionOf[k]], k, consumer_offsets[PartitionOf[k]]))
    BY DEF TablesOK
  <2>1. PartitionOf[k] \in Partitions
    BY KeyAssumption
  <2>2. KeyOffsets(log[PartitionOf[k]], k, consumer_offsets[PartitionOf[k]]) = {}
    BY <2>1 DEF Init, KeyOffsets, NoOffsets, NoOffset
  <2> QED BY <2>2 DEF IsRow, Init
<1>6. \A w \in Workers : /\ pg[w] = EmptyPg("none") /\ pc[w] = "down" /\ batch[w] = EmptyBatch
                         /\ pg[w].state = "none"
                         /\ \A k \in Keys : pg[w].rows[k] = NoRow
                         /\ \A p \in Partitions : pg[w].offsets[p] = NoOffset
  BY EmptyPgOK DEF Init
<1>7. \A v, w \in Workers : Disjoint(pg[v], pg[w])
  BY <1>6 DEF Disjoint
<1>8. \A w \in Workers : WorkerOK(w)
  BY <1>6 DEF WorkerOK, ControlOK
<1> QED BY <1>4, <1>5, <1>7, <1>8 DEF SinkInv

(* A record is appended. *)
LEMMA ProduceInv ==
    ASSUME SinkInv, NEW p \in Partitions, Produce(p)
    PROVE  SinkInv'
<1>1. PICK m \in MessagesOf(p) : log' = [log EXCEPT ![p] = Append(@, m)]
  BY DEF Produce
<1>2. /\ dlq' = dlq /\ raw' = raw /\ consumer_offsets' = consumer_offsets /\ pg' = pg /\ pc' = pc
      /\ position' = position /\ batch' = batch /\ envelopes' = envelopes
  BY DEF Produce, postgres
<1>3. TypeOK
  BY DEF SinkInv
<1>4. log \in Logs /\ \A q \in Partitions : log[q] \in Seq(MessagesOf(q)) /\ Len(log[q]) \in Nat
  BY <1>3, LenProperties DEF TypeOK, Logs
<1>5. m \in Record \cup {Poison}
  BY <1>1 DEF MessagesOf
<1>6. /\ Append(log[p], m) \in Seq(Record \cup {Poison})
      /\ Append(log[p], m) \in Seq(MessagesOf(p))
      /\ Len(Append(log[p], m)) = Len(log[p]) + 1
      /\ \A i \in 1..Len(log[p]) : Append(log[p], m)[i] = log[p][i]
  BY <1>1, <1>4, <1>5, AppendProperties DEF Logs
<1>7. /\ log' \in Logs
      /\ \A q \in Partitions : log'[q] = IF q = p THEN Append(log[p], m) ELSE log[q]
  BY <1>1, <1>4, <1>6 DEF Logs
<1>8. /\ \A q \in Partitions : log'[q] \in Seq(MessagesOf(q))
      /\ \A q \in Partitions : Len(log'[q]) \in Nat /\ Len(log[q]) <= Len(log'[q])
      /\ Extends(log, log')
  <2>1. \A q \in Partitions : log'[q] \in Seq(MessagesOf(q))
    BY <1>4, <1>6, <1>7
  <2>2. \A q \in Partitions : Len(log'[q]) \in Nat /\ Len(log[q]) <= Len(log'[q])
    <3> SUFFICES ASSUME NEW q \in Partitions
                 PROVE  Len(log'[q]) \in Nat /\ Len(log[q]) <= Len(log'[q])
      OBVIOUS
    <3>1. CASE q = p
      <4>1. Len(log'[q]) = Len(log[q]) + 1
        BY <3>1, <1>6, <1>7
      <4> QED BY <4>1, <1>4
    <3>2. CASE q # p
      <4>1. log'[q] = log[q]
        BY <3>2, <1>7
      <4> QED BY <4>1, <1>4
    <3> QED BY <3>1, <3>2
  <2>3. \A q \in Partitions : \A i \in 1..Len(log[q]) : log'[q][i] = log[q][i]
    BY <1>6, <1>7
  <2> QED BY <2>1, <2>2, <2>3 DEF Extends
<1>9. Places \subseteq Places'
  <2> SUFFICES ASSUME NEW at \in Partitions \X Nat, at[2] < Len(log[at[1]])
               PROVE  at[2] < Len(log'[at[1]])
    BY DEF Places
  <2>1. at[1] \in Partitions /\ at[2] \in Nat
    OBVIOUS
  <2> QED BY <2>1, <1>4, <1>8
<1>10. TypeOK'
  <2>1. envelopes \in [Workers -> Seq(Places')]
    <3>1. \A w \in Workers : envelopes[w] \in Seq(Places')
      <4> SUFFICES ASSUME NEW w \in Workers PROVE envelopes[w] \in Seq(Places')
        OBVIOUS
      <4>1. envelopes[w] \in Seq(Places)
        BY <1>3 DEF TypeOK
      <4> QED BY <4>1, <1>9
    <3> QED BY <3>1, <1>3 DEF TypeOK
  <2>2. \A q \in Partitions : consumer_offsets[q] < Len(log'[q])
    <3>1. \A q \in Partitions : consumer_offsets[q] \in Int /\ consumer_offsets[q] < Len(log[q])
      BY <1>3 DEF TypeOK, NoOffset
    <3> QED BY <3>1, <1>4, <1>8
  <2>3. \A w \in Workers : \A q \in Partitions : position[w][q] <= Len(log'[q])
    <3>1. \A w \in Workers : \A q \in Partitions :
             position[w][q] \in Nat /\ position[w][q] <= Len(log[q])
      BY <1>3 DEF TypeOK
    <3> QED BY <3>1, <1>4, <1>8
  <2>4. dlq \subseteq Places'
    BY <1>3, <1>9 DEF TypeOK
  <2> QED BY <2>1, <2>2, <2>3, <2>4, <1>2, <1>3, <1>7, <1>8 DEF TypeOK, Logs
<1>11. /\ consumer_offsets \in [Partitions -> Nat \cup {NoOffset}]
       /\ \A q \in Partitions : consumer_offsets[q] < Len(log[q])
  BY <1>3 DEF TypeOK
<1>12. TablesOK(log', consumer_offsets, raw)
  <2>1. TablesOK(log, consumer_offsets, raw)
    BY DEF SinkInv
  <2> QED BY <2>1, <1>4, <1>7, <1>8, <1>11, TablesStable
<1>13. ASSUME NEW w \in Workers PROVE WorkerOK(w)'
  <2>1. WorkerOK(w)
    BY DEF SinkInv
  <2>2. /\ batch[w] \in Batch /\ pg[w] \in Pg /\ position[w] \in [Partitions -> Nat]
        /\ \A q \in Partitions : position[w][q] <= Len(log[q])
    BY <1>3 DEF TypeOK
  <2>3. pc[w] \in {"poll", "execute"} => InBatch(batch[w], position[w], consumer_offsets, log)
    BY <2>1, <2>2 DEF WorkerOK, InBatch
  <2>4. pc[w] \in {"poll", "execute"} => RowsOK(batch[w], log')
    BY <2>1, <2>2, <2>3, <1>4, <1>7, <1>8, <1>11, RowsStable DEF WorkerOK
  <2>5. pc[w] = "poll" => PollOK(batch[w], log', consumer_offsets)
    BY <2>1, <2>2, <2>3, <1>4, <1>7, <1>8, <1>11, PollStable DEF WorkerOK
  <2>6. pc[w] = "execute" => ExecuteOK(batch[w], pg[w], log', consumer_offsets, raw)
    BY <2>1, <2>2, <2>3, <1>4, <1>7, <1>8, <1>11, ExecuteStable DEF WorkerOK
  <2>7. pg[w].state = "commit_sent" => SentOK(pg[w], log', consumer_offsets, raw)
    BY <2>1, <2>2, <1>4, <1>7, <1>8, <1>11, SentStable DEF WorkerOK
  <2> QED BY <2>1, <2>4, <2>5, <2>6, <2>7, <1>2 DEF WorkerOK
<1>14. \A v, w \in Workers : v # w => Disjoint(pg'[v], pg'[w])
  BY <1>2 DEF SinkInv
<1> QED BY <1>2, <1>10, <1>12, <1>13, <1>14 DEF SinkInv

(* Facts about worker w that every step of it starts from. *)
LEMMA WorkerTypes ==
    ASSUME SinkInv, NEW w \in Workers
    PROVE  /\ TypeOK /\ WorkerOK(w)
           /\ log \in Logs /\ \A p \in Partitions : log[p] \in Seq(MessagesOf(p)) /\ Len(log[p]) \in Nat
           /\ TablesOK(log, consumer_offsets, raw)
           /\ consumer_offsets \in [Partitions -> Nat \cup {NoOffset}]
           /\ \A p \in Partitions : consumer_offsets[p] \in Int /\ consumer_offsets[p] < Len(log[p])
           /\ batch[w] \in Batch /\ pg[w] \in Pg /\ position[w] \in [Partitions -> Nat]
           /\ \A p \in Partitions : position[w][p] \in Nat /\ position[w][p] <= Len(log[p])
           /\ pc[w] \in {"poll", "execute"} =>
                 InBatch(batch[w], position[w], consumer_offsets, log)
<1>1. TypeOK /\ WorkerOK(w) /\ TablesOK(log, consumer_offsets, raw)
  BY DEF SinkInv
<1>2. /\ log \in Logs
      /\ \A p \in Partitions : log[p] \in Seq(MessagesOf(p)) /\ Len(log[p]) \in Nat
  BY <1>1, LenProperties DEF TypeOK, Logs
<1>3. /\ consumer_offsets \in [Partitions -> Nat \cup {NoOffset}]
      /\ \A p \in Partitions : consumer_offsets[p] \in Int /\ consumer_offsets[p] < Len(log[p])
  BY <1>1 DEF TypeOK, NoOffset
<1>4. /\ batch[w] \in Batch /\ pg[w] \in Pg /\ position[w] \in [Partitions -> Nat]
      /\ \A p \in Partitions : position[w][p] \in Nat /\ position[w][p] <= Len(log[p])
  BY <1>1 DEF TypeOK
<1>5. pc[w] \in {"poll", "execute"} => InBatch(batch[w], position[w], consumer_offsets, log)
  BY <1>1, <1>4 DEF WorkerOK, InBatch
<1> QED BY <1>1, <1>2, <1>3, <1>4, <1>5

LEMMA StartInv ==
    ASSUME SinkInv, NEW w \in Workers, Start(w)
    PROVE  SinkInv'
<1>1. TypeOK /\ WorkerOK(w)
  BY WorkerTypes
<1>2. TypeOK'
  BY <1>1, OwnTypes DEF Start, postgres, TypeOK
<1>3. pc'[w] = "assign"
  BY <1>1 DEF Start, TypeOK
<1>4. WorkerOK(w)'
  BY <1>1, <1>3 DEF Start, postgres, WorkerOK, ControlOK
<1>5. Own(w) /\ Locks(w)
  BY <1>1 DEF Start, postgres, Own, Locks, TypeOK
<1> QED BY <1>2, <1>4, <1>5, OwnStep

LEMMA OnAssignInv ==
    ASSUME SinkInv, NEW w \in Workers, OnAssign(w)
    PROVE  SinkInv'
<1>1. TypeOK /\ WorkerOK(w)
  BY WorkerTypes
<1> DEFINE seek == [p \in Partitions |-> consumer_offsets[p] + 1]
<1>2. seek \in [Partitions -> Nat] /\ \A p \in Partitions : seek[p] <= Len(log[p])
  <2>1. \A p \in Partitions : /\ consumer_offsets[p] \in Nat \cup {NoOffset}
                              /\ consumer_offsets[p] < Len(log[p]) /\ Len(log[p]) \in Nat
    BY <1>1, WorkerTypes DEF TypeOK
  <2>2. \A p \in Partitions : consumer_offsets[p] + 1 \in Nat /\ consumer_offsets[p] + 1 <= Len(log[p])
    BY <2>1 DEF NoOffset
  <2> QED BY <2>2
<1>3. /\ position'[w] = seek /\ pc'[w] = "poll"
      /\ position' \in [Workers -> [Partitions -> Nat]]
      /\ \A v \in Workers \ {w} : position'[v] = position[v]
  BY <1>1, <1>2 DEF OnAssign, TypeOK
<1>4. TypeOK'
  <2>1. \A v \in Workers : \A p \in Partitions : position'[v][p] <= Len(log[p])
    BY <1>1, <1>2, <1>3 DEF TypeOK
  <2>2. /\ log' = log /\ raw' = raw /\ consumer_offsets' = consumer_offsets /\ dlq' \subseteq Places
        /\ pg' \in [Workers -> Pg] /\ batch' \in [Workers -> Batch]
        /\ pc' \in [Workers -> {"down", "assign", "poll", "execute", "commit", "close"}]
        /\ envelopes' \in [Workers -> Seq(Places)]
    BY <1>1 DEF OnAssign, postgres, TypeOK
  <2> HIDE DEF seek
  <2> QED BY <2>1, <2>2, <1>1, <1>3, OwnTypes
<1>5. /\ PositionOK(EmptyBatch, seek, consumer_offsets)
      /\ RowsOK(EmptyBatch, log)
      /\ PollOK(EmptyBatch, log, consumer_offsets)
  <2>1. \A p \in Partitions : seek[p] <= consumer_offsets[p] + 1
    BY WorkerTypes
  <2>2. consumer_offsets \in [Partitions -> Nat \cup {NoOffset}]
    BY WorkerTypes
  <2> HIDE DEF seek
  <2> QED BY <2>1, <2>2, <1>2, EmptyBatchOK
<1>6. batch[w] = EmptyBatch /\ pg[w].state = "none" /\ pg[w] = EmptyPg("none")
  BY <1>1 DEF OnAssign, WorkerOK, ControlOK
<1> HIDE DEF seek
<1>7. WorkerOK(w)'
  BY <1>3, <1>5, <1>6 DEF OnAssign, postgres, WorkerOK, ControlOK
<1>8. Own(w) /\ Locks(w)
  BY <1>1, <1>3 DEF OnAssign, postgres, Own, Locks, TypeOK
<1> QED BY <1>4, <1>7, <1>8, OwnStep

LEMMA RebalanceInv ==
    ASSUME SinkInv, NEW w \in Workers, Rebalance(w)
    PROVE  SinkInv'
<1>1. TypeOK /\ WorkerOK(w)
  BY WorkerTypes
<1>2. TypeOK'
  BY <1>1, OwnTypes DEF Rebalance, postgres, TypeOK
<1>3. pc'[w] = "assign"
  BY <1>1 DEF Rebalance, TypeOK
<1>4. WorkerOK(w)'
  BY <1>1, <1>3 DEF Rebalance, postgres, WorkerOK, ControlOK
<1>5. Own(w) /\ Locks(w)
  BY <1>1 DEF Rebalance, postgres, Own, Locks, TypeOK
<1> QED BY <1>2, <1>4, <1>5, OwnStep

LEMMA DeliverInv ==
    ASSUME SinkInv, NEW w \in Workers, Deliver(w)
    PROVE  SinkInv'
<1>1. TypeOK /\ WorkerOK(w)
  BY WorkerTypes
<1>2. envelopes[w] \in Seq(Places) /\ envelopes[w] # <<>>
  BY <1>1 DEF Deliver, TypeOK
<1>3. Head(envelopes[w]) \in Places /\ Tail(envelopes[w]) \in Seq(Places)
  BY <1>2, HeadTailProperties
<1>4. dlq' \subseteq Places /\ envelopes' \in [Workers -> Seq(Places)]
  BY <1>1, <1>3 DEF Deliver, TypeOK
<1>5. TypeOK'
  BY <1>1, <1>4, OwnTypes DEF Deliver, postgres, TypeOK
<1>6. WorkerOK(w)'
  BY <1>1 DEF Deliver, postgres, WorkerOK
<1>7. Own(w) /\ Locks(w)
  BY DEF Deliver, postgres, Own, Locks
<1> QED BY <1>5, <1>6, <1>7, OwnStep

LEMMA BeginWriteInv ==
    ASSUME SinkInv, NEW w \in Workers, BeginWrite(w)
    PROVE  SinkInv'
<1>1. TypeOK /\ WorkerOK(w)
  BY WorkerTypes
<1>2. /\ EmptyPg("open") \in Pg
      /\ EmptyPg("open").state = "open"
      /\ \A k \in Keys : EmptyPg("open").rows[k] = NoRow
      /\ \A p \in Partitions : EmptyPg("open").offsets[p] = NoOffset
  BY EmptyPgOK
<1>3. /\ pc'[w] = "execute" /\ pg'[w] = EmptyPg("open") /\ pg' \in [Workers -> Pg]
      /\ \A v \in Workers \ {w} : pg'[v] = pg[v] /\ pc'[v] = pc[v]
  BY <1>1, <1>2 DEF BeginWrite, TypeOK
<1>4. TypeOK'
  BY <1>1, <1>3, OwnTypes DEF BeginWrite, TypeOK
<1>5. ExecuteOK(batch[w], EmptyPg("open"), log, consumer_offsets, raw)
  <2>1. PollOK(batch[w], log, consumer_offsets) /\ batch[w].count > 0
    BY <1>1 DEF BeginWrite, WorkerOK
  <2> QED BY <2>1, WorkerTypes, BeginOK
<1>6. WorkerOK(w)'
  BY <1>1, <1>2, <1>3, <1>5 DEF BeginWrite, WorkerOK, ControlOK
<1>7. Own(w) /\ Locks(w)
  BY <1>2, <1>3 DEF BeginWrite, Own, Locks
<1> QED BY <1>4, <1>6, <1>7, OwnStep

LEMMA ConsumeInv ==
    ASSUME SinkInv, NEW w \in Workers, NEW p \in Partitions, Consume(w, p)
    PROVE  SinkInv'
<1> DEFINE o == position[w][p]
           poison == log[p][o + 1] = Poison
           d == Collected(batch[w], p, o, poison)
           to == [position[w] EXCEPT ![p] = o + 1]
<1>1. TypeOK /\ WorkerOK(w)
  BY WorkerTypes
<1>2. /\ pc[w] = "poll" /\ batch[w].count < BatchMax /\ o < Len(log[p])
      /\ UNCHANGED <<log, dlq, raw, consumer_offsets, pg, pc>>
  BY DEF Consume, postgres
<1>3. batch' = [batch EXCEPT ![w] = d]
  BY DEF Consume
<1>4. position' = [position EXCEPT ![w] = to]
  BY <1>1 DEF Consume, TypeOK
<1>5. /\ d \in Batch
      /\ PositionOK(d, to, consumer_offsets)
      /\ RowsOK(d, log)
      /\ PollOK(d, log, consumer_offsets)
  <2>1. RowsOK(batch[w], log) /\ PollOK(batch[w], log, consumer_offsets)
    BY <1>1, <1>2 DEF WorkerOK
  <2>2. InBatch(batch[w], position[w], consumer_offsets, log)
    BY <1>2, WorkerTypes
  <2> QED BY <1>2, <2>1, <2>2, WorkerTypes, ConsumeOK
<1> HIDE DEF d
<1>6. /\ batch' \in [Workers -> Batch] /\ batch'[w] = d
      /\ \A v \in Workers \ {w} : batch'[v] = batch[v]
  BY <1>1, <1>3, <1>5 DEF TypeOK
<1>7. o \in Nat /\ Len(log[p]) \in Nat
  BY WorkerTypes
<1>8. /\ position' \in [Workers -> [Partitions -> Nat]] /\ position'[w] = to
      /\ \A v \in Workers \ {w} : position'[v] = position[v]
      /\ \A v \in Workers : \A q \in Partitions : position'[v][q] <= Len(log[q])
  <2>1. to \in [Partitions -> Nat] /\ \A q \in Partitions : to[q] <= Len(log[q])
    BY <1>1, <1>2, <1>7 DEF TypeOK
  <2> HIDE DEF to
  <2> QED BY <1>1, <1>4, <2>1 DEF TypeOK
<1> HIDE DEF to
<1>9. envelopes' \in [Workers -> Seq(Places)]
  <2>1. envelopes[w] \in Seq(Places)
    BY <1>1 DEF TypeOK
  <2>2. <<p, o>> \in Places
    BY <1>2, <1>7 DEF Places
  <2>3. Append(envelopes[w], <<p, o>>) \in Seq(Places)
    BY <2>1, <2>2, AppendProperties
  <2>4. envelopes' = [envelopes EXCEPT ![w] = IF poison THEN Append(@, <<p, o>>) ELSE @]
    BY DEF Consume
  <2> HIDE DEF o, poison
  <2> QED BY <2>1, <2>3, <2>4, <1>1 DEF TypeOK
<1>10. TypeOK'
  BY <1>1, <1>2, <1>6, <1>8, <1>9, OwnTypes DEF TypeOK
<1>11. WorkerOK(w)'
  BY <1>1, <1>2, <1>5, <1>6, <1>8 DEF WorkerOK, ControlOK
<1>12. Own(w) /\ Locks(w)
  BY <1>2, <1>6, <1>8 DEF Own, Locks
<1> QED BY <1>10, <1>11, <1>12, OwnStep

(* The topic that is worked on has rows. *)
LEMMA CurrentTopicOK ==
    ASSUME NEW w \in Workers, batch[w] \in Batch, batch[w].rows # NoRows
    PROVE  CurrentTopic(w) \in Range(SinkTopics) /\ batch[w].rows[CurrentTopic(w)] # <<>>
<1> DEFINE b == batch[w]
           S == {i \in 1..Len(SinkTopics) : b.rows[SinkTopics[i]] # <<>>}
<1>1. DOMAIN SinkTopics = 1..Len(SinkTopics) /\ Len(SinkTopics) \in Nat
  BY KeyAssumption, LenProperties
<1>2. PICK t \in Range(SinkTopics) : b.rows[t] # <<>>
  BY DEF NoRows, Batch
<1>3. S # {}
  BY <1>1, <1>2 DEF Range
<1>4. S \in SUBSET Nat
  BY <1>1
<1> HIDE DEF S
<1>5. Min(S) \in S
  BY <1>3, <1>4, MinExists
<1>6. CurrentTopic(w) = SinkTopics[Min(S)]
  BY DEF CurrentTopic, S
<1>7. Min(S) \in 1..Len(SinkTopics) /\ b.rows[SinkTopics[Min(S)]] # <<>>
  BY <1>5 DEF S
<1> QED BY <1>1, <1>6, <1>7 DEF Range

LEMMA ExecuteUpsertInv ==
    ASSUME SinkInv, NEW w \in Workers, ExecuteUpsert(w)
    PROVE  SinkInv'
<1> DEFINE t == CurrentTopic(w)
           m == NextRow(w)
           d == Executed(batch[w], t)
           h == Upserted(pg[w], raw, m)
<1>1. TypeOK /\ WorkerOK(w)
  BY WorkerTypes
<1>2. /\ pc[w] = "execute" /\ batch[w].rows # NoRows
      /\ \A v \in Workers \ {w} : pg[v].rows[m.key] = NoRow
      /\ UNCHANGED <<log, dlq, raw, consumer_offsets, pc, position, envelopes>>
  BY DEF ExecuteUpsert
<1>3. t \in Range(SinkTopics) /\ batch[w].rows[t] # <<>>
  BY <1>2, WorkerTypes, CurrentTopicOK
<1>4. batch' = [batch EXCEPT ![w] = d]
  BY <1>1 DEF ExecuteUpsert, Executed, TypeOK
<1>5. pg' = [pg EXCEPT ![w] = h]
  <2>1. pg \in [Workers -> Pg]
    BY <1>1 DEF TypeOK
  <2>2. pg' = IF m.key \notin MergedKeys /\ raw[m.key] # NoRow THEN pg
              ELSE [pg EXCEPT ![w].rows[m.key] = Upsert(Visible(w, m.key), m)]
    BY DEF ExecuteUpsert
  <2>3. Visible(w, m.key) = IF pg[w].rows[m.key] # NoRow THEN pg[w].rows[m.key] ELSE raw[m.key]
    BY DEF Visible
  <2> HIDE DEF m
  <2> QED BY <2>1, <2>2, <2>3 DEF Upserted
<1> DEFINE p == Head(batch[w].rows[t])[1]
           o == Head(batch[w].rows[t])[2]
<1>6. Head(batch[w].rows[t]) = <<p, o>> /\ m = log[p][o + 1]
  <2>1. batch[w].rows[t] \in Seq(Partitions \X Nat)
    BY <1>3, WorkerTypes DEF Batch
  <2>2. Head(batch[w].rows[t]) \in Partitions \X Nat
    BY <2>1, <1>3, HeadTailProperties
  <2>3. m = log[p][o + 1]
    BY DEF NextRow
  <2> QED BY <2>2, <2>3, SMTT(30)
<1> HIDE DEF t, m, d, h, p, o
<1>7. /\ RowsOK(batch[w], log) /\ PositionOK(batch[w], position[w], consumer_offsets)
      /\ ExecuteOK(batch[w], pg[w], log, consumer_offsets, raw)
      /\ pg[w].state = "open"
      /\ InBatch(batch[w], position[w], consumer_offsets, log)
  BY <1>1, <1>2, WorkerTypes DEF WorkerOK, ControlOK
<1>8. d \in Batch /\ d.max_offsets = batch[w].max_offsets /\ RowsOK(d, log)
  BY <1>3, <1>6, <1>7, WorkerTypes, ExecutedIs DEF d
<1>9. /\ m.key \in Keys
      /\ h \in Pg
      /\ h.state = pg[w].state /\ h.offsets = pg[w].offsets
      /\ \A k \in Keys : k # m.key => h.rows[k] = pg[w].rows[k]
      /\ ExecuteOK(d, h, log, consumer_offsets, raw)
  <2>1. /\ log \in Logs /\ \A q \in Partitions : log[q] \in Seq(MessagesOf(q))
        /\ batch[w] \in Batch /\ pg[w] \in Pg /\ position[w] \in [Partitions -> Nat]
        /\ consumer_offsets \in [Partitions -> Nat \cup {NoOffset}]
        /\ \A q \in Partitions : consumer_offsets[q] < Len(log[q])
        /\ TablesOK(log, consumer_offsets, raw)
    BY WorkerTypes
  <2>2. d = Executed(batch[w], t) /\ h = Upserted(pg[w], raw, m)
    BY DEF d, h
  <2>3. Executing(log, batch[w], pg[w], position[w], consumer_offsets, raw)
    BY <2>1, <1>7 DEF Executing
  <2> QED BY <2>2, <2>3, <1>3, <1>6, UpsertOK
<1>10. /\ batch' \in [Workers -> Batch] /\ batch'[w] = d
       /\ pg' \in [Workers -> Pg] /\ pg'[w] = h
       /\ \A v \in Workers \ {w} : batch'[v] = batch[v] /\ pg'[v] = pg[v]
  BY <1>1, <1>4, <1>5, <1>8, <1>9 DEF TypeOK
<1>11. TypeOK'
  BY <1>1, <1>2, <1>10, OwnTypes DEF TypeOK
<1>12. PositionOK(d, position[w], consumer_offsets)
  BY <1>7, <1>8 DEF PositionOK
<1>13. WorkerOK(w)'
  BY <1>2, <1>7, <1>8, <1>9, <1>10, <1>12 DEF WorkerOK, ControlOK
<1>14. Own(w)
  BY <1>2, <1>10 DEF Own
<1>15. Locks(w)
  BY <1>2, <1>9, <1>10 DEF Locks
<1> QED BY <1>11, <1>13, <1>14, <1>15, OwnStep

LEMMA ExecuteOffsetInv ==
    ASSUME SinkInv, NEW w \in Workers, ExecuteOffset(w)
    PROVE  SinkInv'
<1> DEFINE b == batch[w]
           p == Head(b.order)
           last == Len(b.order) = 1
           d == Stored(b)
           h == Moved(pg[w], b, consumer_offsets, p, IF last THEN "commit_sent" ELSE "open")
<1>1. TypeOK /\ WorkerOK(w)
  BY WorkerTypes
<1>2. /\ pc[w] = "execute" /\ b.rows = NoRows
      /\ \A v \in Workers \ {w} : pg[v].offsets[p] = NoOffset
      /\ UNCHANGED <<log, dlq, raw, consumer_offsets, position, envelopes>>
  BY DEF ExecuteOffset
<1>3. /\ RowsOK(b, log) /\ PositionOK(b, position[w], consumer_offsets)
      /\ ExecuteOK(b, pg[w], log, consumer_offsets, raw)
      /\ pg[w].state = "open"
      /\ InBatch(b, position[w], consumer_offsets, log)
  BY <1>1, <1>2, WorkerTypes DEF WorkerOK, ControlOK
<1>4. batch' = [batch EXCEPT ![w] = d]
  BY <1>1 DEF ExecuteOffset, Stored, TypeOK
<1>5. pg' = [pg EXCEPT ![w] = h]
  <2>1. pg \in [Workers -> Pg]
    BY <1>1 DEF TypeOK
  <2>2. pg' = [pg EXCEPT
                  ![w].state = IF last THEN "commit_sent" ELSE @,
                  ![w].offsets[p] = OffsetUpsert(consumer_offsets[p], b.max_offsets[p])]
    BY DEF ExecuteOffset
  <2> HIDE DEF p, last, b
  <2> QED BY <2>1, <2>2, <1>3 DEF Moved
<1>6. pc' = [pc EXCEPT ![w] = IF last THEN "commit" ELSE @]
  BY DEF ExecuteOffset
<1>7. b.order # <<>> /\ b.order \in Seq(Partitions) /\ b \in Batch
  BY <1>3, WorkerTypes DEF ExecuteOK, Batch
<1>8. p \in Partitions /\ Tail(b.order) \in Seq(Partitions)
  BY <1>7, HeadTailProperties
<1>9. b.max_offsets[p] # NoOffset
  <2>1. p = b.order[1] /\ 1 \in 1..Len(b.order)
    BY <1>7
  <2> QED BY <2>1, <1>3 DEF RowsOK
<1>10. d \in Batch
  BY <1>7, <1>8 DEF Stored, Batch
<1> HIDE DEF b, d, h, p, last
<1>11. /\ h \in Pg
       /\ h.state = (IF last THEN "commit_sent" ELSE "open") /\ h.rows = pg[w].rows
       /\ \A q \in Partitions : q # p => h.offsets[q] = pg[w].offsets[q]
  <2> DEFINE state == IF last THEN "commit_sent" ELSE "open"
  <2>1. state \in {"open", "commit_sent"} /\ h = Moved(pg[w], b, consumer_offsets, p, state)
    BY DEF h
  <2>2. pg[w] \in Pg /\ consumer_offsets \in [Partitions -> Nat \cup {NoOffset}]
    BY WorkerTypes
  <2> HIDE DEF state
  <2>3. /\ h \in Pg
        /\ h.state = state /\ h.rows = pg[w].rows
        /\ \A q \in Partitions : q # p => h.offsets[q] = pg[w].offsets[q]
    BY <2>1, <2>2, <1>7, <1>8, <1>9, MovedIs
  <2> QED BY <2>3 DEF state
<1>12. /\ batch' \in [Workers -> Batch] /\ batch'[w] = d
       /\ pg' \in [Workers -> Pg] /\ pg'[w] = h
       /\ pc' \in [Workers -> {"down", "assign", "poll", "execute", "commit", "close"}]
       /\ pc'[w] = IF last THEN "commit" ELSE "execute"
       /\ \A v \in Workers \ {w} : batch'[v] = batch[v] /\ pg'[v] = pg[v] /\ pc'[v] = pc[v]
  BY <1>1, <1>2, <1>4, <1>5, <1>6, <1>10, <1>11 DEF TypeOK
<1>13. TypeOK'
  BY <1>1, <1>2, <1>12, OwnTypes DEF TypeOK
<1>14. WorkerOK(w)'
  <2>0. /\ log \in Logs /\ pg[w] \in Pg /\ position[w] \in [Partitions -> Nat]
        /\ consumer_offsets \in [Partitions -> Nat \cup {NoOffset}]
        /\ \A q \in Partitions : consumer_offsets[q] < Len(log[q])
        /\ \A q \in Partitions : log[q] \in Seq(MessagesOf(q))
        /\ TablesOK(log, consumer_offsets, raw)
    BY WorkerTypes
  <2>1. CASE last
    <3>1. SentOK(h, log, consumer_offsets, raw) /\ CommitOK(h, position[w], consumer_offsets)
      <4>1. h = Moved(pg[w], b, consumer_offsets, Head(b.order), "commit_sent") /\ Len(b.order) = 1
        BY <2>1 DEF h, p, last
      <4> QED BY <4>1, <2>0, <1>2, <1>3, <1>7, LastOffsetOK
    <3>2. h.state = "commit_sent" /\ pc'[w] = "commit"
      BY <2>1, <1>11, <1>12
    <3> QED BY <3>1, <3>2, <1>2, <1>12 DEF WorkerOK, ControlOK
  <2>2. CASE ~last
    <3>1. /\ d.max_offsets = b.max_offsets
          /\ RowsOK(d, log)
          /\ ExecuteOK(d, h, log, consumer_offsets, raw)
      <4>1. h = Moved(pg[w], b, consumer_offsets, Head(b.order), "open") /\ Len(b.order) # 1
        BY <2>2 DEF h, p, last
      <4>2. d = Stored(b)
        BY DEF d
      <4>3. Executing(log, b, pg[w], position[w], consumer_offsets, raw)
        BY <2>0, <1>3, <1>7 DEF Executing
      <4> QED BY <4>1, <4>2, <4>3, <1>2, OffsetOK
    <3>2. h.state = "open" /\ pc'[w] = "execute"
      BY <2>2, <1>11, <1>12
    <3>3. PositionOK(d, position[w], consumer_offsets)
      BY <3>1, <1>3 DEF PositionOK
    <3> QED BY <3>1, <3>2, <3>3, <1>2, <1>12 DEF WorkerOK, ControlOK
  <2> QED BY <2>1, <2>2
<1>15. Own(w)
  BY <1>2, <1>12 DEF Own
<1>16. Locks(w)
  BY <1>2, <1>11, <1>12 DEF Locks
<1> QED BY <1>13, <1>14, <1>15, <1>16, OwnStep

LEMMA ServerRollbackInv ==
    ASSUME SinkInv, NEW w \in Workers, ServerRollback(w)
    PROVE  SinkInv'
<1>1. TypeOK /\ WorkerOK(w)
  BY WorkerTypes
<1>2. /\ EmptyPg("none") \in Pg
      /\ EmptyPg("none").state = "none"
      /\ \A k \in Keys : EmptyPg("none").rows[k] = NoRow
      /\ \A p \in Partitions : EmptyPg("none").offsets[p] = NoOffset
  BY EmptyPgOK
<1>3. /\ pg'[w] = EmptyPg("none") /\ pg' \in [Workers -> Pg]
      /\ \A v \in Workers \ {w} : pg'[v] = pg[v]
      /\ UNCHANGED <<log, dlq, raw, consumer_offsets, pc, position, batch, envelopes>>
  BY <1>1, <1>2 DEF ServerRollback, TypeOK
<1>4. TypeOK'
  BY <1>1, <1>3, OwnTypes DEF TypeOK
<1>5. pg[w].state = "commit_sent" /\ pc[w] # "commit"
  BY DEF ServerRollback
<1>6. pc[w] \in {"down", "close"}
  BY <1>1, <1>5 DEF WorkerOK, ControlOK, TypeOK
<1>7. WorkerOK(w)'
  BY <1>1, <1>2, <1>3, <1>6 DEF WorkerOK, ControlOK
<1>8. Own(w) /\ Locks(w)
  BY <1>2, <1>3 DEF Own, Locks
<1> QED BY <1>4, <1>7, <1>8, OwnStep

LEMMA CommitReturnsInv ==
    ASSUME SinkInv, NEW w \in Workers, CommitReturns(w)
    PROVE  SinkInv'
<1>1. TypeOK /\ WorkerOK(w)
  BY WorkerTypes
<1>2. /\ EmptyPg("none") \in Pg
      /\ EmptyPg("none").state = "none"
      /\ \A k \in Keys : EmptyPg("none").rows[k] = NoRow
      /\ \A p \in Partitions : EmptyPg("none").offsets[p] = NoOffset
  BY EmptyPgOK
<1>3. \A p \in Partitions : position[w][p] <= consumer_offsets[p] + 1
  <2>1. pc[w] = "commit" /\ pg[w].state = "committed"
    BY DEF CommitReturns
  <2>2. pg[w] = EmptyPg("committed")
    BY <1>1, <2>1 DEF WorkerOK, ControlOK
  <2>3. \A p \in Partitions : pg[w].offsets[p] = NoOffset
    BY <2>2, EmptyPgOK
  <2>4. \A p \in Partitions : /\ position[w][p] \in Nat
                              /\ consumer_offsets[p] \in Nat \cup {NoOffset}
    BY WorkerTypes
  <2> QED BY <1>1, <2>1, <2>3, <2>4 DEF WorkerOK, CommitOK, NoOffset
<1>4. /\ EmptyBatch \in Batch
      /\ PositionOK(EmptyBatch, position[w], consumer_offsets)
      /\ RowsOK(EmptyBatch, log)
      /\ PollOK(EmptyBatch, log, consumer_offsets)
  BY <1>3, WorkerTypes, EmptyBatchOK
<1>5. /\ pg'[w] = EmptyPg("none") /\ pg' \in [Workers -> Pg]
      /\ batch'[w] = EmptyBatch /\ batch' \in [Workers -> Batch]
      /\ pc'[w] = "poll"
      /\ pc' \in [Workers -> {"down", "assign", "poll", "execute", "commit", "close"}]
      /\ \A v \in Workers \ {w} : pg'[v] = pg[v] /\ pc'[v] = pc[v] /\ batch'[v] = batch[v]
      /\ UNCHANGED <<log, dlq, raw, consumer_offsets, position, envelopes>>
  BY <1>1, <1>2, <1>4 DEF CommitReturns, TypeOK
<1>6. TypeOK'
  BY <1>1, <1>5, OwnTypes DEF TypeOK
<1>7. WorkerOK(w)'
  BY <1>2, <1>4, <1>5 DEF WorkerOK, ControlOK
<1>8. Own(w) /\ Locks(w)
  BY <1>2, <1>5 DEF Own, Locks
<1> QED BY <1>6, <1>7, <1>8, OwnStep

(* The connection of a worker that ends with pc' = at. *)
LEMMA AbandonInv ==
    ASSUME SinkInv, NEW w \in Workers, Abandon(w), NEW at \in {"down", "close"},
           pc' = [pc EXCEPT ![w] = at], batch' = [batch EXCEPT ![w] = EmptyBatch],
           UNCHANGED <<log, dlq, raw, consumer_offsets, position>>,
           envelopes' \in [Workers -> Seq(Places)]
    PROVE  SinkInv'
<1>1. TypeOK /\ WorkerOK(w)
  BY WorkerTypes
<1>2. /\ EmptyPg("none") \in Pg
      /\ EmptyPg("none").state = "none"
      /\ \A k \in Keys : EmptyPg("none").rows[k] = NoRow
      /\ \A p \in Partitions : EmptyPg("none").offsets[p] = NoOffset
  BY EmptyPgOK
<1>3. EmptyBatch \in Batch
  BY BoundAssumption DEF EmptyBatch, NoRows, NoOffsets, Batch
<1>4. /\ pg'[w] = IF pg[w].state = "commit_sent" THEN pg[w] ELSE EmptyPg("none")
      /\ pg' \in [Workers -> Pg]
      /\ batch'[w] = EmptyBatch /\ batch' \in [Workers -> Batch]
      /\ pc'[w] = at
      /\ pc' \in [Workers -> {"down", "assign", "poll", "execute", "commit", "close"}]
      /\ \A v \in Workers \ {w} : pg'[v] = pg[v] /\ pc'[v] = pc[v] /\ batch'[v] = batch[v]
  BY <1>1, <1>2, <1>3 DEF Abandon, TypeOK
<1>5. TypeOK'
  BY <1>1, <1>4, OwnTypes DEF TypeOK
<1>6. WorkerOK(w)'
  BY <1>1, <1>2, <1>4 DEF WorkerOK, ControlOK
<1>7. Own(w) /\ Locks(w)
  BY <1>2, <1>4 DEF Own, Locks
<1> QED BY <1>5, <1>6, <1>7, OwnStep

LEMMA RaiseInv ==
    ASSUME SinkInv, NEW w \in Workers, Raise(w)
    PROVE  SinkInv'
<1>1. envelopes' \in [Workers -> Seq(Places)]
  BY DEF SinkInv, TypeOK, Raise
<1> QED BY <1>1, AbandonInv DEF Raise

LEMMA CrashInv ==
    ASSUME SinkInv, NEW w \in Workers, Crash(w)
    PROVE  SinkInv'
<1>1. envelopes' \in [Workers -> Seq(Places)]
  BY DEF SinkInv, TypeOK, Crash
<1> QED BY <1>1, AbandonInv DEF Crash

LEMMA CloseInv ==
    ASSUME SinkInv, NEW w \in Workers, Close(w)
    PROVE  SinkInv'
<1>1. TypeOK /\ WorkerOK(w)
  BY WorkerTypes
<1>2. envelopes' \in [Workers -> Seq(Places)]
  BY <1>1 DEF TypeOK, Close
<1>3. TypeOK'
  BY <1>1, <1>2, OwnTypes DEF Close, postgres, TypeOK
<1>4. pc'[w] = "down"
  BY <1>1 DEF Close, TypeOK
<1>5. WorkerOK(w)'
  BY <1>1, <1>4 DEF Close, postgres, WorkerOK, ControlOK
<1>6. Own(w) /\ Locks(w)
  BY <1>1 DEF Close, postgres, Own, Locks, TypeOK
<1> QED BY <1>3, <1>5, <1>6, OwnStep

(* The server commits the transaction of w: the tables take the step that  *)
(* SentOK promises, and what the other workers have collected, locked or   *)
(* sent stays right on top of the new tables.                              *)
LEMMA ServerCommitInv ==
    ASSUME SinkInv, NEW w \in Workers, ServerCommit(w)
    PROVE  /\ SinkInv'
           /\ \A p \in Partitions : consumer_offsets[p] <= consumer_offsets'[p]
<1> DEFINE g == pg[w]
           c == consumer_offsets
           c2 == consumer_offsets'
           state == IF pc[w] = "commit" THEN "committed" ELSE "none"
<1>1. TypeOK /\ WorkerOK(w)
  BY WorkerTypes
<1>2. /\ EmptyPg(state) \in Pg
      /\ EmptyPg(state).state = state
      /\ \A k \in Keys : EmptyPg(state).rows[k] = NoRow
      /\ \A p \in Partitions : EmptyPg(state).offsets[p] = NoOffset
  <2>1. state \in {"none", "open", "commit_sent", "committed"}
    OBVIOUS
  <2> HIDE DEF state
  <2> QED BY <2>1, EmptyPgOK
<1>3. /\ g.state = "commit_sent"
      /\ raw' = [k \in Keys |-> IF g.rows[k] # NoRow THEN g.rows[k] ELSE raw[k]]
      /\ c2 = [p \in Partitions |-> IF g.offsets[p] # NoOffset THEN g.offsets[p] ELSE c[p]]
      /\ pg' = [pg EXCEPT ![w] = EmptyPg(state)]
      /\ UNCHANGED <<log, dlq, pc, position, batch, envelopes>>
  BY DEF ServerCommit, Visible
<1> HIDE DEF state
<1>4. g \in Pg /\ log \in Logs /\ c \in [Partitions -> Nat \cup {NoOffset}]
      /\ TablesOK(log, c, raw) /\ \A p \in Partitions : c[p] < Len(log[p])
  BY WorkerTypes
<1>5. SentOK(g, log, c, raw)
  BY <1>1, <1>3 DEF WorkerOK
<1>6. c2 \in [Partitions -> Nat \cup {NoOffset}] /\ raw' \in [Keys -> Row \cup {NoRow}]
  <2>1. g.offsets \in [Partitions -> Nat \cup {NoOffset}] /\ g.rows \in [Keys -> Row \cup {NoRow}]
    BY <1>4 DEF Pg
  <2>2. raw \in [Keys -> Row \cup {NoRow}]
    BY <1>1 DEF TypeOK
  <2> HIDE DEF g
  <2> QED BY <2>1, <2>2, <1>3, <1>4
<1>7. /\ \A p \in Partitions : c2[p] = IF g.offsets[p] # NoOffset THEN g.offsets[p] ELSE c[p]
      /\ \A k \in Keys : raw'[k] = IF g.rows[k] # NoRow THEN g.rows[k] ELSE raw[k]
  BY <1>3
<1> HIDE DEF g, c, c2
<1>8. /\ \A p \in Partitions : c[p] <= c2[p] /\ c2[p] < Len(log[p])
      /\ \A k \in Keys : g.rows[k] = NoRow => NoTrace(log, c, c2, raw, k)
      /\ TablesOK(log, c2, raw')
  <2>1. Commits(log, g, c, raw, c2, raw')
    BY <1>4, <1>5, <1>6, <1>7 DEF Commits
  <2> QED BY <2>1, CommitTables
<1>9. \A k \in Keys : raw[k] # NoRow => raw'[k] # NoRow
  BY <1>7
<1>10. /\ pg'[w] = EmptyPg(state) /\ pg' \in [Workers -> Pg]
       /\ \A v \in Workers \ {w} : pg'[v] = pg[v]
  BY <1>1, <1>2, <1>3 DEF TypeOK
<1>11. TypeOK'
  <2>1. Places' = Places
    BY <1>3 DEF Places
  <2> QED BY <2>1, <1>1, <1>3, <1>6, <1>8, <1>10 DEF TypeOK, c2
<1>12. ASSUME NEW v \in Workers \ {w} PROVE WorkerOK(v)'
  <2>1. /\ WorkerOK(v)
        /\ batch[v] \in Batch /\ pg[v] \in Pg /\ position[v] \in [Partitions -> Nat]
        /\ pc[v] \in {"poll", "execute"} => InBatch(batch[v], position[v], c, log)
    BY WorkerTypes DEF c
  <2>2. Disjoint(pg[w], pg[v])
    BY DEF SinkInv
  <2>3. \A p \in Partitions : pg[v].offsets[p] # NoOffset => c2[p] = c[p]
    BY <2>2, <1>7 DEF Disjoint, g
  <2>4. \A k \in Keys : pg[v].rows[k] # NoRow => NoTrace(log, c, c2, raw, k)
    BY <2>2, <1>8 DEF Disjoint, g
  <2>5. \A p \in Partitions : c[p] <= c2[p]
    BY <1>8
  <2>6. pc[v] \in {"poll", "execute"} => PositionOK(batch[v], position[v], c2)
    BY <2>1, <2>5, <1>4, <1>6, PositionFrame DEF WorkerOK, c
  <2>7. pc[v] = "poll" => PollOK(batch[v], log, c2)
    BY <2>1, <2>5, <1>4, <1>6, PollFrame DEF WorkerOK, c
  <2>8. pc[v] = "execute" => ExecuteOK(batch[v], pg[v], log, c2, raw')
    <3> SUFFICES ASSUME pc[v] = "execute" PROVE ExecuteOK(batch[v], pg[v], log, c2, raw')
      OBVIOUS
    <3>1. ExecuteOK(batch[v], pg[v], log, c, raw) /\ InBatch(batch[v], position[v], c, log)
      BY <2>1 DEF WorkerOK, c
    <3>2. \A p \in Partitions : c[p] < Len(log[p]) /\ c[p] <= c2[p] /\ c2[p] < Len(log[p])
      BY <1>4, <1>8
    <3> QED BY <3>1, <3>2, <2>1, <2>3, <2>4, <1>4, <1>6, <1>9, ExecuteFrame
  <2>9. pg[v].state = "commit_sent" => SentOK(pg[v], log, c2, raw')
    BY <2>1, <2>3, <2>5, <1>4, <1>6, <1>9, SentFrame DEF WorkerOK, c
  <2>10. pc[v] = "commit" => CommitOK(pg[v], position[v], c2)
    BY <2>1, <2>5, <1>4, <1>6, CommitFrame DEF WorkerOK, c
  <2>11. pg'[v] = pg[v]
    BY <1>10
  <2> QED BY <2>1, <2>6, <2>7, <2>8, <2>9, <2>10, <2>11, <1>3 DEF WorkerOK, c2
<1>13. WorkerOK(w)'
  <2>1. pc[w] \in {"down", "close", "commit"}
    BY <1>1, <1>3 DEF WorkerOK, ControlOK, TypeOK, g
  <2>2. ControlOK(pc[w], EmptyPg(state), batch[w])
    BY <2>1, <1>1, <1>2 DEF WorkerOK, ControlOK, state
  <2>3. pc[w] = "commit" => CommitOK(EmptyPg(state), position[w], c2)
    <3> SUFFICES ASSUME pc[w] = "commit", NEW p \in Partitions
                 PROVE  position[w][p] <= c2[p] + 1
      BY DEF CommitOK
    <3>1. position[w][p] <= c[p] + 1 \/ position[w][p] <= g.offsets[p] + 1
      BY <1>1 DEF WorkerOK, CommitOK, c, g
    <3>2. /\ position[w][p] \in Nat /\ c[p] \in Nat \cup {NoOffset} /\ c2[p] \in Nat \cup {NoOffset}
          /\ g.offsets[p] \in Nat \cup {NoOffset}
      BY <1>4, <1>6, WorkerTypes DEF Pg
    <3>3. c[p] <= c2[p] /\ (g.offsets[p] # NoOffset => c2[p] = g.offsets[p])
      BY <1>7, <1>8
    <3> QED BY <3>1, <3>2, <3>3 DEF NoOffset
  <2>4. EmptyPg(state).state # "commit_sent"
    BY <1>2 DEF state
  <2> QED BY <2>1, <2>2, <2>3, <2>4, <1>3, <1>10 DEF WorkerOK, c2
<1>14. ASSUME NEW u \in Workers, NEW v \in Workers, u # v PROVE Disjoint(pg'[u], pg'[v])
  <2>1. CASE u = w \/ v = w
    BY <2>1, <1>2, <1>10 DEF Disjoint
  <2>2. CASE u # w /\ v # w
    BY <2>2, <1>14, <1>10 DEF SinkInv
  <2> QED BY <2>1, <2>2
<1>15. TablesOK(log, consumer_offsets, raw)'
  BY <1>3, <1>8 DEF c2
<1>16. SinkInv'
  BY <1>11, <1>12, <1>13, <1>14, <1>15 DEF SinkInv
<1> QED BY <1>16, <1>8 DEF c, c2

LEMMA NextInv == SinkInv /\ [Next]_vars => SinkInv'
<1> SUFFICES ASSUME SinkInv, [Next]_vars PROVE SinkInv'
  OBVIOUS
<1>1. ASSUME NEW p \in Partitions, Produce(p) PROVE SinkInv'
  BY <1>1, ProduceInv
<1>2. ASSUME NEW w \in Workers, WorkerStep(w) PROVE SinkInv'
  <2>1. CASE Start(w)
    BY <2>1, StartInv
  <2>2. CASE OnAssign(w)
    BY <2>2, OnAssignInv
  <2>3. CASE \E p \in Partitions : Consume(w, p)
    BY <2>3, ConsumeInv
  <2>4. CASE BeginWrite(w)
    BY <2>4, BeginWriteInv
  <2>5. CASE ExecuteUpsert(w)
    BY <2>5, ExecuteUpsertInv
  <2>6. CASE ExecuteOffset(w)
    BY <2>6, ExecuteOffsetInv
  <2>7. CASE CommitReturns(w)
    BY <2>7, CommitReturnsInv
  <2>8. CASE DeadlockVictim(w)
    BY <2>8, RaiseInv DEF DeadlockVictim
  <2>9. CASE Close(w)
    BY <2>9, CloseInv
  <2> QED BY <1>2, <2>1, <2>2, <2>3, <2>4, <2>5, <2>6, <2>7, <2>8, <2>9 DEF WorkerStep
<1>3. ASSUME NEW w \in Workers, Deliver(w) PROVE SinkInv'
  BY <1>3, DeliverInv
<1>4. ASSUME NEW w \in Workers, ServerCommit(w) PROVE SinkInv'
  BY <1>4, ServerCommitInv
<1>5. ASSUME NEW w \in Workers, ServerRollback(w) PROVE SinkInv'
  BY <1>5, ServerRollbackInv
<1>6. ASSUME NEW w \in Workers, Failure(w) PROVE SinkInv'
  BY <1>6, RebalanceInv, RaiseInv, CrashInv DEF Failure
<1>7. CASE UNCHANGED vars
  <2>1. UNCHANGED <<log, dlq, raw, consumer_offsets, pg, pc, position, batch, envelopes>>
    BY <1>7 DEF vars, postgres
  <2>2. Places' = Places
    BY <2>1 DEF Places
  <2>3. TypeOK'
    BY <2>1, <2>2 DEF SinkInv, TypeOK
  <2>4. \A w \in Workers : WorkerOK(w)'
    BY <2>1 DEF SinkInv, WorkerOK
  <2> QED BY <2>1, <2>3, <2>4 DEF SinkInv
<1> QED BY <1>1, <1>2, <1>3, <1>4, <1>5, <1>6, <1>7 DEF Next

-----------------------------------------------------------------------------
(* The inductive invariant holds in every state of every behaviour. *)
THEOREM SinkInvariant == Spec => []SinkInv
BY InitInv, NextInv, PTL DEF Spec

(* The stored offset of a partition is one of its records, no worker reads *)
(* past the end, and every local of process_batch has its type.            *)
THEOREM SinkTypeOK == Spec => []TypeOK
<1>1. SinkInv => TypeOK
  BY DEF SinkInv
<1> QED BY <1>1, SinkInvariant, PTL

LEMMA InvTables == SinkInv => TablesMatchOffsets
<1> SUFFICES ASSUME SinkInv, NEW k \in Keys
             PROVE  raw[k] = RowAfter(k, consumer_offsets[PartitionOf[k]])
  BY DEF TablesMatchOffsets
<1>1. PartitionOf[k] \in Partitions
  BY KeyAssumption
<1>2. /\ log[PartitionOf[k]] \in Seq(Record \cup {Poison})
      /\ consumer_offsets[PartitionOf[k]] \in Int
      /\ consumer_offsets[PartitionOf[k]] < Len(log[PartitionOf[k]])
  BY <1>1 DEF SinkInv, TypeOK, NoOffset
<1>3. IsRow(raw[k], k, log[PartitionOf[k]],
            KeyOffsets(log[PartitionOf[k]], k, consumer_offsets[PartitionOf[k]]))
  BY DEF SinkInv, TablesOK
<1> QED BY <1>2, <1>3, RowIsRowAfter

(* Data and position commit together: with any number of workers on the    *)
(* same partitions, replays and COMMITs that arrive after their worker is  *)
(* gone, the tables show exactly the records up to the stored offsets.     *)
THEOREM SinkTablesMatchOffsets == Spec => []TablesMatchOffsets
BY SinkInvariant, InvTables, PTL

(* What a step may do to the tables. *)
Progress ==
    /\ \A p \in Partitions : consumer_offsets'[p] >= consumer_offsets[p]
    /\ \A k \in Keys : raw[k] # NoRow =>
          /\ raw'[k] # NoRow
          /\ raw'[k].inserted = raw[k].inserted
          /\ event_seq(raw'[k].updated) >= event_seq(raw[k].updated)

LEMMA RowSeq ==
    ASSUME SinkInv, NEW k \in Keys, raw[k] # NoRow
    PROVE  event_seq(raw[k].updated) \in Nat
<1>1. raw[k] \in Row
  BY DEF SinkInv, TypeOK
<1>2. raw[k].updated \in Record
  BY <1>1 DEF Row
<1>3. raw[k].updated.content \in Contents
  BY <1>2 DEF Record
<1> QED BY <1>3, SeqAssumption DEF event_seq

LEMMA StepProgress == SinkInv /\ [Next]_vars => Progress
<1> SUFFICES ASSUME SinkInv, [Next]_vars PROVE Progress
  OBVIOUS
<1>0. \A p \in Partitions : consumer_offsets[p] \in Int
  BY DEF SinkInv, TypeOK, NoOffset
<1>1. CASE raw' = raw /\ consumer_offsets' = consumer_offsets
  <2>1. \A k \in Keys : raw[k] # NoRow => event_seq(raw[k].updated) \in Nat
    BY RowSeq
  <2> QED BY <1>0, <1>1, <2>1 DEF Progress
<1>2. ASSUME NEW w \in Workers, ServerCommit(w) PROVE Progress
  <2>1. SinkInv' /\ \A p \in Partitions : consumer_offsets[p] <= consumer_offsets'[p]
    BY <1>2, ServerCommitInv
  <2>2. log' = log
    BY <1>2 DEF ServerCommit
  <2>3. ASSUME NEW k \in Keys, raw[k] # NoRow
        PROVE  /\ raw'[k] # NoRow
               /\ raw'[k].inserted = raw[k].inserted
               /\ event_seq(raw'[k].updated) >= event_seq(raw[k].updated)
    <3> DEFINE p == PartitionOf[k]
               s == log[p]
               S == KeyOffsets(s, k, consumer_offsets[p])
               T == KeyOffsets(s, k, consumer_offsets'[p])
    <3>1. p \in Partitions
      BY KeyAssumption
    <3>2. /\ s \in Seq(Record \cup {Poison})
          /\ consumer_offsets[p] \in Int /\ consumer_offsets'[p] \in Int
          /\ consumer_offsets[p] <= consumer_offsets'[p] /\ consumer_offsets'[p] < Len(s)
      BY <3>1, <2>1, <2>2 DEF SinkInv, TypeOK, NoOffset
    <3>3. IsRow(raw[k], k, s, S) /\ IsRow(raw'[k], k, s, T)
      BY <2>1, <2>2 DEF SinkInv, TablesOK
    <3>4. S # {}
      BY <2>3, <3>3 DEF IsRow
    <3> HIDE DEF p, s
    <3>5. S \subseteq T /\ T \in SUBSET KeyOffsets(s, k, consumer_offsets'[p])
      BY <3>2 DEF KeyOffsets
    <3>6. \A x \in T \ S : \E y \in S : y <= x
      <4> SUFFICES ASSUME NEW x \in T \ S PROVE \E y \in S : y <= x
        OBVIOUS
      <4>1. PICK y \in S : TRUE
        BY <3>4
      <4>2. y \in Int /\ y <= consumer_offsets[p]
        BY <3>2 DEF KeyOffsets
      <4>3. x \in Int /\ ~(x <= consumer_offsets[p])
        BY <3>2 DEF KeyOffsets
      <4> QED BY <4>2, <4>3, <3>2
    <3> HIDE DEF S, T
    <3> QED BY <3>2, <3>3, <3>4, <3>5, <3>6, RowGrows
  <2> QED BY <2>1, <2>3, <1>0 DEF Progress
<1>3. ASSUME NEW p \in Partitions, Produce(p) PROVE Progress
  BY <1>1, <1>3 DEF Produce, postgres
<1>4. ASSUME NEW w \in Workers, WorkerStep(w) \/ Deliver(w) \/ ServerRollback(w) \/ Failure(w)
      PROVE  Progress
  BY <1>1, <1>4 DEF WorkerStep, Failure, Start, OnAssign, Consume, BeginWrite, ExecuteUpsert,
     ExecuteOffset, CommitReturns, DeadlockVictim, Raise, Close, Crash, Rebalance, Deliver,
     ServerRollback, postgres
<1>5. CASE UNCHANGED vars
  BY <1>1, <1>5 DEF vars, postgres
<1> QED BY <1>2, <1>3, <1>4, <1>5 DEF Next

(* A late COMMIT never takes back progress. *)
THEOREM SinkNothingRegresses == Spec => NothingRegresses
<1>1. SinkInv /\ [Next]_vars => [Progress]_vars
  BY StepProgress
<1>2. Spec => [][Progress]_vars
  BY <1>1, SinkInvariant, PTL DEF Spec
<1> QED BY <1>2 DEF NothingRegresses, Progress

-----------------------------------------------------------------------------
(* The refinement of TablesExactlyOnce. *)

(* The promise has the same smallest elements. *)
LEMMA PromiseMin == \A S : Promise!Min(S) = Min(S)
BY DEF Promise!Min, Min

(* The richest of some records of a key, the first if there are several. *)
LEMMA RichestIs ==
    ASSUME NEW s, NEW D \in SUBSET Int, NEW v \in D,
           \A x \in D : event_seq(s[x + 1]) \in Int,
           \A x \in D : /\ event_seq(s[x + 1]) <= event_seq(s[v + 1])
                        /\ x < v => event_seq(s[x + 1]) < event_seq(s[v + 1])
    PROVE  Promise!Richest(s, D) = v
<1>1. PICK R : R = {o \in D : \A x \in D : event_seq(s[x + 1]) <= event_seq(s[o + 1])}
  OBVIOUS
<1>2. R \in SUBSET Int /\ v \in R
  BY <1>1
<1>3. ASSUME NEW x \in R PROVE v <= x
  <2>1. event_seq(s[v + 1]) <= event_seq(s[x + 1]) /\ x \in D
    BY <1>1
  <2>2. ~(x < v)
    BY <2>1
  <2> QED BY <1>2, <2>2
<1>4. Min(R) = v
  BY <1>2, <1>3, MinIs
<1> QED BY <1>1, <1>4, PromiseMin DEF Promise!Richest

(* Of records that are not empty one is the first of the richest. *)
LEMMA RichestExists ==
    ASSUME NEW s, NEW D \in SUBSET Nat, D # {}, NEW b \in Nat,
           \A x \in D : event_seq(s[x + 1]) \in Nat /\ event_seq(s[x + 1]) <= b
    PROVE  \E v \in D : \A x \in D : /\ event_seq(s[x + 1]) <= event_seq(s[v + 1])
                                     /\ x < v => event_seq(s[x + 1]) < event_seq(s[v + 1])
<1> DEFINE rank(o) == b - event_seq(s[o + 1])
           G == {rank(o) : o \in D}
<1>1. \A o \in D : rank(o) \in Nat
  OBVIOUS
<1>2. G \in SUBSET Nat /\ G # {}
  BY <1>1
<1>3. PICK m \in G : \A y \in G : m <= y
  <2> HIDE DEF G
  <2> QED BY <1>2, LeastOf
<1>4. PICK R : R = {o \in D : rank(o) = m}
  OBVIOUS
<1>5. R \in SUBSET Nat /\ R # {}
  BY <1>3, <1>4
<1>6. PICK v \in R : \A y \in R : v <= y
  BY <1>5, LeastOf
<1>7. v \in D /\ rank(v) = m
  BY <1>4
<1>8. ASSUME NEW x \in D
      PROVE  /\ event_seq(s[x + 1]) <= event_seq(s[v + 1])
             /\ x < v => event_seq(s[x + 1]) < event_seq(s[v + 1])
  <2>1. m <= rank(x)
    BY <1>3
  <2>2. event_seq(s[x + 1]) \in Nat /\ event_seq(s[v + 1]) \in Nat
    BY <1>7
  <2>3. event_seq(s[x + 1]) <= event_seq(s[v + 1])
    BY <1>7, <2>1, <2>2
  <2>4. ASSUME x < v PROVE event_seq(s[x + 1]) # event_seq(s[v + 1])
    <3>1. x \notin R
      BY <1>5, <1>6, <2>4
    <3> QED BY <1>4, <1>7, <3>1
  <2> QED BY <2>2, <2>3, <2>4
<1> QED BY <1>7, <1>8

(* The records determine the row. *)
LEMMA SameRow ==
    ASSUME NEW k, NEW s, NEW S, \A x \in S : x \in Nat /\ event_seq(s[x + 1]) \in Nat,
           NEW row, IsRow(row, k, s, S), NEW new, IsRow(new, k, s, S)
    PROVE  new = row
<1>1. CASE S = {}
  BY <1>1 DEF IsRow
<1>2. CASE S # {}
  <2>1. PICK i, u \in S :
           /\ row = [inserted |-> s[i + 1], updated |-> s[u + 1]]
           /\ \A x \in S : i <= x
           /\ IF k \in MergedKeys
              THEN \A x \in S : /\ event_seq(s[x + 1]) <= event_seq(s[u + 1])
                                /\ x < u => event_seq(s[x + 1]) < event_seq(s[u + 1])
              ELSE u = i
    BY <1>2 DEF IsRow
  <2>2. PICK j, v \in S :
           /\ new = [inserted |-> s[j + 1], updated |-> s[v + 1]]
           /\ \A x \in S : j <= x
           /\ IF k \in MergedKeys
              THEN \A x \in S : /\ event_seq(s[x + 1]) <= event_seq(s[v + 1])
                                /\ x < v => event_seq(s[x + 1]) < event_seq(s[v + 1])
              ELSE v = j
    BY <1>2 DEF IsRow
  <2>3. i = j
    BY <2>1, <2>2
  <2>4. u = v
    BY <2>1, <2>2, <2>3
  <2> QED BY <2>1, <2>2, <2>3, <2>4
<1> QED BY <1>1, <1>2

(* The row after more records is what TakeIn makes of the row and those    *)
(* records alone: none of the earlier ones is needed again.                *)
LEMMA TakeInRow ==
    ASSUME NEW s \in Seq(Record \cup {Poison}), NEW k \in Keys, NEW n \in Int, n < Len(s),
           NEW S \in SUBSET KeyOffsets(s, k, n), NEW D \in SUBSET KeyOffsets(s, k, n),
           \A x \in S : \A y \in D : x < y,
           NEW row, IsRow(row, k, s, S), NEW new, IsRow(new, k, s, S \cup D)
    PROVE  new = Promise!TakeIn(row, k, s, D)
<1>0. \A x \in S \cup D : x \in Nat /\ event_seq(s[x + 1]) \in Nat
  BY KeyRecord
<1>1. CASE D = {}
  <2>1. IsRow(new, k, s, S)
    BY <1>1
  <2>2. new = row
    BY <1>0, <2>1, SameRow
  <2> QED BY <1>1, <2>2 DEF Promise!TakeIn
<1>2. CASE D # {} /\ S = {}
  <2>1. row = NoRow /\ IsRow(new, k, s, D)
    BY <1>2 DEF IsRow
  <2>2. PICK j, v \in D :
           /\ new = [inserted |-> s[j + 1], updated |-> s[v + 1]]
           /\ \A x \in D : j <= x
           /\ IF k \in MergedKeys
              THEN \A x \in D : /\ event_seq(s[x + 1]) <= event_seq(s[v + 1])
                                /\ x < v => event_seq(s[x + 1]) < event_seq(s[v + 1])
              ELSE v = j
    BY <1>2, <2>1 DEF IsRow
  <2>3. Min(D) = j
    BY <1>0, <2>2, MinIs
  <2>4. ASSUME k \in MergedKeys PROVE Promise!Richest(s, D) = v
    <3>1. D \in SUBSET Int /\ \A x \in D : event_seq(s[x + 1]) \in Int
      BY <1>0
    <3> QED BY <2>2, <2>4, <3>1, RichestIs
  <2>5. Promise!Min(D) = j
    BY <2>3, PromiseMin
  <2> QED BY <1>2, <2>1, <2>2, <2>4, <2>5 DEF Promise!TakeIn
<1>3. CASE D # {} /\ S # {}
  <2>1. PICK i, u \in S :
           /\ row = [inserted |-> s[i + 1], updated |-> s[u + 1]]
           /\ \A x \in S : i <= x
           /\ IF k \in MergedKeys
              THEN \A x \in S : /\ event_seq(s[x + 1]) <= event_seq(s[u + 1])
                                /\ x < u => event_seq(s[x + 1]) < event_seq(s[u + 1])
              ELSE u = i
    BY <1>3 DEF IsRow
  <2>2. PICK j, v \in S \cup D :
           /\ new = [inserted |-> s[j + 1], updated |-> s[v + 1]]
           /\ \A x \in S \cup D : j <= x
           /\ IF k \in MergedKeys
              THEN \A x \in S \cup D : /\ event_seq(s[x + 1]) <= event_seq(s[v + 1])
                                       /\ x < v => event_seq(s[x + 1]) < event_seq(s[v + 1])
              ELSE v = j
    BY <1>3 DEF IsRow
  <2>3. i = j
    <3>1. j <= i /\ (j \in S => i <= j) /\ (j \in D => i < j)
      BY <2>1, <2>2
    <3> QED BY <1>0, <3>1
  <2>4. row # NoRow
    BY <1>3, IsRowType
  <2>5. row.inserted = s[i + 1] /\ row.updated = s[u + 1]
    BY <2>1
  <2>6. CASE k \notin MergedKeys
    BY <1>3, <2>1, <2>2, <2>3, <2>4, <2>6 DEF Promise!TakeIn
  <2>7. CASE k \in MergedKeys /\ v \in D
    <3>1. Promise!Richest(s, D) = v
      <4>1. D \in SUBSET Int /\ \A x \in D : event_seq(s[x + 1]) \in Int
        BY <1>0
      <4>2. \A x \in D : /\ event_seq(s[x + 1]) <= event_seq(s[v + 1])
                         /\ x < v => event_seq(s[x + 1]) < event_seq(s[v + 1])
        BY <2>2, <2>7
      <4> QED BY <2>7, <4>1, <4>2, RichestIs
    <3>2. event_seq(s[v + 1]) > event_seq(s[u + 1])
      BY <1>0, <2>2, <2>7
    <3> QED BY <1>3, <2>2, <2>3, <2>4, <2>5, <2>7, <3>1, <3>2 DEF Promise!TakeIn
  <2>8. CASE k \in MergedKeys /\ v \in S
    <3>1. v = u
      BY <1>0, <2>1, <2>2, <2>8, SMTT(30)
    <3>2. PICK b \in D : \A x \in D : /\ event_seq(s[x + 1]) <= event_seq(s[b + 1])
                                      /\ x < b => event_seq(s[x + 1]) < event_seq(s[b + 1])
      <4>1. event_seq(s[v + 1]) \in Nat /\ D \in SUBSET Nat
        BY <1>0
      <4>2. \A x \in D : event_seq(s[x + 1]) \in Nat /\ event_seq(s[x + 1]) <= event_seq(s[v + 1])
        BY <1>0, <2>2, <2>8
      <4> QED BY <1>3, <4>1, <4>2, RichestExists
    <3>3. Promise!Richest(s, D) = b
      <4>1. D \in SUBSET Int /\ \A x \in D : event_seq(s[x + 1]) \in Int
        BY <1>0, SMTT(30)
      <4> QED BY <3>2, <4>1, RichestIs
    <3>4. ~(event_seq(s[b + 1]) > event_seq(s[u + 1]))
      BY <1>0, <2>2, <2>8, <3>1
    <3>5. new = row
      BY <2>1, <2>2, <2>3, <3>1
    <3> QED BY <1>3, <2>4, <2>5, <3>3, <3>4, <3>5 DEF Promise!TakeIn
  <2> QED BY <2>6, <2>7, <2>8
<1> QED BY <1>1, <1>2, <1>3

(* A COMMIT that is served is a Take, with or without its worker. *)
LEMMA PromiseTake ==
    ASSUME SinkInv, NEW w \in Workers, ServerCommit(w)
    PROVE  Promise!Take
<1>1. SinkInv' /\ \A p \in Partitions : consumer_offsets[p] <= consumer_offsets'[p]
  BY ServerCommitInv
<1>2. log' = log
  BY DEF ServerCommit
<1>3. PICK c, d : c = consumer_offsets /\ d = consumer_offsets'
  OBVIOUS
<1>4. ASSUME NEW p \in Partitions
      PROVE  /\ c[p] \in Int /\ d[p] \in Int /\ c[p] >= -1 /\ c[p] <= d[p] /\ d[p] < Len(log[p])
             /\ log[p] \in Seq(Record \cup {Poison}) /\ Len(log[p]) \in Nat
  BY <1>1, <1>2, <1>3, LenProperties DEF SinkInv, TypeOK, NoOffset
<1>5. PICK a, b : a = [p \in Partitions |-> c[p] + 1] /\ b = [p \in Partitions |-> d[p] + 1]
  OBVIOUS
<1>6. /\ b \in [Partitions -> Nat]
      /\ \A p \in Partitions : a[p] <= b[p] /\ b[p] <= Len(log[p])
  BY <1>4, <1>5
<1>7. ASSUME NEW k \in Keys
      PROVE  raw'[k] = Promise!TakeIn(raw[k], k, log[PartitionOf[k]],
                           Promise!Between(log[PartitionOf[k]], k, a[PartitionOf[k]], b[PartitionOf[k]]))
  <2>1. PICK p, s, D : p = PartitionOf[k] /\ s = log[p] /\ D = Promise!Between(s, k, a[p], b[p])
    OBVIOUS
  <2>2. p \in Partitions
    BY <2>1, KeyAssumption
  <2>3. PICK m, n : m = c[p] /\ n = d[p]
    OBVIOUS
  <2>4. m \in Int /\ n \in Int /\ m <= n /\ m >= -1 /\ n < Len(s) /\ s \in Seq(Record \cup {Poison})
    BY <1>4, <2>1, <2>2, <2>3
  <2>5. D = {o \in (m + 1)..n : s[o + 1] # Poison /\ s[o + 1].key = k}
    <3>1. a[p] = m + 1 /\ b[p] - 1 = n
      BY <1>5, <2>2, <2>3, <2>4
    <3> QED BY <2>1, <3>1 DEF Promise!Between
  <2>6. PICK S, T : S = KeyOffsets(s, k, m) /\ T = KeyOffsets(s, k, n)
    OBVIOUS
  <2>7. T = S \cup D /\ S \subseteq T /\ D \subseteq T /\ \A x \in S : \A y \in D : x < y
    BY <2>4, <2>5, <2>6 DEF KeyOffsets
  <2>8. IsRow(raw[k], k, s, S) /\ IsRow(raw'[k], k, s, T)
    BY <1>1, <1>2, <1>3, <2>1, <2>3, <2>6 DEF SinkInv, TablesOK
  <2>9. raw'[k] = Promise!TakeIn(raw[k], k, s, D)
    <3>1. PICK row, new : row = raw[k] /\ new = raw'[k]
      OBVIOUS
    <3>2. S \in SUBSET KeyOffsets(s, k, n) /\ D \in SUBSET KeyOffsets(s, k, n)
      BY <2>6, <2>7
    <3>3. IsRow(row, k, s, S) /\ IsRow(new, k, s, S \cup D)
      BY <2>7, <2>8, <3>1
    <3>4. \A x \in S : \A y \in D : x < y
      BY <2>7
    <3>5. new = Promise!TakeIn(row, k, s, D)
      BY <2>4, <3>2, <3>3, <3>4, TakeInRow
    <3> QED BY <3>1, <3>5
  <2> QED BY <2>1, <2>9
<1>8. raw' = [k \in Keys |-> raw'[k]]
  BY <1>1 DEF SinkInv, TypeOK
<1>9. raw' = [k \in Keys |-> Promise!TakeIn(raw[k], k, log[PartitionOf[k]],
                 Promise!Between(log[PartitionOf[k]], k, a[PartitionOf[k]], b[PartitionOf[k]]))]
  BY <1>7, <1>8
<1>10. a = [p \in Partitions |-> consumer_offsets[p] + 1] /\ b = [p \in Partitions |-> consumer_offsets[p] + 1]'
  BY <1>3, <1>5
<1> QED BY <1>2, <1>6, <1>9, <1>10 DEF Promise!Take

(* Before anything happens the tables are empty. *)
LEMMA PromiseInit == Init => Promise!Init
<1> SUFFICES ASSUME Init PROVE Promise!Init
  OBVIOUS
<1>1. [p \in Partitions |-> consumer_offsets[p] + 1] = [p \in Partitions |-> 0]
  BY DEF Init, NoOffsets, NoOffset
<1> QED BY <1>1 DEF Init, Promise!Init

(* Each step of the sink is a step of the promise or invisible. *)
LEMMA PromiseNext == SinkInv /\ [Next]_vars => [Promise!Next]_(Promise!vars)
<1> SUFFICES ASSUME SinkInv, [Next]_vars PROVE [Promise!Next]_(Promise!vars)
  OBVIOUS
<1>1. ASSUME UNCHANGED <<log, raw, consumer_offsets>> PROVE UNCHANGED Promise!vars
  BY <1>1 DEF Promise!vars
<1>2. ASSUME NEW p \in Partitions, Produce(p) PROVE Promise!Next
  <2>1. [q \in Partitions |-> consumer_offsets[q] + 1]' = [q \in Partitions |-> consumer_offsets[q] + 1]
    BY <1>2 DEF Produce, postgres
  <2> QED BY <1>2, <2>1 DEF Promise!Next, Promise!Append1, Produce, MessagesOf, postgres
<1>3. ASSUME NEW w \in Workers, ServerCommit(w) PROVE Promise!Next
  BY <1>3, PromiseTake DEF Promise!Next
<1>4. ASSUME NEW w \in Workers, WorkerStep(w) \/ Deliver(w) \/ ServerRollback(w) \/ Failure(w)
      PROVE  UNCHANGED <<log, raw, consumer_offsets>>
  BY <1>4 DEF WorkerStep, Failure, Start, OnAssign, Consume, BeginWrite, ExecuteUpsert,
     ExecuteOffset, CommitReturns, DeadlockVictim, Raise, Close, Crash, Rebalance, Deliver,
     ServerRollback, postgres
<1>5. CASE UNCHANGED vars
  BY <1>1, <1>5 DEF vars, postgres
<1> QED BY <1>1, <1>2, <1>3, <1>4, <1>5 DEF Next

(* The sink implements TablesExactlyOnce: whatever workers crash, replay a *)
(* batch, work on the same partitions or leave a COMMIT behind, the tables *)
(* take in every record once, in order, together with the position         *)
(* (process_batch, UPSERTS, OFFSET_UPSERT, on_assign).                     *)
THEOREM SinkKeepsPromise == Spec => ImplementsExactlyOnce
BY PromiseInit, PromiseNext, SinkInvariant, PTL DEF Spec, ImplementsExactlyOnce, Promise!Spec
=============================================================================
