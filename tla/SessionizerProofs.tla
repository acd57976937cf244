------------------------- MODULE SessionizerProofs -------------------------
(***************************************************************************)
(* Theorems about Sessionizer, for every number of partitions, rides and   *)
(* records, every lifecycle and every timeout.                             *)
(***************************************************************************)
EXTENDS SessionizerInduction, WellFoundedInduction, SequenceTheorems, TLAPS

(* A non-empty set of numbers below a bound has a maximum: what Max is     *)
(* used for on the event times in the journal (max_journal_ts).            *)
LEMMA BoundedMax ==
    ASSUME NEW b \in Nat, NEW S \in SUBSET (0..b), S # {}
    PROVE  Max(S) \in S /\ \A y \in S : Max(S) >= y
<1> DEFINE T == {b - x : x \in S}
<1>1. T \subseteq Nat /\ T # {}
  <2>1. \A x \in S : x \in 0..b
    OBVIOUS
  <2>2. \A x \in S : b - x \in Nat
    BY <2>1
  <2> QED BY <2>2
<1>2. PICK m \in T : \A y \in T : ~(<<y, m>> \in OpToRel(<, Nat))
  <2> HIDE DEF T
  <2> QED BY <1>1, NatLessThanWellFounded, WFMin, Zenon
<1>3. PICK x \in S : m = b - x
  OBVIOUS
<1>4. \A y \in S : x >= y
  <2> SUFFICES ASSUME NEW y \in S, ~(x >= y) PROVE FALSE
    OBVIOUS
  <2>1. b - y \in T /\ b - y \in Nat /\ m \in Nat /\ b - y < m
    BY <1>3
  <2>2. <<b - y, m>> \in OpToRel(<, Nat)
    BY <2>1 DEF OpToRel
  <2> QED BY <2>1, <2>2, <1>2
<1> QED BY <1>4 DEF Max

-----------------------------------------------------------------------------
(* build_session returns a session record for every set of slots. *)
LEMMA SessionType ==
    ASSUME NEW slots \in SUBSET RideEventType
    PROVE  build_session(slots) \in Session
<1>1. terminal(slots) # {} => (CHOOSE t \in terminal(slots) : TRUE) \in TERMINAL_STATES
  BY DEF terminal
<1> QED BY <1>1 DEF build_session, Session

(* A process that holds nothing, and a transaction without content, have   *)
(* the right types.                                                        *)
LEMMA EmptyTypes ==
    /\ NoSessions \in [Rides -> Seq(Session)]
    /\ NoRecords \in Output
    /\ NoOffsets \in [Partitions -> 0..MaxLog \cup {NoOffset}]
    /\ NoOffsets \in [Partitions -> Offsets \cup {NoOffset}]
    /\ EmptyBatch \in Batch
    /\ EmptyBatch.journal = {}
    /\ \A s \in {"empty", "complete_commit", "complete_abort"} : EmptyTxn(s) \in Txn
<1>1. /\ NoSessions \in [Rides -> Seq(Session)]
      /\ NoRecords \in Output
      /\ NoOffsets \in [Partitions -> 0..MaxLog \cup {NoOffset}]
      /\ NoOffsets \in [Partitions -> Offsets \cup {NoOffset}]
  BY DEF NoSessions, NoRecords, NoOffsets, Output
<1>2. EmptyBatch \in Batch
  BY <1>1, BoundAssumption DEF EmptyBatch, Batch
<1>3. EmptyBatch.journal = {}
  BY DEF EmptyBatch
<1>4. \A s \in {"empty", "complete_commit", "complete_abort"} : EmptyTxn(s) \in Txn
  BY <1>1 DEF EmptyTxn, Txn
<1> QED BY <1>1, <1>2, <1>3, <1>4

(* A restart leaves the process with memory of the right type. *)
LEMMA FreshTypes ==
    ASSUME FreshMemory
    PROVE  /\ accs' \in [Rides -> SUBSET RideEventType]
           /\ watermark' \in [Partitions -> 0..MaxEventTs]
           /\ position' \in [Partitions -> 0..MaxLog]
           /\ batch' \in Batch
           /\ batch'.journal = {}
BY EmptyTypes, BoundAssumption, TimeAssumption DEF FreshMemory

(* A record of the log, at an offset below its end. *)
LEMMA LogTypes ==
    ASSUME TypeOK, NEW p \in Partitions
    PROVE  /\ Len(log[p]) \in Nat
           /\ \A o \in Nat : o < Len(log[p]) => Message(p, o) \in Event \cup {Poison}
<1>1. log[p] \in Seq(Event \cup {Poison})
  BY DEF TypeOK
<1> DEFINE M == Event \cup {Poison}
<1> HIDE DEF M
<1>2. log[p] \in Seq(M)
  BY <1>1 DEF M
<1>3. Len(log[p]) \in Nat /\ \A i \in 1..Len(log[p]) : log[p][i] \in M
  BY <1>2
<1> QED BY <1>3 DEF M, Message

(* The type invariant holds initially: an empty store and no transaction.  *)
LEMMA TypeInit == Init => TypeInv
BY EmptyTypes, BoundAssumption, TimeAssumption
   DEF Init, TypeInv, TypeOK, RowsDecoded

(* Every step of the sessionizer, the broker and its clients keeps the     *)
(* types.                                                                  *)
LEMMA TypeNext == TypeInv /\ [Next]_vars => TypeInv'
<1> SUFFICES ASSUME TypeInv, [Next]_vars PROVE TypeInv'
  OBVIOUS
<1> USE BoundAssumption, TimeAssumption, PartitionAssumption
<1>a. TypeOK
  BY DEF TypeInv
<1>b. \A p \in Partitions : Resume(p) \in 0..MaxLog
  BY <1>a DEF TypeOK, Resume, NoOffset
<1>1. ASSUME NEW p \in Partitions, Produce(p) PROVE TypeInv'
  <2>1. log' \in [Partitions -> Seq(Event \cup {Poison})]
    BY <1>1, <1>a DEF TypeOK, Produce, MessagesOf
  <2>2. TypeOK'
    BY <1>1, <1>a, <2>1 DEF TypeOK, Produce, topics, store, memory
  <2>3. \A q \in Partitions : Len(log'[q]) \in Len(log[q])..MaxLog
    BY <1>1, <1>a DEF TypeInv, TypeOK, Produce
  <2>4. \A q \in Partitions : \A i \in 1..Len(log[q]) : log'[q][i] = log[q][i]
    BY <1>1, <1>a DEF TypeOK, Produce
  <2>5. RowsDecoded'
    <3> SUFFICES ASSUME NEW row \in journal \cup batch.journal
                 PROVE  row[2] < Len(log'[row[1]]) /\ log'[row[1]][row[2] + 1] # Poison
      BY <1>1 DEF RowsDecoded, Message, Produce, store, memory
    <3>1. row[1] \in Partitions /\ row[2] \in Offsets
      BY <1>a DEF TypeOK, Batch
    <3>2. row[2] < Len(log[row[1]]) /\ log[row[1]][row[2] + 1] # Poison
      BY DEF TypeInv, RowsDecoded, Message
    <3>3. row[2] + 1 \in 1..Len(log[row[1]]) /\ Len(log[row[1]]) \in Nat
      BY <3>1, <3>2, <1>a, LogTypes DEF Offsets
    <3> QED BY <3>1, <3>2, <3>3, <2>3, <2>4 DEF Offsets
  <2> QED BY <2>2, <2>3, <2>5 DEF TypeInv
<1>2. CASE Start
  BY <1>2, EmptyTypes DEF TypeInv, TypeOK, Start, topics, store, RowsDecoded, Message
<1>3. ASSUME NEW p \in Partitions, OnAssignRollback(p) PROVE TypeInv'
  BY <1>3 DEF TypeInv, TypeOK, OnAssignRollback, topics, RowsDecoded, Message,
              JournalAfterRollback, ClosesAfterRollback
<1>4. ASSUME NEW p \in Partitions, OnAssignRebuild(p) PROVE TypeInv'
  <2>1. journal' \subseteq journal
    BY <1>4 DEF OnAssignRebuild, JournalAfterPurge
  <2>2. JournalTs(journal', p) \subseteq 0..MaxEventTs
    <3> SUFFICES ASSUME NEW row \in journal'
                 PROVE  ts(Message(row[1], row[2])) \in 0..MaxEventTs
      BY DEF JournalTs
    <3>1. row[1] \in Partitions /\ row[2] \in Offsets
      BY <1>a, <2>1 DEF TypeOK
    <3>2. row[2] < Len(log[row[1]]) /\ Message(row[1], row[2]) # Poison
      BY <2>1 DEF TypeInv, RowsDecoded
    <3>3. Message(row[1], row[2]) \in Event
      BY <3>1, <3>2, <1>a, LogTypes DEF Offsets
    <3> QED BY <3>3 DEF ts, Event
  <2>3. max_journal_ts(journal', p) \in 0..MaxEventTs
    <3> DEFINE S == JournalTs(journal', p) \cup {0}
    <3>1. S \in SUBSET (0..MaxEventTs) /\ S # {}
      BY <2>2
    <3> HIDE DEF S
    <3>2. Max(S) \in S
      BY <3>1, BoundedMax
    <3> QED BY <3>1, <3>2 DEF max_journal_ts, S
  <2>4. accs' \in [Rides -> SUBSET RideEventType]
    BY <1>4, <1>a DEF OnAssignRebuild, JournalTypes, TypeOK
  <2>5. TypeOK'
    BY <1>4, <1>a, <1>b, <2>1, <2>3, <2>4 DEF OnAssignRebuild, TypeOK, topics
  <2> QED BY <1>4, <2>1, <2>5 DEF TypeInv, OnAssignRebuild, RowsDecoded, Message
<1>5. CASE OnRevoke
  BY <1>5, FreshTypes DEF TypeInv, TypeOK, OnRevoke, topics, store, RowsDecoded, Message
<1>6. ASSUME NEW p \in Partitions, Consume(p) PROVE TypeInv'
  <2> DEFINE o == position[p]
  <2>1. o \in Offsets /\ o + 1 \in 1..Len(log[p]) /\ o + 1 \in 0..MaxLog
    BY <1>6, <1>a DEF TypeInv, TypeOK, Consume, Offsets
  <2>2. batch.consumed + 1 \in 0..BatchMax
    BY <1>6, <1>a DEF Consume, TypeOK, Batch
  <2>a. \A s \in Output : [s EXCEPT ![p] = Append(@, o)] \in Output
    BY <2>1 DEF Output
  <2>b. [batch.max_offset EXCEPT ![p] = o] \in [Partitions -> Offsets \cup {NoOffset}]
    BY <2>1, <1>a DEF TypeOK, Batch
  <2>3. position' \in [Partitions -> 0..MaxLog]
    BY <1>6, <1>a, <2>1 DEF Consume, TypeOK
  <2>4. CASE Message(p, o) = Poison
    <3>1. ConsumePoison(p)
      BY <1>6, <2>4 DEF Consume
    <3> HIDE DEF o
    <3>a. batch' \in Batch
      BY <3>1, <1>a, <2>2, <2>a, <2>b DEF o, ConsumePoison, TypeOK, Batch
    <3>2. TypeOK'
      BY <1>6, <3>1, <3>a, <1>a, <2>3 DEF Consume, ConsumePoison, TypeOK, topics, store
    <3>3. batch'.journal = batch.journal
      BY <3>1, <1>a DEF ConsumePoison, TypeOK, Batch
    <3> QED BY <1>6, <3>2, <3>3 DEF TypeInv, RowsDecoded, Message, Consume, store
  <2>5. CASE Message(p, o) # Poison
    <3> DEFINE e == Message(p, o)
    <3>1. ConsumeEvent(p, e)
      BY <1>6, <2>5 DEF Consume
    <3>2. e \in Event
      BY <2>1, <2>5, <1>a, LogTypes DEF Offsets
    <3>3. e.ride_id \in Rides /\ e.event_type \in RideEventType /\ ts(e) \in 0..MaxEventTs
      BY <3>2 DEF Event, ts
    <3> HIDE DEF e
    <3>4. watermark' \in [Partitions -> 0..MaxEventTs]
      BY <3>1, <3>3, <1>a DEF ConsumeEvent, TypeOK
    <3>5. accs' \in [Rides -> SUBSET RideEventType]
      BY <3>1, <3>3, <1>a DEF ConsumeEvent, TypeOK
    <3>6. batch'.journal \subseteq batch.journal \cup {<<p, o>>}
      BY <3>1, <1>a DEF ConsumeEvent, TypeOK, Batch, o
    <3>7. batch' \in Batch
      <4>1. (IF is_closed(e.ride_id) THEN batch.journal ELSE batch.journal \cup {<<p, o>>})
                \in SUBSET (Partitions \X Offsets)
        BY <2>1, <1>a DEF TypeOK, Batch
      <4> QED BY <3>1, <4>1, <1>a, <2>2, <2>a, <2>b DEF ConsumeEvent, TypeOK, Batch, o
    <3>8. TypeOK'
      BY <1>6, <3>4, <3>5, <3>7, <2>3, <1>a DEF Consume, TypeOK, topics, store
    <3>9. RowsDecoded'
      BY <1>6, <3>6, <2>1, <2>5, <1>a DEF TypeInv, RowsDecoded, Message, Consume, store, TypeOK
    <3> QED BY <1>6, <3>8, <3>9 DEF TypeInv, Consume
  <2> QED BY <2>4, <2>5
<1>7. CASE CollectCloses
  <2>1. \A r \in Rides : build_session(accs[r]) \in Session
    BY <1>a, SessionType DEF TypeOK
  <2>2. [r \in Rides |-> IF Closable(r) THEN <<build_session(accs[r])>> ELSE <<>>]
            \in [Rides -> Seq(Session)]
    BY <2>1
  <2> QED BY <1>7, <2>2 DEF TypeInv, TypeOK, Batch, CollectCloses, topics, store, RowsDecoded, Message
<1>8. CASE AppendBatch
  BY <1>8 DEF TypeInv, TypeOK, Batch, AppendBatch, topics, memory, RowsDecoded, Message
<1>9. CASE ProduceOutputs
  BY <1>9, EmptyTypes DEF TypeInv, TypeOK, Txn, Batch, ProduceOutputs, topics, store, memory, RowsDecoded, Message
<1>10. CASE SendOffsets
  <2>1. \A p \in Partitions : OffsetToCommit(p) \in 0..MaxLog \cup {NoOffset}
    <3>1. \A p \in Partitions : batch.max_offset[p] \in Offsets \cup {NoOffset}
      BY <1>a DEF TypeOK, Batch
    <3> QED BY <3>1 DEF OffsetToCommit, Offsets, NoOffset
  <2> QED BY <1>10, <2>1 DEF TypeInv, TypeOK, Txn, SendOffsets, topics, store, memory,
                             RowsDecoded, Message
<1>11. CASE EndTxn
  BY <1>11 DEF TypeInv, TypeOK, Txn, EndTxn, topics, store, memory, RowsDecoded, Message
<1>12. CASE CompleteCommit
  <2>1. /\ rides_sessions' \in [Rides -> Seq(Session)]
        /\ rides_clean' \in Output
        /\ rides_dlq' \in Output
        /\ committed' \in [Partitions -> 0..MaxLog \cup {NoOffset}]
    <3>1. /\ txn.sessions \in [Rides -> Seq(Session)] /\ txn.clean \in Output /\ txn.dlq \in Output
          /\ txn.offsets \in [Partitions -> 0..MaxLog \cup {NoOffset}]
          /\ rides_sessions \in [Rides -> Seq(Session)] /\ rides_clean \in Output
          /\ rides_dlq \in Output
          /\ committed \in [Partitions -> 0..MaxLog \cup {NoOffset}]
      BY <1>a DEF TypeOK, Txn
    <3>2. rides_sessions' \in [Rides -> Seq(Session)]
      BY <3>1, <1>12 DEF CompleteCommit
    <3>3. rides_clean' \in Output /\ rides_dlq' \in Output
      BY <3>1, <1>12 DEF CompleteCommit, Output
    <3> QED BY <3>1, <3>2, <3>3, <1>12 DEF CompleteCommit
  <2>2. TypeOK'
    BY <1>12, <1>a, <2>1, EmptyTypes DEF TypeOK, CompleteCommit, store, memory
  <2> QED BY <1>12, <2>2 DEF TypeInv, CompleteCommit, store, memory, RowsDecoded, Message
<1>13. CASE PostCommit
  BY <1>13, EmptyTypes DEF TypeInv, TypeOK, PostCommit, topics, store, RowsDecoded, Message
<1>14. CASE AbortBatch
  BY <1>14, EmptyTypes DEF TypeInv, TypeOK, AbortBatch, topics, store, RowsDecoded, Message
<1>15. ASSUME NEW p \in Partitions, RollbackAborted(p) PROVE TypeInv'
  <2>1. journal' \subseteq journal /\ closes' \in [Rides -> Offsets \cup {NoOffset}]
    BY <1>15, <1>a DEF RollbackAborted, JournalAfterRollback, ClosesAfterRollback, TypeOK
  <2>2. CASE pc' = "down" /\ FreshMemory
    BY <1>15, <2>1, <2>2, FreshTypes DEF TypeInv, TypeOK, RollbackAborted, topics, RowsDecoded,
                                         Message
  <2>3. CASE UNCHANGED <<pc, accs, watermark, position, batch>>
    BY <1>15, <2>1, <2>3 DEF TypeInv, TypeOK, RollbackAborted, topics, RowsDecoded, Message
  <2> QED BY <1>15, <2>2, <2>3 DEF RollbackAborted
<1>16. CASE TxnTimeout
  BY <1>16, EmptyTypes DEF TypeInv, TypeOK, TxnTimeout, topics, store, memory, RowsDecoded, Message
<1>17. CASE Crash
  BY <1>17, FreshTypes DEF TypeInv, TypeOK, Crash, topics, store, RowsDecoded, Message
<1>18. CASE UNCHANGED vars
  BY <1>18 DEF TypeInv, TypeOK, vars, topics, store, memory, RowsDecoded, Message
<1> QED
  BY <1>1, <1>2, <1>3, <1>4, <1>5, <1>6, <1>7, <1>8, <1>9, <1>10, <1>11, <1>12,
     <1>13, <1>14, <1>15, <1>16, <1>17, <1>18
     DEF Next, ProcessStep, Failure, TransactFails, TransactRefused

(* Every table, topic and local of the sessionizer keeps its type. *)
THEOREM TypeCorrect == Spec => []TypeOK
<1>1. TypeInv => TypeOK
  BY DEF TypeInv
<1> QED BY <1>1, TypeInit, TypeNext, PTL DEF Spec
============================================================================
