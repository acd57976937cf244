---------------------- MODULE SessionizerSafetyProofs ----------------------
(***************************************************************************)
(* IInv is an inductive invariant of Sessionizer; the safety properties    *)
(* and the refinement of SessionsExactlyOnce follow from it.               *)
(***************************************************************************)
EXTENDS SessionizerProofs

(* A sequence of offsets is a sequence of numbers. *)
LEMMA OffsetSeqs == \A s \in Seq(Offsets) : s \in Seq(Nat)
<1> SUFFICES ASSUME NEW s \in Seq(Offsets) PROVE s \in Seq(Nat)
  OBVIOUS
<1>1. PICK n \in Nat : s \in [1..n -> Offsets]
  BY SeqDef
<1>2. s \in [1..n -> Nat]
  BY <1>1, BoundAssumption DEF Offsets
<1> QED BY <1>2, SeqDef

(* Listings: the empty one, one more offset at the end, one after another. *)
LEMMA ListsEmpty == Lists(<<>>, {})
BY DEF Lists

(* One more offset, later than the others, extends a listing.              *)
LEMMA ListsAppend ==
    ASSUME NEW s \in Seq(Nat), NEW S, Lists(s, S), NEW o \in Nat, \A x \in S : x < o
    PROVE  Lists(Append(s, o), S \cup {o})
<1> DEFINE a == Append(s, o)
<1>1. /\ Len(a) = Len(s) + 1 /\ Len(s) \in Nat
      /\ \A i \in 1..Len(s) : a[i] = s[i] /\ s[i] \in Nat /\ s[i] \in S
      /\ a[Len(s) + 1] = o
  BY DEF Lists
<1> HIDE DEF a
<1>2. {a[i] : i \in 1..Len(a)} = S \cup {o}
  <2>1. S = {s[i] : i \in 1..Len(s)}
    BY DEF Lists
  <2>2. \A i \in 1..Len(a) : i \in 1..Len(s) \/ i = Len(s) + 1
    BY <1>1
  <2>3. Len(s) + 1 \in 1..Len(a) /\ \A i \in 1..Len(s) : i \in 1..Len(a)
    BY <1>1
  <2>4. \A x \in S : \E i \in 1..Len(a) : x = a[i]
    BY <1>1, <2>1, <2>3
  <2> QED BY <1>1, <2>2, <2>3, <2>4
<1>3. \A i, j \in 1..Len(a) : i < j => a[i] < a[j]
  <2>1. \A i, j \in 1..Len(s) : i < j => s[i] < s[j]
    BY DEF Lists
  <2>2. \A i, j \in 1..Len(a) : i < j =>
           i \in 1..Len(s) /\ (j \in 1..Len(s) \/ j = Len(s) + 1)
    BY <1>1
  <2> QED BY <1>1, <2>1, <2>2
<1> QED BY <1>2, <1>3 DEF Lists, a

(* Two listings, one wholly before the other, make one (outputs of         *)
(* successive batches).                                                    *)
LEMMA ListsConcat ==
    ASSUME NEW s \in Seq(Nat), NEW S, Lists(s, S), NEW t \in Seq(Nat), NEW T, Lists(t, T),
           \A x \in S, y \in T : x < y
    PROVE  Lists(s \o t, S \cup T)
<1> DEFINE c == s \o t
<1>1. /\ Len(c) = Len(s) + Len(t) /\ Len(s) \in Nat /\ Len(t) \in Nat
      /\ \A i \in 1..Len(s) : c[i] = s[i] /\ s[i] \in S /\ s[i] \in Nat
      /\ \A i \in 1..Len(t) : c[Len(s) + i] = t[i] /\ t[i] \in T /\ t[i] \in Nat
  BY DEF Lists
<1> HIDE DEF c
<1>2. \A i \in 1..Len(c) : i \in 1..Len(s) \/ (i - Len(s) \in 1..Len(t) /\ c[i] = t[i - Len(s)])
  <2> SUFFICES ASSUME NEW i \in 1..Len(c), i \notin 1..Len(s)
               PROVE  i - Len(s) \in 1..Len(t) /\ c[i] = t[i - Len(s)]
    OBVIOUS
  <2>1. i - Len(s) \in 1..Len(t) /\ Len(s) + (i - Len(s)) = i
    BY <1>1
  <2> QED BY <1>1, <2>1
<1>3. {c[i] : i \in 1..Len(c)} = S \cup T
  <2>1. \A x \in S : \E i \in 1..Len(c) : x = c[i]
    <3>1. \A x \in S : \E i \in 1..Len(s) : x = s[i]
      BY DEF Lists
    <3> QED BY <1>1, <3>1
  <2>2. \A x \in T : \E i \in 1..Len(c) : x = c[i]
    <3>1. \A x \in T : \E i \in 1..Len(t) : x = t[i]
      BY DEF Lists
    <3>2. \A i \in 1..Len(t) : Len(s) + i \in 1..Len(c)
      BY <1>1
    <3> QED BY <1>1, <3>1, <3>2, ZenonT(60)
  <2>3. \A i \in 1..Len(c) : c[i] \in S \cup T
    BY <1>1, <1>2
  <2> QED BY <2>1, <2>2, <2>3
<1>4. \A i, j \in 1..Len(c) : i < j => c[i] < c[j]
  <2> SUFFICES ASSUME NEW i \in 1..Len(c), NEW j \in 1..Len(c), i < j PROVE c[i] < c[j]
    OBVIOUS
  <2>1. CASE j \in 1..Len(s)
    <3>1. i \in 1..Len(s)
      BY <1>1, <2>1
    <3>2. s[i] < s[j]
      BY <3>1, <2>1 DEF Lists
    <3> QED BY <1>1, <2>1, <3>1, <3>2
  <2>2. CASE i \in 1..Len(s) /\ j \notin 1..Len(s)
    BY <1>1, <1>2, <2>2
  <2>3. CASE i \notin 1..Len(s) /\ j \notin 1..Len(s)
    <3>1. i - Len(s) < j - Len(s)
      BY <1>1
    <3> QED BY <1>2, <2>3, <3>1 DEF Lists
  <2>4. i \notin 1..Len(s) => j \notin 1..Len(s)
    BY <1>1
  <2> QED BY <2>1, <2>2, <2>3, <2>4
<1> QED BY <1>3, <1>4 DEF Lists, c

-----------------------------------------------------------------------------
(* Appending to a partition does not change what its first n records say. *)
LEMMA PrefixStable ==
    ASSUME NEW lg, NEW lh, NEW p \in Partitions, NEW n \in Nat,
           \A i \in 1..n : lh[p][i] = lg[p][i]
    PROVE  /\ Decoded(lh, p, n) = Decoded(lg, p, n)
           /\ Poisoned(lh, p, n) = Poisoned(lg, p, n)
           /\ SeenTs(lh, p, n) = SeenTs(lg, p, n)
           /\ \A r \in Rides : PartitionOf[r] = p =>
                 /\ SeenTypes(lh, r, n) = SeenTypes(lg, r, n)
                 /\ Overdue(lh, r, n) <=> Overdue(lg, r, n)
<1>1. \A o \in 0..(n - 1) : lh[p][o + 1] = lg[p][o + 1]
  OBVIOUS
<1>2. Decoded(lh, p, n) = Decoded(lg, p, n) /\ Poisoned(lh, p, n) = Poisoned(lg, p, n)
  BY <1>1 DEF Decoded, Poisoned
<1>3. SeenTs(lh, p, n) = SeenTs(lg, p, n)
  <2>1. \A o \in Decoded(lg, p, n) : lh[p][o + 1] = lg[p][o + 1]
    BY <1>1 DEF Decoded
  <2> QED BY <1>2, <2>1 DEF SeenTs
<1>4. \A r \in Rides : PartitionOf[r] = p => SeenTypes(lh, r, n) = SeenTypes(lg, r, n)
  BY <1>1 DEF SeenTypes
<1> QED BY <1>2, <1>3, <1>4 DEF Overdue

(* What one more record adds. *)
LEMMA PrefixStep ==
    ASSUME NEW lg, NEW p \in Partitions, NEW n \in Nat
    PROVE  /\ Decoded(lg, p, n + 1) =
                 Decoded(lg, p, n) \cup (IF lg[p][n + 1] = Poison THEN {} ELSE {n})
           /\ SeenTs(lg, p, n + 1) =
                 SeenTs(lg, p, n) \cup (IF lg[p][n + 1] = Poison THEN {} ELSE {ts(lg[p][n + 1])})
           /\ \A r \in Rides : PartitionOf[r] = p =>
                 SeenTypes(lg, r, n + 1) =
                    SeenTypes(lg, r, n) \cup
                       {t \in RideEventType : lg[p][n + 1] = [ride_id |-> r, event_type |-> t]}
<1>1. 0..((n + 1) - 1) = (0..(n - 1)) \cup {n}
  OBVIOUS
<1>2. Decoded(lg, p, n + 1) =
         Decoded(lg, p, n) \cup (IF lg[p][n + 1] = Poison THEN {} ELSE {n})
  BY <1>1 DEF Decoded
<1>3. SeenTs(lg, p, n + 1) =
         SeenTs(lg, p, n) \cup (IF lg[p][n + 1] = Poison THEN {} ELSE {ts(lg[p][n + 1])})
  BY <1>2 DEF SeenTs
<1>4. ASSUME NEW r \in Rides, PartitionOf[r] = p
      PROVE  SeenTypes(lg, r, n + 1) = SeenTypes(lg, r, n) \cup
                {t \in RideEventType : lg[p][n + 1] = [ride_id |-> r, event_type |-> t]}
  BY <1>1, <1>4 DEF SeenTypes
<1> QED BY <1>2, <1>3, <1>4

(* Offsets below c, and those from c on, make up the prefix. *)
LEMMA PrefixSplit ==
    ASSUME NEW p \in Partitions, NEW c \in Nat, NEW n \in Nat, c <= n
    PROVE  /\ Decoded(log, p, n) = Decoded(log, p, c) \cup DecodedIn(p, c, n)
           /\ Poisoned(log, p, n) = Poisoned(log, p, c) \cup PoisonedIn(p, c, n)
           /\ \A x \in Decoded(log, p, c), y \in DecodedIn(p, c, n) : x < y
           /\ \A x \in Poisoned(log, p, c), y \in PoisonedIn(p, c, n) : x < y
BY DEF Decoded, DecodedIn, Poisoned, PoisonedIn, Message

-----------------------------------------------------------------------------
(* Facts about any state of the invariant.                                 *)

(* The offset on_assign resumes at lies within the log.                    *)
LEMMA Bounds ==
    ASSUME TypeOK, LogInv, NEW p \in Partitions
    PROVE  /\ Resume(p) \in Nat /\ Len(log[p]) \in Nat /\ Resume(p) <= Len(log[p])
           /\ committed[p] = NoOffset => Resume(p) = 0
           /\ committed[p] # NoOffset => Resume(p) = committed[p]
<1>1. committed[p] \in 0..MaxLog \cup {NoOffset}
  BY DEF TypeOK
<1> QED BY <1>1, LogTypes, BoundAssumption DEF LogInv, Resume, NoOffset

(* A decoded record is an event of a ride that lives on its partition. *)
LEMMA EventAt ==
    ASSUME TypeOK, LogInv, NEW p \in Partitions, NEW o \in Nat, o < Len(log[p]),
           Message(p, o) # Poison
    PROVE  /\ Message(p, o) \in Event
           /\ Message(p, o).ride_id \in Rides
           /\ Message(p, o).event_type \in RideEventType
           /\ PartitionOf[Message(p, o).ride_id] = p
           /\ Message(p, o) = [ride_id |-> Message(p, o).ride_id,
                               event_type |-> Message(p, o).event_type]
<1>1. o + 1 \in 1..Len(log[p])
  BY LogTypes
<1>2. Message(p, o) \in MessagesOf(p)
  BY <1>1 DEF LogInv, Message
<1> QED BY <1>2 DEF MessagesOf, Event

-----------------------------------------------------------------------------
(* Steps that a read-committed consumer, or the store, does not notice.    *)

(* What a read-committed consumer sees does not depend on store and        *)
(* memory.                                                                 *)
LEMMA KafkaFrame ==
    ASSUME LogInv, TopicInv, UNCHANGED <<log, committed, topics>>
    PROVE  /\ LogInv' /\ TopicInv'
           /\ \A p \in Partitions : Resume(p)' = Resume(p)
           /\ \A r \in Rides : Published(r)' = Published(r)
<1>1. UNCHANGED <<log, committed, rides_sessions, rides_clean, rides_dlq>>
  BY DEF topics
<1>2. \A p : Resume(p)' = Resume(p)
  BY <1>1 DEF Resume
<1>3. LogInv'
  BY <1>1, <1>2 DEF LogInv
<1>4. TopicInv'
  BY <1>1, <1>2 DEF TopicInv, SessionsOnceAndComplete, ConsumedInputHasSession,
                    OutputsMatchCommittedOffsets
<1> QED BY <1>1, <1>2, <1>3, <1>4 DEF Published

(* The store stays right as long as neither it nor Kafka changes.          *)
LEMMA StoreFrame ==
    ASSUME StoreInv, UNCHANGED <<log, committed, topics, store>>
    PROVE  StoreInv'
BY DEF StoreInv, Published, Resume, Message, topics, store

(* A rolled-back partition stays rolled back until something is committed  *)
(* or journaled.                                                           *)
LEMMA RolledBackFrame ==
    ASSUME UNCHANGED <<committed, store>>, NEW p \in Partitions, RolledBack(p)
    PROVE  RolledBack(p)'
BY DEF RolledBack, Resume, store

(* The accumulators of a partition stay exact until the process consumes.  *)
LEMMA MemoryFrame ==
    ASSUME UNCHANGED <<log, committed, topics, accs, watermark, position>>,
           NEW p \in Partitions, MemoryExact(p)
    PROVE  MemoryExact(p)'
BY DEF MemoryExact, Resume, Published, topics

(* The batch stays exact until the process consumes.                       *)
LEMMA BatchFrame ==
    ASSUME UNCHANGED <<log, committed, topics, position, batch>>,
           NEW p \in Partitions, BatchExact(p)
    PROVE  BatchExact(p)'
BY DEF BatchExact, Resume, Published, DecodedIn, PoisonedIn, Message, topics

(* An open transaction stays exact while nobody writes to it.              *)
LEMMA TxnFrame ==
    ASSUME UNCHANGED <<log, committed, topics, store, txn>>, TxnExact
    PROVE  TxnExact'
BY ZenonT(60) DEF TxnExact, Target, Resume, Published, DecodedIn, PoisonedIn, Message, topics, store,
       SessionsRight, ClosesTagged, Closes

(* From _collect_closes on, a step that only moves the process or the      *)
(* transaction forward keeps what the batch holds.                         *)
LEMMA BatchInvFrame ==
    ASSUME UNCHANGED <<log, committed, topics, store, memory>>, BatchInv,
           pc \in {"transact", "send_offsets", "commit"},
           pc = "commit" => txn.state \in {"ongoing", "prepare_commit"},
           pc' # "append"
    PROVE  BatchInv'
<1>1. /\ \A p \in Partitions : MemoryExact(p)' /\ BatchExact(p)'
      /\ \E p \in Partitions : position'[p] > Resume(p)'
  BY MemoryFrame, BatchFrame DEF BatchInv, memory, Resume
<1>2. SessionsRight(batch.sessions, position)'
  BY DEF BatchInv, SessionsRight, Published, Closes, Resume, topics, memory
<1>3. /\ batch'.journal \subseteq journal' /\ ClosesTagged(batch.sessions, position)'
      /\ \A row \in journal' \ batch'.journal : row[2] < Resume(row[1])'
  BY DEF BatchInv, ClosesTagged, Resume, memory, store
<1> QED BY <1>1, <1>2, <1>3 DEF BatchInv

-----------------------------------------------------------------------------
(* The inductive invariant holds initially.                                *)
LEMMA InitInv == Init => IInv
<1> SUFFICES ASSUME Init PROVE IInv
  OBVIOUS
<1>1. TypeInv
  BY TypeInit
<1>2. \A p \in Partitions : Resume(p) = 0 /\ Len(log[p]) = 0
  BY DEF Init, Resume, NoOffsets, NoOffset
<1>3. LogInv
  BY <1>2 DEF LogInv
<1>4. TopicInv
  <2>1. SessionsOnceAndComplete
    BY DEF Init, SessionsOnceAndComplete, NoSessions
  <2>2. ConsumedInputHasSession
    <3>1. \A r \in Rides : SeenTypes(log, r, 0) = {}
      BY DEF SeenTypes
    <3>2. \A r \in Rides : Resume(PartitionOf[r]) = 0
      BY <1>2, PartitionAssumption
    <3> QED BY <3>1, <3>2 DEF ConsumedInputHasSession, terminal
  <2>3. OutputsMatchCommittedOffsets
    <3>1. \A p \in Partitions : Decoded(log, p, 0) = {} /\ Poisoned(log, p, 0) = {}
      BY DEF Decoded, Poisoned
    <3> QED BY <1>2, <3>1, ListsEmpty DEF Init, OutputsMatchCommittedOffsets, NoRecords
  <2> QED BY <2>1, <2>2, <2>3 DEF TopicInv
<1>5. StoreInv
  BY <1>2, PartitionAssumption DEF StoreInv, Init, Published, NoSessions, NoOffset, Decoded
<1> QED BY <1>1, <1>3, <1>4, <1>5
        DEF Init, IInv, DownInv, AssignInv, PollInv, BatchInv, TxnInv, CommittedInv, EmptyTxn

(* A restart keeps the invariant: it loses memory and fences the           *)
(* transaction.                                                            *)
LEMMA StartInv == IInv /\ TypeInv' /\ Start => IInv'
<1> SUFFICES ASSUME IInv, TypeInv', Start PROVE IInv'
  OBVIOUS
<1>1. UNCHANGED <<log, committed, topics, store, accs, watermark, position, batch>>
  BY DEF Start
<1>2. LogInv' /\ TopicInv' /\ StoreInv'
  BY <1>1, KafkaFrame, StoreFrame DEF IInv
<1>3. AssignInv'
  BY <1>1 DEF AssignInv, Start, EmptyTxn, IInv, DownInv
<1> QED BY <1>2, <1>3 DEF Start, IInv, DownInv, PollInv, BatchInv, TxnInv, CommittedInv, EmptyTxn

(* A revocation keeps the invariant: the partitions come back through      *)
(* on_assign.                                                              *)
LEMMA OnRevokeInv == IInv /\ TypeInv' /\ OnRevoke => IInv'
<1> SUFFICES ASSUME IInv, TypeInv', OnRevoke PROVE IInv'
  OBVIOUS
<1>1. LogInv' /\ TopicInv' /\ StoreInv'
  BY KafkaFrame, StoreFrame DEF IInv, OnRevoke
<1>2. AssignInv'
  BY DEF AssignInv, OnRevoke, FreshMemory, IInv, PollInv
<1> QED BY <1>1, <1>2 DEF OnRevoke, IInv, DownInv, PollInv, BatchInv, TxnInv, CommittedInv

(* A crash keeps the invariant at every point of process_batch.            *)
LEMMA CrashInv == IInv /\ TypeInv' /\ Crash => IInv'
<1> SUFFICES ASSUME IInv, TypeInv', Crash PROVE IInv'
  OBVIOUS
<1>1. LogInv' /\ TopicInv' /\ StoreInv'
  BY KafkaFrame, StoreFrame DEF IInv, Crash
<1>2. TxnInv'
  BY TxnFrame DEF TxnInv, IInv, Crash
<1> QED BY <1>1, <1>2 DEF Crash, FreshMemory, IInv, DownInv, AssignInv, PollInv, BatchInv, CommittedInv

(* The abort of a transaction keeps the invariant; the store is rolled     *)
(* back next.                                                              *)
LEMMA AbortBatchInv == IInv /\ TypeInv' /\ AbortBatch => IInv'
<1> SUFFICES ASSUME IInv, TypeInv', AbortBatch PROVE IInv'
  OBVIOUS
<1>1. LogInv' /\ TopicInv' /\ StoreInv'
  BY KafkaFrame, StoreFrame DEF IInv, AbortBatch
<1> QED BY <1>1 DEF AbortBatch, IInv, DownInv, AssignInv, PollInv, BatchInv, TxnInv, CommittedInv,
                    EmptyTxn

(* The outputs put into the transaction are those of the batch.            *)
LEMMA ProduceOutputsInv == IInv /\ TypeInv' /\ ProduceOutputs => IInv'
<1> SUFFICES ASSUME IInv, TypeInv', ProduceOutputs PROVE IInv'
  OBVIOUS
<1>1. LogInv' /\ TopicInv' /\ StoreInv'
  BY KafkaFrame, StoreFrame DEF IInv, ProduceOutputs
<1>2. BatchInv'
  BY BatchInvFrame DEF IInv, ProduceOutputs
<1>3. TxnInv'
  BY DEF TxnInv, ProduceOutputs, memory
<1> QED BY <1>1, <1>2, <1>3 DEF ProduceOutputs, IInv, DownInv, AssignInv, PollInv, CommittedInv

(* The offsets put into the transaction are those of the batch.            *)
LEMMA SendOffsetsInv == IInv /\ TypeInv' /\ SendOffsets => IInv'
<1> SUFFICES ASSUME IInv, TypeInv', SendOffsets PROVE IInv'
  OBVIOUS
<1>1. LogInv' /\ TopicInv' /\ StoreInv'
  BY KafkaFrame, StoreFrame DEF IInv, SendOffsets
<1>2. BatchInv'
  BY BatchInvFrame DEF IInv, SendOffsets
<1>3. TxnInv'
  BY DEF TxnInv, IInv, TypeInv, TypeOK, Txn, SendOffsets, memory, OffsetToCommit
<1> QED BY <1>1, <1>2, <1>3
        DEF SendOffsets, IInv, TypeInv, TypeOK, Txn, DownInv, AssignInv, PollInv, CommittedInv

(* The coordinator may abort an open transaction at any time.              *)
LEMMA TxnTimeoutInv == IInv /\ TypeInv' /\ TxnTimeout => IInv'
<1> SUFFICES ASSUME IInv, TypeInv', TxnTimeout PROVE IInv'
  OBVIOUS
<1>0. UNCHANGED <<log, committed, topics, store, pc, memory>> /\ txn'.state = "complete_abort"
      /\ txn.state = "ongoing"
  BY DEF TxnTimeout, EmptyTxn
<1>1. LogInv' /\ TopicInv' /\ StoreInv'
  BY <1>0, KafkaFrame, StoreFrame DEF IInv
<1>2. pc \in {"down", "send_offsets", "commit", "rollback"}
  BY <1>0 DEF IInv, TypeInv, TypeOK, AssignInv, PollInv, TxnInv
<1>3. BatchInv'
  <2>1. CASE pc = "send_offsets"
    BY <1>0, <2>1, BatchInvFrame DEF IInv
  <2> QED BY <1>0, <1>2, <2>1 DEF BatchInv
<1>4. TxnInv'
  BY <1>0, <1>2 DEF TxnInv, IInv
<1> QED BY <1>0, <1>1, <1>2, <1>3, <1>4 DEF IInv, DownInv, AssignInv, PollInv, CommittedInv, memory

(* A step that changes nothing keeps the invariant.                        *)
LEMMA StutterInv == IInv /\ TypeInv' /\ UNCHANGED vars => IInv'
<1> SUFFICES ASSUME IInv, TypeInv', UNCHANGED vars PROVE IInv'
  OBVIOUS
<1>0. UNCHANGED <<log, committed, topics, txn, store, pc, memory>>
      /\ UNCHANGED <<accs, watermark, position, batch, pending>>
  BY DEF vars, memory
<1>1. /\ LogInv' /\ TopicInv' /\ StoreInv'
      /\ \A p \in Partitions : Resume(p)' = Resume(p)
      /\ \A r \in Rides : Published(r)' = Published(r)
  BY <1>0, KafkaFrame, StoreFrame DEF IInv
<1>2. DownInv' /\ TxnInv'
  BY <1>0, TxnFrame DEF IInv, DownInv, TxnInv, OffsetToCommit
<1>3. AssignInv'
  BY <1>0, <1>1, RolledBackFrame, MemoryFrame DEF IInv, AssignInv
<1>4. PollInv'
  BY <1>0, <1>1, RolledBackFrame, MemoryFrame, BatchFrame DEF IInv, PollInv
<1>5. BatchInv'
  <2>1. CASE pc = "append"
    <3>1. /\ \A p \in Partitions : MemoryExact(p)' /\ BatchExact(p)' /\ RolledBack(p)'
          /\ \E p \in Partitions : position'[p] > Resume(p)'
      BY <1>0, <1>1, <2>1, MemoryFrame, BatchFrame, RolledBackFrame DEF IInv, BatchInv
    <3>2. SessionsRight(batch.sessions, position)'
      BY <1>0, <2>1 DEF IInv, BatchInv, SessionsRight, Published, Closes, Resume, topics
    <3> QED BY <1>0, <2>1, <3>1, <3>2 DEF BatchInv
  <2>2. CASE pc # "append"
    BY <1>0, <2>2, BatchInvFrame DEF IInv, BatchInv
  <2> QED BY <2>1, <2>2
<1>6. CommittedInv'
  BY <1>0, <1>1, RolledBackFrame, PartitionAssumption DEF IInv, CommittedInv
<1> QED BY <1>1, <1>2, <1>3, <1>4, <1>5, <1>6 DEF IInv

-----------------------------------------------------------------------------
(* rollback_from, on assignment or after an abort, takes nothing from the  *)
(* confirmed part of the store and leaves nothing else for its partition.  *)
LEMMA RollbackStore ==
    ASSUME TypeOK, LogInv, StoreInv, NEW p \in Partitions,
           UNCHANGED <<log, committed, topics>>,
           journal' = JournalAfterRollback(p, Resume(p)),
           closes' = ClosesAfterRollback(p, Resume(p))
    PROVE  /\ StoreInv'
           /\ RolledBack(p)'
           /\ \A q \in Partitions : RolledBack(q) => RolledBack(q)'
<1>1. UNCHANGED <<log, committed, rides_sessions>>
  BY DEF topics
<1>2. \A q \in Partitions : Resume(q)' = Resume(q) /\ Resume(q) \in Nat
  BY <1>1, Bounds DEF Resume
<1>3. \A r \in Rides : closes[r] \in Int /\ (closes[r] = NoOffset \/ closes[r] \in Nat)
  BY BoundAssumption DEF TypeOK, Offsets, NoOffset
<1>4. \A r \in Rides : /\ PartitionOf[r] # p => closes'[r] = closes[r]
                       /\ PartitionOf[r] = p /\ closes[r] < Resume(p) => closes'[r] = closes[r]
                       /\ PartitionOf[r] = p /\ closes[r] >= Resume(p) => closes'[r] = NoOffset
  BY <1>2, <1>3 DEF ClosesAfterRollback
<1>5. \A row \in journal : row[1] \in Partitions /\ row[2] \in Nat /\ row = <<row[1], row[2]>>
  BY BoundAssumption DEF TypeOK, Offsets
<1>6. StoreInv'
  <2>1. \A r \in Rides : Published(r)' <=> closes'[r] \in 0..(Resume(PartitionOf[r])' - 1)
    <3> SUFFICES ASSUME NEW r \in Rides
                 PROVE  closes[r] \in 0..(Resume(PartitionOf[r]) - 1)
                          <=> closes'[r] \in 0..(Resume(PartitionOf[r]) - 1)
      BY <1>1, <1>2, PartitionAssumption DEF StoreInv, Published
    <3> QED BY <1>2, <1>3, <1>4, PartitionAssumption DEF NoOffset
  <2>2. ASSUME NEW q \in Partitions, NEW o \in Decoded(log, q, Resume(q)),
               ~Published(Message(q, o).ride_id)
        PROVE  <<q, o>> \in journal'
    <3>1. <<q, o>> \in journal /\ o < Resume(q)
      BY <1>2, <2>2 DEF StoreInv, Decoded
    <3> QED BY <3>1, <1>2 DEF JournalAfterRollback, Decoded
  <2> QED BY <1>1, <1>2, <2>1, <2>2 DEF StoreInv, Published, Message
<1>7. RolledBack(p)'
  BY <1>2, <1>3, <1>4, <1>5 DEF RolledBack, JournalAfterRollback, NoOffset
<1>8. \A q \in Partitions : RolledBack(q) => RolledBack(q)'
  BY <1>2, <1>3, <1>4, <1>5 DEF RolledBack, JournalAfterRollback, NoOffset
<1> QED BY <1>6, <1>7, <1>8

(* The first SQLite transaction of on_assign keeps the invariant.          *)
LEMMA OnAssignRollbackInv ==
    ASSUME IInv, TypeInv', NEW p \in Partitions, OnAssignRollback(p)
    PROVE  IInv'
<1>0. TypeOK /\ pending \in [Partitions -> {"rollback", "purge", "done"}]
  BY DEF IInv, TypeInv, TypeOK
<1>1. /\ LogInv' /\ TopicInv' /\ StoreInv' /\ RolledBack(p)'
      /\ \A q \in Partitions : RolledBack(q) => RolledBack(q)'
      /\ \A q \in Partitions : Resume(q)' = Resume(q)
  BY <1>0, KafkaFrame, RollbackStore DEF IInv, OnAssignRollback
<1>2. \A q \in Partitions : MemoryExact(q) => MemoryExact(q)'
  BY MemoryFrame DEF OnAssignRollback
<1>3. AssignInv'
  BY <1>0, <1>1, <1>2 DEF AssignInv, IInv, OnAssignRollback
<1>4. TxnInv'
  BY DEF TxnInv, AssignInv, IInv, OnAssignRollback
<1> QED BY <1>1, <1>3, <1>4 DEF OnAssignRollback, IInv, DownInv, PollInv, BatchInv, CommittedInv

(* The rollback after an aborted transaction keeps the invariant, one      *)
(* partition at a time.                                                    *)
LEMMA RollbackAbortedInv ==
    ASSUME IInv, TypeInv', NEW p \in Partitions, RollbackAborted(p)
    PROVE  IInv'
<1>0. TypeOK /\ pc = "rollback" /\ pc' \in {"rollback", "down"}
  BY DEF IInv, TypeInv, RollbackAborted
<1>1. LogInv' /\ TopicInv' /\ StoreInv'
  BY <1>0, KafkaFrame, RollbackStore DEF IInv, RollbackAborted
<1>2. TxnInv'
  BY <1>0 DEF TxnInv, IInv, RollbackAborted
<1>3. DownInv'
  BY <1>0 DEF DownInv, RollbackAborted, FreshMemory
<1> QED BY <1>0, <1>1, <1>2, <1>3 DEF IInv, AssignInv, PollInv, BatchInv, CommittedInv

(* Between batches the locals of process_batch are empty and exact. *)
LEMMA NoBatchExact ==
    ASSUME NEW p \in Partitions, batch' = EmptyBatch, position'[p] = Resume(p)', Resume(p)' \in Nat
    PROVE  BatchExact(p)'
<1>1. DecodedIn(p, Resume(p), position[p])' = {} /\ PoisonedIn(p, Resume(p), position[p])' = {}
  BY DEF DecodedIn, PoisonedIn
<1>2. /\ batch'.max_offset[p] = NoOffset /\ batch'.journal = {}
      /\ batch'.clean_forward[p] = <<>> /\ batch'.poisons[p] = <<>>
  BY DEF EmptyBatch, NoOffsets, NoRecords
<1> QED BY <1>1, <1>2, ListsEmpty DEF BatchExact

(* When the store is rolled back, a close row is a published session. *)
LEMMA ClosedIsPublished ==
    ASSUME TypeOK, LogInv, StoreInv, NEW r \in Rides, RolledBack(PartitionOf[r])
    PROVE  is_closed(r) <=> Published(r)
<1>1. closes[r] = NoOffset \/ closes[r] \in Nat
  BY BoundAssumption DEF TypeOK, Offsets
<1>2. closes[r] < Resume(PartitionOf[r]) /\ Resume(PartitionOf[r]) \in Nat
  BY Bounds, PartitionAssumption DEF RolledBack
<1> QED BY <1>1, <1>2 DEF StoreInv, is_closed, NoOffset

(* The purge of on_assign and the replay of the journal keep the           *)
(* invariant.                                                              *)
LEMMA OnAssignRebuildInv ==
    ASSUME IInv, TypeInv', NEW p \in Partitions, OnAssignRebuild(p)
    PROVE  IInv'
<1>0. /\ TypeOK /\ LogInv /\ StoreInv /\ RowsDecoded /\ RolledBack(p) /\ pc = "assign"
      /\ txn.state \notin {"ongoing", "prepare_commit"} /\ batch = EmptyBatch
      /\ pending \in [Partitions -> {"rollback", "purge", "done"}]
      /\ accs \in [Rides -> SUBSET RideEventType]
      /\ \A r \in Rides : PartitionOf[r] = p => accs[r] = {}
      /\ position \in [Partitions -> 0..MaxLog] /\ watermark \in [Partitions -> 0..MaxEventTs]
  BY DEF IInv, TypeInv, TypeOK, AssignInv, OnAssignRebuild
<1>1. /\ UNCHANGED <<log, committed, topics, txn, closes, batch>>
      /\ UNCHANGED <<log, committed, rides_sessions>>
      /\ journal' = JournalAfterPurge(p, Resume(p)) /\ journal' \subseteq journal
  BY DEF OnAssignRebuild, JournalAfterPurge, topics
<1>2. /\ LogInv' /\ TopicInv'
      /\ \A q \in Partitions : Resume(q)' = Resume(q) /\ Resume(q) \in Nat /\ Len(log[q]) \in Nat
                               /\ Resume(q) <= Len(log[q])
      /\ \A r \in Rides : Published(r)' = Published(r)
  BY <1>0, <1>1, KafkaFrame, Bounds DEF IInv
<1>3. \A row \in journal : /\ row[1] \in Partitions /\ row[2] \in Nat /\ row[2] < Len(log[row[1]])
                           /\ Message(row[1], row[2]) # Poison /\ row = <<row[1], row[2]>>
  BY <1>0, BoundAssumption DEF TypeOK, RowsDecoded, Offsets
<1>4. \A q \in Partitions : \A o \in Decoded(log, q, Resume(q)) :
         /\ o \in Nat /\ o < Resume(q)
         /\ Message(q, o) # Poison /\ Message(q, o).ride_id \in Rides
         /\ PartitionOf[Message(q, o).ride_id] = q
  <2>1. \A q \in Partitions : \A o \in Decoded(log, q, Resume(q)) :
           o \in Nat /\ o < Resume(q) /\ o < Len(log[q]) /\ Message(q, o) # Poison
    BY <1>2 DEF Decoded, Message
  <2> QED BY <1>0, <2>1, EventAt
(* The purge keeps the rows of the open rides ... *)
<1>5. ASSUME NEW q \in Partitions, NEW o \in Decoded(log, q, Resume(q)),
             ~Published(Message(q, o).ride_id)
      PROVE  <<q, o>> \in journal'
  <2>1. <<q, o>> \in journal
    BY <1>0, <1>5 DEF StoreInv
  <2>2. closes[Message(q, o).ride_id] \notin 0..(Resume(q) - 1)
    BY <1>0, <1>4, <1>5 DEF StoreInv
  <2> QED BY <1>1, <1>4, <2>1, <2>2 DEF JournalAfterPurge
<1>6. StoreInv'
  BY <1>0, <1>1, <1>2, <1>5, PartitionAssumption DEF StoreInv, Published, Message
<1>7. \A q \in Partitions : RolledBack(q) => RolledBack(q)'
  BY <1>1, <1>2 DEF RolledBack
(* ... and what it keeps folds to what the committed prefix says of them. *)
<1>8. ASSUME NEW r \in Rides, PartitionOf[r] = p, ~Published(r)
      PROVE  JournalTypes(journal', r) = SeenTypes(log, r, Resume(p))
  <2>1. ASSUME NEW t \in RideEventType, NEW row \in journal',
               Message(row[1], row[2]) = [ride_id |-> r, event_type |-> t]
        PROVE  row[1] = p /\ row[2] \in 0..(Resume(p) - 1)
    <3>1. Message(row[1], row[2]).ride_id = r
      BY <2>1
    <3>2. row[1] = p
      BY <1>0, <1>1, <1>3, <1>8, <3>1, EventAt, SMTT(30)
    <3> QED BY <1>0, <1>1, <1>2, <1>3, <3>2 DEF RolledBack
  <2>2. ASSUME NEW t \in RideEventType, NEW o \in 0..(Resume(p) - 1),
               Message(p, o) = [ride_id |-> r, event_type |-> t]
        PROVE  <<p, o>> \in journal'
    <3>1. o \in Nat /\ o < Len(log[p])
      BY <1>2
    <3>2. Message(p, o) # Poison
      BY <2>2, PoisonAssumption
    <3>3. o \in Decoded(log, p, Resume(p)) /\ Message(p, o).ride_id = r
      BY <2>2, <3>2 DEF Decoded, Message
    <3> QED BY <1>5, <1>8, <3>3
  <2> QED BY <1>1, <2>1, <2>2, <1>8 DEF JournalTypes, SeenTypes, Message
<1>9. ASSUME NEW r \in Rides, PartitionOf[r] = p
      PROVE  accs'[r] = IF Published(r) THEN {} ELSE SeenTypes(log, r, Resume(p))
  <2>1. is_closed(r) <=> Published(r)
    BY <1>0, <1>9, ClosedIsPublished
  <2>2. accs'[r] = IF r \in open_rides(journal', p) THEN JournalTypes(journal', r) ELSE {}
    BY <1>0, <1>9 DEF OnAssignRebuild
  <2>3. CASE Published(r)
    BY <2>1, <2>2, <2>3 DEF open_rides
  <2>4. CASE ~Published(r)
    <3>1. r \notin open_rides(journal', p) => JournalTypes(journal', r) = {}
      <4> SUFFICES ASSUME NEW t \in RideEventType, NEW row \in journal',
                          Message(row[1], row[2]) = [ride_id |-> r, event_type |-> t]
                   PROVE  r \in open_rides(journal', p)
        BY DEF JournalTypes
      <4>1. Message(row[1], row[2]).ride_id = r
        OBVIOUS
      <4>2. row[1] = p
        BY <1>0, <1>1, <1>3, <1>9, <4>1, EventAt
      <4> QED BY <2>1, <2>4, <4>1, <4>2 DEF open_rides
    <3> QED BY <1>8, <1>9, <2>2, <2>4, <3>1
  <2> QED BY <2>3, <2>4
<1>10. watermark'[p] \in SeenTs(log, p, Resume(p)) \cup {0}
  <2> DEFINE S == JournalTs(journal', p) \cup {0}
  <2>1. ASSUME NEW row \in journal', row[1] = p
        PROVE  ts(Message(row[1], row[2])) \in SeenTs(log, p, Resume(p))
    <3>1. row[2] \in Decoded(log, p, Resume(p))
      BY <1>0, <1>1, <1>2, <1>3, <2>1 DEF Decoded, RolledBack, Message
    <3> QED BY <2>1, <3>1 DEF SeenTs, Message
  <2>2. JournalTs(journal', p) \subseteq SeenTs(log, p, Resume(p))
    BY <2>1 DEF JournalTs
  <2>3. S \in SUBSET (0..MaxEventTs) /\ S # {}
    <3>1. \A row \in journal' : ts(Message(row[1], row[2])) \in 0..MaxEventTs
      <4> SUFFICES ASSUME NEW row \in journal'
                   PROVE  ts(Message(row[1], row[2])) \in 0..MaxEventTs
        OBVIOUS
      <4>0. row[1] \in Partitions /\ row[2] \in Nat /\ row[2] < Len(log[row[1]])
            /\ Message(row[1], row[2]) # Poison
        BY <1>1, <1>3
      <4>1. Message(row[1], row[2]) \in Event
        BY <1>0, <4>0, EventAt
      <4> QED BY <4>1, TimeAssumption DEF Event, ts
    <3> QED BY <3>1, TimeAssumption DEF JournalTs
  <2> HIDE DEF S
  <2>4. Max(S) \in S
    BY <2>3, BoundedMax, TimeAssumption
  <2>5. watermark'[p] = Max(S)
    BY <1>0 DEF OnAssignRebuild, max_journal_ts, S
  <2> QED BY <2>2, <2>4, <2>5 DEF S
<1>11. position'[p] = Resume(p)
  BY <1>0 DEF OnAssignRebuild
<1>12. MemoryExact(p)'
  BY <1>1, <1>2, <1>9, <1>10, <1>11 DEF MemoryExact
<1>13. ASSUME NEW q \in Partitions, q # p
       PROVE  /\ position'[q] = position[q] /\ watermark'[q] = watermark[q]
              /\ \A r \in Rides : PartitionOf[r] = q => accs'[r] = accs[r]
              /\ MemoryExact(q) => MemoryExact(q)'
  <2>1. position'[q] = position[q] /\ watermark'[q] = watermark[q]
    BY <1>0, <1>13 DEF OnAssignRebuild
  <2>2. \A r \in Rides : PartitionOf[r] = q => accs'[r] = accs[r]
    <3> SUFFICES ASSUME NEW r \in Rides, PartitionOf[r] = q, r \in open_rides(journal', p)
                 PROVE  FALSE
      BY DEF OnAssignRebuild
    <3>1. PICK row \in journal' : row[1] = p /\ Message(row[1], row[2]).ride_id = r
      BY DEF open_rides
    <3> QED BY <1>0, <1>1, <1>3, <1>13, <3>1, EventAt
  <2> QED BY <1>1, <1>2, <2>1, <2>2 DEF MemoryExact
<1>14. AssignInv'
  <2> SUFFICES ASSUME pc' = "assign" PROVE AssignInv'
    BY DEF AssignInv
  <2>1. /\ pending' = [pending EXCEPT ![p] = "done"]
        /\ \A q \in Partitions : q # p =>
              /\ pending[q] # "rollback" => RolledBack(q)
              /\ pending[q] = "done" => MemoryExact(q) /\ position[q] = Resume(q)
              /\ pending[q] # "done" => \A r \in Rides : PartitionOf[r] = q => accs[r] = {}
    BY <1>0 DEF IInv, AssignInv, OnAssignRebuild
  <2> QED BY <1>0, <1>1, <1>2, <1>7, <1>11, <1>12, <1>13, <2>1 DEF AssignInv
<1>15. PollInv'
  <2> SUFFICES ASSUME pc' = "poll" PROVE PollInv'
    BY DEF PollInv
  <2>1. \A q \in Partitions : q # p => pending[q] = "done"
    BY <1>0 DEF OnAssignRebuild
  <2>2. \A q \in Partitions : RolledBack(q)' /\ MemoryExact(q)' /\ position'[q] = Resume(q)'
    BY <1>0, <1>2, <1>7, <1>11, <1>12, <1>13, <2>1 DEF IInv, AssignInv
  <2>3. \A q \in Partitions : BatchExact(q)'
    BY <1>0, <1>1, <1>2, <2>2, NoBatchExact
  <2>4. batch'.sessions = NoSessions /\ batch'.consumed = 0
    BY <1>0, <1>1 DEF EmptyBatch
  <2> QED BY <1>0, <1>1, <1>2, <2>2, <2>3, <2>4 DEF PollInv
<1>16. pc' \in {"assign", "poll"}
  BY <1>0 DEF OnAssignRebuild
<1>17. TxnInv'
  BY <1>0, <1>1, <1>16 DEF TxnInv
<1> QED BY <1>2, <1>6, <1>14, <1>15, <1>16, <1>17 DEF IInv, DownInv, BatchInv, CommittedInv

(* What process_batch does after its commit keeps the invariant.           *)
LEMMA PostCommitInv == IInv /\ TypeInv' /\ PostCommit => IInv'
<1> SUFFICES ASSUME IInv, TypeInv', PostCommit PROVE IInv'
  OBVIOUS
<1>0. /\ TypeOK /\ LogInv /\ pc = "commit" /\ txn.state = "complete_commit" /\ pc' = "poll"
      /\ UNCHANGED <<log, committed, topics, txn, store, watermark, position, pending>>
      /\ batch' = EmptyBatch
  BY DEF IInv, TypeInv, PostCommit
<1>1. /\ LogInv' /\ TopicInv' /\ StoreInv'
      /\ \A p \in Partitions : Resume(p)' = Resume(p) /\ Resume(p) \in Nat /\ Len(log[p]) \in Nat
                               /\ Resume(p) <= Len(log[p])
      /\ \A r \in Rides : Published(r)' = Published(r)
  BY <1>0, KafkaFrame, StoreFrame, Bounds DEF IInv
<1>2. \A p \in Partitions : RolledBack(p)' /\ position[p] = Resume(p)
                            /\ watermark[p] \in SeenTs(log, p, position[p]) \cup {0}
  BY <1>0, RolledBackFrame DEF IInv, CommittedInv
<1>3. \A r \in Rides : accs'[r] = IF Published(r) THEN {}
                                  ELSE SeenTypes(log, r, Resume(PartitionOf[r]))
  BY <1>0 DEF IInv, CommittedInv, PostCommit
<1>4. \A p \in Partitions : MemoryExact(p)'
  BY <1>0, <1>1, <1>2, <1>3 DEF MemoryExact
<1>5. \A p \in Partitions : BatchExact(p)'
  BY <1>0, <1>1, <1>2, NoBatchExact
<1>6. batch'.sessions = NoSessions /\ batch'.consumed = 0
  BY <1>0 DEF EmptyBatch
<1>7. PollInv'
  BY <1>0, <1>1, <1>2, <1>4, <1>5, <1>6 DEF PollInv
<1> QED BY <1>0, <1>1, <1>7 DEF IInv, DownInv, AssignInv, BatchInv, TxnInv, CommittedInv

-----------------------------------------------------------------------------
(* The offsets of a batch grow by the one consumed. *)
LEMMA BatchStep ==
    ASSUME NEW p \in Partitions, NEW c \in Nat, NEW n \in Nat, c <= n
    PROVE  /\ DecodedIn(p, c, n + 1) =
                 DecodedIn(p, c, n) \cup (IF Message(p, n) = Poison THEN {} ELSE {n})
           /\ PoisonedIn(p, c, n + 1) =
                 PoisonedIn(p, c, n) \cup (IF Message(p, n) = Poison THEN {n} ELSE {})
           /\ \A x \in DecodedIn(p, c, n) \cup PoisonedIn(p, c, n) : x < n
<1>1. c..((n + 1) - 1) = (c..(n - 1)) \cup {n}
  OBVIOUS
<1> QED BY <1>1 DEF DecodedIn, PoisonedIn

(* Consuming a record, poison or event, keeps the invariant.               *)
LEMMA ConsumeInv ==
    ASSUME IInv, TypeInv', NEW p \in Partitions, Consume(p)
    PROVE  IInv'
<1> DEFINE n == position[p]
           m == Message(p, n)
<1>0. /\ TypeOK /\ LogInv /\ StoreInv /\ TopicInv /\ PollInv /\ TypeOK'
      /\ pc = "poll" /\ pc' = "poll" /\ n < Len(log[p])
      /\ UNCHANGED <<log, committed, topics, txn, store, pc, pending>>
      /\ position' = [position EXCEPT ![p] = n + 1]
      /\ IF m = Poison THEN ConsumePoison(p) ELSE ConsumeEvent(p, m)
      /\ \A q \in Partitions : RolledBack(q) /\ MemoryExact(q) /\ BatchExact(q)
      /\ batch.sessions = NoSessions
      /\ txn.state \notin {"ongoing", "prepare_commit"}
  BY DEF IInv, TypeInv, Consume, PollInv
<1>1. /\ LogInv' /\ TopicInv' /\ StoreInv'
      /\ \A q \in Partitions : Resume(q)' = Resume(q) /\ Resume(q) \in Nat /\ Len(log[q]) \in Nat
                               /\ Resume(q) <= Len(log[q]) /\ position[q] \in Nat
      /\ \A r \in Rides : Published(r)' = Published(r)
  BY <1>0, KafkaFrame, StoreFrame, Bounds, BoundAssumption, SMTT(30) DEF TypeOK
<1>2. /\ n \in Nat /\ Resume(p) <= n /\ position'[p] = n + 1
      /\ \A q \in Partitions : q # p => position'[q] = position[q]
  BY <1>0, <1>1 DEF TypeOK, MemoryExact
<1>3. \A q \in Partitions : RolledBack(q)'
  BY <1>0, RolledBackFrame
<1>4. /\ batch'.consumed = batch.consumed + 1
      /\ batch'.max_offset = [batch.max_offset EXCEPT ![p] = n]
      /\ batch'.sessions = NoSessions
      /\ batch'.clean_forward = IF m = Poison THEN batch.clean_forward
                                ELSE [batch.clean_forward EXCEPT ![p] = Append(@, n)]
      /\ batch'.poisons = IF m = Poison THEN [batch.poisons EXCEPT ![p] = Append(@, n)]
                          ELSE batch.poisons
      /\ batch'.journal = IF m = Poison \/ is_closed(m.ride_id) THEN batch.journal
                          ELSE batch.journal \cup {<<p, n>>}
  BY <1>0, ZenonT(180) DEF TypeOK, Batch, ConsumePoison, ConsumeEvent
<1>5. m # Poison => /\ m \in Event /\ m.ride_id \in Rides /\ m.event_type \in RideEventType
                    /\ PartitionOf[m.ride_id] = p
                    /\ m = [ride_id |-> m.ride_id, event_type |-> m.event_type]
                    /\ is_closed(m.ride_id) <=> Published(m.ride_id)
  <2> SUFFICES ASSUME m # Poison
               PROVE  /\ m \in Event /\ m.ride_id \in Rides /\ m.event_type \in RideEventType
                      /\ PartitionOf[m.ride_id] = p
                      /\ m = [ride_id |-> m.ride_id, event_type |-> m.event_type]
                      /\ is_closed(m.ride_id) <=> Published(m.ride_id)
    OBVIOUS
  <2>1. /\ m \in Event /\ m.ride_id \in Rides /\ m.event_type \in RideEventType
        /\ PartitionOf[m.ride_id] = p
        /\ m = [ride_id |-> m.ride_id, event_type |-> m.event_type]
    BY <1>0, <1>2, EventAt
  <2>2. is_closed(m.ride_id) <=> Published(m.ride_id)
    BY <1>0, <2>1, ClosedIsPublished
  <2> QED BY <2>1, <2>2
<1>6. /\ Message(p, n) = log[p][n + 1]
      /\ SeenTs(log, p, n + 1) =
            SeenTs(log, p, n) \cup (IF m = Poison THEN {} ELSE {ts(m)})
      /\ \A r \in Rides : PartitionOf[r] = p =>
            SeenTypes(log, r, n + 1) = SeenTypes(log, r, n) \cup
               {t \in RideEventType : m = [ride_id |-> r, event_type |-> t]}
  BY <1>2, PrefixStep DEF Message
<1> HIDE DEF n, m
<1>7. MemoryExact(p)'
  <2>1. position'[p] \in Resume(p)..Len(log[p])
    BY <1>0, <1>1, <1>2
  <2>2. watermark'[p] \in SeenTs(log, p, n + 1) \cup {0}
    <3>1. watermark[p] \in SeenTs(log, p, n) \cup {0}
      BY <1>0 DEF MemoryExact, n
    <3>2. watermark'[p] \in {watermark[p]} \cup (IF m = Poison THEN {} ELSE {ts(m)})
      BY <1>0 DEF ConsumePoison, ConsumeEvent, TypeOK
    <3> QED BY <1>6, <3>1, <3>2
  <2>3. ASSUME NEW r \in Rides, PartitionOf[r] = p
        PROVE  accs'[r] = IF Published(r) THEN {} ELSE SeenTypes(log, r, n + 1)
    <3>1. accs[r] = IF Published(r) THEN {} ELSE SeenTypes(log, r, n)
      BY <1>0, <2>3 DEF MemoryExact, n
    <3>2. CASE m = Poison
      <4>1. {t \in RideEventType : m = [ride_id |-> r, event_type |-> t]} = {}
        BY <3>2, PoisonAssumption
      <4>2. accs' = accs
        BY <1>0, <3>2 DEF ConsumePoison
      <4> QED BY <1>6, <2>3, <3>1, <4>1, <4>2
    <3>3. CASE m # Poison /\ m.ride_id = r
      <4>1. {t \in RideEventType : m = [ride_id |-> r, event_type |-> t]} = {m.event_type}
        BY <1>5, <3>3
      <4>2. accs'[r] = IF Published(r) THEN accs[r] ELSE accs[r] \cup {m.event_type}
        BY <1>0, <1>5, <3>3 DEF ConsumeEvent, TypeOK
      <4> QED BY <1>6, <2>3, <3>1, <4>1, <4>2
    <3>4. CASE m # Poison /\ m.ride_id # r
      <4>1. {t \in RideEventType : m = [ride_id |-> r, event_type |-> t]} = {}
        BY <1>5, <3>4
      <4>2. accs'[r] = accs[r]
        BY <1>0, <1>5, <3>4 DEF ConsumeEvent, TypeOK
      <4> QED BY <1>6, <2>3, <3>1, <4>1, <4>2
    <3> QED BY <3>2, <3>3, <3>4
  <2> QED BY <1>0, <1>1, <1>2, <2>1, <2>2, <2>3 DEF MemoryExact
<1>8. ASSUME NEW q \in Partitions, q # p PROVE MemoryExact(q)'
  <2>1. watermark'[q] = watermark[q]
    BY <1>0, <1>8 DEF ConsumePoison, ConsumeEvent, TypeOK
  <2>2. \A r \in Rides : PartitionOf[r] = q => accs'[r] = accs[r]
    BY <1>0, <1>5, <1>8 DEF ConsumePoison, ConsumeEvent, TypeOK
  <2> QED BY <1>0, <1>1, <1>2, <1>8, <2>1, <2>2 DEF MemoryExact
<1>9. BatchExact(p)'
  <2>1. /\ DecodedIn(p, Resume(p), n + 1) =
              DecodedIn(p, Resume(p), n) \cup (IF m = Poison THEN {} ELSE {n})
        /\ PoisonedIn(p, Resume(p), n + 1) =
              PoisonedIn(p, Resume(p), n) \cup (IF m = Poison THEN {n} ELSE {})
        /\ \A x \in DecodedIn(p, Resume(p), n) \cup PoisonedIn(p, Resume(p), n) : x < n
    BY <1>1, <1>2, BatchStep DEF m
  <2>2. DecodedIn(p, Resume(p), position[p])' = DecodedIn(p, Resume(p), n + 1)
        /\ PoisonedIn(p, Resume(p), position[p])' = PoisonedIn(p, Resume(p), n + 1)
    BY <1>0, <1>1, <1>2 DEF DecodedIn, PoisonedIn, Message
  <2>3. batch.clean_forward[p] \in Seq(Nat) /\ batch.poisons[p] \in Seq(Nat)
        /\ batch.clean_forward \in [Partitions -> Seq(Offsets)]
        /\ batch.poisons \in [Partitions -> Seq(Offsets)]
        /\ batch.max_offset \in [Partitions -> Offsets \cup {NoOffset}]
    <3>1. batch.clean_forward \in [Partitions -> Seq(Offsets)]
          /\ batch.poisons \in [Partitions -> Seq(Offsets)]
          /\ batch.max_offset \in [Partitions -> Offsets \cup {NoOffset}]
      BY <1>0 DEF TypeOK, Batch, Output
    <3> QED BY <3>1, OffsetSeqs
  <2>4. /\ Lists(batch.clean_forward[p], DecodedIn(p, Resume(p), n))
        /\ Lists(batch.poisons[p], PoisonedIn(p, Resume(p), n))
        /\ \A o \in DecodedIn(p, Resume(p), n) :
              ~Published(Message(p, o).ride_id) => <<p, o>> \in batch.journal
        /\ \A row \in batch.journal : row[1] = p => row[2] \in DecodedIn(p, Resume(p), n)
    BY <1>0 DEF BatchExact, n
  <2>5. Lists(batch'.clean_forward[p], DecodedIn(p, Resume(p), n + 1))
    <3>1. CASE m = Poison
      BY <1>4, <2>1, <2>4, <3>1
    <3>2. CASE m # Poison
      <4>1. batch'.clean_forward[p] = Append(batch.clean_forward[p], n)
        BY <1>4, <2>3, <3>2
      <4>2. \A x \in DecodedIn(p, Resume(p), n) : x < n
        BY <2>1
      <4>3. Lists(Append(batch.clean_forward[p], n), DecodedIn(p, Resume(p), n) \cup {n})
        BY <1>2, <2>3, <2>4, <4>2, ListsAppend
      <4> QED BY <2>1, <3>2, <4>1, <4>3
    <3> QED BY <3>1, <3>2
  <2>6. Lists(batch'.poisons[p], PoisonedIn(p, Resume(p), n + 1))
    <3>1. CASE m # Poison
      BY <1>4, <2>1, <2>4, <3>1
    <3>2. CASE m = Poison
      <4>1. batch'.poisons[p] = Append(batch.poisons[p], n)
        BY <1>4, <2>3, <3>2
      <4>2. \A x \in PoisonedIn(p, Resume(p), n) : x < n
        BY <2>1
      <4>3. Lists(Append(batch.poisons[p], n), PoisonedIn(p, Resume(p), n) \cup {n})
        BY <1>2, <2>3, <2>4, <4>2, ListsAppend
      <4> QED BY <2>1, <3>2, <4>1, <4>3
    <3> QED BY <3>1, <3>2
  <2>7. \A o \in DecodedIn(p, Resume(p), n + 1) :
           ~Published(Message(p, o).ride_id) => <<p, o>> \in batch'.journal
    BY <1>4, <1>5, <2>1, <2>4 DEF m
  <2>8. \A row \in batch'.journal : row[1] = p => row[2] \in DecodedIn(p, Resume(p), n + 1)
    BY <1>4, <2>1, <2>4
  <2>9. batch'.max_offset[p] = n
    BY <1>4, <2>3
  <2>10. \A o \in DecodedIn(p, Resume(p), n + 1) :
            Published(Message(p, o).ride_id)' <=> Published(Message(p, o).ride_id)
    BY <1>0 DEF Published, Message, topics
  <2> QED BY <1>0, <1>1, <1>2, <2>2, <2>5, <2>6, <2>7, <2>8, <2>9, <2>10 DEF BatchExact, Message
<1>10. ASSUME NEW q \in Partitions, q # p PROVE BatchExact(q)'
  <2>1. /\ batch.clean_forward \in [Partitions -> Seq(Offsets)]
        /\ batch.poisons \in [Partitions -> Seq(Offsets)]
        /\ batch.max_offset \in [Partitions -> Offsets \cup {NoOffset}]
    BY <1>0 DEF TypeOK, Batch, Output
  <2>2. /\ batch'.max_offset[q] = batch.max_offset[q]
        /\ batch'.clean_forward[q] = batch.clean_forward[q]
        /\ batch'.poisons[q] = batch.poisons[q]
        /\ batch.journal \subseteq batch'.journal
        /\ \A row \in batch'.journal : row[1] = q => row \in batch.journal
    BY <1>4, <1>10, <2>1
  <2>3. DecodedIn(q, Resume(q), position[q])' = DecodedIn(q, Resume(q), position[q])
        /\ PoisonedIn(q, Resume(q), position[q])' = PoisonedIn(q, Resume(q), position[q])
    BY <1>0, <1>1, <1>2, <1>10 DEF DecodedIn, PoisonedIn, Message
  <2>4. \A o : Published(Message(q, o).ride_id)' <=> Published(Message(q, o).ride_id)
    BY <1>0 DEF Published, Message, topics
  <2> QED BY <1>0, <1>1, <1>2, <1>10, <2>2, <2>3, <2>4 DEF BatchExact, Message
<1>11. PollInv'
  <2>1. batch'.consumed > 0
    BY <1>0, <1>4 DEF TypeOK, Batch
  <2>2. position'[p] > Resume(p)'
    BY <1>1, <1>2
  <2> QED BY <1>0, <1>3, <1>4, <1>7, <1>8, <1>9, <1>10, <2>1, <2>2 DEF PollInv
<1> QED BY <1>0, <1>1, <1>11 DEF IInv, DownInv, AssignInv, BatchInv, TxnInv, CommittedInv

-----------------------------------------------------------------------------
(* _collect_closes finds exactly the rides whose session the batch has to  *)
(* publish.                                                                *)
LEMMA CollectClosesInv == IInv /\ TypeInv' /\ CollectCloses => IInv'
<1> SUFFICES ASSUME IInv, TypeInv', CollectCloses PROVE IInv'
  OBVIOUS
<1>0. /\ TypeOK /\ LogInv /\ TopicInv
      /\ pc = "poll" /\ pc' = "append"
      /\ UNCHANGED <<log, committed, topics, txn, store, accs, watermark, position, pending>>
      /\ \A p \in Partitions : RolledBack(p) /\ MemoryExact(p) /\ BatchExact(p)
      /\ txn.state \notin {"ongoing", "prepare_commit"}
      /\ \E p \in Partitions : position[p] > Resume(p)
  BY DEF IInv, TypeInv, CollectCloses, PollInv
<1>1. /\ LogInv' /\ TopicInv' /\ StoreInv'
      /\ \A p \in Partitions : Resume(p)' = Resume(p) /\ Resume(p) \in Nat /\ position[p] \in Nat
      /\ \A r \in Rides : Published(r)' = Published(r)
  <2>1. /\ LogInv' /\ TopicInv'
        /\ \A p \in Partitions : Resume(p)' = Resume(p)
        /\ \A r \in Rides : Published(r)' = Published(r)
    BY <1>0, KafkaFrame
  <2>2. StoreInv'
    BY <1>0, StoreFrame DEF IInv
  <2>3. \A p \in Partitions : Resume(p) \in Nat
    BY <1>0, Bounds
  <2>4. \A p \in Partitions : position[p] \in Nat
    BY <1>0, BoundAssumption DEF TypeOK
  <2> QED BY <2>1, <2>2, <2>3, <2>4
<1>2. /\ batch'.max_offset = batch.max_offset /\ batch'.journal = batch.journal
      /\ batch'.clean_forward = batch.clean_forward /\ batch'.poisons = batch.poisons
      /\ batch'.sessions =
            [r \in Rides |-> IF Closable(r) THEN <<build_session(accs[r])>> ELSE <<>>]
  BY <1>0 DEF CollectCloses, TypeOK, Batch
<1>3. \A p \in Partitions : RolledBack(p)' /\ MemoryExact(p)'
  BY <1>0, RolledBackFrame, MemoryFrame
<1>4. ASSUME NEW p \in Partitions PROVE BatchExact(p)'
  <2>1. position'[p] = position[p] /\ Resume(p)' = Resume(p) /\ BatchExact(p)
    BY <1>0, <1>1
  <2>2. \A m, n : DecodedIn(p, m, n)' = DecodedIn(p, m, n) /\ PoisonedIn(p, m, n)' = PoisonedIn(p, m, n)
    BY <1>0 DEF DecodedIn, PoisonedIn, Message
  <2>3. \A o : Published(Message(p, o).ride_id)' = Published(Message(p, o).ride_id)
    BY <1>0 DEF Published, Message, topics
  <2> QED BY <1>2, <2>1, <2>2, <2>3 DEF BatchExact
<1>5. ASSUME NEW r \in Rides
      PROVE  LET p == PartitionOf[r]
             IN  IF batch'.sessions[r] = <<>>
                 THEN Published(r) \/ terminal(SeenTypes(log, r, position[p])) = {}
                 ELSE /\ ~Published(r)
                      /\ batch'.sessions[r] = <<build_session(SeenTypes(log, r, position[p]))>>
                      /\ Closes(r, position[p])
                      /\ position[p] > Resume(p)
  <2> DEFINE p == PartitionOf[r]
  <2>1. p \in Partitions
    BY PartitionAssumption
  <2>2. /\ accs[r] = IF Published(r) THEN {} ELSE SeenTypes(log, r, position[p])
        /\ position[p] >= Resume(p)
        /\ watermark[p] \in SeenTs(log, p, position[p]) \cup {0}
    BY <1>0, <1>1, <2>1 DEF MemoryExact
  <2>3. batch.max_offset[p] # NoOffset <=> position[p] > Resume(p)
    BY <1>0, <1>1, <2>1 DEF BatchExact, NoOffset
  <2>4. CASE Closable(r)
    <3>1. accs[r] # {} /\ batch.max_offset[p] # NoOffset
          /\ (terminal(accs[r]) # {} \/ timed_out(r, accs[r], watermark[p]))
      BY <2>4 DEF Closable
    <3>2. ~Published(r) /\ accs[r] = SeenTypes(log, r, position[p]) /\ position[p] > Resume(p)
      BY <2>2, <2>3, <3>1
    <3>3. batch'.sessions[r] = <<build_session(SeenTypes(log, r, position[p]))>>
      BY <1>2, <2>4, <3>2
    <3>4. ASSUME timed_out(r, accs[r], watermark[p]) PROVE Overdue(log, r, position[p])
      <4> DEFINE S == {EventTs[r][t] : t \in accs[r]}
      <4>1. S \in SUBSET (0..MaxEventTs) /\ S # {}
        BY <1>0, <3>1, TimeAssumption DEF TypeOK
      <4> HIDE DEF S
      <4>2. Max(S) \in 0..MaxEventTs
        BY <4>1, BoundedMax, TimeAssumption
      <4>3. watermark[p] - Max(S) > Timeout
        BY <3>4 DEF timed_out, last_event_ts, S
      <4>4. watermark[p] # 0
        BY <4>2, <4>3, TimeAssumption
      <4>5. watermark[p] \in SeenTs(log, p, position[p])
        BY <2>2, <4>4
      <4> QED BY <3>2, <3>4, <4>5 DEF Overdue
    <3>5. Closes(r, position[p])
      BY <3>1, <3>2, <3>4 DEF Closes
    <3>6. batch'.sessions[r] # <<>>
      BY <3>3
    <3> QED BY <3>2, <3>3, <3>5, <3>6
  <2>5. CASE ~Closable(r)
    <3>1. batch'.sessions[r] = <<>>
      BY <1>2, <2>5
    <3>2. ASSUME ~Published(r), terminal(SeenTypes(log, r, position[p])) # {} PROVE FALSE
      <4>1. accs[r] = SeenTypes(log, r, position[p]) /\ accs[r] # {} /\ terminal(accs[r]) # {}
        BY <2>2, <3>2 DEF terminal
      <4>2. batch.max_offset[p] = NoOffset
        BY <2>5, <4>1 DEF Closable
      <4>3. position[p] = Resume(p)
        BY <1>1, <2>1, <2>2, <2>3, <4>2
      <4> QED BY <1>0, <3>2, <4>3 DEF TopicInv, ConsumedInputHasSession, Published
    <3> QED BY <3>1, <3>2
  <2> QED BY <2>4, <2>5
<1>6. SessionsRight(batch.sessions, position)'
  <2>1. \A r \in Rides : Closes(r, position[PartitionOf[r]])' = Closes(r, position[PartitionOf[r]])
    BY <1>0 DEF Closes
  <2> QED BY <1>0, <1>1, <1>5, <2>1, PartitionAssumption DEF SessionsRight
<1>7. BatchInv'
  BY <1>0, <1>1, <1>3, <1>4, <1>6 DEF BatchInv
<1> QED BY <1>0, <1>1, <1>7 DEF IInv, DownInv, AssignInv, PollInv, TxnInv, CommittedInv

(* The SQLite transaction before the Kafka one keeps the invariant: the    *)
(* store runs ahead.                                                       *)
LEMMA AppendBatchInv == IInv /\ TypeInv' /\ AppendBatch => IInv'
<1> SUFFICES ASSUME IInv, TypeInv', AppendBatch PROVE IInv'
  OBVIOUS
<1>0. /\ TypeOK /\ LogInv /\ TopicInv /\ StoreInv
      /\ pc = "append" /\ pc' = "transact"
      /\ UNCHANGED <<log, committed, topics, txn, accs, watermark, position, batch, pending>>
      /\ \A p \in Partitions : RolledBack(p) /\ MemoryExact(p) /\ BatchExact(p)
      /\ SessionsRight(batch.sessions, position)
      /\ \E p \in Partitions : position[p] > Resume(p)
      /\ txn.state \notin {"ongoing", "prepare_commit"}
      /\ journal' = journal \cup batch.journal
  BY DEF IInv, TypeInv, AppendBatch, BatchInv, TxnInv, memory
<1>1. /\ LogInv' /\ TopicInv'
      /\ \A p \in Partitions : Resume(p)' = Resume(p) /\ Resume(p) \in Nat /\ position[p] \in Nat
      /\ \A r \in Rides : Published(r)' = Published(r)
  BY <1>0, KafkaFrame, Bounds, BoundAssumption, SMTT(60) DEF TypeOK, IInv
<1>2. \A r \in Rides :
         /\ batch.sessions[r] # <<>> => closes'[r] = position[PartitionOf[r]] - 1
                                        /\ ~Published(r)
                                        /\ position[PartitionOf[r]] > Resume(PartitionOf[r])
         /\ batch.sessions[r] = <<>> => closes'[r] = closes[r]
  BY <1>0, <1>1, PartitionAssumption DEF AppendBatch, SessionsRight, BatchExact
<1>3. StoreInv'
  <2>1. \A r \in Rides : Published(r)' <=> closes'[r] \in 0..(Resume(PartitionOf[r])' - 1)
    BY <1>0, <1>1, <1>2, PartitionAssumption DEF StoreInv
  <2>2. \A p \in Partitions : \A o \in Decoded(log, p, Resume(p)) :
           ~Published(Message(p, o).ride_id) => <<p, o>> \in journal'
    BY <1>0 DEF StoreInv
  <2> QED BY <1>0, <1>1, <2>1, <2>2 DEF StoreInv, Published, Message, topics
<1>4. \A p \in Partitions : MemoryExact(p)' /\ BatchExact(p)'
  BY <1>0, MemoryFrame, BatchFrame
<1>5. SessionsRight(batch.sessions, position)'
  BY <1>0 DEF SessionsRight, Published, Closes, Resume, topics
<1>6. ClosesTagged(batch.sessions, position)'
  <2>1. \A r \in Rides : closes[r] < Resume(PartitionOf[r])
    BY <1>0, PartitionAssumption DEF RolledBack
  <2> QED BY <1>0, <1>1, <1>2, <2>1, PartitionAssumption DEF ClosesTagged
<1>7. \A row \in journal' \ batch'.journal : row[2] < Resume(row[1])'
  <2>1. \A row \in journal : row[1] \in Partitions
    BY <1>0 DEF TypeOK
  <2> QED BY <1>0, <1>1, <2>1 DEF RolledBack
<1>8. BatchInv'
  BY <1>0, <1>1, <1>4, <1>5, <1>6, <1>7 DEF BatchInv
<1> QED BY <1>0, <1>1, <1>3, <1>8 DEF IInv, DownInv, AssignInv, PollInv, TxnInv, CommittedInv

(* Once the offsets are in the transaction, its target is the position. *)
LEMMA TargetIsPosition ==
    ASSUME IInv, pc = "commit", txn.state \in {"ongoing", "prepare_commit"}, NEW p \in Partitions
    PROVE  /\ Target(p) = position[p]
           /\ position[p] \in Resume(p)..Len(log[p]) /\ Resume(p) \in Nat /\ Len(log[p]) \in Nat
<1>1. MemoryExact(p) /\ BatchExact(p) /\ txn.offsets[p] = OffsetToCommit(p)
  BY DEF IInv, BatchInv, TxnInv
<1>2. Resume(p) \in Nat /\ Len(log[p]) \in Nat
  BY Bounds DEF IInv, TypeInv
<1>3. position[p] \in Resume(p)..Len(log[p])
  BY <1>1 DEF MemoryExact
<1> QED BY <1>1, <1>2, <1>3 DEF Target, OffsetToCommit, BatchExact, NoOffset

(* Asking for the commit keeps the invariant; its outcome is open from     *)
(* here on.                                                                *)
LEMMA EndTxnInv == IInv /\ TypeInv' /\ EndTxn => IInv'
<1> SUFFICES ASSUME IInv, TypeInv', EndTxn PROVE IInv'
  OBVIOUS
<1>0. /\ TypeOK /\ pc = "commit" /\ pc' = "commit" /\ txn.state = "ongoing"
      /\ txn'.state = "prepare_commit" /\ txn'.sessions = txn.sessions /\ txn'.clean = txn.clean
      /\ txn'.dlq = txn.dlq /\ txn'.offsets = txn.offsets
      /\ txn.sessions = batch.sessions /\ txn.clean = batch.clean_forward
      /\ txn.dlq = batch.poisons
      /\ UNCHANGED <<log, committed, topics, store, pc, memory>>
      /\ UNCHANGED <<accs, watermark, position, batch, pending>>
      /\ BatchInv
  BY DEF IInv, TypeInv, TypeOK, Txn, EndTxn, TxnInv, memory
<1>1. /\ LogInv' /\ TopicInv' /\ StoreInv'
      /\ \A p \in Partitions : Resume(p)' = Resume(p)
  BY <1>0, KafkaFrame, StoreFrame DEF IInv
<1>2. \A p \in Partitions : Target(p) = position[p] /\ position[p] \in Resume(p)..Len(log[p])
  BY <1>0, TargetIsPosition
<1>3. BatchInv'
  BY <1>0, BatchInvFrame
<1>4. \A p \in Partitions : Target(p)' = position'[p]
  BY <1>0, <1>1, <1>2 DEF Target
<1>5. TxnExact'
  <2> DEFINE k == [p \in Partitions |-> Target(p)']
  <2>1. \A p \in Partitions : k[p] = position'[p]
    BY <1>4
  <2>a. /\ \A p \in Partitions : MemoryExact(p)' /\ BatchExact(p)'
        /\ \E p \in Partitions : position'[p] > Resume(p)'
        /\ SessionsRight(batch.sessions, position)'
        /\ ClosesTagged(batch.sessions, position)'
        /\ batch'.journal \subseteq journal'
    BY <1>0, <1>3 DEF BatchInv
  <2>2. \A p \in Partitions :
          /\ Target(p)' \in Resume(p)'..Len(log'[p])
          /\ Lists(txn'.clean[p], DecodedIn(p, Resume(p), Target(p))')
          /\ Lists(txn'.dlq[p], PoisonedIn(p, Resume(p), Target(p))')
          /\ \A o \in DecodedIn(p, Resume(p), Target(p))' :
                ~Published(Message(p, o).ride_id)' => <<p, o>> \in journal'
    BY <1>0, <1>4, <2>a, ZenonT(40) DEF MemoryExact, BatchExact, DecodedIn, PoisonedIn
  <2>3. \E p \in Partitions : Target(p)' > Resume(p)'
    BY <1>4, <2>a
  <2>4. SessionsRight(txn.sessions, [p \in Partitions |-> Target(p)])'
    <3>1. \A r \in Rides : k[PartitionOf[r]] = position'[PartitionOf[r]]
      BY <2>1, PartitionAssumption
    <3>2. \A r \in Rides :
             IF batch'.sessions[r] = <<>>
             THEN Published(r)' \/ terminal(SeenTypes(log', r, k[PartitionOf[r]])) = {}
             ELSE /\ ~Published(r)'
                  /\ batch'.sessions[r] = <<build_session(SeenTypes(log', r, k[PartitionOf[r]]))>>
                  /\ \/ terminal(SeenTypes(log', r, k[PartitionOf[r]])) # {}
                     \/ Overdue(log', r, k[PartitionOf[r]])
                  /\ k[PartitionOf[r]] > Resume(PartitionOf[r])'
      BY <2>a, <3>1 DEF SessionsRight, Closes
    <3> QED BY <1>0, <3>2 DEF SessionsRight, Closes
  <2>5. ClosesTagged(txn.sessions, [p \in Partitions |-> Target(p)])'
    BY <1>0, <2>1, <2>a, PartitionAssumption DEF ClosesTagged
  <2> QED BY <2>2, <2>3, <2>4, <2>5 DEF TxnExact
<1>6. TxnInv'
  BY <1>0, <1>5 DEF TxnInv, IInv, OffsetToCommit
<1> QED BY <1>0, <1>1, <1>3, <1>6 DEF IInv, DownInv, AssignInv, PollInv, CommittedInv

-----------------------------------------------------------------------------
(* The commit of a transaction publishes its batch: what the abstract      *)
(* specification calls Publish, and what the invariant says of the topics. *)
LEMMA CommitPublishes ==
    ASSUME IInv, CompleteCommit
    PROVE  /\ \A p \in Partitions :
                /\ Resume(p)' = Target(p)
                /\ Target(p) \in Resume(p)..Len(log[p])
                /\ Resume(p) \in Nat /\ Len(log[p]) \in Nat
                /\ Lists(rides_clean'[p], Decoded(log, p, Target(p)))
                /\ Lists(rides_dlq'[p], Poisoned(log, p, Target(p)))
           /\ \E p \in Partitions : Target(p) > Resume(p)
           /\ \A r \in Rides :
                /\ txn.sessions[r] = <<>> => rides_sessions'[r] = rides_sessions[r]
                /\ txn.sessions[r] # <<>> => rides_sessions'[r] = txn.sessions[r]
                                             /\ rides_sessions[r] = <<>>
<1>0. /\ TypeOK /\ LogInv /\ TopicInv /\ TxnExact
      /\ txn.offsets \in [Partitions -> 0..MaxLog \cup {NoOffset}]
      /\ txn.clean \in [Partitions -> Seq(Offsets)] /\ txn.dlq \in [Partitions -> Seq(Offsets)]
      /\ rides_clean \in [Partitions -> Seq(Offsets)] /\ rides_dlq \in [Partitions -> Seq(Offsets)]
      /\ rides_sessions \in [Rides -> Seq(Session)] /\ txn.sessions \in [Rides -> Seq(Session)]
  BY DEF IInv, TypeInv, TypeOK, Txn, Output, TxnInv, CompleteCommit
<1>1. ASSUME NEW p \in Partitions
      PROVE  /\ Resume(p)' = Target(p)
             /\ Target(p) \in Resume(p)..Len(log[p])
             /\ Resume(p) \in Nat /\ Len(log[p]) \in Nat
             /\ Lists(rides_clean'[p], Decoded(log, p, Target(p)))
             /\ Lists(rides_dlq'[p], Poisoned(log, p, Target(p)))
  <2>1. txn.offsets[p] = NoOffset \/ txn.offsets[p] \in Nat
    BY <1>0, BoundAssumption
  <2>2. committed'[p] = IF txn.offsets[p] # NoOffset THEN txn.offsets[p] ELSE committed[p]
    BY DEF CompleteCommit
  <2>3. Resume(p)' = Target(p)
    BY <2>1, <2>2 DEF Resume, Target, NoOffset
  <2>4. Resume(p) \in Nat /\ Len(log[p]) \in Nat
    BY <1>0, Bounds
  <2>5. /\ Target(p) \in Resume(p)..Len(log[p])
        /\ Lists(txn.clean[p], DecodedIn(p, Resume(p), Target(p)))
        /\ Lists(txn.dlq[p], PoisonedIn(p, Resume(p), Target(p)))
    BY <1>0 DEF TxnExact
  <2>6. /\ Lists(rides_clean[p], Decoded(log, p, Resume(p)))
        /\ Lists(rides_dlq[p], Poisoned(log, p, Resume(p)))
    BY <1>0 DEF TopicInv, OutputsMatchCommittedOffsets
  <2>7. /\ rides_clean[p] \in Seq(Nat) /\ rides_dlq[p] \in Seq(Nat)
        /\ txn.clean[p] \in Seq(Nat) /\ txn.dlq[p] \in Seq(Nat)
    BY <1>0, OffsetSeqs
  <2>8. /\ rides_clean'[p] = rides_clean[p] \o txn.clean[p]
        /\ rides_dlq'[p] = rides_dlq[p] \o txn.dlq[p]
    BY DEF CompleteCommit
  <2>9. /\ Decoded(log, p, Target(p)) =
             Decoded(log, p, Resume(p)) \cup DecodedIn(p, Resume(p), Target(p))
        /\ Poisoned(log, p, Target(p)) =
             Poisoned(log, p, Resume(p)) \cup PoisonedIn(p, Resume(p), Target(p))
        /\ \A x \in Decoded(log, p, Resume(p)), y \in DecodedIn(p, Resume(p), Target(p)) : x < y
        /\ \A x \in Poisoned(log, p, Resume(p)), y \in PoisonedIn(p, Resume(p), Target(p)) : x < y
    <3>1. Target(p) \in Nat /\ Resume(p) <= Target(p)
      BY <2>4, <2>5
    <3> QED BY <2>4, <3>1, PrefixSplit
  <2>10. Lists(rides_clean'[p], Decoded(log, p, Target(p)))
    <3> DEFINE S == Decoded(log, p, Resume(p))
               T == DecodedIn(p, Resume(p), Target(p))
    <3>1. Lists(rides_clean[p], S) /\ Lists(txn.clean[p], T) /\ \A x \in S, y \in T : x < y
      BY <2>5, <2>6, <2>9
    <3> HIDE DEF S, T
    <3>2. Lists(rides_clean[p] \o txn.clean[p], S \cup T)
      BY <2>7, <3>1, ListsConcat
    <3> QED BY <2>8, <2>9, <3>2 DEF S, T
  <2>11. Lists(rides_dlq'[p], Poisoned(log, p, Target(p)))
    <3> DEFINE S == Poisoned(log, p, Resume(p))
               T == PoisonedIn(p, Resume(p), Target(p))
    <3>1. Lists(rides_dlq[p], S) /\ Lists(txn.dlq[p], T) /\ \A x \in S, y \in T : x < y
      BY <2>5, <2>6, <2>9
    <3> HIDE DEF S, T
    <3>2. Lists(rides_dlq[p] \o txn.dlq[p], S \cup T)
      BY <2>7, <3>1, ListsConcat
    <3> QED BY <2>8, <2>9, <3>2 DEF S, T
  <2> QED BY <2>3, <2>4, <2>5, <2>10, <2>11
<1>2. \E p \in Partitions : Target(p) > Resume(p)
  BY <1>0 DEF TxnExact
<1>3. ASSUME NEW r \in Rides
      PROVE  /\ txn.sessions[r] = <<>> => rides_sessions'[r] = rides_sessions[r]
             /\ txn.sessions[r] # <<>> => rides_sessions'[r] = txn.sessions[r]
                                          /\ rides_sessions[r] = <<>>
  <2>1. rides_sessions'[r] = rides_sessions[r] \o txn.sessions[r]
    BY DEF CompleteCommit
  <2>2. rides_sessions[r] \in Seq(Session) /\ txn.sessions[r] \in Seq(Session)
    BY <1>0
  <2>3. txn.sessions[r] # <<>> => rides_sessions[r] = <<>>
    BY <1>0 DEF TxnExact, SessionsRight, Published
  <2>4. /\ rides_sessions[r] \o <<>> = rides_sessions[r]
        /\ <<>> \o txn.sessions[r] = txn.sessions[r]
    BY <2>2, ConcatEmptySeq
  <2> QED BY <2>1, <2>3, <2>4
<1> QED BY <1>1, <1>2, <1>3

(* The commit publishes outputs and offsets together, and the store has    *)
(* caught up with them.                                                    *)
LEMMA CompleteCommitInv == IInv /\ TypeInv' /\ CompleteCommit => IInv'
<1> SUFFICES ASSUME IInv, TypeInv', CompleteCommit PROVE IInv'
  OBVIOUS
<1>0. /\ TypeOK /\ LogInv /\ TopicInv /\ StoreInv /\ TxnExact
      /\ pc \in {"down", "commit"} /\ pc' = pc /\ txn.state = "prepare_commit"
      /\ txn'.state = "complete_commit"
      /\ UNCHANGED <<log, journal, closes, accs, watermark, position, batch, pending>>
  BY DEF IInv, TypeInv, TxnInv, CompleteCommit, EmptyTxn, store, memory
<1>1. /\ \A p \in Partitions :
            /\ Resume(p)' = Target(p)
            /\ Target(p) \in Resume(p)..Len(log[p])
            /\ Resume(p) \in Nat /\ Len(log[p]) \in Nat
            /\ Lists(rides_clean'[p], Decoded(log, p, Target(p)))
            /\ Lists(rides_dlq'[p], Poisoned(log, p, Target(p)))
      /\ \A r \in Rides :
            /\ txn.sessions[r] = <<>> => rides_sessions'[r] = rides_sessions[r]
            /\ txn.sessions[r] # <<>> => rides_sessions'[r] = txn.sessions[r]
                                         /\ rides_sessions[r] = <<>>
  BY CommitPublishes
<1>2. \A r \in Rides : PartitionOf[r] \in Partitions
  BY PartitionAssumption
<1>3. \A r \in Rides : LET p == PartitionOf[r] IN
         /\ txn.sessions[r] = <<>> =>
               Published(r) \/ terminal(SeenTypes(log, r, Target(p))) = {}
         /\ txn.sessions[r] # <<>> =>
               /\ txn.sessions[r] = <<build_session(SeenTypes(log, r, Target(p)))>>
               /\ Target(p) > Resume(p)
               /\ closes[r] = Target(p) - 1
         /\ txn.sessions[r] = <<>> => closes[r] < Resume(p)
  BY <1>0, <1>2 DEF TxnExact, SessionsRight, ClosesTagged
<1>4. \A r \in Rides : Published(r)' <=> Published(r) \/ txn.sessions[r] # <<>>
  BY <1>1 DEF Published
<1>5. LogInv'
  BY <1>0, <1>1 DEF LogInv
<1>6. TopicInv'
  <2>1. SessionsOnceAndComplete'
    <3> SUFFICES ASSUME NEW r \in Rides, rides_sessions'[r] # <<>>
                 PROVE  /\ Len(rides_sessions'[r]) = 1
                        /\ \E n \in 1..Target(PartitionOf[r]) :
                              rides_sessions'[r][1] = build_session(SeenTypes(log, r, n))
      BY <1>0, <1>1, <1>2 DEF SessionsOnceAndComplete
    <3>1. CASE txn.sessions[r] = <<>>
      <4>1. /\ Len(rides_sessions[r]) = 1
            /\ \E n \in 1..Resume(PartitionOf[r]) :
                  rides_sessions[r][1] = build_session(SeenTypes(log, r, n))
        BY <1>0, <1>1, <3>1 DEF TopicInv, SessionsOnceAndComplete
      <4>2. \A n \in 1..Resume(PartitionOf[r]) : n \in 1..Target(PartitionOf[r])
        BY <1>1, <1>2
      <4> QED BY <1>1, <3>1, <4>1, <4>2
    <3>2. CASE txn.sessions[r] # <<>>
      <4>1. rides_sessions'[r] = <<build_session(SeenTypes(log, r, Target(PartitionOf[r])))>>
        BY <1>1, <1>3, <3>2
      <4>2. Target(PartitionOf[r]) \in 1..Target(PartitionOf[r])
        BY <1>1, <1>2, <1>3, <3>2
      <4> QED BY <4>1, <4>2
    <3> QED BY <3>1, <3>2
  <2>2. ConsumedInputHasSession'
    BY <1>0, <1>1, <1>2, <1>3, <1>4 DEF ConsumedInputHasSession, Published
  <2>3. OutputsMatchCommittedOffsets'
    BY <1>0, <1>1 DEF OutputsMatchCommittedOffsets
  <2> QED BY <2>1, <2>2, <2>3 DEF TopicInv
<1>7. StoreInv'
  <2>1. ASSUME NEW r \in Rides
        PROVE  Published(r)' <=> closes'[r] \in 0..(Resume(PartitionOf[r])' - 1)
    <3> DEFINE p == PartitionOf[r]
    <3>1. /\ Resume(p)' = Target(p) /\ Target(p) \in Resume(p)..Len(log[p])
          /\ Resume(p) \in Nat /\ Len(log[p]) \in Nat
      BY <1>1, <1>2
    <3>2. Published(r) <=> closes[r] \in 0..(Resume(p) - 1)
      BY <1>0 DEF StoreInv
    <3>3. closes[r] = NoOffset \/ closes[r] \in Nat
      BY <1>0, BoundAssumption DEF TypeOK, Offsets
    <3>4. /\ txn.sessions[r] # <<>> => Target(p) > Resume(p) /\ closes[r] = Target(p) - 1
          /\ txn.sessions[r] = <<>> => closes[r] < Resume(p)
      BY <1>3
    <3> HIDE DEF p
    <3>5. Published(r)' <=> closes[r] \in 0..(Resume(p)' - 1)
      BY <1>4, <3>1, <3>2, <3>3, <3>4 DEF NoOffset
    <3> QED BY <1>0, <3>5 DEF p
  <2>2. ASSUME NEW p \in Partitions, NEW o \in Decoded(log, p, Target(p)),
               ~Published(Message(p, o).ride_id)'
        PROVE  <<p, o>> \in journal
    <3>0. /\ Target(p) \in Resume(p)..Len(log[p]) /\ Resume(p) \in Nat /\ Len(log[p]) \in Nat
          /\ o \in 0..(Target(p) - 1) /\ Message(p, o) # Poison
      BY <1>1 DEF Decoded, Message
    <3>1. o \in Nat /\ o < Len(log[p])
      BY <3>0
    <3>2. Message(p, o).ride_id \in Rides
      BY <1>0, <3>0, <3>1, EventAt
    <3>3. ~Published(Message(p, o).ride_id)
      <4>1. Message(p, o)' = Message(p, o)
        BY <1>0 DEF Message
      <4> QED BY <1>4, <2>2, <3>2, <4>1 DEF Published
    <3>4. o \in Decoded(log, p, Resume(p)) \/ o \in DecodedIn(p, Resume(p), Target(p))
      BY <3>0, <3>1 DEF Decoded, DecodedIn, Message
    <3> QED BY <1>0, <3>3, <3>4 DEF StoreInv, TxnExact
  <2> QED BY <1>0, <1>1, <2>1, <2>2 DEF StoreInv
<1>8. CommittedInv'
  <2> SUFFICES ASSUME pc = "commit" PROVE CommittedInv'
    BY <1>0 DEF CommittedInv
  <2>1. \A p \in Partitions : Target(p) = position[p]
    BY <1>0, TargetIsPosition
  <2>2. /\ \A p \in Partitions : MemoryExact(p) /\ BatchExact(p)
        /\ batch.sessions = txn.sessions
        /\ \A row \in journal \ batch.journal : row[2] < Resume(row[1])
    BY <1>0 DEF IInv, BatchInv, TxnInv
  <2>3. ASSUME NEW p \in Partitions PROVE RolledBack(p)'
    <3>1. ASSUME NEW row \in journal, row[1] = p PROVE row[2] < Target(p)
      <4>0. row[2] \in Nat
        BY <1>0, BoundAssumption DEF TypeOK, Offsets
      <4>1. CASE row \in batch.journal
        <5>1. row[2] \in DecodedIn(p, Resume(p), position[p])
          BY <2>2, <3>1, <4>1 DEF BatchExact
        <5> QED BY <1>1, <2>1, <5>1 DEF DecodedIn
      <4>2. CASE row \notin batch.journal
        BY <1>1, <2>2, <3>1, <4>0, <4>2
      <4> QED BY <4>1, <4>2
    <3>2. ASSUME NEW r \in Rides, PartitionOf[r] = p PROVE closes[r] < Target(p)
      <4>1. closes[r] = NoOffset \/ closes[r] \in Nat
        BY <1>0, BoundAssumption DEF TypeOK, Offsets
      <4> QED BY <1>1, <1>3, <3>2, <4>1 DEF NoOffset
    <3> QED BY <1>0, <1>1, <3>1, <3>2 DEF RolledBack
  <2>4. \A p \in Partitions : /\ position'[p] = Resume(p)'
                              /\ watermark'[p] \in SeenTs(log', p, position'[p]) \cup {0}
    BY <1>0, <1>1, <2>1, <2>2 DEF MemoryExact
  <2>5. ASSUME NEW r \in Rides
        PROVE  /\ batch'.sessions[r] # <<>> => Published(r)'
               /\ batch'.sessions[r] = <<>> =>
                     accs'[r] = IF Published(r)' THEN {}
                                ELSE SeenTypes(log', r, Resume(PartitionOf[r])')
    <3>1. accs[r] = IF Published(r) THEN {} ELSE SeenTypes(log, r, position[PartitionOf[r]])
      BY <1>2, <2>2 DEF MemoryExact
    <3> QED BY <1>0, <1>1, <1>2, <1>4, <2>1, <2>2, <3>1
  <2> QED BY <2>3, <2>4, <2>5 DEF CommittedInv
<1>9. DownInv' /\ TxnInv' /\ BatchInv'
  BY <1>0 DEF IInv, DownInv, TxnInv, BatchInv
<1> QED BY <1>0, <1>5, <1>6, <1>7, <1>8, <1>9 DEF IInv, AssignInv, PollInv

-----------------------------------------------------------------------------
(* Whatever speaks of a prefix that is in the log survives an append.      *)
LEMMA ProduceInv ==
    ASSUME IInv, TypeInv', NEW p \in Partitions, Produce(p)
    PROVE  IInv'
<1>0. /\ TypeOK /\ LogInv /\ TopicInv /\ StoreInv
      /\ UNCHANGED <<committed, rides_sessions, rides_clean, rides_dlq, txn, journal, closes, pc>>
      /\ UNCHANGED <<accs, watermark, position, batch, pending>>
  BY DEF IInv, TypeInv, Produce, topics, store, memory
<1>1. PICK m \in MessagesOf(p) : log' = [log EXCEPT ![p] = Append(@, m)]
  BY DEF Produce
<1>2. \A q \in Partitions :
         /\ Resume(q)' = Resume(q) /\ Resume(q) \in Nat /\ Resume(q) <= Len(log[q])
         /\ Len(log[q]) \in Nat /\ Len(log'[q]) \in Nat /\ Len(log'[q]) >= Len(log[q])
         /\ \A i \in 1..Len(log[q]) : log'[q][i] = log[q][i]
  BY <1>0, <1>1, Bounds, SMTT(60) DEF TypeOK, Resume
<1>3. \A q \in Partitions : \A n \in 0..Len(log[q]) :
         /\ Decoded(log', q, n) = Decoded(log, q, n)
         /\ Poisoned(log', q, n) = Poisoned(log, q, n)
         /\ SeenTs(log', q, n) = SeenTs(log, q, n)
         /\ \A r \in Rides : PartitionOf[r] = q =>
               /\ SeenTypes(log', r, n) = SeenTypes(log, r, n)
               /\ Overdue(log', r, n) <=> Overdue(log, r, n)
  <2> SUFFICES ASSUME NEW q \in Partitions, NEW n \in 0..Len(log[q])
               PROVE  /\ Decoded(log', q, n) = Decoded(log, q, n)
                      /\ Poisoned(log', q, n) = Poisoned(log, q, n)
                      /\ SeenTs(log', q, n) = SeenTs(log, q, n)
                      /\ \A r \in Rides : PartitionOf[r] = q =>
                            /\ SeenTypes(log', r, n) = SeenTypes(log, r, n)
                            /\ Overdue(log', r, n) <=> Overdue(log, r, n)
    OBVIOUS
  <2>1. n \in Nat /\ \A i \in 1..n : log'[q][i] = log[q][i]
    BY <1>2
  <2> QED BY <2>1, PrefixStable
<1>4. \A r \in Rides : \A n \in 0..Len(log[PartitionOf[r]]) :
         /\ SeenTypes(log', r, n) = SeenTypes(log, r, n)
         /\ Overdue(log', r, n) <=> Overdue(log, r, n)
  BY <1>3, PartitionAssumption
<1>5. \A q \in Partitions : \A n \in 0..Len(log[q]) :
         /\ \A o \in 0..(n - 1) : Message(q, o)' = Message(q, o)
         /\ \A c \in Nat : DecodedIn(q, c, n)' = DecodedIn(q, c, n)
                           /\ PoisonedIn(q, c, n)' = PoisonedIn(q, c, n)
  <2>1. \A q \in Partitions : \A n \in 0..Len(log[q]) : \A o \in 0..(n - 1) :
           Message(q, o)' = Message(q, o)
    <3> SUFFICES ASSUME NEW q \in Partitions, NEW n \in 0..Len(log[q]), NEW o \in 0..(n - 1)
                 PROVE  log'[q][o + 1] = log[q][o + 1]
      BY DEF Message
    <3>1. Len(log[q]) \in Nat
      BY <1>0 DEF TypeOK
    <3>2. o + 1 \in 1..Len(log[q])
      BY <3>1
    <3> QED BY <1>2, <3>2
  <2>2. ASSUME NEW q \in Partitions, NEW n \in 0..Len(log[q]), NEW c \in Nat
        PROVE  DecodedIn(q, c, n)' = DecodedIn(q, c, n)
               /\ PoisonedIn(q, c, n)' = PoisonedIn(q, c, n)
    <3>1. Len(log[q]) \in Nat
      BY <1>0 DEF TypeOK
    <3>2. \A o \in c..(n - 1) : o \in 0..(n - 1)
      BY <3>1
    <3>3. \A o \in c..(n - 1) : Message(q, o)' = Message(q, o)
      BY <2>1, <3>2
    <3> QED BY <3>3 DEF DecodedIn, PoisonedIn
  <2> QED BY <2>1, <2>2
<1>6. \A q \in Partitions : Resume(q) \in 0..Len(log[q])
  BY <1>2
<1>7. LogInv'
  <2>1. ASSUME NEW q \in Partitions, NEW i \in 1..Len(log'[q]) PROVE log'[q][i] \in MessagesOf(q)
    <3>1. CASE i \in 1..Len(log[q])
      BY <1>0, <1>2, <3>1 DEF LogInv
    <3>2. CASE i \notin 1..Len(log[q])
      <4>1. log[q] \in Seq(Event \cup {Poison})
        BY <1>0 DEF TypeOK
      <4>2. q = p
        BY <1>0, <1>1, <3>2 DEF TypeOK
      <4>3. log'[p] = Append(log[p], m)
        BY <1>0, <1>1 DEF TypeOK
      <4>4. log'[p][i] = m
        BY <1>2, <3>2, <4>1, <4>2, <4>3
      <4> QED BY <4>2, <4>4
    <3> QED BY <3>1, <3>2
  <2> QED BY <1>2, <2>1 DEF LogInv
<1>8. TopicInv'
  <2>1. SessionsOnceAndComplete'
    <3> SUFFICES ASSUME NEW r \in Rides, rides_sessions[r] # <<>>
                 PROVE  \E n \in 1..Resume(PartitionOf[r]) :
                           rides_sessions[r][1] = build_session(SeenTypes(log', r, n))
      BY <1>0, <1>2, PartitionAssumption DEF TopicInv, SessionsOnceAndComplete
    <3>1. PICK n \in 1..Resume(PartitionOf[r]) :
             rides_sessions[r][1] = build_session(SeenTypes(log, r, n))
      BY <1>0 DEF TopicInv, SessionsOnceAndComplete
    <3>2. n \in 0..Len(log[PartitionOf[r]])
      BY <1>2, PartitionAssumption
    <3> QED BY <1>4, <3>1, <3>2
  <2>2. ConsumedInputHasSession'
    BY <1>0, <1>2, <1>4, <1>6, PartitionAssumption DEF TopicInv, ConsumedInputHasSession
  <2>3. OutputsMatchCommittedOffsets'
    BY <1>0, <1>2, <1>3, <1>6 DEF TopicInv, OutputsMatchCommittedOffsets
  <2> QED BY <2>1, <2>2, <2>3 DEF TopicInv
<1>9. \A r : Published(r)' <=> Published(r)
  BY <1>0 DEF Published
<1>10. \A q \in Partitions : \A o \in 0..(Len(log[q]) - 1) :
          Published(Message(q, o).ride_id)' <=> Published(Message(q, o).ride_id)
  <2> SUFFICES ASSUME NEW q \in Partitions, NEW o \in 0..(Len(log[q]) - 1)
               PROVE  Published(Message(q, o).ride_id)' <=> Published(Message(q, o).ride_id)
    OBVIOUS
  <2>1. Len(log[q]) \in 0..Len(log[q])
    BY <1>0 DEF TypeOK
  <2>2. Message(q, o)' = Message(q, o)
    BY <1>5, <2>1
  <2> QED BY <1>0, <2>2 DEF Published
<1>11. StoreInv'
  <2>1. \A r \in Rides : Published(r)' <=> closes'[r] \in 0..(Resume(PartitionOf[r])' - 1)
    BY <1>0, <1>2, <1>9, PartitionAssumption DEF StoreInv
  <2>2. ASSUME NEW q \in Partitions, NEW o \in Decoded(log', q, Resume(q)),
               ~Published(Message(q, o).ride_id)'
        PROVE  <<q, o>> \in journal
    <3>1. o \in Decoded(log, q, Resume(q)) /\ o \in 0..(Len(log[q]) - 1)
      BY <1>2, <1>3, <1>6 DEF Decoded
    <3> QED BY <1>0, <1>10, <2>2, <3>1 DEF StoreInv
  <2> QED BY <1>0, <1>2, <2>1, <2>2 DEF StoreInv
<1>12. \A q \in Partitions : RolledBack(q) => RolledBack(q)'
  BY <1>0, <1>2 DEF RolledBack
<1>13. \A q \in Partitions : MemoryExact(q) => MemoryExact(q)'
  <2> SUFFICES ASSUME NEW q \in Partitions, MemoryExact(q) PROVE MemoryExact(q)'
    OBVIOUS
  <2>1. position[q] \in Resume(q)..Len(log[q]) /\ position[q] \in 0..Len(log[q])
    BY <1>2 DEF MemoryExact
  <2> QED BY <1>0, <1>2, <1>3, <1>9, <2>1 DEF MemoryExact
<1>14. \A q \in Partitions : MemoryExact(q) /\ BatchExact(q) => BatchExact(q)'
  <2> SUFFICES ASSUME NEW q \in Partitions, MemoryExact(q), BatchExact(q) PROVE BatchExact(q)'
    OBVIOUS
  <2>1. position[q] \in 0..Len(log[q])
    BY <1>2 DEF MemoryExact
  <2>2. DecodedIn(q, Resume(q), position[q])' = DecodedIn(q, Resume(q), position[q])
        /\ PoisonedIn(q, Resume(q), position[q])' = PoisonedIn(q, Resume(q), position[q])
    <3>1. DecodedIn(q, Resume(q), position[q])' = {o \in Resume(q)..(position[q] - 1) : Message(q, o)' # Poison}
          /\ PoisonedIn(q, Resume(q), position[q])' = {o \in Resume(q)..(position[q] - 1) : Message(q, o)' = Poison}
      BY <1>0, <1>2 DEF DecodedIn, PoisonedIn
    <3>2. \A o \in Resume(q)..(position[q] - 1) : Message(q, o)' = Message(q, o)
      BY <1>2, <1>5, <2>1
    <3> QED BY <3>1, <3>2 DEF DecodedIn, PoisonedIn
  <2>3. \A o \in DecodedIn(q, Resume(q), position[q]) : o \in 0..(Len(log[q]) - 1)
    BY <1>2, <2>1 DEF DecodedIn
  <2>4. \A o \in DecodedIn(q, Resume(q), position[q]) :
          ~Published(Message(q, o).ride_id)' => <<q, o>> \in batch.journal
    BY <1>10, <2>3 DEF BatchExact
  <2> QED BY <1>0, <1>2, <2>2, <2>4 DEF BatchExact
<1>15. AssignInv'
  BY <1>0, <1>2, <1>12, <1>13 DEF IInv, AssignInv
<1>16. PollInv'
  BY <1>0, <1>2, <1>12, <1>13, <1>14 DEF IInv, PollInv
<1>17. ASSUME NEW s, NEW n, \A q \in Partitions : n[q] \in 0..Len(log[q]), SessionsRight(s, n)
       PROVE  \A r \in Rides :
                  IF s[r] = <<>>
                  THEN Published(r)' \/ terminal(SeenTypes(log', r, n[PartitionOf[r]])) = {}
                  ELSE /\ ~Published(r)'
                       /\ s[r] = <<build_session(SeenTypes(log', r, n[PartitionOf[r]]))>>
                       /\ \/ terminal(SeenTypes(log', r, n[PartitionOf[r]])) # {}
                          \/ Overdue(log', r, n[PartitionOf[r]])
                       /\ n[PartitionOf[r]] > Resume(PartitionOf[r])'
  BY <1>2, <1>4, <1>9, <1>17, PartitionAssumption DEF SessionsRight, Closes
<1>18. BatchInv'
  <2> SUFFICES ASSUME \/ pc \in {"append", "transact", "send_offsets"}
                      \/ pc = "commit" /\ txn.state \in {"ongoing", "prepare_commit"}
               PROVE  BatchInv'
    BY <1>0 DEF BatchInv
  <2>1. /\ \A q \in Partitions : MemoryExact(q) /\ BatchExact(q)
        /\ \E q \in Partitions : position[q] > Resume(q)
        /\ SessionsRight(batch.sessions, position)
        /\ IF pc = "append"
           THEN \A q \in Partitions : RolledBack(q)
           ELSE batch.journal \subseteq journal /\ ClosesTagged(batch.sessions, position)
                /\ \A row \in journal \ batch.journal : row[2] < Resume(row[1])
    BY DEF IInv, BatchInv
  <2>2. \A q \in Partitions : position[q] \in 0..Len(log[q])
    BY <1>2, <2>1 DEF MemoryExact
  <2>3. SessionsRight(batch.sessions, position)'
    <3>1. SessionsRight(batch.sessions, position)
      BY <2>1
    <3>2. \A r \in Rides :
             IF batch.sessions[r] = <<>>
             THEN Published(r)' \/ terminal(SeenTypes(log', r, position[PartitionOf[r]])) = {}
             ELSE /\ ~Published(r)'
                  /\ batch.sessions[r] = <<build_session(SeenTypes(log', r, position[PartitionOf[r]]))>>
                  /\ \/ terminal(SeenTypes(log', r, position[PartitionOf[r]])) # {}
                     \/ Overdue(log', r, position[PartitionOf[r]])
                  /\ position[PartitionOf[r]] > Resume(PartitionOf[r])'
      BY <1>17, <2>2, <3>1
    <3>3. batch' = batch /\ position' = position
      BY <1>0
    <3> QED BY <3>2, <3>3 DEF SessionsRight, Closes
  <2>4. ClosesTagged(batch.sessions, position) => ClosesTagged(batch.sessions, position)'
    BY <1>0, <1>2, PartitionAssumption DEF ClosesTagged
  <2>5. \A row \in journal : row[1] \in Partitions
    BY <1>0 DEF TypeOK
  <2> QED BY <1>0, <1>2, <1>12, <1>13, <1>14, <2>1, <2>3, <2>4, <2>5 DEF BatchInv
<1>19. TxnExact => TxnExact'
  <2> SUFFICES ASSUME TxnExact PROVE TxnExact'
    OBVIOUS
  <2> DEFINE k == [q \in Partitions |-> Target(q)]
  <2>1. \A q \in Partitions : Target(q)' = Target(q) /\ Target(q) \in Resume(q)..Len(log[q])
                              /\ Target(q) \in 0..Len(log[q])
    BY <1>0, <1>2 DEF TxnExact, Target
  <2>2. k' = k
    BY <2>1
  <2>3. ASSUME NEW q \in Partitions
        PROVE  /\ Target(q)' \in Resume(q)'..Len(log'[q])
               /\ Lists(txn'.clean[q], DecodedIn(q, Resume(q), Target(q))')
               /\ Lists(txn'.dlq[q], PoisonedIn(q, Resume(q), Target(q))')
               /\ \A o \in DecodedIn(q, Resume(q), Target(q))' :
                     ~Published(Message(q, o).ride_id)' => <<q, o>> \in journal'
    <3>1. DecodedIn(q, Resume(q), Target(q))' = DecodedIn(q, Resume(q), Target(q))
          /\ PoisonedIn(q, Resume(q), Target(q))' = PoisonedIn(q, Resume(q), Target(q))
      <4>1. DecodedIn(q, Resume(q), Target(q))' = {o \in Resume(q)..(Target(q) - 1) : Message(q, o)' # Poison}
            /\ PoisonedIn(q, Resume(q), Target(q))' = {o \in Resume(q)..(Target(q) - 1) : Message(q, o)' = Poison}
        BY <1>2, <2>1 DEF DecodedIn, PoisonedIn
      <4>2. \A o \in Resume(q)..(Target(q) - 1) : Message(q, o)' = Message(q, o)
        BY <1>2, <1>5, <2>1
      <4> QED BY <4>1, <4>2 DEF DecodedIn, PoisonedIn
    <3>2. /\ Lists(txn.clean[q], DecodedIn(q, Resume(q), Target(q)))
          /\ Lists(txn.dlq[q], PoisonedIn(q, Resume(q), Target(q)))
          /\ \A o \in DecodedIn(q, Resume(q), Target(q)) :
                ~Published(Message(q, o).ride_id) => <<q, o>> \in journal
      BY DEF TxnExact
    <3>3. \A o \in DecodedIn(q, Resume(q), Target(q)) : o \in 0..(Len(log[q]) - 1)
      BY <1>2, <2>1 DEF DecodedIn
    <3>4. Target(q)' \in Resume(q)'..Len(log'[q])
      BY <1>2, <2>1
    <3> QED BY <1>0, <1>10, <3>1, <3>2, <3>3, <3>4
  <2>4. \E q \in Partitions : Target(q)' > Resume(q)'
    BY <1>2, <2>1 DEF TxnExact
  <2>5. SessionsRight(txn.sessions, k) /\ ClosesTagged(txn.sessions, k)
        /\ \A q \in Partitions : k[q] \in 0..Len(log[q])
    BY <2>1 DEF TxnExact
  <2> HIDE DEF k
  <2>6. SessionsRight(txn.sessions, k)'
    BY <1>0, <1>17, <2>2, <2>5, ZenonT(180) DEF SessionsRight, Closes
  <2>7. ClosesTagged(txn.sessions, k)'
    BY <1>0, <1>2, <2>2, <2>5, PartitionAssumption DEF ClosesTagged
  <2> QED BY <2>3, <2>4, <2>6, <2>7 DEF TxnExact, k
<1>20. TxnInv'
  BY <1>0, <1>19 DEF IInv, TxnInv, OffsetToCommit
<1>21. CommittedInv'
  BY <1>0, <1>2, <1>3, <1>4, <1>6, <1>9, <1>12, PartitionAssumption DEF IInv, CommittedInv
<1>22. DownInv'
  BY <1>0 DEF IInv, DownInv
<1> QED BY <1>7, <1>8, <1>11, <1>15, <1>16, <1>18, <1>20, <1>21, <1>22 DEF IInv

-----------------------------------------------------------------------------
(* Every step keeps the inductive invariant.                               *)
LEMMA InvNext == IInv /\ [Next]_vars => IInv'
<1> SUFFICES ASSUME IInv, [Next]_vars PROVE IInv'
  OBVIOUS
<1>1. TypeInv'
  BY TypeNext DEF IInv
<1> QED
  BY <1>1, ProduceInv, StartInv, OnAssignRollbackInv, OnAssignRebuildInv, OnRevokeInv, ConsumeInv,
     CollectClosesInv, AppendBatchInv, ProduceOutputsInv, SendOffsetsInv, EndTxnInv,
     CompleteCommitInv, PostCommitInv, AbortBatchInv, RollbackAbortedInv, TxnTimeoutInv, CrashInv,
     StutterInv
     DEF Next, ProcessStep, Failure, TransactFails, TransactRefused

(* IInv is an invariant of the specification, for any partitions, rides,   *)
(* messages and bounds: the two stores of the sessionizer, SQLite and the  *)
(* Kafka transaction, never disagree in a way that on_assign or the        *)
(* rollback does not repair.                                               *)
THEOREM Invariant == Spec => []IInv
BY InitInv, InvNext, PTL DEF Spec
============================================================================
