------------------------ MODULE SessionizerTheorems ------------------------
(***************************************************************************)
(* What the inductive invariant of Sessionizer gives its users: the safety *)
(* properties that TLC checks on small instances, and the refinement of    *)
(* SessionsExactlyOnce, for any partitions, rides, lifecycles, event       *)
(* times, timeout, batch size and log length.                              *)
(***************************************************************************)
EXTENDS SessionizerSafetyProofs

(* A ride never gets a second session in rides.sessions, and the one it    *)
(* has is the fold of all its events in a committed prefix of the input,   *)
(* whatever crashes, aborts and rebalances _transact and on_assign meet.   *)
THEOREM SessionsAreOnceAndComplete == Spec => []SessionsOnceAndComplete
<1>1. IInv => SessionsOnceAndComplete
  BY DEF IInv, TopicInv
<1> QED BY <1>1, Invariant, PTL

(* A terminal event behind the committed offset has its session published. *)
THEOREM ConsumedInputKeepsItsSession == Spec => []ConsumedInputHasSession
<1>1. IInv => ConsumedInputHasSession
  BY DEF IInv, TopicInv
<1> QED BY <1>1, Invariant, PTL

(* rides.events.clean and the dead-letter queue hold exactly the committed *)
(* input, each record once and in order.                                   *)
THEOREM OutputsAreExact == Spec => []OutputsMatchCommittedOffsets
<1>1. IInv => OutputsMatchCommittedOffsets
  BY DEF IInv, TopicInv
<1> QED BY <1>1, Invariant, PTL

(* Whenever process_batch is about to read, on_assign or the last commit   *)
(* has left SQLite, the accumulators and Kafka in agreement.               *)
THEOREM StoresAgree == Spec => []StoresAgreeBetweenBatches
<1>1. IInv => StoresAgreeBetweenBatches
  <2> SUFFICES ASSUME IInv, pc = "poll", batch = EmptyBatch, NEW r \in Rides
               PROVE  /\ is_closed(r) <=> rides_sessions[r] # <<>>
                      /\ accs[r] = IF is_closed(r) THEN {}
                                   ELSE SeenTypes(log, r, Resume(PartitionOf[r]))
    BY DEF StoresAgreeBetweenBatches
  <2> DEFINE p == PartitionOf[r]
  <2>1. p \in Partitions
    BY PartitionAssumption
  <2>2. RolledBack(p) /\ MemoryExact(p) /\ BatchExact(p)
    BY <2>1 DEF IInv, PollInv
  <2>3. is_closed(r) <=> Published(r)
    BY <2>1, <2>2, ClosedIsPublished DEF IInv, TypeInv
  <2>4. position[p] = Resume(p)
    <3>1. batch.max_offset[p] = NoOffset
      BY <2>1 DEF EmptyBatch, NoOffsets
    <3>2. position[p] \in Resume(p)..Len(log[p]) /\ Resume(p) \in Nat /\ Len(log[p]) \in Nat
      BY <2>1, <2>2, Bounds DEF MemoryExact, IInv, TypeInv
    <3> QED BY <2>2, <3>1, <3>2 DEF BatchExact, NoOffset
  <2> QED BY <2>2, <2>3, <2>4 DEF MemoryExact, Published
<1> QED BY <1>1, Invariant, PTL

-----------------------------------------------------------------------------
(* The promise speaks of the same messages, folds and prefixes. *)
LEMMA PromiseVocabulary ==
    /\ \A p : Promise!MessagesOf(p) = MessagesOf(p)
    /\ \A S : Promise!terminal(S) = terminal(S) /\ Promise!build_session(S) = build_session(S)
    /\ \A s, S : Promise!Lists(s, S) <=> Lists(s, S)
    /\ \A p, n : /\ Promise!Decoded(log, p, n) = Decoded(log, p, n)
                 /\ Promise!Poisoned(log, p, n) = Poisoned(log, p, n)
    /\ \A r, n : /\ Promise!SeenTypes(log, r, n) = SeenTypes(log, r, n)
                 /\ Promise!Overdue(log, r, n) <=> Overdue(log, r, n)
<1>1. Promise!RideEventType = RideEventType /\ Promise!TERMINAL_STATES = TERMINAL_STATES
  BY DEF RideEventType, Promise!RideEventType, TERMINAL_STATES, Promise!TERMINAL_STATES
<1>2. Promise!Event = Event
  BY <1>1 DEF Event, Promise!Event
<1>3. \A p : Promise!MessagesOf(p) = MessagesOf(p)
  BY <1>2 DEF MessagesOf, Promise!MessagesOf
<1>4. \A S : Promise!terminal(S) = terminal(S)
  BY <1>1 DEF terminal, Promise!terminal
<1>5. \A S : Promise!build_session(S) = build_session(S)
  BY <1>4 DEF build_session, Promise!build_session
<1>6. \A s, S : Promise!Lists(s, S) <=> Lists(s, S)
  BY DEF Lists, Promise!Lists
<1>7. \A p, n : Promise!Decoded(log, p, n) = Decoded(log, p, n)
  BY DEF Decoded, Promise!Decoded
<1>8. \A p, n : Promise!Poisoned(log, p, n) = Poisoned(log, p, n)
  BY DEF Poisoned, Promise!Poisoned
<1>9. \A r, n : Promise!SeenTypes(log, r, n) = SeenTypes(log, r, n)
  BY <1>1 DEF SeenTypes, Promise!SeenTypes
<1>10. \A p, n : Promise!SeenTs(log, p, n) = SeenTs(log, p, n)
  BY <1>7 DEF SeenTs, Promise!SeenTs, ts, Promise!ts
<1>11. \A r, S, w : Promise!timed_out(r, S, w) <=> timed_out(r, S, w)
  BY DEF timed_out, Promise!timed_out, last_event_ts, Promise!last_event_ts, Max, Promise!Max
<1>12. \A r, n : Promise!Overdue(log, r, n) <=> Overdue(log, r, n)
  BY <1>9, <1>10, <1>11 DEF Overdue, Promise!Overdue
<1> QED BY <1>3, <1>4, <1>5, <1>6, <1>7, <1>8, <1>9, <1>12

(* The initial state of the sessionizer is one of the promise. *)
LEMMA PromiseInit == Init => Promise!Init
<1> SUFFICES ASSUME Init PROVE Promise!Init
  OBVIOUS
<1>1. [p \in Partitions |-> Resume(p)] = [p \in Partitions |-> 0]
  BY DEF Init, NoOffsets, NoOffset, Resume
<1> QED BY <1>1 DEF Init, Promise!Init, NoSessions, NoRecords

(* Completing a commit is the promise's Publish. *)
LEMMA PromisePublish == IInv /\ CompleteCommit => Promise!Publish
<1> SUFFICES ASSUME IInv, CompleteCommit PROVE Promise!Publish
  OBVIOUS
<1> DEFINE c == [p \in Partitions |-> Resume(p)]
<1>1. /\ \A p \in Partitions :
            /\ Resume(p)' = Target(p)
            /\ Target(p) \in Resume(p)..Len(log[p])
            /\ Resume(p) \in Nat /\ Len(log[p]) \in Nat
            /\ Lists(rides_clean'[p], Decoded(log, p, Target(p)))
            /\ Lists(rides_dlq'[p], Poisoned(log, p, Target(p)))
      /\ \E p \in Partitions : Target(p) > Resume(p)
      /\ \A r \in Rides :
            /\ txn.sessions[r] = <<>> => rides_sessions'[r] = rides_sessions[r]
            /\ txn.sessions[r] # <<>> => rides_sessions'[r] = txn.sessions[r]
                                         /\ rides_sessions[r] = <<>>
  BY CommitPublishes
<1>2. /\ \A p \in Partitions : c[p] = Resume(p)
      /\ \A p \in Partitions : c'[p] = Target(p)
  BY <1>1
<1> HIDE DEF c
<1>3. \A p \in Partitions : c'[p] \in c[p]..Len(log[p])
  BY <1>1, <1>2
<1>4. c' # c
  BY <1>1, <1>2
<1>5. \A r \in Rides : rides_sessions'[r] \in Promise!SessionsAt(r, c'[PartitionOf[r]])
  <2> SUFFICES ASSUME NEW r \in Rides
               PROVE  rides_sessions'[r] \in Promise!SessionsAt(r, Target(PartitionOf[r]))
    BY <1>2, PartitionAssumption
  <2>1. /\ txn.sessions[r] = <<>> =>
              Published(r) \/ terminal(SeenTypes(log, r, Target(PartitionOf[r]))) = {}
        /\ txn.sessions[r] # <<>> =>
              /\ ~Published(r)
              /\ txn.sessions[r] = <<build_session(SeenTypes(log, r, Target(PartitionOf[r])))>>
              /\ Closes(r, Target(PartitionOf[r]))
    BY PartitionAssumption DEF IInv, TxnInv, TxnExact, SessionsRight, CompleteCommit
  <2> QED BY <1>1, <2>1, PromiseVocabulary DEF Promise!SessionsAt, Published, Closes
<1>6. log' = log
  BY DEF CompleteCommit
<1> QED BY <1>1, <1>2, <1>3, <1>4, <1>5, <1>6, PromiseVocabulary DEF Promise!Publish, c

(* Each step of the sessionizer is a step of the promise or invisible. *)
LEMMA PromiseNext == IInv /\ [Next]_vars => [Promise!Next]_(Promise!vars)
<1> SUFFICES ASSUME IInv, [Next]_vars PROVE [Promise!Next]_(Promise!vars)
  OBVIOUS
<1>1. CASE CompleteCommit
  BY <1>1, PromisePublish DEF Promise!Next
<1>2. CASE \E p \in Partitions : Produce(p)
  <2>1. [p \in Partitions |-> Resume(p)]' = [p \in Partitions |-> Resume(p)]
    BY <1>2 DEF Produce, Resume
  <2> QED BY <1>2, <2>1, PromiseVocabulary DEF Promise!Next, Promise!Append1, Produce, topics
<1>3. ASSUME UNCHANGED <<log, committed, topics>> PROVE UNCHANGED Promise!vars
  BY <1>3 DEF Promise!vars, topics, Resume
<1>4. CASE ProcessStep
  BY <1>3, <1>4 DEF ProcessStep, Start, OnAssignRollback, OnAssignRebuild, Consume, CollectCloses,
                    AppendBatch, ProduceOutputs, SendOffsets, EndTxn, PostCommit,
                    TransactRefused, AbortBatch, RollbackAborted
<1>5. CASE Failure
  BY <1>3, <1>5 DEF Failure, OnRevoke, TransactFails, AbortBatch, TxnTimeout, Crash
<1>6. CASE UNCHANGED vars
  BY <1>3, <1>6 DEF vars
<1> QED BY <1>1, <1>2, <1>4, <1>5, <1>6 DEF Next

(* The sessionizer implements SessionsExactlyOnce: what its readers see of *)
(* it is a sequence of atomic publications of consumed input.              *)
THEOREM SessionizerKeepsPromise == Spec => ImplementsPromise
BY PromiseInit, PromiseNext, Invariant, PTL DEF Spec, ImplementsPromise, Promise!Spec
============================================================================
