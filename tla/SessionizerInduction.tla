------------------------ MODULE SessionizerInduction ------------------------
(***************************************************************************)
(* The inductive invariant of Sessionizer: what the two stores and the     *)
(* memory of the process know about each other at every step.              *)
(***************************************************************************)
EXTENDS Sessionizer

(* What keeps the types: the log respects its bound, and journal rows, in  *)
(* SQLite or on their way to it, stand for events that decoded.            *)
RowsDecoded ==
    \A row \in journal \cup batch.journal :
        row[2] < Len(log[row[1]]) /\ Message(row[1], row[2]) # Poison

TypeInv ==
    /\ TypeOK
    /\ \A p \in Partitions : Len(log[p]) <= MaxLog
    /\ RowsDecoded

-----------------------------------------------------------------------------
Published(r) == rides_sessions[r] # <<>>

(* Where the group stands once the offsets of the transaction are applied. *)
Target(p) == IF txn.offsets[p] # NoOffset THEN txn.offsets[p] ELSE Resume(p)

(* Offsets from..n-1 of a partition, decoded and not. *)
DecodedIn(p, from, n)  == {o \in from..(n - 1) : Message(p, o) # Poison}
PoisonedIn(p, from, n) == {o \in from..(n - 1) : Message(p, o) = Poison}

Closes(r, n) ==
    terminal(SeenTypes(log, r, n)) # {} \/ Overdue(log, r, n)

-----------------------------------------------------------------------------
(* Always: the log carries each ride on its own partition, and the topics  *)
(* are what the committed offsets say.                                     *)
LogInv ==
    \A p \in Partitions :
        /\ \A i \in 1..Len(log[p]) : log[p][i] \in MessagesOf(p)
        /\ Resume(p) <= Len(log[p])

TopicInv ==
    /\ SessionsOnceAndComplete
    /\ ConsumedInputHasSession
    /\ OutputsMatchCommittedOffsets

(* Always: the part of the store below the committed offset is right.  A   *)
(* close there belongs to a published session, and the journal has every   *)
(* committed event of the rides that are still open.                       *)
StoreInv ==
    /\ \A r \in Rides : Published(r) <=> closes[r] \in 0..(Resume(PartitionOf[r]) - 1)
    /\ \A p \in Partitions : \A o \in Decoded(log, p, Resume(p)) :
          ~Published(Message(p, o).ride_id) => <<p, o>> \in journal

(* The store knows nothing beyond the committed offset of p. *)
RolledBack(p) ==
    /\ \A row \in journal : row[1] = p => row[2] < Resume(p)
    /\ \A r \in Rides : PartitionOf[r] = p => closes[r] < Resume(p)

(* The memory for partition p is what its first position[p] records say. *)
MemoryExact(p) ==
    /\ position[p] \in Resume(p)..Len(log[p])
    /\ watermark[p] \in SeenTs(log, p, position[p]) \cup {0}
    /\ \A r \in Rides : PartitionOf[r] = p =>
          accs[r] = IF Published(r) THEN {} ELSE SeenTypes(log, r, position[p])

(* The locals of process_batch hold what lies between the committed offset *)
(* and the position.                                                       *)
BatchExact(p) ==
    /\ batch.max_offset[p] = IF position[p] > Resume(p) THEN position[p] - 1 ELSE NoOffset
    /\ Lists(batch.clean_forward[p], DecodedIn(p, Resume(p), position[p]))
    /\ Lists(batch.poisons[p], PoisonedIn(p, Resume(p), position[p]))
    /\ \A o \in DecodedIn(p, Resume(p), position[p]) :
          ~Published(Message(p, o).ride_id) => <<p, o>> \in batch.journal
    /\ \A row \in batch.journal : row[1] = p =>
          row[2] \in DecodedIn(p, Resume(p), position[p])

(* Sessions s, closed by consuming up to n[r] for ride r, are the right    *)
(* ones to publish.                                                        *)
SessionsRight(s, n) ==
    \A r \in Rides :
        IF s[r] = <<>>
        THEN Published(r) \/ terminal(SeenTypes(log, r, n[PartitionOf[r]])) = {}
        ELSE /\ ~Published(r)
             /\ s[r] = <<build_session(SeenTypes(log, r, n[PartitionOf[r]]))>>
             /\ Closes(r, n[PartitionOf[r]])
             /\ n[PartitionOf[r]] > Resume(PartitionOf[r])

(* The closes beyond the committed offset are those of s. *)
ClosesTagged(s, n) ==
    \A r \in Rides :
        /\ s[r] # <<>> => closes[r] = n[PartitionOf[r]] - 1
        /\ s[r] = <<>> => closes[r] < Resume(PartitionOf[r])

(* A transaction that can still commit carries exactly one batch. *)
TxnExact ==
    LET n == [p \in Partitions |-> Target(p)]
    IN  /\ \A p \in Partitions :
              /\ Target(p) \in Resume(p)..Len(log[p])
              /\ Lists(txn.clean[p], DecodedIn(p, Resume(p), Target(p)))
              /\ Lists(txn.dlq[p], PoisonedIn(p, Resume(p), Target(p)))
              /\ \A o \in DecodedIn(p, Resume(p), Target(p)) :
                    ~Published(Message(p, o).ride_id) => <<p, o>> \in journal
        /\ \E p \in Partitions : Target(p) > Resume(p)
        /\ SessionsRight(txn.sessions, n)
        /\ ClosesTagged(txn.sessions, n)

-----------------------------------------------------------------------------
(* A process that is not running remembers nothing. *)
DownInv ==
    pc = "down" => batch = EmptyBatch /\ accs = [r \in Rides |-> {}]

AssignInv ==
    pc = "assign" =>
        /\ txn.state \notin {"ongoing", "prepare_commit"}
        /\ batch = EmptyBatch
        /\ \A p \in Partitions :
              /\ pending[p] # "rollback" => RolledBack(p)
              /\ pending[p] = "done" => MemoryExact(p) /\ position[p] = Resume(p)
              /\ pending[p] # "done" => \A r \in Rides : PartitionOf[r] = p => accs[r] = {}

PollInv ==
    pc = "poll" =>
        /\ txn.state \notin {"ongoing", "prepare_commit"}
        /\ \A p \in Partitions : RolledBack(p) /\ MemoryExact(p) /\ BatchExact(p)
        /\ batch.sessions = NoSessions
        /\ batch.consumed > 0 <=> \E p \in Partitions : position[p] > Resume(p)

(* From _collect_closes until the transaction is decided. *)
BatchInv ==
    \/ pc \in {"append", "transact", "send_offsets"}
    \/ pc = "commit" /\ txn.state \in {"ongoing", "prepare_commit"}
    => /\ \A p \in Partitions : MemoryExact(p) /\ BatchExact(p)
       /\ \E p \in Partitions : position[p] > Resume(p)
       /\ SessionsRight(batch.sessions, position)
       /\ IF pc = "append"
          THEN \A p \in Partitions : RolledBack(p)
          ELSE batch.journal \subseteq journal /\ ClosesTagged(batch.sessions, position)
               /\ \A row \in journal \ batch.journal : row[2] < Resume(row[1])

(* The transaction, and what the process may find it to be. *)
TxnInv ==
    /\ txn.state = "prepare_commit" => TxnExact /\ pc \in {"down", "commit"}
    /\ pc \in {"append", "transact"} => txn.state \notin {"ongoing", "prepare_commit"}
    /\ pc = "send_offsets" => txn.state \in {"ongoing", "complete_abort"}
    /\ pc \in {"send_offsets", "commit"} /\ txn.state \in {"ongoing", "prepare_commit"} =>
          /\ txn.sessions = batch.sessions
          /\ txn.clean = batch.clean_forward
          /\ txn.dlq = batch.poisons
    /\ pc = "commit" /\ txn.state \in {"ongoing", "prepare_commit"} =>
          txn.offsets = [p \in Partitions |-> OffsetToCommit(p)]
    /\ pc = "commit" => txn.state # "empty"
    /\ pc = "rollback" => txn.state \notin {"ongoing", "prepare_commit"}

(* The commit has gone through and the process has not yet seen it. *)
CommittedInv ==
    pc = "commit" /\ txn.state = "complete_commit" =>
        /\ \A p \in Partitions :
              /\ RolledBack(p)
              /\ position[p] = Resume(p)
              /\ watermark[p] \in SeenTs(log, p, position[p]) \cup {0}
        /\ \A r \in Rides :
              /\ batch.sessions[r] # <<>> => Published(r)
              /\ batch.sessions[r] = <<>> =>
                    accs[r] = IF Published(r) THEN {}
                              ELSE SeenTypes(log, r, Resume(PartitionOf[r]))

(* The inductive invariant: at every step of on_assign, process_batch and  *)
(* _transact, crashed or not, the store below the committed offset is      *)
(* right, what lies beyond it belongs to the one batch in flight, and a    *)
(* transaction that can still commit carries exactly that batch.           *)
IInv ==
    /\ TypeInv
    /\ LogInv
    /\ TopicInv
    /\ StoreInv
    /\ DownInv
    /\ AssignInv
    /\ PollInv
    /\ BatchInv
    /\ TxnInv
    /\ CommittedInv
============================================================================
