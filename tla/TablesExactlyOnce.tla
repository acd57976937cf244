------------------------- MODULE TablesExactlyOnce -------------------------
(***************************************************************************)
(* What the Postgres sink promises those who query the raw tables, without *)
(* a worker, a lock or a transaction: records are appended to partitions,  *)
(* and in one atomic step the tables take in some of the records that they *)
(* have not taken in before, each of them once and in order.               *)
(***************************************************************************)
EXTENDS Integers, Sequences, FiniteSetsExt

CONSTANTS
    Partitions, Keys, PartitionOf,
    Record,          \* what a row can be made of: a key and the other columns
    MergedKeys,      \* keys whose row follows the richest record
    event_seq(_),    \* how rich a record is
    Poison, NoRow

VARIABLES
    log,    \* partition -> messages
    table,  \* key -> its row, or NoRow
    taken   \* partition -> number of messages the tables have taken in

vars == <<log, table, taken>>

Init ==
    /\ log = [p \in Partitions |-> <<>>]
    /\ table = [k \in Keys |-> NoRow]
    /\ taken = [p \in Partitions |-> 0]

Append1(p) ==
    /\ \E m \in {r \in Record : PartitionOf[r.key] = p} \cup {Poison} :
          log' = [log EXCEPT ![p] = Append(@, m)]
    /\ UNCHANGED <<table, taken>>

(* Offsets of the records of key k in s, from offset i and below n. *)
Between(s, k, i, n) == {o \in i..(n - 1) : s[o + 1] # Poison /\ s[o + 1].key = k}

(* The first of the offsets S at which s has the richest record. *)
Richest(s, S) == Min({o \in S : \A x \in S : event_seq(s[x + 1]) <= event_seq(s[o + 1])})

(* The row of key k after the records of s at the offsets S: the first one *)
(* makes it, if there is none, and a richer one updates a session.         *)
TakeIn(row, k, s, S) ==
    IF S = {} THEN row
    ELSE IF row = NoRow
    THEN [inserted |-> s[Min(S) + 1],
          updated  |-> s[(IF k \in MergedKeys THEN Richest(s, S) ELSE Min(S)) + 1]]
    ELSE IF k \in MergedKeys /\ event_seq(s[Richest(s, S) + 1]) > event_seq(row.updated)
    THEN [inserted |-> row.inserted, updated |-> s[Richest(s, S) + 1]]
    ELSE row

Take ==
    /\ taken' \in [Partitions -> Nat]
    /\ \A p \in Partitions : taken[p] <= taken'[p] /\ taken'[p] <= Len(log[p])
    /\ table' = [k \in Keys |->
          LET p == PartitionOf[k]
          IN  TakeIn(table[k], k, log[p], Between(log[p], k, taken[p], taken'[p]))]
    /\ log' = log

Next == Take \/ \E p \in Partitions : Append1(p)

Spec == Init /\ [][Next]_vars
=============================================================================
