------------------------ MODULE SessionsExactlyOnce ------------------------
(***************************************************************************)
(* What the sessionizer promises its readers, without a process, a store   *)
(* or a transaction: in one atomic step some input becomes consumed, and   *)
(* with it appear the sessions it closes, the mirror of what decoded and a *)
(* dead letter for what did not.  A session is computed from all the       *)
(* consumed input of its ride, and is never revised.                       *)
(***************************************************************************)
EXTENDS RideSessions

VARIABLES
    log,       \* partition -> records appended to rides.events
    consumed,  \* partition -> number of records consumed
    sessions,  \* ride -> session records published
    clean,     \* partition -> offsets mirrored
    dlq        \* partition -> offsets dead-lettered

vars == <<log, consumed, sessions, clean, dlq>>

Init ==
    /\ log = [p \in Partitions |-> <<>>]
    /\ consumed = [p \in Partitions |-> 0]
    /\ sessions = [r \in Rides |-> <<>>]
    /\ clean = [p \in Partitions |-> <<>>]
    /\ dlq = [p \in Partitions |-> <<>>]

Append1(p) ==
    /\ \E m \in MessagesOf(p) : log' = [log EXCEPT ![p] = Append(@, m)]
    /\ UNCHANGED <<consumed, sessions, clean, dlq>>

(* What may be published for ride r when consumption reaches n: nothing    *)
(* more once it has a session, its session when the terminal event has     *)
(* been seen, an abandoned one only when the ride is overdue.              *)
SessionsAt(r, n) ==
    LET closed == <<build_session(SeenTypes(log, r, n))>>
    IN  IF sessions[r] # <<>> THEN {sessions[r]}
        ELSE IF terminal(SeenTypes(log, r, n)) # {} THEN {closed}
        ELSE IF Overdue(log, r, n) THEN {<<>>, closed}
        ELSE {<<>>}

Publish ==
    /\ \A p \in Partitions : consumed'[p] \in consumed[p]..Len(log[p])
    /\ consumed' # consumed
    /\ \A p \in Partitions :
          /\ Lists(clean'[p], Decoded(log, p, consumed'[p]))
          /\ Lists(dlq'[p], Poisoned(log, p, consumed'[p]))
    /\ \A r \in Rides : sessions'[r] \in SessionsAt(r, consumed'[PartitionOf[r]])
    /\ log' = log

Next == Publish \/ \E p \in Partitions : Append1(p)

Spec == Init /\ [][Next]_vars
=============================================================================
