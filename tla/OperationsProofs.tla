------------------------- MODULE OperationsProofs -------------------------
(***************************************************************************)
(* Theorems about the tools around the pipeline, for every set of runners, *)
(* groups, topics and events, and for any interleaving with the processes  *)
(* beside them.                                                            *)
(***************************************************************************)
EXTENDS OperationsInduction, FiniteSetTheorems, SequenceTheorems, NaturalsInduction,
        WellFoundedInduction, TLAPS

-----------------------------------------------------------------------------
(* The platform reset. *)

(* A loop of the script starts counting at zero. *)
LEMMA PollsFromZero == 0 \in 0..MaxPolls
BY ResetAssumption

(* A step of the script keeps its invariant. *)
LEMMA ResetStepInv ==
    ASSUME ResetInv, StartReset \/ ResetStep
    PROVE  ResetInv'
<1> USE DEF ResetInv, Goto, Again, resetBroker
<1>1. CASE StartReset
  <2> USE <1>1 DEF StartReset
  <2>1. ResetTypeOK'
    BY ResetAssumption DEF ResetTypeOK, TopicStates
  <2>2. (resetPc' # "failed" => attempt' < Attempts) /\ (resetPc' = "delete" => polls' < MaxPolls)
    BY ResetAssumption DEF ResetTypeOK
  <2>3. GroupsOK'
    BY DEF ResetTypeOK, GroupsOK, Undisturbed, Deleted
  <2>4. TopicsOK'
    BY DEF ResetTypeOK, TopicsOK, TopicStates
  <2>5. StoresOK'
    BY DEF ResetTypeOK, StoresOK, Undisturbed
  <2> QED BY <2>1, <2>2, <2>3, <2>4, <2>5
<1>2. CASE ListGroups
  <2> USE <1>2 DEF ListGroups
  <2>1. ResetTypeOK'
    BY ResetAssumption DEF ResetTypeOK, TopicStates
  <2>2. (resetPc' # "failed" => attempt' < Attempts) /\ (resetPc' = "delete" => polls' < MaxPolls)
    BY ResetAssumption DEF ResetTypeOK
  <2>3. GroupsOK'
    BY DEF ResetTypeOK, GroupsOK, Undisturbed, Deleted
  <2>4. TopicsOK'
    BY DEF ResetTypeOK, TopicsOK, TopicStates
  <2>5. StoresOK'
    BY DEF ResetTypeOK, StoresOK, Undisturbed
  <2> QED BY <2>1, <2>2, <2>3, <2>4, <2>5
<1>3. CASE ListGroupsFails
  <2> USE <1>3 DEF ListGroupsFails
  <2>1. ResetTypeOK'
    <3>1. polls' \in 0..MaxPolls
      BY PollsFromZero DEF ResetTypeOK
    <3>2. remaining' \subseteq ResetGroups
      BY ResetAssumption DEF ResetTypeOK
    <3>t. resetPc' \in {"groups", "topics", "create"} /\ UNCHANGED <<topic, member, tables, stateDir, attempt>>
      OBVIOUS
    <3> QED BY <3>1, <3>2, <3>t DEF ResetTypeOK, TopicStates
  <2>2. (resetPc' # "failed" => attempt' < Attempts) /\ (resetPc' = "delete" => polls' < MaxPolls)
    BY ResetAssumption DEF ResetTypeOK
  <2>3. GroupsOK'
    BY DEF ResetTypeOK, GroupsOK, Undisturbed, Deleted
  <2>4. TopicsOK'
    BY DEF ResetTypeOK, TopicsOK, TopicStates
  <2>5. StoresOK'
    BY DEF ResetTypeOK, StoresOK, Undisturbed
  <2> QED BY <2>1, <2>2, <2>3, <2>4, <2>5
<1>4. CASE DeleteGroups
  <2> USE <1>4 DEF DeleteGroups, Undeleted, SleepAndRetry
  <2>1. ResetTypeOK'
    <3>1. polls' \in 0..MaxPolls
      BY ResetAssumption DEF ResetTypeOK
    <3>2. remaining' \subseteq ResetGroups
      BY ResetAssumption DEF ResetTypeOK
    <3>3. group' \in [ResetGroups -> BOOLEAN]
      BY ResetAssumption DEF ResetTypeOK
    <3>t. resetPc' \in {"groups", "topics", "create"} /\ UNCHANGED <<topic, member, tables, stateDir, attempt>>
      OBVIOUS
    <3> QED BY <3>1, <3>2, <3>3, <3>t DEF ResetTypeOK, TopicStates
  <2>2. (resetPc' # "failed" => attempt' < Attempts) /\ (resetPc' = "delete" => polls' < MaxPolls)
    BY ResetAssumption DEF ResetTypeOK
  <2>3. GroupsOK'
    BY DEF ResetTypeOK, GroupsOK, Undisturbed, Deleted
  <2>4. TopicsOK'
    BY DEF ResetTypeOK, TopicsOK, TopicStates
  <2>5. StoresOK'
    BY DEF ResetTypeOK, StoresOK, Undisturbed
  <2> QED BY <2>1, <2>2, <2>3, <2>4, <2>5
<1>5. CASE GroupsDeadline
  <2> USE <1>5 DEF GroupsDeadline
  <2>1. ResetTypeOK'
    BY ResetAssumption DEF ResetTypeOK, TopicStates
  <2>2. (resetPc' # "failed" => attempt' < Attempts) /\ (resetPc' = "delete" => polls' < MaxPolls)
    BY ResetAssumption DEF ResetTypeOK
  <2>3. GroupsOK'
    BY DEF ResetTypeOK, GroupsOK, Undisturbed, Deleted
  <2>4. TopicsOK'
    BY DEF ResetTypeOK, TopicsOK, TopicStates
  <2>5. StoresOK'
    BY DEF ResetTypeOK, StoresOK, Undisturbed
  <2> QED BY <2>1, <2>2, <2>3, <2>4, <2>5
<1>6. CASE DeleteTopics
  <2> USE <1>6 DEF DeleteTopics
  <2>1. ResetTypeOK'
    BY ResetAssumption DEF ResetTypeOK, TopicStates
  <2>2. (resetPc' # "failed" => attempt' < Attempts) /\ (resetPc' = "delete" => polls' < MaxPolls)
    BY ResetAssumption DEF ResetTypeOK
  <2>3. GroupsOK'
    BY DEF ResetTypeOK, GroupsOK, Undisturbed, Deleted
  <2>4. TopicsOK'
    BY DEF ResetTypeOK, TopicsOK, TopicStates
  <2>5. StoresOK'
    BY DEF ResetTypeOK, StoresOK, Undisturbed
  <2> QED BY <2>1, <2>2, <2>3, <2>4, <2>5
<1>7. CASE WaitGone
  <2> USE <1>7 DEF WaitGone
  <2>1. ResetTypeOK'
    BY ResetAssumption DEF ResetTypeOK, TopicStates
  <2>2. (resetPc' # "failed" => attempt' < Attempts) /\ (resetPc' = "delete" => polls' < MaxPolls)
    BY ResetAssumption DEF ResetTypeOK
  <2>3. GroupsOK'
    BY DEF ResetTypeOK, GroupsOK, Undisturbed, Deleted
  <2>4. TopicsOK'
    BY DEF ResetTypeOK, TopicsOK, TopicStates
  <2>5. StoresOK'
    BY DEF ResetTypeOK, StoresOK, Undisturbed
  <2> QED BY <2>1, <2>2, <2>3, <2>4, <2>5
<1>8. CASE WaitGoneDeadline
  <2> USE <1>8 DEF WaitGoneDeadline
  <2>1. ResetTypeOK'
    <3>1. polls' \in 0..MaxPolls
      BY PollsFromZero DEF ResetTypeOK
    <3>t. resetPc' \in {"groups", "topics", "create"} /\ UNCHANGED <<topic, member, tables, stateDir, attempt>>
      OBVIOUS
    <3> QED BY <3>1, <3>t DEF ResetTypeOK, TopicStates
  <2>2. (resetPc' # "failed" => attempt' < Attempts) /\ (resetPc' = "delete" => polls' < MaxPolls)
    BY ResetAssumption DEF ResetTypeOK
  <2>3. GroupsOK'
    BY DEF ResetTypeOK, GroupsOK, Undisturbed, Deleted
  <2>4. TopicsOK'
    BY DEF ResetTypeOK, TopicsOK, TopicStates
  <2>5. StoresOK'
    BY DEF ResetTypeOK, StoresOK, Undisturbed
  <2> QED BY <2>1, <2>2, <2>3, <2>4, <2>5
<1>9. CASE EnsureTopics
  <2> USE <1>9 DEF EnsureTopics
  <2>1. ResetTypeOK'
    BY ResetAssumption DEF ResetTypeOK, TopicStates
  <2>2. (resetPc' # "failed" => attempt' < Attempts) /\ (resetPc' = "delete" => polls' < MaxPolls)
    BY ResetAssumption DEF ResetTypeOK
  <2>3. GroupsOK'
    BY DEF ResetTypeOK, GroupsOK, Undisturbed, Deleted
  <2>4. TopicsOK'
    BY DEF ResetTypeOK, TopicsOK, TopicStates
  <2>5. StoresOK'
    BY DEF ResetTypeOK, StoresOK, Undisturbed
  <2> QED BY <2>1, <2>2, <2>3, <2>4, <2>5
<1>10. CASE WaitForLeaders
  <2> USE <1>10 DEF WaitForLeaders, IsReady
  <2>1. ResetTypeOK'
    BY ResetAssumption DEF ResetTypeOK, TopicStates
  <2>2. (resetPc' # "failed" => attempt' < Attempts) /\ (resetPc' = "delete" => polls' < MaxPolls)
    BY ResetAssumption DEF ResetTypeOK
  <2>3. GroupsOK'
    BY DEF ResetTypeOK, GroupsOK, Undisturbed, Deleted
  <2>4. TopicsOK'
    BY DEF ResetTypeOK, TopicsOK, TopicStates
  <2>5. StoresOK'
    BY DEF ResetTypeOK, StoresOK, Undisturbed
  <2> QED BY <2>1, <2>2, <2>3, <2>4, <2>5
<1>11. CASE LeadersDeadline
  <2> USE <1>11 DEF LeadersDeadline
  <2>1. ResetTypeOK'
    BY ResetAssumption DEF ResetTypeOK, TopicStates
  <2>2. (resetPc' # "failed" => attempt' < Attempts) /\ (resetPc' = "delete" => polls' < MaxPolls)
    BY ResetAssumption DEF ResetTypeOK
  <2>3. GroupsOK'
    BY DEF ResetTypeOK, GroupsOK, Undisturbed, Deleted
  <2>4. TopicsOK'
    BY DEF ResetTypeOK, TopicsOK, TopicStates
  <2>5. StoresOK'
    BY DEF ResetTypeOK, StoresOK, Undisturbed
  <2> QED BY <2>1, <2>2, <2>3, <2>4, <2>5
<1>12. CASE TruncateTables
  <2> USE <1>12 DEF TruncateTables
  <2>1. ResetTypeOK'
    BY ResetAssumption DEF ResetTypeOK, TopicStates
  <2>2. (resetPc' # "failed" => attempt' < Attempts) /\ (resetPc' = "delete" => polls' < MaxPolls)
    BY ResetAssumption DEF ResetTypeOK
  <2>3. GroupsOK'
    BY DEF ResetTypeOK, GroupsOK, Undisturbed, Deleted
  <2>4. TopicsOK'
    BY DEF ResetTypeOK, TopicsOK, TopicStates
  <2>5. StoresOK'
    BY DEF ResetTypeOK, StoresOK, Undisturbed
  <2> QED BY <2>1, <2>2, <2>3, <2>4, <2>5
<1>13. CASE ResetStateDir
  <2> USE <1>13 DEF ResetStateDir
  <2>1. ResetTypeOK'
    BY ResetAssumption DEF ResetTypeOK, TopicStates
  <2>2. (resetPc' # "failed" => attempt' < Attempts) /\ (resetPc' = "delete" => polls' < MaxPolls)
    BY ResetAssumption DEF ResetTypeOK
  <2>3. GroupsOK'
    BY DEF ResetTypeOK, GroupsOK, Undisturbed, Deleted
  <2>4. TopicsOK'
    BY DEF ResetTypeOK, TopicsOK, TopicStates
  <2>5. StoresOK'
    BY DEF ResetTypeOK, StoresOK, Undisturbed
  <2> QED BY <2>1, <2>2, <2>3, <2>4, <2>5
<1>14. CASE ResetRaises
  <2> USE <1>14 DEF ResetRaises
  <2>1. ResetTypeOK'
    BY ResetAssumption DEF ResetTypeOK, TopicStates
  <2>2. (resetPc' # "failed" => attempt' < Attempts) /\ (resetPc' = "delete" => polls' < MaxPolls)
    BY ResetAssumption DEF ResetTypeOK
  <2>3. GroupsOK'
    BY DEF ResetTypeOK, GroupsOK, Undisturbed, Deleted
  <2>4. TopicsOK'
    BY DEF ResetTypeOK, TopicsOK, TopicStates
  <2>5. StoresOK'
    BY DEF ResetTypeOK, StoresOK, Undisturbed
  <2> QED BY <2>1, <2>2, <2>3, <2>4, <2>5
<1> QED BY <1>1, <1>2, <1>3, <1>4, <1>5, <1>6, <1>7, <1>8, <1>9, <1>10, <1>11, <1>12, <1>13, <1>14 DEF ResetStep

(* So does what the broker and the processors do beside it. *)
LEMMA ResetWorldInv ==
    ASSUME ResetInv, \/ \E t \in Topics : TopicEvent(t)
                     \/ \E g \in ResetGroups : MemberEvent(g) \/ ProcessorWrites(g) \/ ProcessorStarts(g)
    PROVE  ResetInv'
<1> USE ResetAssumption
<1> USE DEF ResetInv, Running, Ended, resetBroker, resetLocals
<1>1. ASSUME NEW t \in Topics, TopicEvent(t) PROVE ResetInv'
  <2> USE <1>1 DEF TopicEvent
  <2>1. ResetTypeOK'
    BY DEF ResetTypeOK, TopicStates
  <2>2. (resetPc' # "failed" => attempt' < Attempts) /\ (resetPc' = "delete" => polls' < MaxPolls)
    OBVIOUS
  <2>3. GroupsOK'
    BY DEF ResetTypeOK, GroupsOK, Undisturbed, Deleted
  <2>4. TopicsOK'
    BY DEF ResetTypeOK, TopicsOK, TopicStates
  <2>5. StoresOK'
    BY DEF ResetTypeOK, GroupsOK, StoresOK, Undisturbed, Deleted
  <2> QED BY <2>1, <2>2, <2>3, <2>4, <2>5
<1>2. ASSUME NEW g \in ResetGroups, MemberEvent(g) PROVE ResetInv'
  <2> USE <1>2 DEF MemberEvent
  <2>1. ResetTypeOK'
    BY DEF ResetTypeOK, TopicStates
  <2>2. (resetPc' # "failed" => attempt' < Attempts) /\ (resetPc' = "delete" => polls' < MaxPolls)
    OBVIOUS
  <2>3. GroupsOK'
    BY DEF ResetTypeOK, GroupsOK, Undisturbed, Deleted
  <2>4. TopicsOK'
    BY DEF ResetTypeOK, TopicsOK, TopicStates
  <2>5. StoresOK'
    BY DEF ResetTypeOK, GroupsOK, StoresOK, Undisturbed, Deleted
  <2> QED BY <2>1, <2>2, <2>3, <2>4, <2>5
<1>3. ASSUME NEW g \in ResetGroups, ProcessorWrites(g) PROVE ResetInv'
  <2> USE <1>3 DEF ProcessorWrites
  <2>1. ResetTypeOK'
    BY DEF ResetTypeOK, TopicStates
  <2>2. (resetPc' # "failed" => attempt' < Attempts) /\ (resetPc' = "delete" => polls' < MaxPolls)
    OBVIOUS
  <2>3. GroupsOK'
    BY DEF ResetTypeOK, GroupsOK, Undisturbed, Deleted
  <2>4. TopicsOK'
    BY DEF ResetTypeOK, TopicsOK, TopicStates
  <2>5. StoresOK'
    BY DEF ResetTypeOK, GroupsOK, StoresOK, Undisturbed, Deleted
  <2> QED BY <2>1, <2>2, <2>3, <2>4, <2>5
<1>4. ASSUME NEW g \in ResetGroups, ProcessorStarts(g) PROVE ResetInv'
  <2> USE <1>4 DEF ProcessorStarts
  <2>1. ResetTypeOK'
    BY DEF ResetTypeOK, TopicStates
  <2>2. (resetPc' # "failed" => attempt' < Attempts) /\ (resetPc' = "delete" => polls' < MaxPolls)
    OBVIOUS
  <2>3. GroupsOK'
    BY DEF ResetTypeOK, GroupsOK, Undisturbed, Deleted
  <2>4. TopicsOK'
    BY DEF ResetTypeOK, TopicsOK, TopicStates
  <2>5. StoresOK'
    BY DEF ResetTypeOK, GroupsOK, StoresOK, Undisturbed, Deleted
  <2> QED BY <2>1, <2>2, <2>3, <2>4, <2>5
<1> QED BY <1>1, <1>2, <1>3, <1>4

(* Where the script starts, and when it does nothing. *)
LEMMA ResetInitInv == ResetInit => ResetInv
<1> SUFFICES ASSUME ResetInit PROVE ResetInv
  OBVIOUS
<1>1. ResetTypeOK
  BY ResetAssumption, PollsFromZero DEF ResetInit, ResetTypeOK, TopicStates
<1>2. attempt < Attempts
  BY ResetAssumption DEF ResetInit
<1> QED BY <1>1, <1>2 DEF ResetInit, ResetInv, GroupsOK, TopicsOK, StoresOK, Undisturbed, Deleted

(* Nothing changes while another tool runs. *)
LEMMA ResetRests ==
    ASSUME ResetInv, UNCHANGED resetVars
    PROVE  ResetInv'
BY DEF ResetInv, ResetTypeOK, GroupsOK, TopicsOK, StoresOK, Undisturbed, Deleted, TopicStates,
       resetVars, resetBroker, resetLocals

-----------------------------------------------------------------------------
(* The dead-letter replay. *)

(* What appending does. *)
LEMMA Appended ==
    ASSUME NEW S, NEW s \in Seq(S), NEW m \in S, NEW t, t = Append(s, m)
    PROVE  /\ t \in Seq(S) /\ Len(t) = Len(s) + 1 /\ Len(s) \in Nat
           /\ \A i \in 1..Len(s) : t[i] = s[i]
           /\ t[Len(s) + 1] = m
           /\ 1..Len(t) = (1..Len(s)) \cup {Len(s) + 1}
<1>1. /\ t \in Seq(S) /\ Len(t) = Len(s) + 1 /\ Len(s) \in Nat
      /\ \A i \in 1..Len(s) : t[i] = s[i]
      /\ t[Len(s) + 1] = m
  BY AppendProperties, LenProperties
<1> QED BY <1>1

(* What the parts of the type invariant say: the first byte, ... *)
LEMMA FirstByte ==
    ASSUME ReplayTypeOK
    PROVE  Intact \in {"0x00", "{"} /\ (framed => Intact = "0x00")
BY DEF ReplayTypeOK, Intact

(* ... what the topics hold, ... *)
LEMMA TopicTypes ==
    ASSUME ReplayTypeOK
    PROVE  /\ Len(source) \in Nat /\ Len(dead) \in Nat
           /\ \A i \in 1..Len(source) : source[i] \in Payload
           /\ \A j \in 1..Len(dead) : dead[j] \in Envelope
<1>1. Len(source) \in Nat /\ Len(dead) \in Nat
  BY LenProperties DEF ReplayTypeOK
<1>2. /\ \A i \in 1..Len(source) : source[i] \in Payload
      /\ \A j \in 1..Len(dead) : dead[j] \in Envelope
  BY ElementOfSeq DEF ReplayTypeOK
<1> QED BY <1>1, <1>2

(* ... and how far everyone is. *)
LEMMA Positions ==
    ASSUME ReplayTypeOK
    PROVE  /\ Len(source) \in Nat /\ Len(dead) \in Nat
           /\ arrived \in Nat /\ arrived <= Len(SourceEvents) /\ Len(SourceEvents) \in Nat
           /\ \A g \in RideReaders : /\ handled[g] \in Nat /\ finished[g] \in Nat
                                     /\ finished[g] <= handled[g] /\ handled[g] <= Len(source)
<1>1. Len(source) \in Nat /\ Len(dead) \in Nat /\ Len(SourceEvents) \in Nat
  BY SourceAssumption, LenProperties DEF ReplayTypeOK
<1>2. arrived \in 0..Len(SourceEvents)
  BY DEF ReplayTypeOK
<1>3. \A g \in RideReaders : /\ handled[g] \in 0..Len(source) /\ finished[g] \in 0..Len(source)
                             /\ finished[g] <= handled[g]
  BY DEF ReplayTypeOK
<1> QED BY <1>1, <1>2, <1>3

(* Envelopes that wrap the one message of an event are equal. *)
LEMMA EnvelopesAreCopies ==
    ASSUME OriginalsOnce
    PROVE  RepairDoesNotFeedBack
<1> SUFFICES ASSUME framed, ~futile, NEW i \in 1..Len(dead), NEW j \in 1..Len(dead), dead[i].event = dead[j].event
             PROVE  dead[i] = dead[j]
  BY DEF RepairDoesNotFeedBack
<1>1. \A k, l \in 1..Len(source) :
         (source[k].first # "0x00" /\ source[l].first # "0x00" /\ source[k].event = source[l].event) => k = l
  BY DEF OriginalsOnce
<1>2. Wraps(dead[i]) /\ Wraps(dead[j])
  BY DEF OriginalsOnce
<1>3. PICK k, l : k = dead[i].offset /\ l = dead[j].offset
  OBVIOUS
<1>4. /\ k \in 1..Len(source) /\ dead[i] = [event |-> source[k].event, first |-> source[k].first, offset |-> k]
      /\ l \in 1..Len(source) /\ dead[j] = [event |-> source[l].event, first |-> source[l].first, offset |-> l]
      /\ dead[i].first # "0x00" /\ dead[j].first # "0x00"
  BY <1>2, <1>3 DEF Wraps, build_envelope
<1>5. /\ dead[i].event = source[k].event /\ dead[i].first = source[k].first
      /\ dead[j].event = source[l].event /\ dead[j].first = source[l].first
  BY <1>4
<1>6. k = l
  BY <1>1, <1>4, <1>5
<1> QED BY <1>4, <1>6

(* What the i-th message adds to a sequence of envelopes. *)
LEMMA Collected ==
    ASSUME ReplayTypeOK, NEW i \in 1..Len(source), NEW s \in Seq(Envelope), NEW t, t = s \o DeadLetters(i)
    PROVE  /\ t \in Seq(Envelope)
           /\ Len(t) \in Nat /\ Len(s) \in Nat /\ Len(s) <= Len(t)
           /\ \A j \in 1..Len(t) :
                 \/ j \in 1..Len(s) /\ t[j] = s[j]
                 \/ t[j] = build_envelope(i) /\ source[i].first # Intact
<1>1. Len(s) \in Nat
  BY LenProperties
<1>2. CASE source[i].first = Intact
  <2>1. t = s
    BY <1>2, ConcatEmptySeq DEF DeadLetters
  <2> QED BY <1>1, <2>1
<1>3. CASE source[i].first # Intact
  <2>1. build_envelope(i) \in Envelope
    <3>1. source[i] \in Payload /\ Len(source) \in Nat
      BY TopicTypes
    <3>2. i \in Nat \ {0}
      BY <3>1
    <3>3. source[i].event \in Events /\ source[i].first \in FirstBytes
      BY <3>1 DEF Payload
    <3> QED BY <3>2, <3>3 DEF build_envelope, Envelope
  <2>2. t = Append(s, build_envelope(i))
    BY <1>3, <2>1, AppendIsConcat DEF DeadLetters
  <2>3. /\ t \in Seq(Envelope) /\ Len(t) = Len(s) + 1
        /\ \A j \in 1..Len(s) : t[j] = s[j]
        /\ t[Len(s) + 1] = build_envelope(i)
        /\ 1..Len(t) = (1..Len(s)) \cup {Len(s) + 1}
    BY <2>1, <2>2, Appended
  <2> QED BY <1>1, <1>3, <2>3
<1> QED BY <1>2, <1>3

(* An envelope that exists, or that a group makes of a message. *)
Known(d) ==
    \/ \E k \in 1..Len(dead) : d = dead[k]
    \/ \E g \in RideReaders : \E k \in 1..Len(wrapped[g]) : d = wrapped[g][k]
    \/ \E i \in 1..Len(source) : source[i].first # Intact /\ d = build_envelope(i)

(* On a framed topic each of them wraps a message that cannot be decoded. *)
LEMMA KnownWraps ==
    ASSUME ReplayTypeOK, OriginalsOnce, framed, ~futile, NEW d, Known(d)
    PROVE  Wraps(d)
<1>1. CASE \E k \in 1..Len(dead) : d = dead[k]
  BY <1>1 DEF OriginalsOnce
<1>2. CASE \E g \in RideReaders : \E k \in 1..Len(wrapped[g]) : d = wrapped[g][k]
  BY <1>2 DEF OriginalsOnce
<1>3. ASSUME NEW i \in 1..Len(source), source[i].first # Intact, d = build_envelope(i)
      PROVE  Wraps(d)
  <2>1. d.offset = i /\ d.first = source[i].first
    BY <1>3 DEF build_envelope
  <2> QED BY <1>3, <2>1, FirstByte DEF Wraps
<1> QED BY <1>1, <1>2, <1>3 DEF Known

(* A step that leaves the source topic alone, makes envelopes only of what *)
(* cannot be decoded and puts only repaired payloads into the script's     *)
(* queue.                                                                  *)
LEMMA SameSource ==
    ASSUME ReplayInv, ReplayTypeOK', UNCHANGED topicVars, futile => futile',
           (framed /\ ~futile') => Repaired(outbox'),
           \A j \in 1..Len(dead') : Known(dead'[j]),
           \A g \in RideReaders : \A j \in 1..Len(wrapped'[g]) : Known(wrapped'[g][j])
    PROVE  ReplayInv'
<1>1. ReplayTypeOK /\ OriginalsOnce /\ framed' = framed /\ arrived' = arrived /\ source' = source
  BY DEF ReplayInv, topicVars
<1>2. OriginalsOnce'
  <2> SUFFICES ASSUME framed', ~futile' PROVE OriginalsOnce'
    BY DEF OriginalsOnce
  <2>1. framed /\ ~futile
    BY <1>1
  <2>2. \A d : Known(d) => Wraps(d)
    BY <1>1, <2>1, KnownWraps
  <2>3. \A j \in 1..Len(dead') : Wraps(dead'[j])
    BY <2>2
  <2>4. \A g \in RideReaders : \A j \in 1..Len(wrapped'[g]) : Wraps(wrapped'[g][j])
    BY <2>2
  <2>5. \A j \in 1..Len(dead') : Wraps(dead[j])'
    BY <1>1, <2>3 DEF Wraps, build_envelope
  <2>6. \A g \in RideReaders : \A j \in 1..Len(wrapped'[g]) : Wraps(wrapped[g][j])'
    BY <1>1, <2>4 DEF Wraps, build_envelope
  <2>7. Repaired(outbox')
    BY <1>1
  <2> QED BY <1>1, <2>1, <2>5, <2>6, <2>7 DEF OriginalsOnce, Repaired
<1>3. RepairDoesNotFeedBack'
  BY <1>2, EnvelopesAreCopies, PTL
<1> QED BY <1>2, <1>3 DEF ReplayInv

(* A step that adds a message to the source topic: a new original, or a    *)
(* repaired one.                                                           *)
LEMMA SourceGrows ==
    ASSUME ReplayInv, ReplayTypeOK', UNCHANGED <<framed, dead, wrapped, futile>>,
           NEW m \in Payload, source' = Append(source, m),
           \/ arrived < Len(SourceEvents) /\ arrived' = arrived + 1 /\ m.event = SourceEvents[arrived + 1]
           \/ arrived' = arrived /\ ((framed /\ ~futile) => m.first = "0x00"),
           (framed /\ ~futile) => Repaired(outbox')
    PROVE  ReplayInv'
<1>1. ReplayTypeOK /\ OriginalsOnce
  BY DEF ReplayInv
<1>2. /\ source' \in Seq(Payload) /\ Len(source') = Len(source) + 1 /\ Len(source) \in Nat
      /\ \A i \in 1..Len(source) : source'[i] = source[i]
      /\ source'[Len(source) + 1] = m
      /\ 1..Len(source') = (1..Len(source)) \cup {Len(source) + 1}
  BY <1>1, Appended DEF ReplayTypeOK
<1>3. OriginalsOnce'
  <2> SUFFICES ASSUME framed', ~futile' PROVE OriginalsOnce'
    BY DEF OriginalsOnce
  <2>1. framed /\ ~futile
    OBVIOUS
  <2>2. /\ \A i \in 1..Len(source) : source[i].first # "0x00" =>
              \E k \in 1..arrived : source[i].event = SourceEvents[k]
        /\ \A i, j \in 1..Len(source) :
              (source[i].first # "0x00" /\ source[j].first # "0x00"
                  /\ source[i].event = source[j].event) => i = j
        /\ \A j \in 1..Len(dead) : Wraps(dead[j])
        /\ \A g \in RideReaders : \A j \in 1..Len(wrapped[g]) : Wraps(wrapped[g][j])
    BY <1>1, <2>1 DEF OriginalsOnce
  <2>3. arrived \in Nat /\ arrived <= Len(SourceEvents) /\ Len(SourceEvents) \in Nat
    BY <1>1, Positions
  <2>4. arrived' \in Nat /\ arrived <= arrived'
    BY <2>3
  <2>5. ASSUME m.first # "0x00"
        PROVE  /\ \E k \in 1..arrived' : m.event = SourceEvents[k]
               /\ \A i \in 1..Len(source) : source[i].first # "0x00" => source[i].event # m.event
    <3>1. arrived < Len(SourceEvents) /\ arrived' = arrived + 1 /\ m.event = SourceEvents[arrived + 1]
      BY <2>1, <2>5
    <3>2. arrived + 1 \in 1..Len(SourceEvents) /\ \A k \in 1..arrived : k \in 1..Len(SourceEvents) /\ k # arrived + 1
      BY <2>3, <3>1
    <3>3. \A k \in 1..arrived : SourceEvents[k] # SourceEvents[arrived + 1]
      BY <3>2, SourceAssumption
    <3>4. arrived + 1 \in 1..arrived'
      BY <2>3, <3>1
    <3> QED BY <2>2, <3>1, <3>3, <3>4
  <2>6. ASSUME NEW i \in 1..Len(source'), source'[i].first # "0x00"
        PROVE  \E k \in 1..arrived' : source'[i].event = SourceEvents[k]
    <3>1. CASE i \in 1..Len(source)
      <4>1. PICK k \in 1..arrived : source[i].event = SourceEvents[k]
        BY <1>2, <2>2, <2>6, <3>1
      <4>2. k \in 1..arrived'
        BY <2>3, <2>4
      <4> QED BY <1>2, <3>1, <4>1, <4>2
    <3>2. CASE i = Len(source) + 1
      BY <1>2, <2>5, <2>6, <3>2
    <3> QED BY <1>2, <3>1, <3>2
  <2>7. ASSUME NEW i \in 1..Len(source'), NEW j \in 1..Len(source'), source'[i].first # "0x00",
               source'[j].first # "0x00", source'[i].event = source'[j].event
        PROVE  i = j
    <3>1. CASE i \in 1..Len(source) /\ j \in 1..Len(source)
      BY <1>2, <2>2, <2>7, <3>1
    <3>2. CASE i \in 1..Len(source) /\ j = Len(source) + 1
      BY <1>2, <2>5, <2>7, <3>2
    <3>3. CASE i = Len(source) + 1 /\ j \in 1..Len(source)
      BY <1>2, <2>5, <2>7, <3>3
    <3>4. CASE i = Len(source) + 1 /\ j = Len(source) + 1
      BY <3>4
    <3> QED BY <1>2, <3>1, <3>2, <3>3, <3>4
  <2>8. \A d : Wraps(d) => /\ d.offset \in 1..Len(source')
                           /\ d = [event |-> source'[d.offset].event, first |-> source'[d.offset].first,
                                   offset |-> d.offset]
                           /\ d.first # "0x00"
    BY <1>2 DEF Wraps, build_envelope
  <2>9. \A j \in 1..Len(dead') : Wraps(dead[j])'
    BY <2>2, <2>8 DEF Wraps, build_envelope
  <2>10. \A g \in RideReaders : \A j \in 1..Len(wrapped'[g]) : Wraps(wrapped[g][j])'
    BY <2>2, <2>8 DEF Wraps, build_envelope
  <2>11. Repaired(outbox')
    BY <2>1
  <2> QED BY <2>6, <2>7, <2>9, <2>10, <2>11 DEF OriginalsOnce, Repaired
<1>4. RepairDoesNotFeedBack'
  BY <1>3, EnvelopesAreCopies, PTL
<1> QED BY <1>3, <1>4 DEF ReplayInv

(* An event is produced: it is a new original. *)
LEMMA ArriveInv ==
    ASSUME ReplayInv, Arrive
    PROVE  ReplayInv'
<1>1. /\ arrived < Len(SourceEvents) /\ arrived' = arrived + 1
      /\ UNCHANGED <<framed, handled, finished, wrapped, restarts, dead, replayPc, outbox, futile>>
  BY DEF Arrive, readerVars, scriptVars, runVars
<1>2. PICK first \in {Intact, "0xFF"} :
         source' = Append(source, [event |-> SourceEvents[arrived + 1], first |-> first])
  BY DEF Arrive
<1>3. PICK m : m = [event |-> SourceEvents[arrived + 1], first |-> first]
  OBVIOUS
<1>4. ReplayTypeOK /\ OriginalsOnce
  BY DEF ReplayInv
<1>5. m \in Payload /\ m.event = SourceEvents[arrived + 1]
  <2>1. arrived + 1 \in 1..Len(SourceEvents)
    BY <1>1, <1>4, Positions
  <2>2. SourceEvents[arrived + 1] \in Events
    BY <2>1, SourceAssumption, ElementOfSeq
  <2>3. first \in FirstBytes
    BY <1>4, FirstByte DEF FirstBytes
  <2> QED BY <1>3, <2>2, <2>3 DEF Payload
<1>6. source' \in Seq(Payload) /\ Len(source') = Len(source) + 1
  BY <1>2, <1>3, <1>4, <1>5, Appended DEF ReplayTypeOK
<1>7. ReplayTypeOK'
  <2>1. arrived' \in 0..Len(SourceEvents)
    BY <1>1, <1>4, Positions
  <2>2. 0..Len(source) \subseteq 0..Len(source')
    BY <1>4, <1>6, Positions
  <2>3. handled' \in [RideReaders -> 0..Len(source')] /\ finished' \in [RideReaders -> 0..Len(source')]
    BY <1>1, <1>4, <2>2 DEF ReplayTypeOK
  <2> QED BY <1>1, <1>4, <1>6, <2>1, <2>3 DEF ReplayTypeOK
<1>8. (framed /\ ~futile) => Repaired(outbox')
  BY <1>1, <1>4 DEF OriginalsOnce
<1> QED BY <1>1, <1>2, <1>3, <1>5, <1>7, <1>8, SourceGrows

(* What exists already is known, and the script's queue is repaired. *)
LEMMA AlreadyKnown ==
    ASSUME ReplayInv
    PROVE  /\ ReplayTypeOK
           /\ (framed /\ ~futile) => Repaired(outbox)
           /\ \A j \in 1..Len(dead) : Known(dead[j])
           /\ \A g \in RideReaders : \A j \in 1..Len(wrapped[g]) : Known(wrapped[g][j])
BY DEF ReplayInv, OriginalsOnce, Known

(* The sessionizer handles a message in a transaction. *)
LEMMA TransactInv ==
    ASSUME ReplayInv, NEW g \in RideReaders, Transact(g)
    PROVE  ReplayInv'
<1>1. /\ finished[g] < Len(source) /\ dead' = dead \o DeadLetters(finished[g] + 1)
      /\ finished' = [finished EXCEPT ![g] = @ + 1] /\ handled' = finished'
      /\ UNCHANGED <<framed, arrived, source, wrapped, restarts, replayPc, outbox, futile>>
  BY DEF Transact, topicVars, scriptVars, runVars
<1>2. ReplayTypeOK
  BY DEF ReplayInv
<1>3. finished[g] + 1 \in 1..Len(source)
  BY <1>1, <1>2, Positions
<1>4. dead \in Seq(Envelope)
  BY <1>2 DEF ReplayTypeOK
<1>5. PICK i : i = finished[g] + 1
  OBVIOUS
<1>6. /\ dead' \in Seq(Envelope)
      /\ Len(dead') \in Nat /\ Len(dead) \in Nat /\ Len(dead) <= Len(dead')
      /\ \A j \in 1..Len(dead') :
            \/ j \in 1..Len(dead) /\ dead'[j] = dead[j]
            \/ dead'[j] = build_envelope(i) /\ source[i].first # Intact
  <2>1. i \in 1..Len(source) /\ dead' = dead \o DeadLetters(i)
    BY <1>1, <1>3, <1>5
  <2> QED BY <1>2, <1>4, <2>1, Collected, Zenon
<1>7. \A j \in 1..Len(dead') : Known(dead'[j])
  BY <1>3, <1>5, <1>6 DEF Known
<1>8. ReplayTypeOK'
  <2>1. finished' \in [RideReaders -> 0..Len(source)]
    <3>1. finished[g] + 1 \in 0..Len(source)
      BY <1>2, <1>3, Positions
    <3> QED BY <1>1, <1>2, <3>1 DEF ReplayTypeOK
  <2>2. \A r \in RideReaders : finished'[r] <= handled'[r]
    BY <1>1, <1>2, <2>1, Positions
  <2>3. DOMAIN outbox' \subseteq 1..Len(dead')
    BY <1>1, <1>2, <1>6 DEF ReplayTypeOK
  <2> QED BY <1>1, <1>2, <1>6, <2>1, <2>2, <2>3 DEF ReplayTypeOK
<1> QED BY <1>1, <1>7, <1>8, AlreadyKnown, SameSource DEF topicVars

(* A group decodes a message, or queues an envelope of it. *)
LEMMA HandleInv ==
    ASSUME ReplayInv, NEW g \in RideReaders, Handle(g)
    PROVE  ReplayInv'
<1>1. /\ handled[g] < Len(source) /\ handled' = [handled EXCEPT ![g] = @ + 1]
      /\ wrapped' = [wrapped EXCEPT ![g] = @ \o DeadLetters(handled[g] + 1)]
      /\ UNCHANGED <<framed, arrived, source, finished, restarts, dead, replayPc, outbox, futile>>
  BY DEF Handle, topicVars, scriptVars, runVars
<1>2. ReplayTypeOK
  BY DEF ReplayInv
<1>3. PICK i, s, t : i = handled[g] + 1 /\ s = wrapped[g] /\ t = s \o DeadLetters(i)
  OBVIOUS
<1>4. i \in 1..Len(source) /\ s \in Seq(Envelope)
  <2>1. i \in 1..Len(source)
    BY <1>1, <1>2, <1>3, Positions
  <2>2. s \in Seq(Envelope)
    BY <1>2, <1>3 DEF ReplayTypeOK
  <2> QED BY <2>1, <2>2
<1>5. /\ t \in Seq(Envelope)
      /\ Len(t) \in Nat /\ Len(s) \in Nat /\ Len(s) <= Len(t)
      /\ \A j \in 1..Len(t) :
            \/ j \in 1..Len(s) /\ t[j] = s[j]
            \/ t[j] = build_envelope(i) /\ source[i].first # Intact
  <2>1. t = s \o DeadLetters(i)
    BY <1>3
  <2> QED BY <1>2, <1>4, <2>1, Collected, Zenon
<1>6. ASSUME NEW r \in RideReaders PROVE wrapped'[r] = IF r = g THEN t ELSE wrapped[r]
  BY <1>1, <1>2, <1>3 DEF ReplayTypeOK
<1>7. \A r \in RideReaders : \A j \in 1..Len(wrapped'[r]) : Known(wrapped'[r][j])
  <2>1. ASSUME NEW j \in 1..Len(t) PROVE Known(t[j])
    BY <1>3, <1>4, <1>5, <2>1 DEF Known
  <2>2. ASSUME NEW r \in RideReaders, NEW j \in 1..Len(wrapped'[r]) PROVE Known(wrapped'[r][j])
    BY <1>6, <2>1, <2>2, AlreadyKnown
  <2> QED BY <2>2
<1>8. ReplayTypeOK'
  <2>1. wrapped' \in [RideReaders -> Seq(Envelope)]
    BY <1>1, <1>2, <1>3, <1>5 DEF ReplayTypeOK
  <2>2. handled' \in [RideReaders -> 0..Len(source)]
    <3>1. handled[g] + 1 \in 0..Len(source)
      BY <1>1, <1>2, Positions
    <3> QED BY <1>1, <1>2, <3>1 DEF ReplayTypeOK
  <2>3. \A r \in RideReaders : finished'[r] <= handled'[r]
    <3>1. handled \in [RideReaders -> 0..Len(source)]
      BY <1>2 DEF ReplayTypeOK
    <3>2. \A r \in RideReaders : handled'[r] = IF r = g THEN handled[g] + 1 ELSE handled[r]
      BY <1>1, <3>1
    <3> QED BY <1>1, <1>2, <3>2, Positions
  <2> QED BY <1>1, <1>2, <2>1, <2>2, <2>3 DEF ReplayTypeOK
<1>9. \A j \in 1..Len(dead') : Known(dead'[j])
  BY <1>1, AlreadyKnown
<1> QED BY <1>1, <1>7, <1>8, <1>9, AlreadyKnown, SameSource DEF topicVars

(* A queued envelope reaches the dead-letter topic. *)
LEMMA DeliverEnvelopeInv ==
    ASSUME ReplayInv, NEW g \in RideReaders, DeliverEnvelope(g)
    PROVE  ReplayInv'
<1>1. /\ wrapped[g] # <<>> /\ dead' = Append(dead, Head(wrapped[g]))
      /\ wrapped' = [wrapped EXCEPT ![g] = Tail(@)]
      /\ UNCHANGED <<framed, arrived, source, handled, finished, restarts, replayPc, outbox, futile>>
  BY DEF DeliverEnvelope, topicVars, scriptVars, runVars
<1>2. ReplayTypeOK
  BY DEF ReplayInv
<1>3. PICK d, t : d = Head(wrapped[g]) /\ t = Tail(wrapped[g])
  OBVIOUS
<1>4. /\ d \in Envelope /\ t \in Seq(Envelope) /\ d = wrapped[g][1] /\ 1 \in 1..Len(wrapped[g])
      /\ \A j \in 1..Len(t) : t[j] = wrapped[g][j + 1] /\ j + 1 \in 1..Len(wrapped[g])
  <2>1. wrapped[g] \in Seq(Envelope)
    BY <1>2 DEF ReplayTypeOK
  <2>2. Len(wrapped[g]) \in Nat \ {0}
    BY <1>1, <2>1, EmptySeq
  <2>3. /\ d \in Envelope /\ t \in Seq(Envelope) /\ Len(t) = Len(wrapped[g]) - 1
        /\ \A j \in 1..Len(t) : t[j] = wrapped[g][j + 1]
    BY <1>1, <1>3, <2>1, HeadTailProperties
  <2>4. d = wrapped[g][1]
    BY <1>3
  <2> QED BY <2>2, <2>3, <2>4
<1>5. /\ dead' \in Seq(Envelope) /\ Len(dead') = Len(dead) + 1 /\ Len(dead) \in Nat
      /\ \A j \in 1..Len(dead) : dead'[j] = dead[j]
      /\ dead'[Len(dead) + 1] = d
      /\ 1..Len(dead') = (1..Len(dead)) \cup {Len(dead) + 1}
  BY <1>1, <1>2, <1>3, <1>4, Appended DEF ReplayTypeOK
<1>6. Known(d) /\ \A j \in 1..Len(t) : Known(t[j])
  BY <1>4, AlreadyKnown
<1>7. \A j \in 1..Len(dead') : Known(dead'[j])
  <2>1. ASSUME NEW j \in 1..Len(dead') PROVE Known(dead'[j])
    <3>1. CASE j \in 1..Len(dead)
      BY <1>5, <3>1, AlreadyKnown
    <3>2. CASE j = Len(dead) + 1
      BY <1>5, <1>6, <3>2
    <3> QED BY <1>5, <3>1, <3>2
  <2> QED BY <2>1
<1>8. \A r \in RideReaders : \A j \in 1..Len(wrapped'[r]) : Known(wrapped'[r][j])
  <2>1. \A r \in RideReaders : wrapped'[r] = IF r = g THEN t ELSE wrapped[r]
    BY <1>1, <1>2, <1>3 DEF ReplayTypeOK
  <2>2. ASSUME NEW r \in RideReaders, NEW j \in 1..Len(wrapped'[r]) PROVE Known(wrapped'[r][j])
    BY <1>6, <2>1, <2>2, AlreadyKnown
  <2> QED BY <2>2
<1>9. ReplayTypeOK'
  <2>1. wrapped' \in [RideReaders -> Seq(Envelope)]
    BY <1>1, <1>2, <1>3, <1>4 DEF ReplayTypeOK
  <2>2. DOMAIN outbox' \subseteq 1..Len(dead')
    BY <1>1, <1>2, <1>5 DEF ReplayTypeOK
  <2> QED BY <1>1, <1>2, <1>5, <2>1, <2>2 DEF ReplayTypeOK
<1> QED BY <1>1, <1>7, <1>8, <1>9, AlreadyKnown, SameSource DEF topicVars

(* A group commits what it has handled, or starts from what it committed. *)
LEMMA FinishRestartInv ==
    ASSUME ReplayInv, NEW g \in RideReaders, Finish(g) \/ Restart(g)
    PROVE  ReplayInv'
<1>1. /\ \/ /\ finished' = [finished EXCEPT ![g] = handled[g]]
            /\ UNCHANGED <<handled, wrapped>>
         \/ /\ handled' = [handled EXCEPT ![g] = finished[g]] /\ finished' = finished
            /\ wrapped' = [wrapped EXCEPT ![g] = <<>>]
      /\ UNCHANGED <<framed, arrived, source, dead, replayPc, outbox, futile>>
  BY DEF Finish, Restart, topicVars, scriptVars, runVars
<1>2. ReplayTypeOK
  BY DEF ReplayInv
<1>3. <<>> \in Seq(Envelope) /\ Len(<<>>) = 0
  BY EmptySeq
<1>4. ReplayTypeOK'
  <2>1. /\ handled' \in [RideReaders -> 0..Len(source)]
        /\ finished' \in [RideReaders -> 0..Len(source)]
        /\ wrapped' \in [RideReaders -> Seq(Envelope)]
    BY <1>1, <1>2, <1>3 DEF ReplayTypeOK
  <2>2. \A r \in RideReaders : finished'[r] <= handled'[r]
    <3>1. handled \in [RideReaders -> 0..Len(source)] /\ finished \in [RideReaders -> 0..Len(source)]
      BY <1>2 DEF ReplayTypeOK
    <3> QED BY <1>1, <1>2, <3>1, Positions
  <2> QED BY <1>1, <1>2, <2>1, <2>2 DEF ReplayTypeOK
<1>5. \A r \in RideReaders : \A j \in 1..Len(wrapped'[r]) : Known(wrapped'[r][j])
  <2>1. \A r \in RideReaders : wrapped'[r] = wrapped[r] \/ wrapped'[r] = <<>>
    BY <1>1, <1>2 DEF ReplayTypeOK
  <2>2. 1..Len(<<>>) = {}
    BY <1>3
  <2>3. ASSUME NEW r \in RideReaders, NEW j \in 1..Len(wrapped'[r]) PROVE Known(wrapped'[r][j])
    <3>1. CASE wrapped'[r] = wrapped[r]
      BY <2>3, <3>1, AlreadyKnown
    <3>2. CASE wrapped'[r] = <<>>
      BY <2>2, <2>3, <3>2
    <3> QED BY <2>1, <3>1, <3>2
  <2> QED BY <2>3
<1>6. \A j \in 1..Len(dead') : Known(dead'[j])
  BY <1>1, AlreadyKnown
<1> QED BY <1>1, <1>4, <1>5, <1>6, AlreadyKnown, SameSource DEF topicVars

(* A run of the script: on a framed topic it repairs, or produces nothing, *)
(* unless it is futile.                                                    *)
LEMMA DrainAndReplayInv ==
    ASSUME ReplayInv, DrainAndReplay
    PROVE  ReplayInv'
<1>1. /\ replayPc' = "flush"
      /\ UNCHANGED <<framed, arrived, source, handled, finished, wrapped, restarts, dead>>
  BY DEF DrainAndReplay, topicVars, readerVars
<1>2. PICK options \in Options : \E n \in FirstOffset..Len(dead) :
         /\ outbox' = Replayed(FirstOffset + 1..n, options)
         /\ futile' = (futile \/ ~(options.dry \/ Repairs(options)))
  BY DEF DrainAndReplay
<1>3. PICK n \in FirstOffset..Len(dead) :
         /\ outbox' = Replayed(FirstOffset + 1..n, options)
         /\ futile' = (futile \/ ~(options.dry \/ Repairs(options)))
  BY <1>2
<1>4. ReplayTypeOK
  BY DEF ReplayInv
<1>5. PICK chosen : chosen = {k \in FirstOffset + 1..n : ~options.dry /\ dead[k].event \in options.filter}
  OBVIOUS
<1>6. /\ outbox' = [i \in chosen |-> [event |-> dead[i].event,
                                      first |-> IF options.repair THEN "0x00" ELSE dead[i].first]]
      /\ chosen \subseteq 1..Len(dead)
      /\ chosen # {} => ~options.dry
  <2>1. FirstOffset + 1..n \subseteq 1..Len(dead)
    BY <1>4, Positions DEF FirstOffset
  <2> QED BY <1>3, <1>5, <2>1 DEF Replayed, repair_magic_byte
<1>7. \A i \in chosen : [event |-> dead[i].event, first |-> IF options.repair THEN "0x00" ELSE dead[i].first] \in Payload
  <2>1. \A i \in chosen : dead[i].event \in Events /\ dead[i].first \in FirstBytes
    BY <1>4, <1>6, TopicTypes DEF Envelope
  <2> QED BY <2>1 DEF Payload, FirstBytes
<1>8. ReplayTypeOK'
  <2>1. DOMAIN outbox' = chosen /\ outbox' \in [chosen -> Payload]
    BY <1>6, <1>7
  <2> QED BY <1>1, <1>4, <1>6, <2>1 DEF ReplayTypeOK
<1>9. ASSUME framed, ~futile' PROVE Repaired(outbox')
  <2>1. options.dry \/ options.repair
    BY <1>3, <1>9 DEF Repairs
  <2> QED BY <1>6, <2>1 DEF Repaired
<1>10. /\ \A j \in 1..Len(dead') : Known(dead'[j])
       /\ \A g \in RideReaders : \A j \in 1..Len(wrapped'[g]) : Known(wrapped'[g][j])
  BY <1>1, AlreadyKnown
<1> QED BY <1>1, <1>3, <1>8, <1>9, <1>10, SameSource DEF topicVars

(* A replayed message reaches the source topic. *)
LEMMA DeliverReplayedInv ==
    ASSUME ReplayInv, DeliverReplayed
    PROVE  ReplayInv'
<1>1. UNCHANGED <<framed, arrived, handled, finished, wrapped, restarts, dead, replayPc, futile>>
  BY DEF DeliverReplayed, readerVars, runVars
<1>2. PICK i \in DOMAIN outbox : /\ source' = Append(source, outbox[i])
                                /\ outbox' = [j \in DOMAIN outbox \ {i} |-> outbox[j]]
  BY DEF DeliverReplayed
<1>3. ReplayTypeOK
  BY DEF ReplayInv
<1>4. PICK m : m = outbox[i]
  OBVIOUS
<1>5. m \in Payload
  BY <1>3, <1>4 DEF ReplayTypeOK
<1>6. source' \in Seq(Payload) /\ Len(source') = Len(source) + 1
  BY <1>2, <1>3, <1>4, <1>5, Appended DEF ReplayTypeOK
<1>7. ReplayTypeOK'
  <2>1. 0..Len(source) \subseteq 0..Len(source')
    BY <1>3, <1>6, Positions
  <2>2. handled' \in [RideReaders -> 0..Len(source')] /\ finished' \in [RideReaders -> 0..Len(source')]
    BY <1>1, <1>3, <2>1 DEF ReplayTypeOK
  <2>3. outbox' \in [DOMAIN outbox' -> Payload] /\ DOMAIN outbox' \subseteq 1..Len(dead)
    BY <1>2, <1>3 DEF ReplayTypeOK
  <2> QED BY <1>1, <1>3, <1>6, <2>2, <2>3 DEF ReplayTypeOK
<1>8. (framed /\ ~futile) => m.first = "0x00" /\ Repaired(outbox')
  BY <1>2, <1>4, AlreadyKnown DEF Repaired
<1> QED BY <1>1, <1>2, <1>4, <1>5, <1>7, <1>8, SourceGrows

(* A run ends, delivered or cut short. *)
LEMMA ReplayEndsInv ==
    ASSUME ReplayInv, ReplayDone \/ ReplayCutShort
    PROVE  ReplayInv'
<1>1. /\ UNCHANGED <<framed, arrived, source, handled, finished, wrapped, restarts, dead, futile>>
      /\ replayPc' = "idle" /\ outbox' = <<>>
  BY DEF ReplayDone, ReplayCutShort, End, topicVars, readerVars
<1>2. DOMAIN outbox' = {}
  BY <1>1
<1>3. ReplayTypeOK'
  <2>1. outbox' \in [DOMAIN outbox' -> Payload]
    BY <1>1, <1>2
  <2> QED BY <1>1, <1>2, <2>1 DEF ReplayInv, ReplayTypeOK
<1>4. Repaired(outbox')
  BY <1>2 DEF Repaired
<1>5. /\ \A j \in 1..Len(dead') : Known(dead'[j])
      /\ \A g \in RideReaders : \A j \in 1..Len(wrapped'[g]) : Known(wrapped'[g][j])
  BY <1>1, AlreadyKnown
<1> QED BY <1>1, <1>3, <1>4, <1>5, SameSource DEF topicVars

(* Where the cycle starts. *)
LEMMA ReplayInitInv == ReplayInit => ReplayInv
<1> SUFFICES ASSUME ReplayInit PROVE ReplayInv
  OBVIOUS
<1>1. /\ <<>> \in Seq(Payload) /\ <<>> \in Seq(Envelope) /\ Len(<<>>) = 0
      /\ 0 \in 0..Len(SourceEvents) /\ 1..Len(<<>>) = {} /\ DOMAIN <<>> = {}
  BY SourceAssumption, EmptySeq, LenProperties
<1>2. outbox \in [DOMAIN outbox -> Payload] /\ DOMAIN outbox = {}
  BY <1>1 DEF ReplayInit
<1>3. ReplayTypeOK
  BY <1>1, <1>2 DEF ReplayInit, ReplayTypeOK
<1>4. OriginalsOnce
  BY <1>1, <1>2 DEF ReplayInit, OriginalsOnce, Repaired
<1> QED BY <1>3, <1>4, EnvelopesAreCopies DEF ReplayInv

(* Nothing changes while another tool runs. *)
LEMMA ReplayRests ==
    ASSUME ReplayInv, UNCHANGED replayVars
    PROVE  ReplayInv'
<1>1. UNCHANGED <<framed, arrived, source, handled, finished, wrapped, dead, replayPc, outbox, futile>>
  BY DEF replayVars, topicVars, readerVars, scriptVars, runVars
<1>2. ReplayTypeOK'
  BY <1>1 DEF ReplayInv, ReplayTypeOK
<1>3. /\ \A j \in 1..Len(dead') : Known(dead'[j])
      /\ \A g \in RideReaders : \A j \in 1..Len(wrapped'[g]) : Known(wrapped'[g][j])
  BY <1>1, AlreadyKnown
<1> QED BY <1>1, <1>2, <1>3, AlreadyKnown, SameSource DEF topicVars

-----------------------------------------------------------------------------
(* The quality runner. *)

(* Max of two numbers. *)
LEMMA MaxOfTwo ==
    ASSUME NEW a \in Int, NEW b \in Int
    PROVE  Max({a, b}) = IF a >= b THEN a ELSE b
<1>1. \E x \in {a, b} : \A y \in {a, b} : x >= y
  OBVIOUS
<1>2. Max({a, b}) \in {a, b} /\ \A y \in {a, b} : Max({a, b}) >= y
  BY <1>1 DEF Max
<1> QED BY <1>2

(* A non-empty set of numbers has a smallest element ... *)
LEMMA MinIsLeast ==
    ASSUME NEW S \in SUBSET Nat, S # {}
    PROVE  Min(S) \in S /\ \A y \in S : Min(S) <= y
<1>1. PICK m \in S : \A y \in S : ~(<<y, m>> \in OpToRel(<, Nat))
  BY NatLessThanWellFounded, WFMin, Zenon
<1>2. \A y \in S : m <= y
  <2> SUFFICES ASSUME NEW y \in S, y < m PROVE FALSE
    OBVIOUS
  <2>1. <<y, m>> \in OpToRel(<, Nat)
    BY DEF OpToRel
  <2> QED BY <1>1, <2>1
<1> QED BY <1>2 DEF Min

(* ... and, if it is bounded, a largest one. *)
LEMMA MaxIsGreatest ==
    ASSUME NEW n \in Nat, NEW S \in SUBSET (0..n), S # {}
    PROVE  Max(S) \in S /\ \A y \in S : y <= Max(S)
<1> DEFINE D == {n - x : x \in S}
<1>1. D \in SUBSET Nat /\ D # {}
  <2>1. \A x \in S : n - x \in Nat
    OBVIOUS
  <2> QED BY <2>1
<1>2. Min(D) \in D /\ \A y \in D : Min(D) <= y
  <2> HIDE DEF D
  <2> QED BY <1>1, MinIsLeast
<1>3. PICK m \in S : Min(D) = n - m
  BY <1>2
<1>4. \A y \in S : m >= y
  <2> SUFFICES ASSUME NEW y \in S PROVE m >= y
    OBVIOUS
  <2>1. n - m <= n - y
    BY <1>2, <1>3
  <2>2. m \in Nat /\ y \in Nat
    OBVIOUS
  <2> QED BY <2>1, <2>2
<1>5. Max(S) \in S /\ \A y \in S : Max(S) >= y
  BY <1>4 DEF Max
<1> QED BY <1>5

(* What rowcount_history returns are recorded counts, not too many. *)
LEMMA HistoryIs ==
    ASSUME NEW rows \in Seq(0..MaxCount)
    PROVE  /\ rowcount_history(rows) \in Seq(0..MaxCount)
           /\ Len(rowcount_history(rows)) <= HistoryLimit
           /\ \A i \in 1..Len(rowcount_history(rows)) :
                 \E j \in 1..Len(rows) : rowcount_history(rows)[i] = rows[j]
<1>1. PICK n, k, first : n = Len(rows) /\ k = HistoryLimit /\ first = Max({1, n - k + 1})
  OBVIOUS
<1>2. n \in Nat /\ k \in Nat \ {0} /\ \A j \in 1..n : rows[j] \in 0..MaxCount
  BY <1>1, HistoryAssumption, LenProperties, ElementOfSeq
<1>3. first = (IF 1 >= n - k + 1 THEN 1 ELSE n - k + 1) /\ first \in Nat /\ first >= 1 /\ first <= n + 1
  BY <1>1, <1>2, MaxOfTwo
<1>4. \A j \in first..n : rows[j] \in 0..MaxCount
  BY <1>2, <1>3
<1>5. rowcount_history(rows) = SubSeq(rows, first, n)
  BY <1>1 DEF rowcount_history
<1>6. /\ SubSeq(rows, first, n) \in Seq(0..MaxCount)
      /\ Len(SubSeq(rows, first, n)) = (IF first <= n THEN n - first + 1 ELSE 0)
      /\ \A i \in 1..(n - first + 1) : SubSeq(rows, first, n)[i] = rows[first + i - 1]
  BY <1>2, <1>3, <1>4, SubSeqProperties
<1>7. PICK h : h = SubSeq(rows, first, n)
  OBVIOUS
<1>8. Len(h) = n - first + 1 /\ Len(h) <= k
  BY <1>2, <1>3, <1>6, <1>7
<1>9. ASSUME NEW i \in 1..Len(h) PROVE \E j \in 1..n : h[i] = rows[j]
  <2>1. i \in 1..(n - first + 1) /\ first + i - 1 \in 1..n
    BY <1>2, <1>3, <1>8
  <2> QED BY <1>6, <1>7, <2>1
<1>10. rowcount_history(rows) = h /\ h \in Seq(0..MaxCount)
  BY <1>5, <1>6, <1>7
<1> QED BY <1>1, <1>8, <1>9, <1>10

(* The floor is the largest recorded count. *)
LEMMA FloorIs ==
    ASSUME NEW h \in Seq(0..MaxCount), h # <<>>
    PROVE  /\ Floor(h) \in 0..MaxCount
           /\ \A i \in 1..Len(h) : h[i] <= Floor(h)
           /\ \E i \in 1..Len(h) : h[i] = Floor(h)
<1>1. Len(h) \in Nat \ {0} /\ DOMAIN h = 1..Len(h) /\ \A i \in 1..Len(h) : h[i] \in 0..MaxCount
  BY EmptySeq, LenProperties, ElementOfSeq
<1>2. PICK S : S = ToSet(h)
  OBVIOUS
<1>3. S = {h[i] : i \in 1..Len(h)}
  BY <1>1, <1>2 DEF ToSet
<1>4. S \in SUBSET (0..MaxCount) /\ S # {}
  BY <1>1, <1>3
<1>5. Max(S) \in S /\ \A y \in S : y <= Max(S)
  BY <1>4, MaxIsGreatest, HistoryAssumption
<1>6. Floor(h) = Max(S)
  BY <1>2 DEF Floor
<1> QED BY <1>3, <1>4, <1>5, <1>6

(* When the count is called low or high. *)
LEMMA VerdictIs ==
    ASSUME NEW h \in Seq(0..MaxCount), NEW count \in 0..MaxCount
    PROVE  /\ Verdict(count, h) \in {"ok", "low", "high"}
           /\ Verdict(count, h) = "low" => \E i \in 1..Len(h) : count < h[i]
           /\ Verdict(count, h) = "high" => \A i \in 1..Len(h) : count > h[i] + Slack
<1>1. Verdict(count, h) \in {"ok", "low", "high"}
  BY DEF Verdict
<1>2. ASSUME Verdict(count, h) = "low" PROVE \E i \in 1..Len(h) : count < h[i]
  <2>1. h # <<>> /\ count < Floor(h)
    BY <1>2 DEF Verdict
  <2> QED BY <2>1, FloorIs
<1>3. ASSUME Verdict(count, h) = "high", NEW i \in 1..Len(h) PROVE count > h[i] + Slack
  <2>1. h # <<>> /\ count > Floor(h) + Slack
    BY <1>3 DEF Verdict, AboveCeiling
  <2>2. h[i] <= Floor(h) /\ Floor(h) \in 0..MaxCount
    BY <2>1, FloorIs
  <2>3. h[i] \in 0..MaxCount
    BY ElementOfSeq
  <2> QED BY <2>1, <2>2, <2>3, HistoryAssumption
<1> QED BY <1>1, <1>2, <1>3

(* The table grows or shrinks. *)
LEMMA TableInv ==
    ASSUME QualityInv, Grow \/ Lose
    PROVE  QualityInv'
<1>1. /\ UNCHANGED <<history, observed, verdict, failed, dq_results, dqPc, exitCode>>
      /\ fct_rides' \in Int
      /\ \/ losses' = losses /\ fct_rides' > fct_rides /\ fct_rides' <= MaxCount
         \/ losses' = losses + 1 /\ fct_rides' >= 0 /\ fct_rides' < fct_rides
  BY HistoryAssumption DEF QualityInv, QualityTypeOK, Grow, Lose, dqRun
<1>2. QualityTypeOK /\ losses \in Nat /\ CountsOK /\ AlarmsAreReal
  BY DEF QualityInv
<1>3. fct_rides \in Nat /\ fct_rides <= MaxCount /\ MaxCount \in Nat
  BY <1>2, HistoryAssumption DEF QualityTypeOK
<1>4. QualityTypeOK'
  <2>1. fct_rides' \in 0..MaxCount
    BY <1>1, <1>3
  <2> QED BY <1>1, <1>2, <2>1 DEF QualityTypeOK
<1>5. losses' \in Nat /\ (losses > 0 => losses' > 0)
  BY <1>1, <1>2
<1>6. ASSUME losses' = 0 PROVE losses = 0 /\ fct_rides' > fct_rides
  BY <1>1, <1>2, <1>6
<1>7. CountsOK'
  <2> SUFFICES ASSUME losses' = 0
               PROVE  /\ \A i \in 1..Len(dq_results) : dq_results[i] <= fct_rides'
                      /\ \A r \in Runners :
                            /\ observed[r] <= fct_rides'
                            /\ \A i \in 1..Len(history[r]) : history[r][i] <= fct_rides'
                            /\ dqPc[r] = "judge" => \A i \in 1..Len(history[r]) : history[r][i] <= observed[r]
    BY <1>1 DEF CountsOK
  <2>1. \A x \in 0..MaxCount : x <= fct_rides => x <= fct_rides'
    BY <1>1, <1>3, <1>6
  <2>2. \A i \in 1..Len(dq_results) : dq_results[i] \in 0..MaxCount
    BY <1>2, ElementOfSeq DEF QualityTypeOK
  <2>3. \A r \in Runners : observed[r] \in 0..MaxCount /\ \A i \in 1..Len(history[r]) : history[r][i] \in 0..MaxCount
    BY <1>2, ElementOfSeq DEF QualityTypeOK
  <2> QED BY <1>2, <1>6, <2>1, <2>2, <2>3 DEF CountsOK
<1>8. AlarmsAreReal'
  BY <1>1, <1>2, <1>5 DEF AlarmsAreReal
<1> QED BY <1>4, <1>5, <1>7, <1>8 DEF QualityInv

(* A run reads the history, and a count is in range. *)
LEMMA RunnerBefore ==
    ASSUME QualityInv, NEW r \in Runners
    PROVE  /\ fct_rides \in 0..MaxCount /\ dq_results \in Seq(0..MaxCount) /\ losses \in Nat
           /\ dqPc[r] \in {"history", "raw", "fct", "judge", "persist", "done"}
           /\ history[r] \in Seq(0..MaxCount) /\ observed[r] \in 0..MaxCount /\ failed[r] \in SUBSET Suites
           /\ \A i \in 1..Len(history[r]) : history[r][i] \in 0..MaxCount
BY ElementOfSeq DEF QualityInv, QualityTypeOK

(* What a step of runner r may do: new values for its own run, a record    *)
(* that is a recorded or a counted number, and only if rows were lost an   *)
(* alarm.                                                                  *)
RunnerMoves(r, pcAfter, h, count, v, f, code) ==
    /\ dqPc' = [dqPc EXCEPT ![r] = pcAfter] /\ pcAfter \in {"history", "raw", "fct", "judge", "persist", "done"}
    /\ history' = [history EXCEPT ![r] = h] /\ h \in Seq(0..MaxCount) /\ Len(h) <= HistoryLimit
    /\ observed' = [observed EXCEPT ![r] = count] /\ count \in 0..MaxCount
    /\ verdict' = [verdict EXCEPT ![r] = v] /\ v \in {"ok", "low", "high"}
    /\ failed' = [failed EXCEPT ![r] = f] /\ f \in SUBSET Suites
    /\ exitCode' = [exitCode EXCEPT ![r] = code] /\ code \in {NoExit, 0, 1, 2}
    /\ UNCHANGED <<fct_rides, losses>>
    /\ dq_results' \in Seq(0..MaxCount) /\ Len(dq_results') <= HistoryLimit
    /\ losses = 0 => /\ \A i \in 1..Len(dq_results') : dq_results'[i] <= fct_rides
                     /\ count <= fct_rides
                     /\ \A i \in 1..Len(h) : h[i] <= fct_rides
                     /\ pcAfter = "judge" => \A i \in 1..Len(h) : h[i] <= count
    /\ pcAfter = "persist" => /\ v = "low" => losses > 0
                              /\ v = "high" => \A i \in 1..Len(h) : count > h[i] + Slack

(* Such a step keeps the invariant. *)
LEMMA RunnerMovesInv ==
    ASSUME QualityInv, NEW r \in Runners, NEW pcAfter, NEW h, NEW count, NEW v, NEW f, NEW code,
           RunnerMoves(r, pcAfter, h, count, v, f, code)
    PROVE  QualityInv'
<1>1. QualityTypeOK /\ losses \in Nat /\ CountsOK /\ AlarmsAreReal
  BY DEF QualityInv
<1>2. ASSUME NEW q \in Runners
      PROVE  /\ dqPc'[q] = IF q = r THEN pcAfter ELSE dqPc[q]
             /\ history'[q] = IF q = r THEN h ELSE history[q]
             /\ observed'[q] = IF q = r THEN count ELSE observed[q]
             /\ verdict'[q] = IF q = r THEN v ELSE verdict[q]
  BY <1>1 DEF RunnerMoves, QualityTypeOK
<1>3. QualityTypeOK'
  <2>1. \A q \in Runners : Len(history'[q]) <= HistoryLimit
    BY <1>1, <1>2 DEF RunnerMoves, QualityTypeOK
  <2>2. /\ dqPc' \in [Runners -> {"history", "raw", "fct", "judge", "persist", "done"}]
        /\ history' \in [Runners -> Seq(0..MaxCount)]
        /\ observed' \in [Runners -> 0..MaxCount]
    BY <1>1 DEF RunnerMoves, QualityTypeOK
  <2>3. /\ verdict' \in [Runners -> {"ok", "low", "high"}]
        /\ failed' \in [Runners -> SUBSET Suites]
        /\ exitCode' \in [Runners -> {NoExit, 0, 1, 2}]
    BY <1>1 DEF RunnerMoves, QualityTypeOK
  <2>4. fct_rides' \in 0..MaxCount /\ dq_results' \in Seq(0..MaxCount) /\ Len(dq_results') <= HistoryLimit
    BY <1>1 DEF RunnerMoves, QualityTypeOK
  <2> QED BY <2>1, <2>2, <2>3, <2>4 DEF QualityTypeOK
<1>4. losses' = losses /\ fct_rides' = fct_rides
  BY DEF RunnerMoves
<1>5. CountsOK'
  <2> SUFFICES ASSUME losses = 0
               PROVE  /\ \A i \in 1..Len(dq_results') : dq_results'[i] <= fct_rides
                      /\ \A q \in Runners :
                            /\ observed'[q] <= fct_rides
                            /\ \A i \in 1..Len(history'[q]) : history'[q][i] <= fct_rides
                            /\ dqPc'[q] = "judge" => \A i \in 1..Len(history'[q]) : history'[q][i] <= observed'[q]
    BY <1>4 DEF CountsOK
  <2>1. \A i \in 1..Len(dq_results') : dq_results'[i] <= fct_rides
    BY DEF RunnerMoves
  <2>2. ASSUME NEW q \in Runners
        PROVE  /\ observed'[q] <= fct_rides
               /\ \A i \in 1..Len(history'[q]) : history'[q][i] <= fct_rides
               /\ dqPc'[q] = "judge" => \A i \in 1..Len(history'[q]) : history'[q][i] <= observed'[q]
    <3>1. CASE q = r
      BY <1>2, <3>1 DEF RunnerMoves
    <3>2. CASE q # r
      BY <1>1, <1>2, <3>2 DEF CountsOK
    <3> QED BY <3>1, <3>2
  <2> QED BY <2>1, <2>2
<1>6. AlarmsAreReal'
  <2>1. ASSUME NEW q \in Runners, dqPc'[q] = "persist"
        PROVE  /\ verdict'[q] = "low" => losses > 0
               /\ verdict'[q] = "high" =>
                     \A i \in 1..Len(history'[q]) : observed'[q] > history'[q][i] + Slack
    <3>1. CASE q = r
      BY <1>2, <2>1, <3>1 DEF RunnerMoves
    <3>2. CASE q # r
      BY <1>1, <1>2, <2>1, <3>2 DEF AlarmsAreReal
    <3> QED BY <3>1, <3>2
  <2> QED BY <1>4, <2>1 DEF AlarmsAreReal
<1> QED BY <1>1, <1>3, <1>4, <1>5, <1>6 DEF QualityInv

(* Components that a step leaves alone are rewritten with their own values. *)
LEMMA SameRun ==
    ASSUME QualityInv, NEW r \in Runners
    PROVE  /\ dqPc = [dqPc EXCEPT ![r] = dqPc[r]] /\ history = [history EXCEPT ![r] = history[r]]
           /\ observed = [observed EXCEPT ![r] = observed[r]] /\ verdict = [verdict EXCEPT ![r] = verdict[r]]
           /\ failed = [failed EXCEPT ![r] = failed[r]] /\ exitCode = [exitCode EXCEPT ![r] = exitCode[r]]
           /\ verdict[r] \in {"ok", "low", "high"} /\ exitCode[r] \in {NoExit, 0, 1, 2}
           /\ Len(history[r]) <= HistoryLimit /\ Len(dq_results) <= HistoryLimit
BY DEF QualityInv, QualityTypeOK

(* Until rows are lost. *)
LEMMA NoLossYet ==
    ASSUME QualityInv, NEW r \in Runners, losses = 0
    PROVE  /\ \A i \in 1..Len(dq_results) : dq_results[i] <= fct_rides
           /\ observed[r] <= fct_rides
           /\ \A i \in 1..Len(history[r]) : history[r][i] <= fct_rides
           /\ dqPc[r] = "judge" => \A i \in 1..Len(history[r]) : history[r][i] <= observed[r]
BY DEF QualityInv, CountsOK

(* The five steps of a run. *)
LEMMA ReadHistoryInv ==
    ASSUME QualityInv, NEW r \in Runners, ReadHistory(r)
    PROVE  QualityInv'
<1>1. PICK h : h = rowcount_history(dq_results)
  OBVIOUS
<1>2. h \in Seq(0..MaxCount) /\ Len(h) <= HistoryLimit /\ \A i \in 1..Len(h) : \E j \in 1..Len(dq_results) : h[i] = dq_results[j]
  BY <1>1, RunnerBefore, HistoryIs
<1>3. RunnerMoves(r, "raw", h, observed[r], verdict[r], failed[r], exitCode[r])
  BY <1>1, <1>2, RunnerBefore, SameRun, NoLossYet DEF ReadHistory, RunnerMoves, dqEnv
<1> QED BY <1>3, RunnerMovesInv

(* The first suite. *)
LEMMA ValidateRawInv ==
    ASSUME QualityInv, NEW r \in Runners, ValidateRaw(r)
    PROVE  QualityInv'
<1>1. PICK f \in SUBSET {"raw_rides_events"} : failed' = [failed EXCEPT ![r] = f]
  BY DEF ValidateRaw
<1>2. f \in SUBSET Suites
  BY DEF Suites
<1>3. RunnerMoves(r, "fct", history[r], observed[r], verdict[r], f, exitCode[r])
  BY <1>1, <1>2, RunnerBefore, SameRun, NoLossYet DEF ValidateRaw, RunnerMoves, dqEnv
<1> QED BY <1>3, RunnerMovesInv

(* The count. *)
LEMMA ValidateFctInv ==
    ASSUME QualityInv, NEW r \in Runners, ValidateFct(r)
    PROVE  QualityInv'
<1>1. fct_rides <= fct_rides
  BY RunnerBefore
<1>2. RunnerMoves(r, "judge", history[r], fct_rides, verdict[r], failed[r], exitCode[r])
  BY <1>1, RunnerBefore, SameRun, NoLossYet DEF ValidateFct, RunnerMoves, dqEnv
<1> QED BY <1>2, RunnerMovesInv

(* The verdict. *)
LEMMA JudgeInv ==
    ASSUME QualityInv, NEW r \in Runners, Judge(r)
    PROVE  QualityInv'
<1>1. PICK v : v = Verdict(observed[r], history[r])
  OBVIOUS
<1>2. PICK f : f = IF v = "ok" \/ r \notin Gates THEN failed[r] ELSE failed[r] \cup {"fct_rides"}
  OBVIOUS
<1>3. /\ dqPc[r] = "judge" /\ dqPc' = [dqPc EXCEPT ![r] = "persist"]
      /\ verdict' = [verdict EXCEPT ![r] = v] /\ failed' = [failed EXCEPT ![r] = f]
      /\ UNCHANGED <<fct_rides, losses, history, observed, dq_results, exitCode>>
  BY <1>1, <1>2 DEF Judge, JudgedBy, dqEnv
<1>4. f \in SUBSET Suites
  BY <1>2, RunnerBefore DEF Suites
<1>5. /\ v \in {"ok", "low", "high"}
      /\ v = "low" => \E i \in 1..Len(history[r]) : observed[r] < history[r][i]
      /\ v = "high" => \A i \in 1..Len(history[r]) : observed[r] > history[r][i] + Slack
  BY <1>1, RunnerBefore, VerdictIs
<1>6. v = "low" => losses > 0
  <2> SUFFICES ASSUME v = "low", ~(losses > 0) PROVE FALSE
    OBVIOUS
  <2>1. losses = 0
    BY RunnerBefore
  <2>2. PICK i \in 1..Len(history[r]) : observed[r] < history[r][i]
    BY <1>5
  <2>3. history[r][i] <= observed[r]
    BY <1>3, <2>1, NoLossYet
  <2>4. history[r][i] \in 0..MaxCount /\ observed[r] \in 0..MaxCount
    BY RunnerBefore
  <2> QED BY <2>2, <2>3, <2>4
<1>7. RunnerMoves(r, "persist", history[r], observed[r], v, f, exitCode[r])
  BY <1>3, <1>4, <1>5, <1>6, RunnerBefore, SameRun, NoLossYet DEF RunnerMoves
<1> QED BY <1>7, RunnerMovesInv

(* A run is over: it has forgotten its history. *)
LEMMA RunEnds ==
    ASSUME QualityInv, NEW r \in Runners, Forget(r), NEW code \in {0, 1, 2},
           StartOver(r) \/ Exit(r, code), UNCHANGED <<fct_rides, losses>>,
           dq_results' \in Seq(0..MaxCount), Len(dq_results') <= HistoryLimit,
           losses = 0 => \A i \in 1..Len(dq_results') : dq_results'[i] <= fct_rides
    PROVE  QualityInv'
<1>1. <<>> \in Seq(0..MaxCount) /\ Len(<<>>) = 0 /\ 0 <= HistoryLimit /\ 0 \in 0..MaxCount /\ 0 <= fct_rides
  BY HistoryAssumption, RunnerBefore
<1>2. \A i \in 1..Len(<<>>) : FALSE
  BY <1>1
<1>3. CASE StartOver(r)
  <2>1. RunnerMoves(r, "history", <<>>, 0, "ok", {}, exitCode[r])
    BY <1>1, <1>2, <1>3, SameRun DEF StartOver, Forget, RunnerMoves
  <2> QED BY <2>1, RunnerMovesInv
<1>4. CASE Exit(r, code)
  <2>1. RunnerMoves(r, "done", <<>>, observed[r], "ok", failed[r], code)
    BY <1>1, <1>2, <1>4, RunnerBefore, SameRun, NoLossYet DEF Exit, Forget, RunnerMoves
  <2> QED BY <2>1, RunnerMovesInv
<1> QED BY <1>3, <1>4

(* The result is recorded. *)
LEMMA PersistInv ==
    ASSUME QualityInv, NEW r \in Runners, Persist(r)
    PROVE  QualityInv'
<1>1. PICK rows : rows = Append(dq_results, observed[r])
  OBVIOUS
<1>2. /\ dq_results' = rowcount_history(rows) /\ Forget(r) /\ UNCHANGED <<fct_rides, losses>>
      /\ StartOver(r) \/ Exit(r, ExitCode(r))
  BY <1>1 DEF Persist, dqEnv
<1>3. /\ rows \in Seq(0..MaxCount) /\ Len(rows) = Len(dq_results) + 1 /\ Len(dq_results) \in Nat
      /\ \A i \in 1..Len(dq_results) : rows[i] = dq_results[i]
      /\ rows[Len(dq_results) + 1] = observed[r]
  BY <1>1, RunnerBefore, AppendProperties, LenProperties
<1>4. /\ dq_results' \in Seq(0..MaxCount) /\ Len(dq_results') <= HistoryLimit
      /\ \A i \in 1..Len(dq_results') : \E j \in 1..Len(rows) : dq_results'[i] = rows[j]
  BY <1>2, <1>3, HistoryIs
<1>5. ASSUME losses = 0, NEW i \in 1..Len(dq_results') PROVE dq_results'[i] <= fct_rides
  <2>1. PICK j \in 1..Len(rows) : dq_results'[i] = rows[j]
    BY <1>4
  <2>2. j \in 1..Len(dq_results) \/ j = Len(dq_results) + 1
    BY <1>3
  <2> QED BY <1>3, <1>5, <2>1, <2>2, NoLossYet
<1>6. ExitCode(r) \in {0, 1, 2}
  BY DEF ExitCode
<1> QED BY <1>2, <1>4, <1>5, <1>6, RunEnds

(* The run dies. *)
LEMMA DqCrashInv ==
    ASSUME QualityInv, NEW r \in Runners, DqCrash(r)
    PROVE  QualityInv'
<1>1. Forget(r) /\ (StartOver(r) \/ Exit(r, 1)) /\ UNCHANGED <<fct_rides, losses, dq_results>>
  BY DEF DqCrash, dqEnv
<1>2. /\ dq_results' \in Seq(0..MaxCount) /\ Len(dq_results') <= HistoryLimit
      /\ losses = 0 => \A i \in 1..Len(dq_results') : dq_results'[i] <= fct_rides
  BY <1>1, RunnerBefore, SameRun, NoLossYet
<1> QED BY <1>1, <1>2, RunEnds

(* Where the runners start, and when they rest. *)
LEMMA QualityInitInv == QualityInit => QualityInv
<1> SUFFICES ASSUME QualityInit PROVE QualityInv
  OBVIOUS
<1>1. <<>> \in Seq(0..MaxCount) /\ Len(<<>>) = 0 /\ 0 <= HistoryLimit /\ 0 \in 0..MaxCount
  BY HistoryAssumption
<1>2. QualityTypeOK
  BY <1>1 DEF QualityInit, QualityTypeOK
<1>3. CountsOK
  BY <1>1 DEF QualityInit, CountsOK
<1>4. AlarmsAreReal
  BY DEF QualityInit, AlarmsAreReal
<1> QED BY <1>2, <1>3, <1>4 DEF QualityInit, QualityInv

(* Nothing changes while another tool runs. *)
LEMMA QualityRests ==
    ASSUME QualityInv, UNCHANGED qualityVars
    PROVE  QualityInv'
BY DEF QualityInv, QualityTypeOK, CountsOK, AlarmsAreReal, qualityVars, dqEnv, dqRun

-----------------------------------------------------------------------------
(* The gate that follows a loss. *)

(* The part of a finite set has fewer elements, if one is missing. *)
LEMMA PartOfFinite ==
    ASSUME NEW S, IsFiniteSet(S), NEW T \in SUBSET S
    PROVE  /\ Cardinality(S) \in Nat /\ Cardinality(T) \in Nat
           /\ IsFiniteSet(T) /\ Cardinality(T) <= Cardinality(S)
           /\ \A x \in S : x \notin T => Cardinality(T) < Cardinality(S)
<1>1. IsFiniteSet(T) /\ Cardinality(T) <= Cardinality(S)
  BY FS_Subset
<1>2. Cardinality(S) \in Nat /\ Cardinality(T) \in Nat
  BY <1>1, FS_CardinalityType
<1>3. ASSUME NEW x \in S, x \notin T PROVE Cardinality(T) < Cardinality(S)
  <2>1. IsFiniteSet(S \ {x}) /\ Cardinality(S \ {x}) = Cardinality(S) - 1
    BY FS_RemoveElement
  <2>2. T \in SUBSET (S \ {x})
    BY <1>3
  <2>3. Cardinality(T) <= Cardinality(S \ {x})
    BY <2>1, <2>2, FS_Subset
  <2> QED BY <1>2, <2>1, <2>3
<1> QED BY <1>1, <1>2, <1>3

(* A history that is not longer than the limit is read as it is. *)
LEMMA WholeHistory ==
    ASSUME NEW rows \in Seq(0..MaxCount), Len(rows) <= HistoryLimit
    PROVE  rowcount_history(rows) = rows
<1>1. PICK n, first : n = Len(rows) /\ first = Max({1, n - HistoryLimit + 1})
  OBVIOUS
<1>2. n \in Nat /\ n <= HistoryLimit /\ HistoryLimit \in Nat
  BY <1>1, HistoryAssumption, LenProperties
<1>3. first = 1
  BY <1>1, <1>2, MaxOfTwo
<1> QED BY <1>1, <1>3, SubSeqFull DEF rowcount_history

(* Every row is moved one row back, unless it was the oldest of a full     *)
(* history.                                                                *)
MovedBack(rows, h) ==
    \A i \in 1..Len(rows) : Len(rows) - i + 1 < HistoryLimit =>
        \E j \in 1..Len(h) : h[j] = rows[i] /\ Len(h) - j = Len(rows) - i + 1

(* A recorded count is the last row, behind what was there. *)
LEMMA RecordIs ==
    ASSUME NEW rows \in Seq(0..MaxCount), Len(rows) <= HistoryLimit, NEW x \in 0..MaxCount,
           NEW h, h = rowcount_history(Append(rows, x))
    PROVE  /\ h \in Seq(0..MaxCount) /\ Len(h) \in Nat /\ Len(rows) \in Nat
           /\ Len(h) >= 1 /\ h[Len(h)] = x
           /\ \A i \in 1..Len(h) : h[i] = x \/ \E j \in 1..Len(rows) : h[i] = rows[j]
           /\ MovedBack(rows, h)
<1>1. PICK s, m, n, k, first : s = Append(rows, x) /\ m = Len(rows) /\ n = Len(s) /\ k = HistoryLimit
                             /\ first = Max({1, n - k + 1})
  OBVIOUS
<1>2. /\ s \in Seq(0..MaxCount) /\ n = m + 1 /\ m \in Nat /\ m <= k /\ k \in Nat \ {0}
      /\ \A i \in 1..m : s[i] = rows[i]
      /\ s[n] = x
  BY <1>1, HistoryAssumption, AppendProperties, LenProperties
<1>3. first = (IF 1 >= n - k + 1 THEN 1 ELSE n - k + 1) /\ first \in Nat /\ first >= 1 /\ first <= n
  BY <1>1, <1>2, MaxOfTwo
<1>4. \A j \in 1..n : s[j] \in 0..MaxCount
  BY <1>1, <1>2, ElementOfSeq
<1>5. \A j \in first..n : s[j] \in 0..MaxCount
  BY <1>2, <1>3, <1>4
<1>6. h = SubSeq(s, first, n)
  BY <1>1 DEF rowcount_history
<1>7. /\ SubSeq(s, first, n) \in Seq(0..MaxCount)
      /\ Len(SubSeq(s, first, n)) = (IF first <= n THEN n - first + 1 ELSE 0)
      /\ \A i \in 1..(n - first + 1) : SubSeq(s, first, n)[i] = s[first + i - 1]
  <2>1. first \in Int /\ n \in Int
    BY <1>2, <1>3
  <2> QED BY <1>5, <2>1, SubSeqProperties
<1>8. PICK l : l = Len(h)
  OBVIOUS
<1>9. h \in Seq(0..MaxCount) /\ l = n - first + 1 /\ l \in Nat /\ l >= 1 /\ \A i \in 1..l : h[i] = s[first + i - 1]
  BY <1>2, <1>3, <1>6, <1>7, <1>8
<1>10. h[l] = x
  <2>1. l \in 1..l /\ first + l - 1 = n
    BY <1>2, <1>3, <1>9
  <2> QED BY <1>2, <1>9, <2>1
<1>11. ASSUME NEW i \in 1..l PROVE h[i] = x \/ \E j \in 1..m : h[i] = rows[j]
  <2>1. PICK j : j = first + i - 1
    OBVIOUS
  <2>2. j \in 1..m \/ j = n
    BY <1>2, <1>3, <1>9, <2>1
  <2> QED BY <1>2, <1>9, <2>1, <2>2
<1>12. ASSUME NEW i \in 1..m, m - i + 1 < k PROVE \E j \in 1..l : h[j] = rows[i] /\ l - j = m - i + 1
  <2>1. PICK j : j = i - first + 1
    OBVIOUS
  <2>2. j \in 1..l /\ first + j - 1 = i /\ l - j = m - i + 1
    BY <1>2, <1>3, <1>9, <1>12, <2>1
  <2> QED BY <1>2, <1>9, <2>2
<1>13. m = Len(rows) /\ l = Len(h) /\ k = HistoryLimit /\ m \in Nat
  BY <1>1, <1>2, <1>8
<1>14. /\ h \in Seq(0..MaxCount) /\ Len(h) \in Nat /\ Len(rows) \in Nat /\ Len(h) >= 1 /\ h[Len(h)] = x
       /\ \A i \in 1..Len(h) : h[i] = x \/ \E j \in 1..Len(rows) : h[i] = rows[j]
  BY <1>9, <1>10, <1>11, <1>13
<1>15. \A i \in 1..m : m - i + 1 < k => \E j \in 1..l : h[j] = rows[i] /\ l - j = m - i + 1
  BY <1>12
<1>16. MovedBack(rows, h)
  BY <1>13, <1>15, Zenon DEF MovedBack
<1> QED BY <1>14, <1>16

(* The highest of the recorded counts. *)
HighWater(rows) == Max({0} \cup ToSet(rows))

LEMMA HighWaterIs ==
    ASSUME NEW rows \in Seq(0..MaxCount)
    PROVE  /\ HighWater(rows) \in 0..MaxCount
           /\ \A i \in 1..Len(rows) : rows[i] <= HighWater(rows)
           /\ HighWater(rows) > 0 => \E i \in 1..Len(rows) : rows[i] = HighWater(rows)
<1>1. Len(rows) \in Nat /\ DOMAIN rows = 1..Len(rows) /\ \A i \in 1..Len(rows) : rows[i] \in 0..MaxCount
  BY LenProperties, ElementOfSeq
<1>2. PICK S : S = {0} \cup ToSet(rows)
  OBVIOUS
<1>3. S = {0} \cup {rows[i] : i \in 1..Len(rows)}
  BY <1>1, <1>2 DEF ToSet
<1>4. S \in SUBSET (0..MaxCount) /\ S # {}
  BY <1>1, <1>3, HistoryAssumption
<1>5. Max(S) \in S /\ \A y \in S : y <= Max(S)
  BY <1>4, MaxIsGreatest, HistoryAssumption
<1>6. HighWater(rows) = Max(S)
  BY <1>2 DEF HighWater
<1>7. Max(S) \in 0..MaxCount /\ \A i \in 1..Len(rows) : rows[i] <= Max(S)
  BY <1>3, <1>4, <1>5
<1>8. ASSUME Max(S) > 0 PROVE \E i \in 1..Len(rows) : rows[i] = Max(S)
  <2>1. Max(S) # 0
    BY <1>7, <1>8
  <2>2. Max(S) \in {rows[i] : i \in 1..Len(rows)}
    BY <1>3, <1>5, <2>1
  <2> QED BY <2>2, Zenon
<1> QED BY <1>6, <1>7, <1>8

(* The baseline b is in the history, and n more runs that record something *)
(* lower do not push it out.                                               *)
Kept(rows, b, n) ==
    \E i \in 1..Len(rows) : rows[i] >= b /\ Len(rows) - i + n < Cardinality(Runners)

(* Fewer such runs do not either. *)
LEMMA KeptFromFewer ==
    ASSUME NEW rows \in Seq(0..MaxCount), NEW b, NEW n \in Nat, NEW m \in Nat, m <= n,
           Cardinality(Runners) \in Nat, Kept(rows, b, n)
    PROVE  Kept(rows, b, m)
<1>1. PICK i \in 1..Len(rows) : rows[i] >= b /\ Len(rows) - i + n < Cardinality(Runners)
  BY DEF Kept
<1>2. Len(rows) \in Nat
  BY LenProperties
<1>3. Len(rows) - i + m < Cardinality(Runners)
  BY <1>1, <1>2
<1> QED BY <1>1, <1>3 DEF Kept

(* One of them records its count: one fewer is left. *)
LEMMA KeptAfterLow ==
    ASSUME NEW rows \in Seq(0..MaxCount), Len(rows) <= HistoryLimit, NEW x \in 0..MaxCount,
           NEW b, NEW n \in Nat, n >= 1, FewRunners, Kept(rows, b, n),
           NEW h, h = rowcount_history(Append(rows, x))
    PROVE  Kept(h, b, n - 1)
<1>1. PICK i \in 1..Len(rows) : rows[i] >= b /\ Len(rows) - i + n < Cardinality(Runners)
  BY DEF Kept
<1>2. Len(rows) \in Nat /\ Cardinality(Runners) \in Nat /\ Cardinality(Runners) <= HistoryLimit /\ HistoryLimit \in Nat
  BY LenProperties, FS_CardinalityType, HistoryAssumption DEF FewRunners
<1>3. Len(rows) - i + 1 < HistoryLimit
  BY <1>1, <1>2
<1>4. PICK j \in 1..Len(h) : h[j] = rows[i] /\ Len(h) - j = Len(rows) - i + 1
  <2>1. MovedBack(rows, h)
    BY RecordIs
  <2> QED BY <1>3, <2>1, Zenon DEF MovedBack
<1>5. Len(h) \in Nat
  BY RecordIs
<1>6. Len(h) - j + (n - 1) = Len(rows) - i + n
  <2>1. PICK a, c : a = Len(h) - j /\ c = Len(rows) - i
    OBVIOUS
  <2>2. a \in Int /\ c \in Int /\ a = c + 1
    BY <1>2, <1>4, <1>5, <2>1
  <2>3. a + (n - 1) = c + n
    BY <2>2
  <2> QED BY <2>1, <2>3
<1>7. h[j] >= b /\ Len(h) - j + (n - 1) < Cardinality(Runners)
  BY <1>1, <1>4, <1>6
<1> QED BY <1>7 DEF Kept

(* A run that records at least the baseline puts it at the end. *)
LEMMA KeptAsLast ==
    ASSUME NEW rows \in Seq(0..MaxCount), Len(rows) <= HistoryLimit, NEW x \in 0..MaxCount,
           NEW b, x >= b, NEW n \in Nat, n < Cardinality(Runners),
           NEW h, h = rowcount_history(Append(rows, x))
    PROVE  Kept(h, b, n)
<1>1. Len(h) \in Nat /\ Len(h) >= 1 /\ h[Len(h)] = x
  BY RecordIs
<1>2. Len(h) \in 1..Len(h) /\ Len(h) - Len(h) + n = n
  BY <1>1
<1> QED BY <1>1, <1>2 DEF Kept

(* The highest count after a run has recorded x: x, if it is not lower ... *)
LEMMA HighWaterRises ==
    ASSUME NEW rows \in Seq(0..MaxCount), Len(rows) <= HistoryLimit, NEW x \in 0..MaxCount,
           x >= HighWater(rows), NEW h, h = rowcount_history(Append(rows, x))
    PROVE  HighWater(h) = x
<1>1. /\ h \in Seq(0..MaxCount) /\ Len(h) \in Nat /\ Len(h) >= 1 /\ h[Len(h)] = x
      /\ \A i \in 1..Len(h) : h[i] = x \/ \E j \in 1..Len(rows) : h[i] = rows[j]
  BY RecordIs
<1>2. /\ HighWater(h) \in 0..MaxCount
      /\ \A i \in 1..Len(h) : h[i] <= HighWater(h)
      /\ HighWater(h) > 0 => \E i \in 1..Len(h) : h[i] = HighWater(h)
  BY <1>1, HighWaterIs
<1>3. x <= HighWater(h)
  BY <1>1, <1>2
<1>4. HighWater(rows) \in 0..MaxCount /\ \A j \in 1..Len(rows) : rows[j] <= HighWater(rows)
  BY HighWaterIs
<1>5. ASSUME HighWater(h) > x PROVE FALSE
  <2>1. PICK i \in 1..Len(h) : h[i] = HighWater(h)
    BY <1>2, <1>5
  <2>2. PICK j \in 1..Len(rows) : h[i] = rows[j]
    BY <1>1, <1>2, <1>5, <2>1
  <2> QED BY <1>2, <1>4, <1>5, <2>1, <2>2
<1> QED BY <1>2, <1>3, <1>5

(* ... and otherwise what it was, if that is still in the history. *)
LEMMA HighWaterStays ==
    ASSUME NEW rows \in Seq(0..MaxCount), Len(rows) <= HistoryLimit, NEW x \in 0..MaxCount,
           x < HighWater(rows), NEW h, h = rowcount_history(Append(rows, x)),
           NEW n, Kept(h, HighWater(rows), n)
    PROVE  HighWater(h) = HighWater(rows)
<1>1. /\ h \in Seq(0..MaxCount) /\ Len(h) \in Nat
      /\ \A i \in 1..Len(h) : h[i] = x \/ \E j \in 1..Len(rows) : h[i] = rows[j]
  BY RecordIs
<1>2. /\ HighWater(h) \in 0..MaxCount
      /\ \A i \in 1..Len(h) : h[i] <= HighWater(h)
      /\ HighWater(h) > 0 => \E i \in 1..Len(h) : h[i] = HighWater(h)
  BY <1>1, HighWaterIs
<1>3. HighWater(rows) \in 0..MaxCount /\ \A j \in 1..Len(rows) : rows[j] <= HighWater(rows)
  BY HighWaterIs
<1>4. HighWater(h) >= HighWater(rows)
  <2>1. PICK i \in 1..Len(h) : h[i] >= HighWater(rows)
    BY DEF Kept
  <2>2. h[i] \in 0..MaxCount
    BY <1>1, ElementOfSeq
  <2> QED BY <1>2, <1>3, <2>1, <2>2
<1>5. ASSUME HighWater(h) > HighWater(rows) PROVE FALSE
  <2>1. PICK i \in 1..Len(h) : h[i] = HighWater(h)
    BY <1>2, <1>3, <1>5
  <2>2. HighWater(h) # x
    BY <1>2, <1>3, <1>5
  <2>3. PICK j \in 1..Len(rows) : h[i] = rows[j]
    BY <1>1, <2>1, <2>2
  <2> QED BY <1>2, <1>3, <1>5, <2>1, <2>3
<1> QED BY <1>2, <1>3, <1>4, <1>5

(* A count that is not called low is as high as everything recorded. *)
LEMMA NotLowIs ==
    ASSUME NEW h \in Seq(0..MaxCount), NEW count \in 0..MaxCount, Verdict(count, h) # "low",
           NEW i \in 1..Len(h)
    PROVE  h[i] <= count
<1>1. h # <<>>
  BY EmptySeq, LenProperties
<1>2. ~(count < Floor(h))
  BY <1>1 DEF Verdict
<1>3. Floor(h) \in 0..MaxCount /\ h[i] <= Floor(h) /\ h[i] \in 0..MaxCount
  BY <1>1, FloorIs, ElementOfSeq
<1> QED BY <1>2, <1>3

(* Steps of a run in which it has read the history. *)
RunSteps == {"raw", "fct", "judge", "persist"}

(* The baseline, for given losses, history and recorded floor. *)
LEMMA BaselineIs ==
    /\ Baseline = IF losses = 0 THEN HighWater(dq_results) ELSE lossFloor
    /\ Baseline' = IF losses' = 0 THEN HighWater(dq_results') ELSE lossFloor'
BY DEF Baseline, HighWater

(* The invariant about the history in terms of Kept. *)
LEMMA FloorKeptIs ==
    /\ FloorKept = (~reported /\ Baseline > 0 => Kept(dq_results, Baseline, Cardinality(Unaware)))
    /\ FloorKept' = (~reported' /\ Baseline' > 0 => Kept(dq_results', Baseline', Cardinality(Unaware')))
BY DEF FloorKept, Kept

(* What a step of runner r may do to the facts about its verdict. *)
GateMoves(r, pcAfter, h, count, v, f, code) ==
    /\ dqPc' = [dqPc EXCEPT ![r] = pcAfter]
    /\ history' = [history EXCEPT ![r] = h]
    /\ observed' = [observed EXCEPT ![r] = count]
    /\ verdict' = [verdict EXCEPT ![r] = v]
    /\ failed' = [failed EXCEPT ![r] = f]
    /\ exitCode' = [exitCode EXCEPT ![r] = code]
    /\ UNCHANGED <<losses, lossFloor>>
    /\ pcAfter = "persist" => /\ v # "low" => \A i \in 1..Len(h) : h[i] <= count
                              /\ r \in Gates /\ v # "ok" => f # {}
    /\ code # NoExit => pcAfter = "done"
    /\ r \in Gates /\ code = 0 => f = {}

(* The values of the runners after such a step. *)
LEMMA AfterGateMoves ==
    ASSUME QualityInv, NEW r \in Runners, NEW pcAfter, NEW h, NEW count, NEW v, NEW f, NEW code,
           GateMoves(r, pcAfter, h, count, v, f, code), NEW q \in Runners
    PROVE  /\ dqPc'[q] = IF q = r THEN pcAfter ELSE dqPc[q]
           /\ history'[q] = IF q = r THEN h ELSE history[q]
           /\ observed'[q] = IF q = r THEN count ELSE observed[q]
           /\ verdict'[q] = IF q = r THEN v ELSE verdict[q]
           /\ failed'[q] = IF q = r THEN f ELSE failed[q]
           /\ exitCode'[q] = IF q = r THEN code ELSE exitCode[q]
BY DEF GateMoves, QualityInv, QualityTypeOK

(* The verdicts stay what they say. *)
LEMMA VerdictsMove ==
    ASSUME QualityInv, VerdictsOK, NEW r \in Runners, NEW pcAfter, NEW h, NEW count, NEW v, NEW f, NEW code,
           GateMoves(r, pcAfter, h, count, v, f, code), losses = 0 => ~reported'
    PROVE  VerdictsOK'
<1>1. losses' = 0 => ~reported'
  BY DEF GateMoves
<1>2. ASSUME NEW q \in Runners
      PROVE  /\ dqPc'[q] = "persist" =>
                   /\ verdict'[q] # "low" => \A i \in 1..Len(history'[q]) : history'[q][i] <= observed'[q]
                   /\ q \in Gates /\ verdict'[q] # "ok" => failed'[q] # {}
             /\ exitCode'[q] # NoExit => dqPc'[q] = "done"
             /\ q \in Gates => (exitCode'[q] = 0 => failed'[q] = {})
  <2>1. CASE q = r
    <3>1. /\ dqPc'[q] = pcAfter /\ history'[q] = h /\ observed'[q] = count
          /\ verdict'[q] = v /\ failed'[q] = f /\ exitCode'[q] = code
      BY <2>1, AfterGateMoves
    <3>2. /\ pcAfter = "persist" => /\ v # "low" => \A i \in 1..Len(h) : h[i] <= count
                                    /\ q \in Gates /\ v # "ok" => f # {}
          /\ code # NoExit => pcAfter = "done"
          /\ q \in Gates /\ code = 0 => f = {}
      BY <2>1 DEF GateMoves
    <3> QED BY <3>1, <3>2
  <2>2. CASE q # r
    BY <2>2, AfterGateMoves DEF VerdictsOK
  <2> QED BY <2>1, <2>2
<1>3. \A q \in Gates : exitCode'[q] = 0 => failed'[q] = {}
  BY <1>2, RunnerAssumption
<1> QED BY <1>1, <1>2, <1>3 DEF VerdictsOK

(* As long as the baseline stays, only r can become or stop being unaware. *)
LEMMA UnawareMoves ==
    ASSUME QualityInv, NEW r \in Runners, NEW pcAfter, NEW h, NEW count, NEW v, NEW f, NEW code,
           GateMoves(r, pcAfter, h, count, v, f, code), Baseline' = Baseline
    PROVE  /\ \A q \in Runners : q # r => (q \in Unaware' <=> q \in Unaware)
           /\ r \in Unaware' <=> pcAfter \in RunSteps /\ \A i \in 1..Len(h) : h[i] < Baseline
<1>1. ASSUME NEW q \in Runners, q # r PROVE q \in Unaware' <=> q \in Unaware
  <2>1. dqPc'[q] = dqPc[q] /\ history'[q] = history[q]
    BY <1>1, AfterGateMoves
  <2> QED BY <2>1 DEF Unaware, InFlight
<1>2. r \in Unaware' <=> pcAfter \in RunSteps /\ \A i \in 1..Len(h) : h[i] < Baseline
  <2>1. dqPc'[r] = pcAfter /\ history'[r] = h
    BY AfterGateMoves
  <2> QED BY <2>1 DEF Unaware, InFlight, RunSteps
<1> QED BY <1>1, <1>2

LEMMA UnawareIn == Unaware \in SUBSET Runners /\ Unaware' \in SUBSET Runners
BY DEF Unaware

(* The history is what it was, and no run has become unaware. *)
LEMMA FloorRests ==
    ASSUME QualityInv, FloorKept, FewRunners, Unaware' \subseteq Unaware, Baseline' = Baseline,
           dq_results' = dq_results, reported' = reported
    PROVE  FloorKept'
<1>1. PICK U, V : U = Unaware /\ V = Unaware'
  OBVIOUS
<1>2. U \in SUBSET Runners /\ V \in SUBSET U
  BY <1>1, UnawareIn
<1>3. IsFiniteSet(U) /\ Cardinality(U) \in Nat /\ Cardinality(Runners) \in Nat
  BY <1>2, PartOfFinite DEF FewRunners
<1>4. Cardinality(V) \in Nat /\ Cardinality(V) <= Cardinality(U)
  BY <1>2, <1>3, PartOfFinite
<1>5. ASSUME Kept(dq_results, Baseline, Cardinality(U)) PROVE Kept(dq_results, Baseline, Cardinality(V))
  <2>1. dq_results \in Seq(0..MaxCount)
    BY DEF QualityInv, QualityTypeOK
  <2>2. PICK rows, b : rows = dq_results /\ b = Baseline
    OBVIOUS
  <2> QED BY <1>3, <1>4, <1>5, <2>1, <2>2, KeptFromFewer
<1>6. ~reported' /\ Baseline' > 0 => Kept(dq_results', Baseline', Cardinality(Unaware'))
  BY <1>1, <1>5, FloorKeptIs
<1> QED BY <1>6, FloorKeptIs

(* GateInv, taken apart. *)
LEMMA GateBefore ==
    ASSUME QualityInv, GateInv
    PROVE  /\ losses \in Nat /\ lossFloor \in 0..MaxCount /\ reported \in BOOLEAN /\ sawLoss \subseteq Gates
           /\ VerdictsOK /\ Baseline \in 0..MaxCount
           /\ FewRunners /\ losses <= 1 => FloorKept /\ GatesAware
<1>1. losses \in Nat /\ dq_results \in Seq(0..MaxCount)
  BY DEF QualityInv, QualityTypeOK
<1>2. /\ lossFloor \in 0..MaxCount /\ reported \in BOOLEAN /\ sawLoss \subseteq Gates
      /\ VerdictsOK
      /\ FewRunners /\ losses <= 1 => FloorKept /\ GatesAware
  BY DEF GateInv
<1>3. Baseline \in 0..MaxCount
  BY <1>1, <1>2, HighWaterIs, BaselineIs
<1> QED BY <1>1, <1>2, <1>3

(* A step of runner r that records nothing: it reads the history, goes on  *)
(* with what it has read, or ends without a result.                        *)
QuietMove(r, pcAfter, h, code) ==
    /\ UNCHANGED <<dq_results, reported>>
    /\ sawLoss' \subseteq sawLoss \cup ({r} \cap Gates)
    /\ code # 0
    /\ pcAfter \in RunSteps => \/ h = rowcount_history(dq_results)
                               \/ h = history[r] /\ InFlight(r) /\ sawLoss' = sawLoss

(* What r then has in its history. *)
LEMMA QuietHistory ==
    ASSUME QualityInv, GateInv, FewRunners, losses <= 1, ~reported, Baseline > 0,
           NEW r \in Runners, NEW h, h = rowcount_history(dq_results)
    PROVE  \E i \in 1..Len(h) : h[i] >= Baseline
<1>1. FloorKept
  BY GateBefore
<1>2. Kept(dq_results, Baseline, Cardinality(Unaware))
  BY <1>1, FloorKeptIs
<1>3. h = dq_results
  BY WholeHistory DEF QualityInv, QualityTypeOK
<1> QED BY <1>2, <1>3 DEF Kept

(* Such a step leaves the baseline where it was ... *)
LEMMA QuietFloor ==
    ASSUME QualityInv, GateInv, FewRunners, losses <= 1, NEW r \in Runners, NEW pcAfter, NEW h, NEW count,
           NEW v, NEW f, NEW code, GateMoves(r, pcAfter, h, count, v, f, code), QuietMove(r, pcAfter, h, code),
           h \in Seq(0..MaxCount)
    PROVE  FloorKept'
<1>1. dq_results' = dq_results /\ reported' = reported /\ Baseline' = Baseline /\ FloorKept
  BY BaselineIs, GateBefore DEF QuietMove, GateMoves
<1>2. CASE reported \/ ~(Baseline > 0)
  BY <1>1, <1>2, FloorKeptIs
<1>3. CASE ~reported /\ Baseline > 0
  <2>1. ASSUME r \in Unaware' PROVE r \in Unaware
    <3>1. pcAfter \in RunSteps /\ \A i \in 1..Len(h) : h[i] < Baseline
      BY <1>1, <2>1, UnawareMoves
    <3>2. h # rowcount_history(dq_results)
      <4> SUFFICES ASSUME h = rowcount_history(dq_results) PROVE FALSE
        OBVIOUS
      <4>1. PICK i \in 1..Len(h) : h[i] >= Baseline
        BY <1>3, QuietHistory
      <4>2. h[i] \in 0..MaxCount /\ Baseline \in 0..MaxCount /\ h[i] < Baseline
        BY <3>1, ElementOfSeq, GateBefore
      <4> QED BY <4>1, <4>2
    <3>3. h = history[r] /\ InFlight(r)
      BY <3>1, <3>2 DEF QuietMove
    <3> QED BY <3>1, <3>3 DEF Unaware
  <2>2. Unaware' \subseteq Unaware
    BY <1>1, <2>1, UnawareMoves, UnawareIn
  <2> QED BY <1>1, <2>2, FloorRests
<1> QED BY <1>2, <1>3

(* ... and the gates informed. *)
LEMMA QuietGates ==
    ASSUME QualityInv, GateInv, FewRunners, losses <= 1, NEW r \in Runners, NEW pcAfter, NEW h, NEW count,
           NEW v, NEW f, NEW code, GateMoves(r, pcAfter, h, count, v, f, code), QuietMove(r, pcAfter, h, code)
    PROVE  GatesAware'
<1>1. reported' = reported /\ losses' = losses /\ lossFloor' = lossFloor /\ GatesAware
  BY GateBefore DEF QuietMove, GateMoves
<1> SUFFICES ASSUME losses > 0, ~reported, NEW q \in sawLoss'
             PROVE  /\ InFlight(q)' /\ lossFloor > 0 => \E i \in 1..Len(history'[q]) : history'[q][i] >= lossFloor
                    /\ exitCode'[q] = 0 => observed'[q] >= lossFloor
  BY <1>1 DEF GatesAware
<1>2. q \in Runners /\ Baseline = lossFloor
  <2>1. q \in Gates
    BY GateBefore DEF QuietMove
  <2>2. losses # 0
    BY GateBefore
  <2> QED BY <2>1, <2>2, BaselineIs, RunnerAssumption
<1>3. CASE q # r
  <2>1. q \in sawLoss
    BY <1>3 DEF QuietMove
  <2>2. dqPc'[q] = dqPc[q] /\ history'[q] = history[q] /\ observed'[q] = observed[q] /\ exitCode'[q] = exitCode[q]
    BY <1>2, <1>3, AfterGateMoves
  <2> QED BY <1>1, <2>1, <2>2 DEF GatesAware, InFlight
<1>4. CASE q = r
  <2>1. dqPc'[q] = pcAfter /\ history'[q] = h /\ exitCode'[q] = code /\ code # 0
    BY <1>4, AfterGateMoves DEF QuietMove
  <2>2. ASSUME pcAfter \in RunSteps, lossFloor > 0 PROVE \E i \in 1..Len(h) : h[i] >= lossFloor
    <3>1. CASE h = rowcount_history(dq_results)
      BY <1>2, <2>2, <3>1, QuietHistory
    <3>2. CASE h = history[r] /\ InFlight(r) /\ sawLoss' = sawLoss
      BY <1>1, <1>4, <2>2, <3>2 DEF GatesAware
    <3> QED BY <2>2, <3>1, <3>2 DEF QuietMove
  <2> QED BY <2>1, <2>2 DEF InFlight, RunSteps
<1> QED BY <1>3, <1>4

(* A quiet step keeps the invariant. *)
LEMMA QuietInv ==
    ASSUME QualityInv, GateInv, NEW r \in Runners, NEW pcAfter, NEW h, NEW count,
           NEW v, NEW f, NEW code, GateMoves(r, pcAfter, h, count, v, f, code), QuietMove(r, pcAfter, h, code),
           h \in Seq(0..MaxCount)
    PROVE  GateInv'
<1>1. VerdictsOK'
  BY GateBefore, VerdictsMove DEF QuietMove, VerdictsOK
<1>2. lossFloor' \in 0..MaxCount /\ reported' \in BOOLEAN /\ sawLoss' \subseteq Gates /\ losses' = losses
  BY GateBefore DEF QuietMove, GateMoves
<1>3. ASSUME FewRunners, losses <= 1 PROVE FloorKept' /\ GatesAware'
  BY <1>3, QuietFloor, QuietGates
<1> QED BY <1>1, <1>2, <1>3 DEF GateInv, FewRunners

(* A run that is not over has no exit code. *)
LEMMA NoExitYet ==
    ASSUME QualityInv, GateInv, NEW r \in Runners, dqPc[r] # "done"
    PROVE  exitCode[r] = NoExit /\ NoExit # 0
BY GateBefore DEF VerdictsOK, NoExit

(* The quiet steps of a run. *)
LEMMA ReadHistoryGate ==
    ASSUME QualityInv, GateInv, NEW r \in Runners, ReadHistory(r)
    PROVE  GateInv'
<1>1. PICK h : h = rowcount_history(dq_results)
  OBVIOUS
<1>2. h \in Seq(0..MaxCount)
  BY <1>1, RunnerBefore, HistoryIs
<1>3. exitCode[r] = NoExit /\ NoExit # 0
  BY NoExitYet DEF ReadHistory
<1>4. GateMoves(r, "raw", h, observed[r], verdict[r], failed[r], exitCode[r])
  BY <1>1, <1>3, SameRun DEF ReadHistory, GateMoves, dqEnv
<1>5. QuietMove(r, "raw", h, exitCode[r])
  BY <1>1, <1>3 DEF ReadHistory, QuietMove
<1> QED BY <1>2, <1>4, <1>5, QuietInv

LEMMA ValidateRawGate ==
    ASSUME QualityInv, GateInv, NEW r \in Runners, ValidateRaw(r)
    PROVE  GateInv'
<1>1. PICK f : failed' = [failed EXCEPT ![r] = f]
  BY DEF ValidateRaw
<1>2. exitCode[r] = NoExit /\ NoExit # 0
  BY NoExitYet DEF ValidateRaw
<1>3. GateMoves(r, "fct", history[r], observed[r], verdict[r], f, exitCode[r])
  BY <1>1, <1>2, SameRun DEF ValidateRaw, GateMoves, dqEnv
<1>4. QuietMove(r, "fct", history[r], exitCode[r])
  BY <1>2 DEF ValidateRaw, QuietMove, InFlight
<1>5. history[r] \in Seq(0..MaxCount)
  BY RunnerBefore
<1> QED BY <1>3, <1>4, <1>5, QuietInv

LEMMA ValidateFctGate ==
    ASSUME QualityInv, GateInv, NEW r \in Runners, ValidateFct(r)
    PROVE  GateInv'
<1>1. exitCode[r] = NoExit /\ NoExit # 0
  BY NoExitYet DEF ValidateFct
<1>2. GateMoves(r, "judge", history[r], fct_rides, verdict[r], failed[r], exitCode[r])
  BY <1>1, SameRun DEF ValidateFct, GateMoves, dqEnv
<1>3. QuietMove(r, "judge", history[r], exitCode[r])
  BY <1>1 DEF ValidateFct, QuietMove, InFlight
<1>4. history[r] \in Seq(0..MaxCount)
  BY RunnerBefore
<1> QED BY <1>2, <1>3, <1>4, QuietInv

LEMMA JudgeGate ==
    ASSUME QualityInv, GateInv, NEW r \in Runners, Judge(r)
    PROVE  GateInv'
<1>1. PICK v : v = Verdict(observed[r], history[r])
  OBVIOUS
<1>2. PICK f : f = IF v = "ok" \/ r \notin Gates THEN failed[r] ELSE failed[r] \cup {"fct_rides"}
  OBVIOUS
<1>3. /\ dqPc[r] = "judge" /\ dqPc' = [dqPc EXCEPT ![r] = "persist"]
      /\ verdict' = [verdict EXCEPT ![r] = v] /\ failed' = [failed EXCEPT ![r] = f]
      /\ UNCHANGED <<losses, lossFloor, history, observed, dq_results, exitCode, sawLoss, reported>>
  BY <1>1, <1>2 DEF Judge, JudgedBy, dqEnv
<1>4. exitCode[r] = NoExit /\ NoExit # 0
  BY <1>3, NoExitYet
<1>5. history[r] \in Seq(0..MaxCount) /\ observed[r] \in 0..MaxCount
  BY RunnerBefore
<1>6. v # "low" => \A i \in 1..Len(history[r]) : history[r][i] <= observed[r]
  BY <1>1, <1>5, NotLowIs
<1>7. r \in Gates /\ v # "ok" => f # {}
  BY <1>2
<1>8. GateMoves(r, "persist", history[r], observed[r], v, f, exitCode[r])
  BY <1>3, <1>4, <1>6, <1>7, SameRun DEF GateMoves
<1>9. QuietMove(r, "persist", history[r], exitCode[r])
  BY <1>3, <1>4 DEF QuietMove, InFlight
<1> QED BY <1>5, <1>8, <1>9, QuietInv

LEMMA DqCrashGate ==
    ASSUME QualityInv, GateInv, NEW r \in Runners, DqCrash(r)
    PROVE  GateInv'
<1>1. Forget(r) /\ UNCHANGED <<losses, lossFloor, dq_results, sawLoss, reported>> /\ (StartOver(r) \/ Exit(r, 1))
  BY DEF DqCrash, dqEnv
<1>2. exitCode[r] = NoExit /\ NoExit # 0
  BY NoExitYet DEF DqCrash
<1>3. <<>> \in Seq(0..MaxCount)
  OBVIOUS
<1>4. CASE StartOver(r)
  <2>1. GateMoves(r, "history", <<>>, 0, "ok", {}, exitCode[r])
    BY <1>1, <1>2, <1>4, SameRun DEF StartOver, Forget, GateMoves
  <2>2. QuietMove(r, "history", <<>>, exitCode[r])
    BY <1>1, <1>2 DEF QuietMove, RunSteps
  <2> QED BY <1>3, <2>1, <2>2, QuietInv
<1>5. CASE Exit(r, 1)
  <2>1. GateMoves(r, "done", <<>>, observed[r], "ok", failed[r], 1)
    BY <1>1, <1>5, SameRun DEF Exit, Forget, GateMoves
  <2>2. QuietMove(r, "done", <<>>, 1)
    BY <1>1 DEF QuietMove, RunSteps
  <2> QED BY <1>3, <2>1, <2>2, QuietInv
<1> QED BY <1>1, <1>4, <1>5

(* The table grows: nothing that a run knows has changed. *)
LEMMA GrowGate ==
    ASSUME QualityInv, GateInv, Grow
    PROVE  GateInv'
<1>1. UNCHANGED <<lossFloor, losses, history, observed, verdict, failed, dq_results, dqPc, exitCode, sawLoss, reported>>
  BY DEF Grow, dqRun
<1> QED BY <1>1 DEF GateInv, VerdictsOK, FloorKept, GatesAware, Unaware, InFlight, Baseline, FewRunners

(* Rows are lost.  The first time, the floor that the loss goes below is   *)
(* the baseline that the history holds.                                    *)
LEMMA LoseGate ==
    ASSUME QualityInv, GateInv, Lose
    PROVE  GateInv'
<1>1. /\ UNCHANGED <<history, observed, verdict, failed, dq_results, dqPc, exitCode>>
      /\ losses' = losses + 1 /\ lossFloor' = HighWater(dq_results) /\ sawLoss' = {} /\ reported' = FALSE
  BY DEF Lose, dqRun, HighWater
<1>2. losses \in Nat /\ dq_results \in Seq(0..MaxCount)
  BY DEF QualityInv, QualityTypeOK
<1>3. lossFloor' \in 0..MaxCount
  BY <1>1, <1>2, HighWaterIs
<1>4. VerdictsOK'
  BY <1>1, GateBefore DEF VerdictsOK
<1>5. ASSUME FewRunners, losses' <= 1 PROVE FloorKept' /\ GatesAware'
  <2>1. losses = 0 /\ losses' # 0
    BY <1>1, <1>2, <1>5
  <2>2. Baseline' = Baseline
    BY <1>1, <2>1, BaselineIs
  <2>3. FloorKept /\ ~reported
    BY <1>5, <2>1, GateBefore DEF VerdictsOK
  <2>4. Unaware' = Unaware
    BY <1>1, <2>2 DEF Unaware, InFlight
  <2>5. FloorKept'
    BY <1>1, <2>2, <2>3, <2>4, FloorKeptIs
  <2>6. GatesAware'
    BY <1>1 DEF GatesAware
  <2> QED BY <2>5, <2>6
<1> QED BY <1>1, <1>3, <1>4, <1>5 DEF GateInv, FewRunners

(* Where the runners start, and when they rest. *)
LEMMA GateInitInv == QualityInit => GateInv
<1> SUFFICES ASSUME QualityInit PROVE GateInv
  OBVIOUS
<1>1. <<>> \in Seq(0..MaxCount) /\ Len(<<>>) = 0 /\ 0 \in 0..MaxCount
  BY HistoryAssumption
<1>2. VerdictsOK
  BY RunnerAssumption DEF QualityInit, VerdictsOK, NoExit
<1>3. Baseline = 0
  <2>1. Baseline = HighWater(<<>>)
    BY BaselineIs DEF QualityInit
  <2>2. PICK rows : rows = <<>>
    OBVIOUS
  <2>3. rows \in Seq(0..MaxCount) /\ Len(rows) = 0
    BY <1>1, <2>2
  <2>4. HighWater(rows) \in 0..MaxCount /\ (HighWater(rows) > 0 => \E i \in 1..Len(rows) : rows[i] = HighWater(rows))
    BY <2>3, HighWaterIs
  <2>5. ~(HighWater(rows) > 0)
    BY <2>3, <2>4
  <2>6. HighWater(rows) = 0
    BY <2>4, <2>5, HistoryAssumption
  <2> QED BY <2>1, <2>2, <2>6
<1>4. FloorKept
  <2>1. ~(Baseline > 0)
    BY <1>3
  <2> QED BY <2>1 DEF FloorKept
<1>5. GatesAware
  BY DEF QualityInit, GatesAware
<1> QED BY <1>1, <1>2, <1>4, <1>5 DEF QualityInit, GateInv

LEMMA GateRests ==
    ASSUME GateInv, UNCHANGED qualityVars
    PROVE  GateInv'
<1>1. UNCHANGED <<lossFloor, losses, history, observed, verdict, failed, dq_results, dqPc, exitCode, sawLoss, reported>>
  BY DEF qualityVars, dqEnv, dqRun
<1> QED BY <1>1 DEF GateInv, VerdictsOK, FloorKept, GatesAware, Unaware, InFlight, Baseline, FewRunners

(* A run ends with a result: what becomes of its verdict. *)
LEMMA PersistMoves ==
    ASSUME QualityInv, GateInv, NEW r \in Runners, Persist(r)
    PROVE  \E pcAfter, count, f, code :
              /\ pcAfter \in {"history", "done"}
              /\ GateMoves(r, pcAfter, <<>>, count, "ok", f, code)
              /\ code = 0 => count = observed[r] /\ failed[r] = {}
<1>1. dqPc[r] = "persist" /\ Forget(r) /\ UNCHANGED <<losses, lossFloor>> /\ (StartOver(r) \/ Exit(r, ExitCode(r)))
  BY DEF Persist, dqEnv
<1>2. exitCode[r] = NoExit /\ NoExit # 0
  BY <1>1, NoExitYet
<1>3. CASE StartOver(r)
  <2>1. GateMoves(r, "history", <<>>, 0, "ok", {}, exitCode[r])
    BY <1>1, <1>2, <1>3, SameRun DEF StartOver, Forget, GateMoves
  <2> QED BY <1>2, <2>1
<1>4. CASE Exit(r, ExitCode(r))
  <2>1. PICK code : code = ExitCode(r)
    OBVIOUS
  <2>2. code = 0 => failed[r] = {}
    BY <2>1 DEF ExitCode
  <2>3. GateMoves(r, "done", <<>>, observed[r], "ok", failed[r], code)
    BY <1>1, <1>4, <2>1, <2>2, SameRun DEF Exit, Forget, GateMoves
  <2> QED BY <2>2, <2>3
<1> QED BY <1>1, <1>3, <1>4

(* A recorded count leaves the baseline in the history: it is not below    *)
(* the baseline, or it is the count of a run that is unaware of it, and    *)
(* that run is now over.                                                   *)
LEMMA PersistFloor ==
    ASSUME QualityInv, GateInv, FewRunners, losses <= 1, NEW r \in Runners, Persist(r)
    PROVE  FloorKept'
<1>1. /\ dqPc[r] = "persist" /\ losses' = losses /\ lossFloor' = lossFloor
      /\ dq_results' = rowcount_history(Append(dq_results, observed[r]))
      /\ ~reported' => ~reported /\ verdict[r] # "low"
  BY DEF Persist, dqEnv
<1> SUFFICES ASSUME ~reported', Baseline' > 0 PROVE Kept(dq_results', Baseline', Cardinality(Unaware'))
  BY FloorKeptIs
<1>2. PICK rows, h, x, b, c, U, V : /\ rows = dq_results /\ h = dq_results' /\ x = observed[r]
                                    /\ b = Baseline /\ c = Baseline' /\ U = Unaware /\ V = Unaware'
  OBVIOUS
<1>3. /\ rows \in Seq(0..MaxCount) /\ Len(rows) <= HistoryLimit /\ x \in 0..MaxCount
      /\ h = rowcount_history(Append(rows, x))
  BY <1>1, <1>2, RunnerBefore, SameRun
<1>4. b \in 0..MaxCount /\ b = (IF losses = 0 THEN HighWater(rows) ELSE lossFloor)
  BY <1>2, GateBefore, BaselineIs
<1>5. c = (IF losses = 0 THEN HighWater(h) ELSE lossFloor)
  BY <1>1, <1>2, BaselineIs
<1>6. PICK pcAfter, count, f, code : pcAfter \in {"history", "done"} /\ GateMoves(r, pcAfter, <<>>, count, "ok", f, code)
  BY PersistMoves
<1>7. U \in SUBSET Runners /\ V \in SUBSET Runners /\ r \notin V
  <2>1. ~InFlight(r)'
    BY <1>6, AfterGateMoves DEF InFlight
  <2> QED BY <1>2, <2>1, UnawareIn DEF Unaware
<1>8. /\ Cardinality(Runners) \in Nat /\ IsFiniteSet(U) /\ Cardinality(U) \in Nat
      /\ Cardinality(V) \in Nat /\ Cardinality(V) < Cardinality(Runners)
  BY <1>7, PartOfFinite DEF FewRunners
<1>9. CASE x >= b
  <2>1. x >= c
    <3>1. CASE losses = 0
      <4>1. HighWater(h) = x
        BY <1>3, <1>4, <1>9, <3>1, HighWaterRises
      <4> QED BY <1>3, <1>5, <3>1, <4>1
    <3>2. CASE losses # 0
      BY <1>4, <1>5, <1>9, <3>2
    <3> QED BY <3>1, <3>2
  <2> QED BY <1>2, <1>3, <1>8, <2>1, KeptAsLast
<1>10. CASE x < b
  <2>1. FloorKept /\ ~reported /\ b > 0
    BY <1>1, <1>3, <1>4, <1>10, GateBefore
  <2>2. Kept(rows, b, Cardinality(U))
    BY <1>2, <2>1, FloorKeptIs
  <2>3. r \in U
    <3>1. \A i \in 1..Len(history[r]) : history[r][i] <= x
      BY <1>1, <1>2, GateBefore DEF VerdictsOK
    <3>2. \A i \in 1..Len(history[r]) : history[r][i] \in 0..MaxCount
      BY RunnerBefore
    <3>3. \A i \in 1..Len(history[r]) : history[r][i] < b
      BY <1>3, <1>4, <1>10, <3>1, <3>2
    <3> QED BY <1>1, <1>2, <3>3 DEF Unaware, InFlight
  <2>4. Cardinality(U \ {r}) = Cardinality(U) - 1 /\ Cardinality(U \ {r}) \in Nat
    BY <1>8, <2>3, FS_RemoveElement, FS_CardinalityType
  <2>5. Kept(h, b, Cardinality(U) - 1)
    <3>1. Cardinality(U) >= 1
      BY <1>8, <2>4
    <3> QED BY <1>3, <1>8, <2>2, <3>1, KeptAfterLow
  <2>6. c = b
    <3>1. CASE losses = 0
      BY <1>3, <1>4, <1>5, <1>10, <2>5, <3>1, HighWaterStays
    <3>2. CASE losses # 0
      BY <1>4, <1>5, <3>2
    <3> QED BY <3>1, <3>2
  <2>7. V = U \ {r}
    <3>1. Baseline' = Baseline
      BY <1>2, <2>6
    <3>2. \A q \in Runners : q # r => (q \in V <=> q \in U)
      BY <1>2, <1>6, <3>1, UnawareMoves
    <3> QED BY <1>7, <3>2
  <2> QED BY <1>2, <2>4, <2>5, <2>6, <2>7
<1> QED BY <1>3, <1>4, <1>9, <1>10

(* A gate that passes without a reported loss has seen the baseline. *)
LEMMA PersistGates ==
    ASSUME QualityInv, GateInv, FewRunners, losses <= 1, NEW r \in Runners, Persist(r)
    PROVE  GatesAware'
<1>1. /\ dqPc[r] = "persist" /\ losses' = losses /\ lossFloor' = lossFloor /\ sawLoss' = sawLoss
      /\ ~reported' => ~reported /\ verdict[r] # "low"
  BY DEF Persist, dqEnv
<1>2. GatesAware /\ sawLoss \subseteq Runners /\ lossFloor \in 0..MaxCount
  BY GateBefore, RunnerAssumption
<1>3. PICK pcAfter, count, f, code :
         /\ pcAfter \in {"history", "done"}
         /\ GateMoves(r, pcAfter, <<>>, count, "ok", f, code)
         /\ code = 0 => count = observed[r] /\ failed[r] = {}
  BY PersistMoves
<1> SUFFICES ASSUME losses > 0, ~reported', NEW q \in sawLoss
             PROVE  /\ InFlight(q)' /\ lossFloor > 0 => \E i \in 1..Len(history'[q]) : history'[q][i] >= lossFloor
                    /\ exitCode'[q] = 0 => observed'[q] >= lossFloor
  BY <1>1 DEF GatesAware
<1>4. CASE q # r
  <2>1. dqPc'[q] = dqPc[q] /\ history'[q] = history[q] /\ observed'[q] = observed[q] /\ exitCode'[q] = exitCode[q]
    BY <1>2, <1>3, <1>4, AfterGateMoves
  <2> QED BY <1>1, <1>2, <2>1 DEF GatesAware, InFlight
<1>5. CASE q = r
  <2>1. dqPc'[q] = pcAfter /\ observed'[q] = count /\ exitCode'[q] = code
    BY <1>3, <1>5, AfterGateMoves
  <2>2. ASSUME code = 0 PROVE count >= lossFloor
    <3>1. count = observed[r] /\ failed[r] = {} /\ count \in 0..MaxCount
      BY <1>3, <2>2, RunnerBefore
    <3>2. \A i \in 1..Len(history[r]) : history[r][i] <= count
      BY <1>1, <3>1, GateBefore DEF VerdictsOK
    <3>3. lossFloor > 0 => \E i \in 1..Len(history[r]) : history[r][i] >= lossFloor
      BY <1>1, <1>2, <1>5 DEF GatesAware, InFlight
    <3>4. \A i \in 1..Len(history[r]) : history[r][i] \in 0..MaxCount
      BY RunnerBefore
    <3> QED BY <1>2, <3>1, <3>2, <3>3, <3>4
  <2> QED BY <1>3, <2>1, <2>2 DEF InFlight
<1> QED BY <1>4, <1>5

(* A recorded result keeps the invariant. *)
LEMMA PersistGate ==
    ASSUME QualityInv, GateInv, NEW r \in Runners, Persist(r)
    PROVE  GateInv'
<1>1. /\ dqPc[r] = "persist" /\ losses' = losses /\ lossFloor' = lossFloor /\ sawLoss' = sawLoss
      /\ reported' = (reported \/ verdict[r] = "low")
  BY DEF Persist, dqEnv
<1>2. losses = 0 => ~reported'
  <2>1. verdict[r] = "low" => losses > 0
    BY <1>1 DEF QualityInv, AlarmsAreReal
  <2> QED BY <1>1, <2>1, GateBefore DEF VerdictsOK
<1>3. VerdictsOK'
  BY <1>2, GateBefore, PersistMoves, VerdictsMove
<1>4. ASSUME FewRunners, losses <= 1 PROVE FloorKept' /\ GatesAware'
  BY <1>4, PersistFloor, PersistGates
<1>5. lossFloor' \in 0..MaxCount /\ reported' \in BOOLEAN /\ sawLoss' \subseteq Gates
  BY <1>1, GateBefore
<1> QED BY <1>1, <1>3, <1>4, <1>5 DEF GateInv, FewRunners

(* Every step of the runners or the table. *)
LEMMA QualityGate ==
    ASSUME QualityInv, GateInv, QualityNext
    PROVE  GateInv'
<1>1. CASE Grow \/ Lose
  BY <1>1, GrowGate, LoseGate
<1>2. CASE \E r \in Runners : RunnerStep(r) \/ DqCrash(r)
  <2>1. PICK r \in Runners : RunnerStep(r) \/ DqCrash(r)
    BY <1>2
  <2> QED BY <2>1, ReadHistoryGate, ValidateRawGate, ValidateFctGate, JudgeGate, PersistGate, DqCrashGate
          DEF RunnerStep
<1> QED BY <1>1, <1>2 DEF QualityNext

-----------------------------------------------------------------------------
(* The lag exporter. *)

(* Where a group stands, before and after a step. *)
Position(g, p, c, s) == IF g # PgGroup THEN c[g][p] ELSE IF s[p] = NoneYet THEN NoneYet ELSE s[p] + 1

(* The position of a group on a partition, clamped as the probe does. *)
Clamped(next) == IF next = NoneYet THEN 0 ELSE next

(* NextOf is a position, and between nothing and the end of the log. *)
LEMMA NextIs ==
    ASSUME LagInv, NEW g \in Groups, NEW p \in Parts
    PROVE  /\ NextOf(g, p) = Position(g, p, committed, stored)
           /\ NextOf(g, p) \in Int /\ NextOf(g, p) >= -1 /\ NextOf(g, p) <= Len(offsets[p])
           /\ Len(offsets[p]) \in Nat /\ Len(offsets[p]) <= MaxOffsets[p] /\ MaxOffsets[p] \in Nat
           /\ ends[p] \in Nat /\ ends[p] <= MaxOffsets[p]
<1>1. LagTypeOK /\ BooksOK
  BY DEF LagInv
<1>2. Len(offsets[p]) \in Nat /\ Len(offsets[p]) <= MaxOffsets[p] /\ MaxOffsets[p] \in Nat
  <2>1. offsets[p] \in Seq(BOOLEAN)
    BY <1>1 DEF LagTypeOK
  <2> QED BY <1>1, <2>1, LenProperties, SubscriptionAssumption DEF BooksOK
<1>3. ends[p] \in Nat /\ ends[p] <= MaxOffsets[p]
  BY <1>1, <1>2 DEF LagTypeOK
<1>4. NextOf(g, p) = Position(g, p, committed, stored)
  BY DEF NextOf, Position
<1>5. CASE g # PgGroup
  <2>1. committed[g][p] \in NoneYet..Len(offsets[p])
    BY <1>1, <1>5 DEF LagTypeOK
  <2> QED BY <1>2, <1>3, <1>4, <1>5, <2>1 DEF Position, NoneYet
<1>6. CASE g = PgGroup
  <2>1. stored[p] \in NoneYet..(Len(offsets[p]) - 1)
    BY <1>1 DEF LagTypeOK
  <2> QED BY <1>2, <1>3, <1>4, <1>6, <2>1 DEF Position, NoneYet
<1> QED BY <1>5, <1>6

(* NextOf after a step. *)
LEMMA NextAfter ==
    ASSUME NEW g, NEW p
    PROVE  NextOf(g, p)' = Position(g, p, committed', stored')
BY DEF NextOf, Position

(* A partition was probed at some step. *)
LEMMA ProbedAt ==
    ASSUME NEW p \in Parts
    PROVE  /\ \E k \in 1..Probes : WatchedParts[k] = p
           /\ Probes \in Nat /\ Asked \in Nat
<1>1. Probes \in Nat /\ Asked \in Nat /\ DOMAIN WatchedParts = 1..Probes
  BY SubscriptionAssumption, LenProperties DEF Probes, Asked
<1>2. p \in {WatchedParts[k] : k \in 1..Probes}
  BY <1>1 DEF Parts, ToSet
<1> QED BY <1>1, <1>2

(* What the probes say of a group and a partition. *)
LEMMA ProbesSay ==
    ASSUME LagInv, ~stale, NEW k \in 1..Probes, k <= lagStep, NEW g \in Groups, NEW p, p = WatchedParts[k]
    PROVE  atProbe[g][p] >= 0 /\ atProbe[g][p] >= ends[p] - Clamped(NextOf(g, p))
BY DEF LagInv, ProbesOK, Clamped

(* Steps of the world move positions forward only, unless it is a reset;   *)
(* what the exporter has been told stays true.                             *)
LEMMA WorldMoves ==
    ASSUME LagInv, LagTypeOK', BooksOK', UNCHANGED lagCycle,
           stale' \/ (stale' = stale /\ \A g \in Groups : \A p \in Parts :
              /\ Position(g, p, committed', stored') \in Int
              /\ Position(g, p, committed', stored') >= NextOf(g, p))
    PROVE  LagInv'
<1>1. UNCHANGED <<lagStep, ends, samples, atProbe>>
  BY DEF lagCycle
<1>2. ASSUME ~stale', NEW k \in 1..Probes, k <= lagStep, NEW g \in Groups, NEW p, p = WatchedParts[k]
      PROVE  /\ atProbe[g][p] >= 0
             /\ atProbe[g][p] >= ends[p] - Clamped(Position(g, p, committed', stored'))
  <2>1. p \in Parts
    BY <1>2, SubscriptionAssumption, ElementOfSeq DEF Probes
  <2>2. atProbe[g][p] >= 0 /\ atProbe[g][p] >= ends[p] - Clamped(NextOf(g, p))
    BY <1>2, ProbesSay
  <2>3. /\ NextOf(g, p) \in Int /\ NextOf(g, p) >= -1 /\ ends[p] \in Nat /\ atProbe[g][p] \in Int
        /\ Position(g, p, committed', stored') \in Int
        /\ Position(g, p, committed', stored') >= NextOf(g, p)
    BY <1>2, <2>1, NextIs DEF LagInv, BooksOK
  <2> QED BY <2>2, <2>3 DEF Clamped, NoneYet
<1>3. ProbesOK'
  <2>1. lagStep' <= Probes => samples' = NoLag
    BY <1>1 DEF LagInv, ProbesOK
  <2>2. ASSUME ~stale', NEW k \in 1..Probes, k <= lagStep', NEW g \in Groups
        PROVE  /\ atProbe'[g][WatchedParts[k]] >= 0
               /\ atProbe'[g][WatchedParts[k]] >= ends'[WatchedParts[k]] -
                    (IF NextOf(g, WatchedParts[k])' = NoneYet THEN 0 ELSE NextOf(g, WatchedParts[k])')
    BY <1>1, <1>2, <2>2, NextAfter DEF Clamped
  <2> QED BY <2>1, <2>2 DEF ProbesOK, NoLag
<1>4. SamplesAreHonest'
  <2>1. ASSUME ~stale', NEW g \in Groups, NEW p \in Parts, samples[g][p] # NoneYet
        PROVE  /\ samples[g][p] <= atProbe[g][p]
               /\ samples[g][p] >= ends[p] - Position(g, p, committed', stored')
    <3>1. samples[g][p] <= atProbe[g][p] /\ samples[g][p] >= ends[p] - NextOf(g, p)
      BY <2>1 DEF LagInv, SamplesAreHonest
    <3>2. /\ NextOf(g, p) \in Int /\ ends[p] \in Nat /\ samples[g][p] \in Int
          /\ Position(g, p, committed', stored') \in Int
          /\ Position(g, p, committed', stored') >= NextOf(g, p)
      BY <2>1, NextIs DEF LagInv, BooksOK
    <3> QED BY <3>1, <3>2
  <2> QED BY <1>1, <2>1, NextAfter DEF SamplesAreHonest
<1> QED BY <1>3, <1>4 DEF LagInv

(* A message, or a transaction, is written. *)
LEMMA ProduceToInv ==
    ASSUME LagInv, NEW q \in Parts, ProduceTo(q)
    PROVE  LagInv'
<1>1. PICK batch \in {<<TRUE>>, <<TRUE, FALSE>>, <<FALSE, FALSE>>} :
         /\ Len(offsets[q]) + Len(batch) <= MaxOffsets[q]
         /\ offsets' = [offsets EXCEPT ![q] = offsets[q] \o batch]
  BY DEF ProduceTo
<1>2. UNCHANGED <<committed, stored, lagStep, ends, samples, atProbe, lagGauge, stale>>
  BY DEF ProduceTo, lagCycle
<1>3. LagTypeOK /\ BooksOK
  BY DEF LagInv
<1>4. batch \in Seq(BOOLEAN) /\ Len(batch) \in Nat /\ offsets[q] \in Seq(BOOLEAN)
  <2>1. batch = <<TRUE>> \/ batch = <<TRUE, FALSE>> \/ batch = <<FALSE, FALSE>>
    BY <1>1
  <2>2. <<TRUE>> \in Seq(BOOLEAN) /\ <<TRUE, FALSE>> \in Seq(BOOLEAN) /\ <<FALSE, FALSE>> \in Seq(BOOLEAN)
    OBVIOUS
  <2>3. batch \in Seq(BOOLEAN)
    BY <2>1, <2>2, Zenon
  <2>4. offsets[q] \in Seq(BOOLEAN)
    BY <1>3 DEF LagTypeOK
  <2> QED BY <2>3, <2>4, LenProperties
<1>5. offsets[q] \o batch \in Seq(BOOLEAN) /\ Len(offsets[q] \o batch) = Len(offsets[q]) + Len(batch)
  BY <1>4, ConcatProperties
<1>6. ASSUME NEW p \in Parts
      PROVE  /\ offsets'[p] \in Seq(BOOLEAN) /\ Len(offsets[p]) \in Nat /\ Len(offsets'[p]) \in Nat
             /\ Len(offsets'[p]) >= Len(offsets[p]) /\ Len(offsets'[p]) <= MaxOffsets[p]
  <2>1. offsets[p] \in Seq(BOOLEAN) /\ Len(offsets[p]) \in Nat /\ Len(offsets[p]) <= MaxOffsets[p]
    BY <1>3, LenProperties DEF LagTypeOK, BooksOK
  <2>2. CASE p = q
    <3>1. offsets'[p] = offsets[q] \o batch
      BY <1>1, <1>3, <2>2 DEF LagTypeOK
    <3>2. Len(offsets'[p]) = Len(offsets[p]) + Len(batch) /\ offsets'[p] \in Seq(BOOLEAN)
      BY <1>5, <2>2, <3>1
    <3>3. Len(offsets[p]) + Len(batch) <= MaxOffsets[p]
      BY <1>1, <2>2
    <3> QED BY <1>4, <2>1, <3>2, <3>3
  <2>3. CASE p # q
    <3>1. offsets'[p] = offsets[p]
      BY <1>1, <1>3, <2>3 DEF LagTypeOK
    <3> QED BY <2>1, <3>1
  <2> QED BY <2>2, <2>3
<1>7. LagTypeOK'
  <2>1. offsets' \in [Parts -> Seq(BOOLEAN)]
    BY <1>1, <1>3, <1>5 DEF LagTypeOK
  <2>2. \A g \in Groups \ {PgGroup} : \A p \in Parts : committed'[g][p] \in NoneYet..Len(offsets'[p])
    <3> SUFFICES ASSUME NEW g \in Groups \ {PgGroup}, NEW p \in Parts
                 PROVE  committed[g][p] \in NoneYet..Len(offsets'[p])
      BY <1>2
    <3>1. committed[g][p] \in NoneYet..Len(offsets[p])
      BY <1>3 DEF LagTypeOK
    <3> QED BY <1>6, <3>1 DEF NoneYet
  <2>3. \A p \in Parts : stored'[p] \in NoneYet..(Len(offsets'[p]) - 1)
    <3> SUFFICES ASSUME NEW p \in Parts PROVE stored[p] \in NoneYet..(Len(offsets'[p]) - 1)
      BY <1>2
    <3>1. stored[p] \in NoneYet..(Len(offsets[p]) - 1)
      BY <1>3 DEF LagTypeOK
    <3> QED BY <1>6, <3>1 DEF NoneYet
  <2> QED BY <1>2, <1>3, <2>1, <2>2, <2>3 DEF LagTypeOK
<1>8. BooksOK'
  BY <1>2, <1>3, <1>6 DEF BooksOK
<1>9. \A g \in Groups : \A p \in Parts : /\ Position(g, p, committed', stored') \in Int
                                         /\ Position(g, p, committed', stored') >= NextOf(g, p)
  <2> SUFFICES ASSUME NEW g \in Groups, NEW p \in Parts
               PROVE  /\ Position(g, p, committed', stored') \in Int
                      /\ Position(g, p, committed', stored') >= NextOf(g, p)
    OBVIOUS
  <2>1. Position(g, p, committed', stored') = NextOf(g, p) /\ NextOf(g, p) \in Int
    BY <1>2, NextIs
  <2> QED BY <2>1
<1> QED BY <1>2, <1>7, <1>8, <1>9, WorldMoves DEF lagCycle

(* A group processes a message and commits. *)
LEMMA ProgressInv ==
    ASSUME LagInv, NEW f \in Groups, NEW q \in Parts, Progress(f, q)
    PROVE  LagInv'
<1>1. PICK n : n = NextOf(f, q)
  OBVIOUS
<1>2. PICK from, given : from = Max({0, n}) /\ given = {o \in from..(Len(offsets[q]) - 1) : offsets[q][o + 1]}
  OBVIOUS
<1>3. PICK m : m = Min(given)
  OBVIOUS
<1>4. /\ given # {}
      /\ IF f = PgGroup THEN stored' = [stored EXCEPT ![q] = m] /\ committed' = committed
                        ELSE committed' = [committed EXCEPT ![f][q] = m + 1] /\ stored' = stored
      /\ UNCHANGED <<offsets, lagStep, ends, samples, atProbe, lagGauge, stale>>
  BY <1>1, <1>2, <1>3 DEF Progress, lagCycle
<1>5. LagTypeOK /\ BooksOK
  BY DEF LagInv
<1>6. /\ n \in Int /\ n >= -1 /\ Len(offsets[q]) \in Nat
      /\ n = Position(f, q, committed, stored)
  BY <1>1, NextIs
<1>7. from \in Nat /\ from >= n
  <2>1. Max({0, n}) = IF 0 >= n THEN 0 ELSE n
    BY <1>6, MaxOfTwo
  <2> QED BY <1>2, <1>6, <2>1
<1>8. m \in Nat /\ m >= n /\ m <= Len(offsets[q]) - 1
  <2>1. given \in SUBSET Nat /\ \A o \in given : o >= from /\ o <= Len(offsets[q]) - 1
    BY <1>2, <1>6, <1>7
  <2>2. m \in given
    BY <1>3, <1>4, <2>1, MinIsLeast
  <2> QED BY <1>6, <1>7, <2>1, <2>2
<1>9. CASE f = PgGroup
  <2>1. stored' = [stored EXCEPT ![q] = m] /\ committed' = committed
    BY <1>4, <1>9
  <2>2. \A p \in Parts : stored'[p] = IF p = q THEN m ELSE stored[p]
    BY <1>5, <2>1 DEF BooksOK
  <2>3. LagTypeOK'
    <3>1. ASSUME NEW p \in Parts PROVE stored'[p] \in NoneYet..(Len(offsets[p]) - 1)
      <4>1. stored[p] \in NoneYet..(Len(offsets[p]) - 1)
        BY <1>5 DEF LagTypeOK
      <4>2. m \in NoneYet..(Len(offsets[q]) - 1)
        BY <1>6, <1>8 DEF NoneYet
      <4> QED BY <2>2, <4>1, <4>2
    <3> QED BY <1>4, <1>5, <2>1, <3>1 DEF LagTypeOK
  <2>4. BooksOK'
    BY <1>4, <1>5, <1>8, <2>1 DEF BooksOK
  <2>5. ASSUME NEW g \in Groups, NEW p \in Parts
        PROVE  /\ Position(g, p, committed', stored') \in Int
               /\ Position(g, p, committed', stored') >= NextOf(g, p)
    <3>1. NextOf(g, p) = Position(g, p, committed, stored) /\ NextOf(g, p) \in Int
      BY NextIs
    <3>2. CASE g = PgGroup /\ p = q
      <4>1. Position(g, p, committed', stored') = m + 1 /\ NextOf(g, p) = n
        BY <1>1, <1>8, <1>9, <2>2, <3>2 DEF Position, NoneYet
      <4> QED BY <1>6, <1>8, <4>1
    <3>3. CASE ~(g = PgGroup /\ p = q)
      <4>1. Position(g, p, committed', stored') = Position(g, p, committed, stored)
        BY <2>1, <2>2, <3>3 DEF Position
      <4> QED BY <3>1, <4>1
    <3> QED BY <3>2, <3>3
  <2> QED BY <1>4, <2>3, <2>4, <2>5, WorldMoves DEF lagCycle
<1>10. CASE f # PgGroup
  <2>1. committed' = [committed EXCEPT ![f][q] = m + 1] /\ stored' = stored
    BY <1>4, <1>10
  <2>2. \A g \in Groups \ {PgGroup} : \A p \in Parts :
           committed'[g][p] = IF g = f /\ p = q THEN m + 1 ELSE committed[g][p]
    BY <1>5, <2>1 DEF BooksOK
  <2>3. LagTypeOK'
    <3>1. \A g \in Groups \ {PgGroup} : \A p \in Parts : committed'[g][p] \in NoneYet..Len(offsets[p])
      BY <1>5, <1>6, <1>8, <2>2 DEF LagTypeOK, NoneYet
    <3> QED BY <1>4, <1>5, <2>1, <3>1 DEF LagTypeOK
  <2>4. BooksOK'
    <3>1. m + 1 \in Int
      BY <1>8
    <3>2. committed' \in [Groups \ {PgGroup} -> [Parts -> Int]]
      BY <1>5, <2>1, <3>1 DEF BooksOK
    <3> QED BY <1>4, <1>5, <2>1, <3>2 DEF BooksOK
  <2>5. ASSUME NEW g \in Groups, NEW p \in Parts
        PROVE  /\ Position(g, p, committed', stored') \in Int
               /\ Position(g, p, committed', stored') >= NextOf(g, p)
    <3>1. NextOf(g, p) = Position(g, p, committed, stored) /\ NextOf(g, p) \in Int
      BY NextIs
    <3>2. CASE g = f /\ p = q
      <4>1. Position(g, p, committed', stored') = m + 1 /\ NextOf(g, p) = n
        BY <1>1, <1>10, <2>2, <3>2 DEF Position
      <4> QED BY <1>6, <1>8, <4>1
    <3>3. CASE ~(g = f /\ p = q)
      <4>1. Position(g, p, committed', stored') = Position(g, p, committed, stored)
        BY <2>1, <2>2, <3>3 DEF Position
      <4> QED BY <3>1, <4>1
    <3> QED BY <3>2, <3>3
  <2> QED BY <1>4, <2>3, <2>4, <2>5, WorldMoves DEF lagCycle
<1> QED BY <1>9, <1>10

(* The platform is reset: whatever the cycle was told is stale. *)
LEMMA ResetPlatformInv ==
    ASSUME LagInv, ResetPlatform
    PROVE  LagInv'
<1>1. /\ offsets' = [p \in Parts |-> <<>>]
      /\ committed' = [g \in Groups \ {PgGroup} |-> [p \in Parts |-> NoneYet]]
      /\ stored' = [p \in Parts |-> NoneYet]
      /\ stale' = TRUE
      /\ UNCHANGED <<lagStep, ends, samples, atProbe, lagGauge>>
  BY DEF ResetPlatform, lagCycle
<1>2. LagTypeOK /\ BooksOK
  BY DEF LagInv
<1>3. \A p \in Parts : offsets'[p] = <<>> /\ Len(offsets'[p]) = 0 /\ MaxOffsets[p] \in Nat
  BY <1>1, SubscriptionAssumption
<1>4. NoneYet \in NoneYet..0 /\ NoneYet \in NoneYet..(0 - 1) /\ NoneYet \in Int
  BY DEF NoneYet
<1>5. LagTypeOK'
  <2>1. offsets' \in [Parts -> Seq(BOOLEAN)]
    BY <1>1
  <2>2. \A g \in Groups \ {PgGroup} : \A p \in Parts : committed'[g][p] \in NoneYet..Len(offsets'[p])
    BY <1>1, <1>3, <1>4
  <2>3. \A p \in Parts : stored'[p] \in NoneYet..(Len(offsets'[p]) - 1)
    BY <1>1, <1>3, <1>4
  <2> QED BY <1>1, <1>2, <2>1, <2>2, <2>3 DEF LagTypeOK
<1>6. BooksOK'
  <2>1. \A p \in Parts : Len(offsets'[p]) <= MaxOffsets[p]
    BY <1>3
  <2> QED BY <1>1, <1>2, <1>4, <2>1 DEF BooksOK
<1> QED BY <1>1, <1>5, <1>6, WorldMoves DEF lagCycle

(* No samples: what a cycle starts with. *)
LEMMA NoLagIs ==
    /\ NoLag \in [Groups -> [Parts -> Int]]
    /\ \A g \in Groups : \A p \in Parts : NoLag[g][p] = NoneYet
BY DEF NoLag, NoneYet

(* A new cycle begins. *)
LEMMA NewCycleInv ==
    ASSUME LagInv, NoCycle, UNCHANGED lagWorld,
           \A p \in Parts : \A g \in Groups : lagGauge'[g][p] \in NoneYet..MaxOffsets[p]
    PROVE  LagInv'
<1>1. /\ UNCHANGED <<offsets, committed, stored>> /\ lagStep' = 0 /\ ends' = [p \in Parts |-> 0]
      /\ samples' = NoLag /\ atProbe' = NoLag
  BY DEF NoCycle, lagWorld
<1>2. LagTypeOK /\ BooksOK
  BY DEF LagInv
<1>3. Probes \in Nat /\ Asked \in Nat
  BY SubscriptionAssumption, LenProperties DEF Probes, Asked
<1>4. \A p \in Parts : ends'[p] = 0 /\ ends'[p] \in 0..MaxOffsets[p] /\ NoneYet \in NoneYet..MaxOffsets[p]
  BY <1>1, SubscriptionAssumption DEF NoneYet
<1>5. LagTypeOK'
  <2>1. lagStep' \in 0..(Probes + Asked + 1)
    BY <1>1, <1>3
  <2>2. \A p \in Parts : /\ ends'[p] \in 0..MaxOffsets[p]
                         /\ \A g \in Groups : /\ samples'[g][p] \in NoneYet..MaxOffsets[p]
                                              /\ lagGauge'[g][p] \in NoneYet..MaxOffsets[p]
    BY <1>1, <1>4, NoLagIs
  <2> QED BY <1>1, <1>2, <2>1, <2>2 DEF LagTypeOK, Probes, Asked
<1>6. BooksOK'
  BY <1>1, <1>2, NoLagIs DEF BooksOK
<1>7. ProbesOK'
  <2>1. \A k \in 1..Probes : ~(k <= lagStep')
    BY <1>1, <1>3
  <2> QED BY <1>1, <2>1 DEF ProbesOK, NoLag, Probes
<1>8. SamplesAreHonest'
  BY <1>1, NoLagIs DEF SamplesAreHonest
<1> QED BY <1>5, <1>6, <1>7, <1>8 DEF LagInv

(* The gauges are set and the cycle is over. *)
LEMMA PublishInv ==
    ASSUME LagInv, Publish
    PROVE  LagInv'
<1>1. /\ lagGauge' = [g \in Groups |-> [p \in Parts |-> GaugeAfter(lagGauge[g][p], samples[g][p])]]
      /\ NoCycle /\ UNCHANGED lagWorld
  BY DEF Publish
<1>2. ASSUME NEW p \in Parts, NEW g \in Groups PROVE lagGauge'[g][p] \in NoneYet..MaxOffsets[p]
  <2>1. lagGauge[g][p] \in NoneYet..MaxOffsets[p] /\ samples[g][p] \in NoneYet..MaxOffsets[p]
    BY DEF LagInv, LagTypeOK
  <2>2. lagGauge'[g][p] = GaugeAfter(lagGauge[g][p], samples[g][p])
    BY <1>1
  <2> QED BY <2>1, <2>2 DEF GaugeAfter
<1> QED BY <1>1, <1>2, NewCycleInv

(* The cycle is skipped. *)
LEMMA CycleFailsInv ==
    ASSUME LagInv, CycleFails
    PROVE  LagInv'
<1>1. NoCycle /\ UNCHANGED lagWorld /\ lagGauge' = lagGauge
  BY DEF CycleFails
<1>2. \A p \in Parts : \A g \in Groups : lagGauge'[g][p] \in NoneYet..MaxOffsets[p]
  BY <1>1 DEF LagInv, LagTypeOK
<1> QED BY <1>1, <1>2, NewCycleInv

(* The end of a partition is asked for. *)
LEMMA ProbeEndInv ==
    ASSUME LagInv, ProbeEnd
    PROVE  LagInv'
<1>1. PICK q : q = WatchedParts[lagStep + 1]
  OBVIOUS
<1>2. /\ lagStep < Probes /\ lagStep' = lagStep + 1
      /\ ends' = [ends EXCEPT ![q] = Len(offsets[q])]
      /\ atProbe' = [g \in Groups |-> [atProbe[g] EXCEPT ![q] = Len(offsets[q]) - Max({0, NextOf(g, q)})]]
      /\ UNCHANGED <<offsets, committed, stored, samples, lagGauge, stale>>
  BY <1>1 DEF ProbeEnd, lagWorld
<1>3. LagTypeOK /\ BooksOK
  BY DEF LagInv
<1>4. Probes \in Nat /\ Asked \in Nat /\ lagStep \in Nat /\ lagStep + 1 \in 1..Probes /\ q \in Parts
  <2>1. Probes \in Nat /\ Asked \in Nat
    BY SubscriptionAssumption, LenProperties DEF Probes, Asked
  <2>2. lagStep \in Nat /\ lagStep + 1 \in 1..Probes
    BY <1>2, <1>3, <2>1 DEF LagTypeOK
  <2> QED BY <1>1, <2>1, <2>2, SubscriptionAssumption, ElementOfSeq DEF Probes
<1>5. samples = NoLag
  BY <1>2, <1>4 DEF LagInv, ProbesOK
<1>6. Len(offsets[q]) \in Nat /\ Len(offsets[q]) <= MaxOffsets[q] /\ MaxOffsets[q] \in Nat
  <2>1. offsets[q] \in Seq(BOOLEAN)
    BY <1>3, <1>4 DEF LagTypeOK
  <2> QED BY <1>3, <1>4, <2>1, LenProperties, SubscriptionAssumption DEF BooksOK
<1>7. ASSUME NEW g \in Groups
      PROVE  /\ Max({0, NextOf(g, q)}) = Clamped(NextOf(g, q))
             /\ Clamped(NextOf(g, q)) \in Nat /\ Clamped(NextOf(g, q)) <= Len(offsets[q])
  <2>1. NextOf(g, q) \in Int /\ NextOf(g, q) >= -1 /\ NextOf(g, q) <= Len(offsets[q])
    BY <1>4, NextIs
  <2>2. Max({0, NextOf(g, q)}) = IF 0 >= NextOf(g, q) THEN 0 ELSE NextOf(g, q)
    BY <2>1, MaxOfTwo
  <2> QED BY <1>6, <2>1, <2>2 DEF Clamped, NoneYet
<1>8. ASSUME NEW g \in Groups, NEW p \in Parts
      PROVE  /\ ends'[p] = IF p = q THEN Len(offsets[q]) ELSE ends[p]
             /\ atProbe'[g][p] = IF p = q THEN Len(offsets[q]) - Clamped(NextOf(g, q)) ELSE atProbe[g][p]
  BY <1>2, <1>3, <1>4, <1>7 DEF BooksOK
<1>9. LagTypeOK'
  <2>1. lagStep' \in 0..(Probes + Asked + 1)
    BY <1>2, <1>4
  <2>2. ASSUME NEW p \in Parts PROVE ends'[p] \in 0..MaxOffsets[p]
    <3>1. ends[p] \in 0..MaxOffsets[p] /\ ends'[p] = IF p = q THEN Len(offsets[q]) ELSE ends[p]
      BY <1>2, <1>3, <1>4 DEF LagTypeOK, BooksOK
    <3> QED BY <1>6, <3>1
  <2> QED BY <1>2, <1>3, <2>1, <2>2 DEF LagTypeOK, Probes, Asked
<1>10. BooksOK'
  <2>1. ends' \in [Parts -> Nat]
    BY <1>2, <1>3, <1>6 DEF BooksOK
  <2>2. atProbe' \in [Groups -> [Parts -> Int]]
    <3>1. ASSUME NEW g \in Groups
          PROVE  [atProbe[g] EXCEPT ![q] = Len(offsets[q]) - Max({0, NextOf(g, q)})] \in [Parts -> Int]
      <4>1. Len(offsets[q]) - Max({0, NextOf(g, q)}) \in Int
        BY <1>6, <1>7
      <4> QED BY <1>3, <4>1 DEF BooksOK
    <3> QED BY <1>2, <3>1
  <2> QED BY <1>2, <1>3, <2>1, <2>2 DEF BooksOK
<1>11. ASSUME ~stale, NEW k \in 1..Probes, k <= lagStep', NEW g \in Groups, NEW p, p = WatchedParts[k]
       PROVE  /\ atProbe'[g][p] >= 0
              /\ atProbe'[g][p] >= ends'[p] - Clamped(NextOf(g, p))
  <2>1. p \in Parts
    BY <1>11, SubscriptionAssumption, ElementOfSeq DEF Probes
  <2>2. CASE p = q
    <3>1. /\ ends'[p] = Len(offsets[q])
          /\ atProbe'[g][p] = Len(offsets[q]) - Clamped(NextOf(g, q))
      BY <1>8, <2>1, <2>2
    <3>2. Clamped(NextOf(g, q)) \in Nat /\ Clamped(NextOf(g, q)) <= Len(offsets[q])
      BY <1>7
    <3>3. Clamped(NextOf(g, p)) = Clamped(NextOf(g, q))
      BY <2>2
    <3> QED BY <1>6, <3>1, <3>2, <3>3
  <2>3. CASE p # q
    <3>1. k <= lagStep
      BY <1>1, <1>2, <1>4, <1>11, <2>3
    <3>2. atProbe[g][p] >= 0 /\ atProbe[g][p] >= ends[p] - Clamped(NextOf(g, p))
      BY <1>11, <3>1, ProbesSay
    <3> QED BY <1>8, <2>1, <2>3, <3>2
  <2> QED BY <2>2, <2>3
<1>12. ProbesOK'
  <2>1. \A g, p : NextOf(g, p)' = NextOf(g, p)
    BY <1>2 DEF NextOf
  <2> QED BY <1>2, <1>5, <1>11, <2>1 DEF ProbesOK, NoLag, Clamped
<1>13. SamplesAreHonest'
  BY <1>2, <1>5, NoLagIs DEF SamplesAreHonest
<1> QED BY <1>9, <1>10, <1>12, <1>13 DEF LagInv

(* compute_lags of one partition, against the end and what was known when  *)
(* it was asked for.                                                       *)
LEMMA LagOfIs ==
    ASSUME NEW end \in Nat, NEW next \in Int, next >= -1, NEW top \in Nat, end <= top, NEW known \in Int
    PROVE  /\ LagOf(end, next) \in NoneYet..top
           /\ LagOf(end, next) \in Int
           /\ (known >= 0 /\ known >= end - Clamped(next) /\ LagOf(end, next) # NoneYet) =>
                 LagOf(end, next) <= known /\ LagOf(end, next) >= end - next
<1>1. CASE next = NoneYet
  BY <1>1 DEF LagOf, NoneYet
<1>2. CASE next # NoneYet
  <2>1. LagOf(end, next) = Max({end - next, 0})
    BY <1>2 DEF LagOf
  <2>2. Max({end - next, 0}) = IF end - next >= 0 THEN end - next ELSE 0
    BY MaxOfTwo
  <2>3. LagOf(end, next) = IF end - next >= 0 THEN end - next ELSE 0
    BY <2>1, <2>2
  <2> QED BY <1>2, <2>3 DEF Clamped, NoneYet
<1> QED BY <1>1, <1>2

(* The offsets of one group are asked for, and its samples are made. *)
LEMMA AskInv ==
    ASSUME LagInv, NEW f \in Groups, lagStep \in Probes..(Probes + Asked), lagStep' = lagStep + 1,
           samples' = [samples EXCEPT ![f] = [p \in Parts |-> LagOf(ends[p], NextOf(f, p))]],
           UNCHANGED <<offsets, committed, stored, ends, atProbe, lagGauge, stale>>
    PROVE  LagInv'
<1>1. LagTypeOK /\ BooksOK /\ SamplesAreHonest
  BY DEF LagInv
<1>2. Probes \in Nat /\ Asked \in Nat
  BY SubscriptionAssumption, LenProperties DEF Probes, Asked
<1>3. lagStep \in Nat /\ lagStep >= Probes /\ lagStep <= Probes + Asked
  BY <1>2
<1>4. ASSUME NEW g \in Groups, NEW p \in Parts
      PROVE  samples'[g][p] = IF g = f THEN LagOf(ends[p], NextOf(f, p)) ELSE samples[g][p]
  BY <1>1 DEF BooksOK
<1>5. ASSUME NEW p \in Parts
      PROVE  /\ LagOf(ends[p], NextOf(f, p)) \in NoneYet..MaxOffsets[p]
             /\ LagOf(ends[p], NextOf(f, p)) \in Int
             /\ (~stale /\ LagOf(ends[p], NextOf(f, p)) # NoneYet) =>
                    /\ LagOf(ends[p], NextOf(f, p)) <= atProbe[f][p]
                    /\ LagOf(ends[p], NextOf(f, p)) >= ends[p] - NextOf(f, p)
  <2>1. /\ NextOf(f, p) \in Int /\ NextOf(f, p) >= -1 /\ ends[p] \in Nat /\ ends[p] <= MaxOffsets[p]
        /\ MaxOffsets[p] \in Nat /\ atProbe[f][p] \in Int
    BY <1>1, NextIs DEF BooksOK
  <2>2. ~stale => atProbe[f][p] >= 0 /\ atProbe[f][p] >= ends[p] - Clamped(NextOf(f, p))
    <3>1. PICK k \in 1..Probes : WatchedParts[k] = p
      BY ProbedAt
    <3>2. k <= lagStep
      BY <1>2, <1>3
    <3> QED BY <3>1, <3>2, ProbesSay
  <2> QED BY <2>1, <2>2, LagOfIs
<1>6. LagTypeOK'
  <2>1. lagStep' \in 0..(Probes + Asked + 1)
    BY <1>2, <1>3
  <2>2. \A p \in Parts : \A g \in Groups : samples'[g][p] \in NoneYet..MaxOffsets[p]
    BY <1>1, <1>4, <1>5 DEF LagTypeOK
  <2> QED BY <1>1, <2>1, <2>2 DEF LagTypeOK, Probes, Asked
<1>7. BooksOK'
  <2>1. [p \in Parts |-> LagOf(ends[p], NextOf(f, p))] \in [Parts -> Int]
    BY <1>5
  <2>2. samples' \in [Groups -> [Parts -> Int]]
    BY <1>1, <2>1 DEF BooksOK
  <2> QED BY <1>1, <2>2 DEF BooksOK
<1>8. \A g, p : NextOf(g, p)' = NextOf(g, p)
  BY DEF NextOf
<1>9. ProbesOK'
  <2>1. ~(lagStep' <= Probes)
    BY <1>2, <1>3
  <2>2. ASSUME ~stale, NEW k \in 1..Probes, NEW g \in Groups
        PROVE  /\ atProbe[g][WatchedParts[k]] >= 0
               /\ atProbe[g][WatchedParts[k]] >= ends[WatchedParts[k]] - Clamped(NextOf(g, WatchedParts[k]))
    <3>1. k <= lagStep
      BY <1>2, <1>3
    <3> QED BY <2>2, <3>1, ProbesSay
  <2> QED BY <1>8, <2>1, <2>2 DEF ProbesOK, Clamped, Probes
<1>10. SamplesAreHonest'
  <2>1. ASSUME ~stale, NEW g \in Groups, NEW p \in Parts, samples'[g][p] # NoneYet
        PROVE  samples'[g][p] <= atProbe[g][p] /\ samples'[g][p] >= ends[p] - NextOf(g, p)
    <3>1. CASE g = f
      BY <1>4, <1>5, <2>1, <3>1
    <3>2. CASE g # f
      BY <1>1, <1>4, <2>1, <3>2 DEF SamplesAreHonest
    <3> QED BY <3>1, <3>2
  <2> QED BY <1>8, <2>1 DEF SamplesAreHonest
<1> QED BY <1>6, <1>7, <1>9, <1>10 DEF LagInv

(* The broker is asked for the offsets of a group. *)
LEMMA AskBrokerInv ==
    ASSUME LagInv, AskBroker
    PROVE  LagInv'
<1>1. PICK f : f = BrokerGroups[lagStep - Probes + 1]
  OBVIOUS
<1>2. Probes \in Nat /\ Asked \in Nat
  BY SubscriptionAssumption, LenProperties DEF Probes, Asked
<1>3. lagStep \in Int /\ lagStep - Probes + 1 \in 1..Asked /\ lagStep \in Probes..(Probes + Asked)
  BY <1>2 DEF AskBroker
<1>4. f \in Groups /\ f # PgGroup
  BY <1>1, <1>3, SubscriptionAssumption, ElementOfSeq DEF Asked
<1>5. \A p \in Parts : NextOf(f, p) = committed[f][p]
  BY <1>4 DEF NextOf
<1>6. samples' = [samples EXCEPT ![f] = [p \in Parts |-> LagOf(ends[p], committed[f][p])]]
  BY <1>1 DEF AskBroker
<1>7. [p \in Parts |-> LagOf(ends[p], committed[f][p])] = [p \in Parts |-> LagOf(ends[p], NextOf(f, p))]
  BY <1>5
<1>8. samples' = [samples EXCEPT ![f] = [p \in Parts |-> LagOf(ends[p], NextOf(f, p))]]
  BY <1>6, <1>7
<1>9. lagStep' = lagStep + 1 /\ UNCHANGED <<offsets, committed, stored, ends, atProbe, lagGauge, stale>>
  BY DEF AskBroker, lagWorld
<1> QED BY <1>3, <1>4, <1>8, <1>9, AskInv

(* Postgres is asked for those of pg-sink. *)
LEMMA AskPostgresInv ==
    ASSUME LagInv, AskPostgres
    PROVE  LagInv'
<1>1. PgGroup \in Groups
  BY DEF Groups
<1>2. Probes \in Nat /\ Asked \in Nat
  BY SubscriptionAssumption, LenProperties DEF Probes, Asked
<1>3. lagStep \in Probes..(Probes + Asked)
  BY <1>2 DEF AskPostgres
<1>4. \A p \in Parts : NextOf(PgGroup, p) = committed_next_from_pg(p)
  BY DEF NextOf, committed_next_from_pg
<1>5. [p \in Parts |-> LagOf(ends[p], committed_next_from_pg(p))] = [p \in Parts |-> LagOf(ends[p], NextOf(PgGroup, p))]
  BY <1>4
<1>6. samples' = [samples EXCEPT ![PgGroup] = [p \in Parts |-> LagOf(ends[p], NextOf(PgGroup, p))]]
  BY <1>5 DEF AskPostgres
<1>7. lagStep' = lagStep + 1 /\ UNCHANGED <<offsets, committed, stored, ends, atProbe, lagGauge, stale>>
  BY DEF AskPostgres, lagWorld
<1> QED BY <1>1, <1>3, <1>6, <1>7, AskInv

(* Where the exporter starts, and when it rests. *)
LEMMA LagInitInv == LagInit => LagInv
<1> SUFFICES ASSUME LagInit PROVE LagInv
  OBVIOUS
<1>1. Probes \in Nat /\ Asked \in Nat
  BY SubscriptionAssumption, LenProperties DEF Probes, Asked
<1>2. /\ NoneYet \in NoneYet..0 /\ NoneYet \in NoneYet..(0 - 1) /\ NoneYet \in Int
      /\ \A p \in Parts : NoneYet \in NoneYet..MaxOffsets[p] /\ 0 \in 0..MaxOffsets[p] /\ 0 <= MaxOffsets[p]
  BY SubscriptionAssumption DEF NoneYet
<1>3. \A p \in Parts : offsets[p] = <<>> /\ Len(offsets[p]) = 0
  BY DEF LagInit
<1>4. LagTypeOK
  <2>1. offsets \in [Parts -> Seq(BOOLEAN)] /\ lagStep \in 0..(Probes + Asked + 1)
    BY <1>1 DEF LagInit
  <2>2. /\ \A g \in Groups \ {PgGroup} : \A p \in Parts : committed[g][p] \in NoneYet..Len(offsets[p])
        /\ \A p \in Parts : stored[p] \in NoneYet..(Len(offsets[p]) - 1)
    BY <1>2, <1>3 DEF LagInit
  <2>3. \A p \in Parts : /\ ends[p] \in 0..MaxOffsets[p]
                         /\ \A g \in Groups : /\ samples[g][p] \in NoneYet..MaxOffsets[p]
                                              /\ lagGauge[g][p] \in NoneYet..MaxOffsets[p]
    BY <1>2, NoLagIs DEF LagInit
  <2> QED BY <2>1, <2>2, <2>3 DEF LagTypeOK
<1>5. BooksOK
  BY <1>2, <1>3, NoLagIs DEF LagInit, BooksOK
<1>6. ProbesOK
  <2>1. \A k \in 1..Probes : ~(k <= lagStep)
    BY <1>1 DEF LagInit
  <2> QED BY <2>1 DEF LagInit, ProbesOK
<1>7. SamplesAreHonest
  BY NoLagIs DEF LagInit, SamplesAreHonest
<1> QED BY <1>4, <1>5, <1>6, <1>7 DEF LagInv

(* Nothing changes while another tool runs. *)
LEMMA LagRests ==
    ASSUME LagInv, UNCHANGED lagVars
    PROVE  LagInv'
<1>1. UNCHANGED <<offsets, committed, stored, lagStep, ends, samples, atProbe, lagGauge, stale>>
  BY DEF lagVars, lagWorld, lagCycle
<1>2. LagTypeOK' /\ BooksOK'
  BY <1>1 DEF LagInv, LagTypeOK, BooksOK, Probes, Asked
<1>3. \A g \in Groups : \A p \in Parts : /\ Position(g, p, committed', stored') \in Int
                                         /\ Position(g, p, committed', stored') >= NextOf(g, p)
  <2> SUFFICES ASSUME NEW g \in Groups, NEW p \in Parts
               PROVE  /\ Position(g, p, committed', stored') \in Int
                      /\ Position(g, p, committed', stored') >= NextOf(g, p)
    OBVIOUS
  <2>1. Position(g, p, committed', stored') = NextOf(g, p) /\ NextOf(g, p) \in Int
    BY <1>1, NextIs
  <2> QED BY <2>1
<1> QED BY <1>1, <1>2, <1>3, WorldMoves DEF lagCycle

-----------------------------------------------------------------------------
(* The theorems. *)

(* Every step of a tool keeps its invariant and leaves the others alone. *)
LEMMA OpsStep == OpsInv /\ [OpsNext]_opsVars => OpsInv'
<1> SUFFICES ASSUME OpsInv, [OpsNext]_opsVars PROVE OpsInv'
  OBVIOUS
<1>1. QualityInv /\ GateInv /\ LagInv /\ ResetInv /\ ReplayInv
  BY DEF OpsInv
<1>2. CASE Quality(QualityNext)
  <2>1. QualityNext /\ UNCHANGED lagVars /\ UNCHANGED resetVars /\ UNCHANGED replayVars
    BY <1>2 DEF Quality
  <2>2. QualityInv'
    <3>1. CASE Grow \/ Lose
      BY <1>1, <3>1, TableInv
    <3>2. CASE \E r \in Runners : RunnerStep(r) \/ DqCrash(r)
      <4>1. PICK r \in Runners : RunnerStep(r) \/ DqCrash(r)
        BY <3>2
      <4> QED BY <1>1, <4>1, ReadHistoryInv, ValidateRawInv, ValidateFctInv, JudgeInv, PersistInv, DqCrashInv
              DEF RunnerStep
    <3> QED BY <2>1, <3>1, <3>2 DEF QualityNext
  <2>3. GateInv'
    BY <1>1, <2>1, QualityGate
  <2> QED BY <1>1, <2>1, <2>2, <2>3, LagRests, ResetRests, ReplayRests DEF OpsInv
<1>3. CASE Lag(LagNext)
  <2>1. LagNext /\ UNCHANGED qualityVars /\ UNCHANGED resetVars /\ UNCHANGED replayVars
    BY <1>3 DEF Lag
  <2>2. LagInv'
    <3>1. CASE \E p \in Parts : ProduceTo(p)
      BY <1>1, <3>1, ProduceToInv
    <3>2. CASE \E g \in Groups : \E p \in Parts : Progress(g, p)
      BY <1>1, <3>2, ProgressInv
    <3>3. CASE ResetPlatform
      BY <1>1, <3>3, ResetPlatformInv
    <3>4. CASE ExporterStep
      BY <1>1, <3>4, ProbeEndInv, AskBrokerInv, AskPostgresInv, PublishInv DEF ExporterStep
    <3>5. CASE CycleFails
      BY <1>1, <3>5, CycleFailsInv
    <3> QED BY <2>1, <3>1, <3>2, <3>3, <3>4, <3>5 DEF LagNext
  <2> QED BY <1>1, <2>1, <2>2, QualityRests, GateRests, ResetRests, ReplayRests DEF OpsInv
<1>4. CASE Reset(ResetNext)
  <2>1. ResetNext /\ UNCHANGED qualityVars /\ UNCHANGED lagVars /\ UNCHANGED replayVars
    BY <1>4 DEF Reset
  <2>2. ResetInv'
    BY <1>1, <2>1, ResetStepInv, ResetWorldInv DEF ResetNext
  <2> QED BY <1>1, <2>1, <2>2, QualityRests, GateRests, LagRests, ReplayRests DEF OpsInv
<1>5. CASE Replay(ReplayNext)
  <2>1. ReplayNext /\ UNCHANGED qualityVars /\ UNCHANGED lagVars /\ UNCHANGED resetVars
    BY <1>5 DEF Replay
  <2>2. ReplayInv'
    BY <1>1, <2>1, ArriveInv, TransactInv, HandleInv, DeliverEnvelopeInv, FinishRestartInv, DrainAndReplayInv,
       DeliverReplayedInv, ReplayEndsInv DEF ReplayNext
  <2> QED BY <1>1, <2>1, <2>2, QualityRests, GateRests, LagRests, ResetRests DEF OpsInv
<1>6. CASE UNCHANGED opsVars
  <2>1. UNCHANGED qualityVars /\ UNCHANGED lagVars /\ UNCHANGED resetVars /\ UNCHANGED replayVars
    BY <1>6 DEF opsVars
  <2> QED BY <1>1, <2>1, QualityRests, GateRests, LagRests, ResetRests, ReplayRests DEF OpsInv
<1> QED BY <1>2, <1>3, <1>4, <1>5, <1>6 DEF OpsNext

(* The inductive invariants of the four tools hold in every state, for any *)
(* runs, groups, losses and redeliveries (quality/runner.py,               *)
(* observability/lag_exporter.py, scripts/reset_platform.py,               *)
(* dlq/envelope.py, scripts/replay_dlq.py).                                *)
THEOREM OpsInvariant == OpsSpec => []OpsInv
<1>1. OpsInit => OpsInv
  BY QualityInitInv, GateInitInv, LagInitInv, ResetInitInv, ReplayInitInv DEF OpsInit, OpsInv
<1>2. OpsInv /\ [OpsNext]_opsVars => OpsInv'
  BY OpsStep
<1> QED BY <1>1, <1>2, PTL DEF OpsSpec

(* The tools' state keeps its types: no lag is negative, no loop of the    *)
(* reset outlives its deadline, no run looks further back than the limit.  *)
THEOREM OpsAlwaysTyped == OpsSpec => []OpsTypeOK
<1>1. OpsInv => OpsTypeOK
  BY DEF OpsInv, QualityInv, LagInv, ResetInv, ReplayInv, OpsTypeOK
<1> QED BY <1>1, OpsInvariant, PTL

(* A run calls the row count low only if rows were lost, whatever other    *)
(* runs record meanwhile, and high only if it exceeds every recent count   *)
(* by more than the slack (run_once, rowcount_bounds).                     *)
THEOREM AlarmsAreAlwaysReal == OpsSpec => []AlarmsAreReal
<1>1. OpsInv => AlarmsAreReal
  BY DEF OpsInv, QualityInv
<1> QED BY <1>1, OpsInvariant, PTL

(* A gate that passes had no failure in either suite, and if it began      *)
(* after rows were lost, then it saw the table restored to the highest     *)
(* count on record or an earlier run had reported the loss.  For the first *)
(* loss this holds for any interleaving of the runs, if there are no more  *)
(* of them than the history has rows (run_once, rowcount_history,          *)
(* rowcount_bounds, main).                                                 *)
THEOREM GatesCatchTheFirstLoss ==
    ASSUME FewRunners
    PROVE  OpsSpec => [](losses <= 1 => GatePassesNoLoss)
<1>1. ASSUME OpsInv, losses <= 1, NEW r \in Gates, exitCode[r] = 0
      PROVE  /\ failed[r] = {}
             /\ losses > 0 /\ r \in sawLoss => observed[r] >= lossFloor \/ reported
  BY <1>1 DEF OpsInv, GateInv, VerdictsOK, GatesAware
<1>2. OpsInv => (losses <= 1 => GatePassesNoLoss)
  BY <1>1 DEF GatePassesNoLoss
<1> QED BY <1>2, OpsInvariant, PTL

(* No published lag exceeds what the group had when the end was asked for, *)
(* or falls short of what it still has to read of that (collect).          *)
THEOREM SamplesAreAlwaysHonest == OpsSpec => []SamplesAreHonest
<1>1. OpsInv => SamplesAreHonest
  BY DEF OpsInv, LagInv
<1> QED BY <1>1, OpsInvariant, PTL

(* A reset that ends without an error has left a blank slate, with the     *)
(* excuses that the property names (reset_all).                            *)
THEOREM ResetIsAlwaysBlank == OpsSpec => []ResetIsBlank
<1>1. OpsInv => ResetIsBlank
  BY DEF OpsInv, ResetInv, ResetIsBlank, GroupsOK, TopicsOK, StoresOK, Undisturbed, Deleted
<1> QED BY <1>1, OpsInvariant, PTL

(* Replays that repair a framed topic never come back as dead letters:     *)
(* whatever is lost, read again or replayed more than once, and however    *)
(* many groups dead-letter it, all envelopes of an event are copies of     *)
(* the one that wraps the message first produced (repair_magic_byte,       *)
(* build_envelope).                                                        *)
THEOREM RepairNeverFeedsBack == OpsSpec => []RepairDoesNotFeedBack
<1>1. OpsInv => RepairDoesNotFeedBack
  BY DEF OpsInv, ReplayInv
<1> QED BY <1>1, OpsInvariant, PTL
=============================================================================
