--------------------------- MODULE EventFeedProofs ---------------------------
(***************************************************************************)
(* Theorems about the generator's feed, for every set of events, every     *)
(* queue size, and any delays and delivery outcomes.                       *)
(***************************************************************************)
EXTENDS EventFeedInduction, FiniteSetTheorems, FunctionTheorems, SequenceTheorems, TLAPS

-----------------------------------------------------------------------------
(* Counting copies. *)

(* The places of an event in a sequence of messages are finitely many. *)
LEMMA PlacesFinite ==
    ASSUME NEW s \in Seq(Messages), NEW e
    PROVE  /\ IsFiniteSet({i \in 1..Len(s) : s[i].event = e})
           /\ CountIn(s, e) = Cardinality({i \in 1..Len(s) : s[i].event = e})
           /\ CountIn(s, e) \in Nat
<1> DEFINE P == {i \in 1..Len(s) : s[i].event = e}
<1>1. Len(s) \in Nat /\ DOMAIN s = 1..Len(s)
  BY LenProperties
<1>2. IsFiniteSet(1..Len(s))
  BY <1>1, FS_Interval
<1>3. P \in SUBSET (1..Len(s))
  OBVIOUS
<1>4. CountIn(s, e) = Cardinality(P)
  BY <1>1 DEF CountIn
<1> HIDE DEF P
<1>5. IsFiniteSet(P)
  BY <1>2, <1>3, FS_Subset
<1>6. Cardinality(P) \in Nat
  BY <1>5, FS_CardinalityType
<1> QED BY <1>4, <1>5, <1>6 DEF P

(* A count is positive when the event is there. *)
LEMMA CountPositive ==
    ASSUME NEW s \in Seq(Messages), NEW e
    PROVE  CountIn(s, e) > 0 <=> \E i \in 1..Len(s) : s[i].event = e
<1> DEFINE P == {i \in 1..Len(s) : s[i].event = e}
<1>1. IsFiniteSet(P) /\ CountIn(s, e) = Cardinality(P) /\ CountIn(s, e) \in Nat
  BY PlacesFinite
<1>2. P # {} <=> \E i \in 1..Len(s) : s[i].event = e
  OBVIOUS
<1> HIDE DEF P
<1>3. Cardinality(P) = 0 <=> P = {}
  BY <1>1, FS_EmptySet
<1> QED BY <1>1, <1>2, <1>3

(* One message more. *)
LEMMA CountAppend ==
    ASSUME NEW s \in Seq(Messages), NEW m \in Messages, NEW e
    PROVE  /\ Append(s, m) \in Seq(Messages)
           /\ CountIn(Append(s, m), e) = CountIn(s, e) + (IF m.event = e THEN 1 ELSE 0)
<1> DEFINE t == Append(s, m)
           P == {i \in 1..Len(s) : s[i].event = e}
           Q == {i \in 1..Len(t) : t[i].event = e}
<1>1. /\ t \in Seq(Messages) /\ Len(t) = Len(s) + 1 /\ Len(s) \in Nat
      /\ \A i \in 1..Len(s) : t[i] = s[i]
      /\ t[Len(s) + 1] = m
  BY AppendProperties, LenProperties
<1>2. IsFiniteSet(P) /\ CountIn(s, e) = Cardinality(P) /\ Cardinality(P) \in Nat
  BY PlacesFinite
<1>3. CountIn(t, e) = Cardinality(Q)
  BY <1>1, PlacesFinite
<1>4. Len(s) + 1 \notin P
  BY <1>1
<1>5. Q = IF m.event = e THEN P \cup {Len(s) + 1} ELSE P
  <2> HIDE DEF t
  <2>1. 1..Len(t) = (1..Len(s)) \cup {Len(s) + 1}
    BY <1>1
  <2> QED BY <1>1, <2>1
<1> HIDE DEF P, Q, t
<1>6. Cardinality(P \cup {Len(s) + 1}) = Cardinality(P) + 1
  BY <1>2, <1>4, FS_AddElement
<1>7. CountIn(t, e) = CountIn(s, e) + (IF m.event = e THEN 1 ELSE 0)
  BY <1>2, <1>3, <1>5, <1>6
<1> QED BY <1>1, <1>7 DEF t

(* t is s without its i-th message. *)
IsWithout(t, s, i) ==
    /\ Len(t) = Len(s) - 1
    /\ \A j \in 1..Len(t) : t[j] = IF j < i THEN s[j] ELSE s[j + 1]

(* One message less. *)
LEMMA CountWithout ==
    ASSUME NEW s \in Seq(Messages), NEW t \in Seq(Messages), NEW i \in 1..Len(s),
           IsWithout(t, s, i), NEW e
    PROVE  CountIn(s, e) = CountIn(t, e) + (IF s[i].event = e THEN 1 ELSE 0)
<1> DEFINE P == {j \in 1..Len(s) : s[j].event = e}
           Q == {j \in 1..Len(t) : t[j].event = e}
           f == [j \in Q |-> IF j < i THEN j ELSE j + 1]
<1>1. Len(s) \in Nat /\ Len(t) \in Nat /\ Len(t) = Len(s) - 1 /\ i \in Nat /\ i >= 1 /\ i <= Len(s)
  BY LenProperties DEF IsWithout
<1>2. IsFiniteSet(P) /\ CountIn(s, e) = Cardinality(P) /\ Cardinality(P) \in Nat
  BY PlacesFinite
<1>3. IsFiniteSet(Q) /\ CountIn(t, e) = Cardinality(Q) /\ Cardinality(Q) \in Nat
  BY PlacesFinite
<1>4. \A j \in 1..Len(t) : t[j] = IF j < i THEN s[j] ELSE s[j + 1]
  BY DEF IsWithout
<1>5. ASSUME NEW j \in Q PROVE f[j] \in P \ {i}
  <2>1. j \in 1..Len(t) /\ t[j].event = e /\ j \in Nat
    BY <1>1
  <2>2. f[j] = IF j < i THEN j ELSE j + 1
    OBVIOUS
  <2>3. f[j] \in 1..Len(s) /\ f[j] # i
    BY <1>1, <2>1, <2>2
  <2>4. s[f[j]] = t[j]
    BY <1>4, <2>1, <2>2
  <2> HIDE DEF f
  <2> QED BY <2>1, <2>3, <2>4
<1>6. ASSUME NEW j \in Q, NEW k \in Q, f[j] = f[k] PROVE j = k
  <2>1. j \in Nat /\ k \in Nat
    BY <1>1
  <2>2. f[j] = (IF j < i THEN j ELSE j + 1) /\ f[k] = (IF k < i THEN k ELSE k + 1)
    OBVIOUS
  <2>3. (IF j < i THEN j ELSE j + 1) = (IF k < i THEN k ELSE k + 1)
    BY <1>6, <2>2
  <2> QED BY <1>1, <2>1, <2>3
<1>7. ASSUME NEW k \in P \ {i} PROVE \E j \in Q : f[j] = k
  <2>1. k \in Nat /\ k >= 1 /\ k <= Len(s) /\ k # i /\ s[k].event = e
    BY <1>1
  <2>2. CASE k < i
    <3>1. k \in 1..Len(t)
      BY <1>1, <2>1, <2>2
    <3>2. t[k] = s[k]
      BY <1>4, <2>2, <3>1
    <3>3. k \in Q
      BY <2>1, <3>1, <3>2
    <3> QED BY <2>2, <3>3
  <2>3. CASE k > i
    <3>1. k - 1 \in 1..Len(t) /\ ~(k - 1 < i) /\ (k - 1) + 1 = k
      BY <1>1, <2>1, <2>3
    <3>2. t[k - 1] = s[k]
      BY <1>4, <3>1
    <3>3. k - 1 \in Q
      BY <2>1, <3>1, <3>2
    <3>4. f[k - 1] = IF k - 1 < i THEN k - 1 ELSE (k - 1) + 1
      BY <3>3
    <3>5. f[k - 1] = k
      BY <3>1, <3>4
    <3> QED BY <3>3, <3>5
  <2>4. k < i \/ k > i
    BY <1>1, <2>1
  <2> QED BY <2>2, <2>3, <2>4, Zenon
<1>8. f \in Bijection(Q, P \ {i})
  <2>1. f \in [Q -> P \ {i}]
    <3>1. f = [j \in Q |-> f[j]]
      OBVIOUS
    <3> HIDE DEF f
    <3> QED BY <1>5, <3>1
  <2> HIDE DEF f, P, Q
  <2> QED BY <1>6, <1>7, <2>1 DEF Bijection, Injection, Surjection, IsInjective
<1>9. i \in P <=> s[i].event = e
  OBVIOUS
<1> HIDE DEF f, P, Q
<1>10. Cardinality(P \ {i}) = Cardinality(Q)
  BY <1>3, <1>8, FS_Bijection DEF ExistsBijection
<1>11. Cardinality(P \ {i}) = IF i \in P THEN Cardinality(P) - 1 ELSE Cardinality(P)
  BY <1>2, FS_RemoveElement
<1> QED BY <1>2, <1>3, <1>9, <1>10, <1>11

(* The held copies of an event. *)
HeldOf(H, e) == {h \in H : h[2] = e}

(* b releases the held events D, in the order s, as clean messages. *)
Releases(b, s, D) ==
    /\ IsFiniteSet(D) /\ D \subseteq Nat \X RideIds /\ s \in SetToSeqs(D)
    /\ b = [i \in DOMAIN s |-> Clean(s[i][2])]

(* The held events that are due, in any order, as clean messages. *)
LEMMA CountReleased ==
    ASSUME NEW D, NEW s, NEW b, Releases(b, s, D), NEW e
    PROVE  /\ b \in Seq(Messages)
           /\ \A i \in 1..Len(b) : b[i].corrupt = FALSE
           /\ CountIn(b, e) = Cardinality(HeldOf(D, e))
<1> DEFINE n == Cardinality(D)
           P == {i \in 1..n : s[i][2] = e}
           H == {h \in D : h[2] = e}
           f == [i \in P |-> s[i]]
<1> IsFiniteSet(D) /\ D \subseteq Nat \X RideIds /\ s \in SetToSeqs(D) /\ b = [i \in DOMAIN s |-> Clean(s[i][2])]
  BY DEF Releases
<1>1. n \in Nat
  BY FS_CardinalityType
<1>2. s \in [1..n -> D] /\ \A i, j \in 1..n : i # j => s[i] # s[j]
  BY DEF SetToSeqs
<1>3. ASSUME NEW i \in 1..n PROVE s[i] \in Nat \X RideIds /\ Clean(s[i][2]) \in Messages
  <2>1. s[i] \in Nat \X RideIds
    BY <1>2
  <2> QED BY <2>1 DEF Clean, Message, Messages, Events
<1>4. b = [i \in 1..n |-> Clean(s[i][2])]
  BY <1>2
<1> HIDE DEF n
<1>5. /\ b \in Seq(Messages) /\ Len(b) = n
      /\ \A i \in 1..n : b[i] = Clean(s[i][2])
  BY <1>1, <1>3, <1>4
<1>6. \A i \in 1..n : b[i].corrupt = FALSE /\ b[i].event = s[i][2]
  BY <1>5 DEF Clean, Message
<1>7. CountIn(b, e) = Cardinality(P) /\ IsFiniteSet(P)
  <2>1. {i \in 1..Len(b) : b[i].event = e} = P
    BY <1>5, <1>6
  <2>2. /\ IsFiniteSet({i \in 1..Len(b) : b[i].event = e})
        /\ CountIn(b, e) = Cardinality({i \in 1..Len(b) : b[i].event = e})
    BY <1>5, PlacesFinite
  <2> HIDE DEF P
  <2> QED BY <2>1, <2>2
<1>8. s \in Surjection(1..n, D)
  <2>1. s \in Injection(1..n, D)
    BY <1>2 DEF Injection, IsInjective
  <2>2. IsFiniteSet(1..n) /\ Cardinality(1..n) = n
    BY <1>1, FS_Interval
  <2> QED BY <2>1, <2>2, FS_Injection DEF n
<1>9. f \in Bijection(P, H)
  <2>1. f \in [P -> H]
    BY <1>2
  <2>2. \A h \in H : \E i \in P : f[i] = h
    <3> SUFFICES ASSUME NEW h \in H PROVE \E i \in P : f[i] = h
      OBVIOUS
    <3>1. PICK i \in 1..n : s[i] = h
      BY <1>8 DEF Surjection
    <3> QED BY <3>1
  <2>3. \A i, j \in P : f[i] = f[j] => i = j
    BY <1>2
  <2> HIDE DEF f, P, H
  <2> QED BY <2>1, <2>2, <2>3 DEF Bijection, Injection, Surjection, IsInjective
<1> HIDE DEF f, P
<1>10. Cardinality(H) = Cardinality(P)
  <2> HIDE DEF H
  <2> QED BY <1>7, <1>9, FS_Bijection DEF ExistsBijection
<1> QED BY <1>5, <1>6, <1>7, <1>10 DEF HeldOf

-----------------------------------------------------------------------------
(* The parts of the invariant. *)

(* The four places where a copy can be. *)
LEMMA CopiesParts ==
    ASSUME TypeOK, IsFiniteSet(held), NEW e
    PROVE  /\ CountIn(batch, e) \in Nat /\ CountIn(outstanding, e) \in Nat /\ CountIn(topic, e) \in Nat
           /\ IsFiniteSet(HeldOf(held, e)) /\ Cardinality(HeldOf(held, e)) \in Nat
           /\ Copies(e) = CountIn(batch, e) + CountIn(outstanding, e) + CountIn(topic, e)
                             + Cardinality(HeldOf(held, e))
           /\ Copies(e) \in Nat
<1>1. CountIn(batch, e) \in Nat /\ CountIn(outstanding, e) \in Nat /\ CountIn(topic, e) \in Nat
  BY PlacesFinite DEF TypeOK
<1>2. HeldOf(held, e) \in SUBSET held
  BY DEF HeldOf
<1>3. IsFiniteSet(HeldOf(held, e))
  BY <1>2, FS_Subset
<1>4. Cardinality(HeldOf(held, e)) \in Nat
  BY <1>3, FS_CardinalityType
<1>5. Copies(e) = CountIn(batch, e) + CountIn(outstanding, e) + CountIn(topic, e)
                     + Cardinality(HeldOf(held, e))
  BY DEF Copies, HeldOf
<1> QED BY <1>1, <1>3, <1>4, <1>5

(* The same after a step. *)
LEMMA CopiesAfter ==
    ASSUME NEW e
    PROVE  Copies(e)' = CountIn(batch', e) + CountIn(outstanding', e) + CountIn(topic', e)
                           + Cardinality(HeldOf(held', e))
BY DEF Copies, HeldOf, CountIn

(* Where a corrupted copy can be after a step. *)
LEMMA CorruptedAfter ==
    ASSUME NEW e
    PROVE  IsCorrupted(e)' <=> \/ Contains(batch', Message(e, TRUE))
                               \/ Contains(outstanding', Message(e, TRUE))
                               \/ Contains(topic', Message(e, TRUE))
BY DEF IsCorrupted, Contains, Message

(* And before one. *)
LEMMA CorruptedBefore ==
    ASSUME NEW e
    PROVE  IsCorrupted(e) <=> \/ Contains(batch, Message(e, TRUE))
                              \/ Contains(outstanding, Message(e, TRUE))
                              \/ Contains(topic, Message(e, TRUE))
BY DEF IsCorrupted

(* A step that moves no message. *)
LEMMA NothingMoves ==
    ASSUME UNCHANGED <<batch, outstanding, topic, held>>, NEW e
    PROVE  Copies(e)' = Copies(e) /\ (IsCorrupted(e)' <=> IsCorrupted(e))
BY DEF Copies, IsCorrupted, CountIn, Contains, Message

(* What the reports in the transport are. *)
LEMMA ReportTypes ==
    ASSUME TypeOK, NEW j \in 1..Len(reports)
    PROVE  /\ DOMAIN reports = 1..Len(reports)
           /\ reports[j] = <<reports[j][1], reports[j][2]>>
           /\ reports[j][1] \in Messages /\ reports[j][2] \in BOOLEAN
           /\ reports[j][1].event \in Events /\ reports[j][1].corrupt \in BOOLEAN
           /\ reports[j][1] = Message(reports[j][1].event, reports[j][1].corrupt)
<1>1. reports \in Seq(Messages \X BOOLEAN)
  BY DEF TypeOK
<1>2. reports[j] \in Messages \X BOOLEAN /\ DOMAIN reports = 1..Len(reports)
  BY <1>1, ElementOfSeq, LenProperties
<1>3. reports[j] = <<reports[j][1], reports[j][2]>> /\ reports[j][1] \in Messages /\ reports[j][2] \in BOOLEAN
  BY <1>2
<1>4. /\ reports[j][1].event \in Events /\ reports[j][1].corrupt \in BOOLEAN
      /\ reports[j][1] = [event |-> reports[j][1].event, corrupt |-> reports[j][1].corrupt]
  BY <1>3 DEF Messages
<1> QED BY <1>2, <1>3, <1>4 DEF Message

(* The initial states. *)
LEMMA InitFeed == Init => FeedInv
<1> SUFFICES ASSUME Init PROVE FeedInv
  OBVIOUS
<1> USE DEF Init
<1>1. TypeOK
  <2>1. /\ batch \in Seq(Messages) /\ outstanding \in Seq(Messages) /\ topic \in Seq(Messages)
        /\ reports \in Seq(Messages \X BOOLEAN) /\ Len(outstanding) = 0 /\ Len(reports) = 0
    OBVIOUS
  <2>2. Queued <= QueueMax
    BY <2>1, FeedAssumption DEF Queued
  <2> QED BY <2>1, <2>2, FeedAssumption DEF TypeOK
<1>2. IsFiniteSet(held)
  BY FS_EmptySet
<1>3. LoopOK
  BY FeedAssumption DEF LoopOK, Running
<1>4. ASSUME NEW e PROVE Copies(e) = 0 /\ ~IsCorrupted(e)
  <2>1. CountIn(<<>>, e) = 0
    <3>1. {i \in DOMAIN <<>> : (<<>>)[i].event = e} = {}
      OBVIOUS
    <3> QED BY <3>1, FS_EmptySet DEF CountIn
  <2>2. Cardinality(HeldOf(held, e)) = 0
    <3>1. HeldOf(held, e) = {}
      BY DEF HeldOf
    <3> QED BY <3>1, FS_EmptySet
  <2>3. Copies(e) = 0
    BY <1>1, <1>2, <2>1, <2>2, CopiesParts
  <2>4. ~IsCorrupted(e)
    BY DEF IsCorrupted, Contains
  <2> QED BY <2>3, <2>4
<1>5. SourceOK /\ BucketsAreExclusive
  BY <1>4 DEF SourceOK, BucketsAreExclusive
<1>6. LoopDropsNothing
  BY DEF LoopDropsNothing
<1>7. ReportsOK /\ ManifestIsHonest /\ ServedOK /\ ClosedOK
  BY DEF ReportsOK, ManifestIsHonest, ServedOK, ClosedOK
<1> QED BY <1>1, <1>2, <1>3, <1>5, <1>6, <1>7 DEF FeedInv

(* The four places after a step, with their types. *)
LEMMA CopiesPartsAfter ==
    ASSUME TypeOK', IsFiniteSet(held'), NEW e
    PROVE  /\ CountIn(batch', e) \in Nat /\ CountIn(outstanding', e) \in Nat /\ CountIn(topic', e) \in Nat
           /\ IsFiniteSet(HeldOf(held', e)) /\ Cardinality(HeldOf(held', e)) \in Nat
           /\ Copies(e)' \in Nat
<1>1. CountIn(batch', e) \in Nat /\ CountIn(outstanding', e) \in Nat /\ CountIn(topic', e) \in Nat
  BY PlacesFinite DEF TypeOK, Messages, Events
<1>2. HeldOf(held', e) \in SUBSET held'
  BY DEF HeldOf
<1>3. IsFiniteSet(HeldOf(held', e))
  BY <1>2, FS_Subset
<1>4. Cardinality(HeldOf(held', e)) \in Nat
  BY <1>3, FS_CardinalityType
<1> QED BY <1>1, <1>3, <1>4, CopiesAfter

(* A message that is in a sequence is counted there. *)
LEMMA ContainedIsCounted ==
    ASSUME NEW s \in Seq(Messages), NEW e, NEW c, Contains(s, Message(e, c))
    PROVE  CountIn(s, e) > 0
<1>1. PICK i \in 1..Len(s) : s[i] = Message(e, c)
  BY DEF Contains
<1>2. s[i].event = e
  BY <1>1 DEF Message
<1> QED BY <1>2, CountPositive

(* What Append adds. *)
LEMMA ContainsAppend ==
    ASSUME NEW S, NEW s \in Seq(S), NEW m \in S, NEW x
    PROVE  Contains(Append(s, m), x) <=> Contains(s, x) \/ x = m
<1>1. /\ Len(Append(s, m)) = Len(s) + 1 /\ Len(s) \in Nat
      /\ \A i \in 1..Len(s) : Append(s, m)[i] = s[i]
      /\ Append(s, m)[Len(s) + 1] = m
  BY AppendProperties, LenProperties
<1>2. 1..Len(Append(s, m)) = (1..Len(s)) \cup {Len(s) + 1}
  BY <1>1
<1> QED BY <1>1, <1>2 DEF Contains

(* What is left without the i-th message. *)
LEMMA ContainsWithout ==
    ASSUME NEW s \in Seq(Messages), NEW t \in Seq(Messages), NEW i \in 1..Len(s),
           IsWithout(t, s, i), NEW x, Contains(t, x)
    PROVE  Contains(s, x)
<1>1. Len(s) \in Nat /\ Len(t) \in Nat /\ Len(t) = Len(s) - 1
  BY LenProperties DEF IsWithout
<1>2. PICK j \in 1..Len(t) : t[j] = x
  BY DEF Contains
<1>3. t[j] = IF j < i THEN s[j] ELSE s[j + 1]
  BY DEF IsWithout
<1>4. j \in 1..Len(s) /\ j + 1 \in 1..Len(s)
  BY <1>1
<1> QED BY <1>2, <1>3, <1>4 DEF Contains

(* Tail takes one message out. *)
LEMMA TailIsWithout ==
    ASSUME NEW s \in Seq(Messages), s # <<>>
    PROVE  /\ Tail(s) \in Seq(Messages) /\ 1 \in 1..Len(s) /\ Head(s) = s[1]
           /\ IsWithout(Tail(s), s, 1)
<1>1. Len(s) \in Nat \ {0}
  BY EmptySeq
<1>2. /\ Tail(s) \in Seq(Messages) /\ Len(Tail(s)) = Len(s) - 1
      /\ \A j \in 1..Len(Tail(s)) : Tail(s)[j] = s[j + 1]
  BY HeadTailProperties
<1>3. \A j \in 1..Len(Tail(s)) : ~(j < 1)
  BY <1>1, <1>2
<1>4. Head(s) = s[1]
  OBVIOUS
<1> QED BY <1>1, <1>2, <1>3, <1>4 DEF IsWithout

(* The same of RemoveAt, which librdkafka's queue loses messages by. *)
LEMMA RemoveAtIsWithout ==
    ASSUME NEW s \in Seq(Messages), NEW i \in 1..Len(s)
    PROVE  RemoveAt(s, i) \in Seq(Messages) /\ IsWithout(RemoveAt(s, i), s, i)
<1> DEFINE a == SubSeq(s, 1, i - 1)
           b == SubSeq(s, i + 1, Len(s))
<1>1. Len(s) \in Nat /\ i \in Nat /\ i >= 1 /\ i <= Len(s) /\ i - 1 \in Nat /\ \A j \in 1..Len(s) : s[j] \in Messages
  BY LenProperties
<1>2. (\A j \in 1..(i - 1) : s[j] \in Messages) /\ (\A j \in (i + 1)..Len(s) : s[j] \in Messages)
  BY <1>1
<1>3. /\ a \in Seq(Messages) /\ Len(a) = i - 1
      /\ \A j \in 1..(i - 1) : a[j] = s[j]
  <2>1. /\ a \in Seq(Messages)
        /\ Len(a) = (IF 1 <= i - 1 THEN (i - 1) - 1 + 1 ELSE 0)
        /\ \A j \in 1..((i - 1) - 1 + 1) : a[j] = s[1 + j - 1]
    BY <1>1, <1>2, SubSeqProperties
  <2> HIDE DEF a
  <2> QED BY <1>1, <2>1
<1>4. /\ b \in Seq(Messages) /\ Len(b) = Len(s) - i
      /\ \A j \in 1..(Len(s) - i) : b[j] = s[i + j]
  <2>1. /\ b \in Seq(Messages)
        /\ Len(b) = (IF i + 1 <= Len(s) THEN Len(s) - (i + 1) + 1 ELSE 0)
        /\ \A j \in 1..(Len(s) - (i + 1) + 1) : b[j] = s[(i + 1) + j - 1]
    BY <1>1, <1>2, SubSeqProperties
  <2> HIDE DEF b
  <2> QED BY <1>1, <2>1
<1>5. RemoveAt(s, i) = a \o b
  BY DEF RemoveAt
<1> HIDE DEF a, b
<1>6. /\ a \o b \in Seq(Messages) /\ Len(a \o b) = Len(a) + Len(b)
      /\ \A j \in 1..(Len(a) + Len(b)) : (a \o b)[j] = IF j <= Len(a) THEN a[j] ELSE b[j - Len(a)]
  BY <1>3, <1>4, ConcatProperties
<1>7. ASSUME NEW j \in 1..(Len(s) - 1) PROVE (a \o b)[j] = IF j < i THEN s[j] ELSE s[j + 1]
  <2>1. j \in Nat /\ j \in 1..(Len(a) + Len(b)) /\ (j < i <=> j <= Len(a))
    BY <1>1, <1>3, <1>4
  <2>2. CASE j < i
    <3>1. j \in 1..(i - 1)
      BY <1>1, <2>1, <2>2
    <3> QED BY <1>3, <1>6, <2>1, <2>2, <3>1
  <2>3. CASE ~(j < i)
    <3>1. j - (i - 1) \in 1..(Len(s) - i) /\ i + (j - (i - 1)) = j + 1
      BY <1>1, <2>1, <2>3
    <3>2. b[j - (i - 1)] = s[j + 1]
      BY <1>4, <3>1
    <3> QED BY <1>3, <1>6, <2>1, <2>3, <3>2
  <2> QED BY <2>2, <2>3
<1>8. Len(a \o b) = Len(s) - 1
  BY <1>1, <1>3, <1>4, <1>6
<1> QED BY <1>5, <1>6, <1>7, <1>8 DEF IsWithout

(* A step that makes no copy and corrupts nothing keeps the buckets. *)
LEMMA NoNewCopies ==
    ASSUME FeedInv, TypeOK', IsFiniteSet(held'), source' = source,
           \A e \in Events : Copies(e)' <= Copies(e) /\ (IsCorrupted(e)' => IsCorrupted(e))
    PROVE  SourceOK' /\ BucketsAreExclusive'
<1>1. ASSUME NEW e \in Events
      PROVE  Copies(e) \in Nat /\ Copies(e)' \in Nat /\ (IsCorrupted(e)' => Copies(e)' > 0)
  <2>1. Copies(e) \in Nat
    BY CopiesParts DEF FeedInv
  <2>2. /\ CountIn(batch', e) \in Nat /\ CountIn(outstanding', e) \in Nat /\ CountIn(topic', e) \in Nat
        /\ Cardinality(HeldOf(held', e)) \in Nat /\ Copies(e)' \in Nat
    BY CopiesPartsAfter
  <2>3. ASSUME IsCorrupted(e)'
        PROVE  CountIn(batch', e) > 0 \/ CountIn(outstanding', e) > 0 \/ CountIn(topic', e) > 0
    <3>1. batch' \in Seq(Messages) /\ outstanding' \in Seq(Messages) /\ topic' \in Seq(Messages)
      BY DEF TypeOK, Messages, Events
    <3>2. \/ Contains(batch', Message(e, TRUE)) \/ Contains(outstanding', Message(e, TRUE))
          \/ Contains(topic', Message(e, TRUE))
      BY <2>3, CorruptedAfter
    <3> QED BY <3>1, <3>2, ContainedIsCounted
  <2>4. IsCorrupted(e)' => Copies(e)' > 0
    BY <2>2, <2>3, CopiesAfter
  <2> QED BY <2>1, <2>2, <2>4
<1>2. ASSUME NEW e \in Events
      PROVE  /\ Copies(e)' <= IF e \in RideIds THEN 2 ELSE 1
             /\ IsCorrupted(e)' => Copies(e)' = 1
  <2>1. /\ Copies(e) <= IF e \in RideIds THEN 2 ELSE 1
        /\ IsCorrupted(e) => Copies(e) = 1
    BY DEF FeedInv, BucketsAreExclusive
  <2>2. Copies(e)' <= Copies(e) /\ (IsCorrupted(e)' => IsCorrupted(e))
    OBVIOUS
  <2>3. CASE e \in RideIds
    BY <1>1, <2>1, <2>2, <2>3
  <2>4. CASE e \notin RideIds
    BY <1>1, <2>1, <2>2, <2>4
  <2> QED BY <2>3, <2>4
<1>3. BucketsAreExclusive'
  BY <1>2 DEF BucketsAreExclusive, Events
<1>4. ASSUME NEW e \in source PROVE Copies(e)' = 0
  <2>1. e \in Events /\ Copies(e) = 0
    BY DEF FeedInv, SourceOK, TypeOK
  <2> QED BY <1>1, <2>1
<1>5. SourceOK'
  BY <1>4 DEF SourceOK
<1> QED BY <1>3, <1>5

(* Serving the reports: what they say is in the manifest or among the      *)
(* failed deliveries afterwards, and the manifest stays honest.            *)
LEMMA ServeFacts ==
    ASSUME FeedInv, Serve, topic' = topic, pc' = pc
    PROVE  /\ manifest' \subseteq RideIds \cup Payments /\ failed' \subseteq Events
           /\ reports' = <<>>
           /\ ReportsOK' /\ ManifestIsHonest' /\ ServedOK'
           /\ failed \subseteq failed'
           /\ \A j \in 1..Len(reports) : ~reports[j][2] => reports[j][1].event \in failed'
<1> DEFINE waiting == {reports[i] : i \in DOMAIN reports}
<1>1. TypeOK /\ ReportsOK /\ ManifestIsHonest /\ ServedOK
  BY DEF FeedInv
<1>2. /\ manifest' = manifest \cup {r[1].event : r \in {r \in waiting : ToManifest(r)}}
      /\ failed' = failed \cup {r[1].event : r \in {r \in waiting : ~r[2]}}
      /\ reports' = <<>>
  BY DEF Serve
<1>3. DOMAIN reports = 1..Len(reports)
  BY <1>1, LenProperties DEF TypeOK
<1>4. ASSUME NEW e \in manifest', e \notin manifest
      PROVE  \E j \in 1..Len(reports) : ToManifest(reports[j]) /\ reports[j][1].event = e
  BY <1>2, <1>3, <1>4
<1>5. ASSUME NEW e \in failed', e \notin failed
      PROVE  \E j \in 1..Len(reports) : reports[j][1].event = e
  BY <1>2, <1>3, <1>5
<1>6. \A j \in 1..Len(reports) : ToManifest(reports[j]) => reports[j][1].event \in manifest'
  BY <1>2, <1>3
<1>7. \A j \in 1..Len(reports) : ~reports[j][2] => reports[j][1].event \in failed'
  BY <1>2, <1>3
<1>8. manifest \subseteq manifest' /\ failed \subseteq failed'
  BY <1>2
<1> HIDE DEF waiting
<1>9. ASSUME NEW e \in manifest' PROVE e \in RideIds \cup Payments /\ Contains(topic, Clean(e))
  <2>1. CASE e \in manifest
    BY <1>1, <2>1 DEF TypeOK, ManifestIsHonest
  <2>2. CASE e \notin manifest
    <3>1. PICK j \in 1..Len(reports) : ToManifest(reports[j]) /\ reports[j][1].event = e
      BY <1>4, <2>2
    <3>2. /\ reports[j][1].event \in Events /\ reports[j][1].corrupt \in BOOLEAN
          /\ reports[j][1] = Message(reports[j][1].event, reports[j][1].corrupt)
      BY <1>1, ReportTypes
    <3>3. reports[j][2] /\ reports[j][1].corrupt = FALSE /\ e \in RideIds \cup Payments
      BY <3>1, <3>2 DEF ToManifest, Events
    <3>4. reports[j][1] = Clean(e)
      BY <3>1, <3>2, <3>3 DEF Clean
    <3>5. Contains(topic, reports[j][1])
      BY <1>1, <3>3 DEF ReportsOK
    <3> QED BY <3>3, <3>4, <3>5
  <2> QED BY <2>1, <2>2
<1>10. ASSUME NEW e \in failed' PROVE e \in Events
  <2>1. CASE e \in failed
    BY <1>1, <2>1 DEF TypeOK
  <2>2. CASE e \notin failed
    BY <1>1, <1>5, <2>2, ReportTypes
  <2> QED BY <2>1, <2>2
<1>11. ReportsOK'
  BY <1>2 DEF ReportsOK
<1>12. ManifestIsHonest'
  BY <1>9 DEF ManifestIsHonest, Contains, Clean, Message
<1>13. ASSUME pc # "killed", NEW i \in 1..Len(topic), ~topic[i].corrupt, topic[i].event \notin Pings
       PROVE  topic[i].event \in manifest' \cup failed'
  <2>1. CASE topic[i].event \in manifest \cup failed
    BY <1>8, <2>1
  <2>2. CASE \E j \in 1..Len(reports) : reports[j][1] = topic[i]
    <3>1. PICK j \in 1..Len(reports) : reports[j][1] = topic[i]
      BY <2>2
    <3>2. CASE reports[j][2]
      <4>1. ToManifest(reports[j])
        BY <1>13, <3>1, <3>2 DEF ToManifest
      <4> QED BY <1>6, <3>1, <4>1
    <3>3. CASE ~reports[j][2]
      BY <1>7, <3>1, <3>3
    <3> QED BY <3>2, <3>3
  <2> QED BY <1>1, <1>13, <2>1, <2>2 DEF ServedOK
<1>14. ServedOK'
  BY <1>13 DEF ServedOK
<1> QED BY <1>2, <1>7, <1>8, <1>9, <1>10, <1>11, <1>12, <1>14

(* A step of the loop that touches no message: where the program is, the   *)
(* tick and the manifest's lines on disk are all it changes.               *)
LEMMA QuietStep ==
    ASSUME FeedInv, TypeOK', LoopOK', ClosedOK',
           UNCHANGED <<source, batch, outstanding, reports, topic, held, failed>>,
           manifest' \subseteq manifest, manifest' = manifest \/ pc' = "killed",
           pc = "killed" => pc' = "killed", Running' => Running
    PROVE  FeedInv'
<1>1. \A e : Copies(e)' = Copies(e) /\ (IsCorrupted(e)' <=> IsCorrupted(e))
  BY NothingMoves
<1>2. IsFiniteSet(held')
  BY DEF FeedInv
<1>3. \A e \in Events : Copies(e) \in Nat
  BY CopiesParts DEF FeedInv
<1>4. SourceOK' /\ BucketsAreExclusive'
  <2>1. \A e \in Events : Copies(e)' <= Copies(e) /\ (IsCorrupted(e)' => IsCorrupted(e))
    BY <1>1, <1>3
  <2> QED BY <1>2, <2>1, NoNewCopies
<1>5. LoopDropsNothing'
  <2>1. CASE ~Running'
    BY <2>1 DEF LoopDropsNothing, Running
  <2>2. CASE Running'
    BY <1>1, <2>2 DEF FeedInv, LoopDropsNothing, Running, Events
  <2> QED BY <2>1, <2>2
<1>6. ReportsOK'
  BY DEF FeedInv, ReportsOK, Contains
<1>7. ManifestIsHonest'
  BY DEF FeedInv, ManifestIsHonest, Contains, Clean, Message
<1>8. ServedOK'
  BY DEF FeedInv, ServedOK
<1> QED BY <1>2, <1>4, <1>5, <1>6, <1>7, <1>8 DEF FeedInv

(* What the types are after a step that leaves all messages where they are. *)
LEMMA QuietTypes ==
    ASSUME TypeOK, UNCHANGED <<source, held, batch, outstanding, reports, topic, failed>>,
           now' \in 0..MaxTicks, \A h \in held : h[1] >= now', manifest' \subseteq manifest, unflushed' \in Nat,
           pc' \in {"tick", "on_tick", "send", "closing", "closed", "killed"}
    PROVE  TypeOK'
BY DEF TypeOK, Queued, Messages, Events

(* The steps of the program counter: the end of on_tick, a full queue, an  *)
(* interrupt, and the crash.                                               *)
LEMMA PcStep ==
    ASSUME FeedInv, OnTickDone \/ SendFails \/ Interrupt \/ Crash
    PROVE  FeedInv'
<1>1. /\ UNCHANGED <<now, source, held, batch, outstanding, reports, topic, failed, unflushed>>
      /\ manifest' \subseteq manifest /\ (manifest' = manifest \/ pc' = "killed")
      /\ pc' \in {"send", "closing", "killed"} /\ (pc' = "send" => pc = "on_tick")
      /\ pc # "killed"
  BY DEF OnTickDone, SendFails, Interrupt, Crash, imperfector, transport
<1>2. TypeOK /\ LoopOK
  BY DEF FeedInv
<1>3. TypeOK'
  <2>1. now' \in 0..MaxTicks /\ (\A h \in held : h[1] >= now') /\ unflushed' \in Nat
    BY <1>1, <1>2 DEF TypeOK
  <2> QED BY <1>1, <1>2, <2>1, QuietTypes
<1>4. LoopOK'
  BY <1>1, <1>2 DEF LoopOK, Running
<1>5. ClosedOK'
  BY <1>1 DEF ClosedOK
<1>6. Running' => Running
  BY <1>1 DEF Running
<1> QED BY <1>1, <1>3, <1>4, <1>5, <1>6, QuietStep

(* The end of a tick. *)
LEMMA TickDoneInv ==
    ASSUME FeedInv, TickDone
    PROVE  FeedInv'
<1>1. /\ UNCHANGED <<source, held, batch, outstanding, reports, topic, failed, manifest, unflushed>>
      /\ pc = "send" /\ batch = <<>> /\ now' = now + 1
      /\ pc' = IF now + 1 < MaxTicks THEN "tick" ELSE "closing"
  BY DEF TickDone, transport
<1>2. TypeOK /\ LoopOK
  BY DEF FeedInv
<1>3. now \in Nat /\ now < MaxTicks /\ MaxTicks \in Nat
  BY <1>1, <1>2, FeedAssumption DEF TypeOK, LoopOK, Running
<1>4. \A h \in held : h[1] >= now'
  <2> SUFFICES ASSUME NEW h \in held PROVE h[1] >= now'
    OBVIOUS
  <2>1. h[1] \in Nat /\ h[1] > now
    BY <1>1, <1>2 DEF TypeOK, LoopOK
  <2> QED BY <1>1, <1>3, <2>1
<1>5. TypeOK'
  <2>1. now' \in 0..MaxTicks
    BY <1>1, <1>3
  <2>2. pc' \in {"tick", "closing"} /\ unflushed' \in Nat
    BY <1>1, <1>2 DEF TypeOK
  <2> QED BY <1>1, <1>2, <1>4, <2>1, <2>2, QuietTypes
<1>6. LoopOK'
  BY <1>1 DEF LoopOK, Running
<1>7. ClosedOK' /\ (Running' => Running)
  BY <1>1 DEF ClosedOK, Running
<1> QED BY <1>1, <1>5, <1>6, <1>7, QuietStep

(* Closing. *)
LEMMA CloseInv ==
    ASSUME FeedInv, Close
    PROVE  FeedInv'
<1>1. /\ UNCHANGED <<now, source, held, batch, outstanding, reports, topic, failed, manifest>>
      /\ pc = "closing" /\ pc' = "closed" /\ unflushed' = Queued
  BY DEF Close, imperfector
<1>2. TypeOK /\ LoopOK
  BY DEF FeedInv
<1>3. Len(outstanding) \in Nat /\ Len(reports) \in Nat
  BY <1>2, LenProperties DEF TypeOK
<1>4. TypeOK'
  <2>1. unflushed' \in Nat
    BY <1>1, <1>3 DEF Queued
  <2>2. now' \in 0..MaxTicks /\ \A h \in held : h[1] >= now'
    BY <1>1, <1>2 DEF TypeOK
  <2> QED BY <1>1, <1>2, <2>1, <2>2, QuietTypes
<1>5. LoopOK' /\ (Running' => Running)
  BY <1>1 DEF LoopOK, Running
<1>6. ClosedOK'
  <2>1. ASSUME unflushed' = 0 PROVE outstanding = <<>> /\ reports = <<>>
    <3>1. Len(outstanding) = 0 /\ Len(reports) = 0
      BY <1>1, <1>3, <2>1 DEF Queued
    <3> QED BY <1>2, <3>1, EmptySeq DEF TypeOK
  <2> QED BY <1>1, <2>1 DEF ClosedOK
<1> QED BY <1>1, <1>4, <1>5, <1>6, QuietStep

(* While closing, flush serves the reports. *)
LEMMA FlushServesInv ==
    ASSUME FeedInv, FlushServes
    PROVE  FeedInv'
<1>1. /\ UNCHANGED <<now, source, held, batch, outstanding, topic, unflushed, pc>>
      /\ pc = "closing" /\ Serve
  BY DEF FlushServes, imperfector
<1>2. TypeOK /\ IsFiniteSet(held)
  BY DEF FeedInv
<1>3. /\ manifest' \subseteq RideIds \cup Payments /\ failed' \subseteq Events /\ reports' = <<>>
      /\ ReportsOK' /\ ManifestIsHonest' /\ ServedOK'
  BY <1>1, ServeFacts
<1>4. TypeOK'
  <2>1. reports' \in Seq(Messages \X BOOLEAN) /\ Len(reports') = 0
    BY <1>3
  <2>2. Len(outstanding) \in Nat /\ Len(reports) \in Nat
    BY <1>2, LenProperties DEF TypeOK
  <2>3. Len(outstanding') + Len(reports') <= QueueMax
    BY <1>1, <1>2, <2>1, <2>2, FeedAssumption DEF TypeOK, Queued
  <2> QED BY <1>1, <1>2, <1>3, <2>1, <2>3 DEF TypeOK, Queued, Messages, Events
<1>5. SourceOK' /\ BucketsAreExclusive'
  <2>1. \A e \in Events : Copies(e)' = Copies(e) /\ (IsCorrupted(e)' <=> IsCorrupted(e)) /\ Copies(e) \in Nat
    BY <1>1, <1>2, NothingMoves, CopiesParts
  <2>2. \A e \in Events : Copies(e)' <= Copies(e) /\ (IsCorrupted(e)' => IsCorrupted(e))
    BY <2>1
  <2> QED BY <1>1, <1>2, <1>4, <2>2, NoNewCopies
<1>6. LoopOK' /\ LoopDropsNothing' /\ ClosedOK'
  BY <1>1 DEF LoopOK, LoopDropsNothing, ClosedOK, Running
<1> QED BY <1>1, <1>2, <1>3, <1>4, <1>5, <1>6 DEF FeedInv

(* Sending one message of the batch moves its copy into the queue. *)
LEMMA SendInv ==
    ASSUME FeedInv, Send
    PROVE  FeedInv'
<1>1. /\ UNCHANGED <<now, source, held, topic, unflushed, pc>>
      /\ pc = "send" /\ batch # <<>> /\ Queued < QueueMax /\ Serve
      /\ outstanding' = Append(outstanding, Head(batch)) /\ batch' = Tail(batch)
  BY DEF Send, imperfector
<1>2. TypeOK /\ IsFiniteSet(held)
  BY DEF FeedInv
<1>3. /\ manifest' \subseteq RideIds \cup Payments /\ failed' \subseteq Events /\ reports' = <<>>
      /\ ReportsOK' /\ ManifestIsHonest' /\ ServedOK' /\ failed \subseteq failed'
      /\ \A j \in 1..Len(reports) : ~reports[j][2] => reports[j][1].event \in failed'
  BY <1>1, ServeFacts
<1>4. batch \in Seq(Messages) /\ outstanding \in Seq(Messages)
  BY <1>2 DEF TypeOK
<1>5. PICK m : m = Head(batch)
  OBVIOUS
<1>6. /\ batch' \in Seq(Messages) /\ 1 \in 1..Len(batch) /\ m = batch[1] /\ m \in Messages
      /\ IsWithout(batch', batch, 1)
  BY <1>1, <1>4, <1>5, TailIsWithout, HeadTailProperties
<1>7. outstanding' \in Seq(Messages) /\ Len(outstanding') = Len(outstanding) + 1 /\ outstanding' = Append(outstanding, m)
  BY <1>1, <1>4, <1>5, <1>6, AppendProperties
<1>8. TypeOK'
  <2>1. reports' \in Seq(Messages \X BOOLEAN) /\ Len(reports') = 0
    BY <1>3
  <2>2. Len(outstanding) \in Nat /\ Len(reports) \in Nat
    BY <1>2, LenProperties DEF TypeOK
  <2>3. Len(outstanding') + Len(reports') <= QueueMax
    BY <1>1, <1>7, <2>1, <2>2, FeedAssumption DEF Queued
  <2> QED BY <1>1, <1>2, <1>3, <1>6, <1>7, <2>1, <2>3 DEF TypeOK, Queued, Messages, Events
<1>9. ASSUME NEW e \in Events
      PROVE  Copies(e)' = Copies(e) /\ Copies(e) \in Nat /\ (IsCorrupted(e)' => IsCorrupted(e))
  <2>1. /\ CountIn(batch, e) \in Nat /\ CountIn(outstanding, e) \in Nat /\ CountIn(topic, e) \in Nat
        /\ Cardinality(HeldOf(held, e)) \in Nat /\ Copies(e) \in Nat
        /\ Copies(e) = CountIn(batch, e) + CountIn(outstanding, e) + CountIn(topic, e)
                          + Cardinality(HeldOf(held, e))
    BY <1>2, CopiesParts
  <2>2. CountIn(batch, e) = CountIn(batch', e) + (IF m.event = e THEN 1 ELSE 0)
    BY <1>4, <1>6, CountWithout
  <2>3. CountIn(outstanding', e) = CountIn(outstanding, e) + (IF m.event = e THEN 1 ELSE 0)
    BY <1>4, <1>6, <1>7, CountAppend
  <2>4. CountIn(batch', e) \in Nat
    BY <1>6, PlacesFinite
  <2>5. Copies(e)' = CountIn(batch', e) + CountIn(outstanding', e) + CountIn(topic, e)
                        + Cardinality(HeldOf(held, e))
    BY <1>1, CopiesAfter
  <2>6. Copies(e)' = Copies(e)
    BY <2>1, <2>2, <2>3, <2>4, <2>5
  <2>7. ASSUME IsCorrupted(e)' PROVE IsCorrupted(e)
    <3>1. CASE Contains(batch', Message(e, TRUE))
      BY <1>4, <1>6, <3>1, ContainsWithout, CorruptedBefore
    <3>2. CASE Contains(outstanding', Message(e, TRUE))
      <4>1. Contains(Append(outstanding, m), Message(e, TRUE))
        BY <1>7, <3>2
      <4>2. Contains(outstanding, Message(e, TRUE)) \/ Message(e, TRUE) = m
        <5>1. \A x : Contains(Append(outstanding, m), x) <=> Contains(outstanding, x) \/ x = m
          BY <1>4, <1>6, ContainsAppend
        <5> QED BY <4>1, <5>1
      <4>3. Contains(batch, m)
        BY <1>6 DEF Contains
      <4> QED BY <4>2, <4>3, CorruptedBefore
    <3>3. CASE Contains(topic', Message(e, TRUE))
      BY <1>1, <3>3, CorruptedBefore
    <3> QED BY <2>7, <3>1, <3>2, <3>3, CorruptedAfter
  <2> QED BY <2>1, <2>6, <2>7
<1>10. SourceOK' /\ BucketsAreExclusive'
  <2>1. \A e \in Events : Copies(e)' <= Copies(e) /\ (IsCorrupted(e)' => IsCorrupted(e))
    BY <1>9
  <2> QED BY <1>1, <1>2, <1>8, <2>1, NoNewCopies
<1>11. ASSUME NEW e \in Events \ source PROVE Copies(e)' > 0 \/ e \in failed'
  <2>1. DOMAIN reports = 1..Len(reports)
    BY <1>2, LenProperties DEF TypeOK
  <2>2. \/ Copies(e) > 0 \/ e \in failed
        \/ \E i \in 1..Len(reports) : reports[i][1].event = e /\ ~reports[i][2]
    BY <1>1, <2>1 DEF FeedInv, LoopDropsNothing
  <2> QED BY <1>3, <1>9, <2>2
<1>12. LoopDropsNothing'
  BY <1>1, <1>11 DEF LoopDropsNothing, Events
<1>13. LoopOK' /\ ClosedOK'
  BY <1>1 DEF FeedInv, LoopOK, ClosedOK, Running
<1> QED BY <1>1, <1>2, <1>3, <1>8, <1>10, <1>12, <1>13 DEF FeedInv

(* A delivery moves a copy into the log, or loses it and says so. *)
LEMMA DeliverInv ==
    ASSUME FeedInv, NEW i, NEW appended \in BOOLEAN, NEW acked \in BOOLEAN, Deliver(i, appended, acked)
    PROVE  FeedInv'
<1>1. PICK m : m = outstanding[i]
  OBVIOUS
<1>2. /\ UNCHANGED <<now, source, held, batch, manifest, failed, unflushed, pc>>
      /\ i \in DOMAIN outstanding /\ (acked => appended)
      /\ outstanding' = RemoveAt(outstanding, i)
      /\ topic' = IF appended THEN Append(topic, m) ELSE topic
      /\ reports' = Append(reports, <<m, acked>>)
  BY <1>1 DEF Deliver, NextOut, imperfector
<1>3. TypeOK /\ IsFiniteSet(held)
  BY DEF FeedInv
<1>4. /\ outstanding \in Seq(Messages) /\ topic \in Seq(Messages) /\ batch \in Seq(Messages)
      /\ reports \in Seq(Messages \X BOOLEAN)
  BY <1>3 DEF TypeOK
<1>5. Len(outstanding) \in Nat /\ Len(reports) \in Nat /\ Len(topic) \in Nat /\ i \in 1..Len(outstanding) /\ m \in Messages
  BY <1>1, <1>2, <1>4, LenProperties
<1>6. outstanding' \in Seq(Messages) /\ IsWithout(outstanding', outstanding, i)
  BY <1>2, <1>4, <1>5, RemoveAtIsWithout
<1>7. /\ reports' \in Seq(Messages \X BOOLEAN) /\ Len(reports') = Len(reports) + 1
      /\ \A j \in 1..Len(reports) : reports'[j] = reports[j]
      /\ reports'[Len(reports) + 1] = <<m, acked>>
  <2>1. <<m, acked>> \in Messages \X BOOLEAN
    BY <1>5
  <2> QED BY <1>2, <1>4, <2>1, AppendProperties
<1>8. /\ topic' \in Seq(Messages) /\ Len(topic') = (IF appended THEN Len(topic) + 1 ELSE Len(topic))
      /\ \A j \in 1..Len(topic) : topic'[j] = topic[j]
      /\ appended => topic'[Len(topic) + 1] = m
  <2>1. CASE appended
    BY <1>2, <1>4, <1>5, <2>1, AppendProperties
  <2>2. CASE ~appended
    BY <1>2, <1>4, <2>2
  <2> QED BY <2>1, <2>2
<1>9. TypeOK'
  <2>1. Len(outstanding') = Len(outstanding) - 1
    BY <1>6 DEF IsWithout
  <2>2. Len(outstanding) + Len(reports) <= QueueMax
    BY <1>3 DEF TypeOK, Queued
  <2>3. Len(outstanding') + Len(reports') <= QueueMax
    BY <1>5, <1>7, <2>1, <2>2
  <2> QED BY <1>2, <1>3, <1>6, <1>7, <1>8, <2>3 DEF TypeOK, Queued, Messages, Events
<1>10. \A x : Contains(topic, x) => Contains(topic', x)
  <2> SUFFICES ASSUME NEW x, Contains(topic, x) PROVE Contains(topic', x)
    OBVIOUS
  <2>1. PICK j \in 1..Len(topic) : topic[j] = x
    BY DEF Contains
  <2>2. j \in 1..Len(topic')
    BY <1>5, <1>8
  <2> QED BY <1>8, <2>1, <2>2 DEF Contains
<1>11. ASSUME NEW e \in Events
       PROVE  /\ Copies(e) \in Nat
              /\ Copies(e)' = Copies(e) - (IF m.event = e /\ ~appended THEN 1 ELSE 0)
              /\ IsCorrupted(e)' => IsCorrupted(e)
  <2>1. /\ CountIn(batch, e) \in Nat /\ CountIn(outstanding, e) \in Nat /\ CountIn(topic, e) \in Nat
        /\ Cardinality(HeldOf(held, e)) \in Nat /\ Copies(e) \in Nat
        /\ Copies(e) = CountIn(batch, e) + CountIn(outstanding, e) + CountIn(topic, e)
                          + Cardinality(HeldOf(held, e))
    BY <1>3, CopiesParts
  <2>2. CountIn(outstanding, e) = CountIn(outstanding', e) + (IF m.event = e THEN 1 ELSE 0)
    BY <1>1, <1>4, <1>5, <1>6, CountWithout
  <2>3. CountIn(topic', e) = CountIn(topic, e) + (IF m.event = e /\ appended THEN 1 ELSE 0)
    <3>1. CASE appended
      BY <1>2, <1>4, <1>5, <3>1, CountAppend
    <3>2. CASE ~appended
      BY <1>2, <2>1, <3>2
    <3> QED BY <3>1, <3>2
  <2>4. CountIn(outstanding', e) \in Nat
    BY <1>6, PlacesFinite
  <2>5. Copies(e)' = CountIn(batch, e) + CountIn(outstanding', e) + CountIn(topic', e)
                        + Cardinality(HeldOf(held, e))
    BY <1>2, CopiesAfter
  <2>6. Copies(e)' = Copies(e) - (IF m.event = e /\ ~appended THEN 1 ELSE 0)
    BY <2>1, <2>2, <2>3, <2>4, <2>5
  <2>7. ASSUME IsCorrupted(e)' PROVE IsCorrupted(e)
    <3>1. CASE Contains(batch', Message(e, TRUE))
      BY <1>2, <3>1, CorruptedBefore
    <3>2. CASE Contains(outstanding', Message(e, TRUE))
      BY <1>4, <1>5, <1>6, <3>2, ContainsWithout, CorruptedBefore
    <3>3. CASE Contains(topic', Message(e, TRUE))
      <4>1. Contains(topic, Message(e, TRUE)) \/ Message(e, TRUE) = m
        BY <1>2, <1>4, <1>5, <3>3, ContainsAppend
      <4>2. Contains(outstanding, m)
        BY <1>1, <1>5 DEF Contains
      <4> QED BY <4>1, <4>2, CorruptedBefore
    <3> QED BY <2>7, <3>1, <3>2, <3>3, CorruptedAfter
  <2> QED BY <2>1, <2>6, <2>7
<1>12. SourceOK' /\ BucketsAreExclusive'
  <2>1. \A e \in Events : Copies(e)' <= Copies(e) /\ (IsCorrupted(e)' => IsCorrupted(e))
    BY <1>11
  <2> QED BY <1>2, <1>3, <1>9, <2>1, NoNewCopies
<1>13. 1..Len(reports') = (1..Len(reports)) \cup {Len(reports) + 1} /\ DOMAIN reports' = 1..Len(reports')
  BY <1>5, <1>7, LenProperties
<1>14. ASSUME Running, NEW e \in Events \ source
       PROVE  \/ Copies(e)' > 0 \/ e \in failed
              \/ \E j \in 1..Len(reports') : reports'[j][1].event = e /\ ~reports'[j][2]
  <2>1. DOMAIN reports = 1..Len(reports)
    BY <1>4, LenProperties
  <2>2. \/ Copies(e) > 0 \/ e \in failed
        \/ \E j \in 1..Len(reports) : reports[j][1].event = e /\ ~reports[j][2]
    BY <1>14, <2>1 DEF FeedInv, LoopDropsNothing, Running
  <2>3. CASE Copies(e) > 0 /\ m.event = e /\ ~appended
    <3>1. /\ Len(reports) + 1 \in 1..Len(reports')
          /\ reports'[Len(reports) + 1][1].event = e /\ ~reports'[Len(reports) + 1][2]
      BY <1>2, <1>7, <1>13, <2>3
    <3> QED BY <3>1
  <2>4. CASE Copies(e) > 0 /\ ~(m.event = e /\ ~appended)
    BY <1>11, <2>4
  <2>5. CASE \E j \in 1..Len(reports) : reports[j][1].event = e /\ ~reports[j][2]
    BY <1>7, <1>13, <2>5
  <2> QED BY <2>2, <2>3, <2>4, <2>5
<1>15. LoopDropsNothing'
  BY <1>2, <1>13, <1>14 DEF LoopDropsNothing, Running, Events
<1>16. ReportsOK'
  <2>1. ASSUME NEW j \in 1..Len(reports'), reports'[j][2] PROVE Contains(topic', reports'[j][1])
    <3>1. CASE j \in 1..Len(reports)
      BY <1>7, <1>10, <2>1, <3>1 DEF FeedInv, ReportsOK
    <3>2. CASE j = Len(reports) + 1
      <4>1. appended /\ reports'[j][1] = m
        BY <1>2, <1>7, <2>1, <3>2
      <4>2. Len(topic) + 1 \in 1..Len(topic')
        BY <1>5, <1>8, <4>1
      <4> QED BY <1>8, <4>1, <4>2 DEF Contains
    <3> QED BY <1>13, <3>1, <3>2
  <2> QED BY <2>1 DEF ReportsOK, Contains
<1>17. ManifestIsHonest'
  <2>1. \A e \in manifest : Contains(topic', Clean(e))
    BY <1>10 DEF FeedInv, ManifestIsHonest
  <2> QED BY <1>2, <2>1 DEF ManifestIsHonest, Contains, Clean, Message
<1>18. ServedOK'
  <2>1. ASSUME pc # "killed", NEW k \in 1..Len(topic'), ~topic'[k].corrupt, topic'[k].event \notin Pings
        PROVE  \/ topic'[k].event \in manifest \cup failed
               \/ \E j \in 1..Len(reports') : reports'[j][1] = topic'[k]
    <3>1. CASE k \in 1..Len(topic)
      BY <1>7, <1>8, <1>13, <2>1, <3>1 DEF FeedInv, ServedOK
    <3>2. CASE k = Len(topic) + 1
      <4>1. topic'[k] = m
        BY <1>5, <1>8, <3>2
      <4>2. Len(reports) + 1 \in 1..Len(reports') /\ reports'[Len(reports) + 1][1] = m
        BY <1>7, <1>13
      <4> QED BY <4>1, <4>2
    <3>3. k \in 1..Len(topic) \/ k = Len(topic) + 1
      BY <1>5, <1>8
    <3> QED BY <3>1, <3>2, <3>3
  <2> QED BY <1>2, <2>1 DEF ServedOK
<1>19. ClosedOK'
  <2>1. outstanding # <<>>
    BY <1>5
  <2> QED BY <1>2, <2>1 DEF FeedInv, ClosedOK
<1>20. LoopOK'
  BY <1>2 DEF FeedInv, LoopOK, Running
<1> QED BY <1>2, <1>3, <1>9, <1>12, <1>15, <1>16, <1>17, <1>18, <1>19, <1>20 DEF FeedInv

(* At the start of a tick what is due moves into the empty batch. *)
LEMMA ReleaseDueInv ==
    ASSUME FeedInv, ReleaseDue
    PROVE  FeedInv'
<1>1. /\ UNCHANGED <<now, source, outstanding, reports, topic, manifest, failed, unflushed>>
      /\ pc = "tick" /\ pc' = "on_tick" /\ held' = StillHeld(held)
  BY DEF ReleaseDue, transport
<1>2. PICK s \in SetToSeqs(DueNow(held)) : batch' = [i \in DOMAIN s |-> Clean(s[i][2])]
  BY DEF ReleaseDue
<1>3. TypeOK /\ IsFiniteSet(held) /\ LoopOK
  BY DEF FeedInv
<1>4. now \in Nat /\ held \subseteq Nat \X RideIds
  BY <1>3, FeedAssumption DEF TypeOK
<1>5. /\ DueNow(held) \subseteq held /\ StillHeld(held) \subseteq held
      /\ held = DueNow(held) \cup StillHeld(held) /\ DueNow(held) \cap StillHeld(held) = {}
      /\ \A h \in StillHeld(held) : h[1] > now /\ h[1] >= now
  BY <1>4 DEF DueNow, StillHeld
<1>6. IsFiniteSet(DueNow(held)) /\ IsFiniteSet(StillHeld(held))
  BY <1>3, <1>5, FS_Subset
<1>7. /\ batch' \in Seq(Messages)
      /\ \A i \in 1..Len(batch') : batch'[i].corrupt = FALSE
      /\ \A e : CountIn(batch', e) = Cardinality(HeldOf(DueNow(held), e))
  <2>1. DueNow(held) \subseteq Nat \X RideIds
    BY <1>4, <1>5
  <2>2. ASSUME NEW e
        PROVE  /\ batch' \in Seq(Messages)
               /\ \A i \in 1..Len(batch') : batch'[i].corrupt = FALSE
               /\ CountIn(batch', e) = Cardinality(HeldOf(DueNow(held), e))
    <3>1. PICK D : D = DueNow(held)
      OBVIOUS
    <3>2. IsFiniteSet(D) /\ D \subseteq Nat \X RideIds /\ s \in SetToSeqs(D)
      BY <1>6, <2>1, <3>1
    <3>3. PICK b : b = batch'
      OBVIOUS
    <3>4. Releases(b, s, D)
      BY <1>2, <3>2, <3>3 DEF Releases
    <3>5. /\ b \in Seq(Messages)
          /\ \A i \in 1..Len(b) : b[i].corrupt = FALSE
          /\ CountIn(b, e) = Cardinality(HeldOf(D, e))
      BY <3>4, CountReleased
    <3> QED BY <3>1, <3>3, <3>5
  <2> QED BY <2>2
<1>8. TypeOK'
  <2>1. held' \subseteq Nat \X RideIds /\ \A h \in held' : h[1] >= now
    BY <1>1, <1>4, <1>5
  <2> QED BY <1>1, <1>3, <1>7, <2>1 DEF TypeOK, Queued, Messages, Events
<1>9. ASSUME NEW e \in Events
      PROVE  Copies(e)' = Copies(e) /\ Copies(e) \in Nat /\ (IsCorrupted(e)' => IsCorrupted(e))
  <2>1. /\ CountIn(batch, e) \in Nat /\ CountIn(outstanding, e) \in Nat /\ CountIn(topic, e) \in Nat
        /\ Cardinality(HeldOf(held, e)) \in Nat /\ Copies(e) \in Nat
        /\ Copies(e) = CountIn(batch, e) + CountIn(outstanding, e) + CountIn(topic, e)
                          + Cardinality(HeldOf(held, e))
    BY <1>3, CopiesParts
  <2>2. CountIn(batch, e) = 0
    <3>1. batch = <<>>
      BY <1>1, <1>3 DEF LoopOK
    <3>2. {i \in DOMAIN <<>> : (<<>>)[i].event = e} = {}
      OBVIOUS
    <3> QED BY <3>1, <3>2, FS_EmptySet DEF CountIn
  <2>3. /\ Cardinality(HeldOf(DueNow(held), e)) \in Nat /\ Cardinality(HeldOf(StillHeld(held), e)) \in Nat
        /\ Cardinality(HeldOf(held, e))
             = Cardinality(HeldOf(DueNow(held), e)) + Cardinality(HeldOf(StillHeld(held), e))
    <3>1. PICK D, S : D = HeldOf(DueNow(held), e) /\ S = HeldOf(StillHeld(held), e)
      OBVIOUS
    <3>2. D \subseteq DueNow(held) /\ S \subseteq StillHeld(held)
      BY <3>1 DEF HeldOf
    <3>3. IsFiniteSet(D) /\ IsFiniteSet(S)
      BY <1>6, <3>2, FS_Subset
    <3>4. D \cap S = {} /\ HeldOf(held, e) = D \cup S
      BY <1>5, <3>1 DEF HeldOf
    <3>5. /\ Cardinality(D \cup S) = Cardinality(D) + Cardinality(S) - Cardinality(D \cap S)
          /\ Cardinality(D) \in Nat /\ Cardinality(S) \in Nat
      BY <3>3, FS_Union, FS_CardinalityType
    <3>6. Cardinality(D \cap S) = 0
      BY <3>4, FS_EmptySet
    <3> QED BY <3>1, <3>4, <3>5, <3>6
  <2>4. Copies(e)' = CountIn(batch', e) + CountIn(outstanding, e) + CountIn(topic, e)
                        + Cardinality(HeldOf(StillHeld(held), e))
    BY <1>1, CopiesAfter
  <2>5. Copies(e)' = Copies(e)
    BY <1>7, <2>1, <2>2, <2>3, <2>4
  <2>6. ~Contains(batch', Message(e, TRUE))
    BY <1>7 DEF Contains, Message
  <2>7. IsCorrupted(e)' => IsCorrupted(e)
    BY <1>1, <2>6, CorruptedAfter, CorruptedBefore
  <2> QED BY <2>1, <2>5, <2>7
<1>10. IsFiniteSet(held')
  BY <1>1, <1>6
<1>11. SourceOK' /\ BucketsAreExclusive'
  <2>1. \A e \in Events : Copies(e)' <= Copies(e) /\ (IsCorrupted(e)' => IsCorrupted(e))
    BY <1>9
  <2> QED BY <1>1, <1>8, <1>10, <2>1, NoNewCopies
<1>12. LoopDropsNothing'
  <2>1. \A e \in Events \ source :
            \/ Copies(e)' > 0 \/ e \in failed
            \/ \E i \in DOMAIN reports : reports[i][1].event = e /\ ~reports[i][2]
    BY <1>1, <1>9 DEF FeedInv, LoopDropsNothing
  <2> QED BY <1>1, <2>1 DEF LoopDropsNothing, Events
<1>13. LoopOK'
  BY <1>1, <1>3, <1>5 DEF LoopOK, Running
<1>14. ReportsOK' /\ ClosedOK'
  BY <1>1 DEF FeedInv, ReportsOK, ClosedOK, Contains
<1>15. ManifestIsHonest'
  BY <1>1 DEF FeedInv, ManifestIsHonest, Contains, Clean, Message
<1>16. ServedOK'
  BY <1>1 DEF FeedInv, ServedOK
<1> QED BY <1>8, <1>10, <1>11, <1>12, <1>13, <1>14, <1>15, <1>16 DEF FeedInv

(* An outcome of the imperfection layer's roll: at most one message and at *)
(* most one hold, of a ride event only; never neither, and a corrupted     *)
(* message is not held as well.                                            *)
Outcome(e, messages, holds) ==
    /\ messages = <<>> \/ \E c \in BOOLEAN : messages = <<Message(e, c)>>
    /\ holds = {} \/ (e \in RideIds /\ \E delay \in HoldTicks : holds = {<<now + delay, e>>})
    /\ messages = <<>> => holds # {}
    /\ messages = <<Message(e, TRUE)>> => holds = {}

(* What a message of the outcome adds to the batch. *)
LEMMA OutcomeInBatch ==
    ASSUME TypeOK, NEW e \in Events, NEW messages, NEW holds, Outcome(e, messages, holds),
           batch' = batch \o messages
    PROVE  /\ batch' \in Seq(Messages)
           /\ \A f : CountIn(batch', f) = CountIn(batch, f) + (IF f = e /\ messages # <<>> THEN 1 ELSE 0)
           /\ \A f : Contains(batch', Message(f, TRUE)) =>
                        Contains(batch, Message(f, TRUE)) \/ (f = e /\ messages = <<Message(e, TRUE)>>)
<1>1. batch \in Seq(Messages)
  BY DEF TypeOK
<1>2. CASE messages = <<>>
  <2>1. batch' = batch
    BY <1>1, <1>2, ConcatEmptySeq
  <2>2. \A f : CountIn(batch, f) \in Nat
    BY <1>1, PlacesFinite
  <2>3. \A f : CountIn(batch', f) = CountIn(batch, f) + (IF f = e /\ messages # <<>> THEN 1 ELSE 0)
    BY <1>2, <2>1, <2>2
  <2> QED BY <1>1, <2>1, <2>3
<1>3. CASE messages # <<>>
  <2>1. PICK c \in BOOLEAN : messages = <<Message(e, c)>>
    BY <1>3 DEF Outcome
  <2>2. PICK m : m = Message(e, c)
    OBVIOUS
  <2>3. m \in Messages /\ m.event = e /\ m.corrupt = c
    BY <2>2 DEF Message, Messages
  <2>4. batch' = Append(batch, m)
    BY <1>1, <2>1, <2>2, <2>3, AppendIsConcat
  <2>5. ASSUME NEW f
        PROVE  /\ Append(batch, m) \in Seq(Messages)
               /\ CountIn(Append(batch, m), f) = CountIn(batch, f) + (IF m.event = f THEN 1 ELSE 0)
    BY <1>1, <2>3, CountAppend
  <2>6. \A x : Contains(Append(batch, m), x) <=> Contains(batch, x) \/ x = m
    BY <1>1, <2>3, ContainsAppend
  <2>7. ASSUME NEW f, Message(f, TRUE) = m PROVE f = e /\ messages = <<Message(e, TRUE)>>
    <3>1. m = [event |-> f, corrupt |-> TRUE]
      BY <2>7 DEF Message
    <3>2. m.event = f /\ m.corrupt = TRUE
      BY <3>1
    <3> QED BY <2>1, <2>3, <3>2
  <2> QED BY <1>3, <2>3, <2>4, <2>5, <2>6, <2>7
<1> QED BY <1>2, <1>3

(* What a hold of the outcome adds to the list, of an event that was not   *)
(* in it.                                                                  *)
LEMMA OutcomeInHeld ==
    ASSUME TypeOK, IsFiniteSet(held), NEW e \in Events, NEW messages, NEW holds, Outcome(e, messages, holds),
           held' = held \cup holds, Cardinality(HeldOf(held, e)) = 0
    PROVE  /\ IsFiniteSet(held') /\ held' \subseteq Nat \X RideIds
           /\ \A h \in held' : h \in held \/ h[1] > now
           /\ \A f : Cardinality(HeldOf(held', f)) =
                        Cardinality(HeldOf(held, f)) + (IF f = e /\ holds # {} THEN 1 ELSE 0)
<1>1. now \in Nat /\ held \subseteq Nat \X RideIds
  BY FeedAssumption DEF TypeOK
<1>2. \A f : IsFiniteSet(HeldOf(held, f)) /\ Cardinality(HeldOf(held, f)) \in Nat
  BY CopiesParts
<1>3. CASE holds = {}
  <2>1. held' = held
    BY <1>3
  <2> QED BY <1>1, <1>2, <1>3, <2>1
<1>4. CASE holds # {}
  <2>1. PICK delay \in HoldTicks : e \in RideIds /\ holds = {<<now + delay, e>>}
    BY <1>4 DEF Outcome
  <2>2. PICK h : h = <<now + delay, e>>
    OBVIOUS
  <2>3. delay \in Nat /\ delay > 0
    BY FeedAssumption
  <2>4. h \in Nat \X RideIds /\ h[1] > now /\ h[2] = e /\ held' = held \cup {h}
    BY <1>1, <2>1, <2>2, <2>3
  <2>5. HeldOf(held, e) = {}
    BY <1>2, FS_EmptySet
  <2>6. ASSUME NEW f
        PROVE  Cardinality(HeldOf(held', f)) = Cardinality(HeldOf(held, f)) + (IF f = e THEN 1 ELSE 0)
    <3>1. CASE f = e
      <4>1. HeldOf(held', f) = {h}
        BY <2>4, <2>5, <3>1 DEF HeldOf
      <4>2. Cardinality({h}) = 1
        BY FS_Singleton
      <4> QED BY <3>1, <4>1, <4>2
    <3>2. CASE f # e
      <4>1. HeldOf(held', f) = HeldOf(held, f)
        BY <2>4, <3>2 DEF HeldOf
      <4> QED BY <1>2, <3>2, <4>1
    <3> QED BY <3>1, <3>2
  <2>7. IsFiniteSet(held')
    BY <2>4, FS_AddElement
  <2> QED BY <1>1, <1>4, <2>4, <2>6, <2>7
<1> QED BY <1>3, <1>4

(* One event of the simulator goes through the imperfection layer. *)
LEMMA EmitsInv ==
    ASSUME FeedInv, NEW e \in Events, NEW messages, NEW holds,
           Outcome(e, messages, holds), Emits(e, messages, holds)
    PROVE  FeedInv'
<1>1. /\ UNCHANGED <<now, outstanding, reports, topic, manifest, failed, unflushed, pc>>
      /\ pc = "on_tick" /\ e \in source /\ source' = source \ {e}
      /\ batch' = batch \o messages /\ held' = held \cup holds
  BY DEF Emits, transport
<1>2. TypeOK /\ IsFiniteSet(held) /\ LoopOK
  BY DEF FeedInv
<1>3. \A f : /\ CountIn(batch, f) \in Nat /\ CountIn(outstanding, f) \in Nat /\ CountIn(topic, f) \in Nat
             /\ Cardinality(HeldOf(held, f)) \in Nat /\ Copies(f) \in Nat
             /\ Copies(f) = CountIn(batch, f) + CountIn(outstanding, f) + CountIn(topic, f)
                               + Cardinality(HeldOf(held, f))
  BY <1>2, CopiesParts
<1>4. Copies(e) = 0 /\ ~IsCorrupted(e)
  <2>1. Copies(e) = 0
    BY <1>1 DEF FeedInv, SourceOK
  <2>2. IsCorrupted(e) => Copies(e) = 1
    BY DEF FeedInv, BucketsAreExclusive
  <2> QED BY <2>1, <2>2
<1>5. Cardinality(HeldOf(held, e)) = 0
  BY <1>3, <1>4
<1>6. /\ batch' \in Seq(Messages)
      /\ \A f : CountIn(batch', f) = CountIn(batch, f) + (IF f = e /\ messages # <<>> THEN 1 ELSE 0)
      /\ \A f : Contains(batch', Message(f, TRUE)) =>
                   Contains(batch, Message(f, TRUE)) \/ (f = e /\ messages = <<Message(e, TRUE)>>)
  BY <1>1, <1>2, OutcomeInBatch
<1>7. /\ IsFiniteSet(held') /\ held' \subseteq Nat \X RideIds
      /\ \A h \in held' : h \in held \/ h[1] > now
      /\ \A f : Cardinality(HeldOf(held', f)) =
                   Cardinality(HeldOf(held, f)) + (IF f = e /\ holds # {} THEN 1 ELSE 0)
  BY <1>1, <1>2, <1>5, OutcomeInHeld
<1>8. \A h \in held' : h[1] > now /\ h[1] >= now
  <2> SUFFICES ASSUME NEW h \in held' PROVE h[1] > now /\ h[1] >= now
    OBVIOUS
  <2>1. h[1] \in Nat /\ now \in Nat
    BY <1>2, <1>7, FeedAssumption DEF TypeOK
  <2>2. h[1] > now
    BY <1>1, <1>2, <1>7 DEF LoopOK
  <2> QED BY <2>1, <2>2
<1>9. TypeOK'
  BY <1>1, <1>2, <1>6, <1>7, <1>8 DEF TypeOK, Queued, Messages, Events
<1>10. \A f : Copies(f)' = CountIn(batch', f) + CountIn(outstanding, f) + CountIn(topic, f)
                              + Cardinality(HeldOf(held', f))
  BY <1>1, CopiesAfter
<1>11. Copies(e)' = (IF messages # <<>> THEN 1 ELSE 0) + (IF holds # {} THEN 1 ELSE 0)
  BY <1>3, <1>4, <1>6, <1>7, <1>10
<1>12. \A f : f # e => Copies(f)' = Copies(f) /\ (IsCorrupted(f)' => IsCorrupted(f))
  <2> SUFFICES ASSUME NEW f, f # e PROVE Copies(f)' = Copies(f) /\ (IsCorrupted(f)' => IsCorrupted(f))
    OBVIOUS
  <2>1. Copies(f)' = Copies(f)
    BY <1>3, <1>6, <1>7, <1>10
  <2>2. IsCorrupted(f)' => IsCorrupted(f)
    BY <1>1, <1>6, CorruptedAfter, CorruptedBefore
  <2> QED BY <2>1, <2>2
<1>13. IsCorrupted(e)' => messages = <<Message(e, TRUE)>>
  BY <1>1, <1>4, <1>6, CorruptedAfter, CorruptedBefore
<1>14. /\ Copies(e)' > 0
       /\ Copies(e)' <= IF e \in RideIds THEN 2 ELSE 1
       /\ IsCorrupted(e)' => Copies(e)' = 1
  <2>1. /\ (messages # <<>> \/ holds # {}) /\ (e \notin RideIds => holds = {})
        /\ (messages = <<Message(e, TRUE)>> => holds = {} /\ messages # <<>>)
    BY DEF Outcome
  <2>2. Copies(e)' > 0 /\ Copies(e)' <= IF e \in RideIds THEN 2 ELSE 1
    BY <1>11, <2>1
  <2>3. IsCorrupted(e)' => Copies(e)' = 1
    BY <1>11, <1>13, <2>1
  <2> QED BY <2>2, <2>3
<1>15. SourceOK'
  BY <1>1, <1>12 DEF FeedInv, SourceOK
<1>16. BucketsAreExclusive'
  <2>1. ASSUME NEW f \in Events
        PROVE  Copies(f)' <= (IF f \in RideIds THEN 2 ELSE 1) /\ (IsCorrupted(f)' => Copies(f)' = 1)
    <3>1. CASE f = e
      BY <1>14, <3>1
    <3>2. CASE f # e
      BY <1>12, <3>2 DEF FeedInv, BucketsAreExclusive
    <3> QED BY <3>1, <3>2
  <2> QED BY <2>1 DEF BucketsAreExclusive, Events
<1>17. LoopDropsNothing'
  <2>1. ASSUME NEW f \in Events \ source'
        PROVE  \/ Copies(f)' > 0 \/ f \in failed
               \/ \E i \in DOMAIN reports : reports[i][1].event = f /\ ~reports[i][2]
    <3>1. CASE f = e
      BY <1>14, <3>1
    <3>2. CASE f # e
      <4>1. f \in Events \ source
        BY <1>1, <3>2
      <4> QED BY <1>1, <1>12, <3>2, <4>1 DEF FeedInv, LoopDropsNothing
    <3> QED BY <3>1, <3>2
  <2> QED BY <1>1, <2>1 DEF LoopDropsNothing, Events
<1>18. LoopOK'
  BY <1>1, <1>2, <1>8 DEF LoopOK, Running
<1>19. ReportsOK' /\ ClosedOK'
  BY <1>1 DEF FeedInv, ReportsOK, ClosedOK, Contains
<1>20. ManifestIsHonest'
  BY <1>1 DEF FeedInv, ManifestIsHonest, Contains, Clean, Message
<1>21. ServedOK'
  BY <1>1 DEF FeedInv, ServedOK
<1> QED BY <1>7, <1>9, <1>15, <1>16, <1>17, <1>18, <1>19, <1>20, <1>21 DEF FeedInv

(* Every bucket of the roll is such an outcome. *)
LEMMA ProcessInv ==
    ASSUME FeedInv, NEW e \in Events,
           ProcessClean(e) \/ ProcessMalformed(e) \/ ProcessDuplicate(e) \/ ProcessHeldBack(e)
    PROVE  FeedInv'
<1>1. <<Clean(e)>> # <<>> /\ <<Message(e, TRUE)>> # <<>> /\ Clean(e) # Message(e, TRUE)
  BY DEF Clean, Message
<1>2. CASE ProcessClean(e)
  <2>1. Outcome(e, <<Clean(e)>>, {})
    BY <1>1 DEF Outcome, Clean
  <2> QED BY <1>2, <2>1, EmitsInv DEF ProcessClean
<1>3. CASE ProcessMalformed(e)
  <2>1. Outcome(e, <<Message(e, TRUE)>>, {})
    BY <1>1 DEF Outcome
  <2> QED BY <1>3, <2>1, EmitsInv DEF ProcessMalformed
<1>4. CASE ProcessDuplicate(e)
  <2>1. PICK delay \in HoldTicks : e \in RideIds /\ Emits(e, <<Clean(e)>>, {<<now + delay, e>>})
    BY <1>4 DEF ProcessDuplicate
  <2>2. <<Clean(e)>> # <<Message(e, TRUE)>>
    BY <1>1
  <2>3. Outcome(e, <<Clean(e)>>, {<<now + delay, e>>})
    BY <1>1, <2>1, <2>2 DEF Outcome, Clean
  <2> QED BY <2>1, <2>3, EmitsInv
<1>5. CASE ProcessHeldBack(e)
  <2>1. PICK delay \in HoldTicks : e \in RideIds /\ Emits(e, <<>>, {<<now + delay, e>>})
    BY <1>5 DEF ProcessHeldBack
  <2>2. Outcome(e, <<>>, {<<now + delay, e>>})
    BY <1>1, <2>1 DEF Outcome
  <2> QED BY <2>1, <2>2, EmitsInv
<1> QED BY <1>2, <1>3, <1>4, <1>5

-----------------------------------------------------------------------------
(* The theorems. *)

(* Every step keeps the invariant. *)
LEMMA FeedStep == FeedInv /\ [Next]_vars => FeedInv'
<1> SUFFICES ASSUME FeedInv, [Next]_vars PROVE FeedInv'
  OBVIOUS
<1>1. CASE ReleaseDue
  BY <1>1, ReleaseDueInv
<1>2. CASE \E e \in Events : ProcessClean(e) \/ ProcessMalformed(e) \/ ProcessDuplicate(e) \/ ProcessHeldBack(e)
  BY <1>2, ProcessInv
<1>3. CASE OnTickDone \/ SendFails \/ Interrupt \/ Crash
  BY <1>3, PcStep
<1>4. CASE Send
  BY <1>4, SendInv
<1>5. CASE TickDone
  BY <1>5, TickDoneInv
<1>6. CASE FlushServes
  BY <1>6, FlushServesInv
<1>7. CASE Close
  BY <1>7, CloseInv
<1>8. CASE \E i \in 1..QueueMax, appended, acked \in BOOLEAN : Deliver(i, appended, acked)
  <2>1. PICK i \in 1..QueueMax, appended \in BOOLEAN, acked \in BOOLEAN : Deliver(i, appended, acked)
    BY <1>8
  <2> QED BY <2>1, DeliverInv
<1>9. CASE UNCHANGED vars
  <2>1. /\ UNCHANGED <<now, source, held, batch, outstanding, reports, topic, failed, manifest, unflushed, pc>>
    BY <1>9 DEF vars, imperfector, transport
  <2>2. TypeOK /\ LoopOK /\ ClosedOK
    BY DEF FeedInv
  <2>3. TypeOK'
    BY <2>1, <2>2 DEF TypeOK, Queued, Messages, Events
  <2>4. LoopOK' /\ ClosedOK' /\ (Running' => Running)
    BY <2>1, <2>2 DEF LoopOK, ClosedOK, Running
  <2> QED BY <2>1, <2>3, <2>4, QuietStep
<1> QED BY <1>1, <1>2, <1>3, <1>4, <1>5, <1>6, <1>7, <1>8, <1>9 DEF Next

(* The inductive invariant holds in every state of the feed, for every set *)
(* of events, any queue size and any number of ticks (main, Imperfector,   *)
(* KafkaTransport).                                                        *)
THEOREM FeedInvariant == Spec => []FeedInv
<1>1. Init => FeedInv
  BY InitFeed
<1>2. FeedInv /\ [Next]_vars => FeedInv'
  BY FeedStep
<1> QED BY <1>1, <1>2, PTL DEF Spec

(* The feed's state keeps its types: what is held is never overdue, and    *)
(* librdkafka's queue never exceeds queue.buffering.max.messages.          *)
THEOREM FeedTypeOK == Spec => []TypeOK
<1>1. FeedInv => TypeOK
  BY DEF FeedInv
<1> QED BY <1>1, FeedInvariant, PTL

(* No event ever has three copies, only ride events have two, and one that *)
(* was corrupted has no intact copy (Imperfector.process, release_due).    *)
THEOREM BucketsAreAlwaysExclusive == Spec => []BucketsAreExclusive
<1>1. FeedInv => BucketsAreExclusive
  BY DEF FeedInv
<1> QED BY <1>1, FeedInvariant, PTL

(* While the loop runs, an emitted event is held, queued, in the log or    *)
(* reported as failed (Imperfector.release_due, KafkaTransport.send).      *)
THEOREM LoopNeverDrops == Spec => []LoopDropsNothing
<1>1. FeedInv => LoopDropsNothing
  BY DEF FeedInv
<1> QED BY <1>1, FeedInvariant, PTL

(* Every id in the manifest is in the log, intact, whatever failed, timed  *)
(* out or was killed (KafkaTransport._on_delivery).                        *)
THEOREM ManifestIsAlwaysHonest == Spec => []ManifestIsHonest
<1>1. FeedInv => ManifestIsHonest
  BY DEF FeedInv
<1> QED BY <1>1, FeedInvariant, PTL

(* After a close with nothing left and no failed delivery, every intact    *)
(* message with a stable id is in the manifest (KafkaTransport.close).     *)
THEOREM CleanCloseIsAlwaysComplete == Spec => []CleanCloseIsComplete
<1>1. ASSUME FeedInv PROVE CleanCloseIsComplete
  <2>1. SUFFICES ASSUME pc = "closed", unflushed = 0, failed = {}, NEW i \in DOMAIN topic,
                        ~topic[i].corrupt, topic[i].event \notin Pings
                 PROVE  topic[i].event \in manifest
    BY DEF CleanCloseIsComplete
  <2>2. TypeOK /\ ServedOK /\ ClosedOK
    BY <1>1 DEF FeedInv
  <2>3. i \in 1..Len(topic) /\ reports = <<>>
    BY <2>1, <2>2, LenProperties DEF TypeOK, ClosedOK
  <2>4. ~ \E j \in 1..Len(reports) : reports[j][1] = topic[i]
    BY <2>3
  <2> QED BY <2>1, <2>2, <2>3, <2>4 DEF ServedOK
<1>2. FeedInv => CleanCloseIsComplete
  BY <1>1
<1> QED BY <1>2, FeedInvariant, PTL
=============================================================================
