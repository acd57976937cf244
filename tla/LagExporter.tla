----------------------------- MODULE LagExporter -----------------------------
(***************************************************************************)
(* The consumer-lag exporter (observability/lag_exporter.py).  A cycle     *)
(* asks the broker for the ends of the partitions one by one, then for the *)
(* committed offsets of one group after the other, then Postgres for the   *)
(* offsets of pg-sink, and publishes the differences, while producers,     *)
(* consumers and an operator who resets the platform go on.  On a topic    *)
(* that is written by transactions some offsets are no messages: markers,  *)
(* and records of aborted transactions.                                    *)
(***************************************************************************)
EXTENDS Integers, SequencesExt, FiniteSetsExt

CONSTANTS
    WatchedParts,   \* partitions of the platform topics, in the order they are asked
    BrokerGroups,   \* groups that commit to the broker, in the order they are asked
    PgGroup,        \* the group that keeps its offsets in Postgres
    Transactional,  \* partitions written by transactions
    Subscribed,     \* group -> the partitions it consumes
    MaxOffsets,     \* bound: partition -> its offsets
    MaxUpsets       \* bound: failing cycles and resets of the platform, together

Parts  == ToSet(WatchedParts)
Groups == ToSet(BrokerGroups) \cup {PgGroup}

ASSUME SubscriptionAssumption ==
    /\ Subscribed \in [Groups -> SUBSET Parts]
    /\ WatchedParts \in Seq(Parts) /\ BrokerGroups \in Seq(Groups \ {PgGroup})
    /\ Transactional \subseteq Parts
    /\ MaxOffsets \in [Parts -> Nat]

NoneYet == -1

VARIABLES
    offsets,    \* partition -> its offsets: TRUE for one that a consumer is given
    committed,  \* broker group -> partition -> next offset to consume, or NoneYet
    stored,     \* partition -> serving.consumer_offsets: last offset processed, or NoneYet
    lagStep,    \* number of answers the cycle has
    ends,       \* partition -> end offset the probe was told
    samples,    \* group -> partition -> lag, or NoneYet: what collect() has so far
    lagGauge,   \* group -> partition -> CONSUMER_LAG, or NoneYet before the first set
    atProbe,    \* bookkeeping: the lag when the end was asked for
    stale,      \* bookkeeping: the platform was reset since the cycle began
    upsets

lagWorld == <<offsets, committed, stored>>
lagCycle == <<lagStep, ends, samples, atProbe>>
lagVars  == <<lagWorld, lagCycle, lagGauge, stale, upsets>>

NoLag == [g \in Groups |-> [p \in Parts |-> NoneYet]]
NoCycle ==
    /\ lagStep' = 0
    /\ ends' = [p \in Parts |-> 0]
    /\ samples' = NoLag
    /\ atProbe' = NoLag
    /\ stale' = FALSE

LagInit ==
    /\ offsets = [p \in Parts |-> <<>>]
    /\ committed = [g \in Groups \ {PgGroup} |-> [p \in Parts |-> NoneYet]]
    /\ stored = [p \in Parts |-> NoneYet]
    /\ lagStep = 0
    /\ ends = [p \in Parts |-> 0]
    /\ samples = NoLag
    /\ lagGauge = NoLag
    /\ atProbe = NoLag
    /\ stale = FALSE
    /\ upsets = 0

-----------------------------------------------------------------------------
(* The platform around the exporter. *)

(* Where a group will read next, by its own books. *)
NextOf(g, p) == IF g # PgGroup THEN committed[g][p]
                ELSE IF stored[p] = NoneYet THEN NoneYet ELSE stored[p] + 1

(* A message, or a transaction of one message with its marker, that        *)
(* commits or aborts.  A read-committed probe is told the last stable      *)
(* offset, so an open transaction does not count.                          *)
ProduceTo(p) ==
    /\ \E batch \in IF p \in Transactional THEN {<<TRUE, FALSE>>, <<FALSE, FALSE>>}
                                           ELSE {<<TRUE>>} :
          /\ Len(offsets[p]) + Len(batch) <= MaxOffsets[p]
          /\ offsets' = [offsets EXCEPT ![p] = @ \o batch]
    /\ UNCHANGED <<committed, stored, lagCycle, lagGauge, stale, upsets>>

(* The group processes the next message it is given and commits. *)
Progress(g, p) ==
    LET from == Max({0, NextOf(g, p)})
        given == {o \in from..(Len(offsets[p]) - 1) : offsets[p][o + 1]}
    IN  /\ p \in Subscribed[g]
        /\ given # {}
        /\ IF g = PgGroup
           THEN stored' = [stored EXCEPT ![p] = Min(given)] /\ UNCHANGED committed
           ELSE committed' = [committed EXCEPT ![g][p] = Min(given) + 1] /\ UNCHANGED stored
        /\ UNCHANGED <<offsets, lagCycle, lagGauge, stale, upsets>>

(* scripts/reset_platform.py: topics, groups and consumer_offsets are new. *)
ResetPlatform ==
    /\ upsets < MaxUpsets
    /\ upsets' = upsets + 1
    /\ offsets' = [p \in Parts |-> <<>>]
    /\ committed' = [g \in Groups \ {PgGroup} |-> [p \in Parts |-> NoneYet]]
    /\ stored' = [p \in Parts |-> NoneYet]
    /\ stale' = TRUE
    /\ UNCHANGED <<lagCycle, lagGauge>>

-----------------------------------------------------------------------------
(* One cycle of run_forever. *)

Probes == Len(WatchedParts)
Asked  == Len(BrokerGroups)

(* end_offsets, one partition. *)
ProbeEnd ==
    /\ lagStep < Probes
    /\ LET p == WatchedParts[lagStep + 1]
       IN  /\ ends' = [ends EXCEPT ![p] = Len(offsets[p])]
           /\ atProbe' = [g \in Groups |-> [atProbe[g] EXCEPT ![p] =
                             Len(offsets[p]) - Max({0, NextOf(g, p)})]]
    /\ lagStep' = lagStep + 1
    /\ UNCHANGED <<lagWorld, samples, lagGauge, stale, upsets>>

(* Mutant: not clamped. *)
LagOf_Signed(end, next) == IF next = NoneYet THEN NoneYet ELSE end - next

(* compute_lags, one partition; no sample without a committed position. *)
LagOf(end, next) == IF next = NoneYet THEN NoneYet ELSE Max({end - next, 0})

(* committed(), one group. *)
AskBroker ==
    /\ lagStep \in Probes..(Probes + Asked - 1)
    /\ LET g == BrokerGroups[lagStep - Probes + 1]
       IN  samples' = [samples EXCEPT ![g] = [p \in Parts |-> LagOf(ends[p], committed[g][p])]]
    /\ lagStep' = lagStep + 1
    /\ UNCHANGED <<lagWorld, ends, atProbe, lagGauge, stale, upsets>>

(* Mutant: the stored offset is taken for the next one. *)
committed_next_from_pg_Last(p) == stored[p]

committed_next_from_pg(p) == IF stored[p] = NoneYet THEN NoneYet ELSE stored[p] + 1

AskPostgres ==
    /\ lagStep = Probes + Asked
    /\ samples' = [samples EXCEPT ![PgGroup] =
                      [p \in Parts |-> LagOf(ends[p], committed_next_from_pg(p))]]
    /\ lagStep' = lagStep + 1
    /\ UNCHANGED <<lagWorld, ends, atProbe, lagGauge, stale, upsets>>

(* Mutant: "if sample.lag", which is also false for zero. *)
GaugeAfter_NonZero(old, sample) == IF sample \in {NoneYet, 0} THEN old ELSE sample

(* publish, one gauge: set if there is a sample, and never cleared. *)
GaugeAfter(old, sample) == IF sample = NoneYet THEN old ELSE sample

Publish ==
    /\ lagStep = Probes + Asked + 1
    /\ lagGauge' = [g \in Groups |-> [p \in Parts |-> GaugeAfter(lagGauge[g][p], samples[g][p])]]
    /\ NoCycle
    /\ UNCHANGED <<lagWorld, upsets>>

(* An exception, e.g. a topic is gone: the cycle is skipped. *)
CycleFails ==
    /\ upsets < MaxUpsets
    /\ upsets' = upsets + 1
    /\ NoCycle
    /\ UNCHANGED <<lagWorld, lagGauge>>

ExporterStep == ProbeEnd \/ AskBroker \/ AskPostgres \/ Publish

LagNext ==
    \/ \E p \in Parts : ProduceTo(p)
    \/ \E g \in Groups : \E p \in Parts : Progress(g, p)
    \/ ResetPlatform
    \/ ExporterStep
    \/ CycleFails

-----------------------------------------------------------------------------
(* Type correctness: a lag is never negative, although consumers commit    *)
(* offsets beyond the end that was asked for earlier in the cycle.         *)
LagTypeOK ==
    /\ offsets \in [Parts -> Seq(BOOLEAN)]
    /\ \A g \in Groups \ {PgGroup} : \A p \in Parts : committed[g][p] \in NoneYet..Len(offsets[p])
    /\ \A p \in Parts : stored[p] \in NoneYet..(Len(offsets[p]) - 1)
    /\ lagStep \in 0..(Probes + Asked + 1)
    /\ \A p \in Parts : /\ ends[p] \in 0..MaxOffsets[p]
                        /\ \A g \in Groups : /\ samples[g][p] \in NoneYet..MaxOffsets[p]
                                             /\ lagGauge[g][p] \in NoneYet..MaxOffsets[p]

(* "inventing one would page somebody for nothing": no sample exceeds the  *)
(* lag the group had when the end was asked for, nor is it less than what  *)
(* the group still has to read of that, unless the platform was reset in   *)
(* the middle of the cycle.                                                *)
SamplesAreHonest ==
    ~stale => \A g \in Groups : \A p \in Parts : samples[g][p] # NoneYet =>
        /\ samples[g][p] <= atProbe[g][p]
        /\ samples[g][p] >= ends[p] - NextOf(g, p)

(* Offsets of p after the last message: markers and aborted records. *)
Trailing(p) ==
    LET n == Len(offsets[p])
    IN  n - Max({0} \cup {o \in 1..n : offsets[p][o]})

(* When producers and consumers come to rest, the gauge of every partition *)
(* a group has a position on settles: at zero on a plain topic, and on a   *)
(* transactional one at the number of offsets that are no messages.        *)
GaugesSettle ==
    <>[](\A g \in Groups : \A p \in Subscribed[g] :
            NextOf(g, p) # NoneYet => lagGauge[g][p] = Trailing(p))
=============================================================================
