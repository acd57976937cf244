------------------------------ MODULE DlqReplay ------------------------------
(***************************************************************************)
(* The dead-letter cycle: consumer groups wrap what they cannot decode     *)
(* (dlq/envelope.py), and scripts/replay_dlq.py drains the dead-letter     *)
(* topic, filters, repairs and produces the originals again.  All groups   *)
(* of a source topic write to the one dead-letter topic: the sessionizer   *)
(* inside the transaction that moves its offsets, pg-sink and iceberg-sink *)
(* through a queue that is delivered while the offsets are committed       *)
(* elsewhere, so that an envelope can be lost, or written twice.  A        *)
(* payload is its first byte, which is what corrupt_payload overwrites and *)
(* what --repair-magic-byte restores: 0x00 in front of Avro, while         *)
(* payments are plain JSON and begin with a brace.                         *)
(***************************************************************************)
EXTENDS Integers, SequencesExt, FiniteSets

CONSTANTS
    SourceEvents,  \* events produced to the source topic, in this order
    RideReaders,   \* consumer groups of rides.events
    TxnReader,     \* the one that dead-letters in its transactions: sessionizer
    PgReader,      \* the one that fills the table, and the only one of payments: pg-sink
    MaxSource,     \* bound: messages on the source topic
    MaxDead,       \* bound: envelopes on the dead-letter topic
    MaxRestarts,   \* bound: times a consumer is restarted
    MaxReplays,    \* bound: runs of the script
    MaxUpsetRuns   \* bound: runs whose flush times out, or that are killed

Events == ToSet(SourceEvents)

(* An event is produced once: the generator never duplicates one that it   *)
(* corrupts, and further intact copies of the others would be decoded.     *)
ASSUME SourceAssumption ==
    /\ SourceEvents \in Seq(Events)
    /\ \A i, j \in 1..Len(SourceEvents) : SourceEvents[i] = SourceEvents[j] => i = j
    /\ PgReader \in RideReaders /\ TxnReader # PgReader
    /\ MaxReplays \in Nat /\ MaxUpsetRuns \in Nat

FirstBytes == {"0x00", "0xFF", "{", "doubled"}
Payload == [event : Events, first : FirstBytes]

(* The payload, and the place in the source topic it was read from. *)
Envelope == [event : Events, first : FirstBytes, offset : Nat \ {0}]

VARIABLES
    framed,    \* the source topic carries Confluent framing
    source,    \* the source topic
    arrived,   \* number of SourceEvents produced
    handled,   \* group -> messages its process has decoded or wrapped
    finished,  \* group -> messages behind the offset it has committed
    wrapped,   \* group -> envelopes queued in its dead-letter producer
    dead,      \* the dead-letter topic
    replayPc,  \* whether the script has produced and waits for its deliveries
    outbox,    \* its producer's queue: messages by the place of their envelopes
    due,       \* bookkeeping: events that the run has to bring back
    promised,  \* bookkeeping: events that runs have brought back to the source topic
    futile,    \* bookkeeping: a run has produced payloads that cannot be decoded
    restarts, replays, upsetRuns

readerVars == <<handled, finished, wrapped, restarts>>
topicVars == <<framed, arrived, source>>
scriptVars == <<replayPc, outbox, due>>
runVars == <<promised, futile, replays, upsetRuns>>
replayVars == <<topicVars, readerVars, dead, scriptVars, runVars>>

Intact == IF framed THEN "0x00" ELSE "{"
Readers == IF framed THEN RideReaders ELSE {PgReader}

(* The events in the table: what pg-sink has decoded behind its offset,    *)
(* which it stores together with the rows.                                 *)
Sunk == {source[i].event : i \in {k \in 1..finished[PgReader] : source[k].first = Intact}}

ReplayInit ==
    /\ framed \in BOOLEAN
    /\ source = <<>>
    /\ arrived = 0
    /\ handled = [g \in RideReaders |-> 0]
    /\ finished = [g \in RideReaders |-> 0]
    /\ wrapped = [g \in RideReaders |-> <<>>]
    /\ dead = <<>>
    /\ replayPc = "idle"
    /\ outbox = <<>>
    /\ due = {}
    /\ promised = {}
    /\ futile = FALSE
    /\ restarts = 0
    /\ replays = 0
    /\ upsetRuns = 0

-----------------------------------------------------------------------------
(* An event is produced intact, or through corrupt_payload. *)
Arrive ==
    /\ arrived < Len(SourceEvents)
    /\ Len(source) < MaxSource
    /\ arrived' = arrived + 1
    /\ \E first \in {Intact, "0xFF"} :
          source' = Append(source, [event |-> SourceEvents[arrived + 1], first |-> first])
    /\ UNCHANGED <<framed, readerVars, dead, scriptVars, runVars>>

(* build_envelope: the exact bytes, and where they were. *)
build_envelope(i) == [event |-> source[i].event, first |-> source[i].first, offset |-> i]

(* Mutant: every message is wrapped, not only those that cannot be decoded. *)
DeadLetters_All(i) == <<build_envelope(i)>>

(* What the i-th message adds to the dead letters. *)
DeadLetters(i) == IF source[i].first = Intact THEN <<>> ELSE <<build_envelope(i)>>

(* The sessionizer, message by message: "a DLQ record exists if and only   *)
(* if the offsets that produced it were committed".  An aborted            *)
(* transaction leaves nothing that a read-committed consumer sees.         *)
Transact(g) ==
    /\ g \in Readers /\ g = TxnReader
    /\ finished[g] < Len(source)
    /\ dead' = dead \o DeadLetters(finished[g] + 1)
    /\ Len(dead') <= MaxDead
    /\ finished' = [finished EXCEPT ![g] = @ + 1]
    /\ handled' = finished'
    /\ UNCHANGED <<topicVars, wrapped, restarts, scriptVars, runVars>>

(* pg-sink and iceberg-sink: DlqProducer.handle only queues the envelope,  *)
(* ...                                                                     *)
Handle(g) ==
    /\ g \in Readers /\ g # TxnReader
    /\ handled[g] < Len(source)
    /\ handled' = [handled EXCEPT ![g] = @ + 1]
    /\ wrapped' = [wrapped EXCEPT ![g] = @ \o DeadLetters(handled[g] + 1)]
    /\ UNCHANGED <<topicVars, finished, restarts, dead, scriptVars, runVars>>

(* ... librdkafka delivers it in the background, ...                       *)
DeliverEnvelope(g) ==
    /\ wrapped[g] # <<>>
    /\ Len(dead) < MaxDead
    /\ dead' = Append(dead, Head(wrapped[g]))
    /\ wrapped' = [wrapped EXCEPT ![g] = Tail(@)]
    /\ UNCHANGED <<topicVars, handled, finished, restarts, scriptVars, runVars>>

(* ... and the offset of all that was handled goes to Postgres or, after   *)
(* an append, to the broker, whether it has been delivered or not.         *)
Finish(g) ==
    /\ g # TxnReader
    /\ finished[g] < handled[g]
    /\ finished' = [finished EXCEPT ![g] = handled[g]]
    /\ UNCHANGED <<topicVars, handled, wrapped, restarts, dead, scriptVars, runVars>>

(* A failed transaction or append, a kill or a rebalance: from the         *)
(* committed offset again, without what was still queued.  (If flush() has *)
(* time to deliver the queue, it does so before.)                          *)
Restart(g) ==
    /\ restarts < MaxRestarts
    /\ handled[g] # finished[g] \/ wrapped[g] # <<>>
    /\ restarts' = restarts + 1
    /\ handled' = [handled EXCEPT ![g] = finished[g]]
    /\ wrapped' = [wrapped EXCEPT ![g] = <<>>]
    /\ UNCHANGED <<topicVars, finished, dead, scriptVars, runVars>>

-----------------------------------------------------------------------------
(* Mutant: a byte is put in front instead of the first one. *)
repair_magic_byte_Inserts(first) == "doubled"

repair_magic_byte(first) == "0x00"

(* --filter, --repair-magic-byte and --dry-run *)
Options == [filter : SUBSET Events, repair : BOOLEAN, dry : BOOLEAN]

(* replay(): filter, transform, produce unless it is a dry run.  What it   *)
(* produces is keyed by the place of the envelope in the topic.            *)
Replayed(places, options) ==
    [i \in {k \in places : ~options.dry /\ dead[k].event \in options.filter} |->
        [event |-> dead[i].event,
         first |-> IF options.repair THEN repair_magic_byte(dead[i].first) ELSE dead[i].first]]

(* The options fit the payloads, or produce nothing. *)
Repairs(options) == framed /\ options.repair /\ ~options.dry

(* Mutant: a new group starts behind the envelopes there are. *)
FirstOffset_Latest == Len(dead)

(* A new consumer group every time: from the earliest envelope. *)
FirstOffset == 0

(* drain_dlq reads envelopes until five polls in a row are empty, which    *)
(* they also are while the group is being joined or the broker is slow: it *)
(* returns with some prefix of the topic, and until then the script has    *)
(* done nothing that another process could see.  replay() hands the        *)
(* envelopes to the producer, which does not block.                        *)
DrainAndReplay ==
    /\ replayPc = "idle"
    /\ replays < MaxReplays
    /\ replays' = replays + 1
    /\ replayPc' = "flush"
    /\ \E options \in Options : \E n \in FirstOffset..Len(dead) :
          /\ outbox' = Replayed(FirstOffset + 1..n, options)
          /\ due' = IF Repairs(options) THEN {dead[i].event : i \in 1..n} \cap options.filter ELSE {}
          /\ futile' = (futile \/ ~(options.dry \/ Repairs(options)))
    /\ UNCHANGED <<topicVars, readerVars, dead, promised, upsetRuns>>

(* librdkafka delivers in the background, in the order of production. *)
DeliverReplayed ==
    /\ Len(source) < MaxSource
    /\ \E i \in DOMAIN outbox :
          /\ \A j \in DOMAIN outbox : i <= j
          /\ source' = Append(source, outbox[i])
          /\ outbox' = [j \in DOMAIN outbox \ {i} |-> outbox[j]]
    /\ UNCHANGED <<framed, arrived, readerVars, dead, replayPc, due, runVars>>

End == replayPc' = "idle" /\ outbox' = <<>> /\ due' = {}

(* flush(15) has delivered everything ... *)
ReplayDone ==
    /\ replayPc = "flush"
    /\ DOMAIN outbox = {}
    /\ End
    /\ promised' = promised \cup due
    /\ UNCHANGED <<topicVars, readerVars, dead, futile, replays, upsetRuns>>

(* ... or runs out of time, which nobody looks at, or the script dies.     *)
ReplayCutShort ==
    /\ replayPc = "flush"
    /\ upsetRuns < MaxUpsetRuns
    /\ upsetRuns' = upsetRuns + 1
    /\ End
    /\ UNCHANGED <<topicVars, readerVars, dead, promised, futile, replays>>

ReplayNext ==
    \/ Arrive
    \/ \E g \in RideReaders : Transact(g) \/ Handle(g) \/ DeliverEnvelope(g) \/ Finish(g) \/ Restart(g)
    \/ DrainAndReplay
    \/ DeliverReplayed
    \/ ReplayDone
    \/ ReplayCutShort

-----------------------------------------------------------------------------
(* Type correctness; no group commits what it has not handled. *)
ReplayTypeOK ==
    /\ framed \in BOOLEAN
    /\ source \in Seq(Payload)
    /\ dead \in Seq(Envelope)
    /\ outbox \in [DOMAIN outbox -> Payload] /\ DOMAIN outbox \subseteq 1..Len(dead)
    /\ wrapped \in [RideReaders -> Seq(Envelope)]
    /\ arrived \in 0..Len(SourceEvents)
    /\ handled \in [RideReaders -> 0..Len(source)]
    /\ finished \in [RideReaders -> 0..Len(source)]
    /\ \A g \in RideReaders : finished[g] <= handled[g]
    /\ replayPc \in {"idle", "flush"}

(* "the repair for this platform's canonical poison": on a framed topic,   *)
(* what repairing runs have produced never comes back as a dead letter,    *)
(* however often they are run and cut short.  Each group dead-letters an   *)
(* event, and after a restart again, but all its envelopes are copies of   *)
(* one: the message at the offset where the event was first produced.      *)
(* (Without the repair, or on plain JSON, every run has every group        *)
(* dead-letter all that the topic holds once more.)                        *)
RepairDoesNotFeedBack ==
    (framed /\ ~futile) =>
        \A i, j \in 1..Len(dead) : dead[i].event = dead[j].event => dead[i] = dead[j]

(* An undisturbed run that repairs a framed topic restores every event     *)
(* whose envelope it drained and its filter selects, also after earlier    *)
(* runs stopped somewhere in the middle and whatever pg-sink's restarts    *)
(* make it read again: pg-sink decodes it and stores it behind its offset. *)
PromisedAreStored == []<>(promised \subseteq Sunk)
=============================================================================
