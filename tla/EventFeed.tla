------------------------------ MODULE EventFeed ------------------------------
(***************************************************************************)
(* From the simulator to Kafka: the imperfection layer (generator/         *)
(* imperfections.py), the transport with its manifest of acknowledged ids  *)
(* (generator/producer.py) and the loop that drives them (generator/       *)
(* __main__.py).  The generator is one thread; librdkafka delivers behind  *)
(* its back and its reports are served when the thread polls or flushes.   *)
(* An event is its stable id; null fields and bad data change a payload    *)
(* that stays valid, and are left out.                                     *)
(***************************************************************************)
EXTENDS Naturals, Sequences, SequencesExt, FiniteSets

CONSTANTS
    RideIds,       \* ids on rides.events
    Payments,      \* ids on payments.transactions
    Pings,         \* events on drivers.locations, which have no stable id
    HoldTicks,     \* how long the imperfection layer holds an event
    QueueMax,      \* queue.buffering.max.messages
    MaxTicks       \* ticks_for(cfg)

Events == RideIds \cup Payments \cup Pings

ASSUME FeedAssumption ==
    /\ HoldTicks \subseteq Nat \ {0}
    /\ QueueMax \in Nat \ {0} /\ MaxTicks \in Nat \ {0}
    /\ RideIds \cap Payments = {} /\ RideIds \cap Pings = {} /\ Payments \cap Pings = {}

VARIABLES
    now,          \* the tick
    source,       \* events the simulator has not emitted yet
    held,         \* Imperfector._held: <<at, event>>
    batch,        \* the tick's batch: messages not sent yet
    outstanding,  \* librdkafka's queue: messages without a delivery report
    reports,      \* delivery reports not served yet: <<message, acked>>
    topic,        \* what the broker has appended
    manifest,     \* the ids in KafkaTransport._manifest
    failed,       \* ids of the deliveries reported as failed
    unflushed,    \* what flush returned on closing
    pc

imperfector == <<now, source, held>>
transport == <<outstanding, reports, topic, manifest, failed, unflushed>>
vars == <<imperfector, batch, transport, pc>>

Message(e, corrupt) == [event |-> e, corrupt |-> corrupt]
Clean(e)            == Message(e, FALSE)

Init ==
    /\ now = 0
    /\ source = Events
    /\ held = {}
    /\ batch = <<>>
    /\ outstanding = <<>>
    /\ reports = <<>>
    /\ topic = <<>>
    /\ manifest = {}
    /\ failed = {}
    /\ unflushed = 0
    /\ pc = "tick"

-----------------------------------------------------------------------------
(* The imperfection layer *)

(* Mutants: what is due right now is not released; nothing leaves the list. *)
DueNow_Before(H) == {h \in H : h[1] < now}
StillHeld_All(H) == H

(* release_due: what is due leaves, in the order it was held (here: any);  *)
(* what is not stays.                                                      *)
DueNow(H) == {h \in H : h[1] <= now}
StillHeld(H) == {h \in H : h[1] > now}

ReleaseDue ==
    /\ pc = "tick"
    /\ batch' \in {[i \in DOMAIN s |-> Clean(s[i][2])] : s \in SetToSeqs(DueNow(held))}
    /\ held' = StillHeld(held)
    /\ pc' = "on_tick"
    /\ UNCHANGED <<now, source, transport>>

(* process, one action per outcome of the roll.  Payments are only ever    *)
(* corrupted, pings are left alone.                                        *)
Emits(e, messages, holds) ==
    /\ pc = "on_tick"
    /\ e \in source
    /\ source' = source \ {e}
    /\ batch' = batch \o messages
    /\ held' = held \cup holds
    /\ UNCHANGED <<now, transport, pc>>

ProcessClean(e) == Emits(e, <<Clean(e)>>, {})

(* Mutant: the corrupted copy goes out beside the intact one. *)
ProcessMalformed_AndClean(e) ==
    e \notin Pings /\ Emits(e, <<Message(e, TRUE), Clean(e)>>, {})

ProcessMalformed(e) == e \notin Pings /\ Emits(e, <<Message(e, TRUE)>>, {})

ProcessDuplicate(e) ==
    \E delay \in HoldTicks : e \in RideIds /\ Emits(e, <<Clean(e)>>, {<<now + delay, e>>})

(* out of order or late: the same step, held for longer. *)
ProcessHeldBack(e) ==
    \E delay \in HoldTicks : e \in RideIds /\ Emits(e, <<>>, {<<now + delay, e>>})

OnTickDone ==
    /\ pc = "on_tick"
    /\ pc' = "send"
    /\ UNCHANGED <<imperfector, batch, transport>>

-----------------------------------------------------------------------------
(* The transport *)

(* Mutant: corrupted messages are recorded as well. *)
ToManifest_Corrupt(report) == report[2] /\ report[1].event \notin Pings

(* The callback of _on_delivery, for every report that is waiting: an      *)
(* acknowledged message that is not corrupt and has a stable id goes into  *)
(* the manifest.                                                           *)
ToManifest(report) == report[2] /\ ~report[1].corrupt /\ report[1].event \notin Pings

Serve ==
    LET waiting == {reports[i] : i \in DOMAIN reports}
    IN  /\ manifest' = manifest \cup {r[1].event : r \in {r \in waiting : ToManifest(r)}}
        /\ failed' = failed \cup {r[1].event : r \in {r \in waiting : ~r[2]}}
        /\ reports' = <<>>

(* librdkafka counts a message until its report is served. *)
Queued == Len(outstanding) + Len(reports)

(* send: produce, then poll(0). *)
Send ==
    /\ pc = "send"
    /\ batch # <<>>
    /\ Queued < QueueMax
    /\ outstanding' = Append(outstanding, Head(batch))
    /\ batch' = Tail(batch)
    /\ Serve
    /\ UNCHANGED <<imperfector, topic, unflushed, pc>>

(* The queue is full: produce raises BufferError, the finally clause of    *)
(* main closes the sink.                                                   *)
SendFails ==
    /\ pc = "send"
    /\ batch # <<>>
    /\ Queued >= QueueMax
    /\ pc' = "closing"
    /\ UNCHANGED <<imperfector, batch, transport>>

(* The end of a tick, and of the run. *)
TickDone ==
    /\ pc = "send"
    /\ batch = <<>>
    /\ now' = now + 1
    /\ pc' = IF now + 1 < MaxTicks THEN "tick" ELSE "closing"
    /\ UNCHANGED <<source, held, batch, transport>>

(* KeyboardInterrupt, anywhere in the loop. *)
Interrupt ==
    /\ pc \in {"tick", "on_tick", "send"}
    /\ pc' = "closing"
    /\ UNCHANGED <<imperfector, batch, transport>>

(* close: flush serves reports for at most 30 s and says how many messages *)
(* are left, then the manifest is closed.                                  *)
FlushServes ==
    /\ pc = "closing"
    /\ reports # <<>>
    /\ Serve
    /\ UNCHANGED <<imperfector, batch, outstanding, topic, unflushed, pc>>

(* Mutant: close does not look at what is left. *)
Close_NoFlush ==
    /\ pc = "closing"
    /\ pc' = "closed"
    /\ UNCHANGED <<imperfector, batch, transport>>

Close ==
    /\ pc = "closing"
    /\ unflushed' = Queued
    /\ pc' = "closed"
    /\ UNCHANGED <<imperfector, batch, outstanding, reports, topic, manifest, failed>>

(* The process is killed: of the manifest's lines, those that left the     *)
(* file's buffer remain (here: any of them).                               *)
Crash ==
    /\ pc \notin {"closed", "killed"}
    /\ pc' = "killed"
    /\ manifest' \in SUBSET manifest
    /\ UNCHANGED <<imperfector, batch, outstanding, reports, topic, failed, unflushed>>

(* External: the idempotent producer delivers the messages of a partition  *)
(* in order, each one once; a delivery that times out may have reached the *)
(* log.  Requests on the wire outlive the process.                         *)
Sibling(e, f) == \E T \in {RideIds, Payments, Pings} : e \in T /\ f \in T

NextOut(i) ==
    /\ i \in DOMAIN outstanding
    /\ \A j \in 1..(i - 1) : ~Sibling(outstanding[j].event, outstanding[i].event)

Deliver(i, appended, acked) ==
    /\ NextOut(i)
    /\ acked => appended
    /\ outstanding' = RemoveAt(outstanding, i)
    /\ topic' = IF appended THEN Append(topic, outstanding[i]) ELSE topic
    /\ reports' = Append(reports, <<outstanding[i], acked>>)
    /\ UNCHANGED <<imperfector, batch, manifest, failed, unflushed, pc>>

-----------------------------------------------------------------------------

Next ==
    \/ ReleaseDue
    \/ \E e \in Events :
          \/ ProcessClean(e) \/ ProcessMalformed(e)
          \/ ProcessDuplicate(e) \/ ProcessHeldBack(e)
    \/ OnTickDone \/ Send \/ SendFails \/ TickDone \/ Interrupt
    \/ FlushServes \/ Close \/ Crash
    \/ \E i \in 1..QueueMax, appended, acked \in BOOLEAN : Deliver(i, appended, acked)

Spec == Init /\ [][Next]_vars

-----------------------------------------------------------------------------
(* Properties *)

Messages == [event : Events, corrupt : BOOLEAN]

TypeOK ==
    /\ now \in 0..MaxTicks
    /\ source \subseteq Events
    /\ held \subseteq Nat \X RideIds /\ \A h \in held : h[1] >= now
    /\ batch \in Seq(Messages)
    /\ outstanding \in Seq(Messages) /\ Queued <= QueueMax
    /\ reports \in Seq(Messages \X BOOLEAN)
    /\ topic \in Seq(Messages)
    /\ manifest \subseteq RideIds \cup Payments
    /\ failed \subseteq Events
    /\ unflushed \in Nat
    /\ pc \in {"tick", "on_tick", "send", "closing", "closed", "killed"}

(* The copies of an event, from the held ones and the batch to the log.    *)
CountIn(s, e) == Cardinality({i \in DOMAIN s : s[i].event = e})

Copies(e) ==
    CountIn(batch, e) + CountIn(outstanding, e) + CountIn(topic, e) + Cardinality({h \in held : h[2] = e})

IsCorrupted(e) == \E s \in {batch, outstanding, topic} : Contains(s, Message(e, TRUE))

(* The buckets are exclusive: an event that is corrupted has no intact     *)
(* copy anywhere, only a ride event ever has two copies, and no event has  *)
(* three, through any number of holds, releases, retries and a crash       *)
(* (Imperfector.process, release_due, the idempotent producer).            *)
BucketsAreExclusive ==
    \A e \in Events :
        /\ Copies(e) <= IF e \in RideIds THEN 2 ELSE 1
        /\ IsCorrupted(e) => Copies(e) = 1

(* While the loop runs, an event the simulator emitted is in the batch,    *)
(* held, on its way, in the log, or its delivery was reported as failed:   *)
(* the layer reorders and delays, it never drops (release_due, send).      *)
LoopDropsNothing ==
    pc \in {"tick", "on_tick", "send"} =>
        \A e \in Events \ source :
            \/ Copies(e) > 0
            \/ e \in failed
            \/ \E i \in DOMAIN reports : reports[i][1].event = e /\ ~reports[i][2]

(* The manifest is honest: every id in it is in the log, intact, whatever  *)
(* failed, timed out or was killed ("keep the manifest honest").           *)
ManifestIsHonest == \A e \in manifest : Contains(topic, Clean(e))

(* After a clean close the manifest is the ground truth the kill test      *)
(* takes it for: with nothing left unflushed and no delivery failed, every *)
(* intact ride event and payment in the log is in it.                      *)
CleanCloseIsComplete ==
    pc = "closed" /\ unflushed = 0 /\ failed = {} =>
        \A i \in DOMAIN topic :
            ~topic[i].corrupt /\ topic[i].event \notin Pings => topic[i].event \in manifest
=============================================================================
