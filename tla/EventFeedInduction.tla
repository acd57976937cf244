------------------------- MODULE EventFeedInduction -------------------------
(***************************************************************************)
(* What the generator's loop and its transport rely on beyond what they    *)
(* promise: the inductive invariant from which EventFeedProofs derives the *)
(* module's safety properties.                                             *)
(***************************************************************************)
EXTENDS EventFeed

Running == pc \in {"tick", "on_tick", "send"}

(* Where the loop is: the batch is empty at the start of a tick, and what  *)
(* is still held after release_due is due in a later one.                  *)
LoopOK ==
    /\ Running => now < MaxTicks
    /\ pc = "tick" => batch = <<>>
    /\ pc \in {"on_tick", "send"} => \A h \in held : h[1] > now

(* An event that the simulator has not emitted has no copies.              *)
SourceOK == \A e \in source : Copies(e) = 0

(* What the broker acknowledged is in the log. *)
ReportsOK == \A i \in 1..Len(reports) : reports[i][2] => Contains(topic, reports[i][1])

(* Until the process is killed, an intact message in the log that has a    *)
(* stable id is in the manifest, was reported as failed, or has a report   *)
(* to come.                                                                *)
ServedOK ==
    pc # "killed" => \A i \in 1..Len(topic) :
        ~topic[i].corrupt /\ topic[i].event \notin Pings =>
            \/ topic[i].event \in manifest \cup failed
            \/ \E j \in 1..Len(reports) : reports[j][1] = topic[i]

(* Nothing was left behind when flush said so. *)
ClosedOK == pc = "closed" /\ unflushed = 0 => outstanding = <<>> /\ reports = <<>>

(* The feed's inductive invariant: where copies of an event can be, how    *)
(* many there are, and what reports and manifest say of the log (main,     *)
(* Imperfector, KafkaTransport).                                           *)
FeedInv ==
    /\ TypeOK
    /\ IsFiniteSet(held)
    /\ LoopOK
    /\ SourceOK
    /\ BucketsAreExclusive
    /\ LoopDropsNothing
    /\ ReportsOK
    /\ ManifestIsHonest
    /\ ServedOK
    /\ ClosedOK
=============================================================================
