---------------------------- MODULE PlatformReset ----------------------------
(***************************************************************************)
(* scripts/reset_platform.py: the consumer groups, the topics, the raw     *)
(* tables and the state directory are brought back to a blank slate, in    *)
(* this order, while the broker deletes and creates topics in its own      *)
(* time, members of killed processors expire, and processors may still be  *)
(* running or be restarted.  Every wait is a loop with a deadline.         *)
(***************************************************************************)
EXTENDS Integers, FiniteSets

CONSTANTS
    Topics,        \* keys of TOPIC_PARTITIONS
    ResetGroups,   \* the processors' consumer groups
    Attempts,      \* attempts of reset_topics: 3
    MaxPolls,      \* bound: turns of a loop before its deadline
    MaxJoins       \* bound: processors that start during the reset

ASSUME ResetAssumption == Attempts \in Nat \ {0} /\ MaxPolls \in Nat \ {0}

VARIABLES
    resetPc,    \* where reset_all is
    topic,      \* topic -> its state on the broker
    group,      \* group -> does the coordinator know it
    member,     \* group -> "none", "live", or "zombie": killed and not yet expired
    tables,     \* the raw tables and consumer_offsets
    stateDir,
    remaining,  \* reset_groups: groups to delete
    attempt,    \* reset_topics: attempts that failed
    polls,      \* turns of the current loop
    excuses,    \* bookkeeping: what happened that the script does not handle
    joins

resetBroker == <<topic, group, member>>
resetLocals == <<remaining, attempt, polls>>
resetVars == <<resetPc, resetBroker, tables, stateDir, resetLocals, excuses, joins>>

(* "dying" is marked for deletion and still listed; "electing" has no      *)
(* leader; "wrong" has the partitions of an automatic creation.            *)
TopicStates == {"absent", "old", "wrong", "dying", "electing", "ready"}

ResetInit ==
    /\ resetPc = "idle"
    /\ topic \in [Topics -> {"absent", "old", "wrong"}]
    /\ member \in [ResetGroups -> {"none", "live", "zombie"}]
    /\ group \in [ResetGroups -> BOOLEAN]
    /\ \A g \in ResetGroups : member[g] # "none" => group[g]
    /\ tables \in {"missing", "filled"}
    /\ stateDir = "filled"
    /\ remaining = ResetGroups
    /\ attempt = 0
    /\ polls = 0
    /\ excuses = {}
    /\ joins = 0

Goto(label) == resetPc' = label /\ polls' = 0
Again(label) == resetPc' = label /\ polls' = polls + 1

(* main *)
StartReset ==
    /\ resetPc = "idle"
    /\ Goto("groups")
    /\ UNCHANGED <<resetBroker, tables, stateDir, remaining, attempt, excuses, joins>>

-----------------------------------------------------------------------------
(* reset_groups *)

(* One turn of the loop lists the groups ... *)
ListGroups ==
    /\ resetPc = "groups"
    /\ polls < MaxPolls
    /\ remaining' = {g \in remaining : group[g]}
    /\ IF remaining' = {} THEN Goto("topics") ELSE resetPc' = "delete" /\ UNCHANGED polls
    /\ UNCHANGED <<resetBroker, tables, stateDir, attempt, excuses, joins>>

(* ... a failure to list them leaves none to delete ... *)
ListGroupsFails ==
    /\ resetPc = "groups"
    /\ polls < MaxPolls
    /\ remaining' = {}
    /\ excuses' = excuses \cup {"listing failed"}
    /\ Goto("topics")
    /\ UNCHANGED <<resetBroker, tables, stateDir, attempt, joins>>

(* Mutant: a group counts as deleted before the answer is known. *)
Undeleted_Optimistic == {}

(* NON_EMPTY_GROUP *)
Undeleted == {g \in remaining : member[g] # "none"}

(* Mutant: the deadline starts again with every turn. *)
SleepAndRetry_NewDeadline == Goto("groups")

SleepAndRetry == Again("groups")

(* ... and deletes those that are empty. *)
DeleteGroups ==
    /\ resetPc = "delete"
    /\ group' = [g \in ResetGroups |->
                    IF g \in remaining /\ member[g] = "none" THEN FALSE ELSE group[g]]
    /\ remaining' = Undeleted
    /\ IF remaining' = {} THEN Goto("topics") ELSE SleepAndRetry
    /\ UNCHANGED <<topic, member, tables, stateDir, attempt, excuses, joins>>

GroupsDeadline ==
    /\ resetPc = "groups"
    /\ polls = MaxPolls
    /\ Goto("failed")
    /\ UNCHANGED <<resetBroker, tables, stateDir, remaining, attempt, excuses, joins>>

-----------------------------------------------------------------------------
(* reset_topics *)

DeleteTopics ==
    /\ resetPc = "topics"
    /\ topic' = [t \in Topics |-> IF topic[t] = "absent" THEN "absent" ELSE "dying"]
    /\ Goto("wait_gone")
    /\ UNCHANGED <<group, member, tables, stateDir, remaining, attempt, excuses, joins>>

(* Until no platform topic is listed; at the deadline the script goes on   *)
(* all the same.                                                           *)
WaitGone ==
    /\ resetPc = "wait_gone"
    /\ polls < MaxPolls
    /\ IF \A t \in Topics : topic[t] = "absent" THEN Goto("create") ELSE Again("wait_gone")
    /\ UNCHANGED <<resetBroker, tables, stateDir, remaining, attempt, excuses, joins>>

WaitGoneDeadline ==
    /\ resetPc = "wait_gone"
    /\ polls = MaxPolls
    /\ excuses' = IF \E t \in Topics : topic[t] = "dying"
                  THEN excuses \cup {"slow deletion"} ELSE excuses
    /\ Goto("create")
    /\ UNCHANGED <<resetBroker, tables, stateDir, remaining, attempt, joins>>

(* ensure_topics creates what is not listed; TOPIC_ALREADY_EXISTS of a     *)
(* topic that appeared in between leaves that topic as it is.              *)
EnsureTopics ==
    /\ resetPc = "create"
    /\ topic' = [t \in Topics |-> IF topic[t] = "absent" THEN "electing" ELSE topic[t]]
    /\ Goto("leaders")
    /\ UNCHANGED <<group, member, tables, stateDir, remaining, attempt, excuses, joins>>

(* Mutant: the number of partitions is not looked at. *)
IsReady_AnyShape(t) == topic[t] \in {"old", "wrong", "dying", "ready"}

(* Listed with the right partitions, all of which have a leader. *)
IsReady(t) == topic[t] \in {"old", "dying", "ready"}

WaitForLeaders ==
    /\ resetPc = "leaders"
    /\ polls < MaxPolls
    /\ IF \A t \in Topics : IsReady(t) THEN Goto("postgres") ELSE Again("leaders")
    /\ UNCHANGED <<resetBroker, tables, stateDir, remaining, attempt, excuses, joins>>

LeadersDeadline ==
    /\ resetPc = "leaders"
    /\ polls = MaxPolls
    /\ attempt' = attempt + 1
    /\ IF attempt' < Attempts THEN Goto("topics") ELSE Goto("failed")
    /\ UNCHANGED <<resetBroker, tables, stateDir, remaining, excuses, joins>>

-----------------------------------------------------------------------------
(* reset_postgres: one transaction; UndefinedTable rolls it back and is    *)
(* suppressed.  The sink creates all its tables together.                  *)
TruncateTables ==
    /\ resetPc = "postgres"
    /\ tables' = IF tables = "missing" THEN "missing" ELSE "blank"
    /\ Goto("state_dir")
    /\ UNCHANGED <<resetBroker, stateDir, remaining, attempt, excuses, joins>>

ResetStateDir ==
    /\ resetPc = "state_dir"
    /\ stateDir' = "blank"
    /\ Goto("done")
    /\ UNCHANGED <<resetBroker, tables, remaining, attempt, excuses, joins>>

Ended == resetPc \in {"done", "failed"}
Running == resetPc # "idle" /\ ~Ended

(* Any other error of the broker, of Postgres or of the file system ends   *)
(* the script.                                                             *)
ResetRaises ==
    /\ resetPc \in {"delete", "topics", "wait_gone", "create", "leaders", "postgres", "state_dir"}
    /\ Goto("failed")
    /\ UNCHANGED <<resetBroker, tables, stateDir, remaining, attempt, excuses, joins>>

-----------------------------------------------------------------------------
(* The broker, and processors that were not stopped, while the script runs. *)

TopicEvent(t) ==
    /\ Running
    /\ \/ topic[t] = "dying" /\ topic' = [topic EXCEPT ![t] = "absent"]
       \/ topic[t] = "electing" /\ topic' = [topic EXCEPT ![t] = "ready"]
       \/ topic[t] = "absent" /\ topic' = [topic EXCEPT ![t] = "wrong"]  \* auto-creation
    /\ UNCHANGED <<resetPc, group, member, tables, stateDir, resetLocals, excuses, joins>>

(* A processor is killed, or its member expires. *)
MemberEvent(g) ==
    /\ Running
    /\ \/ member[g] = "live" /\ member' = [member EXCEPT ![g] = "zombie"]
       \/ member[g] = "zombie" /\ member' = [member EXCEPT ![g] = "none"]
    /\ UNCHANGED <<resetPc, topic, group, tables, stateDir, resetLocals, excuses, joins>>

(* A running processor writes to Postgres or to its state file. *)
ProcessorWrites(g) ==
    /\ Running
    /\ member[g] = "live"
    /\ \/ tables' = "filled" /\ UNCHANGED stateDir
       \/ stateDir' = "filled" /\ UNCHANGED tables
    /\ UNCHANGED <<resetPc, resetBroker, resetLocals, excuses, joins>>

ProcessorStarts(g) ==
    /\ Running
    /\ joins < MaxJoins
    /\ joins' = joins + 1
    /\ member' = [member EXCEPT ![g] = "live"]
    /\ group' = [group EXCEPT ![g] = TRUE]
    /\ excuses' = excuses \cup {"processor started"}
    /\ UNCHANGED <<resetPc, topic, tables, stateDir, resetLocals>>

ResetStep ==
    \/ ListGroups
    \/ ListGroupsFails
    \/ DeleteGroups
    \/ GroupsDeadline
    \/ DeleteTopics
    \/ WaitGone
    \/ WaitGoneDeadline
    \/ EnsureTopics
    \/ WaitForLeaders
    \/ LeadersDeadline
    \/ TruncateTables
    \/ ResetStateDir
    \/ ResetRaises

ResetNext ==
    \/ StartReset
    \/ ResetStep
    \/ \E t \in Topics : TopicEvent(t)
    \/ \E g \in ResetGroups : MemberEvent(g) \/ ProcessorWrites(g) \/ ProcessorStarts(g)

-----------------------------------------------------------------------------
(* Type correctness; no loop outlives its deadline. *)
ResetTypeOK ==
    /\ resetPc \in {"idle", "groups", "delete", "topics", "wait_gone", "create",
                    "leaders", "postgres", "state_dir", "done", "failed"}
    /\ topic \in [Topics -> TopicStates]
    /\ group \in [ResetGroups -> BOOLEAN]
    /\ member \in [ResetGroups -> {"none", "live", "zombie"}]
    /\ tables \in {"missing", "filled", "blank"}
    /\ stateDir \in {"filled", "blank"}
    /\ remaining \subseteq ResetGroups
    /\ attempt \in 0..Attempts
    /\ polls \in 0..MaxPolls

(* "Reset the platform to a blank slate: topics, consumer groups,          *)
(* Postgres, state": a reset that ends without an error has done that.     *)
(* What it does not survive is named: a failed listing counts as "no       *)
(* groups", and then processors may be running; a deletion that outlasts   *)
(* its deadline is taken for a finished one; a processor may start late.   *)
ResetIsBlank ==
    resetPc = "done" =>
        /\ "slow deletion" \notin excuses => \A t \in Topics : topic[t] = "ready"
        /\ excuses \cap {"listing failed", "processor started"} = {} =>
              /\ \A g \in ResetGroups : ~group[g]
              /\ tables \in {"missing", "blank"}
              /\ stateDir = "blank"

(* Once started, the script comes to an end, even if a processor is never  *)
(* stopped.                                                                *)
ResetEnds == Running ~> Ended
=============================================================================
