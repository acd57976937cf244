------------------------ MODULE OperationsInduction ------------------------
(***************************************************************************)
(* The inductive invariants of the four tools, from which OperationsProofs *)
(* derives their safety properties.                                        *)
(***************************************************************************)
EXTENDS Operations, DlqReplayInduction

-----------------------------------------------------------------------------
(* The quality runner: until rows are lost, nothing that was ever counted, *)
(* recorded or read back exceeds the table.                                *)
CountsOK ==
    losses = 0 =>
        /\ \A i \in 1..Len(dq_results) : dq_results[i] <= fct_rides
        /\ \A r \in Runners :
              /\ observed[r] <= fct_rides
              /\ \A i \in 1..Len(history[r]) : history[r][i] <= fct_rides
              /\ dqPc[r] = "judge" => \A i \in 1..Len(history[r]) : history[r][i] <= observed[r]

QualityInv ==
    /\ QualityTypeOK
    /\ losses \in Nat
    /\ CountsOK
    /\ AlarmsAreReal

(* The count that a later run must not fall below: the highest in the      *)
(* history, and after a loss the highest there was when it happened.       *)
Baseline == IF losses = 0 THEN Max({0} \cup ToSet(dq_results)) ELSE lossFloor

InFlight(r) == dqPc[r] \in {"raw", "fct", "judge", "persist"}

(* Runs that will not notice a count below the baseline: they read the     *)
(* history before the baseline was recorded.                               *)
Unaware == {r \in Runners : InFlight(r) /\ \A i \in 1..Len(history[r]) : history[r][i] < Baseline}

(* There are no more runners than the history has rows. *)
FewRunners == IsFiniteSet(Runners) /\ Cardinality(Runners) <= HistoryLimit

(* Until a run reports the loss, the baseline is in the history, and the   *)
(* runs that can record something lower behind it are too few to push it   *)
(* out: each of them is unaware, and after it has recorded its count no    *)
(* longer.                                                                 *)
FloorKept ==
    ~reported /\ Baseline > 0 =>
        \E i \in 1..Len(dq_results) :
            /\ dq_results[i] >= Baseline
            /\ Len(dq_results) - i + Cardinality(Unaware) < Cardinality(Runners)

(* A gate that began after the loss has the baseline in its history, and   *)
(* passes only if it sees as much.                                         *)
GatesAware ==
    losses > 0 /\ ~reported => \A r \in sawLoss :
        /\ InFlight(r) /\ lossFloor > 0 => \E i \in 1..Len(history[r]) : history[r][i] >= lossFloor
        /\ exitCode[r] = 0 => observed[r] >= lossFloor

VerdictsOK ==
    /\ losses = 0 => ~reported
    /\ \A r \in Runners : dqPc[r] = "persist" =>
          /\ verdict[r] # "low" => \A i \in 1..Len(history[r]) : history[r][i] <= observed[r]
          /\ r \in Gates /\ verdict[r] # "ok" => failed[r] # {}
    /\ \A r \in Runners : exitCode[r] # NoExit => dqPc[r] = "done"
    /\ \A r \in Gates : exitCode[r] = 0 => failed[r] = {}

GateInv ==
    /\ lossFloor \in 0..MaxCount /\ reported \in BOOLEAN /\ sawLoss \subseteq Gates
    /\ VerdictsOK
    /\ FewRunners /\ losses <= 1 => FloorKept /\ GatesAware

-----------------------------------------------------------------------------
(* The lag exporter: the positions of the groups are where the books say,  *)
(* and in a cycle that no reset disturbed every end that was asked for     *)
(* bounds the lag of the groups at that moment.                            *)
BooksOK ==
    /\ committed \in [Groups \ {PgGroup} -> [Parts -> Int]]
    /\ stored \in [Parts -> Int]
    /\ ends \in [Parts -> Nat]
    /\ samples \in [Groups -> [Parts -> Int]]
    /\ atProbe \in [Groups -> [Parts -> Int]]
    /\ \A p \in Parts : Len(offsets[p]) <= MaxOffsets[p]

ProbesOK ==
    /\ lagStep <= Probes => samples = NoLag
    /\ ~stale => \A k \in 1..Probes : k <= lagStep =>
          \A g \in Groups : LET p == WatchedParts[k]
                            IN  /\ atProbe[g][p] >= 0
                                /\ atProbe[g][p] >= ends[p] - (IF NextOf(g, p) = NoneYet THEN 0 ELSE NextOf(g, p))

LagInv ==
    /\ LagTypeOK
    /\ BooksOK
    /\ ProbesOK
    /\ SamplesAreHonest

-----------------------------------------------------------------------------
(* The platform reset: what each step of the script has achieved, as long  *)
(* as nothing happened that the script does not handle.                    *)
Deleted  == {"topics", "wait_gone", "create", "leaders", "postgres", "state_dir", "done"}
Undisturbed == excuses \cap {"listing failed", "processor started"} = {}

GroupsOK ==
    /\ \A g \in ResetGroups : member[g] # "none" => group[g]
    /\ Undisturbed => /\ resetPc \in {"idle", "groups", "delete"} =>
                            \A g \in ResetGroups : group[g] => g \in remaining
                      /\ resetPc \in Deleted => \A g \in ResetGroups : ~group[g]

TopicsOK ==
    /\ resetPc \in {"wait_gone", "create", "leaders"} => \A t \in Topics : topic[t] # "old"
    /\ "slow deletion" \notin excuses =>
          /\ resetPc \in {"create", "leaders"} => \A t \in Topics : topic[t] # "dying"
          /\ resetPc \in {"postgres", "state_dir", "done"} => \A t \in Topics : topic[t] = "ready"

StoresOK ==
    Undisturbed => /\ resetPc \in {"state_dir", "done"} => tables \in {"missing", "blank"}
                   /\ resetPc = "done" => stateDir = "blank"

ResetInv ==
    /\ ResetTypeOK
    /\ resetPc # "failed" => attempt < Attempts
    /\ resetPc = "delete" => polls < MaxPolls
    /\ GroupsOK
    /\ TopicsOK
    /\ StoresOK

-----------------------------------------------------------------------------
(* The inductive invariant of the four tools (quality/runner.py,           *)
(* observability/lag_exporter.py, scripts/reset_platform.py,               *)
(* dlq/envelope.py with scripts/replay_dlq.py).                            *)
OpsInv ==
    /\ QualityInv
    /\ GateInv
    /\ LagInv
    /\ ResetInv
    /\ ReplayInv
=============================================================================
