---------------------------- MODULE QualityRunner ----------------------------
(***************************************************************************)
(* The data-quality runner (quality/runner.py) and its rolling row-count   *)
(* baseline (quality/suites.py).  Every run records the number of rows it  *)
(* saw in fct_rides, and later runs, of this process or of another one,    *)
(* judge the table by the most recent of those records.  The compose       *)
(* service loops; `make dq` and `make dq-fail` run once beside it.         *)
(***************************************************************************)
EXTENDS Integers, SequencesExt, FiniteSetsExt

CONSTANTS
    Runners,       \* processes that run the suites
    Loops,         \* those with --interval; the others run once
    Gates,         \* those with --mode fail
    HistoryLimit,  \* LIMIT of rowcount_history: 10
    Slack,         \* the slack of rowcount_bounds: 1000
    MaxCount,      \* bound: rows of fct_rides
    MaxLosses,     \* bound: times the table shrinks
    MaxDqCrashes   \* bound: runs that end with an exception

ASSUME RunnerAssumption == Loops \subseteq Runners /\ Gates \subseteq Runners
ASSUME HistoryAssumption == HistoryLimit \in Nat \ {0} /\ Slack \in Nat /\ MaxCount \in Nat

NoExit == -1

Suites == {"raw_rides_events", "fct_rides"}

VARIABLES
    fct_rides,   \* number of rows of the mart
    dq_results,  \* observed counts of the row-count expectation, by run_at, as far
                 \* back as rowcount_history looks
    dqPc,        \* runner -> where its run_once is
    history,     \* runner -> what rowcount_history returned
    observed,    \* runner -> the count its validation saw
    verdict,     \* runner -> what became of the row-count expectation
    failed,      \* gate -> suites with a failed expectation
    exitCode,    \* runner -> exit code, or NoExit
    lossFloor,   \* bookkeeping: the recorded floor that the last loss went below
    sawLoss,     \* bookkeeping: gates whose run began after the last loss
    reported,    \* bookkeeping: "low" has been recorded since the last loss
    losses, dqCrashes

dqEnv  == <<fct_rides, lossFloor, losses>>
dqRun  == <<history, observed, verdict, failed>>
qualityVars == <<dqEnv, dqRun, dq_results, dqPc, exitCode, sawLoss, reported, dqCrashes>>

-----------------------------------------------------------------------------
(* Mutant: the smallest of the recorded counts. *)
Floor_Lowest(h) == IF h = <<>> THEN 0 ELSE Min(ToSet(h))

(* max(history); bounds are wide open without history *)
Floor(h) == IF h = <<>> THEN 0 ELSE Max(ToSet(h))

(* int(median(history)) *)
IntMedian(h) ==
    LET s == SortSeq(h, <)
        n == Len(h)
    IN  (s[(n + 1) \div 2] + s[n \div 2 + 1]) \div 2

(* Above max(int(median) * 4 + slack, floor + slack). *)
AboveCeiling(count, h) == count > IntMedian(h) * 4 + Slack /\ count > Floor(h) + Slack

(* ExpectTableRowCountToBeBetween(rowcount_bounds(history)) *)
Verdict(count, h) ==
    IF h # <<>> /\ count < Floor(h) THEN "low"
    ELSE IF h # <<>> /\ AboveCeiling(count, h) THEN "high"
    ELSE "ok"

(* The newest HistoryLimit rows, oldest first.  Older ones are never read  *)
(* again, and the model drops them.                                        *)
rowcount_history(rows) == SubSeq(rows, Max({1, Len(rows) - HistoryLimit + 1}), Len(rows))

QualityInit ==
    /\ fct_rides = 0
    /\ dq_results = <<>>
    /\ dqPc = [r \in Runners |-> "history"]
    /\ history = [r \in Runners |-> <<>>]
    /\ observed = [r \in Runners |-> 0]
    /\ verdict = [r \in Runners |-> "ok"]
    /\ failed = [r \in Runners |-> {}]
    /\ exitCode = [r \in Runners |-> NoExit]
    /\ lossFloor = 0
    /\ sawLoss = {}
    /\ reported = FALSE
    /\ losses = 0
    /\ dqCrashes = 0

-----------------------------------------------------------------------------
(* dbt builds append to fct_rides ... *)
Grow ==
    /\ \E n \in (fct_rides + 1)..MaxCount : fct_rides' = n
    /\ UNCHANGED <<lossFloor, losses, dqRun, dq_results, dqPc, exitCode, sawLoss,
                   reported, dqCrashes>>

(* ... and a full refresh over raw tables that lost rows shrinks it.       *)
Lose ==
    /\ losses < MaxLosses
    /\ losses' = losses + 1
    /\ \E n \in 0..(fct_rides - 1) : fct_rides' = n
    /\ lossFloor' = Max({0} \cup ToSet(dq_results))
    /\ sawLoss' = {}
    /\ reported' = FALSE
    /\ UNCHANGED <<dqRun, dq_results, dqPc, exitCode, dqCrashes>>

-----------------------------------------------------------------------------
(* run_once: the history is read when the expectations are built, before   *)
(* anything is validated.                                                  *)
ReadHistory(r) ==
    /\ dqPc[r] = "history"
    /\ history' = [history EXCEPT ![r] = rowcount_history(dq_results)]
    /\ dqPc' = [dqPc EXCEPT ![r] = "raw"]
    /\ sawLoss' = sawLoss \cup ({r} \cap Gates)
    /\ UNCHANGED <<dqEnv, observed, verdict, failed, dq_results, exitCode, reported, dqCrashes>>

(* The first suite is validated and its rows, which nobody reads back, are *)
(* persisted.  Only a gate looks at what failed.                           *)
ValidateRaw(r) ==
    /\ dqPc[r] = "raw"
    /\ \E broken \in IF r \in Gates THEN SUBSET {"raw_rides_events"} ELSE {{}} :
          failed' = [failed EXCEPT ![r] = broken]
    /\ dqPc' = [dqPc EXCEPT ![r] = "fct"]
    /\ UNCHANGED <<dqEnv, history, observed, verdict, dq_results, exitCode, sawLoss, reported,
                   dqCrashes>>

(* The queries of the second suite. *)
ValidateFct(r) ==
    /\ dqPc[r] = "fct"
    /\ observed' = [observed EXCEPT ![r] = fct_rides]
    /\ dqPc' = [dqPc EXCEPT ![r] = "judge"]
    /\ UNCHANGED <<dqEnv, history, verdict, failed, dq_results, exitCode, sawLoss, reported, dqCrashes>>

(* Mutant: the history is read when it is needed, after the count, while   *)
(* other runs record what they see.                                        *)
JudgedBy_Now(r) == rowcount_history(dq_results)

(* The bounds were fixed when the expectations were built. *)
JudgedBy(r) == history[r]

(* The count is compared with the bounds. *)
Judge(r) ==
    LET v == Verdict(observed[r], JudgedBy(r))
    IN  /\ dqPc[r] = "judge"
        /\ verdict' = [verdict EXCEPT ![r] = v]
        /\ failed' = [failed EXCEPT ![r] = IF v = "ok" \/ r \notin Gates THEN @
                                               ELSE @ \cup {"fct_rides"}]
        /\ dqPc' = [dqPc EXCEPT ![r] = "persist"]
        /\ UNCHANGED <<dqEnv, history, observed, dq_results, exitCode, sawLoss, reported,
                       dqCrashes>>

(* Mutant: only the last suite decides. *)
ExitCode_LastSuite(r) == IF "fct_rides" \in failed[r] THEN 2 ELSE 0

(* 2 if anything failed in --mode fail *)
ExitCode(r) == IF failed[r] # {} THEN 2 ELSE 0

(* A process that starts over, or ends, has forgotten its history. *)
Forget(r) ==
    /\ history' = [history EXCEPT ![r] = <<>>]
    /\ verdict' = [verdict EXCEPT ![r] = "ok"]

StartOver(r) ==
    /\ dqPc' = [dqPc EXCEPT ![r] = "history"]
    /\ observed' = [observed EXCEPT ![r] = 0]
    /\ failed' = [failed EXCEPT ![r] = {}]
    /\ UNCHANGED exitCode

Exit(r, code) ==
    /\ dqPc' = [dqPc EXCEPT ![r] = "done"]
    /\ exitCode' = [exitCode EXCEPT ![r] = code]
    /\ UNCHANGED <<observed, failed>>

(* _persist, one short transaction.  A loop sleeps and runs again, a       *)
(* single run exits.                                                       *)
Persist(r) ==
    /\ dqPc[r] = "persist"
    /\ dq_results' = rowcount_history(Append(dq_results, observed[r]))
    /\ reported' = (reported \/ verdict[r] = "low")
    /\ Forget(r)
    /\ IF r \in Loops THEN StartOver(r) ELSE Exit(r, ExitCode(r))
    /\ UNCHANGED <<dqEnv, sawLoss, dqCrashes>>

(* Any exception ends the process.  The service is restarted, a single run *)
(* exits with 1.                                                           *)
DqCrash(r) ==
    /\ dqPc[r] # "done"
    /\ dqCrashes < MaxDqCrashes
    /\ dqCrashes' = dqCrashes + 1
    /\ Forget(r)
    /\ IF r \in Loops THEN StartOver(r) ELSE Exit(r, 1)
    /\ UNCHANGED <<dqEnv, dq_results, sawLoss, reported>>

RunnerStep(r) ==
    \/ ReadHistory(r)
    \/ ValidateRaw(r)
    \/ ValidateFct(r)
    \/ Judge(r)
    \/ Persist(r)

QualityNext ==
    \/ Grow
    \/ Lose
    \/ \E r \in Runners : RunnerStep(r) \/ DqCrash(r)

-----------------------------------------------------------------------------
(* Type correctness; no run looks further back than HistoryLimit. *)
QualityTypeOK ==
    /\ fct_rides \in 0..MaxCount
    /\ dq_results \in Seq(0..MaxCount) /\ Len(dq_results) <= HistoryLimit
    /\ dqPc \in [Runners -> {"history", "raw", "fct", "judge", "persist", "done"}]
    /\ history \in [Runners -> Seq(0..MaxCount)] /\ \A r \in Runners : Len(history[r]) <= HistoryLimit
    /\ observed \in [Runners -> 0..MaxCount]
    /\ verdict \in [Runners -> {"ok", "low", "high"}]
    /\ failed \in [Runners -> SUBSET Suites]
    /\ exitCode \in [Runners -> {NoExit, 0, 1, 2}]

(* "this table only grows, so a shrink means data loss": a run calls the   *)
(* count low only if rows were lost, whatever the runs beside it record in *)
(* the meantime, and high only if it exceeds every recent count by more    *)
(* than the slack.                                                         *)
AlarmsAreReal ==
    \A r \in Runners : dqPc[r] = "persist" =>
        /\ verdict[r] = "low" => losses > 0
        /\ verdict[r] = "high" =>
              \A i \in 1..Len(history[r]) : observed[r] > history[r][i] + Slack

(* "any failed expectation exits 2 (CI gates on this)": a gate that passes *)
(* had no failure in either suite, and if it began after a loss it saw the *)
(* table restored to the recorded counts, unless an earlier run had        *)
(* reported the loss (and then its own count became part of the baseline). *)
GatePassesNoLoss ==
    \A r \in Gates : exitCode[r] = 0 =>
        /\ failed[r] = {}
        /\ (losses > 0 /\ r \in sawLoss) => (observed[r] >= lossFloor \/ reported)

(* A loss of rows is reported by a run of the service, unless the table    *)
(* grows back to the recorded counts.                                      *)
LossIsReported ==
    (losses > 0 /\ fct_rides < lossFloor) ~> (reported \/ fct_rides >= lossFloor)
=============================================================================
