----------------------------- MODULE Operations -----------------------------
(***************************************************************************)
(* The tools around the pipeline: the data-quality runner, the lag         *)
(* exporter, the platform reset and the dead-letter cycle.  They share no  *)
(* state, so letting one of them run at a time shows every behaviour that  *)
(* their properties can tell apart.                                        *)
(***************************************************************************)
EXTENDS QualityRunner, LagExporter, PlatformReset, DlqReplay

VARIABLE tool

opsVars == <<tool, qualityVars, lagVars, resetVars, replayVars>>

OpsInit ==
    /\ tool \in {"quality", "lag", "reset", "replay"}
    /\ QualityInit
    /\ LagInit
    /\ ResetInit
    /\ tool # "reset" => /\ topic = [t \in Topics |-> "absent"]
                         /\ group = [g \in ResetGroups |-> FALSE]
                         /\ tables = "missing"
    /\ ReplayInit
    /\ tool # "replay" => framed

Quality(A) == tool = "quality" /\ A /\ UNCHANGED <<tool, lagVars, resetVars, replayVars>>
Lag(A)     == tool = "lag" /\ A /\ UNCHANGED <<tool, qualityVars, resetVars, replayVars>>
Reset(A)   == tool = "reset" /\ A /\ UNCHANGED <<tool, qualityVars, lagVars, replayVars>>
Replay(A)  == tool = "replay" /\ A /\ UNCHANGED <<tool, qualityVars, lagVars, resetVars>>

OpsNext ==
    \/ Quality(QualityNext)
    \/ Lag(LagNext)
    \/ Reset(ResetNext)
    \/ Replay(ReplayNext)

(* The service of the quality runner and the exporter are restarted when   *)
(* they end and take their steps, consumers consume, the reset script runs *)
(* on, since each of its waits has a deadline, and pg-sink commits, since  *)
(* its batches are bounded.  Runs of the replay are up to an operator.     *)
OpsSpec ==
    /\ OpsInit
    /\ [][OpsNext]_opsVars
    /\ \A r \in Loops : WF_opsVars(Quality(RunnerStep(r)))
    /\ WF_opsVars(Lag(ExporterStep))
    /\ \A g \in Groups : \A p \in Parts : WF_opsVars(Lag(Progress(g, p)))
    /\ WF_opsVars(Reset(ResetStep))
    /\ WF_opsVars(Replay(Handle(PgReader)))
    /\ WF_opsVars(Replay(Finish(PgReader)))

(* Type correctness of the four tools. *)
OpsTypeOK ==
    /\ QualityTypeOK
    /\ LagTypeOK
    /\ ResetTypeOK
    /\ ReplayTypeOK
=============================================================================
