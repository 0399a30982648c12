--------------------------- MODULE DecisionTrail ----------------------------
(***************************************************************************)
(* What run_decision_cycle writes down on its way (PAPER), and what the     *)
(* dashboard reads out of it.  Every row is a commit of its own: the        *)
(* process may die between any two, and a write that fails - the collectors *)
(* and the monitor write to the same file - is swallowed, turned into an    *)
(* outcome, or ends the process, depending on where it happens.  What       *)
(* decides (snapshot, lifecycle, signal, governance, risk) is a choice      *)
(* here; BotRuntime and SignalPipeline model it.                           *)
(***************************************************************************)
EXTENDS Integers

CONSTANT MaxCycles      \* bound: decision cycles, over all processes

ASSUME MaxCyclesAssumption == MaxCycles \in Nat

VARIABLES
    rows,       \* committed rows that name a cycle's signal or snapshot: <<table, cycle>>
    outcomes,   \* decision_outcomes: cycle, group and the rows it refers to
    metrics,    \* runtime_metrics: decision_cycle_status and last_decision_outcome
    step,       \* where the process is, or "down"
    cycle,      \* the cycle under way, or the last one
    refs,       \* its ids: snapshot_id, feature_snapshot_id, signal_id
    result,     \* its cycle_outcome
    cut         \* history: cycles that ended early or lost a write that failed

trailVars == <<rows, outcomes, metrics, step, cycle, refs, result, cut>>

Cycles == 1 .. MaxCycles
Row(table, c) == <<table, c>> \in rows

GoOn(to) == step' = to /\ UNCHANGED <<outcomes, metrics, cycle, result, cut>>

(* An exception nothing catches: the finally clause runs, then the process  *)
(* ends.                                                                   *)
Raise ==
    /\ step' = "raised" /\ cut' = cut \cup {cycle}
    /\ UNCHANGED <<rows, outcomes, metrics, cycle, refs, result>>

(* The cycle is left with this outcome, still to be recorded. *)
EndWith(group) ==
    /\ step' = "record" /\ result' = group
    /\ UNCHANGED <<rows, outcomes, metrics, cycle, refs, cut>>

(* INSERT and COMMIT of rows of this cycle. *)
Insert(tables) == rows' = rows \cup {<<t, cycle>> : t \in tables}

InsertMarketSnapshot  == Insert({"snapshot"})
InsertFeatureSnapshot == Insert({"features"})
SaveSignalCandidate   == Insert({"candidate"}) /\ refs' = refs \cup {"candidate"}
SaveExecutableSignal  == Insert({"executable"})
InsertPosition        == Insert({"position", "execution"})
InsertTradeLogOpen    == Insert({"trade"})

(* Both answer with the id of the new row. *)
RecordMarketSnapshot  == InsertMarketSnapshot /\ refs' = {"snapshot"}
RecordFeatureSnapshot == InsertFeatureSnapshot /\ refs' = refs \cup {"features"}

-----------------------------------------------------------------------------
(* The cycle *)

UpsertRuntimeMetrics(fields) == metrics' = fields

(* _update_runtime_metrics drops what goes wrong. *)
UpdateMetrics(fields) ==
    \/ (UpsertRuntimeMetrics(fields) /\ UNCHANGED cut)
    \/ (UNCHANGED metrics /\ cut' = cut \cup {cycle'})

BeginCycle ==
    /\ step = "idle" /\ cycle < MaxCycles
    /\ cycle' = cycle + 1 /\ refs' = {} /\ result' = "unknown"
    /\ UpdateMetrics([metrics EXCEPT !.status = "running"])
    /\ step' = "refresh"
    /\ UNCHANGED <<rows, outcomes>>

RefreshState ==
    /\ step = "refresh"
    /\ (GoOn("snapshot") /\ UNCHANGED <<rows, refs>>) \/ Raise

(* A failure after the row is committed keeps its id. *)
BuildSnapshot ==
    /\ step = "snapshot"
    /\ \/ EndWith("snapshot_failed")
       \/ /\ RecordMarketSnapshot
          /\ \/ GoOn("lifecycle")
             \/ step' = "record" /\ result' = "snapshot_failed"
                /\ UNCHANGED <<outcomes, metrics, cycle, cut>>

(* The position monitor or the cycle finds an exit: one commit closes the   *)
(* position and its trade.                                                 *)
SettleTrade ==
    /\ step \in {"idle", "lifecycle"}
    /\ \E c \in Cycles : Row("trade", c) /\ ~Row("closed", c) /\ rows' = rows \cup {<<"closed", c>>}
    /\ UNCHANGED <<outcomes, metrics, step, cycle, refs, result, cut>>

ProcessLifecycle ==
    /\ step = "lifecycle"
    /\ (GoOn("mode") /\ UNCHANGED <<rows, refs>>) \/ EndWith("lifecycle_failed")

CheckSafeMode ==
    /\ step = "mode"
    /\ (GoOn("features") /\ UNCHANGED <<rows, refs>>) \/ EndWith("safe_mode_skip")

ComputeFeatures ==
    /\ step = "features"
    /\ \/ RecordFeatureSnapshot /\ GoOn("signal")
       \/ Raise

GenerateSignal ==
    /\ step = "signal"
    /\ \/ EndWith("no_signal")
       \/ SaveSignalCandidate /\ GoOn("governance")
       \/ Raise

(* Mutant: the executable signal is saved before governance is asked. *)
SaveThenGovern ==
    /\ step = "governance"
    /\ \/ /\ SaveExecutableSignal /\ UNCHANGED <<outcomes, metrics, cycle, refs, cut>>
          /\ \/ step' = "risk" /\ UNCHANGED result
             \/ step' = "record" /\ result' = "governance_veto"
       \/ Raise

Govern ==
    /\ step = "governance"
    /\ \/ EndWith("governance_veto")
       \/ SaveExecutableSignal /\ UNCHANGED refs /\ GoOn("risk")
       \/ Raise

AssessRisk ==
    /\ step = "risk"
    /\ (GoOn("execute") /\ UNCHANGED <<rows, refs>>) \/ EndWith("risk_block") \/ Raise

(* Position and fill are one commit, the trade_log row is another. *)
ExecuteSignal ==
    /\ step = "execute"
    /\ \/ InsertPosition /\ UNCHANGED refs /\ GoOn("open")
       \/ EndWith("execution_failed")

RecordTradeOpen ==
    /\ step = "open"
    /\ \/ InsertTradeLogOpen /\ UNCHANGED refs
          /\ step' = "record" /\ result' = "signal_generated"
          /\ UNCHANGED <<outcomes, metrics, cycle, cut>>
       \/ EndWith("execution_failed")

Outcome(group) == [cycle |-> cycle, group |-> group, refs |-> refs]

InsertDecisionOutcome == outcomes' = outcomes \cup {Outcome(result)}

(* _record_decision_outcome drops what goes wrong. *)
RecordOutcome ==
    /\ step = "record" /\ step' = "recorded"
    /\ \/ InsertDecisionOutcome /\ UNCHANGED cut
       \/ UNCHANGED outcomes /\ cut' = cut \cup {cycle}
    /\ UNCHANGED <<rows, metrics, cycle, refs, result>>

(* The audit log and mark_healthy or mark_error follow.  A failure there is *)
(* an execution failure while a trade is being opened, and ends the process *)
(* everywhere else.                                                        *)
AfterOutcome ==
    /\ step = "recorded"
    /\ \/ GoOn("finish") /\ UNCHANGED <<rows, refs>>
       \/ result = "signal_generated" /\ EndWith("execution_failed")
       \/ result # "signal_generated" /\ Raise

Blocked == result = "safe_mode_skip"

FinishCycle ==
    /\ step \in {"finish", "raised"}
    /\ step' = IF step = "finish" THEN "idle" ELSE "down"
    /\ UNCHANGED <<rows, outcomes, cycle, refs, result>>
    /\ UpdateMetrics([status |-> IF Blocked THEN "blocked" ELSE "idle", outcome |-> result])

(* From SIGKILL, power loss or a SIGTERM that comes between two cycles. *)
Die ==
    /\ step # "down" /\ step' = "down"
    /\ cut' = IF step = "idle" THEN cut ELSE cut \cup {cycle}
    /\ UNCHANGED <<rows, outcomes, metrics, cycle, refs, result>>

Restart == step = "down" /\ step' = "idle" /\ UNCHANGED <<rows, outcomes, metrics, cycle, refs, result, cut>>

TrailInit ==
    /\ rows = {} /\ outcomes = {} /\ metrics = [status |-> "idle", outcome |-> "none"]
    /\ step = "down" /\ cycle = 0 /\ refs = {} /\ result = "unknown" /\ cut = {}

TrailNext ==
    \/ BeginCycle \/ RefreshState \/ BuildSnapshot \/ SettleTrade \/ ProcessLifecycle \/ CheckSafeMode
    \/ ComputeFeatures \/ GenerateSignal \/ Govern \/ AssessRisk
    \/ ExecuteSignal \/ RecordTradeOpen \/ RecordOutcome \/ AfterOutcome \/ FinishCycle
    \/ Die \/ Restart

TrailSpec == TrailInit /\ [][TrailNext]_trailVars

-----------------------------------------------------------------------------
(* What the dashboard reads *)

Promoted(c)           == Row("candidate", c) /\ Row("executable", c)
HasExecutionRecord(c) == Row("position", c) /\ Row("execution", c)
ReadPositions         == {c \in Cycles : Row("position", c) /\ ~Row("closed", c)}
ReadTrades            == {c \in Cycles : Row("trade", c) /\ Row("closed", c)}
Counted(c)            == {o.group : o \in {o \in outcomes : o.cycle = c}}
Freshness             == metrics

-----------------------------------------------------------------------------
(* Properties *)

(* A row is there for every id another row gives, so the joins of the       *)
(* readers find the signal and the execution of every position and trade.   *)
RowsLinked ==
    /\ \A o \in outcomes : \A table \in o.refs : Row(table, o.cycle)
    /\ \A c \in Cycles :
          /\ Row("features", c) => Row("snapshot", c)
          /\ Row("executable", c) => Row("candidate", c)
    /\ \A c \in ReadPositions \cup ReadTrades : Promoted(c) /\ HasExecutionRecord(c)

(* An outcome says what was done: a veto never stands beside a promoted     *)
(* signal, a block never beside a position, and an opened trade has its     *)
(* rows.                                                                   *)
OutcomesTrue ==
    \A o \in outcomes :
        CASE o.group \in {"snapshot_failed", "lifecycle_failed", "safe_mode_skip"} -> ~Row("features", o.cycle)
          [] o.group = "no_signal"        -> ~Row("candidate", o.cycle)
          [] o.group = "governance_veto"  -> ~Promoted(o.cycle)
          [] o.group = "risk_block"       -> Promoted(o.cycle) /\ ~Row("position", o.cycle)
          [] o.group = "execution_failed" -> Promoted(o.cycle)
          [] o.group = "signal_generated" -> HasExecutionRecord(o.cycle) /\ Row("trade", o.cycle)

(* The funnel counts every cycle that was not cut off once, and what the    *)
(* dashboard shows of the last one is what it counted; only a trade that    *)
(* was opened before the audit log failed counts as a failure as well.      *)
CountedOnce ==
    \A c \in 1 .. cycle :
        /\ \A g, k \in Counted(c) : g # k => {g, k} = {"signal_generated", "execution_failed"}
        /\ c \notin cut /\ (c < cycle \/ step = "idle") => Counted(c) # {}
        /\ c = cycle /\ c \notin cut /\ step = "idle" =>
              Freshness.status # "running" /\ Freshness.outcome \in Counted(c)

(* The trail a cycle leaves is true whatever fails and wherever the process *)
(* dies: rows that refer to each other are there, outcomes agree with them, *)
(* and each cycle is counted once.                                         *)
TrailTellsTruth == RowsLinked /\ OutcomesTrue /\ CountedOnce
=============================================================================
