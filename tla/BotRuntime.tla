----------------------------- MODULE BotRuntime -----------------------------
(***************************************************************************)
(* The trading runtime of orchestrator.py: one process that starts, runs   *)
(* the startup recovery, starts the data feeds and then repeats the event  *)
(* loop (health check, position monitor, decision cycle, kill switch),     *)
(* together with the SQLite tables it decides from and the operations of   *)
(* StateStore, GovernanceLayer, RiskEngine, PaperExecutionEngine and       *)
(* RecoveryCoordinator that it calls.                                      *)
(*                                                                         *)
(* One step is one call that commits (or one gate that only reads).  The   *)
(* process can die between any two of them; the tables survive, the        *)
(* process's own variables do not.                                         *)
(*                                                                         *)
(* Simplifications                                                         *)
(*  - Time is the UTC day ("day"), plus the order in which trades closed.  *)
(*    What depends on the hour or minute (the 15 s, 30 s and 15 min        *)
(*    schedule, sessions, the cooldown after a loss, the duplicate-level   *)
(*    window) is a nondeterministic "due" or "veto".                       *)
(*  - Money is an integer; drawdown limits are integer percentages and are *)
(*    compared exactly, by cross-multiplication.                           *)
(*  - Each StateStore operation is atomic against the other writers of the *)
(*    database; set_safe_mode is two steps because it commits twice.       *)
(*  - Derived columns of bot_state (open_positions_count,                  *)
(*    consecutive_losses, drawdowns) are recomputed by the refresh that    *)
(*    precedes every use, so they are operators here, not state.           *)
(***************************************************************************)
EXTENDS Integers, FiniteSets, Functions

CONSTANTS
    Modes,              \* the values BOT_MODE may have: "PAPER", "LIVE"
    Faults,             \* the kinds of failure the environment may inject
    MaxTrades,          \* bound: how many positions are ever opened
    FirstDay, LastDay,  \* bound: the UTC days the behaviour spans (0 is a Monday)
    Pnls,               \* the net results a settled trade can have
    RefEquity,          \* BotOrchestrator.REFERENCE_EQUITY
    MaxOpen,            \* settings.risk.max_open_positions
    MaxPerDay,          \* settings.risk.max_trades_per_day
    MaxLosses,          \* settings.risk.max_consecutive_losses
    DailyLimit,         \* settings.risk.daily_dd_limit, in percent
    WeeklyLimit,        \* settings.risk.weekly_dd_limit, in percent
    MaxExecErrors,      \* settings.execution.kill_switch_max_exec_errors
    HealthThreshold     \* settings.execution.health_failures_before_safe_mode

FaultKinds == {"crash", "feeds", "health", "snapshot", "lifecycle",
               "execute", "record", "event"}

ASSUME ModesAssumption  == Modes \subseteq {"PAPER", "LIVE"}
ASSUME FaultsAssumption == Faults \subseteq FaultKinds
ASSUME BoundsAssumption == /\ MaxTrades \in Nat
                           /\ FirstDay \in Nat /\ LastDay \in Nat /\ FirstDay <= LastDay
ASSUME MoneyAssumption  == /\ Pnls \subseteq Int /\ RefEquity \in Nat
                           /\ DailyLimit \in 1 .. 99 /\ WeeklyLimit \in 1 .. 99
ASSUME LimitsAssumption == /\ MaxOpen \in Nat /\ MaxPerDay \in Nat /\ MaxLosses \in Nat
                           /\ MaxExecErrors \in Nat /\ HealthThreshold \in Nat

VARIABLES
    \* The tables (positions, trade_log, bot_state, safe_mode_events) and .env.
    mode,         \* settings.mode: BOT_MODE, the same for every process of a run
    position,     \* position[t]: "none", "OPEN" or "CLOSED"
    tradeLog,     \* tradeLog[t]: "none", "open" or "closed"
    openedOn,     \* the UTC day of opened_at
    closedOn,     \* the UTC day of closed_at
    closedAt,     \* closed_at as an instant: equal for trades closed in one loop iteration
    pnl,          \* pnl_abs
    closings,     \* the latest of those instants
    bot,          \* the bot_state row
    lastEvent,    \* event_type of the newest safe_mode_events row
    \* The process: lost when it ends.
    pc,           \* which call comes next
    pendingEvent, \* the safe_mode_events row set_safe_mode has yet to insert
    loopDay,      \* the day of the iteration's "now"
    settledNow,   \* did this iteration already close a trade?
    todo,         \* open_records still to be looked at by _process_trade_lifecycle
    execErrors,   \* _critical_execution_errors
    healthFails,  \* _consecutive_health_failures, counted up to the threshold
    \* The world, and history.
    day,          \* the wall clock's UTC day
    cause         \* history variable: the trigger that switched safe mode on

tables  == <<mode, position, tradeLog, openedOn, closedOn, closedAt, pnl, closings>>
process == <<loopDay, settledNow, todo, execErrors, healthFails>>
vars    == <<tables, bot, lastEvent, pc, pendingEvent, process, day, cause>>

-----------------------------------------------------------------------------
(* Types *)

Trades == 1 .. MaxTrades    \* in the order of their rowids, which is opening order
Days   == FirstDay .. LastDay
NoDay  == -1

TechnicalTriggers == {"snapshot_build_failed", "health_check_failure_threshold",
                      "feed_start_failed", "exchange_sync_failed"}
OtherErrors == {"kill_switch", "recovery_inconsistency", "lifecycle_failed", "execution_failed"}
NoError  == "none"
Triggers == TechnicalTriggers \cup OtherErrors \cup {NoError}

BotRow == [safeMode : BOOLEAN, lastError : Triggers, since : Days \cup {NoDay}]

Stages == {"down", "recover", "feeds", "loop", "health", "monitor", "monitorLife",
           "decide", "decideLife", "gate", "govern", "risk", "execute", "record", "kill"}

TypeOK ==
    /\ mode \in Modes
    /\ position \in [Trades -> {"none", "OPEN", "CLOSED"}]
    /\ tradeLog \in [Trades -> {"none", "open", "closed"}]
    /\ openedOn \in [Trades -> Days \cup {NoDay}]
    /\ closedOn \in [Trades -> Days \cup {NoDay}]
    /\ closedAt \in [Trades -> Nat]
    /\ pnl \in [Trades -> Int]
    /\ closings \in Nat
    /\ bot \in BotRow
    /\ lastEvent \in {"none", "entered", "cleared"}
    /\ pc \in Stages
    /\ pendingEvent \in {"none", "entered", "cleared"}
    /\ loopDay \in Days
    /\ settledNow \in BOOLEAN
    /\ todo \subseteq Trades
    /\ execErrors \in Nat
    /\ healthFails \in Nat
    /\ day \in Days
    /\ cause \in Triggers

-----------------------------------------------------------------------------
(* Queries: what StateStore reads from the tables *)

OpenPositions == {t \in Trades : position[t] = "OPEN"}      \* OPEN or PARTIAL
Tracked       == {t \in OpenPositions : tradeLog[t] = "open"}
Closed        == {t \in Trades : tradeLog[t] = "closed"}
LoggedOn(d)   == {t \in Trades : tradeLog[t] # "none" /\ openedOn[t] = d}
Latest(t)     == position[t] # "none" /\ \A u \in Trades : u > t => position[u] = "none"

(* closed_at order; equal instants fall back to the rowid, as the index does. *)
NotAfter(t, u) == closedAt[t] < closedAt[u] \/ (closedAt[t] = closedAt[u] /\ t <= u)

(* The losses of day d after which nothing but losses and flat trades of d closed. *)
Streak(d) ==
    Cardinality({t \in Closed :
        /\ pnl[t] < 0
        /\ \A u \in Closed : NotAfter(t, u) => closedOn[u] = d /\ pnl[u] <= 0})

Total(S) == SumFunctionOnSet(pnl, S)

(* The drawdowns of days a..b: how far the equity after each trade closed in  *)
(* them is below a peak, which is the equity the period starts from or the   *)
(* one after an earlier trade of it; the code keeps the largest quotient.    *)
(* Equity stays positive (bound: in the instances), so the 1e-8 floor and    *)
(* the cap at 1 never show.                                                  *)
Drawdowns(a, b) ==
    LET period == {t \in Closed : closedOn[t] \in a .. b}
        start  == RefEquity + Total({t \in Closed : closedOn[t] < a})
        after(t) == start + Total({u \in period : NotAfter(u, t)})
        peaks(t) == {start} \cup {after(u) : u \in {v \in period : NotAfter(v, t)}}
    IN  UNION {{[loss |-> peak - after(t), peak |-> peak] : peak \in peaks(t)} : t \in period}

Monday(d) == d - (d % 7)
DailyDrawdowns(d)  == Drawdowns(d, d)
WeeklyDrawdowns(d) == Drawdowns(Monday(d), Monday(d) + 6)

(* The gates stop at a limit, the kill switch past it. *)
DrawdownReached(d) ==
    \/ \E dd \in DailyDrawdowns(d) : 100 * dd.loss >= DailyLimit * dd.peak
    \/ \E dd \in WeeklyDrawdowns(d) : 100 * dd.loss >= WeeklyLimit * dd.peak

DrawdownExceeded(d) ==
    \/ \E dd \in DailyDrawdowns(d) : 100 * dd.loss > DailyLimit * dd.peak
    \/ \E dd \in WeeklyDrawdowns(d) : 100 * dd.loss > WeeklyLimit * dd.peak

-----------------------------------------------------------------------------
(* Writes to bot_state *)

MarkError(trigger) == bot' = [bot EXCEPT !.lastError = trigger]
MarkHealthy        == bot' = [bot EXCEPT !.lastError = NoError]

(* set_safe_mode up to its first commit: the row of bot_state.  The row of   *)
(* safe_mode_events follows in a commit of its own (WriteEvent).             *)
SetSafeMode(on, reason, today) ==
    /\ bot' = [safeMode  |-> on,
               lastError |-> IF on THEN reason ELSE NoError,
               since     |-> CASE ~on          -> NoDay
                               [] bot.safeMode -> bot.since
                               [] OTHER        -> today]
    /\ cause' = CASE ~on -> NoError [] bot.safeMode -> cause [] OTHER -> reason
    /\ pendingEvent' = IF on THEN "entered" ELSE "cleared"

ActivateSafeMode(reason, today) ==
    IF bot.safeMode THEN UNCHANGED <<bot, cause, pendingEvent>>
                    ELSE SetSafeMode(TRUE, reason, today)

NoSafeModeChange == UNCHANGED <<cause, pendingEvent, lastEvent>>

(* The process is running and not in the middle of set_safe_mode. *)
At(stage) == pc = stage /\ pendingEvent = "none"

WriteEvent ==
    /\ pendingEvent # "none"
    /\ pendingEvent' = "none"
    /\ \/ lastEvent' = pendingEvent
       \/ "event" \in Faults /\ UNCHANGED lastEvent     \* caught and logged
    /\ UNCHANGED <<tables, bot, pc, process, day, cause>>

-----------------------------------------------------------------------------
(* start() *)

(* systemd (or an operator) starts the process. *)
Start ==
    /\ pc = "down"
    /\ pc' = "recover"
    /\ UNCHANGED <<tables, bot, lastEvent, pendingEvent, process, day, cause>>

(* Mutant: preserving means leaving everything as it is. *)
SilentlyPreservingRecovery ==
    /\ mode = "PAPER"
    /\ IF bot.safeMode /\ bot.lastError \notin TechnicalTriggers
       THEN UNCHANGED <<bot, cause, pendingEvent>>
       ELSE SetSafeMode(FALSE, NoError, day)

(* run_startup_sync with NoOpRecoverySyncSource. *)
RecoverPaper ==
    /\ mode = "PAPER"
    /\ IF bot.safeMode /\ bot.lastError \notin TechnicalTriggers
       THEN SetSafeMode(TRUE, bot.lastError, day)
       ELSE SetSafeMode(FALSE, NoError, day)

(* run_startup_sync against the exchange, whose state is the environment's. *)
RecoverLive ==
    /\ mode = "LIVE"
    /\ \/ SetSafeMode(FALSE, NoError, day)
       \/ \E issue \in {"exchange_sync_failed", "recovery_inconsistency"} :
              SetSafeMode(TRUE, issue, day)

Recover ==
    /\ At("recover")
    /\ pc' = "feeds"
    /\ RecoverPaper \/ RecoverLive
    /\ UNCHANGED <<tables, lastEvent, process, day>>

StartDataFeeds ==
    /\ At("feeds")
    /\ pc' = "loop"
    /\ \/ UNCHANGED <<bot, cause, pendingEvent>>
       \/ "feeds" \in Faults /\ SetSafeMode(TRUE, "feed_start_failed", day)
    /\ UNCHANGED <<tables, lastEvent, process, day>>

(* The process ends: stop() and _shutdown, an exception that no handler in  *)
(* the loop catches, or the machine.  What it kept in memory goes with it.  *)
Halt ==
    /\ pc # "down"
    /\ At("loop") \/ "crash" \in Faults
    /\ pc' = "down"
    /\ pendingEvent' = "none"
    /\ loopDay' = FirstDay /\ settledNow' = FALSE /\ todo' = {}
    /\ execErrors' = 0 /\ healthFails' = 0
    /\ UNCHANGED <<tables, bot, lastEvent, day, cause>>

-----------------------------------------------------------------------------
(* _run_event_loop *)

BeginIteration ==
    /\ At("loop")
    /\ pc' = "health"
    /\ loopDay' = day
    /\ UNCHANGED <<tables, bot, lastEvent, pendingEvent, settledNow, todo, execErrors,
                   healthFails, day, cause>>

HealthCheck ==
    /\ At("health")
    /\ pc' = "monitor"
    /\ \/ UNCHANGED <<bot, cause, pendingEvent, healthFails>>     \* not due
       \/ healthFails' = 0 /\ UNCHANGED <<bot, cause, pendingEvent>>
       \/ /\ "health" \in Faults
          /\ healthFails' = IF healthFails < HealthThreshold THEN healthFails + 1 ELSE healthFails
          /\ IF healthFails' >= HealthThreshold
             THEN ActivateSafeMode("health_check_failure_threshold", loopDay)
             ELSE UNCHANGED <<bot, cause, pendingEvent>>
    /\ UNCHANGED <<tables, lastEvent, loopDay, settledNow, todo, execErrors, day>>

(* _run_position_monitor_cycle up to its snapshot: not due, nothing open, or *)
(* no snapshot (only logged).                                                *)
SkipMonitor ==
    /\ At("monitor")
    /\ pc' = "decide"
    /\ UNCHANGED <<tables, bot, process, day>> /\ NoSafeModeChange

(* Mutant: no position monitoring in safe mode. *)
MonitorOutsideSafeModeOnly ==
    /\ At("monitor")
    /\ Tracked # {} /\ ~bot.safeMode
    /\ pc' = "monitorLife"
    /\ todo' = Tracked
    /\ UNCHANGED <<tables, bot, loopDay, settledNow, execErrors, healthFails, day>>
    /\ NoSafeModeChange

BeginMonitor ==
    /\ At("monitor")
    /\ Tracked # {}
    /\ pc' = "monitorLife"
    /\ todo' = Tracked
    /\ UNCHANGED <<tables, bot, loopDay, settledNow, execErrors, healthFails, day>>
    /\ NoSafeModeChange

-----------------------------------------------------------------------------
(* _process_trade_lifecycle, from the monitor and from the decision cycle *)

AfterLifecycle == IF pc = "monitorLife" THEN "decide" ELSE "gate"
InLifecycle    == At("monitorLife") \/ At("decideLife")

(* evaluate_exit says hold. *)
HoldTrade(t) ==
    /\ InLifecycle /\ t \in todo
    /\ todo' = todo \ {t}
    /\ UNCHANGED <<tables, bot, pc, loopDay, settledNow, execErrors, healthFails, day>>
    /\ NoSafeModeChange

(* Mutant: close_position is forgotten. *)
BookTradeLogOnly(t) ==
    /\ tradeLog' = [tradeLog EXCEPT ![t] = "closed"]
    /\ closings' = IF settledNow THEN closings ELSE closings + 1
    /\ closedAt' = [closedAt EXCEPT ![t] = closings']
    /\ closedOn' = [closedOn EXCEPT ![t] = loopDay]
    /\ \E result \in Pnls : pnl' = [pnl EXCEPT ![t] = result]
    /\ settledNow' = TRUE
    /\ UNCHANGED <<mode, position, openedOn>>

(* settle_trade_close books the exit at the snapshot's timestamp, the        *)
(* iteration's "now": positions and trade_log in one commit.                 *)
BookExit(t) ==
    /\ position' = [position EXCEPT ![t] = "CLOSED"]
    /\ tradeLog' = [tradeLog EXCEPT ![t] = "closed"]
    /\ closings' = IF settledNow THEN closings ELSE closings + 1
    /\ closedAt' = [closedAt EXCEPT ![t] = closings']
    /\ closedOn' = [closedOn EXCEPT ![t] = loopDay]
    /\ \E result \in Pnls : pnl' = [pnl EXCEPT ![t] = result]
    /\ settledNow' = TRUE
    /\ UNCHANGED <<mode, openedOn>>

(* evaluate_exit says close. *)
SettleTrade(t) ==
    /\ InLifecycle /\ t \in todo
    /\ todo' = todo \ {t}
    /\ BookExit(t)
    /\ MarkHealthy
    /\ UNCHANGED <<pc, loopDay, execErrors, healthFails, day>>
    /\ NoSafeModeChange

FinishLifecycle ==
    /\ InLifecycle /\ todo = {}
    /\ pc' = AfterLifecycle
    /\ UNCHANGED <<tables, bot, process, day>> /\ NoSafeModeChange

(* An exception, before or after the exit it concerns is committed: the      *)
(* monitor only logs it, the decision cycle marks the error and ends.        *)
FailLifecycle ==
    /\ InLifecycle
    /\ "lifecycle" \in Faults
    /\ todo' = {}
    /\ \/ UNCHANGED <<tables, settledNow>>
       \/ \E t \in todo : BookExit(t)
    /\ IF pc = "monitorLife"
       THEN pc' = "decide" /\ UNCHANGED bot
       ELSE pc' = "kill" /\ MarkError("lifecycle_failed")
    /\ UNCHANGED <<loopDay, execErrors, healthFails, day>>
    /\ NoSafeModeChange

-----------------------------------------------------------------------------
(* run_decision_cycle *)

SkipDecision ==
    /\ At("decide")
    /\ pc' = "kill"
    /\ UNCHANGED <<tables, bot, process, day>> /\ NoSafeModeChange

(* Mutant: a failed snapshot leaves the iteration, not just the cycle. *)
SnapshotFailureSkipsKillSwitch ==
    /\ At("decide")
    /\ \/ /\ pc' = "decideLife" /\ todo' = Tracked /\ UNCHANGED bot
       \/ /\ "snapshot" \in Faults
          /\ pc' = "loop" /\ MarkError("snapshot_build_failed") /\ UNCHANGED todo
    /\ UNCHANGED <<tables, loopDay, settledNow, execErrors, healthFails, day>>
    /\ NoSafeModeChange

BeginDecision ==
    /\ At("decide")
    /\ \/ /\ pc' = "decideLife" /\ todo' = Tracked /\ UNCHANGED bot
       \/ /\ "snapshot" \in Faults
          /\ pc' = "kill" /\ MarkError("snapshot_build_failed") /\ UNCHANGED todo
    /\ UNCHANGED <<tables, loopDay, settledNow, execErrors, healthFails, day>>
    /\ NoSafeModeChange

(* Mutant: the decision cycle does not look at safe mode. *)
OpenGate ==
    /\ At("gate")
    /\ \/ pc' = "kill" /\ MarkHealthy
       \/ /\ \E t \in Trades : position[t] = "none"
          /\ pc' = "govern" /\ UNCHANGED bot
    /\ UNCHANGED <<tables, process, day>> /\ NoSafeModeChange

(* Safe mode ends the cycle here; so does a cycle without a candidate        *)
(* (bound: there is none once MaxTrades positions were opened).              *)
Gate ==
    /\ At("gate")
    /\ \/ bot.safeMode /\ pc' = "kill" /\ UNCHANGED bot
       \/ ~bot.safeMode /\ pc' = "kill" /\ MarkHealthy
       \/ /\ ~bot.safeMode /\ \E t \in Trades : position[t] = "none"
          /\ pc' = "govern" /\ UNCHANGED bot
    /\ UNCHANGED <<tables, process, day>> /\ NoSafeModeChange

(* Mutant: one trade too many per day. *)
GovernancePassesAtLimit ==
    /\ ~DrawdownReached(day)
    /\ Streak(day) < MaxLosses
    /\ Cardinality(LoggedOn(day)) <= MaxPerDay

(* What GovernanceLayer.evaluate reads from the tables, at the wall clock.   *)
GovernancePasses ==
    /\ ~DrawdownReached(day)
    /\ Streak(day) < MaxLosses
    /\ Cardinality(LoggedOn(day)) < MaxPerDay

(* A veto may also come from the session, the cooldown or a duplicate level. *)
Govern ==
    /\ At("govern")
    /\ \/ GovernancePasses /\ pc' = "risk" /\ UNCHANGED bot
       \/ pc' = "kill" /\ MarkHealthy
    /\ UNCHANGED <<tables, process, day>> /\ NoSafeModeChange

(* Mutant: one slot too many. *)
RiskAllowsAtLimit ==
    /\ Cardinality(OpenPositions) <= MaxOpen
    /\ Streak(day) < MaxLosses
    /\ ~DrawdownReached(day)

RiskAllows ==
    /\ Cardinality(OpenPositions) < MaxOpen
    /\ Streak(day) < MaxLosses
    /\ ~DrawdownReached(day)

(* A block may also come from the reward-to-risk ratio or the stop distance. *)
AssessRisk ==
    /\ At("risk")
    /\ \/ RiskAllows /\ pc' = "execute" /\ UNCHANGED bot
       \/ pc' = "kill" /\ MarkHealthy
    /\ UNCHANGED <<tables, process, day>> /\ NoSafeModeChange

(* PaperExecutionEngine.execute_signal: the position and its fill, committed *)
(* before anything is written to trade_log.                                  *)
Fill(t) ==
    /\ At("execute") /\ mode = "PAPER"
    /\ position[t] = "none" /\ \A u \in Trades : u < t => position[u] # "none"
    /\ position' = [position EXCEPT ![t] = "OPEN"]
    /\ openedOn' = [openedOn EXCEPT ![t] = day]
    /\ pc' = "record"
    /\ UNCHANGED <<mode, tradeLog, closedOn, closedAt, pnl, closings, bot, process, day>>
    /\ NoSafeModeChange

(* The handler around execution: one more critical error, and last_error.    *)
ExecutionError ==
    /\ pc' = "kill"
    /\ execErrors' = execErrors + 1
    /\ MarkError("execution_failed")
    /\ UNCHANGED <<loopDay, settledNow, todo, healthFails, day>>
    /\ NoSafeModeChange

(* No fill: a price or bracket error.  In LIVE it is every call, because     *)
(* LiveExecutionEngine.execute_signal has no bid_price, ask_price or         *)
(* snapshot_id parameter.                                                    *)
FailExecution ==
    /\ At("execute")
    /\ mode = "LIVE" \/ "execute" \in Faults
    /\ UNCHANGED tables
    /\ ExecutionError

InsertTradeLog(t) == tradeLog' = [tradeLog EXCEPT ![t] = "open"]

RecordTradeOpen(t) ==
    /\ At("record") /\ Latest(t)
    /\ InsertTradeLog(t)
    /\ MarkHealthy
    /\ pc' = "kill"
    /\ UNCHANGED <<mode, position, openedOn, closedOn, closedAt, pnl, closings, process, day>>
    /\ NoSafeModeChange

(* record_trade_open or what follows it raises: before the insert (another   *)
(* process holds the write lock) or after it.                                *)
FailRecord(t) ==
    /\ At("record") /\ Latest(t)
    /\ "record" \in Faults
    /\ InsertTradeLog(t) \/ UNCHANGED tradeLog
    /\ UNCHANGED <<mode, position, openedOn, closedOn, closedAt, pnl, closings>>
    /\ ExecutionError

-----------------------------------------------------------------------------
(* _evaluate_kill_switch, at the end of every iteration *)

KillReason ==
    \/ DrawdownExceeded(loopDay)
    \/ Streak(loopDay) > MaxLosses
    \/ execErrors > MaxExecErrors

KillSwitch ==
    /\ At("kill")
    /\ pc' = "loop"
    /\ IF KillReason THEN ActivateSafeMode("kill_switch", loopDay)
                     ELSE UNCHANGED <<bot, cause, pendingEvent>>
    /\ settledNow' = FALSE        \* the next iteration has a later "now"
    /\ UNCHANGED <<tables, lastEvent, loopDay, todo, execErrors, healthFails, day>>

-----------------------------------------------------------------------------
(* The specification *)

Tick ==
    /\ day < LastDay
    /\ day' = day + 1
    /\ UNCHANGED <<tables, bot, lastEvent, pc, pendingEvent, process, cause>>

Init ==
    /\ mode \in Modes
    /\ position = [t \in Trades |-> "none"]
    /\ tradeLog = [t \in Trades |-> "none"]
    /\ openedOn = [t \in Trades |-> NoDay]
    /\ closedOn = [t \in Trades |-> NoDay]
    /\ closedAt = [t \in Trades |-> 0]
    /\ pnl = [t \in Trades |-> 0]
    /\ closings = 0
    /\ bot = [safeMode |-> FALSE, lastError |-> NoError, since |-> NoDay]
    /\ lastEvent = "none"
    /\ pc = "down"
    /\ pendingEvent = "none"
    /\ loopDay = FirstDay /\ settledNow = FALSE /\ todo = {}
    /\ execErrors = 0 /\ healthFails = 0
    /\ day = FirstDay
    /\ cause = NoError

Lifecycle ==
    \/ \E t \in Trades : HoldTrade(t) \/ SettleTrade(t)
    \/ FinishLifecycle \/ FailLifecycle

Decision ==
    \/ SkipDecision \/ BeginDecision \/ Gate \/ Govern \/ AssessRisk \/ FailExecution
    \/ \E t \in Trades : Fill(t) \/ RecordTradeOpen(t) \/ FailRecord(t)

(* What the process does of itself. *)
Run ==
    \/ WriteEvent \/ Start \/ Recover \/ StartDataFeeds \/ BeginIteration
    \/ HealthCheck \/ SkipMonitor \/ BeginMonitor \/ Lifecycle \/ Decision \/ KillSwitch

Next == Run \/ Halt \/ Tick

Spec == Init /\ [][Next]_vars

-----------------------------------------------------------------------------
(* Safety *)

(* risk_engine.evaluate is asked once, several commits before the position  *)
(* is written: the number of OPEN rows never passes max_open_positions.     *)
OpenBound == Cardinality(OpenPositions) <= MaxOpen

(* Governance and risk look at losses that are booked; the open trades may  *)
(* all be losers.  The losses in a row booked today and the tracked trades  *)
(* together exceed what the gate lets through by the open slots at most.    *)
(* (Only today: an iteration that straddles midnight settles on its own,    *)
(* past day while governance already reads the new one.)                    *)
StreakBound ==
    (MaxLosses > 0 /\ MaxOpen > 0)
        => Streak(day) + Cardinality(Tracked) <= MaxLosses - 1 + MaxOpen

(* trades_today is read by governance and the row that counts is written    *)
(* two stages later, possibly on another day: no day has more rows opened   *)
(* on it than max_trades_per_day.                                           *)
DailyTradesBound == \A d \in Days : Cardinality(LoggedOn(d)) <= MaxPerDay

(* positions and trade_log agree on every trade; a position without a       *)
(* trade_log row exists only between the engine's commit and the recording, *)
(* or is left by a crash or an error in that window.                        *)
BooksAgree ==
    \A t \in Trades :
        /\ tradeLog[t] = "open" => position[t] = "OPEN"
        /\ tradeLog[t] = "closed" <=> position[t] = "CLOSED"
        /\ position[t] = "OPEN" /\ tradeLog[t] = "none"
               => \/ pc = "record" /\ Latest(t)
                  \/ Faults \cap {"crash", "record"} # {}

(* Execution errors are counted in the cycle and judged at the end of the   *)
(* iteration, so one more than kill_switch_max_exec_errors is the worst.    *)
ExecErrorBound == execErrors <= MaxExecErrors + 1

(* Outside startup and outside set_safe_mode's own two commits, the newest  *)
(* row of safe_mode_events tells the truth about bot_state.safe_mode, even  *)
(* after crashes between the two commits.                                   *)
AuditMatchesState ==
    ("event" \notin Faults /\ pc \notin {"down", "recover"} /\ pendingEvent = "none")
        => lastEvent = IF bot.safeMode THEN "entered" ELSE "cleared"

(* A position is opened only while the row it was gated on still permits    *)
(* it, although the gates ran in earlier steps and the day may have turned  *)
(* in between: no safe mode, no limit reached by the wall clock's day, and  *)
(* no execution errors that the kill switch has yet to answer.              *)
EntryIsPermitted ==
    [][\A t \in Trades : position[t] = "none" /\ position'[t] = "OPEN" =>
           /\ ~bot.safeMode
           /\ Streak(day) < MaxLosses /\ ~DrawdownReached(day)
           /\ execErrors <= MaxExecErrors]_vars

(* While safe mode lasts, across restarts and new reasons, the row's        *)
(* safe_mode_entry_at keeps the day it was entered on.                      *)
EntryStampKept == [][bot.safeMode /\ bot'.safeMode => bot'.since = bot.since]_vars

(* Safe mode entered by the kill switch is left by nothing the bot does.    *)
CapitalSafeModeSticks == [][bot.safeMode /\ cause = "kill_switch" => bot'.safeMode]_vars

(* The runtime implements TradeLifecycle. *)
Stage(t) == CASE position[t] = "none" -> "absent"
              [] position[t] = "OPEN" -> "held"
              [] position[t] = "CLOSED" -> "settled"

Abstract == INSTANCE TradeLifecycle
                WITH Trade <- Trades, stage <- [t \in Trades |-> Stage(t)]

ImplementsLifecycle == Abstract!LifecycleSpec

-----------------------------------------------------------------------------
(* Liveness *)

(* The process executes its next call, and systemd restarts it             *)
(* (Restart=always).                                                        *)
Scheduling == WF_vars(Run)

(* The monitor comes due every 15 s and some of its snapshots succeed; of   *)
(* the positions it looks at again and again one is told to close, at the   *)
(* latest by the TIMEOUT exit after max_hold_hours (a trade is settled once, *)
(* so of finitely many none can wait forever behind the others).            *)
Market == SF_vars(BeginMonitor) /\ SF_vars(\E t \in Trades : SettleTrade(t))

LiveSpec == Spec /\ Scheduling /\ Market

(* A kill-switch reason that stays is answered: no path through the loop    *)
(* (failed snapshot, failed lifecycle, veto, safe-mode skip) avoids the     *)
(* evaluation at its end.                                                   *)
KillSwitchFires ==
    (pc # "down" /\ KillReason) ~> (bot.safeMode \/ pc = "down" \/ ~KillReason)

StaysUp == <>[](pc # "down")

(* Trades with a trade_log row are settled, in safe mode and out of it, as  *)
(* long as the process eventually stays up.                                 *)
TrackedTradesSettle == StaysUp => \A t \in Trades : t \in Tracked ~> position[t] = "CLOSED"
=============================================================================
