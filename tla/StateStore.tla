----------------------------- MODULE StateStore -----------------------------
(***************************************************************************)
(* StateStore, commit by commit.  BotRuntime takes its operations as one   *)
(* step each; here an operation is the sequence of commits it makes, so    *)
(* that it can be cut off between two of them (crash, "database is         *)
(* locked") and so that another process can commit in between: the hourly  *)
(* trial monitor, scripts/monitor_trial_00095.py, which writes bot_state   *)
(* on its own.  The bot reads the bot_state row, and writes all its        *)
(* columns back two statements later.                                      *)
(*                                                                         *)
(* Rows inserted or updated before a commit belong to that commit: SQLite  *)
(* holds the write lock from the first of them on.  Drawdowns are in units *)
(* of PnL, not divided by the peak; weekly_dd_pct is like daily_dd_pct and *)
(* left out; last_error is the subject of BotRuntime.                      *)
(***************************************************************************)
EXTENDS Integers, Sequences, FiniteSets, FiniteSetsExt

CONSTANTS
    Trades,         \* the trades of a run
    LastDay,        \* bound: UTC days 1 .. LastDay
    Pnls,           \* pnl_abs of a trade
    HardStopAfter,  \* hard_stop_after_trades of the monitor
    HardStopBelow   \* hard_stop_min_expectancy_r of the monitor

ASSUME TradesAssumption   == IsFiniteSet(Trades)
ASSUME LastDayAssumption  == LastDay \in Nat \ {0}
ASSUME PnlsAssumption     == Pnls \subseteq Int
ASSUME HardStopAssumption == HardStopAfter \in Nat /\ HardStopBelow \in Int

VARIABLES
    opened,     \* trade_log: opened[t] is the day of opened_at, 0 if not opened
    closings,   \* trade_log: the closed trades in the order of closed_at
    counts,     \* daily_metrics: trades_count, wins and losses of each day
    dayDd,      \* daily_metrics: daily_dd_pct of each day
    state,      \* the bot_state row
    copy,       \* the BotState object the running operation holds
    todo,       \* the statements the running operation still has to execute
    today,      \* the wall clock's day
    outdated    \* history: did the monitor commit after the running operation's load?

tables == <<opened, closings>>
vars == <<tables, counts, dayDd, state, copy, todo, today, outdated>>

Days == 1 .. LastDay

(* The day an operation works for: the caller's "now" may be a day old. *)
Stamps == {d \in Days : d \in {today - 1, today}}

Closings == [trade : Trades, day : Days, pnl : Pnls]
Row      == [safe : BOOLEAN, healthy : BOOLEAN, open : Nat, streak : Nat, dd : Nat]
Count    == [trades : Nat, wins : Nat, losses : Nat]
Changes  == {"derived", "error", "healthy", "traded", "enter", "clear"}
Steps    == [do : {"sync", "load", "read"}, day : Days] \cup [do : Changes, day : Days]

-----------------------------------------------------------------------------
(* What the columns derive from *)

LoggedOn(d, log) == {t \in Trades : log[t] = d}

(* The counts of a day go by the day its trades were opened on. *)
CountsOf(d, log, closed) ==
    LET own == {i \in DOMAIN closed : closed[i].trade \in LoggedOn(d, log)}
    IN  [trades |-> Cardinality(LoggedOn(d, log)),
         wins   |-> Cardinality({i \in own : closed[i].pnl > 0}),
         losses |-> Cardinality({i \in own : closed[i].pnl < 0})]

IsClosed(t) == \E i \in DOMAIN closings : closings[i].trade = t
OpenCount   == Cardinality({t \in Trades : opened[t] # 0 /\ ~IsClosed(t)})

(* Streak and drawdown of a day go by the day its trades were closed on. *)
Streak(d) ==
    LET upTo[i \in 0 .. Len(closings)] ==
            IF i = 0 \/ (i > 0 /\ (closings[i].day # d \/ closings[i].pnl > 0)) THEN 0
            ELSE upTo[i - 1] + (IF closings[i].pnl < 0 THEN 1 ELSE 0)
    IN  upTo[Len(closings)]

Drawdown(d) ==
    LET below[i \in 0 .. Len(closings)] ==
            IF i = 0 THEN 0
            ELSE IF closings[i].day # d THEN below[i - 1]
            ELSE Max({0, below[i - 1] - closings[i].pnl})
    IN  Max({below[i] : i \in 0 .. Len(closings)})

-----------------------------------------------------------------------------
(* Statements *)

(* sync_daily_metrics: counts from trade_log, the drawdown from bot_state. *)
SyncDailyMetrics(d, log, closed) ==
    /\ counts' = [counts EXCEPT ![d] = CountsOf(d, log, closed)]
    /\ dayDd' = [dayDd EXCEPT ![d] = state.dd]

(* Mutant: the derived columns are taken from the row as it is. *)
StoredColumns(d) == state

Loaded(d) == [state EXCEPT !.open = OpenCount, !.streak = Streak(d), !.dd = Drawdown(d)]

(* Mutant: being healthy means not being in safe mode. *)
HealthyEndsSafeMode(row, change) ==
    CASE change = "derived" -> row
      [] change = "error"   -> [row EXCEPT !.healthy = FALSE]
      [] change \in {"healthy", "traded", "clear"} ->
             [row EXCEPT !.healthy = TRUE, !.safe = FALSE, !.open = OpenCount]
      [] change = "enter"   -> [row EXCEPT !.healthy = FALSE, !.safe = TRUE, !.open = OpenCount]

Changed(row, change) ==
    CASE change = "derived" -> row
      [] change = "error"   -> [row EXCEPT !.healthy = FALSE]
      [] change \in {"healthy", "traded"} -> [row EXCEPT !.healthy = TRUE, !.open = OpenCount]
      [] change = "enter"   -> [row EXCEPT !.healthy = FALSE, !.safe = TRUE, !.open = OpenCount]
      [] change = "clear"   -> [row EXCEPT !.healthy = TRUE, !.safe = FALSE, !.open = OpenCount]

Do(step, d) == [do |-> step, day |-> d]

Sync ==
    /\ Head(todo).do = "sync"
    /\ SyncDailyMetrics(Head(todo).day, opened, closings)
    /\ UNCHANGED <<state, copy, outdated>>

(* load, and the columns refresh_runtime_state computes before it saves. *)
Load ==
    /\ Head(todo).do = "load"
    /\ copy' = Loaded(Head(todo).day)
    /\ outdated' = FALSE
    /\ UNCHANGED <<counts, dayDd, state>>

(* save: the copy, changed, replaces the whole row. *)
Save ==
    /\ Head(todo).do \in Changes
    /\ state' = Changed(copy, Head(todo).do)
    /\ UNCHANGED <<counts, dayDd, copy, outdated>>

(* The caller of get_governance_state or get_risk_state gets its numbers. *)
Read == Head(todo).do = "read" /\ UNCHANGED <<counts, dayDd, state, copy, outdated>>

Statement ==
    /\ todo # <<>> /\ todo' = Tail(todo)
    /\ Sync \/ Load \/ Save \/ Read
    /\ UNCHANGED <<tables, today>>

-----------------------------------------------------------------------------
(* Operations: the first commit, and the statements that follow it *)

AfterSync(d) == <<Do("load", d), Do("derived", d), Do("sync", d)>>
Refresh(d)   == <<Do("sync", d)>> \o AfterSync(d)

(* An operation that begins with refresh_runtime_state. *)
Begin(d, then) ==
    /\ todo = <<>>
    /\ SyncDailyMetrics(d, opened, closings)
    /\ todo' = AfterSync(d) \o then
    /\ UNCHANGED <<tables, state, copy, today, outdated>>

MarkError   == Begin(today, <<Do("error", today)>>)
MarkHealthy == Begin(today, <<Do("healthy", today)>>)

(* The reads and the risk gates of a decision. *)
GetState(d) == Begin(d, <<Do("read", d)>>)

SetSafeMode(enabled, d) ==
    Begin(d, <<Do(IF enabled THEN "enter" ELSE "clear", d)>>)

SendDailySummary(d) ==
    /\ todo = <<>> /\ d < today
    /\ SyncDailyMetrics(d, opened, closings)
    /\ UNCHANGED <<tables, state, copy, todo, today, outdated>>

RecordTradeOpen(t, d) ==
    /\ todo = <<>> /\ opened[t] = 0
    /\ opened' = [opened EXCEPT ![t] = d]
    /\ SyncDailyMetrics(d, opened', closings)
    /\ todo' = AfterSync(d) \o <<Do("traded", d), Do("sync", d)>>
    /\ UNCHANGED <<closings, state, copy, today, outdated>>

(* Mutant: only the day of closed_at is synced. *)
SettleSyncsClosedDay(t, d, pnl) ==
    /\ todo = <<>> /\ opened[t] # 0 /\ ~IsClosed(t)
    /\ \A i \in DOMAIN closings : closings[i].day <= d
    /\ opened[t] <= d
    /\ closings' = Append(closings, [trade |-> t, day |-> d, pnl |-> pnl])
    /\ SyncDailyMetrics(d, opened, closings')
    /\ todo' = Refresh(d) \o <<Do("traded", d)>>
    /\ UNCHANGED <<opened, state, copy, today, outdated>>

SettleTradeClose(t, d, pnl) ==
    /\ todo = <<>> /\ opened[t] # 0 /\ ~IsClosed(t)
    /\ \A i \in DOMAIN closings : closings[i].day <= d
    /\ opened[t] <= d
    /\ closings' = Append(closings, [trade |-> t, day |-> d, pnl |-> pnl])
    /\ SyncDailyMetrics(opened[t], opened, closings')
    /\ todo' = <<Do("sync", d)>> \o Refresh(d) \o <<Do("traded", d)>>
    /\ UNCHANGED <<opened, state, copy, today, outdated>>

(* A crash, or a statement that finds the database locked: what was        *)
(* committed stays, the rest of the operation does not happen.             *)
CutOff ==
    /\ todo # <<>>
    /\ todo' = <<>>
    /\ UNCHANGED <<tables, counts, dayDd, state, copy, today, outdated>>

-----------------------------------------------------------------------------
(* The monitor's process, and the clock *)

(* Enough closed trades, and an expectancy below the limit. *)
HardStop ==
    /\ Len(closings) >= HardStopAfter
    /\ MapThenSumSet(LAMBDA i : closings[i].pnl, DOMAIN closings) < HardStopBelow * Len(closings)

ApplySafeMode ==
    /\ HardStop
    /\ state' = [state EXCEPT !.safe = TRUE, !.healthy = FALSE]
    /\ outdated' = TRUE
    /\ UNCHANGED <<tables, counts, dayDd, copy, todo, today>>

Midnight ==
    /\ today < LastDay
    /\ today' = today + 1
    /\ UNCHANGED <<tables, counts, dayDd, state, copy, todo, outdated>>

Init ==
    /\ opened = [t \in Trades |-> 0] /\ closings = <<>>
    /\ counts = [d \in Days |-> [trades |-> 0, wins |-> 0, losses |-> 0]]
    /\ dayDd = [d \in Days |-> 0]
    /\ state = [safe |-> FALSE, healthy |-> TRUE, open |-> 0, streak |-> 0, dd |-> 0]
    /\ copy = state /\ todo = <<>> /\ today = 1
    /\ outdated = FALSE

Next ==
    \/ Statement \/ MarkError \/ MarkHealthy \/ CutOff \/ ApplySafeMode \/ Midnight
    \/ \E d \in Stamps :
           \/ GetState(d) \/ SendDailySummary(d)
           \/ \E enabled \in BOOLEAN : SetSafeMode(enabled, d)
           \/ \E t \in Trades :
                  RecordTradeOpen(t, d) \/ \E pnl \in Pnls : SettleTradeClose(t, d, pnl)

Spec == Init /\ [][Next]_vars

-----------------------------------------------------------------------------
(* Properties *)

(* The daily counts, which governance reads as trades_today, are those of   *)
(* trade_log after every single commit, wherever an operation is cut off.   *)
DailyCountsExact == \A d \in Days : counts[d] = CountsOf(d, opened, closings)

(* Governance and risk are handed the numbers the tables give for their     *)
(* day, whatever was cut off before.                                        *)
DecisionsReadFresh ==
    (todo # <<>> /\ Head(todo).do = "read") =>
        LET d == Head(todo).day
        IN  copy.streak = Streak(d) /\ copy.dd = Drawdown(d) /\ copy.open = OpenCount

EndsSafeMode == state.safe /\ ~state'.safe
Clearing     == todo # <<>> /\ Head(todo).do = "clear"

(* Only set_safe_mode(False) ends a safe mode, or a save that puts back the  *)
(* columns it loaded before the monitor switched safe mode on.               *)
SafeModeSticks == [][EndsSafeMode => Clearing \/ outdated]_vars

=============================================================================
