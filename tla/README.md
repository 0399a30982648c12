# btc-bot: TLA+ models, model checks and proofs

This directory holds a formal model of btc-bot, a Bitcoin futures trading bot
(`main.py`, `orchestrator.py`) with its SQLite store, its safety machinery and
the tools around it. The modules are TLA+, TLC checks them on small instances
(`*.cfg`), and TLAPS checks the proofs in `*Proofs.tla`.

## 1. The system

| Component | State it keeps | Operations | Properties that make it correct |
|---|---|---|---|
| Runtime loop, `orchestrator.py` | execution-error and health-failure counters, deadlines, current UTC day (memory only) | `start`, health check, position monitor, decision cycle, kill switch, daily rollover, shutdown | every reason to stop trading is answered; a position is entered only while everything permits it; open trades are settled |
| State store, `storage/state_store.py`, `storage/repositories.py` | tables `bot_state`, `positions`, `trade_log`, `executions`, `daily_metrics`, `safe_mode_events`, `config_snapshots` | `set_safe_mode`, `record_trade_open`, `settle_trade_close`, `refresh_runtime_state`, `sync_daily_metrics`, `mark_error`, `mark_healthy` | the tables agree with each other after any crash; derived columns match the rows they derive from |
| Startup recovery, `execution/recovery.py` | none of its own | `run_startup_sync` | technical safe modes clear on restart, capital-protection ones stay; the audit trail tells the truth |
| Governance, `core/governance.py` | none (reads the store) | `evaluate` | daily limits, cooldown, duplicate levels |
| Risk engine, `core/risk_engine.py` | none | `evaluate`, `evaluate_exit`, `build_settlement_metrics` | open-position limit, exits in the right order |
| Paper execution, `execution/paper_execution_engine.py` | writes `positions` and `executions` | `execute_signal` | one position per signal, bracket on the right sides of the fill |
| Live execution, `execution/live_execution_engine.py`, `execution/order_manager.py` | orders on the exchange, `positions` | entry with timeout, protective orders, amend, cancel | no position without protection; database and exchange agree |
| Market data, `data/*.py` | REST session, proxy state, WebSocket buffers, rows of `cvd_price_history` | retrying requests, proxy failover, stream threads, snapshot building | requests are carried out once; a window is what its grade says |
| Signal pipeline, `core/feature_engine.py`, `regime_engine.py`, `context_engine.py`, `signal_engine.py` | histories of CVD, open interest and force orders; approved levels | compute features, classify the regime, generate a candidate | a candidate answers to the market; a restart loses nothing it needs |
| Monitoring, `monitoring/*.py` | none in the health monitor; tables `audit_log`, `runtime_metrics` | health probes, audit log, alerts | what is written about a cycle is what happened in it |
| Dashboard, `dashboard/*.py` | a child process handle; the position in a log file | start/stop/status of the bot, read-only queries, log stream | at most one bot; rows that are read belong together; no line twice |
| Collectors and backfills, `scripts/server/*.py`, `scripts/*.py` | tables of candles, flow buckets, funding, open interest, force orders, daily bias | page-wise bootstrap, websocket loop, archive loads, daily collection | what was fetched is stored once and whole, however often a script is cut off |
| Trial monitor, `scripts/monitor_trial_00095.py` | second writer of `bot_state` | hard stop | no lost updates between two processes |
| Backtest, `backtest/*.py` | simulated positions over preloaded rows | bar-by-bar replay with partial exits | the accounting adds up; no bar sees what came after it |
| Research lab, `research_lab/*.py` | the experiment store: trials, walk-forward reports, recommendations | optimize, nested walk-forward, replay, autoresearch, approval bundles | an answer is earned by evidence that is in the store |


How they interact. The runtime is one thread that calls everything else
directly; the store is shared with other processes (dashboard: readers, trial
monitor and collectors: writers) through SQLite in WAL mode; the WebSocket
client runs a thread of its own. Collectors and backfills fill the tables the
backtest replays and the research lab optimises over; the lab's approval
bundle is what an operator puts into the bot's settings. systemd restarts the process whenever it ends
(`ops/systemd/btc-bot.service`, `Restart=always`), so every sequence of
commits can be cut anywhere and continues with the startup recovery.

What is hard about it:

- `bot_state.last_error` has two jobs: it reports the latest error, and it is
  what the next startup reads as the trigger of a safe mode. Every operation
  that writes it while safe mode is on changes what recovery will decide.
- One entry takes six steps with a commit between most of them (gate,
  governance, risk, execution, record, kill switch). Each limit is read several
  steps before the row that counts towards it is written, possibly on another
  UTC day.
- The counters that trip the kill switch live in memory, the rest in tables.
- Failures are handled in three different ways: logged (monitor), logged and
  marked (decision cycle), or fatal (everything outside the inner handlers).

- Every script commits page by page or file by file and is run again after it
  died; the research lab's commands leave evidence of different runs, over
  different data, side by side in one store.

PROJECT.json lists the hazards with the lines they sit at.

## 2. Plan

Order: what can lose money first, what only reports last. Written so far:

| Order | Modules | Subject |
|---|---|---|
| 1 | `TradeLifecycle`, `BotRuntime`, `BotRuntimeProofs` | the runtime and the tables it decides from; what it promises of a trade |
| 2 | `StateStore`, `StateStoreProofs` (also of 9) | the store commit by commit, with the trial monitor as second writer |
| 3 | `LiveExecution`, `LiveExecutionProofs` | LIVE entries against an exchange with lost and late answers; the recovery that compares |
| 4 | `RestClient`, `SignedRequest` | one signed request: retries, bans, proxies; what its answer allows to conclude |
| 5 | `EventLoop`, `EventLoopProofs` | deadlines, rollover, sleeping and stopping over a clock |
| 6 | `ProcessManager` | at most one bot from the dashboard |
| 7 | `Backtest`, `BacktestProofs` (also of 10) | the replay's exits and accounts; a second implementation of `TradeLifecycle` |
| 8 | `MarketFeed`, `MarketFeedProofs` | windows of trades from a websocket buffer or from REST pages |
| 9 | `SignalPipeline` | from a snapshot to an approved signal, and what a restart reads back |
| 10 | `WalkForward`, `Evaluation`, `ResearchLab` | windows, verdicts and rankings as operators; the lab's commands on one store |
| 11 | `Pages`, `History`, `Liquidations`, `DailyBias`, composed in `Collectors`, `CollectorsProofs` (also of 4 and 12) | everything that fills the market tables, over the REST client |
| 12 | `ReplayLoader` | what a backtest is shown of the tables `History` fills |
| 13 | `DecisionTrail`, `LogStream`, composed with `ProcessManager` in `Dashboard`, `DashboardProofs` (also of 6) | what a cycle writes about itself, and what the dashboard makes of it |

Left, in this order:

1. The research lab's resumption from Optuna storage and its signal funnel.
2. `SignalPipeline` joined with `BotRuntime` through the positions the former
   only counts.

Where two modules answer one question, one run checks both.

## 3. Modules

Every definition that stands for code is listed with its file and lines in
PROJECT.json under "map". A step of a module is a stretch of the program that
other actors, a crash or a failure cannot split; a Python function that commits
twice, or that sends two requests, is two steps.

### BotRuntime: the runtime and its tables

State: the tables `positions` (`position`, `openedOn`), `trade_log`
(`tradeLog`, `closedOn`, `closedAt`, `pnl`), `bot_state` (`bot`: `safe_mode`,
`last_error`, `safe_mode_entry_at`) and the newest row of `safe_mode_events`
(`lastEvent`), which survive a crash; the process's own variables (`pc`,
`loopDay`, `todo`, `execErrors`, `healthFails`), which do not. `cause` is a
history variable: which component switched safe mode on.

| Action | Code |
|---|---|
| `Start`, `Recover` (`RecoverPaper`, `RecoverLive`), `StartDataFeeds` | `BotOrchestrator.start`, `RecoveryCoordinator.run_startup_sync`, with the technical triggers that clear on restart and the capital triggers that stay |
| `BeginIteration`, `HealthCheck` | the top of the event loop and the health check with its failure threshold |
| `BeginMonitor`, `HoldTrade`, `SettleTrade`, `FinishLifecycle`, `FailLifecycle` | the position monitor and the lifecycle pass of a decision: every open trade is held or settled, one commit each |
| `BeginDecision`, `Gate`, `Govern`, `AssessRisk` | the decision cycle: snapshot, safe-mode gate, governance, risk |
| `Fill`, `RecordTradeOpen`, `FailExecution`, `FailRecord` | the engine's commit, then the row in `trade_log`, or an error in between |
| `KillSwitch` | the evaluation at the end of an iteration |
| `WriteEvent` | the second commit of `set_safe_mode` |
| `Halt`, `Tick` | a crash or an ordered end anywhere; midnight |

Derived columns of `bot_state` (streak, drawdowns, open positions) are operators
over the tables, because each use in the code is preceded by the refresh that
recomputes them. Whether that is so under a second writer is the question
`StateStore` answers.

In LIVE mode the engine's entry call at `orchestrator.py:555` passes an
argument that the live engine's `execute_signal` does not take, so in the
repository's present state a LIVE entry raises a `TypeError` that the decision
cycle catches: `FailExecution` is then the only outcome. `BotRuntime` keeps the
successful `Fill` for PAPER mode only; `LiveExecution` models the live engine on
its own, as its tests call it.

### StateStore: the store, one commit at a time

`state` is the row of `bot_state`, `copy` the copy an operation has loaded,
`opened`/`closings` the two tables it derives from, `counts` and `dayDd` the
rows of `daily_metrics`, and `todo` the commits that the running operation still
has before it. `Begin` starts an operation of the source (`mark_healthy`,
`get_risk_state`, `set_safe_mode`, `record_trade_open`,
`settle_trade_close`, the daily summary); `Statement` executes its next load,
save or sync; `CutOff` ends it between two (crash or exception); `HardStop` is
the trial monitor in another process; `Midnight` turns the day. `outdated` is a history
variable: the copy is older than the monitor's commit.

### LiveExecution: an entry and its protection

The exchange (`entry`, `filled`, `stop`, `tp`, `closed`) moves on its own:
orders fill in parts, protective orders trigger, an order is withdrawn. The
engine's `pc` follows `LiveExecutionEngine.execute_signal` call by call: set
leverage, submit, poll until the deadline, cancel, record, stop, target,
snapshot. A request can be refused, or its answer lost after it was carried out
(`Unanswered`), which is what `SignedRequest` allows. `Crash` and `Restart` are
the process's end and beginning. The recovery compares rows and exchange by two
requests, so it is two steps: `FetchPositions` keeps in `seen` whether there was a
position, `FetchOrders` asks for the open orders and decides on safe mode, and
the exchange moves between the two. `between` is a history variable: the entry
orders that worked at the first answer and had ended by the second.

### RestClient and SignedRequest: one request

`Call`, `Attempt`, `Return` are `signed_request` and `_request_with_retries`:
`Exchange` is what a request does out there, `HandleResponse` the ban detection
and proxy rotation, `GetProxies` the sticky session that may have expired.
`SignedRequest` is what a caller may conclude; `RestClient` implements it
under the mapping `executed > 0` to `effect`.

### EventLoop: deadlines

Two clocks: `clock`, which every call may advance by up to `Slow` ticks, and
`now`, the reading an iteration works with. `nextHealth`, `nextMonitor`,
`nextDecision` are the deadlines of `run`; `HandleDailyRollover` the summary of
the day that ended; `SleepTicks` the bounded sleep; `Stop`, `Shutdown`,
`Crash`, `Boot` the process's ends and beginnings. `cycles`, `summaries`,
`monitored`, `upSince`, `overran` record what happened.

### ProcessManager: the dashboard's bot

`handle` and `exited` are the manager's `Popen` object and its exit code,
`alive` the processes that run, `own` those the dashboard has started. `Start` and `Spawn` are the two halves of `start` (the check, the
`Popen`), `Stop`, `WaitGraceful` and `WaitHard` the parts of `stop`; `Exit` and
`StartOutside` are processes that end, and bots that systemd or an operator runs.

### Backtest: the replay

`trade[t]` is a position record with its fees, funding, partial and remaining
size; `todo` the positions the current bar has still to examine. `NextSnapshot`
feeds a bar, `CloseIfNeeded` is one position's funding, trailing stop, exit
decision and partial exit, `OpenPosition` an entry, `ForceCloseRemaining` the
end of the data. Prices and money are integers; slippage and fee are amounts per
unit instead of rates. `EvaluateExit` is the runtime's `RiskEngine.evaluate_exit`.

### MarketFeed: trades in a window

`tape` is what the exchange has printed, `buffer` the client's bounded deque,
`missed` the trades printed while no connection was up. `Connect`, `Deliver`,
`Fail`, `Wake` are the stream thread; `BeginSnapshot`, `ReadBuffer`,
`FetchWindow`, `NextPage`, `EndSnapshot` the assembler's choice between buffer
and REST and its paging, and `Grade` what it says of the result (ready, degraded
or unavailable by coverage, and never ready when clipped).

### SignalPipeline: from a snapshot to an approved signal

`memory` is the feature engine's `_cvd_price_history`, `rates` the length of its
force-order history, `levels` what governance remembers, `rows` the times of
`cvd_price_history`. `Decide` is a decision cycle up to its candidate: the
snapshot saves its row (`SaveBar`), `Compute` takes it into memory, `Sweeps` finds
equal levels, breaks and reclaims in a chart, `Regime`, `ContextEligible`,
`Direction`, `Confluence` and `BuildLevels` are the engines in the order of the
code. `Veto`, `VetoDuplicate`, `Approve`, `ApproveTraded` are governance and what
follows it; `Monitor` is a position-monitor snapshot, which saves a row too;
`Crash` and `Boot` restart the process, which reads its history back. Charts and
indicators without memory are chosen from small sets.

### WalkForward and ResearchLab: evidence for a set of parameters

`WalkForward` holds what needs no state: the windows of a protocol, anchored or
rolling, when a window and a report pass, the Pareto front and the rankings, in
which ties are broken in some order. Time is counted in snapshots: `build_windows`
ends the training where the validation starts and `iter_snapshots` keeps both
ends, so the two replay the snapshot at the split together. It takes the metrics
of every replay as the constant `Evaluations`; `Evaluation` computes them from a
result at each snapshot (`Evaluate`), which is how `MCResearchLab` fills the
constant. `EnoughTrades` applies both bounds on the number of trades, the upper
one of every evaluation included (`MaxVolume`, `MAX_TRADES_DEFAULT`).
`ResearchLab` runs one command after another on the store
(`trials`, `reports`, `recs`): `StartOptimize`, `RunTrial`, `EndStudy`,
`WalkForward`, `Recommend`, `EndCommand` are the post hoc study, `EndWindow` and
`SaveNested` the nested one; `Replay`, `StartAutoresearch`, `EvaluateCandidate`,
`RankResults`, `Publish`, `WriteBundle` and `BuildBundle` the other commands.
`Collect` is a collector that changes the source database in between, `Abort`
ends a command between two commits.

### History, Liquidations, DailyBias: the tables of the market

`History` is `bootstrap_history.py` stage by stage (`TakePage` with the cursor
arithmetic of each endpoint, `Commit`, `RateLimited`, `Abandon`), the zip loaders,
`refresh_candles.py` and `backfill_cvd_history.py` on the same tables, while the
exchange trades on (`Trade`, `Pass`). A candle and a bucket are the sets of
trades they sum up, so a hole or a wrong edge shows; the higher candles are
longer than the bars (`Long`). `Liquidations` is the live
force-order collector (`FetchPage`, `Connect`, `Deliver`, `Disconnect`,
`Signal`, `Die`), whose insert keeps one row for a millisecond
(`InsertForceOrders`), and the two archive backfills (`StartPass`, `ReadChunk`,
`SkipDay`, `FailFile`, `KillPass`); `Pages` holds what a limited request or query
returns; `DailyBias` the daily collector over sources
that publish late and out of order. `Collectors` composes the three with
`RestClient`; they share no table, so a behaviour is one of them.

### ReplayLoader: what a backtest sees

`SnapshotOf(c, start, end)` is the snapshot of the bar `c` in a replay from
`start` to `end`: the candles of its lookback, the higher candles that have
opened by its time, finished or not, the bucket `_resolve_agg_bucket` picks,
funding and open interest. It is evaluated over every state the scripts of `History` leave the tables in.

### DecisionTrail, LogStream, Dashboard

`DecisionTrail` is `run_decision_cycle` as a writer: `rows`, `outcomes` and
`metrics` are what it commits, one action per commit, with a failure that is
swallowed, becomes the outcome or ends the process after each of them, and `Die`
anywhere. The dashboard's readers are operators on these tables (`Promoted`,
`HasExecutionRecord`, `ReadPositions`, `ReadTrades`, `Counted`, `Freshness`).
`LogStream` is the log's rotation against the stream that follows it, look by
look. `Dashboard` composes both with `ProcessManager`: three pages of one server
that share no state, so a behaviour is one of them.

### TradeLifecycle: the promise

Three stages, two actions: a trade is entered at most once, into a free slot,
and settled at most once. `BotRuntime` and `Backtest` implement it.

## 4. Runs

State counts are of complete searches.

| Run | States | Question | Bounds |
|---|---|---|---|
| `runtime` | 185 122 | Do books, audit trail and limits survive crashes, caught failures and midnight; is a kill-switch reason answered, a tracked trade settled? | 3 trades, 2 slots, 2 a day, Sunday and Monday, every fault but a lost event row, losses of 3% against limits of 5% and 8% |
| `store` | 484 090 | Do governance and risk read what the tables say, and does safe mode stick? | 2 trades, 2 days, wins, losses and flat, hard stop after 1 trade |
| `live_orders` | 124 182 | Does a finished call leave what it claims; does a restart notice the rest? | 2 signals of 2 units, all 4 faults |
| `loop` | 461 903 | Is each bar decided once, the monitor prompt, each day summarised once? | 18 ticks: 4 bars and more of 4 ticks, 2 bars a day, calls of up to 2 ticks |
| `feed` | 545 224 | Is a window what its grade says? | 4 ticks, 4 trades, pages of 2, a buffer of 3 |
| `signals` | 123 045 | Is a candidate justified; what do restarts and rejections leave of memory and levels? | 8 ticks of half a bar, 7 charts (one a chain of lows), 14 climates, history of 3 samples |
| `backtest` | 648 223 | Does the money agree with the rows? | 4 bars over prices 1 to 9, 3 positions, LONG and SHORT, sizes 3 = 1 + 2 |
| `collect` | 2 197 429 | Do requests, bootstraps, archives and daily rows end whole; is a replay of them fair? | 3 retries and 3 proxies; 3 trades, pages of 2, hours of one bar, higher candles of two; 4 orders, archives of 2 days; 4 days of bias |
| `research` | 1 186 624 | What does a recommendation rest on, what does an approval mean? | 4 vectors on 8 snapshots, 2 commands, 2 versions of the data, 2 protocols |
| `bots` | 60 851 | Can the dashboard make two bots or stop a stranger's; is what it shows true? | 4 processes; 2 decision cycles; 8 log lines in files of 3, 2 streams |
| `capital_lost` | – | (violation) Does capital protection survive a restart? | 2 trades, 1 day, failed snapshots |
| `history_lost` | – | (violation) Is the divergence history one of bars? | as `signals` |

Why the bounds are enough to be interesting. `runtime`: with two slots and three
trades a limit can be met by an open and a closed trade together, and two trades
a day leave one for the other day; two days that are a Sunday and a Monday reset
the day's counters and the week's in the same midnight; two losses break the
day's limit, three the week's. The first execution error is a kill-switch reason
and the first failed health check enters safe mode: counting further only
repeats these, and the proofs hold for every threshold. `store`: two trades on
two days put an opening and a settlement on different days, and let an operation
be cut off between another's commits. `live_orders`: two units are what makes a
partial fill, two signals are what lets the second entry meet the leftovers of
the first, and a fill fall between the two requests of a startup sync. `loop`: a bar is twice the slowest call, so iterations both keep up
and overrun; days end within the horizon. `feed`: three trades in one window
need a second page of 2, four trades overflow a buffer of 3. `signals`: two
equal lows (highs) and a candle that breaks them are the shortest chart with a
sweep; monitor snapshots fall between two bars of two ticks; the level window is
two bars, so levels are forgotten and met again. `backtest`: one unit out at the
first target and two that run, an entry at which a bar can reach stop, target,
both or neither. `collect`: two trades of one millisecond at a page's end, an
hour's edge, a script that dies and runs again, a newer page over an older row;
higher candles of two bars, so that a snapshot falls inside one, and a lookback
shorter than the market's history, so that a range is clipped;
three proxies tell "the next one" from "another one", three calls let a session
outlive the call that moved it; two orders of one millisecond, live and in
archives that overlap.
`research`: vectors that pass, fail by too few trades, by drawdown, and pass
until new data comes; windows that meet in a snapshot with a trade; two commands
are what leaves evidence of two runs side by side. `bots`: four processes are an own one that ended, one from outside, and
two more; two cycles let the second write beside the trade of the first; eight
lines rotate a file of three twice while a stream reads.

What each property says is above its definition. In short:

- `runtime`. `BooksAgree`: `positions` and `trade_log` agree but for the window
  between the engine's commit and the recording. `AuditMatchesState`: the newest
  `safe_mode_events` row tells the truth. `StreakBound` and `DailyTradesBound`:
  limits that are read steps before the row that counts is written still bound
  the result. `EntryIsPermitted`: what the gates checked still holds at the
  entry. `ImplementsLifecycle`: the refinement. `KillSwitchFires`: no path
  through the loop avoids the evaluation at its end. `TrackedTradesSettle`:
  trades with a row are settled in safe mode too, if the process eventually
  stays up.
- `store`. `DailyCountsExact` after every commit; `DecisionsReadFresh`: what is
  handed to governance and risk; `SafeModeSticks`: only `set_safe_mode(False)`,
  or the lost update described below, ends a safe mode.
- `live_orders`. `CallsEndClean`: what an ended call says is protected, recorded
  and, while every request is answered, no longer working. `ResumeKnowsPosition`:
  after a startup sync that lets trading resume, lots without a row are no
  surprise but in two cases. Their order worked when the positions were asked for
  and had filled when the orders were, so that neither answer had it; or there was
  another position and another row, and only their symbol is compared.
- `loop`. `EachBarOnce` (never twice, and none missed while iterations keep up),
  `MonitorPrompt`, `OneSummaryEachDay`, `StopEnds`.
- `feed`. `RestWindowExact`, `ReadyIsGapless`, `LoadingEnds`.
- `signals`. `CandidateJustified`: a candidate stands on a break that is there,
  closed back or followed, in a regime that admits it; its level lies among
  enough and old enough hits, each within the tolerance of the next. `ReadinessKept`: a
  restart never makes a mature history immature. `LevelsApart`: one process
  approves no level twice within the window.
- `backtest`. `EquityIsCash`, `RowExplainsProfit`, `StopOnlyTightens`,
  `ImplementsLifecycle`.
- `collect`. `BanMovesOn`, `ImplementsRequest` (the client);
  `CompletedRunIsWhole`: a bootstrap that ends leaves every bar and point of its
  range, and of a bucket all but what is named there. `ForceOrdersKept`: the
  live collector misses only what no connection delivered and what shares its
  millisecond with a stored order, a millisecond has one row, and archives are
  stored once. `RowsStay`: derived rows are never derived again, gaps before the last
  one never filled. `ReplayIsFair`: a replayed bar is shown nothing later than
  its close but the rest of the higher candle that is open then and, for a
  missing bucket, the next one; and it is shown the same in every window.
- `research`. `EvidenceComplete`: no recommendation without its report and
  trial. `SelectionsJustified`: a study recommends a front that covers every
  accepted trial, and a nested report that passed selects a vector that passed
  a window itself. `AnswersAreEarned`: an approval or a bundle rests on stored
  evidence about one vector under one protocol.
- `bots`. `AtMostOneBot` while every bot came from the dashboard,
  `OnlyOwnAreStopped`, `TrailTellsTruth` (rows that are joined are there,
  outcomes agree with them, each cycle is counted once), `StreamExplained` (no
  line twice; lines are left out in three named places only).

Runs whose counters let the instance come to its end (the horizon of the clock,
the number of calls, processes, trades, bars, orders or signals) set
`CHECK_DEADLOCK FALSE`; `runtime`, `store` and `capital_lost` check for deadlock.

### Fairness

- `BotRuntime`: the process executes its next call, and systemd restarts it
  (`WF(Run)`; `Restart=always`). The monitor is due every 15 seconds and some of
  its snapshots succeed (`SF(BeginMonitor)`); of positions that are looked at
  again and again one is told to close at the latest by the time limit
  (`SF` of some `SettleTrade(t)`; the `TIMEOUT` exit after `max_hold_hours`).
- `EventLoop`, `MarketFeed`: the thread executes its next call (`WF(Loop)`,
  `WF(Assembly)`). Requests have timeouts.

Nothing is assumed of the exchange, of the operator or of the faults; the other
modules state safety only.

### What the code does otherwise than it says

Two runs are expected to find their property violated.

- `capital_lost` (`CapitalSafeModeSticks`). Safe mode entered by the kill switch
  for a capital reason should survive restarts. But `mark_error` overwrites
  `last_error`, which is what recovery reads as the trigger: a snapshot that
  fails while safe mode is on turns the trigger into a technical one, and the
  next restart clears safe mode (`orchestrator.py:404`).
- `history_lost` (`HistoryIsBars`). Every snapshot saves a row as a 15-minute
  bar, those of the position monitor too (`data/market_data.py:482`); a restart
  takes the newest rows for bars, so divergences span seconds.
  `docs/analysis/DATA_QUALITY_MILESTONE_2026-04-21.md:45` calls it bar-level storage.

The modules show more of the kind, which the properties state as they are:

- `refresh_runtime_state` loads the whole row of `bot_state` and saves it back; a
  hard stop that the trial monitor commits in between is gone
  (`storage/state_store.py:781`; `outdated` in `SafeModeSticks`).
- When the manager's own process has ended, `_status_locked` answers from its
  exit code without a scan, so the next start launches a bot beside one that was
  started elsewhere (`dashboard/process_manager.py:162`).
- The LIVE entry's `TypeError` (section 3).
- Windows fetched completely over several REST pages are graded degraded once
  they hold as many trades as one request's limit (`data/market_data.py:250`;
  docs/MILESTONE_TRACKER.md:698 expects ready).
- A replay cuts the higher candles by the time they open. Most bars close inside
  a 1h and a 4h candle, or where one opens; they are shown it finished, with up to
  an hour, or four, of trades that are still to come. A bar is
  also shown the flow bucket that opens at its close when its own is missing, and
  the bias row of the day under way (`backtest/replay_loader.py:98-110`, `355`).
  docs/audits/AUDIT_BACKTEST_RESEARCH_LAB_2026-04-24.md:34 says "No lookahead
  leakage detected". `KnowsNoFuture` names the candle and the bucket and rules
  out everything else.
- Training and validation of a window replay the snapshot at the split both, and
  so do consecutive validations when the step is as long as a validation
  (`research_lab/walkforward.py:76`, `backtest/replay_loader.py:92`);
  docs/audits/backtest_methodology_checklist.md:34 has "Walk-forward windows
  non-overlapping in validation phase". `WindowsMeet` says how much they share.
- A startup sync asks for positions and then for orders; an entry order of the
  process that died, filled in between, is in neither answer and trading
  resumes (`execution/recovery.py:166`; `between` in `ResumeKnowsPosition`).
- Of several liquidations of one millisecond the live collector stores the first
  (`scripts/server/run_force_order_collector.py:266`), so sums over
  `force_orders` miss the others.
- A trade that was recorded before the audit log failed is counted as
  `signal_generated` and as `execution_failed` (`orchestrator.py:612`; the
  exception in `CountedOnce`).
- `runtime_metrics` says "running" after a crash until the next process begins
  a cycle: `Shown` and `CountedOnce` hold only of cycles that were not cut.
- Lines written while the log backlog is sent never reach the stream
  (`dashboard/log_streamer.py:38`).
- A COIN-M day that was cut off between two commits counts as done
  (`scripts/backfill_force_orders_coinm.py:82`), although its comment speaks of
  resuming a partial run; the last of several parts of a bucket overwrites the
  others (`scripts/bootstrap_history.py:471`); trades that share the last
  millisecond of a full page are skipped (`:318`).
- A study run again replaces its trials by id while reports and recommendations of
  the earlier run stay (`research_lab/experiment_store.py:154`).
  `replay-candidate` and autoresearch answer from what they have just stored,
  which is what `AnswersAreEarned` holds; `build-approval-bundle` reads the stored
  recommendation alone (`research_lab/cli.py:281`), whatever run and data it is
  from, and the property claims nothing of its bundles.

## 5. Proofs

TLAPS checks every theorem for all values of the constants that meet the
assumptions named `...Assumption` in the modules (bounds are naturals,
sets of results are integers, and so on). An invariant that a run checks is
seldom inductive; this is what had to be added. A module of proofs may hold the
theorems of several parts; they share no state, only lemmas on data.

**BotRuntime** (`BotRuntimeProofs`). `IInv` is the type
invariant with `BooksInv` (positions are filled in order; what is recorded is
open; a worklist holds tracked trades; at `record` the newest position is open
and unrecorded), `SlotInv` (between the risk engine and the entry a slot is
free) and `ErrorInv` (how many execution errors each stage can carry).
`SlotInv` is why `OpenBounded` holds although the count is read several commits
before it grows: only the waiting process itself can add a position. On top of
`IInv`:

- `Books` adds `UnrecordedExplained`: a position without a row is the newest, at
  `record`, or left by one of two named faults.
- `AuditTrail` adds `Announced`: what `safe_mode_events` says or is about to say.
- `EntriesPermitted` and `DailyTrades` add `GateInv`: nothing is booked on a day
  that has not begun (`NothingAhead`), so midnight only ever lowers the numbers
  the gates looked at, and the place of the next trade is free until it is taken.
- `StreakBounded` adds `StreakInv`, which counts the trades that may still lose.
- `Refinement` maps the rows of `positions` to the stages of `TradeLifecycle`;
  every step enters, settles or stutters.
- `IterationsJudged`: each call of an iteration is nearer its end (`Place`) or
  has less left to write or settle, and the last one, with a reason at hand,
  leaves safe mode on.

**StateStore** (`StateStoreProofs`). `CountsExact` needs `DaysOK`, the part of
the types about days: opening a trade changes the counts of its day only,
settling it those of the day it was opened on; each of the two operations writes
the row of exactly that day in the same commit as the table, and a later sync of
any day recomputes what is already there. `ReadsFresh` and `SafeModeStays` look
at the list of statements an operation has still to run (`PlanInv`):
`ReadsPrepared` says that before each read that is left comes a load, or the copy
in hand agrees with the tables already, and `SavesPrepared` that before each
change of safe mode that is left comes a load, or the copy says of safe mode what
the row says, but for the named race with the monitor's process. An operation
works for one day (`Orderly`), and one that is cut off leaves nothing the next
could read without a load of its own. `Streak` and `Drawdown` stay uninterpreted:
the proofs hold for whatever they compute.

**SignalPipeline** (in `StateStoreProofs`: `HistorySurvives`, `ApprovedOnce`).
`HistoryStored`: memory holds stored rows of the past, and since the history was
once long enough there are enough rows; a boot reads at least `Required` of them,
so it is long enough again. `LevelsRemembered`: every approval that can
still block is in governance's list, over pruning and whatever became of the
signal. `CandidatesHold` says for every chart, climate, tolerance and offset that
a candidate is justified. A level is the mean of a cluster, and the mean of a
long chain of lows need not have `MinHits` of them within the tolerance of
itself; what holds is `HitsAround`: it lies between the lowest and the highest of
hits of which each is within the tolerance of the next (`ClusterChained`,
`MeanBetween`; the sums are recursive functions and their bounds go through a
least counterexample). `Bracket` is that stop, entry and targets lie in their order. Of the
constants it uses that charts are sequences of candles, that no distance is
negative, that the stop offset is positive and the second target beyond the
first, as in `settings.py` (`ChartsAssumption`, `SetupsAssumption`). `ClustersPartition`: no two
clusters share a low, so no low counts for two levels.

**LiveExecution** (`CallsClean`, `ResumeKnows`). `Inv` follows a call: what
exists at each stage (`Placed`), that an outcome of `opened` has its stop and
target (`OpenedMeansProtected`), that a quantity once read is still filled
(`ReadIsFilled`, `SizeIsFilled`), and that only the order of the call under way
may work while answers arrive (`OneWorking`). `SyncHolds` carries what a startup
sync has seen from its first answer to the second and on to the next call: after
an answer without positions every order that works, and every lot there is by
now, is of `between`; after both, without safe mode, no order works, and lots are of
`between`, or there were a position and an open row.

**EventLoop** (`BarsOnce`, `MonitorInTime`, `SummariesOnce`). The three deadlines
against the reading of the clock: how far the clock has run since it was read
(`Elapsed`), how far ahead each deadline lies (`MonitorAhead`, `DecisionAhead`),
which bars have been decided on (`BarsDecided`, `NoneLeftOut`) and which days
summarised (`DaysSummed`, `NoDayLeftOut`). `StopsAdvance`: after a stop request
each step is nearer to the look at it (`Distance`). The lemmas before them are the arithmetic of
`\div`, `%` and products that the solver does not find by itself.

**RestClient** (in `CollectorsProofs`: `BansMoveOn`, `Implementation`,
`TypeCorrect`). The session after a ban (`Moved`) and the count of executions
behind the answer. `RequestsHold` says the same of the composition `Collectors`.

**Collectors** (`CollectorsProofs`). `RowsKept` follows from the scripts' guards
on what a table holds. `HistoryWhole` and `ReplayFair` rest on `HistoryInv`: no
table holds a row later than its time (`TablesInTime`), and the part of a stage's
range before the cursor has been fetched (`PointsFetched`, `TradesFetched`), but
for trades on the edge of a full page. At the centre are lemmas on a page: one
that is not full holds everything from the cursor on, a full one everything up
to its last element. That a bar looks the same in every window is
`LookbackSuffices`: where no candle of the lookback is missing, the range that
is loaded holds as many as are shown, for bars and for higher candles alike. `OrdersKept` has two
invariants. `LiveInv`: each order's millisecond has a row (`Covered`), or it was missed by the
connection or is still to be delivered, and `ReadBack` says how far the bootstrap has paged.
`ArchiveInv`: the Tardis pass stores only days ahead of its last row
(`TardisAhead`), a COIN-M day is stored from its first chunk on (`DayInPart`), and no
archived order is stored twice (`ArchivedOnce`).

**Dashboard** (`DashboardProofs`). `OneBot`, `OwnStopped`: `Known` says how the
manager can see each bot of its own, as its handle, or by the scan when no
handle hides it. `TrailTrue`: `Here` says which rows the cycle under way has at
each step, `Agree` that it has no outcome before the step that records one, so
that a row it adds cannot make an outcome false; `Once` and `Complete` follow its
result from the recording to the end. `StreamTrue`: the last line sent is one of
its file (`LastExists`), the rest of the backlog goes on after the last line
sent (`BacklogGoesOn`), and the position fits the file that is read next
(`ReadingFits`). `DashboardHolds` puts the parts together: a step of one leaves
the variables of the others alone, so the composition keeps all four.

**Backtest** (`RowsExplained`, `RunnersKeepEntry`, `StopsTighten`, `Accounts`,
`Refinement`, `TypeCorrect`). `Sound` gives the accounts of an open position
(gross result from notional and closed quantity) and of a running one (its stop
on the right side of its entry); `BarInOrder` is what the exits need of a bar.
`Accounts` is about a sum over all positions; a step that changes one row changes
the sum by that row's difference. The sum is a recursive function on the
number of positions, and the induction goes through a least counterexample
(`NatLessThanWellFounded`), the rule itself being out of reach. `Refinement`
maps a row's status to the stages of `TradeLifecycle`, and `SlotsBounded` carries
over what every implementation of it has (`LifecycleKeeps`): no more trades held
than slots, no way back from a settlement.

**ResearchLab** (in `BacktestProofs`: `EvidenceStored`, `NothingGoodLost`,
`ApprovalEarned`). `LabInv` says what is stored at each stage of a command:
`Shape`, how a job is made up; `StudyStored` and
`CandidatesStored`, that their trials are; `FrontierKept`, that each trial of the
frontier is still in the list of candidates or recommended;
`NestedSelectionPassed`; `VerdictGrounds`, what the last answer was said of; and
`ResultsJudged`, how autoresearch's results are judged and ranked. Three
lemmas carry it. `FrontierDominates`: a finite set of trials has for each of
them one of the front that is as good, the one whose expectancy plus profit
factor minus drawdown is largest. `BestResult`, `SelectedPassed`: the first of a
ranking is beaten by none, so when any champion passed a window the first has.
Of the metrics only `EvaluationsAssumption` is used, that each replay has some.
`WindowsMeet` is about the operators of `WalkForward`: every window lies within
the data, and its training and its validation share the snapshot at the split and
no other, with snapshots of each on its own side; where the step is no shorter than
the validation, validations share at most a snapshot, which they do when it is as
long; and the last window is the last that fits. It assumes that lengths and steps of a protocol are positive
(`WindowsAssumption`), as those of all protocols in `research_lab/configs` are;
with a step of 0 the code's loop would not end.

**MarketFeed** (`RestWindows`, `ReadyWindows`, `TypeCorrect`). `PagesComplete`:
the pages so far hold every trade from the window's start to the last id, which
is what starting the next page one past that id preserves while the exchange
prints on; `BufferGapless` and `TradesGapless`: holes are the feed's own.
`PagesAdvance`: no trade is fetched twice, and paging goes on only after a full
page that begins no later than the snapshot.

Every invariant, action property and refinement of a passing run has its
theorem. Only model-checked are the four liveness properties, which with their
fairness and `ENABLED` are beyond the prover. For three of them the step that
their argument rests on is proved: `IterationsJudged` is what `KillSwitchFires`
decreases, `StopsAdvance` what `StopEnds`, `PagesAdvance` what `LoadingEnds` does;
what TLC adds is that the steps are taken. `TrackedTradesSettle` rests on the
fairness of the market as well, and has no such core.

## 6. Abstractions and what is not modelled

- Time is the UTC day in `BotRuntime` and `StateStore`, ticks in `EventLoop`,
  `MarketFeed` and `SignalPipeline`, bars in `Backtest`, milliseconds of one
  symbol in `Liquidations`. Money, prices and indicators are integers; floating
  point rounding is not modelled.
- In `BotRuntime` and `DecisionTrail` a signal, a veto and a block are choices of
  the environment; `SignalPipeline` models the signal and governance's levels
  and cooldown, and takes the limits as a choice.
- Composed modules whose parts share no state (`Collectors`, `Dashboard`) run one
  part in a behaviour: the interleavings of independent parts add nothing.
- SQLite statements are atomic and durable at their commit; a failing disk is not
  modelled. Telegram, log texts and exports change nothing that is read back.
- The second writer of `bot_state` is in `StateStore` only; `BotRuntime` treats
  each store operation as atomic.
- In `EventLoop` the daily rollover takes no time: its summary and alert are part
  of the iteration that sends them. A stop request that arrives before `start()` clears
  the event (`orchestrator.py:322`) is lost; the model's requests come later.
- A backtest is a result at each snapshot in `Evaluation`; `Backtest` and
  `ReplayLoader` look inside. Optuna's sampler may propose anything.
- Not modelled: the health monitor (three probes without state, whose verdict
  `BotRuntime` takes as given; `monitoring/health.py:48` answers healthy for a
  connection that never delivered a message), `performance.py` (sums over
  finished trades), the dashboard's egress, risk and configuration pages (the
  shown configuration hash is that of the newest "Starting bot" line in the last
  256 KiB of the log, or else of the newest closed trade),
  `backfill_oi_samples.py`, research diagnostics, reviews, settings, smoke and
  modelling scripts: they read only, or run once by hand. PROJECT.json gives the
  reason for each under "components".
