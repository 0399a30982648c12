--------------------------- MODULE SignalPipeline ---------------------------
(***************************************************************************)
(* From a snapshot to an approved signal: FeatureEngine, RegimeEngine,     *)
(* ContextEngine, SignalEngine and GovernanceLayer as run_decision_cycle   *)
(* calls them, with what they remember between two calls: the samples of   *)
(* the CVD divergence, the count of force-order rates, the levels          *)
(* governance has approved.  A restart loses all of it and reads back what *)
(* build_snapshot has saved.                                               *)
(*                                                                         *)
(* Time is in ticks; a decision is due at every multiple of Bar.  A chart  *)
(* is a short sequence of 15m candles with integer prices, a climate holds *)
(* the indicators that are computed without memory (emas, atr, funding, oi *)
(* z-score, tfi): hundredths, and percent for funding.  ATR buffers are    *)
(* price distances.  Rates and open interest of past samples are left out, *)
(* and so are the limits of governance, which BotRuntime models.           *)
(***************************************************************************)
EXTENDS Integers, Sequences, FiniteSets, FiniteSetsExt

CONSTANTS
    Bar,                        \* ticks of 15 minutes
    MaxClock,                   \* bound: ticks
    Required, Window,           \* cvd_divergence_bars, cvd_divergence_window_bars
    SpikePoints,                \* force-order rates a spike needs (6)
    Price, Flow,                \* the market: price and net taker volume at a tick
    Charts, Climates,           \* what a snapshot may show
    Tolerance, MinHits, MinAge, \* equal levels
    Proximity, SweepBuf, ReclaimBuf, WickMin, MinDepth,
    EntryOffset, StopOffset, MinStop, Tp1, Tp2,
    Session, Eligible,          \* the session of a tick; its volatility whitelist
    LevelTol, LevelWindow,      \* duplicate_level_tolerance (per mille), _window
    Cooldown                    \* cooldown_minutes_after_loss

ASSUME TicksAssumption   == {Bar, Required, Window} \subseteq Nat \ {0} /\ MaxClock \in Nat
ASSUME LevelsAssumption  == {LevelTol, LevelWindow, Cooldown} \subseteq Nat
ASSUME ChartsAssumption  == Charts \subseteq Seq([open : Int, high : Int, low : Int, close : Int])
ASSUME SetupsAssumption  == /\ {Tolerance, MinAge, SweepBuf, ReclaimBuf} \subseteq Nat
                            /\ {EntryOffset, MinStop} \subseteq Nat
                            /\ StopOffset \in Nat \ {0} /\ Tp1 \in Nat \ {0} /\ Tp2 \in Nat /\ Tp1 < Tp2

VARIABLES
    clock,
    up, safe, open,     \* the process, bot_state.safe_mode, a trade is open
    rows,               \* bar_time of the rows of cvd_price_history
    lastLoss,           \* when the last loss was closed, -1: never
    decided,            \* the last tick a decision was made for
    memory,             \* _cvd_price_history
    rates,              \* the length of _force_order_rate_history
    levels,             \* _accepted_levels
    pc, candidate,
    approvals,          \* history: what this process has approved
    wasReady            \* history: a process has found its CVD history mature

database     == <<rows, lastLoss, open, safe>>
engines      == <<memory, rates, levels>>
history      == <<approvals, wasReady>>
pipelineVars == <<clock, up, database, decided, engines, pc, candidate, history>>

-----------------------------------------------------------------------------
(* Equal levels, sweep and reclaim *)

Abs(x) == Max({x, -x})

Lows(c)  == [i \in DOMAIN c |-> c[i].low]
Highs(c) == [i \in DOMAIN c |-> c[i].high]

(* Sorted by price, neighbours no further apart than the tolerance share a cluster. *)
Cluster(f, i) ==
    {j \in DOMAIN f : \A k \in DOMAIN f :
        Min({f[i], f[j]}) <= f[k] /\ f[k] < Max({f[i], f[j]})
            => \E n \in DOMAIN f : f[k] < f[n] /\ f[n] - f[k] <= Tolerance}

Mean(f, S) ==
    (2 * MapThenSumSet(LAMBDA k : f[k], S) + Cardinality(S)) \div (2 * Cardinality(S))

EqualLevels(f) ==
    {Mean(f, S) : S \in {C \in {Cluster(f, i) : i \in DOMAIN f} :
                            Cardinality(C) >= MinHits /\ Max(C) - Min(C) >= MinAge}}

(* compute_atr is zero on a chart that has not moved. *)
Moves(c) == \E i \in DOMAIN c \ {1} : c[i].high # c[i].low \/ c[i].low # c[i - 1].close

Swept(c, side) ==
    LET last == c[Len(c)]
    IN  IF side = "LOW"
        THEN {l \in EqualLevels(Lows(c)) : Abs(last.open - l) <= Proximity /\ last.low < l - SweepBuf}
        ELSE {l \in EqualLevels(Highs(c)) : Abs(last.open - l) <= Proximity /\ last.high > l + SweepBuf}

(* The lowest level that fits, and a low before a high. *)
SweepReclaim(c) ==
    LET last == c[Len(c)]
        side == IF Swept(c, "LOW") # {} THEN "LOW" ELSE "HIGH"
        level == Min(Swept(c, side))
        body == {last.open, last.close}
    IN  IF ~Moves(c) \/ Swept(c, side) = {} THEN [side |-> "none"]
        ELSE IF side = "LOW"
        THEN [side |-> side, level |-> level, depth |-> Abs(level - last.low),
              reclaim |-> last.close > level + ReclaimBuf /\ Min(body) - last.low >= WickMin]
        ELSE [side |-> side, level |-> level, depth |-> Abs(last.high - level),
              reclaim |-> last.close < level - ReclaimBuf /\ last.high - Max(body) >= WickMin]

Sweeps == [c \in Charts |-> SweepReclaim(c)]

-----------------------------------------------------------------------------
(* The CVD divergence *)

Newest(S, n) == {t \in S : Cardinality({s \in S : s > t}) < n}

(* aggregate_aggtrade_bucket over the 15 minutes before t. *)
Bucket(t) == MapThenSumSet(LAMBDA s : Flow[s], (t - Bar + 1 .. t) \cap DOMAIN Flow)

Divergence(S) ==
    LET recent   == Newest(S, Window)
        now      == Max(recent)
        previous == recent \ {now}
        cvd(t)   == MapThenSumSet(Bucket, {s \in recent : s <= t})
        high     == Min({t \in previous : \A s \in previous : Price[s] <= Price[t]})
        low      == Min({t \in previous : \A s \in previous : Price[s] >= Price[t]})
        lower    == Price[now] < Price[low] /\ cvd(now) > cvd(low)
        higher   == Price[now] > Price[high] /\ cvd(now) < cvd(high)
    IN  IF Cardinality(S) < Required \/ Cardinality(S) < Window \/ previous = {} THEN "none"
        ELSE IF lower THEN "LONG" ELSE IF higher THEN "SHORT" ELSE "none"

-----------------------------------------------------------------------------
(* Regime, context *)

(* The deployed thresholds, in hundredths and (gap, vol) of a percent. *)
TrendGap == 63
CompressionMax == 23

Regime(m) ==
    IF m.spike /\ rates + 1 >= SpikePoints /\ Abs(m.tfi) >= 53 /\ m.falling THEN "post_liquidation"
    ELSE IF (m.funding >= 85 \/ m.funding <= 15) /\ Abs(m.oi) >= 150 THEN "crowded_leverage"
    ELSE IF 0 < m.vol /\ m.vol <= CompressionMax THEN "compression"
    ELSE IF m.gap >= TrendGap /\ m.vol > CompressionMax THEN "uptrend"
    ELSE IF -m.gap >= TrendGap /\ m.vol > CompressionMax THEN "downtrend"
    ELSE "normal"

(* With neutral_mode every context is eligible: Eligible is then constant. *)
Volatility(m) == IF m.vol < 20 THEN "low" ELSE IF m.vol > 40 THEN "high" ELSE "normal"

ContextEligible(m) == Volatility(m) \in Eligible[Session[clock]]

-----------------------------------------------------------------------------
(* SignalEngine.diagnose and generate *)

(* build_signal_regime_direction_whitelist: allow_long_in_uptrend is set. *)
Allowed(regime) ==
    CASE regime = "downtrend" -> {"LONG", "SHORT"}
      [] regime = "crowded_leverage" -> {"SHORT"}
      [] OTHER -> {"LONG"}

(* Mutant: the sweep's side is not compared with the flow's. *)
DirectionByFlow(s, m, div) ==
    IF div # "none" THEN div ELSE IF m.tfi > 8 THEN "LONG" ELSE IF m.tfi < -5 THEN "SHORT" ELSE "none"

InferDirection(s, m, div) ==
    LET d == IF div # "none" THEN div
             ELSE IF m.tfi > 8 THEN "LONG" ELSE IF m.tfi < -5 THEN "SHORT" ELSE "none"
    IN  CASE d = "LONG"  /\ s.side # "LOW"  -> "none"
          [] d = "SHORT" /\ s.side # "HIGH" -> "none"
          [] OTHER -> d

(* An upward breakout in an uptrend needs no reclaim. *)
Continuation(s, m) ==
    IF s.side = "HIGH" /\ m.gap > TrendGap /\ m.tfi > 8 THEN "LONG" ELSE "none"

Direction(s, m, div) ==
    IF Regime(m) = "uptrend" /\ ~s.reclaim THEN Continuation(s, m)
    ELSE IF s.reclaim THEN InferDirection(s, m, div) ELSE "none"

(* _confluence_score in twentieths, against confluence_min = 4.5. *)
Confluence(s, m, div, d) ==
    LET long == d = "LONG"
        If(p, weight) == IF p THEN weight ELSE 0
    IN  42 + If(s.reclaim, 85) + If(div = d, 78)
        + If(IF long THEN m.tfi >= 13 ELSE m.tfi <= -13, 28)
        + If(m.spike /\ rates + 1 >= SpikePoints, 8)
        + If(Regime(m) \in IF long THEN {"post_liquidation"} ELSE {"downtrend", "crowded_leverage"}, 47)
        + If(IF long THEN m.gap >= 0 ELSE m.gap <= 0, 100)
        + If(IF long THEN m.rate <= 0 ELSE m.rate >= 0, 89)

StopDistance == Max({EntryOffset + StopOffset, MinStop})

BuildLevels(level, d) ==
    LET way   == IF d = "LONG" THEN 1 ELSE -1
        entry == level + way * EntryOffset
    IN  [entry |-> entry,
         stop  |-> entry - way * StopDistance,
         tp1   |-> entry + way * Tp1, tp2 |-> entry + way * Tp2]

NoCandidate == [direction |-> "none"]

(* Vetoes in the order of diagnose; generate adds the context's. *)
Generate(c, m, div) ==
    LET s == Sweeps[c]
        d == Direction(s, m, div)
        b == BuildLevels(s.level, d)
    IN  IF \/ s.side = "none" \/ s.depth < MinDepth
           \/ d \notin Allowed(Regime(m)) \/ Confluence(s, m, div, d) < 90
           \/ ~ContextEligible(m)
        THEN NoCandidate
        ELSE [direction |-> d, entry |-> b.entry, stop |-> b.stop, tp1 |-> b.tp1, tp2 |-> b.tp2,
              chart |-> c, regime |-> Regime(m), reclaim |-> s.reclaim]

-----------------------------------------------------------------------------
(* The process *)

Tick ==
    /\ clock < MaxClock /\ pc = "idle"
    /\ (up /\ clock % Bar = 0) => decided = clock
    /\ clock' = clock + 1
    /\ UNCHANGED <<up, database, decided, engines, pc, candidate, history>>

(* The kill switch, the health check or a recovery turns it. *)
TurnSafeMode ==
    /\ pc = "idle" /\ safe' = ~safe
    /\ UNCHANGED <<clock, up, rows, lastLoss, open, decided, engines, pc, candidate, history>>

Settle ==
    \/ UNCHANGED <<open, lastLoss>>
    \/ open /\ open' = FALSE /\ lastLoss' \in {lastLoss, clock}

(* Every snapshot saves a row, under the 15m timeframe and its own time. *)
SaveBar == rows' = rows \cup {clock}

(* In safe mode too, every position_monitor_interval_seconds. *)
Monitor ==
    /\ up /\ pc = "idle" /\ open
    /\ SaveBar /\ Settle
    /\ UNCHANGED <<clock, up, safe, decided, engines, pc, candidate, history>>

Due == up /\ pc = "idle" /\ clock % Bar = 0 /\ decided < clock

(* build_snapshot or the lifecycle raises, before or after the row is saved. *)
FailSnapshot ==
    /\ Due /\ decided' = clock
    /\ SaveBar \/ UNCHANGED rows
    /\ UNCHANGED <<clock, up, safe, open, lastLoss, engines, pc, candidate, history>>

SkipDecision ==
    /\ Due /\ safe /\ decided' = clock
    /\ SaveBar /\ Settle
    /\ UNCHANGED <<clock, up, safe, engines, pc, candidate, history>>

Compute(c, m) ==
    /\ memory' = memory \cup {clock}
    /\ rates' = Min({rates + 1, SpikePoints})
    /\ wasReady' = (wasReady \/ Cardinality(memory') >= Required)
    /\ candidate' = Generate(c, m, Divergence(memory'))
    /\ pc' = IF candidate' = NoCandidate THEN "idle" ELSE "govern"

Decide ==
    /\ Due /\ ~safe /\ decided' = clock
    /\ SaveBar /\ Settle
    /\ \E c \in Charts, m \in Climates : Compute(c, m)
    /\ UNCHANGED <<clock, up, safe, levels, approvals>>

-----------------------------------------------------------------------------
(* GovernanceLayer.evaluate *)

CoolingDown == lastLoss >= 0 /\ clock - lastLoss < Cooldown

Fresh == {x \in levels : x.at >= clock - LevelWindow}

SameLevel(x, entry) == 1000 * Abs(entry - x.entry) <= LevelTol * x.entry

Duplicate(entry) == \E x \in Fresh : SameLevel(x, entry)

EndDecision == pc' = "idle" /\ candidate' = NoCandidate

(* A limit, a session or the cooldown: the levels are not looked at. *)
Veto ==
    /\ pc = "govern" /\ EndDecision
    /\ UNCHANGED <<clock, up, database, decided, engines, history>>

VetoDuplicate ==
    /\ pc = "govern" /\ ~CoolingDown /\ Duplicate(candidate.entry)
    /\ levels' = Fresh /\ EndDecision
    /\ UNCHANGED <<clock, up, database, decided, memory, rates, history>>

(* Mutant: a level is remembered only when a trade comes of it. *)
ApproveTraded ==
    /\ pc = "govern" /\ ~CoolingDown /\ ~Duplicate(candidate.entry)
    /\ open' \in {open, TRUE}
    /\ levels' = IF open' = open THEN Fresh
               ELSE Fresh \cup {[at |-> clock, entry |-> candidate.entry]}
    /\ approvals' = approvals \cup {[at |-> clock, entry |-> candidate.entry]}
    /\ EndDecision
    /\ UNCHANGED <<clock, up, rows, lastLoss, safe, decided, memory, rates, wasReady>>

(* The level stays blocked, whatever risk and execution make of it. *)
Approve ==
    /\ pc = "govern" /\ ~CoolingDown /\ ~Duplicate(candidate.entry)
    /\ levels' = Fresh \cup {[at |-> clock, entry |-> candidate.entry]}
    /\ approvals' = approvals \cup {[at |-> clock, entry |-> candidate.entry]}
    /\ open' \in {open, TRUE}
    /\ EndDecision
    /\ UNCHANGED <<clock, up, rows, lastLoss, safe, decided, memory, rates, wasReady>>

-----------------------------------------------------------------------------
(* Restart *)

Crash ==
    /\ up /\ up' = FALSE
    /\ memory' = {} /\ rates' = 0 /\ levels' = {} /\ approvals' = {}
    /\ EndDecision
    /\ UNCHANGED <<clock, database, decided, wasReady>>

(* Mutant: as many rows as one divergence looks at. *)
WindowOnly == Newest(rows, Window)

Bootstrapped == Newest(rows, Max({Required, Window}) + 1)

(* The first decision is at the next boundary. *)
Boot ==
    /\ ~up /\ up' = TRUE
    /\ memory' = Bootstrapped
    /\ decided' = clock
    /\ UNCHANGED <<clock, database, rates, levels, pc, candidate, history>>

PipelineInit ==
    /\ clock = 0
    /\ up = TRUE /\ safe = FALSE /\ open = FALSE /\ rows = {} /\ lastLoss = -1
    /\ decided = 0 /\ memory = {} /\ rates = 0 /\ levels = {}
    /\ pc = "idle" /\ candidate = NoCandidate
    /\ approvals = {} /\ wasReady = FALSE

Governance == Veto \/ VetoDuplicate \/ Approve

PipelineNext ==
    \/ Tick \/ TurnSafeMode \/ Monitor \/ FailSnapshot \/ SkipDecision \/ Decide
    \/ Governance \/ Crash \/ Boot

PipelineSpec == PipelineInit /\ [][PipelineNext]_pipelineVars

-----------------------------------------------------------------------------
(* Properties *)

(* Values at least MinHits times hit, over MinAge bars or more, in steps no  *)
(* wider than the tolerance, with the level between the lowest and highest. *)
HitsAround(f, level) ==
    \E S \in SUBSET DOMAIN f :
        /\ Cardinality(S) >= MinHits
        /\ \E i, j \in S : j - i >= MinAge
        /\ \E i, j \in S : f[i] <= level /\ level <= f[j]
        /\ \A i, j \in S : f[i] < f[j] => \E k \in S : f[i] < f[k] /\ f[k] - f[i] <= Tolerance

(* Every candidate answers to the market: its level lies among lows (highs)  *)
(* that were hit often enough and lie close enough, and the last candle      *)
(* broke through it; that candle closed back beyond the level against the   *)
(* break, or it is a LONG that follows a break upwards in an uptrend; its   *)
(* regime admits the direction and its bracket lies on the right sides of   *)
(* the entry.                                                               *)
CandidateJustified ==
    pc = "govern" =>
        LET c     == candidate.chart
            last  == c[Len(c)]
            long  == candidate.direction = "LONG"
            level == IF long THEN candidate.entry - EntryOffset ELSE candidate.entry + EntryOffset
            brokeLow  == last.low < level /\ HitsAround(Lows(c), level)
            brokeHigh == last.high > level /\ HitsAround(Highs(c), level)
        IN  /\ candidate.direction \in Allowed(candidate.regime)
            /\ \/ candidate.reclaim /\ long /\ brokeLow /\ last.close > level
               \/ candidate.reclaim /\ ~long /\ brokeHigh /\ last.close < level
               \/ ~candidate.reclaim /\ long /\ brokeHigh /\ candidate.regime = "uptrend"
            /\ IF long THEN /\ candidate.stop < candidate.entry
                            /\ candidate.entry < candidate.tp1 /\ candidate.tp1 < candidate.tp2
                       ELSE /\ candidate.stop > candidate.entry
                            /\ candidate.entry > candidate.tp1 /\ candidate.tp1 > candidate.tp2

(* A process that finds enough history for divergences never loses that,     *)
(* whatever restarts, safe modes and failed snapshots come: the saved rows  *)
(* cover what memory held.                                                  *)
ReadinessKept == up /\ wasReady => Cardinality(memory) >= Required

(* What one process approves within the window is never the same level twice, *)
(* also when risk or execution made nothing of the first approval.           *)
LevelsApart ==
    \A a, b \in approvals :
        a.at < b.at /\ b.at - a.at <= LevelWindow
            => ~SameLevel(a, b.entry)

(* The samples divergences are computed from are bars: two of them are at    *)
(* least 15 minutes apart, after a restart too (docs/analysis/              *)
(* DATA_QUALITY_MILESTONE_2026-04-21.md:49, "CVD divergence detection       *)
(* survives restart").                                                      *)
HistoryIsBars == \A s, t \in memory : s < t => t - s >= Bar
=============================================================================
