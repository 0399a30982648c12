------------------------------ MODULE History -------------------------------
(***************************************************************************)
(* How market history gets into the database.  bootstrap_history fetches   *)
(* candles, funding, open interest and the aggregate trades of one hour    *)
(* after another page by page and commits after each of them; the zip      *)
(* scripts load days that are over, refresh_candles the newest candles,    *)
(* and run_backfill copies bars and flows into cvd_price_history.  A row   *)
(* of candles or of the buckets is the set of trades it sums up.  A request *)
(* is one step and ends as SignedRequest says a call of RestClient does:   *)
(* with a page, "rejected" or "transport".  Of the higher candle intervals *)
(* there is one, longer than a bar, and of the two bucket lengths one; dry *)
(* runs and the sleeping are left out.                                     *)
(***************************************************************************)
EXTENDS Integers, Sequences, FiniteSets, FiniteSetsExt, Pages

CONSTANTS
    Bar,            \* the length of a bar, the 15m candle, and of a bucket
    Long,           \* the length of the higher candles, 1h and 4h, a multiple of Bar
    Hour,           \* the window of fetch_aggtrade_buckets_paginated, a multiple of Bar
    Day,            \* the days of the zips, a multiple of Long
    Limit,          \* the limit of a page
    Lookback,       \* _OI_MAX_LOOKBACK_DAYS
    RateTries,      \* max_attempts of _call_with_rate_limit_retry
    Required,       \* cvd_divergence_bars
    LastTime,       \* bound: the last clock value
    MaxTape,        \* bound: trades the exchange prints
    MaxLoads        \* bound: scripts started

ASSUME HistoryAssumption ==
    /\ {Bar, Long, Hour, Day, Limit, RateTries} \subseteq Nat \ {0}
    /\ Hour % Bar = 0 /\ Long % Bar = 0 /\ Day % Long = 0
    /\ {Lookback, LastTime} \subseteq Nat

VARIABLES
    clock, tape,                    \* the exchange: time and the trades' times
    candles, higher, buckets,       \* tables: bar, or higher candle -> the trades in its row
    funding, interest,              \* tables: the points that have a row
    history,                        \* cvd_price_history: bar -> its close and flow
    stage, from, to, began,         \* the running bootstrap: its stage, range and start
    window, at, got, tries, edges,  \* hour, cursor, rows not committed, rate limits, full pages
    loads

exchangeVars == <<clock, tape>>
tableVars    == <<candles, higher, buckets, funding, interest, history>>
runVars      == <<stage, from, to, began, window, at, got, tries, edges>>
historyVars  == <<exchangeVars, tableVars, runVars, loads>>

Opens(span) == {b \in 0 .. LastTime : b % span = 0}
Bars     == Opens(Bar)
Longs    == Opens(Long)
BarOf(t) == (t \div Bar) * Bar
In(a, b) == {i \in DOMAIN tape : a <= tape[i] /\ tape[i] < b}
Least(a, b) == IF a < b THEN a ELSE b
Most(a, b)  == IF a < b THEN b ELSE a
HourEnd(h)  == Least(h + Hour, to)
WindowEnd   == HourEnd(window)

-----------------------------------------------------------------------------
(* The exchange *)

Pass ==
    /\ clock < LastTime /\ clock' = clock + 1
    /\ UNCHANGED <<tape, tableVars, runVars, loads>>

Trade ==
    /\ Len(tape) < MaxTape /\ tape' = Append(tape, clock)
    /\ UNCHANGED <<clock, tableVars, runVars, loads>>

-----------------------------------------------------------------------------
(* bootstrap_history *)

Running == stage \notin {"idle", "done"}

Forget ==
    /\ stage' = "idle" /\ from' = 0 /\ to' = 0 /\ began' = 0
    /\ window' = 0 /\ at' = 0 /\ got' = <<>> /\ tries' = 0 /\ edges' = {}

StartBootstrap ==
    /\ ~Running /\ loads < MaxLoads /\ loads' = loads + 1
    /\ from' \in 0 .. clock /\ to' \in {clock, LastTime} /\ from' < to'
    /\ stage' = "candles" /\ at' = from' /\ began' = clock
    /\ window' = 0 /\ got' = <<>> /\ tries' = 0 /\ edges' = {}
    /\ UNCHANGED <<exchangeVars, tableVars>>

(* There is a page to ask for, or else only open interest, of a range that *)
(* lies wholly before the lookback, has none.                              *)
Asking == Running /\ at < (IF stage = "trades" THEN WindowEnd ELSE to)

CandleStages == {"candles", "higher"}
Span         == IF stage = "higher" THEN Long ELSE Bar

(* What there is to serve from the cursor on, in order: trades of the hour, *)
(* candles that have opened, or points that have passed.                    *)
Keys == IF stage = "trades" THEN In(at, WindowEnd)
                            ELSE {b \in Opens(Span) : at <= b /\ b < to /\ b <= clock}
Batch == FirstOf(Limit, Keys)

(* Mutant: the next page starts behind the next millisecond. *)
SkippingCursor(batch) ==
    IF stage = "trades" THEN tape[Max(batch)] + 2 ELSE Max(batch) + 1

NextCursorAfter(batch) ==
    CASE stage = "trades"        -> tape[Max(batch)] + 1
      [] stage \in CandleStages -> Max(batch) + Span
      [] OTHER                   -> Max(batch) + 1

(* Candles are asked for until a page is empty or the range is done; the    *)
(* others stop at a page that is not full.                                  *)
LastOfStage(batch) ==
    \/ batch = {}
    \/ stage \notin CandleStages /\ Cardinality(batch) < Limit
    \/ NextCursorAfter(batch) >= (IF stage = "trades" THEN WindowEnd ELSE to)

(* INSERT ... ON CONFLICT DO UPDATE, and INSERT OR IGNORE *)
Upsert(table, new) ==
    [k \in DOMAIN table \cup DOMAIN new |-> IF k \in DOMAIN new THEN new[k] ELSE table[k]]
Ignore(table, new) == Upsert(new, table)

BucketRows(trades) ==
    [b \in {BarOf(tape[i]) : i \in trades} |-> {i \in trades : BarOf(tape[i]) = b}]

(* A stage is committed as a whole, the trades hour by hour. *)
Commit(rows) ==
    CASE stage = "candles" ->
            /\ candles' = Upsert(candles, rows)
            /\ stage' = "higher" /\ at' = from /\ UNCHANGED <<higher, buckets, funding, interest, window>>
      [] stage = "higher" ->
            /\ higher' = Upsert(higher, rows)
            /\ stage' = "funding" /\ at' = from /\ UNCHANGED <<candles, buckets, funding, interest, window>>
      [] stage = "funding" ->
            /\ funding' = funding \cup DOMAIN rows
            /\ stage' = "open_interest" /\ at' = Most(from, clock - Lookback)
            /\ UNCHANGED <<candles, higher, buckets, interest, window>>
      [] stage = "open_interest" ->
            /\ interest' = interest \cup DOMAIN rows
            /\ stage' = "trades" /\ window' = from /\ at' = from
            /\ UNCHANGED <<candles, higher, buckets, funding>>
      [] OTHER ->
            /\ buckets' = Upsert(buckets, BucketRows(DOMAIN rows))
            /\ stage' = IF WindowEnd = to THEN "done" ELSE "trades"
            /\ window' = WindowEnd /\ at' = WindowEnd
            /\ UNCHANGED <<candles, higher, funding, interest>>

TakePage ==
    /\ Asking
    /\ LET batch == Batch
           rows  == [k \in batch |-> IF stage \in CandleStages THEN In(k, k + Span) ELSE {}]
       IN  IF LastOfStage(batch)
           THEN Commit(Upsert(got, rows)) /\ got' = <<>>
           ELSE /\ got' = Upsert(got, rows) /\ at' = NextCursorAfter(batch)
                /\ UNCHANGED <<candles, higher, buckets, funding, interest, stage, window>>
    /\ edges' = IF stage = "trades" /\ Cardinality(Batch) = Limit THEN edges \cup {Max(Batch)} ELSE edges
    /\ tries' = 0
    /\ UNCHANGED <<exchangeVars, history, from, to, began, loads>>

SkipInterest ==
    /\ Running /\ ~Asking
    /\ Commit(<<>>)
    /\ UNCHANGED <<exchangeVars, history, from, to, began, got, tries, edges, loads>>

(* A "rejected" answer may be the rate limit's. *)
RateLimited ==
    /\ Asking /\ tries + 1 < RateTries
    /\ tries' = tries + 1
    /\ UNCHANGED <<exchangeVars, tableVars, stage, from, to, began, window, at, got, edges, loads>>

(* SystemExit after a request that failed for good, or a crash. *)
Abandon == Running /\ Forget /\ UNCHANGED <<exchangeVars, tableVars, loads>>

-----------------------------------------------------------------------------
(* The other scripts, each committing once; they are run one at a time.     *)

Load ==
    /\ ~Running /\ loads < MaxLoads /\ loads' = loads + 1 /\ Forget
    /\ UNCHANGED exchangeVars

(* The zips of a day that is over, where they can be downloaded. *)
ZipDays      == {d \in Opens(Day) : d + Day <= clock}
BarsOf(day)  == {b \in Bars : day <= b /\ b < day + Day}
LongsOf(day) == {b \in Longs : day <= b /\ b < day + Day}

LoadTradeZip ==
    /\ Load
    /\ \E day \in ZipDays : buckets' = Upsert(buckets, BucketRows(In(day, day + Day)))
    /\ UNCHANGED <<candles, higher, interest, funding, history>>

(* One commit for a day; the zip of either interval may not be there. *)
LoadCandleZip ==
    /\ Load
    /\ \E day \in ZipDays : \E bars \in {BarsOf(day), {}}, longs \in {LongsOf(day), {}} :
          /\ candles' = Upsert(candles, [b \in bars |-> In(b, b + Bar)])
          /\ higher' = Upsert(higher, [b \in longs |-> In(b, b + Long)])
    /\ UNCHANGED <<buckets, interest, funding, history>>

LoadInterestZip ==
    /\ Load
    /\ \E day \in ZipDays : interest' = interest \cup BarsOf(day)
    /\ UNCHANGED <<candles, higher, buckets, funding, history>>

(* bootstrap_funding_from_api commits page by page: one that is cut off has *)
(* loaded a shorter range.                                                 *)
LoadFunding ==
    /\ Load
    /\ \E a, z \in Bars : a <= z /\ z <= clock /\ funding' = funding \cup {b \in Bars : a <= b /\ b <= z}
    /\ UNCHANGED <<candles, higher, buckets, interest, history>>

(* The 15m candles; its seven days are longer than the model's time. *)
RefreshCandles ==
    /\ Load
    /\ candles' = Upsert(candles, [b \in {b \in Bars : b <= clock} |-> In(b, b + Bar)])
    /\ UNCHANGED <<higher, buckets, funding, interest, history>>

InsertCvdBars(new) == Ignore(history, new)

(* Klines by REST, or the candles of the database when that fails; the flow *)
(* is that of the bucket, or a placeholder.                                 *)
BackfillCvd ==
    /\ Load
    /\ \E closes \in {[b \in {b \in Bars : b <= clock} |-> In(b, b + Bar)], candles} :
          /\ Cardinality(DOMAIN closes) >= Required
          /\ history' = InsertCvdBars(
                [b \in LatestOf(Required, DOMAIN closes) |->
                    [close |-> closes[b], flow |-> IF b \in DOMAIN buckets THEN buckets[b] ELSE {}]])
    /\ UNCHANGED <<candles, higher, buckets, funding, interest>>

HistoryInit ==
    /\ clock = 0 /\ tape = <<>>
    /\ candles = <<>> /\ higher = <<>> /\ buckets = <<>> /\ funding = {} /\ interest = {} /\ history = <<>>
    /\ stage = "idle" /\ from = 0 /\ to = 0 /\ began = 0
    /\ window = 0 /\ at = 0 /\ got = <<>> /\ tries = 0 /\ edges = {} /\ loads = 0

HistoryNext ==
    \/ Pass \/ Trade
    \/ StartBootstrap \/ TakePage \/ SkipInterest \/ RateLimited \/ Abandon
    \/ LoadTradeZip \/ LoadCandleZip \/ LoadInterestZip \/ LoadFunding \/ RefreshCandles \/ BackfillCvd

-----------------------------------------------------------------------------
(* Properties *)

(* A bootstrap that runs to its end leaves a whole row for every candle of  *)
(* either length, and a row for every point, that was over when it began -  *)
(* whatever earlier scripts were cut off, or stored of a candle that was    *)
(* still open.                                                             *)
Over(b, span) == from <= b /\ b < to /\ b + span <= began

WholeIn(table, b, span) == b \in DOMAIN table /\ table[b] = In(b, b + span)

RowsWhole(b) ==
    /\ Over(b, Bar) =>
          /\ WholeIn(candles, b, Bar)
          /\ b \in funding
          /\ b >= clock - Lookback => b \in interest
    /\ b \in Longs /\ Over(b, Long) => WholeIn(higher, b, Long)

(* What it leaves in a bucket are the trades of that bucket in the last of  *)
(* its hours that has any, and of these only such are missing as share the  *)
(* millisecond of a full page's last trade.  So a bucket that no hour's     *)
(* edge cuts is exact but for these.                                        *)
Hours == {h \in from .. to - 1 : (h - from) % Hour = 0}
Part(b, h)    == In(Most(b, h), Least(HourEnd(h), b + Bar))
LostOnEdge(i) == \E e \in edges : e < i /\ tape[e] = tape[i]

BucketExplained(b, until) ==
    LET mine == {h \in Hours : h < until /\ Part(b, h) # {}}
    IN  (\A h \in mine : HourEnd(h) <= began) =>
            \A h \in mine : (\A g \in mine : g <= h) =>
                b \in DOMAIN buckets /\ buckets[b] = {i \in Part(b, h) : ~LostOnEdge(i)}

CompletedRunIsWhole == stage = "done" => \A b \in Bars : RowsWhole(b) /\ BucketExplained(b, to)

(* A row of cvd_price_history stays as it was written, also one of a bar     *)
(* that was still open and one with a placeholder for its flow.             *)
Kept(old, new) == \A b \in DOMAIN old : b \in DOMAIN new /\ new[b] = old[b]
=============================================================================
