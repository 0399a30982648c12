---------------------------- MODULE ReplayLoader ----------------------------
(***************************************************************************)
(* backtest/replay_loader.py: what a backtest is shown of the tables that   *)
(* History's scripts fill.  It reads them once, and builds the snapshot of  *)
(* every 15m candle out of what it has read.  Most snapshots fall inside a  *)
(* higher candle.  Force orders and the daily bias, of other tables, are    *)
(* left out.                                                               *)
(***************************************************************************)
EXTENDS History

CONSTANT LookbackRows   \* candles_15m_lookback and the like

ASSUME LookbackAssumption == LookbackRows \in Nat \ {0}

(* _preload: the candles from the longest lookback's begin on, the rest     *)
(* from ever.                                                              *)
Preloaded(table, start, end) ==
    {b \in table : start - Long * LookbackRows <= b /\ b <= end}

(* bisect_right: the last rows that are not later than up_to_time. *)
SliceLookback(rows, upto) == LatestOf(LookbackRows, {b \in rows : b <= upto})

(* The bar's own bucket, or else the newest one up to the snapshot's time. *)
ResolveAggBucket(rows, c) ==
    IF c \in rows THEN {c} ELSE LatestOf(1, {b \in rows : b <= c + Bar})

SnapshotBars(start, end) ==
    {c \in Preloaded(DOMAIN candles, start, end) : start <= c + Bar /\ c + Bar <= end}

(* Mutant: all candles are cut at the snapshot's time. *)
SnapshotOfOneCut(c, start, end) ==
    LET s == c + Bar
    IN  [bars     |-> SliceLookback(Preloaded(DOMAIN candles, start, end), s),
         higher   |-> SliceLookback(Preloaded(DOMAIN higher, start, end), s),
         funding  |-> SliceLookback({t \in funding : t <= end}, s),
         interest |-> LatestOf(1, {t \in interest : t <= s}),
         bucket   |-> ResolveAggBucket({b \in DOMAIN buckets : b <= end}, c)]

(* All series are cut by open time: the bars at the opening of their own,   *)
(* the higher candles at the snapshot's time.                              *)
SnapshotOf(c, start, end) ==
    LET s == c + Bar
    IN  [bars     |-> SliceLookback(Preloaded(DOMAIN candles, start, end), c),
         higher   |-> SliceLookback(Preloaded(DOMAIN higher, start, end), s),
         funding  |-> SliceLookback({t \in funding : t <= end}, s),
         interest |-> LatestOf(1, {t \in interest : t <= s}),
         bucket   |-> ResolveAggBucket({b \in DOMAIN buckets : b <= end}, c)]

-----------------------------------------------------------------------------
(* Properties *)

(* Of its bars and points a snapshot holds nothing later than its time.     *)
(* But it holds the higher candle that is open then, or just opens, as far  *)
(* as the table knows it: with all its trades up to its end.  And if the    *)
(* bar's own bucket is missing it holds the one that opens then.  Nothing   *)
(* else is from the future.                                                *)
KnowsNoFuture(c, shot) ==
    LET s == c + Bar
        Later(rows, table) == {b \in rows : \E i \in table[b] : tape[i] >= s}
        OpenAt(t) == {b \in Longs : b <= t /\ t < b + Long}
    IN  /\ Later(shot.bars, candles) = {}
        /\ Later(shot.higher, higher) \subseteq OpenAt(s)
        /\ \A b \in shot.higher : \A i \in higher[b] : tape[i] < b + Long
        /\ Later(shot.bucket, buckets) \subseteq IF c \in DOMAIN buckets THEN {} ELSE {s}
        /\ \A t \in shot.funding \cup shot.interest : t <= s

(* A bar looks the same in every window that shows it - train, validation   *)
(* or the whole range - unless a candle of its lookback is missing.         *)
SameInEveryWindow(c, shot) ==
    LET s == c + Bar
        Complete(table, span, last) ==
            \A b \in 0 .. last : b % span = 0 /\ last - span * LookbackRows < b => b \in DOMAIN table
    IN  Complete(candles, Bar, c) /\ Complete(higher, Long, s) =>
            \A start \in {b \in Bars : b <= s} : SnapshotOf(c, start, s) = shot

(* What a backtest sees of a bar is what was known when the bar closed, but *)
(* for the higher candle that is open then, whatever window it replays and  *)
(* whatever state the scripts have left the tables in.                     *)
ReplayIsFair ==
    \A c \in SnapshotBars(0, LastTime + Bar) :
        LET shot == SnapshotOf(c, 0, LastTime + Bar)
        IN  KnowsNoFuture(c, shot) /\ SameInEveryWindow(c, shot)
=============================================================================
