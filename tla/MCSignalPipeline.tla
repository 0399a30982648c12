--------------------------- MODULE MCSignalPipeline -------------------------
(* Values of the constants of SignalPipeline. *)
EXTENDS SignalPipeline

Candle(o, h, l, c) == [open |-> o, high |-> h, low |-> l, close |-> c]
After(bar, last) == <<bar, bar, last>>

(* Lows that differ, each by the tolerance from the next. *)
Chain == <<Candle(6, 7, 4, 6), Candle(6, 7, 5, 6), Candle(6, 7, 6, 6), Candle(6, 7, 3, 7)>>

(* Breaks of a low and of a high, with and without a reclaim, a break at    *)
(* another level, a break of a chain, and nothing.                          *)
SomeCharts ==
    {Chain, After(Candle(6, 7, 5, 6), Candle(6, 7, 3, 7)), After(Candle(6, 7, 5, 6), Candle(6, 7, 3, 5)),
     After(Candle(6, 7, 5, 6), Candle(6, 9, 5, 5)), After(Candle(6, 7, 5, 6), Candle(6, 9, 6, 8)),
     After(Candle(8, 9, 7, 8), Candle(8, 9, 5, 9)), After(Candle(6, 6, 6, 6), Candle(6, 6, 6, 6))}

Climate(tfi, gap, vol, funding, oi, bursts) ==
    [tfi |-> tfi, gap |-> gap, vol |-> vol, funding |-> funding, oi |-> oi,
     rate |-> IF funding > 50 THEN 1 ELSE -1, spike |-> bursts, falling |-> bursts]

SomeClimates ==
    {Climate(tfi, gap, 30, 50, 0, FALSE) : tfi \in {-60, 0, 20}, gap \in {-100, 0, 100}}
    \cup {Climate(tfi, 0, 10, 50, 0, FALSE) : tfi \in {-60, 20}}
    \cup {Climate(tfi, 100, 30, 90, 200, FALSE) : tfi \in {-60, 20}}
    \cup {Climate(60, -100, 30, 50, 0, TRUE)}

SomePrices == [t \in 0 .. MaxClock |-> 5 + ((t * t) % 4)]
SomeFlow   == [t \in 0 .. MaxClock |-> (t % 3) - 1]
OneSession == [t \in 0 .. MaxClock |-> IF t > 4 THEN "eu" ELSE "asia"]
EuNotWild  == [s \in {"asia", "eu"} |-> IF s = "eu" THEN {"low", "normal"} ELSE {"low", "normal", "high"}]
=============================================================================
