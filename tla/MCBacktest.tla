----------------------------- MODULE MCBacktest -----------------------------
(***************************************************************************)
(* Values for checking Backtest.  Prices 1 .. 9 with an entry at 4: bars    *)
(* that reach the stop, the target, both or neither, that gap over a stop  *)
(* and that come back to the entry.                                        *)
(***************************************************************************)
EXTENDS Backtest

Levels == {1, 3, 4, 6, 9}

SomeBars == {b \in [low : Levels, high : Levels, close : Levels] :
                b.low <= b.close /\ b.close <= b.high /\ b.close \in {b.low, b.high}}

LongAndShort == {[dir |-> 1, entry |-> 4, stop |-> 1, tp |-> 6],
                 [dir |-> -1, entry |-> 4, stop |-> 9, tp |-> 3]}
=============================================================================
