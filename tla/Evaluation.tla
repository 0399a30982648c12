----------------------------- MODULE Evaluation -----------------------------
(***************************************************************************)
(* What a backtest says of a vector, from its result at every snapshot, in *)
(* R: the performance report as the objective reads it.                    *)
(***************************************************************************)
EXTENDS Integers, FiniteSets, FiniteSetsExt

CONSTANT ResultAt   \* [version of the source][vector]: the results at snapshots 0, 1, ...

Unbounded == 1000000    \* a profit factor without losses, made finite

Evaluate(p, version, range) ==
    LET r(s)   == ResultAt[version][p][s + 1]
        Net(S) == MapThenSumSet(r, S)
        won    == {s \in range : r(s) > 0}
        lost   == {s \in range : r(s) < 0}
        trades == Cardinality(won \cup lost)
    IN  [trades |-> trades, wins |-> Cardinality(won),
         exp |-> IF trades = 0 THEN 0 ELSE (60 * Net(range)) \div trades,
         pf |-> CASE lost # {} -> (60 * Net(won)) \div (0 - Net(lost))
                  [] lost = {} /\ won # {} -> Unbounded
                  [] OTHER -> 0,
         dd |-> Max({0} \cup {-Net({s \in range : a <= s /\ s <= b}) : a, b \in range})]
=============================================================================
