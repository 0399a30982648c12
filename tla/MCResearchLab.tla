--------------------------- MODULE MCResearchLab ----------------------------
(***************************************************************************)
(* Four vectors on eight snapshots; the windows share those at 2 and 4.    *)
(* The current settings (now) pass every window but trade too little, bold *)
(* passes until new data spoils its last window, over has the settings of  *)
(* bold with the research overlay switched on: each drawdown is too deep.  *)
(* bad is a violation of the constraints.                                  *)
(***************************************************************************)
EXTENDS ResearchLab, Evaluation, TLC

Vectors == {"now", "bold", "over", "bad"}
ValidVectors == Vectors \ {"bad"}
Current == "now"
Settings == [p \in Vectors |-> IF p = "over" THEN "bold" ELSE p]

ResultsOf(late) ==
    [now  |-> <<-1, 3, -1,  3, -1,  3, -1, 0>>,
     bold |-> <<-1, 3, -1,  3, -1>> \o late \o <<1>>,
     over |-> << 1, 1, -1, -3,  9, -3, -2, 3>>,
     bad  |-> << 0, 0,  0,  0,  0,  0,  0, 0>>]

ResultsByVersion == <<ResultsOf(<<3, -1>>), ResultsOf(<<-1, -1>>)>>

(* TLC evaluates Replays once. *)
Replays == [p \in Params, version \in 1 .. MaxData, range \in Ranges |-> Evaluate(p, version, range)] @@ <<>>

Evaluated == Replays

Bounds == [minTrades |-> 8, maxTrades |-> 10, minWindow |-> 1, maxDrawdown |-> 2, reviewTrades |-> 2,
           fragileAt |-> 30, train |-> 2, validation |-> 2, step |-> 2]

Protocols ==
    [default |-> Bounds @@ [mode |-> "post_hoc", requires |-> "median", anchored |-> TRUE],
     nested  |-> Bounds @@ [mode |-> "nested", requires |-> "any", anchored |-> FALSE]]
=============================================================================
