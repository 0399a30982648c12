------------------------------ MODULE Backtest ------------------------------
(***************************************************************************)
(* BacktestRunner.run: the bar-by-bar replay with its own book of open     *)
(* positions.  It exits with the live engine's evaluate_exit, but with     *)
(* partial exits and a trailing stop, which the live runtime never asks    *)
(* for, and it keeps its accounts itself: gross profit, fees, funding,     *)
(* quantity and notional of every leg, and one trade row at the end.       *)
(*                                                                         *)
(* Directions are 1 and -1, so that LONG and SHORT read alike.  Prices,    *)
(* lots and rates are integers; slippage is a number of ticks instead of   *)
(* basis points.  Feature, signal and governance decisions are the choice  *)
(* of a setup; pnl_r, mae, mfe and the candle path are left out.           *)
(***************************************************************************)
EXTENDS Integers, FiniteSets

CONSTANTS
    MaxBars,        \* bound: snapshots replayed
    MaxTrades,      \* bound: positions opened
    Bars,           \* the snapshots: records of low, high and close
    Setups,         \* executable signals: records of dir, entry, stop and tp
    Rates,          \* funding rates summed up between two snapshots
    Size,           \* lots of an entry
    PartialSize,    \* the lots partial_exit_pct makes of them
    Trail,          \* trailing_atr_mult * atr_15m
    EntrySlip,      \* slippage of the entry order
    ExitSlip,       \* slippage of a MARKET order
    Fee,            \* fee_rate
    HoldLimit,      \* max_hold_hours, in snapshots
    MaxOpen,        \* max_open_positions
    InitialEquity

ASSUME BoundsAssumption == MaxBars \in Nat /\ MaxTrades \in Nat
ASSUME BarsAssumption   == \A b \in Bars : /\ b \in [low : Int, high : Int, close : Int]
                                           /\ b.low <= b.close /\ b.close <= b.high
(* The stop is below a LONG entry and the target above it, fills included. *)
ASSUME SetupsAssumption ==
    \A s \in Setups : /\ {s.entry, s.stop, s.tp} \subseteq Int
                      /\ \/ s.dir = 1 /\ s.stop < s.entry /\ s.entry + EntrySlip <= s.tp
                         \/ s.dir = -1 /\ s.stop > s.entry /\ s.entry - EntrySlip >= s.tp
ASSUME SizeAssumption   == Size \in Nat \ {0} /\ PartialSize \in 0 .. Size
ASSUME CostsAssumption  == /\ {Trail, EntrySlip, ExitSlip, Fee, MaxOpen, HoldLimit} \subseteq Nat
                           /\ Rates \subseteq Int /\ InitialEquity \in Int

VARIABLES
    trade,      \* trade[t]: an _OpenPositionRecord, and then its TradeLog row
    opened,     \* _trade_counter
    bar,        \* the snapshot's latest candle
    rate,       \* the funding rates due since the snapshot before
    seen,       \* bound: snapshots replayed so far
    todo,       \* open positions the loop has still to look at
    pc,         \* "next", "exits", "entry", "ending" or "done"
    equity,     \* equity of the run
    cash        \* history: money paid and received in every single fill

replay == <<opened, bar, rate, seen>>
vars   == <<trade, replay, todo, pc, equity, cash>>

Trades == 1 .. MaxTrades
Open   == {t \in Trades : trade[t].status = "OPEN"}
Closed == {t \in Trades : trade[t].status = "CLOSED"}

NoTrade == [status |-> "none", dir |-> 1, entry |-> 0, stop |-> 0, tp |-> 0, size |-> 0,
            gross |-> 0, fees |-> 0, funding |-> 0, closedQty |-> 0, notional |-> 0,
            partial |-> FALSE, extreme |-> 0, held |-> 0, reason |-> "none", pnl |-> 0]

-----------------------------------------------------------------------------
(* Fills, funding and stops *)

ExitFill(r, price) == price - r.dir * ExitSlip
FeeOf(price, qty)  == price * qty * Fee

(* Of two prices, the one that is better for the position. *)
Better(dir, p, q) == IF dir * p >= dir * q THEN p ELSE q
Best(dir)  == IF dir = 1 THEN bar.high ELSE bar.low
Worst(dir) == IF dir = 1 THEN bar.low ELSE bar.high

FundingDue(r) == r.dir * rate * r.entry * r.size

AccrueFunding(r) == [r EXCEPT !.funding = r.funding + FundingDue(r)]

(* Mutant: the stop follows the last extreme, also backwards. *)
FollowingStop(r) ==
    IF ~r.partial THEN r
    ELSE [r EXCEPT !.extreme = Better(r.dir, r.extreme, Best(r.dir)),
                   !.stop = Best(r.dir) - r.dir * Trail]

UpdateTrailingStop(r) ==
    IF ~r.partial THEN r
    ELSE LET extreme == Better(r.dir, r.extreme, Best(r.dir))
         IN  [r EXCEPT !.extreme = extreme,
                       !.stop = Better(r.dir, r.stop, extreme - r.dir * Trail)]

-----------------------------------------------------------------------------
(* evaluate_exit with partial exits enabled: the reason and the price *)

StopHit(r) == r.dir * Worst(r.dir) <= r.dir * r.stop

TargetHit(r) == ~r.partial /\ r.dir * Best(r.dir) >= r.dir * r.tp

Decision(reason, price) == [reason |-> reason, price |-> price]

EvaluateExit(r) ==
    CASE StopHit(r) -> Decision(IF r.partial THEN "TP_TRAIL" ELSE "SL", r.stop)
      [] ~StopHit(r) /\ TargetHit(r) ->
             Decision(IF PartialSize \in 1 .. Size - 1 THEN "TP_PARTIAL" ELSE "TP", r.tp)
      [] ~StopHit(r) /\ ~TargetHit(r) /\ r.held >= HoldLimit -> Decision("TIMEOUT", bar.close)
      [] OTHER -> Decision("none", 0)

(* One leg: the lots that go, at which price. *)
Leg(r, price, qty) ==
    [r EXCEPT !.gross = r.gross + r.dir * (price - r.entry) * qty,
              !.fees = r.fees + FeeOf(price, qty),
              !.closedQty = r.closedQty + qty,
              !.notional = r.notional + price * qty,
              !.size = r.size - qty]

TakePartial(r, price) ==
    [Leg(r, price, PartialSize) EXCEPT !.partial = TRUE, !.stop = r.entry,
                                       !.extreme = Best(r.dir)]

(* Mutant: the profit of the last leg alone. *)
LastLegOnly(r, price, why) ==
    LET done == Leg(r, price, r.size)
    IN  [done EXCEPT !.status = "CLOSED", !.reason = why,
                     !.pnl = done.gross - r.gross - done.fees - done.funding]

Settled(r, price, why) ==
    LET done == Leg(r, price, r.size)
    IN  [done EXCEPT !.status = "CLOSED", !.reason = why,
                     !.pnl = done.gross - done.fees - done.funding]

-----------------------------------------------------------------------------
(* The replay *)

NextSnapshot(b, due) ==
    /\ pc = "next" /\ seen < MaxBars
    /\ pc' = "exits"
    /\ seen' = seen + 1 /\ bar' = b /\ rate' = due
    /\ todo' = Open
    /\ UNCHANGED <<trade, opened, equity, cash>>

(* open_positions is in the order of opening. *)
IsNext(t) == t \in todo /\ \A u \in todo : t <= u

(* One round of the loop over open_positions. *)
CloseIfNeeded(t) ==
    /\ pc = "exits" /\ IsNext(t)
    /\ LET r      == UpdateTrailingStop(AccrueFunding([trade[t] EXCEPT !.held = trade[t].held + 1]))
           exit   == EvaluateExit(r)
           price  == ExitFill(r, exit.price)
           qty    == CASE exit.reason = "none" -> 0
                       [] exit.reason = "TP_PARTIAL" -> PartialSize
                       [] OTHER -> r.size
           next   == CASE exit.reason = "none" -> r
                       [] exit.reason = "TP_PARTIAL" -> TakePartial(r, price)
                       [] OTHER -> Settled(r, price, exit.reason)
       IN  /\ trade' = [trade EXCEPT ![t] = next]
           /\ todo' = todo \ {t}
           /\ equity' = equity + next.pnl
           /\ cash' = cash - FundingDue(trade[t]) + r.dir * price * qty - FeeOf(price, qty)
    /\ UNCHANGED <<replay, pc>>

ExitsDone ==
    /\ pc = "exits" /\ todo = {} /\ pc' = "entry"
    /\ UNCHANGED <<trade, replay, todo, equity, cash>>

(* No candidate, or governance or risk reject it. *)
NoEntry ==
    /\ pc = "entry" /\ pc' = "next"
    /\ UNCHANGED <<trade, replay, todo, equity, cash>>

(* Mutant: the limit may be reached once more. *)
RiskAllowsAtLimit == equity > 0 /\ Cardinality(Open) <= MaxOpen

RiskAllows == equity > 0 /\ Cardinality(Open) < MaxOpen

OpenPosition(s) ==
    /\ pc = "entry" /\ pc' = "next"
    /\ opened < MaxTrades /\ RiskAllows
    /\ LET t     == opened + 1
           price == s.entry + s.dir * EntrySlip
       IN  /\ opened' = t
           /\ trade' = [trade EXCEPT ![t] =
                 [NoTrade EXCEPT !.status = "OPEN", !.dir = s.dir, !.entry = price, !.stop = s.stop,
                                 !.tp = s.tp, !.size = Size, !.fees = FeeOf(price, Size)]]
           /\ cash' = cash - s.dir * price * Size - FeeOf(price, Size)
    /\ UNCHANGED <<bar, rate, seen, todo, equity>>

(* There are no more snapshots. *)
EndOfReplay ==
    /\ pc = "next" /\ pc' = "ending"
    /\ todo' = Open
    /\ UNCHANGED <<trade, replay, equity, cash>>

(* Mutant: whatever has taken its partial profit is left out. *)
ForceCloseUntouched(t) ==
    /\ pc = "ending" /\ IsNext(t)
    /\ LET next == IF trade[t].partial THEN trade[t]
                   ELSE Settled(trade[t], ExitFill(trade[t], bar.close), "END_OF_BACKTEST")
       IN  /\ trade' = [trade EXCEPT ![t] = next]
           /\ todo' = todo \ {t}
           /\ equity' = equity + next.pnl
           /\ cash' = cash + next.dir * (next.notional - trade[t].notional)
                           - (next.fees - trade[t].fees)
    /\ UNCHANGED <<replay, pc>>

ForceCloseRemaining(t) ==
    /\ pc = "ending" /\ IsNext(t)
    /\ LET price == ExitFill(trade[t], bar.close)
           next  == Settled(trade[t], price, "END_OF_BACKTEST")
       IN  /\ trade' = [trade EXCEPT ![t] = next]
           /\ todo' = todo \ {t}
           /\ equity' = equity + next.pnl
           /\ cash' = cash + next.dir * price * trade[t].size - FeeOf(price, trade[t].size)
    /\ UNCHANGED <<replay, pc>>

Finish ==
    /\ pc = "ending" /\ todo = {} /\ pc' = "done"
    /\ UNCHANGED <<trade, replay, todo, equity, cash>>

Init ==
    /\ trade = [t \in Trades |-> NoTrade]
    /\ opened = 0 /\ bar = [low |-> 0, high |-> 0, close |-> 0] /\ rate = 0 /\ seen = 0
    /\ todo = {} /\ pc = "next"
    /\ equity = InitialEquity /\ cash = InitialEquity

Next ==
    \/ \E b \in Bars, due \in Rates : NextSnapshot(b, due)
    \/ \E s \in Setups : OpenPosition(s)
    \/ \E t \in Trades : CloseIfNeeded(t) \/ ForceCloseRemaining(t)
    \/ ExitsDone \/ NoEntry \/ EndOfReplay \/ Finish

Spec == Init /\ [][Next]_vars

-----------------------------------------------------------------------------
(* Properties *)

TradeRow == [status : {"none", "OPEN", "CLOSED"}, dir : {1, -1},
             entry : Int, stop : Int, tp : Int, size : 0 .. Size,
             gross : Int, fees : Int, funding : Int, closedQty : 0 .. Size, notional : Int,
             partial : BOOLEAN, extreme : Int, held : Nat,
             reason : {"none", "SL", "TP", "TP_TRAIL", "TIMEOUT", "END_OF_BACKTEST"}, pnl : Int]

TypeOK ==
    /\ trade \in [Trades -> TradeRow]
    /\ \A t \in Trades : trade[t].status # "none" <=> t <= opened
    /\ opened \in 0 .. MaxTrades /\ seen \in 0 .. MaxBars
    /\ bar \in [low : Int, high : Int, close : Int] /\ rate \in Int
    /\ todo \subseteq Open
    /\ pc \in {"next", "exits", "entry", "ending", "done"}
    /\ equity \in Int /\ cash \in Int

(* What an open position has earned and paid without equity showing it: its *)
(* legs, its costs, and the entry value of the lots that are left.          *)
Unbooked(r) ==
    IF r.status = "OPEN" THEN r.gross - r.fees - r.funding - r.dir * r.entry * r.size ELSE 0

UnbookedTotal(rows) ==
    LET upTo[n \in 0 .. MaxTrades] == IF n = 0 THEN 0 ELSE upTo[n - 1] + Unbooked(rows[n])
    IN  upTo[MaxTrades]

(* The accounts agree with the money: equity differs from what all fills    *)
(* and fundings paid and brought by what is not booked of open positions,   *)
(* and at the end of the run by nothing.                                    *)
EquityIsCash ==
    /\ cash = equity + UnbookedTotal(trade)
    /\ pc = "done" => Open = {} /\ cash = equity

(* A trade row explains itself, however many legs it took: its quantity is  *)
(* that of the entry, and its net profit follows from its entry price, its  *)
(* average exit price times its size (notional), fees and funding.          *)
RowExplainsProfit ==
    \A t \in Closed :
        LET r == trade[t]
        IN  /\ r.closedQty = Size /\ r.size = 0
            /\ r.pnl = r.dir * (r.notional - r.entry * Size) - r.fees - r.funding

(* A position that took its partial profit and is stopped or timed out      *)
(* later has not lost more than slippage before costs: the stop it trails   *)
(* never falls behind its entry.                                            *)
RunnerKeepsEntry ==
    \A t \in Closed :
        trade[t].partial /\ trade[t].reason \in {"TP_TRAIL", "TIMEOUT"}
            => trade[t].gross >= - ExitSlip * Size

(* The stop of an open position moves in its favour only, over partial      *)
(* exits and trailing.                                                      *)
StopOnlyTightens ==
    [][\A t \in Open : trade[t].dir * trade'[t].stop >= trade[t].dir * trade[t].stop]_vars

(* A backtest's trades live like those of the runtime: entered once, into a *)
(* free slot, settled once.                                                 *)
Stage(t) == CASE trade[t].status = "none" -> "absent"
              [] trade[t].status = "CLOSED" -> "settled"
              [] OTHER -> "held"

Abstract == INSTANCE TradeLifecycle
                WITH Trade <- Trades, MaxOpen <- MaxOpen, stage <- [t \in Trades |-> Stage(t)]

ImplementsLifecycle == Abstract!LifecycleSpec
=============================================================================
