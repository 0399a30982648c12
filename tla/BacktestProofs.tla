--------------------------- MODULE BacktestProofs ---------------------------
(***************************************************************************)
(* Facts about every replay, for all bars, setups, sizes, costs and limits: *)
(* the state is well typed, a closed trade's row explains its profit, a    *)
(* runner keeps its entry, the stop of an open position moves in its       *)
(* favour only, the replay implements TradeLifecycle and with it holds no  *)
(* more positions than it has slots, and the equity is the money that was  *)
(* moved.  They rest on one invariant per position,                        *)
(* Sound: while it is open, the profit of its legs is the one their        *)
(* quantity and notional give; before the partial exit the stop is still   *)
(* on the losing side of the entry, and after it on the other, with no     *)
(* more than slippage lost.  The sum over positions is met by induction:   *)
(* a step that changes one row changes the sum by that row's difference.   *)
(*                                                                         *)
(* The second half is about the lab that uses replays: which snapshots its *)
(* windows train and validate on, and, for all vectors, protocols, metrics *)
(* and versions of the source: LabInv says which rows are stored at each   *)
(* stage of a command.                                                     *)
(***************************************************************************)
EXTENDS Backtest, ResearchLab, FiniteSetTheorems, SequenceTheorems, WellFoundedInduction, TLAPS

Explained(r) ==
    /\ r.closedQty = Size /\ r.size = 0
    /\ r.pnl = r.dir * (r.notional - r.entry * Size) - r.fees - r.funding

(* The partial profit is still ahead. *)
Whole(r) ==
    /\ r.closedQty = 0 /\ r.size = Size /\ r.gross = 0
    /\ r.dir * r.stop <= r.dir * r.entry
    /\ r.dir * r.entry <= r.dir * r.tp

(* The partial profit is taken. *)
Running(r) ==
    /\ r.dir * r.entry <= r.dir * r.stop
    /\ r.gross >= -(ExitSlip * r.closedQty)

KeptEntry(r) == r.partial /\ r.reason \in {"TP_TRAIL", "TIMEOUT"} => r.gross >= -(ExitSlip * Size)

Sound(r) ==
    /\ r.status = "OPEN" => /\ r.closedQty + r.size = Size /\ r.size > 0
                            /\ r.gross = r.dir * (r.notional - r.entry * r.closedQty)
                            /\ ~r.partial => Whole(r)
                            /\ r.partial => Running(r)
    /\ r.status = "CLOSED" => Explained(r) /\ KeptEntry(r)

(* Low, close and high of the current bar are in this order. *)
BarInOrder == bar.low <= bar.close /\ bar.close <= bar.high

Inv == TypeOK /\ BarInOrder /\ \A t \in Trades : Sound(trade[t])

-----------------------------------------------------------------------------
(* Prices *)

LEMMA ProductBound ==
    ASSUME NEW a \in Int, NEW b \in Nat, NEW c \in Nat, a >= -c
    PROVE  a * b >= -(c * b)
<1>1. (a + c) * b >= 0
  <2>1. a + c \in Nat
    OBVIOUS
  <2> QED BY <2>1
<1>2. (a + c) * b = a * b + c * b
  OBVIOUS
<1>3. a * b \in Int /\ c * b \in Int
  OBVIOUS
<1> QED BY <1>1, <1>2, <1>3

LEMMA PriceTypes ==
    ASSUME Inv, NEW r \in TradeRow
    PROVE  /\ Best(r.dir) \in Int /\ Worst(r.dir) \in Int
           /\ \A p \in Int : ExitFill(r, p) \in Int
           /\ \A p, q \in Int : /\ Better(r.dir, p, q) \in Int
                                /\ r.dir * Better(r.dir, p, q) >= r.dir * p
  BY CostsAssumption DEF Inv, TypeOK, TradeRow, Best, Worst, ExitFill, Better

(* A market exit at the entry or better loses no more than slippage. *)
LEMMA FillBound ==
    ASSUME NEW r \in TradeRow, NEW p \in Int, r.dir * r.entry <= r.dir * p
    PROVE  r.dir * (ExitFill(r, p) - r.entry) >= -ExitSlip
<1>1. r.entry \in Int /\ r.dir \in {1, -1} /\ ExitSlip \in Nat
  BY CostsAssumption DEF TradeRow
<1> QED BY <1>1 DEF ExitFill

(* What a snapshot does to an open position before an exit is looked for.  *)
Touched(r) == UpdateTrailingStop(AccrueFunding([r EXCEPT !.held = r.held + 1]))

LEMMA AccrueSound ==
    ASSUME Inv, NEW r \in TradeRow, Sound(r), r.status = "OPEN",
           NEW q, q = AccrueFunding([r EXCEPT !.held = r.held + 1])
    PROVE  /\ q \in TradeRow /\ Sound(q)
           /\ q.status = "OPEN" /\ q.dir = r.dir /\ q.partial = r.partial /\ q.stop = r.stop
<1> DEFINE held == r.held + 1
           funding == r.funding + FundingDue([r EXCEPT !.held = r.held + 1])
<1>1. held \in Nat /\ funding \in Int
  BY DEF FundingDue, Inv, TypeOK, TradeRow
<1>2. q = [r EXCEPT !.held = held, !.funding = funding]
  BY DEF AccrueFunding, TradeRow
<1> HIDE DEF held, funding
<1>3. q \in TradeRow
  BY <1>1, <1>2, ZenonT(30) DEF TradeRow
<1>4. /\ q.status = r.status /\ q.dir = r.dir /\ q.partial = r.partial /\ q.stop = r.stop
      /\ q.size = r.size /\ q.closedQty = r.closedQty /\ q.gross = r.gross
      /\ q.notional = r.notional /\ q.entry = r.entry /\ q.tp = r.tp
  BY <1>2 DEF TradeRow
<1> QED BY <1>3, <1>4 DEF Sound, Whole, Running

LEMMA TrailSound ==
    ASSUME Inv, NEW r \in TradeRow, Sound(r), r.status = "OPEN",
           NEW q, q = UpdateTrailingStop(r)
    PROVE  /\ q \in TradeRow /\ Sound(q)
           /\ q.status = "OPEN" /\ q.dir = r.dir /\ q.partial = r.partial
           /\ r.dir * q.stop >= r.dir * r.stop
<1>1. CASE ~r.partial
  BY <1>1 DEF UpdateTrailingStop, TradeRow
<1>2. CASE r.partial
  <2> DEFINE x == Better(r.dir, r.extreme, Best(r.dir))
             s == Better(r.dir, r.stop, x - r.dir * Trail)
  <2>1. x \in Int
    BY PriceTypes DEF TradeRow
  <2>2. x - r.dir * Trail \in Int
    BY <2>1, CostsAssumption DEF TradeRow
  <2>3. s \in Int /\ r.dir * s >= r.dir * r.stop
    BY <2>2, PriceTypes DEF TradeRow
  <2>4. q = [r EXCEPT !.extreme = x, !.stop = s]
    BY <1>2 DEF UpdateTrailingStop
  <2> HIDE DEF x, s
  <2>5. q \in TradeRow /\ q.stop = s /\ q.partial /\ q.status = "OPEN" /\ q.dir = r.dir
        /\ q.closedQty = r.closedQty /\ q.size = r.size /\ q.gross = r.gross
        /\ q.notional = r.notional /\ q.entry = r.entry
    BY <1>2, <2>1, <2>3, <2>4 DEF TradeRow
  <2>6. r.dir * r.entry <= r.dir * r.stop /\ r.gross >= -(ExitSlip * r.closedQty)
        /\ r.closedQty + r.size = Size /\ r.size > 0
        /\ r.gross = r.dir * (r.notional - r.entry * r.closedQty)
    BY <1>2 DEF Sound, Running
  <2>7. r.dir * r.entry <= r.dir * s
    <3>1. r.dir * r.entry \in Int /\ r.dir * r.stop \in Int /\ r.dir * s \in Int
      BY <2>3 DEF TradeRow
    <3> QED BY <2>3, <2>6, <3>1
  <2>8. Running(q)
    <3>1. r.dir * r.entry <= r.dir * s /\ r.gross >= -(ExitSlip * r.closedQty)
      BY <2>6, <2>7
    <3> QED BY <2>5, <3>1 DEF Running
  <2>9. q.gross = q.dir * (q.notional - q.entry * q.closedQty) /\ q.closedQty + q.size = Size
        /\ q.size > 0
    BY <2>5, <2>6
  <2>10. Sound(q)
    BY <2>5, <2>8, <2>9 DEF Sound
  <2> QED BY <1>2, <2>3, <2>5, <2>10
<1> QED BY <1>1, <1>2 DEF TradeRow

LEMMA TouchedSound ==
    ASSUME Inv, NEW r \in TradeRow, Sound(r), r.status = "OPEN"
    PROVE  /\ Touched(r) \in TradeRow /\ Sound(Touched(r))
           /\ Touched(r).status = "OPEN" /\ Touched(r).dir = r.dir
           /\ Touched(r).partial = r.partial
           /\ r.dir * Touched(r).stop >= r.dir * r.stop
<1> DEFINE q == AccrueFunding([r EXCEPT !.held = r.held + 1])
<1>1. /\ q \in TradeRow /\ Sound(q)
      /\ q.status = "OPEN" /\ q.dir = r.dir /\ q.partial = r.partial /\ q.stop = r.stop
  BY AccrueSound
<1> HIDE DEF q
<1>2. LET w == UpdateTrailingStop(q)
      IN  /\ w \in TradeRow /\ Sound(w)
          /\ w.status = "OPEN" /\ w.dir = q.dir /\ w.partial = q.partial
          /\ q.dir * w.stop >= q.dir * q.stop
  BY <1>1, TrailSound
<1> QED BY <1>1, <1>2 DEF Touched, q

-----------------------------------------------------------------------------
(* Legs *)

(* A leg keeps the sum of the profit that of quantity and notional.        *)
LEMMA LegSound ==
    ASSUME NEW r \in TradeRow, Sound(r), r.status = "OPEN", NEW price \in Int,
           NEW qty \in 0 .. r.size, NEW q, q = Leg(r, price, qty)
    PROVE  /\ q \in TradeRow
           /\ q.gross = q.dir * (q.notional - q.entry * q.closedQty)
           /\ q.closedQty + q.size = Size
           /\ q.size = r.size - qty
           /\ q.gross = r.gross + r.dir * (price - r.entry) * qty
           /\ q.partial = r.partial /\ q.closedQty = r.closedQty + qty
           /\ q.status = "OPEN" /\ q.dir = r.dir /\ q.stop = r.stop /\ q.entry = r.entry
<1>0. qty \in Nat
  BY DEF TradeRow
<1>1. FeeOf(price, qty) \in Int
  BY <1>0, CostsAssumption DEF FeeOf
<1>2. /\ r.gross + r.dir * (price - r.entry) * qty \in Int
      /\ r.notional + price * qty \in Int
  BY <1>0 DEF TradeRow
<1>3. q \in TradeRow
  <2> DEFINE g == r.gross + r.dir * (price - r.entry) * qty
             f == r.fees + FeeOf(price, qty)
             c == r.closedQty + qty
             n == r.notional + price * qty
             s == r.size - qty
  <2>1. g \in Int /\ f \in Int /\ c \in 0 .. Size /\ n \in Int /\ s \in 0 .. Size
    BY <1>0, <1>1, <1>2, SizeAssumption DEF TradeRow, Sound
  <2>2. q = [r EXCEPT !.gross = g, !.fees = f, !.closedQty = c, !.notional = n, !.size = s]
    BY DEF Leg
  <2> HIDE DEF g, f, c, n, s
  <2> QED BY <2>1, <2>2, ZenonT(30) DEF TradeRow
<1>4. /\ q.gross = r.gross + r.dir * (price - r.entry) * qty
      /\ q.notional = r.notional + price * qty
      /\ q.closedQty = r.closedQty + qty
      /\ q.size = r.size - qty /\ q.partial = r.partial
      /\ q.status = "OPEN" /\ q.dir = r.dir /\ q.stop = r.stop /\ q.entry = r.entry
  BY DEF Leg, TradeRow
<1>5. r.closedQty + r.size = Size /\ r.gross = r.dir * (r.notional - r.entry * r.closedQty)
  BY DEF Sound
<1>6. r.gross + r.dir * (price - r.entry) * qty
        = r.dir * ((r.notional + price * qty) - r.entry * (r.closedQty + qty))
  <2>1. /\ r.notional \in Int /\ r.entry \in Int /\ r.closedQty \in Int /\ r.gross \in Int
        /\ r.dir \in {1, -1}
    BY DEF TradeRow
  <2>2. CASE r.dir = 1
    BY <1>0, <1>5, <2>1, <2>2
  <2>3. CASE r.dir = -1
    BY <1>0, <1>5, <2>1, <2>3
  <2> QED BY <2>1, <2>2, <2>3
<1>7. q.closedQty + q.size = Size
  BY <1>0, <1>4, <1>5, SizeAssumption DEF TradeRow
<1> QED BY <1>3, <1>4, <1>6, <1>7

LEMMA PartialSound ==
    ASSUME Inv, NEW r \in TradeRow, Sound(r), r.status = "OPEN", ~r.partial, NEW price \in Int,
           PartialSize < Size, r.dir * (price - r.entry) >= -ExitSlip,
           NEW q, q = TakePartial(r, price)
    PROVE  q \in TradeRow /\ Sound(q) /\ q.status = "OPEN" /\ r.dir * q.stop >= r.dir * r.stop
<1> DEFINE l == Leg(r, price, PartialSize)
           x == Best(r.dir)
           e == r.entry
<1>1. Whole(r)
  BY DEF Sound
<1>2. PartialSize \in 0 .. r.size
  BY <1>1, SizeAssumption DEF Whole
<1>3. /\ l \in TradeRow
      /\ l.gross = l.dir * (l.notional - l.entry * l.closedQty)
      /\ l.closedQty + l.size = Size
      /\ l.size = r.size - PartialSize
      /\ l.gross = r.gross + r.dir * (price - r.entry) * PartialSize
      /\ l.closedQty = r.closedQty + PartialSize
      /\ l.status = "OPEN" /\ l.dir = r.dir /\ l.entry = r.entry
  BY <1>2, LegSound
<1>4. q = [l EXCEPT !.partial = TRUE, !.stop = e, !.extreme = x]
  BY DEF TakePartial
<1>5. x \in Int /\ e \in Int
  BY PriceTypes DEF TradeRow
<1> HIDE DEF l
<1>6. q \in TradeRow
  <2> HIDE DEF x, e
  <2> QED BY <1>3, <1>4, <1>5, ZenonT(30) DEF TradeRow
<1>7. q.partial /\ q.stop = r.entry /\ q.gross = l.gross /\ q.dir = l.dir
      /\ q.notional = l.notional /\ q.entry = l.entry /\ q.closedQty = l.closedQty
      /\ q.size = l.size /\ q.status = "OPEN"
  BY <1>3, <1>4 DEF TradeRow
<1>8. l.gross >= -(ExitSlip * PartialSize) /\ l.closedQty = PartialSize /\ l.size > 0
  <2>1. r.dir * (price - r.entry) \in Int
    BY DEF TradeRow
  <2>2. r.dir * (price - r.entry) * PartialSize >= -(ExitSlip * PartialSize)
    BY <2>1, ProductBound, SizeAssumption, CostsAssumption
  <2>3. r.dir * (price - r.entry) * PartialSize \in Int
    BY <2>1, SizeAssumption
  <2>4. l.gross = r.dir * (price - r.entry) * PartialSize
    BY <1>1, <1>3, <2>3 DEF Whole
  <2> QED BY <1>1, <1>3, <2>2, <2>4, SizeAssumption DEF Whole
<1>9. r.dir * r.stop <= r.dir * r.entry /\ r.dir * r.stop \in Int /\ r.dir * r.entry \in Int
  BY <1>1 DEF Whole, TradeRow
<1>10. Running(q)
  BY <1>3, <1>7, <1>8, <1>9 DEF Running
<1>11. Sound(q)
  BY <1>3, <1>7, <1>8, <1>10 DEF Sound
<1> QED BY <1>6, <1>7, <1>9, <1>11

LEMMA SettledSound ==
    ASSUME NEW r \in TradeRow, Sound(r), r.status = "OPEN", NEW price \in Int,
           NEW why \in {"none", "SL", "TP", "TP_TRAIL", "TIMEOUT", "END_OF_BACKTEST"},
           r.partial /\ why \in {"TP_TRAIL", "TIMEOUT"} => r.dir * (price - r.entry) >= -ExitSlip,
           NEW q, q = Settled(r, price, why)
    PROVE  q \in TradeRow /\ Sound(q) /\ q.stop = r.stop /\ q.status = "CLOSED"
<1> DEFINE l == Leg(r, price, r.size)
<1>1. /\ l \in TradeRow
      /\ l.gross = l.dir * (l.notional - l.entry * l.closedQty)
      /\ l.closedQty + l.size = Size
      /\ l.size = r.size - r.size
      /\ l.gross = r.gross + r.dir * (price - r.entry) * r.size
      /\ l.partial = r.partial
      /\ l.status = "OPEN" /\ l.dir = r.dir /\ l.stop = r.stop
  <2>1. r.size \in 0 .. r.size
    BY SizeAssumption DEF TradeRow
  <2> QED BY <2>1, LegSound
<1>2. q = [l EXCEPT !.status = "CLOSED", !.reason = why,
                    !.pnl = l.gross - l.fees - l.funding]
  BY DEF Settled
<1>3. r.size \in Int
  BY DEF TradeRow
<1> HIDE DEF l
<1>4. l.size = 0 /\ l.closedQty = Size
  BY <1>1, <1>3, SizeAssumption DEF TradeRow
<1> DEFINE net == l.gross - l.fees - l.funding
<1>a. net \in Int
  BY <1>1 DEF TradeRow
<1>b. q \in TradeRow
  <2>1. q = [l EXCEPT !.status = "CLOSED", !.reason = why, !.pnl = net]
    BY <1>2
  <2> HIDE DEF net
  <2> QED BY <1>1, <1>a, <2>1, ZenonT(30) DEF TradeRow
<1>5. q \in TradeRow /\ q.stop = l.stop /\ q.status = "CLOSED" /\ q.closedQty = Size /\ q.size = 0
      /\ q.pnl = l.gross - l.fees - l.funding /\ q.dir = l.dir /\ q.notional = l.notional
      /\ q.entry = l.entry /\ q.fees = l.fees /\ q.funding = l.funding
      /\ q.gross = l.gross /\ q.partial = l.partial /\ q.reason = why
  BY <1>1, <1>2, <1>4, <1>b DEF TradeRow
<1>6. q.pnl = q.dir * (q.notional - q.entry * Size) - q.fees - q.funding
  BY <1>1, <1>4, <1>5
<1>7. KeptEntry(q)
  <2> SUFFICES ASSUME r.partial, why \in {"TP_TRAIL", "TIMEOUT"}
               PROVE  l.gross >= -(ExitSlip * Size)
    BY <1>1, <1>5 DEF KeptEntry
  <2>1. r.dir * (price - r.entry) \in Int /\ r.size \in Nat /\ r.closedQty \in Nat
    BY DEF TradeRow
  <2>2. r.dir * (price - r.entry) * r.size >= -(ExitSlip * r.size)
    BY <2>1, ProductBound, CostsAssumption
  <2>3. r.gross >= -(ExitSlip * r.closedQty) /\ r.closedQty + r.size = Size
    BY DEF Sound, Running
  <2>4. ExitSlip * Size = ExitSlip * r.closedQty + ExitSlip * r.size
    BY <2>1, <2>3, CostsAssumption
  <2>5. /\ r.dir * (price - r.entry) * r.size \in Int /\ r.gross \in Int
        /\ ExitSlip * r.closedQty \in Int /\ ExitSlip * r.size \in Int
    BY <2>1, CostsAssumption DEF TradeRow
  <2> QED BY <1>1, <2>2, <2>3, <2>4, <2>5
<1> QED BY <1>1, <1>5, <1>6, <1>7 DEF Sound, Explained

-----------------------------------------------------------------------------
(* Steps *)

LEMMA InitInv == Init => Inv
<1> SUFFICES ASSUME Init PROVE Inv
  OBVIOUS
<1>1. NoTrade \in TradeRow
  BY SizeAssumption DEF NoTrade, TradeRow
<1>2. \A t \in Trades : trade[t] = NoTrade /\ t > 0
  BY DEF Init, Trades
<1>3. Sound(NoTrade) /\ NoTrade.status = "none"
  BY DEF Sound, NoTrade
<1>4. bar = [low |-> 0, high |-> 0, close |-> 0]
  BY DEF Init
<1>5. bar \in [low : Int, high : Int, close : Int] /\ BarInOrder
  BY <1>4 DEF BarInOrder
<1>6. /\ opened = 0 /\ seen = 0 /\ todo = {} /\ pc = "next" /\ rate = 0
      /\ equity = InitialEquity /\ cash = InitialEquity
  BY DEF Init
<1>7. trade \in [Trades -> TradeRow]
  BY <1>1 DEF Init
<1>8. \A t \in Trades : trade[t].status # "none" <=> t <= opened
  BY <1>2, <1>3, <1>6 DEF Trades
<1>9. TypeOK
  BY <1>5, <1>6, <1>7, <1>8, BoundsAssumption, CostsAssumption DEF TypeOK
<1> QED BY <1>2, <1>3, <1>5, <1>9 DEF Inv

(* A stop does not loosen in a step. *)
Tightens == \A t \in Open : trade[t].dir * trade'[t].stop >= trade[t].dir * trade[t].stop

(* Only one trade's record changes, to a sound one with a stop no looser.  *)
LEMMA OneRowChanges ==
    ASSUME Inv, NEW t \in Trades, NEW r \in TradeRow, Sound(r), r.status # "none",
           t \in Open => trade[t].dir * r.stop >= trade[t].dir * trade[t].stop,
           opened' = IF t <= opened THEN opened ELSE t, t <= opened + 1,
           trade' = [trade EXCEPT ![t] = r]
    PROVE  /\ trade' \in [Trades -> TradeRow]
           /\ \A u \in Trades : Sound(trade'[u])
           /\ \A u \in Trades : trade'[u].status # "none" <=> u <= opened'
           /\ Open \ {t} \subseteq Open'
           /\ Tightens
<1>1. trade \in [Trades -> TradeRow] /\ opened \in Nat
  BY DEF Inv, TypeOK
<1>2. trade'[t] = r /\ \A u \in Trades \ {t} : trade'[u] = trade[u]
  BY <1>1
<1>3. \A u \in Trades : trade'[u].status # "none" <=> u <= opened'
  BY <1>1, <1>2 DEF Inv, TypeOK, Trades
<1>4. Tightens
  <2> SUFFICES ASSUME NEW u \in Open, u # t
               PROVE  trade[u].dir * trade'[u].stop >= trade[u].dir * trade[u].stop
    BY <1>2 DEF Tightens
  <2>1. trade'[u] = trade[u] /\ trade[u] \in TradeRow
    BY <1>1, <1>2 DEF Open
  <2>2. trade[u].dir * trade[u].stop \in Int
    BY <2>1 DEF TradeRow
  <2> QED BY <2>1, <2>2
<1>5. Open \ {t} \subseteq Open'
  BY <1>2 DEF Open
<1> QED BY <1>1, <1>2, <1>3, <1>4, <1>5 DEF Inv

LEMMA SameStops == ASSUME Inv, UNCHANGED trade PROVE Tightens
<1> SUFFICES ASSUME NEW t \in Open
             PROVE  trade[t].dir * trade'[t].stop >= trade[t].dir * trade[t].stop
  BY DEF Tightens
<1>1. trade[t] \in TradeRow
  BY DEF Inv, TypeOK, Open
<1>2. trade[t].dir * trade[t].stop \in Int
  BY <1>1 DEF TradeRow
<1> QED BY <1>2

(* The price and the reason of an exit.  Whatever ends a runner is not      *)
(* behind its entry: the stop is not, and a close above the stop is not.    *)
LEMMA ExitPrices ==
    ASSUME Inv, NEW r \in TradeRow, Sound(r), r.status = "OPEN"
    PROVE  LET exit == EvaluateExit(r)
           IN  /\ exit.price \in Int
               /\ exit.reason \in {"none", "SL", "TP", "TP_PARTIAL", "TP_TRAIL", "TIMEOUT"}
               /\ exit.reason = "TP_PARTIAL" =>
                      ~r.partial /\ PartialSize < Size /\ r.dir * r.entry <= r.dir * exit.price
               /\ r.partial /\ exit.reason \in {"TP_TRAIL", "TIMEOUT"} =>
                      r.dir * r.entry <= r.dir * exit.price
<1> DEFINE exit == EvaluateExit(r)
<1>1. /\ r.dir \in {1, -1} /\ r.stop \in Int /\ r.tp \in Int /\ r.entry \in Int
      /\ bar.low \in Int /\ bar.high \in Int /\ bar.close \in Int
  BY DEF Inv, TypeOK, TradeRow
<1>2. (~r.partial => r.dir * r.entry <= r.dir * r.tp)
      /\ (r.partial => r.dir * r.entry <= r.dir * r.stop)
  BY DEF Sound, Whole, Running
<1>3. CASE StopHit(r)
  <2>1. exit = Decision(IF r.partial THEN "TP_TRAIL" ELSE "SL", r.stop)
    BY <1>3 DEF EvaluateExit
  <2> QED BY <1>1, <1>2, <2>1 DEF Decision
<1>4. CASE ~StopHit(r) /\ TargetHit(r)
  <2>1. exit = Decision(IF PartialSize \in 1 .. Size - 1 THEN "TP_PARTIAL" ELSE "TP", r.tp)
    BY <1>4 DEF EvaluateExit
  <2>2. ~r.partial
    BY <1>4 DEF TargetHit
  <2> QED BY <1>1, <1>2, <2>1, <2>2, SizeAssumption DEF Decision
<1>5. CASE ~StopHit(r) /\ ~TargetHit(r) /\ r.held >= HoldLimit
  <2>1. exit = Decision("TIMEOUT", bar.close)
    BY <1>5 DEF EvaluateExit
  <2>2. r.dir * r.stop < r.dir * Worst(r.dir)
    BY <1>1, <1>5 DEF StopHit, Worst
  <2>3. r.dir * Worst(r.dir) <= r.dir * bar.close
    BY <1>1 DEF Worst, Inv, BarInOrder
  <2>4. r.partial => r.dir * r.entry <= r.dir * bar.close
    BY <1>1, <1>2, <2>2, <2>3 DEF Worst
  <2> QED BY <1>1, <2>1, <2>4 DEF Decision
<1>6. CASE ~StopHit(r) /\ ~TargetHit(r) /\ ~(r.held >= HoldLimit)
  <2>1. exit = Decision("none", 0)
    BY <1>6 DEF EvaluateExit
  <2> QED BY <2>1 DEF Decision
<1> QED BY <1>3, <1>4, <1>5, <1>6

LEMMA ExitSound == ASSUME Inv, NEW t \in Trades, CloseIfNeeded(t)
                   PROVE  Inv' /\ Tightens
<1> DEFINE r     == Touched(trade[t])
           exit  == EvaluateExit(r)
           price == ExitFill(r, exit.price)
           qty   == CASE exit.reason = "none" -> 0
                      [] exit.reason = "TP_PARTIAL" -> PartialSize
                      [] OTHER -> r.size
           next  == CASE exit.reason = "none" -> r
                      [] exit.reason = "TP_PARTIAL" -> TakePartial(r, price)
                      [] OTHER -> Settled(r, price, exit.reason)
<1>1. /\ trade' = [trade EXCEPT ![t] = next] /\ todo' = todo \ {t}
      /\ equity' = equity + next.pnl
      /\ cash' = cash - FundingDue(trade[t]) + r.dir * price * qty - FeeOf(price, qty)
      /\ UNCHANGED <<replay, pc>>
  BY DEF CloseIfNeeded, Touched
<1>2. trade[t] \in TradeRow /\ Sound(trade[t]) /\ trade[t].status = "OPEN" /\ t <= opened
  BY DEF Inv, TypeOK, CloseIfNeeded, IsNext, Open
<1>3. /\ r \in TradeRow /\ Sound(r) /\ r.status = "OPEN" /\ r.dir = trade[t].dir
      /\ trade[t].dir * r.stop >= trade[t].dir * trade[t].stop
  BY <1>2, TouchedSound
<1> HIDE DEF r
<1>4. /\ exit.price \in Int
      /\ exit.reason \in {"none", "SL", "TP", "TP_PARTIAL", "TP_TRAIL", "TIMEOUT"}
      /\ exit.reason = "TP_PARTIAL" =>
             ~r.partial /\ PartialSize < Size /\ r.dir * r.entry <= r.dir * exit.price
      /\ r.partial /\ exit.reason \in {"TP_TRAIL", "TIMEOUT"} => r.dir * r.entry <= r.dir * exit.price
  BY <1>3, ExitPrices
<1>5. /\ price \in Int
      /\ r.dir * r.entry <= r.dir * exit.price => r.dir * (price - r.entry) >= -ExitSlip
  BY <1>3, <1>4, PriceTypes, FillBound
<1> HIDE DEF exit, price
<1>6. /\ next \in TradeRow /\ Sound(next) /\ next.status # "none"
      /\ r.dir * next.stop >= r.dir * r.stop
  <2>1. CASE exit.reason = "none"
    <3>1. r.dir * r.stop \in Int
      BY <1>3 DEF TradeRow
    <3> QED BY <1>3, <2>1, <3>1
  <2>2. CASE exit.reason = "TP_PARTIAL"
    BY <1>3, <1>4, <1>5, <2>2, PartialSound
  <2>3. CASE exit.reason \notin {"none", "TP_PARTIAL"}
    <3>1. next = Settled(r, price, exit.reason)
      BY <2>3
    <3>2. exit.reason \in {"none", "SL", "TP", "TP_TRAIL", "TIMEOUT", "END_OF_BACKTEST"}
      BY <1>4, <2>3
    <3>3. next \in TradeRow /\ Sound(next) /\ next.stop = r.stop /\ next.status = "CLOSED"
      BY <1>3, <1>4, <1>5, <3>1, <3>2, SettledSound
    <3>4. r.dir * r.stop \in Int
      BY <1>3 DEF TradeRow
    <3> QED BY <3>3, <3>4
  <2> QED BY <2>1, <2>2, <2>3
<1>7. qty \in Int
  BY <1>3, SizeAssumption DEF TradeRow
<1>8. FundingDue(trade[t]) \in Int /\ FeeOf(price, qty) \in Int /\ r.dir * price * qty \in Int
  <2> HIDE DEF qty
  <2>1. FundingDue(trade[t]) \in Int
    BY <1>2 DEF FundingDue, Inv, TypeOK, TradeRow
  <2> QED BY <1>3, <1>5, <1>7, <2>1, CostsAssumption DEF FeeOf, TradeRow
<1> HIDE DEF next, qty
<1>9. trade[t].dir * next.stop >= trade[t].dir * trade[t].stop
  <2>1. /\ trade[t].dir * next.stop \in Int /\ trade[t].dir * r.stop \in Int
        /\ trade[t].dir * trade[t].stop \in Int
    BY <1>2, <1>3, <1>6 DEF TradeRow
  <2> QED BY <1>3, <1>6, <2>1
<1>10. opened' = opened /\ t <= opened + 1
  BY <1>1, <1>2 DEF replay, Inv, TypeOK, Trades
<1>11. /\ trade' \in [Trades -> TradeRow]
       /\ \A u \in Trades : Sound(trade'[u])
       /\ \A u \in Trades : trade'[u].status # "none" <=> u <= opened'
       /\ Open \ {t} \subseteq Open'
       /\ Tightens
  BY <1>1, <1>2, <1>6, <1>9, <1>10, OneRowChanges
<1>12. equity' \in Int /\ cash' \in Int
  BY <1>1, <1>6, <1>8 DEF Inv, TypeOK, TradeRow
<1> QED BY <1>1, <1>11, <1>12 DEF Inv, TypeOK, BarInOrder, replay

LEMMA EndSound == ASSUME Inv, NEW t \in Trades, ForceCloseRemaining(t)
                  PROVE  Inv' /\ Tightens
<1> DEFINE r     == trade[t]
           price == ExitFill(r, bar.close)
           next  == Settled(r, price, "END_OF_BACKTEST")
<1>1. /\ trade' = [trade EXCEPT ![t] = next] /\ todo' = todo \ {t}
      /\ equity' = equity + next.pnl
      /\ cash' = cash + next.dir * price * r.size - FeeOf(price, r.size)
      /\ UNCHANGED <<replay, pc>>
  BY DEF ForceCloseRemaining
<1>2. r \in TradeRow /\ Sound(r) /\ r.status = "OPEN" /\ t <= opened
  BY DEF Inv, TypeOK, ForceCloseRemaining, IsNext, Open
<1>3. bar.close \in Int
  BY DEF Inv, TypeOK
<1>4. price \in Int
  BY <1>2, <1>3, PriceTypes
<1> HIDE DEF price
<1>5. next \in TradeRow /\ Sound(next) /\ next.stop = r.stop /\ next.status = "CLOSED"
  BY <1>2, <1>4, SettledSound
<1> HIDE DEF next
<1>6. trade[t].dir * next.stop >= trade[t].dir * trade[t].stop
  <2>1. r.dir * r.stop \in Int
    BY <1>2 DEF TradeRow
  <2> QED BY <1>5, <2>1
<1>7. opened' = opened /\ t <= opened + 1
  BY <1>1, <1>2 DEF replay, Inv, TypeOK, Trades
<1>8. /\ trade' \in [Trades -> TradeRow]
      /\ \A u \in Trades : Sound(trade'[u])
      /\ \A u \in Trades : trade'[u].status # "none" <=> u <= opened'
      /\ Open \ {t} \subseteq Open'
      /\ Tightens
  <2>1. opened' = IF t <= opened THEN opened ELSE t
    BY <1>2, <1>7
  <2>2. next.status # "none"
    BY <1>5
  <2> QED BY <1>1, <1>5, <1>6, <1>7, <2>1, <2>2, OneRowChanges
<1>9. FeeOf(price, r.size) \in Int /\ next.dir * price * r.size \in Int
  BY <1>2, <1>4, <1>5, CostsAssumption DEF FeeOf, TradeRow
<1>10. equity' \in Int /\ cash' \in Int
  BY <1>1, <1>5, <1>9 DEF Inv, TypeOK, TradeRow
<1> QED BY <1>1, <1>8, <1>10 DEF Inv, TypeOK, BarInOrder, replay

LEMMA OpenSound == ASSUME Inv, NEW s \in Setups, OpenPosition(s)
                   PROVE  Inv' /\ Tightens
<1> DEFINE t     == opened + 1
           dir   == s.dir
           stop  == s.stop
           tp    == s.tp
           price == s.entry + s.dir * EntrySlip
           fee   == FeeOf(price, Size)
           row   == [NoTrade EXCEPT !.status = "OPEN", !.dir = dir, !.entry = price,
                                    !.stop = stop, !.tp = tp, !.size = Size, !.fees = fee]
<1>1. /\ trade' = [trade EXCEPT ![t] = row] /\ opened' = t
      /\ cash' = cash - dir * price * Size - fee
      /\ pc' = "next" /\ UNCHANGED <<bar, rate, seen, todo, equity>>
  BY DEF OpenPosition
<1>2. /\ opened \in Nat /\ t \in Trades /\ opened' \in 0 .. MaxTrades
      /\ ~(t <= opened) /\ t <= opened + 1 /\ t \notin Open
  BY <1>1, BoundsAssumption DEF OpenPosition, Inv, TypeOK, Trades, Open
<1>3. /\ dir \in {1, -1} /\ s.entry \in Int /\ stop \in Int /\ tp \in Int
      /\ dir * stop <= dir * s.entry
      /\ dir * price <= dir * tp
  BY SetupsAssumption, CostsAssumption
<1>4. price \in Int /\ fee \in Int /\ dir * stop <= dir * price
  BY <1>3, CostsAssumption, SizeAssumption DEF FeeOf
<1>5. NoTrade \in TradeRow
      /\ NoTrade.closedQty = 0 /\ NoTrade.gross = 0 /\ NoTrade.notional = 0 /\ ~NoTrade.partial
  BY SizeAssumption DEF NoTrade, TradeRow
<1> HIDE DEF t, price, fee, dir, stop, tp
<1>6. row \in TradeRow
  <2>1. Size \in 0 .. Size
    BY SizeAssumption
  <2> QED BY <1>3, <1>4, <1>5, <2>1, ZenonT(30) DEF TradeRow
<1>7. /\ row.status = "OPEN" /\ row.dir = dir /\ row.entry = price /\ row.stop = stop
      /\ row.tp = tp /\ row.size = Size /\ row.closedQty = 0 /\ row.gross = 0
      /\ row.notional = 0 /\ ~row.partial
  BY <1>5 DEF TradeRow
<1> HIDE DEF row
<1>8. Sound(row)
  BY <1>3, <1>4, <1>7, SizeAssumption DEF Sound, Whole
<1>9. /\ trade' \in [Trades -> TradeRow]
      /\ \A u \in Trades : Sound(trade'[u])
      /\ \A u \in Trades : trade'[u].status # "none" <=> u <= opened'
      /\ Open \ {t} \subseteq Open'
      /\ Tightens
  BY <1>1, <1>2, <1>6, <1>7, <1>8, OneRowChanges
<1>10. todo' \subseteq Open'
  BY <1>1, <1>2, <1>9 DEF Inv, TypeOK
<1>11. cash' \in Int
  BY <1>1, <1>3, <1>4, SizeAssumption DEF Inv, TypeOK
<1> QED BY <1>1, <1>2, <1>9, <1>10, <1>11 DEF Inv, TypeOK, BarInOrder

LEMMA Step == ASSUME Inv, [Next]_vars PROVE Inv' /\ Tightens
<1>1. ASSUME NEW b \in Bars, NEW due \in Rates, NextSnapshot(b, due)
      PROVE  Inv' /\ Tightens
  <2>1. /\ UNCHANGED <<trade, opened, equity, cash>> /\ bar' = b /\ rate' = due /\ todo' = Open
        /\ pc' = "exits" /\ seen' = seen + 1 /\ seen < MaxBars
    BY <1>1 DEF NextSnapshot
  <2>2. /\ b \in [low : Int, high : Int, close : Int] /\ due \in Int
        /\ b.low <= b.close /\ b.close <= b.high
    BY BarsAssumption, CostsAssumption
  <2>3. seen' \in 0 .. MaxBars
    BY <2>1, BoundsAssumption DEF Inv, TypeOK
  <2> QED BY <2>1, <2>2, <2>3, SameStops DEF Inv, TypeOK, BarInOrder, Open
<1>2. ASSUME NEW s \in Setups, OpenPosition(s)
      PROVE  Inv' /\ Tightens
  BY <1>2, OpenSound
<1>3. ASSUME NEW t \in Trades, CloseIfNeeded(t) \/ ForceCloseRemaining(t)
      PROVE  Inv' /\ Tightens
  BY <1>3, ExitSound, EndSound
<1>4. CASE ExitsDone \/ NoEntry \/ Finish \/ UNCHANGED vars
  <2>1. /\ UNCHANGED <<trade, replay, todo, equity, cash>>
        /\ pc' \in {"next", "exits", "entry", "ending", "done"}
    BY <1>4 DEF ExitsDone, NoEntry, Finish, vars, Inv, TypeOK
  <2> QED BY <2>1, SameStops DEF Inv, TypeOK, BarInOrder, Open, replay
<1>5. CASE EndOfReplay
  <2>1. UNCHANGED <<trade, replay, equity, cash>> /\ todo' = Open /\ pc' = "ending"
    BY <1>5 DEF EndOfReplay
  <2> QED BY <2>1, SameStops DEF Inv, TypeOK, BarInOrder, Open, replay
<1> QED BY <1>1, <1>2, <1>3, <1>4, <1>5 DEF Next

-----------------------------------------------------------------------------
LEMMA InvAlways == Spec => []Inv /\ [][Tightens]_vars
<1>1. Init => Inv
  BY InitInv
<1>2. Inv /\ [Next]_vars => Inv'
  BY Step
<1>3. Inv /\ [Next]_vars => [Tightens]_vars
  BY Step
<1> QED BY <1>1, <1>2, <1>3, PTL DEF Spec

(* The state of every replay is well typed: quantities stay within the      *)
(* entry's size, and the list worked off holds open positions only.         *)
THEOREM TypeCorrect == Spec => []TypeOK
<1>1. Inv => TypeOK
  BY DEF Inv
<1> QED BY <1>1, InvAlways, PTL

(* However many legs a closed trade took, its row's quantity, average exit *)
(* price, fees and funding give its net profit (the settlement branch of   *)
(* BacktestRunner._close_positions_if_needed and the forced close).        *)
THEOREM RowsExplained == Spec => []RowExplainsProfit
<1>1. Inv => RowExplainsProfit
  BY DEF Inv, Sound, Explained, RowExplainsProfit, Closed
<1> QED BY <1>1, InvAlways, PTL

(* A position that took its partial profit and is then stopped or timed out *)
(* has lost no more than slippage before costs.                             *)
THEOREM RunnersKeepEntry == Spec => []RunnerKeepsEntry
<1>1. Inv => RunnerKeepsEntry
  <2> SUFFICES ASSUME Inv, NEW t \in Closed, trade[t].partial,
                      trade[t].reason \in {"TP_TRAIL", "TIMEOUT"}
               PROVE  trade[t].gross >= -ExitSlip * Size
    BY DEF RunnerKeepsEntry
  <2>1. trade[t].gross >= -(ExitSlip * Size)
    BY DEF Inv, Sound, KeptEntry, Closed
  <2> QED BY <2>1, SizeAssumption, CostsAssumption
<1> QED BY <1>1, InvAlways, PTL

(* Neither the partial exit's move to the entry nor the trailing update    *)
(* ever loosens the stop of an open position, over any sequence of bars.   *)
THEOREM StopsTighten == Spec => StopOnlyTightens
<1>1. [Tightens]_vars
       => [\A t \in Open : trade[t].dir * trade'[t].stop >= trade[t].dir * trade[t].stop]_vars
  BY DEF Tightens
<1> QED BY <1>1, InvAlways, PTL DEF StopOnlyTightens

-----------------------------------------------------------------------------
(* The life of a trade                                                     *)

LEMMA StageKept ==
    ASSUME Inv, NEW t \in Trades, NEW r, r.status = trade[t].status, trade' = [trade EXCEPT ![t] = r]
    PROVE  [u \in Trades |-> Stage(u)]' = [u \in Trades |-> Stage(u)]
<1>1. \A u \in Trades : trade'[u].status = trade[u].status
  BY DEF Inv, TypeOK
<1> QED BY <1>1 DEF Stage

LEMMA SettleStep ==
    ASSUME Inv, NEW t \in Trades, trade[t].status = "OPEN",
           NEW r, r.status = "CLOSED", trade' = [trade EXCEPT ![t] = r]
    PROVE  Abstract!Settle(t)
<1>1. Stage(t) = "held" /\ Stage(t)' = "settled"
  BY DEF Inv, TypeOK, Stage
<1>2. \A u \in Trades \ {t} : Stage(u)' = Stage(u)
  BY DEF Inv, TypeOK, Stage
<1> QED BY <1>1, <1>2 DEF Abstract!Settle

LEMMA EnterStep ==
    ASSUME Inv, NEW s \in Setups, OpenPosition(s)
    PROVE  \E t \in Trades : Abstract!Enter(t)
<1> PICK t \in Trades : t = opened + 1
  BY BoundsAssumption DEF OpenPosition, Inv, TypeOK, Trades
<1>1. trade[t].status = "none"
  BY DEF Inv, TypeOK
<1>2. trade'[t].status = "OPEN" /\ \A u \in Trades \ {t} : trade'[u] = trade[u]
  BY <1>1 DEF OpenPosition, Inv, TypeOK, NoTrade
<1>3. Stage(t) = "absent" /\ Stage(t)' = "held"
  BY <1>1, <1>2 DEF Stage
<1>4. \A u \in Trades \ {t} : Stage(u)' = Stage(u)
  BY <1>2 DEF Stage
<1>5. Abstract!Held = Open
  BY DEF Abstract!Held, Stage, Open, Inv, TypeOK, TradeRow
<1>6. Abstract!Cardinality(Open) < MaxOpen
  <2>1. Abstract!Cardinality(Open) = Cardinality(Open)
    BY Zenon DEF Abstract!Cardinality, Cardinality
  <2> QED BY <2>1 DEF OpenPosition, RiskAllows
<1> QED BY <1>3, <1>4, <1>5, <1>6 DEF Abstract!Enter

LEMMA RowStep ==
    ASSUME Inv, NEW t \in Trades, trade[t].status = "OPEN",
           NEW r, r.status = "OPEN" \/ r.status = "CLOSED", trade' = [trade EXCEPT ![t] = r]
    PROVE  Abstract!LifecycleNext \/ UNCHANGED [u \in Trades |-> Stage(u)]
<1>1. CASE r.status = "OPEN"
  BY <1>1, StageKept
<1>2. CASE r.status = "CLOSED"
  BY <1>2, SettleStep DEF Abstract!LifecycleNext
<1> QED BY <1>1, <1>2

(* An exit settles the trade or leaves it held, whatever the legs were.     *)
LEMMA ExitStep ==
    ASSUME Inv, NEW t \in Trades, CloseIfNeeded(t) \/ ForceCloseRemaining(t)
    PROVE  Abstract!LifecycleNext \/ UNCHANGED [u \in Trades |-> Stage(u)]
<1>1. trade[t].status = "OPEN" /\ trade[t] \in TradeRow /\ Sound(trade[t])
  BY DEF Inv, TypeOK, CloseIfNeeded, ForceCloseRemaining, IsNext, Open
<1>2. CASE CloseIfNeeded(t)
  <2> DEFINE r     == Touched(trade[t])
             exit  == EvaluateExit(r)
             price == ExitFill(r, exit.price)
             next  == CASE exit.reason = "none" -> r
                        [] exit.reason = "TP_PARTIAL" -> TakePartial(r, price)
                        [] OTHER -> Settled(r, price, exit.reason)
  <2>1. trade' = [trade EXCEPT ![t] = next]
    BY <1>2 DEF CloseIfNeeded, Touched
  <2>2. r \in TradeRow /\ r.status = "OPEN"
    BY <1>1, TouchedSound
  <2> HIDE DEF r, exit, price
  <2>3. TakePartial(r, price).status = "OPEN" /\ Settled(r, price, exit.reason).status = "CLOSED"
    BY <2>2 DEF TakePartial, Settled, Leg, TradeRow
  <2>4. next.status = "OPEN" \/ next.status = "CLOSED"
    BY <2>2, <2>3
  <2> HIDE DEF next
  <2> QED BY <1>1, <2>1, <2>4, RowStep
<1>3. CASE ForceCloseRemaining(t)
  <2> DEFINE next == Settled(trade[t], ExitFill(trade[t], bar.close), "END_OF_BACKTEST")
  <2>1. trade' = [trade EXCEPT ![t] = next]
    BY <1>3 DEF ForceCloseRemaining
  <2>2. next.status = "CLOSED"
    BY <1>1 DEF Settled, Leg, TradeRow
  <2> HIDE DEF next
  <2> QED BY <1>1, <2>1, <2>2, RowStep
<1> QED BY <1>2, <1>3

(* The trades of a backtest live like those of the runtime: each is entered *)
(* once, into a free slot, and settled once, by a stop, a target, a timeout *)
(* or the end of the replay.                                               *)
THEOREM Refinement == Spec => ImplementsLifecycle
<1>1. Init => Abstract!LifecycleInit
  BY DEF Init, Abstract!LifecycleInit, Stage, NoTrade
<1>2. Inv /\ [Next]_vars => [Abstract!LifecycleNext]_([t \in Trades |-> Stage(t)])
  <2> SUFFICES ASSUME Inv, [Next]_vars
               PROVE  [Abstract!LifecycleNext]_([t \in Trades |-> Stage(t)])
    OBVIOUS
  <2>1. ASSUME NEW s \in Setups, OpenPosition(s)
        PROVE  Abstract!LifecycleNext
    BY <2>1, EnterStep DEF Abstract!LifecycleNext
  <2>2. ASSUME NEW t \in Trades, CloseIfNeeded(t) \/ ForceCloseRemaining(t)
        PROVE  Abstract!LifecycleNext \/ UNCHANGED [u \in Trades |-> Stage(u)]
    BY <2>2, ExitStep
  <2>3. ASSUME UNCHANGED trade
        PROVE  UNCHANGED [t \in Trades |-> Stage(t)]
    BY <2>3 DEF Stage
  <2>4. CASE \/ \E b \in Bars, due \in Rates : NextSnapshot(b, due)
             \/ ExitsDone \/ NoEntry \/ EndOfReplay \/ Finish \/ UNCHANGED vars
    <3>1. UNCHANGED trade
      BY <2>4 DEF NextSnapshot, ExitsDone, NoEntry, EndOfReplay, Finish, vars
    <3> QED BY <2>3, <3>1
  <2> QED BY <2>1, <2>2, <2>4 DEF Next
<1> QED BY <1>1, <1>2, InvAlways, PTL DEF Spec, ImplementsLifecycle, Abstract!LifecycleSpec

(* The stages of all trades: what TradeLifecycle sees.                      *)
Lives == [t \in Trades |-> Stage(t)]

SlotsKept == Lives \in [Trades -> Abstract!Stages] /\ Cardinality(Abstract!Held) <= MaxOpen

(* An element more counts for one at most.                                  *)
LEMMA OneMore ==
    ASSUME NEW S, IsFiniteSet(S), NEW e
    PROVE  Cardinality(S \cup {e}) \in Nat /\ Cardinality(S \cup {e}) <= Cardinality(S) + 1
<1>1. Cardinality(S) \in Nat
  BY FS_CardinalityType
<1>2. e \in S => S \cup {e} = S
  OBVIOUS
<1>3. e \notin S => Cardinality(S \cup {e}) = Cardinality(S) + 1
  BY FS_AddElement
<1> QED BY <1>1, <1>2, <1>3

LEMMA EnterKeepsSlots ==
    ASSUME SlotsKept, NEW t \in Trades, Abstract!Enter(t)
    PROVE  SlotsKept'
<1>1. Lives' = [Lives EXCEPT ![t] = "held"]
  BY DEF Abstract!Enter, Lives
<1>2. Lives' \in [Trades -> Abstract!Stages]
  BY <1>1 DEF SlotsKept, Abstract!Stages
<1>3. IsFiniteSet(Trades) /\ Abstract!Held \in SUBSET Trades
  BY BoundsAssumption, FS_Interval DEF Trades, Abstract!Held
<1>4. IsFiniteSet(Abstract!Held) /\ Cardinality(Abstract!Held) \in Nat
  BY <1>3, FS_Subset, FS_CardinalityType
<1>5. Abstract!Held' = Abstract!Held \cup {t}
  BY <1>1 DEF Abstract!Held, Lives, SlotsKept, Abstract!Stages
<1>6. Cardinality(Abstract!Held') \in Nat /\ Cardinality(Abstract!Held') <= Cardinality(Abstract!Held) + 1
  BY <1>4, <1>5, OneMore
<1>7. Cardinality(Abstract!Held) < MaxOpen
  <2>1. Abstract!Cardinality(Abstract!Held) = Cardinality(Abstract!Held)
    BY Zenon DEF Abstract!Cardinality, Cardinality
  <2> QED BY <2>1 DEF Abstract!Enter
<1>8. MaxOpen \in Nat
  BY CostsAssumption
<1>9. Cardinality(Abstract!Held') <= MaxOpen
  BY <1>4, <1>6, <1>7, <1>8
<1> QED BY <1>2, <1>9 DEF SlotsKept

LEMMA SettleKeepsSlots ==
    ASSUME SlotsKept, NEW t \in Trades, Abstract!Settle(t)
    PROVE  SlotsKept'
<1>1. Lives' = [Lives EXCEPT ![t] = "settled"]
  BY DEF Abstract!Settle, Lives
<1>2. Lives' \in [Trades -> Abstract!Stages]
  BY <1>1 DEF SlotsKept, Abstract!Stages
<1>3. IsFiniteSet(Trades) /\ Abstract!Held \in SUBSET Trades
  BY BoundsAssumption, FS_Interval DEF Trades, Abstract!Held
<1>4. IsFiniteSet(Abstract!Held)
  BY <1>3, FS_Subset
<1>5. Abstract!Held' \in SUBSET Abstract!Held
  BY <1>1 DEF Abstract!Held, Lives, SlotsKept, Abstract!Stages
<1>6. /\ Cardinality(Abstract!Held') <= Cardinality(Abstract!Held)
      /\ Cardinality(Abstract!Held') \in Nat /\ Cardinality(Abstract!Held) \in Nat
  BY <1>4, <1>5, FS_Subset, FS_CardinalityType
<1> QED BY <1>2, <1>6, CostsAssumption DEF SlotsKept

(* What every implementation of TradeLifecycle has: no more trades held     *)
(* than there are slots, and no way back from a settlement.                 *)
LEMMA LifecycleKeeps ==
    Abstract!LifecycleSpec => /\ []SlotsKept
                              /\ [][\A t \in Trades : Stage(t) = "settled" => Stage(t)' = "settled"]_Lives
<1> DEFINE A == \A t \in Trades : Stage(t) = "settled" => Stage(t)' = "settled"
<1>1. Abstract!LifecycleInit => SlotsKept
  <2> SUFFICES ASSUME Abstract!LifecycleInit PROVE SlotsKept
    OBVIOUS
  <2>1. Lives = [t \in Trades |-> "absent"]
    BY DEF Abstract!LifecycleInit, Lives
  <2>2. Abstract!Held = {}
    BY <2>1 DEF Abstract!Held, Lives
  <2> QED BY <2>1, <2>2, FS_EmptySet, CostsAssumption DEF SlotsKept, Abstract!Stages
<1>2. SlotsKept /\ [Abstract!LifecycleNext]_Lives => SlotsKept'
  <2> SUFFICES ASSUME SlotsKept, [Abstract!LifecycleNext]_Lives PROVE SlotsKept'
    OBVIOUS
  <2>1. CASE Lives' = Lives
    <3>1. Abstract!Held' = Abstract!Held
      BY <2>1 DEF Abstract!Held, Lives
    <3> QED BY <2>1, <3>1 DEF SlotsKept
  <2>2. CASE Abstract!LifecycleNext
    BY <2>2, EnterKeepsSlots, SettleKeepsSlots DEF Abstract!LifecycleNext
  <2> QED BY <2>1, <2>2
<1>3. [Abstract!LifecycleNext]_Lives => [A]_Lives
  <2> SUFFICES ASSUME Abstract!LifecycleNext PROVE A
    OBVIOUS
  <2>1. ASSUME NEW u \in Trades, Abstract!Enter(u) \/ Abstract!Settle(u),
               NEW t \in Trades, Stage(t) = "settled"
        PROVE  Stage(t)' = "settled"
    <3>1. Lives' \in {[Lives EXCEPT ![u] = "held"], [Lives EXCEPT ![u] = "settled"]}
      BY <2>1 DEF Abstract!Enter, Abstract!Settle, Lives
    <3>2. Abstract!Enter(u) => u # t
      BY <2>1 DEF Abstract!Enter
    <3>3. Lives'[t] = Stage(t)' /\ Lives[t] = Stage(t)
      BY DEF Lives
    <3>4. Abstract!Settle(u) => Lives' = [Lives EXCEPT ![u] = "settled"]
      BY DEF Abstract!Settle, Lives
    <3> QED BY <2>1, <3>1, <3>2, <3>3, <3>4 DEF Lives
  <2> QED BY <2>1 DEF Abstract!LifecycleNext
<1> QED BY <1>1, <1>2, <1>3, PTL DEF Abstract!LifecycleSpec, Lives

(* So has a replay, by its refinement: it never holds more positions than   *)
(* max_open_positions, and a closed trade is never opened again.            *)
THEOREM SlotsBounded ==
    Spec => /\ [](Cardinality(Open) <= MaxOpen)
            /\ [][\A t \in Trades : trade[t].status = "CLOSED" => trade'[t].status = "CLOSED"]_trade
<1> DEFINE A == \A t \in Trades : Stage(t) = "settled" => Stage(t)' = "settled"
           B == \A t \in Trades : trade[t].status = "CLOSED" => trade'[t].status = "CLOSED"
<1>1. Inv /\ SlotsKept => Cardinality(Open) <= MaxOpen
  <2>1. Inv => Abstract!Held = Open
    BY DEF Abstract!Held, Stage, Open, Inv, TypeOK, TradeRow
  <2> QED BY <2>1 DEF SlotsKept
<1>2. [A]_Lives => [B]_trade
  <2> SUFFICES ASSUME [A]_Lives, NEW t \in Trades, trade[t].status = "CLOSED"
               PROVE  trade'[t].status = "CLOSED"
    OBVIOUS
  <2>1. Stage(t)' = "settled"
    <3>1. Stage(t) = "settled"
      BY DEF Stage
    <3>2. Lives[t] = Stage(t) /\ Lives'[t] = Stage(t)'
      BY DEF Lives
    <3> QED BY <3>1, <3>2
  <2> QED BY <2>1 DEF Stage
<1> QED BY <1>1, <1>2, InvAlways, Refinement, LifecycleKeeps, PTL DEF ImplementsLifecycle

-----------------------------------------------------------------------------
(* Running sums                                                            *)

LEMMA LeastNat ==
    ASSUME NEW S \in SUBSET Nat, S # {}
    PROVE  \E x \in S : \A y \in S : x <= y
<1>1. PICK x \in S : \A y \in S : ~(<<y, x>> \in OpToRel(<, Nat))
  BY NatLessThanWellFounded, WFMin, Zenon
<1>2. \A y \in S : ~(y < x)
  BY <1>1 DEF OpToRel
<1> QED BY <1>2

(* What holds of 0 and of the next number holds up to MaxTrades: a set      *)
(* without what fails.                                                     *)
LEMMA AllUpTo ==
    ASSUME NEW G \in SUBSET (0 .. MaxTrades), 0 \in G,
           \A n \in 1 .. MaxTrades : n - 1 \in G => n \in G
    PROVE  G = 0 .. MaxTrades
<1> DEFINE B == (0 .. MaxTrades) \ G
<1> SUFFICES ASSUME B # {} PROVE FALSE
  OBVIOUS
<1>1. B \in SUBSET Nat
  BY BoundsAssumption
<1>2. \E n \in B : \A m \in B : n <= m
  <2> HIDE DEF B
  <2> QED BY <1>1, LeastNat
<1>3. PICK n \in B : \A m \in B : n <= m
  BY <1>2
<1>4. n \in 1 .. MaxTrades /\ n - 1 \in 0 .. MaxTrades
  BY BoundsAssumption
<1>5. n - 1 \notin B
  BY <1>3, <1>4
<1> QED BY <1>4, <1>5

Sums(g, f) == f = [n \in 0 .. MaxTrades |-> IF n = 0 THEN 0 ELSE f[n - 1] + g[n]]

LEMMA SumsAt ==
    ASSUME NEW g, NEW f, Sums(g, f)
    PROVE  /\ DOMAIN f = 0 .. MaxTrades /\ f = [n \in 0 .. MaxTrades |-> f[n]] /\ f[0] = 0
           /\ \A n \in 1 .. MaxTrades : f[n] = f[n - 1] + g[n]
<1>1. 0 \in 0 .. MaxTrades /\ \A n \in 1 .. MaxTrades : n \in 0 .. MaxTrades /\ n # 0
  BY BoundsAssumption
<1> QED BY <1>1 DEF Sums

LEMMA SumsExist == ASSUME NEW g \in [Trades -> Int] PROVE \E f : Sums(g, f)
<1> DEFINE Upto(f, k) == f[0] = 0 /\ \A n \in 1 .. k : f[n] = f[n - 1] + g[n]
           G == {k \in 0 .. MaxTrades : \E f \in [0 .. MaxTrades -> Int] : Upto(f, k)}
<1>1. 0 \in G
  <2>1. [n \in 0 .. MaxTrades |-> 0] \in [0 .. MaxTrades -> Int]
    OBVIOUS
  <2>2. Upto([n \in 0 .. MaxTrades |-> 0], 0) /\ 0 \in 0 .. MaxTrades
    BY BoundsAssumption
  <2> QED BY <2>1, <2>2
<1>2. ASSUME NEW k \in 1 .. MaxTrades, k - 1 \in G PROVE k \in G
  <2>1. PICK f \in [0 .. MaxTrades -> Int] : Upto(f, k - 1)
    BY <1>2
  <2> DEFINE h == [f EXCEPT ![k] = f[k - 1] + g[k]]
  <2>2. k \in 0 .. MaxTrades /\ k - 1 \in 0 .. MaxTrades /\ k \in Trades
    BY BoundsAssumption DEF Trades
  <2>3. h \in [0 .. MaxTrades -> Int]
    BY <2>2
  <2>4. h[0] = 0 /\ \A n \in 1 .. k - 1 : h[n] = f[n] /\ h[n - 1] = f[n - 1]
    BY <2>1, <2>2, BoundsAssumption
  <2>5. h[k] = h[k - 1] + g[k]
    BY <2>2
  <2> HIDE DEF h
  <2>6. Upto(h, k)
    BY <2>1, <2>4, <2>5
  <2> QED BY <2>2, <2>3, <2>6
<1> HIDE DEF G
<1>3. MaxTrades \in G
  <2>1. G \in SUBSET (0 .. MaxTrades)
    BY DEF G
  <2> QED BY <1>1, <1>2, <2>1, AllUpTo, BoundsAssumption
<1>4. PICK f \in [0 .. MaxTrades -> Int] : Upto(f, MaxTrades)
  BY <1>3 DEF G
<1>5. f = [n \in 0 .. MaxTrades |-> IF n = 0 THEN 0 ELSE f[n - 1] + g[n]]
  <2>1. \A n \in 0 .. MaxTrades : n = 0 \/ n \in 1 .. MaxTrades
    OBVIOUS
  <2> QED BY <1>4, <2>1
<1> QED BY <1>5 DEF Sums

LEMMA SumsAreInt ==
    ASSUME NEW g \in [Trades -> Int], NEW f, Sums(g, f)
    PROVE  \A n \in 0 .. MaxTrades : f[n] \in Int
<1> DEFINE G == {n \in 0 .. MaxTrades : f[n] \in Int}
<1>1. 0 \in G
  BY SumsAt, BoundsAssumption
<1>2. ASSUME NEW n \in 1 .. MaxTrades, n - 1 \in G PROVE n \in G
  <2>1. f[n] = f[n - 1] + g[n] /\ n \in 0 .. MaxTrades
    BY SumsAt
  <2>2. n \in Trades
    BY DEF Trades
  <2> QED BY <1>2, <2>1, <2>2
<1>3. G = 0 .. MaxTrades
  <2> HIDE DEF G
  <2>1. G \in SUBSET (0 .. MaxTrades)
    BY DEF G
  <2> QED BY <1>1, <1>2, <2>1, AllUpTo
<1> QED BY <1>3

(* One summand more or less. *)
LEMMA SumsDiffer ==
    ASSUME NEW g \in [Trades -> Int], NEW h \in [Trades -> Int], NEW t \in Trades,
           \A u \in Trades \ {t} : h[u] = g[u],
           NEW f, Sums(g, f), NEW e, Sums(h, e)
    PROVE  e[MaxTrades] = f[MaxTrades] + h[t] - g[t]
<1> DEFINE G == {n \in 0 .. MaxTrades : e[n] = f[n] + (IF n < t THEN 0 ELSE h[t] - g[t])}
<1>1. t \in Nat /\ 0 < t /\ t <= MaxTrades /\ h[t] \in Int /\ g[t] \in Int
  BY DEF Trades
<1>2. 0 \in G
  BY <1>1, SumsAt, BoundsAssumption
<1>3. ASSUME NEW n \in 1 .. MaxTrades, n - 1 \in G PROVE n \in G
  <2>1. e[n] = e[n - 1] + h[n] /\ f[n] = f[n - 1] + g[n] /\ n \in Trades
    BY SumsAt DEF Trades
  <2>2. e[n - 1] \in Int /\ f[n - 1] \in Int /\ h[n] \in Int /\ g[n] \in Int
    <3>1. n - 1 \in 0 .. MaxTrades
      BY BoundsAssumption
    <3> QED BY <2>1, <3>1, SumsAreInt
  <2>3. e[n - 1] = f[n - 1] + (IF n - 1 < t THEN 0 ELSE h[t] - g[t])
    BY <1>3
  <2>4. CASE n = t
    BY <1>1, <2>1, <2>2, <2>3, <2>4
  <2>5. CASE n # t
    <3>1. h[n] = g[n]
      BY <2>1, <2>5
    <3>2. n - 1 < t <=> n < t
      BY <1>1, <2>5
    <3> QED BY <1>1, <2>1, <2>2, <2>3, <3>1, <3>2
  <2> QED BY <2>4, <2>5
<1>4. MaxTrades \in G
  <2> HIDE DEF G
  <2>1. G \in SUBSET (0 .. MaxTrades)
    BY DEF G
  <2> QED BY <1>2, <1>3, <2>1, AllUpTo, BoundsAssumption
<1> QED BY <1>1, <1>4, SumsAreInt, BoundsAssumption

LEMMA SumsOfNothing ==
    ASSUME NEW g, \A u \in Trades : g[u] = 0, NEW f, Sums(g, f)
    PROVE  f[MaxTrades] = 0
<1> DEFINE G == {n \in 0 .. MaxTrades : f[n] = 0}
<1>1. 0 \in G
  BY SumsAt, BoundsAssumption
<1>2. ASSUME NEW n \in 1 .. MaxTrades, n - 1 \in G PROVE n \in G
  BY <1>2, SumsAt DEF Trades
<1>3. MaxTrades \in G
  <2> HIDE DEF G
  <2>1. G \in SUBSET (0 .. MaxTrades)
    BY DEF G
  <2> QED BY <1>1, <1>2, <2>1, AllUpTo, BoundsAssumption
<1> QED BY <1>3

-----------------------------------------------------------------------------
(* The accounts                                                            *)

Summands(rows) == [t \in Trades |-> Unbooked(rows[t])]

LEMMA TotalIsSum ==
    ASSUME NEW rows, Summands(rows) \in [Trades -> Int]
    PROVE  \E f : Sums(Summands(rows), f) /\ UnbookedTotal(rows) = f[MaxTrades]
<1> DEFINE Is(f) == f = [n \in 0 .. MaxTrades |->
                            IF n = 0 THEN 0 ELSE f[n - 1] + Unbooked(rows[n])]
<1>1. \A f : Is(f) <=> Sums(Summands(rows), f)
  <2>1. \A n \in 0 .. MaxTrades : n # 0 => Summands(rows)[n] = Unbooked(rows[n])
    BY BoundsAssumption DEF Summands, Trades
  <2> QED BY <2>1 DEF Sums
<1>2. \E f : Is(f)
  BY <1>1, SumsExist
<1>3. Is(CHOOSE f : Is(f))
  BY <1>2
<1>4. UnbookedTotal(rows) = (CHOOSE f : Is(f))[MaxTrades]
  BY DEF UnbookedTotal
<1> QED BY <1>1, <1>3, <1>4

LEMMA UnbookedType == ASSUME NEW r \in TradeRow PROVE Unbooked(r) \in Int
  BY SizeAssumption DEF Unbooked, TradeRow

LEMMA TotalChanges ==
    ASSUME NEW rows \in [Trades -> TradeRow], NEW t \in Trades, NEW r \in TradeRow
    PROVE  /\ UnbookedTotal(rows) \in Int
           /\ UnbookedTotal([rows EXCEPT ![t] = r]) = UnbookedTotal(rows) + Unbooked(r) - Unbooked(rows[t])
<1> DEFINE g == Summands(rows)
           h == Summands([rows EXCEPT ![t] = r])
<1>1. /\ g \in [Trades -> Int] /\ h \in [Trades -> Int]
      /\ g[t] = Unbooked(rows[t]) /\ h[t] = Unbooked(r) /\ \A u \in Trades \ {t} : h[u] = g[u]
  BY UnbookedType DEF Summands
<1>2. PICK f : Sums(g, f) /\ UnbookedTotal(rows) = f[MaxTrades]
  BY <1>1, TotalIsSum
<1>3. PICK e : Sums(h, e) /\ UnbookedTotal([rows EXCEPT ![t] = r]) = e[MaxTrades]
  BY <1>1, TotalIsSum
<1> HIDE DEF g, h
<1>4. f[MaxTrades] \in Int
  BY <1>1, <1>2, SumsAreInt, BoundsAssumption
<1>5. e[MaxTrades] = f[MaxTrades] + h[t] - g[t]
  BY <1>1, <1>2, <1>3, SumsDiffer
<1> QED BY <1>1, <1>2, <1>3, <1>4, <1>5

LEMMA NothingOpen ==
    ASSUME NEW rows \in [Trades -> TradeRow], \A t \in Trades : rows[t].status # "OPEN"
    PROVE  UnbookedTotal(rows) = 0
<1>1. Summands(rows) \in [Trades -> Int] /\ \A t \in Trades : Summands(rows)[t] = 0
  BY DEF Summands, Unbooked
<1> QED BY <1>1, TotalIsSum, SumsOfNothing

(* What a position would bring beyond what is booked of it.                *)
Worth(r) == r.gross - r.fees - r.funding - r.dir * r.entry * r.size

LEMMA TouchedWorth ==
    ASSUME Inv, NEW r \in TradeRow
    PROVE  Worth(Touched(r)) = Worth(r) - FundingDue(r) /\ Touched(r).pnl = r.pnl
<1> DEFINE q == AccrueFunding([r EXCEPT !.held = r.held + 1])
           due == FundingDue([r EXCEPT !.held = r.held + 1])
<1>1. due = FundingDue(r) /\ due \in Int
  BY DEF FundingDue, Inv, TypeOK, TradeRow
<1>2. /\ q.gross = r.gross /\ q.fees = r.fees /\ q.funding = r.funding + due /\ q.pnl = r.pnl
      /\ q.dir = r.dir /\ q.entry = r.entry /\ q.size = r.size
      /\ DOMAIN q = DOMAIN r
  BY DEF AccrueFunding, TradeRow
<1> HIDE DEF q, due
<1>3. Touched(r) = UpdateTrailingStop(q)
  BY DEF Touched, q
<1>4. /\ Touched(r).gross = q.gross /\ Touched(r).fees = q.fees /\ Touched(r).funding = q.funding
      /\ Touched(r).pnl = q.pnl /\ Touched(r).dir = q.dir /\ Touched(r).entry = q.entry
      /\ Touched(r).size = q.size
  BY <1>2, <1>3 DEF UpdateTrailingStop, TradeRow
<1>5. r.gross \in Int /\ r.fees \in Int /\ r.funding \in Int /\ r.dir * r.entry * r.size \in Int
  BY SizeAssumption DEF TradeRow
<1> QED BY <1>1, <1>2, <1>4, <1>5 DEF Worth

(* A leg is worth its price and costs its fee. *)
LEMMA LegWorth ==
    ASSUME NEW r \in TradeRow, NEW price \in Int, NEW qty \in 0 .. r.size
    PROVE  /\ Worth(Leg(r, price, qty)) = Worth(r) + r.dir * price * qty - FeeOf(price, qty)
           /\ Leg(r, price, qty).pnl = r.pnl
<1> DEFINE fee == FeeOf(price, qty)
           q   == Leg(r, price, qty)
<1>1. /\ r.gross \in Int /\ r.fees \in Int /\ r.funding \in Int /\ r.entry \in Int
      /\ r.size \in Int /\ r.dir \in {1, -1} /\ qty \in Int
  BY SizeAssumption DEF TradeRow
<1>2. fee \in Int
  BY <1>1, CostsAssumption DEF FeeOf
<1> HIDE DEF fee
<1>3. /\ q.gross = r.gross + r.dir * (price - r.entry) * qty /\ q.fees = r.fees + fee
      /\ q.funding = r.funding /\ q.dir = r.dir /\ q.entry = r.entry /\ q.size = r.size - qty
      /\ q.pnl = r.pnl
  BY DEF Leg, TradeRow, fee
<1> HIDE DEF q
<1> DEFINE profit == r.dir * (price - r.entry) * qty
           before == r.dir * r.entry * r.size
           after  == r.dir * r.entry * (r.size - qty)
           paid   == r.dir * price * qty
<1>4. profit - after = paid - before
  <2>1. CASE r.dir = 1
    BY <1>1, <2>1
  <2>2. CASE r.dir = -1
    BY <1>1, <2>2
  <2> QED BY <1>1, <2>1, <2>2
<1>5. profit \in Int /\ before \in Int /\ after \in Int /\ paid \in Int
  BY <1>1
<1>6. /\ q.gross = r.gross + profit /\ q.dir * q.entry * q.size = after
      /\ r.dir * r.entry * r.size = before
  BY <1>3
<1>7. r.gross \in Int /\ r.fees \in Int /\ r.funding \in Int
  BY <1>1
<1> HIDE DEF profit, before, after, paid
<1>8. /\ Worth(q) = r.gross + profit - (r.fees + fee) - r.funding - after
      /\ Worth(r) = r.gross - r.fees - r.funding - before
  <2>1. Worth(q) = q.gross - q.fees - q.funding - q.dir * q.entry * q.size
    BY DEF Worth
  <2>2. Worth(r) = r.gross - r.fees - r.funding - r.dir * r.entry * r.size
    BY DEF Worth
  <2>3. q.fees = r.fees + fee /\ q.funding = r.funding
    BY <1>3
  <2> QED BY <1>2, <1>5, <1>6, <1>7, <2>1, <2>2, <2>3
<1>9. Worth(q) = Worth(r) + paid - fee
  BY <1>2, <1>4, <1>5, <1>7, <1>8
<1> QED BY <1>3, <1>9 DEF q, fee, paid

LEMMA SettledWorth ==
    ASSUME NEW r \in TradeRow, NEW price \in Int, NEW why, NEW q, q = Settled(r, price, why)
    PROVE  /\ q.status = "CLOSED"
           /\ q.pnl = Worth(r) + r.dir * price * r.size - FeeOf(price, r.size)
<1> DEFINE l == Leg(r, price, r.size)
<1>1. /\ q.status = "CLOSED" /\ q.pnl = l.gross - l.fees - l.funding
      /\ l.size = r.size - r.size /\ l.dir = r.dir /\ l.entry = r.entry
      /\ l.gross = r.gross + r.dir * (price - r.entry) * r.size
      /\ l.fees = r.fees + FeeOf(price, r.size) /\ l.funding = r.funding
  BY DEF Settled, Leg, TradeRow
<1>2. r.size \in 0 .. r.size /\ r.size \in Int /\ r.dir \in {1, -1} /\ r.entry \in Int
      /\ r.gross \in Int /\ r.fees \in Int /\ r.funding \in Int
  BY SizeAssumption DEF TradeRow
<1>3. FeeOf(price, r.size) \in Int
  BY <1>2, CostsAssumption DEF FeeOf
<1>4. Worth(l) = Worth(r) + r.dir * price * r.size - FeeOf(price, r.size)
  BY <1>2, LegWorth
<1> HIDE DEF l
<1>5. Worth(l) = l.gross - l.fees - l.funding
  <2>1. l.size = 0 /\ r.dir * r.entry * 0 = 0
    BY <1>1, <1>2
  <2>2. l.gross \in Int /\ l.fees \in Int /\ l.funding \in Int
    BY <1>1, <1>2, <1>3
  <2> QED BY <1>1, <2>1, <2>2 DEF Worth
<1> QED BY <1>1, <1>4, <1>5

(* What the loop over the open positions still has to look at, and what an  *)
(* open position has not booked.                                           *)
Unsettled == \A t \in Trades : trade[t].status = "OPEN" => trade[t].pnl = 0

Ended ==
    /\ pc = "ending" => Open \subseteq todo
    /\ pc = "done" => Open = {}

Booked == cash = equity + UnbookedTotal(trade)

AccountInv == Unsettled /\ Ended /\ Booked

LEMMA WorthIsUnbooked ==
    ASSUME NEW r \in TradeRow
    PROVE  /\ r.status = "OPEN" => Unbooked(r) = Worth(r)
           /\ r.status # "OPEN" => Unbooked(r) = 0
           /\ Worth(r) \in Int
  BY SizeAssumption DEF Unbooked, Worth, TradeRow

(* One fill, or none: cash changes by what it pays, equity by what it books. *)
LEMMA RowBooked ==
    ASSUME Inv, AccountInv, NEW t \in Trades, NEW r \in TradeRow, trade' = [trade EXCEPT ![t] = r],
           r.status = "OPEN" => r.pnl = 0,
           cash' - cash = equity' - equity + Unbooked(r) - Unbooked(trade[t]),
           cash' \in Int, equity' \in Int
    PROVE  Unsettled' /\ Booked'
<1>1. Unsettled'
  BY DEF AccountInv, Unsettled, Inv, TypeOK
<1>2. /\ UnbookedTotal(trade) \in Int
      /\ UnbookedTotal(trade') = UnbookedTotal(trade) + Unbooked(r) - Unbooked(trade[t])
  BY TotalChanges DEF Inv, TypeOK
<1>3. Unbooked(r) \in Int /\ Unbooked(trade[t]) \in Int /\ cash \in Int /\ equity \in Int
      /\ cash = equity + UnbookedTotal(trade)
  BY UnbookedType DEF Inv, TypeOK, AccountInv, Booked
<1>4. cash' = equity' + UnbookedTotal(trade')
  BY <1>2, <1>3
<1> QED BY <1>1, <1>4 DEF Booked

LEMMA ExitBooked ==
    ASSUME Inv, Inv', AccountInv, NEW t \in Trades, CloseIfNeeded(t)
    PROVE  AccountInv'
<1> DEFINE r     == Touched(trade[t])
           exit  == EvaluateExit(r)
           price == ExitFill(r, exit.price)
           qty   == CASE exit.reason = "none" -> 0
                      [] exit.reason = "TP_PARTIAL" -> PartialSize
                      [] OTHER -> r.size
           next  == CASE exit.reason = "none" -> r
                      [] exit.reason = "TP_PARTIAL" -> TakePartial(r, price)
                      [] OTHER -> Settled(r, price, exit.reason)
           due   == FundingDue(trade[t])
<1>1. /\ trade' = [trade EXCEPT ![t] = next] /\ pc = "exits" /\ pc' = "exits"
      /\ equity' = equity + next.pnl
      /\ cash' = cash - due + r.dir * price * qty - FeeOf(price, qty)
  BY DEF CloseIfNeeded, Touched
<1>2. /\ trade[t] \in TradeRow /\ Sound(trade[t]) /\ trade[t].status = "OPEN" /\ trade[t].pnl = 0
      /\ due \in Int
  <2>1. t \in todo /\ todo \subseteq Open
    BY DEF CloseIfNeeded, IsNext, Inv, TypeOK
  <2>2. trade[t].status = "OPEN"
    BY <2>1 DEF Open
  <2>3. trade[t] \in TradeRow /\ Sound(trade[t])
    BY DEF Inv, TypeOK
  <2>4. trade[t].pnl = 0
    BY <2>2 DEF AccountInv, Unsettled
  <2>5. due \in Int
    <3>1. /\ trade[t].dir \in Int /\ trade[t].entry \in Int /\ trade[t].size \in Int /\ rate \in Int
          /\ due = trade[t].dir * rate * trade[t].entry * trade[t].size
      BY <2>3, SizeAssumption DEF FundingDue, TradeRow, Inv, TypeOK
    <3> QED BY <3>1
  <2> QED BY <2>2, <2>3, <2>4, <2>5
<1>3. /\ r \in TradeRow /\ Sound(r) /\ r.status = "OPEN" /\ r.pnl = 0
      /\ Worth(r) = Worth(trade[t]) - due
  BY <1>2, TouchedSound, TouchedWorth
<1> HIDE DEF r, due
<1>4. exit.price \in Int /\ (exit.reason = "TP_PARTIAL" => ~r.partial)
  BY <1>3, ExitPrices
<1>5. price \in Int
  BY <1>3, <1>4, PriceTypes
<1> HIDE DEF exit, price
<1>6. qty \in 0 .. r.size /\ r.size \in Nat
  BY <1>3, <1>4, SizeAssumption DEF TradeRow, Sound, Whole
<1>7. /\ next.pnl \in Int /\ (next.status = "OPEN" => next.pnl = 0)
      /\ Unbooked(next) + next.pnl = Worth(r) + r.dir * price * qty - FeeOf(price, qty)
  <2>1. Worth(r) \in Int /\ r.dir * price * 0 = 0 /\ FeeOf(price, 0) = 0
    BY <1>3, <1>5, WorthIsUnbooked, CostsAssumption DEF FeeOf, TradeRow
  <2>2. CASE exit.reason = "none"
    BY <1>3, <2>1, <2>2, WorthIsUnbooked
  <2>3. CASE exit.reason = "TP_PARTIAL"
    <3> DEFINE l == Leg(r, price, PartialSize)
    <3>1. qty = PartialSize /\ next = TakePartial(r, price)
      BY <2>3
    <3>2. /\ Worth(l) = Worth(r) + r.dir * price * qty - FeeOf(price, qty)
          /\ l.pnl = 0 /\ l.status = "OPEN" /\ l \in TradeRow
      BY <1>3, <1>5, <1>6, <3>1, LegWorth, LegSound
    <3> HIDE DEF l
    <3>3. /\ next.pnl = l.pnl /\ next.status = l.status /\ next.gross = l.gross
          /\ next.fees = l.fees /\ next.funding = l.funding /\ next.dir = l.dir
          /\ next.entry = l.entry /\ next.size = l.size
      BY <3>1, <3>2 DEF TakePartial, TradeRow, l
    <3>4. Unbooked(next) = Worth(l) /\ Worth(l) \in Int
      BY <3>2, <3>3, WorthIsUnbooked DEF Unbooked, Worth
    <3> QED BY <3>2, <3>3, <3>4
  <2>4. CASE exit.reason \notin {"none", "TP_PARTIAL"}
    <3>1. qty = r.size /\ next = Settled(r, price, exit.reason)
      BY <2>4
    <3>2. /\ next.status = "CLOSED"
          /\ next.pnl = Worth(r) + r.dir * price * r.size - FeeOf(price, r.size)
      BY <1>3, <1>5, <3>1, SettledWorth
    <3>3. Unbooked(next) = 0
      BY <3>2 DEF Unbooked
    <3>4. FeeOf(price, r.size) \in Int /\ r.dir * price * r.size \in Int
      BY <1>3, <1>5, <1>6, CostsAssumption DEF FeeOf, TradeRow
    <3> HIDE DEF next, qty
    <3> QED BY <2>1, <3>1, <3>2, <3>3, <3>4
  <2> QED BY <2>2, <2>3, <2>4
<1> HIDE DEF next, qty
<1>8. next \in TradeRow /\ cash' \in Int /\ equity' \in Int /\ cash \in Int /\ equity \in Int
  BY <1>1 DEF Inv, TypeOK
<1>9. cash' - cash = equity' - equity + Unbooked(next) - Unbooked(trade[t])
  <2>1. Unbooked(trade[t]) = Worth(trade[t]) /\ Worth(trade[t]) \in Int /\ Unbooked(next) \in Int
    BY <1>2, <1>8, WorthIsUnbooked, UnbookedType
  <2>2. FeeOf(price, qty) \in Int /\ r.dir * price * qty \in Int
    BY <1>3, <1>5, <1>6, CostsAssumption DEF FeeOf, TradeRow
  <2> QED BY <1>1, <1>2, <1>3, <1>7, <1>8, <2>1, <2>2
<1>10. Unsettled' /\ Booked'
  BY <1>1, <1>7, <1>8, <1>9, RowBooked
<1> QED BY <1>1, <1>10 DEF AccountInv, Ended

LEMMA EndBooked ==
    ASSUME Inv, Inv', AccountInv, NEW t \in Trades, ForceCloseRemaining(t)
    PROVE  AccountInv'
<1> DEFINE r     == trade[t]
           price == ExitFill(r, bar.close)
           next  == Settled(r, price, "END_OF_BACKTEST")
           fee   == FeeOf(price, r.size)
<1>1. /\ trade' = [trade EXCEPT ![t] = next] /\ todo' = todo \ {t} /\ pc = "ending" /\ pc' = "ending"
      /\ equity' = equity + next.pnl /\ cash' = cash + next.dir * price * r.size - fee
  BY DEF ForceCloseRemaining
<1>2. r \in TradeRow /\ r.status = "OPEN" /\ bar.close \in Int
  BY DEF Inv, TypeOK, ForceCloseRemaining, IsNext, Open
<1>3. price \in Int
  BY <1>2, PriceTypes
<1>4. next.dir = r.dir
  BY <1>2 DEF Settled, Leg, TradeRow
<1> HIDE DEF price
<1>5. next.status = "CLOSED" /\ next.pnl = Worth(r) + r.dir * price * r.size - fee
  BY <1>2, <1>3, SettledWorth
<1>6. /\ fee \in Int /\ r.dir * price * r.size \in Int /\ Worth(r) \in Int /\ Unbooked(r) = Worth(r)
      /\ Unbooked(next) = 0
  <2>1. r.size \in Int /\ r.dir \in Int
    BY <1>2 DEF TradeRow
  <2>2. fee \in Int /\ r.dir * price * r.size \in Int
    BY <1>3, <2>1, CostsAssumption DEF FeeOf
  <2>3. Unbooked(next) = 0
    BY <1>5 DEF Unbooked
  <2> QED BY <1>2, <2>2, <2>3, WorthIsUnbooked
<1> HIDE DEF next, fee
<1>7. next \in TradeRow /\ cash' \in Int /\ equity' \in Int /\ cash \in Int /\ equity \in Int
  BY <1>1 DEF Inv, TypeOK
<1>8. cash' - cash = equity' - equity + Unbooked(next) - Unbooked(trade[t])
  BY <1>1, <1>4, <1>5, <1>6, <1>7
<1>9. Unsettled' /\ Booked'
  BY <1>1, <1>5, <1>7, <1>8, RowBooked
<1>10. Ended'
  <2>1. Open' \subseteq Open \ {t}
    BY <1>1, <1>5 DEF Open, Inv, TypeOK
  <2> QED BY <1>1, <2>1 DEF Ended, AccountInv
<1> QED BY <1>9, <1>10 DEF AccountInv

LEMMA OpenBooked ==
    ASSUME Inv, Inv', AccountInv, NEW s \in Setups, OpenPosition(s)
    PROVE  AccountInv'
<1> DEFINE price == s.entry + s.dir * EntrySlip
           fee   == FeeOf(price, Size)
           row   == [NoTrade EXCEPT !.status = "OPEN", !.dir = s.dir, !.entry = price,
                                    !.stop = s.stop, !.tp = s.tp, !.size = Size, !.fees = fee]
<1> PICK t \in Trades : t = opened + 1
  BY BoundsAssumption DEF OpenPosition, Inv, TypeOK, Trades
<1>1. /\ trade' = [trade EXCEPT ![t] = row] /\ pc' = "next" /\ equity' = equity
      /\ cash' = cash - s.dir * price * Size - fee
  BY DEF OpenPosition
<1>2. trade[t].status = "none" /\ trade[t] \in TradeRow
  BY DEF Inv, TypeOK
<1>3. s.dir \in {1, -1} /\ price \in Int /\ fee \in Int /\ s.dir * price * Size \in Int
  <2>1. s.dir \in {1, -1} /\ s.entry \in Int
    BY SetupsAssumption
  <2> QED BY <2>1, CostsAssumption, SizeAssumption DEF FeeOf
<1> HIDE DEF price, fee
<1>4. /\ row.status = "OPEN" /\ row.pnl = 0 /\ row.gross = 0 /\ row.fees = fee /\ row.funding = 0
      /\ row.dir = s.dir /\ row.entry = price /\ row.size = Size
  BY DEF NoTrade
<1> HIDE DEF row
<1>5. Unbooked(row) = -fee - s.dir * price * Size
  BY <1>3, <1>4 DEF Unbooked
<1>6. row \in TradeRow /\ cash' \in Int /\ equity' \in Int /\ cash \in Int /\ equity \in Int
  BY <1>1 DEF Inv, TypeOK
<1>7. cash' - cash = equity' - equity + Unbooked(row) - Unbooked(trade[t])
  BY <1>1, <1>2, <1>3, <1>5, <1>6, WorthIsUnbooked
<1>8. Unsettled' /\ Booked'
  BY <1>1, <1>4, <1>6, <1>7, RowBooked
<1> QED BY <1>1, <1>8 DEF AccountInv, Ended

LEMMA AccountStep == ASSUME Inv, Inv', AccountInv, [Next]_vars PROVE AccountInv'
<1>1. ASSUME UNCHANGED <<trade, equity, cash>>, Ended' PROVE AccountInv'
  BY <1>1 DEF AccountInv, Unsettled, Booked
<1>2. ASSUME NEW b \in Bars, NEW due \in Rates, NextSnapshot(b, due) PROVE AccountInv'
  BY <1>1, <1>2 DEF NextSnapshot, Ended
<1>3. ASSUME NEW s \in Setups, OpenPosition(s) PROVE AccountInv'
  BY <1>3, OpenBooked
<1>4. ASSUME NEW t \in Trades, CloseIfNeeded(t) \/ ForceCloseRemaining(t) PROVE AccountInv'
  BY <1>4, ExitBooked, EndBooked
<1>5. CASE ExitsDone \/ NoEntry
  BY <1>1, <1>5 DEF ExitsDone, NoEntry, Ended
<1>6. CASE EndOfReplay
  BY <1>1, <1>6 DEF EndOfReplay, Ended, Open
<1>7. CASE Finish
  BY <1>1, <1>7 DEF Finish, AccountInv, Ended, Open
<1>8. CASE UNCHANGED vars
  BY <1>1, <1>8 DEF vars, AccountInv, Ended, Open
<1> QED BY <1>2, <1>3, <1>4, <1>5, <1>6, <1>7, <1>8 DEF Next

(* The accounts of a replay agree with the money: equity is all that fills  *)
(* and fundings paid and brought, but for what open positions have not      *)
(* booked yet, and at the end of the replay nothing is left open            *)
(* (_close_positions_if_needed, _force_close_remaining_positions).         *)
THEOREM Accounts == Spec => []EquityIsCash
<1>1. Init => AccountInv
  <2> SUFFICES ASSUME Init PROVE AccountInv
    OBVIOUS
  <2>1. trade \in [Trades -> TradeRow]
    BY InitInv DEF Inv, TypeOK
  <2>2. \A t \in Trades : trade[t].status = "none"
    BY DEF Init, NoTrade
  <2>3. UnbookedTotal(trade) = 0
    BY <2>1, <2>2, NothingOpen
  <2> QED BY <2>2, <2>3, CostsAssumption DEF Init, AccountInv, Unsettled, Ended, Booked
<1>2. Inv /\ AccountInv /\ [Next]_vars /\ Inv' => AccountInv'
  BY AccountStep
<1>3. Inv /\ AccountInv => EquityIsCash
  <2> SUFFICES ASSUME Inv, AccountInv PROVE EquityIsCash
    OBVIOUS
  <2>1. ASSUME pc = "done" PROVE Open = {} /\ cash = equity
    <3>1. Open = {}
      BY <2>1 DEF AccountInv, Ended
    <3>2. UnbookedTotal(trade) = 0
      BY <3>1, NothingOpen DEF Open, Inv, TypeOK
    <3> QED BY <3>1, <3>2 DEF AccountInv, Booked, Inv, TypeOK
  <2> QED BY <2>1 DEF AccountInv, Booked, EquityIsCash
<1> QED BY <1>1, <1>2, <1>3, InvAlways, PTL DEF Spec

-----------------------------------------------------------------------------
(* Research lab: windows *)

LEMMA Fits ==
    ASSUME NEW a \in Int, NEW s \in Nat \ {0}, NEW i \in Int
    PROVE  a \div s \in Int /\ (i <= a \div s <=> i * s <= a)
<1> DEFINE q == a \div s
<1>1. q \in Int /\ s * q <= a /\ a < s * q + s
  OBVIOUS
<1> HIDE DEF q
<1>2. ASSUME i <= q PROVE i * s <= a
  <2>1. s * i <= s * q /\ i * s = s * i
    BY <1>1, <1>2
  <2>2. s * i \in Int /\ s * q \in Int
    BY <1>1
  <2> QED BY <1>1, <2>1, <2>2
<1>3. ASSUME q + 1 <= i PROVE ~(i * s <= a)
  <2>1. s * (q + 1) <= s * i /\ i * s = s * i /\ s * (q + 1) = s * q + s
    BY <1>1, <1>3
  <2>2. s * i \in Int /\ s * q \in Int
    BY <1>1
  <2> QED BY <1>1, <2>1, <2>2
<1>4. q < i => q + 1 <= i
  BY <1>1
<1> QED BY <1>1, <1>2, <1>3, <1>4 DEF q

(* Where a window's training ends and its validation begins.                *)
Split(h, n) == (n - 1) * Protocol[h].step + Protocol[h].train

Number(h) == (LastSnapshot - Protocol[h].train - Protocol[h].validation) \div Protocol[h].step + 1

LEMMA WindowShape ==
    ASSUME NEW h \in DOMAIN Protocol
    PROVE  /\ Windows[h] = [n \in 1 .. Number(h) |-> Windows[h][n]]
           /\ \A n \in 1 .. Number(h) :
                 /\ \/ Windows[h][n].train = 0 .. Split(h, n)
                    \/ Windows[h][n].train = (n - 1) * Protocol[h].step .. Split(h, n)
                 /\ Windows[h][n].val = Split(h, n) .. Split(h, n) + Protocol[h].validation
BY DEF Windows, Split, Number

(* The number of windows: those that end within the data, and no other.     *)
LEMMA WindowsFit ==
    ASSUME NEW h \in DOMAIN Protocol
    PROVE  /\ Number(h) \in Int
           /\ \A n \in Int : /\ Split(h, n) \in Int
                             /\ n <= Number(h) <=> Split(h, n) + Protocol[h].validation <= LastSnapshot
<1> DEFINE S == Protocol[h].step
           T == Protocol[h].train
           V == Protocol[h].validation
           a == LastSnapshot - T - V
<1>1. S \in Nat \ {0} /\ T \in Nat \ {0} /\ V \in Nat \ {0} /\ LastSnapshot \in Nat /\ a \in Int
  BY WindowsAssumption, SourceAssumption
<1>2. a = LastSnapshot - T - V
  OBVIOUS
<1>3. Number(h) = a \div S + 1 /\ \A n : Split(h, n) = (n - 1) * S + T
  BY DEF Number, Split
<1> HIDE DEF S, T, V, a
<1>4. \A i \in Int : a \div S \in Int /\ (i <= a \div S <=> i * S <= a)
  BY <1>1, Fits
<1>5. Number(h) \in Int
  BY <1>3, <1>4
<1>6. ASSUME NEW n \in Int
      PROVE  /\ Split(h, n) \in Int
             /\ n <= Number(h) <=> Split(h, n) + V <= LastSnapshot
  <2>1. n - 1 \in Int /\ (n - 1) * S \in Int
    BY <1>1
  <2>2. n - 1 <= a \div S <=> (n - 1) * S <= a
    BY <1>4, <2>1
  <2>3. n <= Number(h) <=> (n - 1) * S <= a
    BY <1>3, <1>4, <2>2
  <2> QED BY <1>1, <1>2, <1>3, <2>1, <2>3
<1> QED BY <1>5, <1>6 DEF V

(* Later windows are at least a step later. *)
LEMMA SplitsApart ==
    ASSUME NEW h \in DOMAIN Protocol, NEW m \in Int, NEW n \in Int, m < n
    PROVE  Split(h, m) + Protocol[h].step <= Split(h, n)
<1> DEFINE S == Protocol[h].step
           T == Protocol[h].train
<1>1. S \in Nat \ {0} /\ T \in Nat \ {0}
  BY WindowsAssumption
<1>2. Split(h, m) = (m - 1) * S + T /\ Split(h, n) = (n - 1) * S + T
  BY DEF Split
<1> HIDE DEF S, T
<1>3. m * S <= (n - 1) * S
  <2>1. m <= n - 1
    OBVIOUS
  <2> QED BY <1>1, <2>1
<1>4. m * S = (m - 1) * S + S /\ (m - 1) * S \in Int /\ (n - 1) * S \in Int
  BY <1>1
<1> QED BY <1>1, <1>2, <1>3, <1>4 DEF S

MeetAtSplit(h) ==
    LET windows == Windows[h]
        P       == Protocol[h]
        last    == Split(h, Number(h)) + P.validation
    IN  /\ \A n \in DOMAIN windows :
              /\ windows[n].train \cup windows[n].val \subseteq Snapshots
              /\ windows[n].train \cap windows[n].val = {Split(h, n)}
              /\ \A s \in windows[n].train, t \in windows[n].val : s <= Split(h, n) /\ Split(h, n) <= t
              /\ Split(h, n) - 1 \in windows[n].train /\ Split(h, n) + 1 \in windows[n].val
        /\ \A m, n \in DOMAIN windows : m < n =>
              \A s \in windows[m].val, t \in windows[n].val :
                 /\ P.validation <= P.step => s <= t
                 /\ P.validation < P.step => s < t
        /\ P.validation = P.step =>
              \A n \in DOMAIN windows \ {1} : windows[n - 1].val \cap windows[n].val = {Split(h, n)}
        /\ DOMAIN windows # {} => last <= LastSnapshot /\ LastSnapshot < last + P.step

(* A vector is validated on what comes after its training, but for one      *)
(* snapshot: a window's training and its validation both replay the one at  *)
(* the split, and validation reaches beyond it.  Validations overlap in no  *)
(* more than a boundary snapshot when the step is no shorter than they are, *)
(* which consecutive ones share when it is as long, and in nothing when it  *)
(* is longer; every window lies within the data and the last one is the     *)
(* last that fits.  This is of the windows build_windows gives and the      *)
(* snapshots iter_snapshots replays, for every protocol and length of data. *)
THEOREM WindowsMeet == \A h \in DOMAIN Protocol : MeetAtSplit(h)
<1> SUFFICES ASSUME NEW h \in DOMAIN Protocol PROVE MeetAtSplit(h)
  OBVIOUS
<1> DEFINE N == Number(h)
           S == Protocol[h].step
           T == Protocol[h].train
           V == Protocol[h].validation
           w(n) == Windows[h][n]
           s(n) == Split(h, n)
<1>1. S \in Nat \ {0} /\ T \in Nat \ {0} /\ V \in Nat \ {0} /\ LastSnapshot \in Nat
  BY WindowsAssumption, SourceAssumption
<1>2. N \in Int /\ DOMAIN Windows[h] = 1 .. N
  BY WindowShape, WindowsFit
<1>3. \A n \in 1 .. N : /\ w(n).val = s(n) .. s(n) + V
                        /\ w(n).train = 0 .. s(n) \/ w(n).train = s(n) - T .. s(n)
  <2>1. \A n \in 1 .. N : s(n) - T = (n - 1) * S
    <3> TAKE n \in 1 .. N
    <3>1. n \in Int /\ (n - 1) * S \in Int
      BY <1>1, <1>2
    <3> QED BY <1>1, <3>1 DEF Split
  <2> QED BY <2>1, WindowShape
<1>4. \A n \in 1 .. N : s(n) \in Int /\ T <= s(n) /\ s(n) + V <= LastSnapshot
  <2> TAKE n \in 1 .. N
  <2>1. n \in Int /\ 1 <= n /\ n <= N
    BY <1>2
  <2>2. s(n) \in Int /\ s(n) + V <= LastSnapshot
    BY <2>1, WindowsFit
  <2>3. s(1) = T
    BY <1>1 DEF Split
  <2>4. n = 1 \/ s(1) + S <= s(n)
    BY <2>1, SplitsApart
  <2> HIDE DEF s
  <2> QED BY <1>1, <2>2, <2>3, <2>4
<1>5. \A m, n \in 1 .. N : m < n => s(m) + S <= s(n)
  <2> TAKE m, n \in 1 .. N
  <2>1. m \in Int /\ n \in Int
    BY <1>2
  <2> HIDE DEF N
  <2> QED BY <2>1, SplitsApart
<1>6. N \in 1 .. N => /\ s(N) + V <= LastSnapshot /\ LastSnapshot < s(N) + V + S
                      /\ s(N) = (N - 1) * S + T
  <2> SUFFICES ASSUME N \in 1 .. N PROVE /\ LastSnapshot < s(N) + V + S /\ s(N) = (N - 1) * S + T
    BY <1>4
  <2>1. ~(N + 1 <= N) /\ N + 1 \in Int
    BY <1>2
  <2>2. s(N + 1) \in Int /\ ~(s(N + 1) + V <= LastSnapshot)
    BY <2>1, WindowsFit
  <2>3. s(N + 1) = s(N) + S
    <3>1. s(N + 1) = N * S + T /\ s(N) = (N - 1) * S + T
      BY <1>2 DEF Split
    <3>2. N * S = (N - 1) * S + S /\ (N - 1) * S \in Int
      BY <1>1, <1>2
    <3> HIDE DEF s
    <3> QED BY <1>1, <1>2, <3>1, <3>2
  <2>4. s(N) = (N - 1) * S + T
    BY DEF Split
  <2>5. s(N) \in Int
    BY <1>4
  <2> HIDE DEF s
  <2> QED BY <1>1, <2>2, <2>3, <2>4, <2>5
<1> HIDE DEF s, w, N
<1>7. ASSUME NEW n \in 1 .. N
      PROVE  /\ w(n).train \cup w(n).val \subseteq Snapshots
             /\ w(n).train \cap w(n).val = {s(n)}
             /\ \A i \in w(n).train, j \in w(n).val : i <= s(n) /\ s(n) <= j
             /\ s(n) - 1 \in w(n).train /\ s(n) + 1 \in w(n).val
  <2>1. {s(n) - 1, s(n)} \subseteq w(n).train /\ {s(n), s(n) + 1} \subseteq w(n).val
    <3>1. s(n) \in Int /\ T <= s(n) /\ T \in Nat /\ T >= 1 /\ V \in Nat /\ V >= 1
      BY <1>1, <1>4
    <3>2. {s(n) - 1, s(n)} \subseteq 0 .. s(n) /\ {s(n) - 1, s(n)} \subseteq s(n) - T .. s(n)
      BY <3>1
    <3>3. {s(n), s(n) + 1} \subseteq s(n) .. s(n) + V
      BY <3>1
    <3> QED BY <1>3, <3>2, <3>3
  <2>2. \A i \in w(n).train : i \in Int /\ 0 <= i /\ i <= s(n)
    BY <1>1, <1>3, <1>4
  <2>3. \A i \in w(n).val : i \in Int /\ s(n) <= i /\ i <= LastSnapshot
    BY <1>1, <1>3, <1>4
  <2>4. w(n).train \cup w(n).val \subseteq Snapshots
    BY <1>1, <1>4, <2>2, <2>3 DEF Snapshots
  <2>5. w(n).train \cap w(n).val = {s(n)}
    BY <1>4, <2>1, <2>2, <2>3
  <2> QED BY <2>1, <2>2, <2>3, <2>4, <2>5
<1>8. ASSUME NEW m \in 1 .. N, NEW n \in 1 .. N, NEW i \in w(m).val, NEW j \in w(n).val, m < n
      PROVE  /\ V <= S => i <= j
             /\ V < S => i < j
  <2>1. s(m) + S <= s(n) /\ s(m) \in Int /\ s(n) \in Int
    BY <1>4, <1>5, <1>8
  <2>2. i \in Int /\ i <= s(m) + V /\ j \in Int /\ s(n) <= j
    BY <1>1, <1>3, <1>4
  <2> QED BY <1>1, <2>1, <2>2
<1>9. ASSUME V = S, NEW n \in (1 .. N) \ {1}
      PROVE  w(n - 1).val \cap w(n).val = {s(n)}
  <2>1. n \in 1 .. N /\ n - 1 \in 1 .. N
    BY <1>2
  <2>2. s(n) = s(n - 1) + S
    <3>1. s(n) = (n - 1) * S + T /\ s(n - 1) = (n - 1 - 1) * S + T
      BY DEF s, Split
    <3>2. (n - 1) * S = (n - 1 - 1) * S + S /\ (n - 1 - 1) * S \in Int
      BY <1>1, <1>2
    <3> QED BY <1>1, <3>1, <3>2
  <2>3. s(n) \in Int /\ s(n - 1) \in Int
    BY <1>4, <2>1
  <2>4. w(n).val = s(n) .. s(n) + V /\ w(n - 1).val = s(n - 1) .. s(n - 1) + V
    BY <1>3, <2>1
  <2> QED BY <1>1, <1>9, <2>2, <2>3, <2>4
<1>10. 1 .. N # {} => N \in 1 .. N
  BY <1>2
<1> QED BY <1>1, <1>2, <1>4, <1>6, <1>7, <1>8, <1>9, <1>10 DEF w, s, N, MeetAtSplit

-----------------------------------------------------------------------------
(* Research lab: lists *)

(* A sequence, whatever its elements are. *)
Listed(s) == s \in Seq(ToSet(s))

LEMMA ListedIn ==
    ASSUME NEW S, NEW s \in Seq(S)
    PROVE  Listed(s) /\ ToSet(s) \subseteq S
<1>1. DOMAIN s = 1 .. Len(s) /\ Len(s) \in Nat /\ s \in [1 .. Len(s) -> S]
  BY LenProperties
<1>2. s \in [1 .. Len(s) -> ToSet(s)]
  BY <1>1 DEF ToSet
<1>3. s \in Seq(ToSet(s))
  BY <1>1, <1>2, SeqDef
<1> QED BY <1>1, <1>3 DEF Listed, ToSet

LEMMA ListedLen ==
    ASSUME NEW s, Listed(s)
    PROVE  /\ Len(s) \in Nat /\ DOMAIN s = 1 .. Len(s)
           /\ \A i \in 1 .. Len(s) : s[i] \in ToSet(s)
           /\ \A x \in ToSet(s) : \E i \in 1 .. Len(s) : s[i] = x
           /\ IsFiniteSet(ToSet(s))
<1>1. DOMAIN s = 1 .. Len(s) /\ Len(s) \in Nat
  BY LenProperties DEF Listed
<1>2. s \in Surjection(1 .. Len(s), ToSet(s))
  <2>1. s \in [1 .. Len(s) -> ToSet(s)]
    BY LenProperties DEF Listed
  <2> QED BY <1>1, <2>1 DEF Surjection, ToSet
<1>3. IsFiniteSet(1 .. Len(s))
  BY <1>1, FS_Interval
<1>4. IsFiniteSet(ToSet(s))
  BY <1>2, <1>3, FS_Surjection
<1> QED BY <1>1, <1>4 DEF ToSet

LEMMA ListedEmpty == Listed(<<>>) /\ ToSet(<<>>) = {} /\ Len(<<>>) = 0
<1>1. <<>> \in Seq({}) /\ Len(<<>>) = 0
  BY EmptySeq
<1>2. ToSet(<<>>) = {}
  BY DEF ToSet
<1> QED BY <1>1, <1>2 DEF Listed

LEMMA ListedOne == ASSUME NEW x PROVE Listed(<<x>>) /\ ToSet(<<x>>) = {x} /\ Head(<<x>>) = x /\ Len(<<x>>) = 1 /\ <<x>> # <<>>
<1>1. ToSet(<<x>>) = {x}
  BY DEF ToSet
<1>2. <<x>> \in Seq({x})
  OBVIOUS
<1> QED BY <1>1, <1>2 DEF Listed

LEMMA ListedAppend ==
    ASSUME NEW s, Listed(s), NEW x
    PROVE  LET t == Append(s, x)
           IN  /\ Listed(t) /\ ToSet(t) = ToSet(s) \cup {x} /\ Len(t) = Len(s) + 1
               /\ \A i \in 1 .. Len(s) : t[i] = s[i]
               /\ t[Len(s) + 1] = x
<1> DEFINE S == ToSet(s) \cup {x}
           t == Append(s, x)
<1>1. s \in Seq(S) /\ x \in S
  BY SeqMonotonic DEF Listed
<1>2. /\ t \in Seq(S) /\ Len(t) = Len(s) + 1 /\ t[Len(s) + 1] = x
      /\ \A i \in 1 .. Len(s) : t[i] = s[i]
  BY <1>1, AppendProperties
<1>3. Listed(t) /\ ToSet(t) \subseteq S
  BY <1>2, ListedIn
<1>4. Len(s) \in Nat /\ DOMAIN t = 1 .. Len(s) + 1 /\ DOMAIN s = 1 .. Len(s)
  BY <1>2, <1>3, ListedLen
<1>5. \A y \in S : y \in ToSet(t)
  BY <1>2, <1>4 DEF ToSet
<1> QED BY <1>2, <1>3, <1>5

LEMMA ListedTail ==
    ASSUME NEW s, Listed(s), s # <<>>
    PROVE  /\ Listed(Tail(s)) /\ Len(Tail(s)) = Len(s) - 1
           /\ Head(s) \in ToSet(s) /\ Head(s) = s[1] /\ 1 \in DOMAIN s
           /\ ToSet(s) = ToSet(Tail(s)) \cup {Head(s)}
<1> DEFINE S == ToSet(s)
<1>1. /\ Tail(s) \in Seq(S) /\ Len(Tail(s)) = Len(s) - 1
      /\ \A i \in 1 .. Len(Tail(s)) : Tail(s)[i] = s[i + 1]
  BY HeadTailProperties DEF Listed
<1>2. Listed(Tail(s)) /\ ToSet(Tail(s)) \subseteq S
  BY <1>1, ListedIn
<1>3. Len(s) \in Nat /\ DOMAIN s = 1 .. Len(s) /\ DOMAIN Tail(s) = 1 .. Len(s) - 1 /\ Len(s) # 0
  <2>1. Len(s) \in Nat \ {0}
    BY EmptySeq DEF Listed
  <2> QED BY <1>1, <1>2, <2>1, ListedLen
<1>4. Head(s) = s[1]
  BY DEF Listed
<1>5. \A y \in S : y = s[1] \/ y \in ToSet(Tail(s))
  <2> SUFFICES ASSUME NEW i \in 1 .. Len(s), i # 1 PROVE s[i] \in ToSet(Tail(s))
    BY <1>3 DEF ToSet
  <2>1. i - 1 \in 1 .. Len(s) - 1 /\ Tail(s)[i - 1] = s[(i - 1) + 1] /\ (i - 1) + 1 = i
    BY <1>1, <1>3
  <2> QED BY <1>3, <2>1 DEF ToSet
<1>6. s[1] \in S
  BY <1>3 DEF ToSet
<1> QED BY <1>1, <1>2, <1>3, <1>4, <1>5, <1>6

(* Any order of a finite set is a list of its elements. *)
LEMMA ListedOrder ==
    ASSUME NEW S, IsFiniteSet(S), NEW q \in [1 .. Cardinality(S) -> S], ToSet(q) = S
    PROVE  Listed(q)
<1>1. Cardinality(S) \in Nat
  BY FS_CardinalityType
<1>2. q \in Seq(S)
  BY <1>1, SeqDef
<1> QED BY <1>2 DEF Listed

(* What holds of 0 and of every next number holds of all. *)
LEMMA Upwards ==
    ASSUME NEW G \in SUBSET Nat, 0 \in G, \A n \in G : n + 1 \in G
    PROVE  G = Nat
<1> DEFINE B == Nat \ G
<1> SUFFICES ASSUME B # {} PROVE FALSE
  OBVIOUS
<1>1. B \in SUBSET Nat
  OBVIOUS
<1>2. \E n \in B : \A m \in B : n <= m
  <2> HIDE DEF B
  <2> QED BY <1>1, LeastNat
<1>3. PICK n \in B : \A m \in B : n <= m
  BY <1>2
<1>4. n \in Nat /\ n # 0 /\ n - 1 \in Nat /\ (n - 1) + 1 = n
  BY <1>3
<1>5. n - 1 \notin B
  BY <1>3, <1>4
<1> QED BY <1>3, <1>4, <1>5

(* One of finitely many numbers is the largest. *)
LEMMA Largest ==
    ASSUME NEW n \in Nat, NEW f \in [1 .. n -> Int], NEW A \in SUBSET (1 .. n), A # {}
    PROVE  \E m \in A : \A i \in A : f[i] <= f[m]
<1> DEFINE Has(k) == \A B \in SUBSET (1 .. n) :
               B # {} /\ (\A i \in B : i <= k) => \E m \in B : \A i \in B : f[i] <= f[m]
           G == {k \in Nat : Has(k)}
<1>1. Has(0)
  <2> SUFFICES ASSUME NEW B \in SUBSET (1 .. n), NEW b \in B, \A i \in B : i <= 0 PROVE FALSE
    OBVIOUS
  <2>1. b \in 1 .. n /\ b <= 0
    OBVIOUS
  <2> QED BY <2>1
<1>2. ASSUME NEW k \in Nat, Has(k) PROVE Has(k + 1)
  <2> SUFFICES ASSUME NEW B \in SUBSET (1 .. n), B # {}, \A i \in B : i <= k + 1
               PROVE  \E m \in B : \A i \in B : f[i] <= f[m]
    OBVIOUS
  <2> DEFINE C == B \ {k + 1}
  <2>1. C \in SUBSET (1 .. n) /\ \A i \in C : i <= k
    OBVIOUS
  <2>2. CASE C = {}
    <3>1. B = {k + 1}
      BY <2>2
    <3>2. f[k + 1] \in Int
      BY <3>1
    <3> QED BY <3>1, <3>2
  <2>3. CASE C # {}
    <3>1. PICK m \in C : \A i \in C : f[i] <= f[m]
      BY <1>2, <2>1, <2>3
    <3>2. m \in B /\ \A i \in B : f[i] \in Int
      OBVIOUS
    <3>3. CASE k + 1 \in B /\ f[k + 1] > f[m]
      <4>1. \A i \in B : f[i] <= f[k + 1]
        <5> TAKE i \in B
        <5>1. i = k + 1 \/ i \in C
          OBVIOUS
        <5> HIDE DEF C
        <5> QED BY <3>1, <3>2, <3>3, <5>1
      <4> QED BY <3>3, <4>1
    <3>4. CASE ~(k + 1 \in B /\ f[k + 1] > f[m])
      <4>1. \A i \in B : f[i] <= f[m]
        <5> TAKE i \in B
        <5>1. i = k + 1 \/ i \in C
          OBVIOUS
        <5> HIDE DEF C
        <5> QED BY <3>1, <3>2, <3>4, <5>1
      <4> QED BY <3>2, <4>1
    <3> QED BY <3>3, <3>4
  <2> QED BY <2>2, <2>3
<1>3. G = Nat
  <2>1. 0 \in G /\ \A k \in G : k + 1 \in G
    <3> HIDE DEF Has
    <3> QED BY <1>1, <1>2
  <2>2. G \in SUBSET Nat
    OBVIOUS
  <2> HIDE DEF G
  <2> QED BY <2>1, <2>2, Upwards
<1>4. Has(n)
  <2> HIDE DEF Has
  <2> QED BY <1>3
<1> QED BY <1>4

Measured(e) == e.metrics.exp \in Int /\ e.metrics.pf \in Int /\ e.metrics.dd \in Int

Merit(e) == e.metrics.exp + e.metrics.pf - e.metrics.dd

LEMMA Heavier ==
    ASSUME NEW g, NEW f, Measured(g), Measured(f), Dominates(g, f)
    PROVE  Merit(g) > Merit(f) /\ Merit(g) \in Int /\ Merit(f) \in Int
BY DEF Measured, Merit, Dominates

LEMMA Transitive ==
    ASSUME NEW g, NEW f, NEW e, Measured(g), Measured(f), Measured(e), Dominates(g, f), Dominates(f, e)
    PROVE  Dominates(g, e)
BY DEF Measured, Dominates

(* Every accepted trial of a study is on the frontier or dominated by one that is. *)
LEMMA FrontierDominates ==
    ASSUME NEW s, Listed(s), \A e \in ToSet(s) : e.metrics \in Results,
           NEW e \in ToSet(s), e.accepted
    PROVE  \E f \in Frontier(ToSet(s)) : f = e \/ Dominates(f, e)
<1> DEFINE n == Len(s)
           w == [i \in 1 .. n |-> Merit(s[i])]
           A == {i \in 1 .. n : s[i].accepted /\ (s[i] = e \/ Dominates(s[i], e))}
<1>1. n \in Nat /\ \A x \in ToSet(s) : \E i \in 1 .. n : s[i] = x
  BY ListedLen
<1>2. \A x \in ToSet(s) : Measured(x)
  BY DEF Results, Measured
<1>3. \A i \in 1 .. n : s[i] \in ToSet(s)
  BY ListedLen
<1>4. w \in [1 .. n -> Int]
  <2> SUFFICES ASSUME NEW i \in 1 .. n PROVE Merit(s[i]) \in Int
    OBVIOUS
  <2> HIDE DEF n
  <2>1. s[i] \in ToSet(s)
    BY <1>3
  <2> QED BY <1>2, <2>1 DEF Measured, Merit
<1>5. A \in SUBSET (1 .. n)
  OBVIOUS
<1>6. A # {}
  <2>1. PICK i \in 1 .. n : s[i] = e
    BY <1>1
  <2>2. i \in A
    BY <2>1
  <2> QED BY <2>2
<1>7. \E m \in A : \A i \in A : w[i] <= w[m]
  <2> HIDE DEF A, w, n
  <2> QED BY <1>1, <1>4, <1>5, <1>6, Largest
<1>8. PICK m \in A : \A i \in A : w[i] <= w[m]
  BY <1>7
<1> DEFINE f == s[m]
<1>9. f \in ToSet(s) /\ f.accepted /\ (f = e \/ Dominates(f, e))
  BY <1>3
<1>10. ASSUME NEW g \in ToSet(s), g.accepted, Dominates(g, f) PROVE FALSE
  <2>1. PICK i \in 1 .. n : s[i] = g
    BY <1>1
  <2>2. Measured(g) /\ Measured(f) /\ Measured(e)
    <3> HIDE DEF f
    <3> QED BY <1>2, <1>9, <1>10
  <2>3. Merit(g) > Merit(f) /\ Merit(g) \in Int /\ Merit(f) \in Int
    <3> HIDE DEF f
    <3> QED BY <2>2, <1>10, Heavier
  <2>4. i \in A
    <3>1. Dominates(g, e)
      <4> HIDE DEF f
      <4>1. CASE f = e
        BY <1>10, <4>1
      <4>2. CASE Dominates(f, e)
        BY <1>10, <2>2, <4>2, Transitive
      <4> QED BY <1>9, <4>1, <4>2
    <3> QED BY <1>10, <2>1, <3>1
  <2>5. w[i] <= w[m] /\ w[i] = Merit(g) /\ w[m] = Merit(f)
    BY <1>8, <2>1, <2>4
  <2> HIDE DEF w, A, f
  <2> QED BY <2>3, <2>5
<1>11. f \in Frontier(ToSet(s))
  <2> HIDE DEF f
  <2> QED BY <1>9, <1>10 DEF Frontier
<1> QED BY <1>9, <1>11

-----------------------------------------------------------------------------
(* The research lab's invariant *)

(* A job has the fields of an idle one. *)
Formed(j) ==
    j = [at |-> j.at, cmd |-> j.cmd, h |-> j.h, window |-> j.window, queue |-> j.queue, evals |-> j.evals,
         champions |-> j.champions, todo |-> j.todo, report |-> j.report, results |-> j.results]

Shape ==
    /\ Formed(job)
    /\ job.window \in Nat /\ data \in 1 .. MaxData
    /\ job.at \in {"study", "nested"} => job.cmd = "optimize"
    /\ job.at = "nested" => job.window > 0
    /\ job.at = "recommend" => job.cmd # "autoresearch"
    /\ Listed(job.evals) /\ Listed(job.champions) /\ Listed(job.todo) /\ Listed(job.results)

(* The trials of the running study are stored, numbered as they were saved. *)
StudyStored ==
    \A n \in DOMAIN job.evals :
        /\ job.evals[n].id = <<"trial", job.window, n - 1>>
        /\ job.evals[n].id \in DOMAIN trials
        /\ job.window = 0 => job.evals[n].metrics \in Results

(* What a candidate's recommendation will rest on is stored before. *)
CandidatesStored ==
    /\ job.at \in {"walk", "recommend"} =>
           \A e \in ToSet(job.todo) : e.id[1] # "nested" => e.id \in DOMAIN trials
    /\ job.at = "recommend" => job.todo # <<>> /\ Head(job.todo).id \in DOMAIN reports
    /\ job.at = "publish" => ToSet(job.todo) \subseteq ToSet(job.results)
    /\ \A r \in ToSet(job.results) : r.eval.id \in DOMAIN trials /\ r.eval.id \in DOMAIN reports

(* Of the frontier, what is not recommended yet is still to come. *)
FrontierKept ==
    job.cmd = "optimize" /\ job.window = 0 /\ job.at \in {"walk", "recommend"} =>
        /\ ToSet(job.todo) \subseteq ToSet(job.evals)
        /\ \A e \in Frontier(ToSet(job.evals)) :
               e \in ToSet(job.todo) \/ (e.id \in DOMAIN recs /\ recs[e.id].settings = Config[e.params])

(* A replayed candidate is the stored trial, and its report is about it. *)
VerdictGrounds ==
    job.cmd = "replay" /\ job.at \in {"walk", "recommend"} /\ job.todo # <<>> =>
        /\ Len(job.todo) = 1 /\ trials[Head(job.todo).id] = Row(Head(job.todo))
        /\ job.at = "walk" => Head(job.todo).protocol = job.h
        /\ job.at = "recommend" => /\ reports[Head(job.todo).id] = job.report
                                   /\ job.report.params = Head(job.todo).params
                                   /\ job.report.protocol = Head(job.todo).protocol

(* The results of an autoresearch are judged, ranked, then recommended. *)
ResultsJudged ==
    /\ \A r \in ToSet(job.results) : r.eval.metrics.exp \in Int /\ (r.report.passed => ~r.report.fragile)
    /\ job.at = "research" => job.cmd = "autoresearch"
    /\ job.cmd = "autoresearch" => Listed(job.queue) /\ ToSet(job.queue) \subseteq Valid
    /\ job.cmd = "autoresearch" /\ job.at = "walk" =>
           \A e \in ToSet(job.todo) : e.metrics.exp \in Int /\ e.id \in DOMAIN trials
    /\ job.at = "publish" =>
           /\ \A i, j \in DOMAIN job.results :
                  i < j => ~ResultPrecedes(job.results[j], job.results[i])
           /\ \A r \in ToSet(job.results) : r \in ToSet(job.todo) \/ r.eval.id \in DOMAIN recs

LabInv ==
    /\ Shape /\ StudyStored /\ CandidatesStored /\ EvidenceComplete
    /\ FrontierKept /\ NestedSelectionPassed /\ VerdictGrounds /\ ResultsJudged

-----------------------------------------------------------------------------
(* Tables, replays and rankings *)

LEMMA WholeRange ==
    ASSUME Shape, NEW p \in Valid PROVE Metrics(p, data, Snapshots) \in Results
<1>1. Snapshots \in Ranges
  BY DEF Ranges
<1>2. p \in Params /\ data \in 1 .. MaxData
  BY VectorsAssumption DEF Shape
<1> QED BY <1>1, <1>2, EvaluationsAssumption

LEMMA RankedTrials ==
    ASSUME NEW S, IsFiniteSet(S), NEW q \in Ranked(S)
    PROVE  Listed(q) /\ ToSet(q) = S
BY ListedOrder DEF Ranked, Rankings

LEMMA ChampionsListed ==
    ASSUME Shape, NEW q \in Champions
    PROVE  Listed(q) /\ ToSet(q) = Frontier(ToSet(job.evals))
<1>1. IsFiniteSet(ToSet(job.evals))
  BY ListedLen DEF Shape
<1>2. Frontier(ToSet(job.evals)) \subseteq ToSet(job.evals)
  BY DEF Frontier
<1>3. IsFiniteSet(Frontier(ToSet(job.evals)))
  BY <1>1, <1>2, FS_Subset
<1> QED BY <1>3, RankedTrials DEF Champions

LEMMA RankedResults ==
    ASSUME Shape, NEW q \in Rankings(ToSet(job.results), ResultPrecedes)
    PROVE  /\ Listed(q) /\ ToSet(q) = ToSet(job.results)
           /\ \A i, j \in DOMAIN q : i < j => ~ResultPrecedes(q[j], q[i])
<1>1. IsFiniteSet(ToSet(job.results))
  BY ListedLen DEF Shape
<1>2. /\ q \in [1 .. Cardinality(ToSet(job.results)) -> ToSet(job.results)]
      /\ ToSet(q) = ToSet(job.results)
      /\ \A i, j \in DOMAIN q : i < j => ~ResultPrecedes(q[j], q[i])
  BY DEF Rankings
<1> QED BY <1>1, <1>2, ListedOrder

-----------------------------------------------------------------------------
(* The invariant, action by action *)

LEMMA IdleInv ==
    ASSUME job' = Idle, data' \in 1 .. MaxData, EvidenceComplete', NestedSelectionPassed'
    PROVE  LabInv'
<1>1. Listed(<<>>) /\ ToSet(<<>>) = {} /\ DOMAIN <<>> = {}
  BY ListedEmpty
<1>2. Shape'
  BY <1>1 DEF Shape, Formed, Idle
<1>3. StudyStored'
  BY <1>1 DEF StudyStored, Idle
<1>4. CandidatesStored' /\ FrontierKept' /\ VerdictGrounds'
  BY <1>1 DEF CandidatesStored, FrontierKept, VerdictGrounds, Idle
<1>5. ResultsJudged'
  BY <1>1 DEF ResultsJudged, Idle
<1> QED BY <1>2, <1>3, <1>4, <1>5 DEF LabInv

LEMMA LabInitInv == LabInit => LabInv
<1> SUFFICES ASSUME LabInit PROVE LabInv
  OBVIOUS
<1>1. Listed(<<>>) /\ ToSet(<<>>) = {} /\ DOMAIN <<>> = {}
  BY ListedEmpty
<1>2. Shape
  BY <1>1, SourceAssumption DEF Shape, Formed, LabInit, Idle
<1>3. StudyStored
  BY <1>1 DEF StudyStored, LabInit, Idle
<1>4. CandidatesStored /\ FrontierKept /\ VerdictGrounds
  BY <1>1 DEF CandidatesStored, FrontierKept, VerdictGrounds, LabInit, Idle
<1>5. ResultsJudged
  BY <1>1 DEF ResultsJudged, LabInit, Idle
<1>6. EvidenceComplete /\ NestedSelectionPassed
  BY <1>1 DEF EvidenceComplete, NestedSelectionPassed, LabInit
<1> QED BY <1>2, <1>3, <1>4, <1>5, <1>6 DEF LabInv

LEMMA SameJob ==
    ASSUME LabInv, UNCHANGED <<store, job>>, data' \in 1 .. MaxData
    PROVE  LabInv'
BY DEF LabInv, store, Shape, StudyStored, CandidatesStored, EvidenceComplete, FrontierKept,
       NestedSelectionPassed, VerdictGrounds, ResultsJudged

LEMMA QuietEnd ==
    ASSUME LabInv, Abort \/ EndCommand \/ WriteBundle \/ BuildBundle
    PROVE  LabInv'
<1>1. job' = Idle /\ UNCHANGED <<data, store>>
  BY DEF Abort, EndCommand, WriteBundle, BuildBundle, Start
<1>2. EvidenceComplete' /\ NestedSelectionPassed' /\ data' \in 1 .. MaxData
  BY <1>1 DEF LabInv, Shape, EvidenceComplete, NestedSelectionPassed, store
<1> QED BY <1>1, <1>2, IdleInv

LEMMA CollectInv == ASSUME LabInv, Collect PROVE LabInv'
<1>1. UNCHANGED <<store, job>> /\ data' = data + 1 /\ data < MaxData
  BY DEF Collect
<1>2. data' \in 1 .. MaxData
  BY <1>1, SourceAssumption DEF LabInv, Shape
<1> QED BY <1>1, <1>2, SameJob

(* A study or an autoresearch that has nothing to recommend yet. *)
LEMMA FreshStage ==
    ASSUME LabInv, UNCHANGED <<data, store>>, NEW j, Formed(j), job' = j,
           j.at \in {"study", "nested", "research"}, j.window \in Nat, j.evals = <<>>, Listed(j.champions),
           j.todo = <<>> \/ j.todo = job.todo, j.results = <<>> \/ j.results = job.results,
           j.cmd = IF j.at = "research" THEN "autoresearch" ELSE "optimize", j.at = "nested" => j.window > 0,
           j.cmd = "autoresearch" => Listed(j.queue) /\ ToSet(j.queue) \subseteq Valid
    PROVE  LabInv'
<1>1. Listed(<<>>) /\ ToSet(<<>>) = {} /\ DOMAIN <<>> = {}
  BY ListedEmpty
<1>2. Shape'
  BY <1>1 DEF Shape, LabInv
<1>3. StudyStored'
  BY <1>1 DEF StudyStored
<1>4. CandidatesStored' /\ FrontierKept' /\ VerdictGrounds'
  BY <1>1 DEF CandidatesStored, FrontierKept, VerdictGrounds, LabInv, store
<1>5. ResultsJudged'
  BY <1>1 DEF ResultsJudged, LabInv
<1>6. EvidenceComplete' /\ NestedSelectionPassed'
  BY DEF LabInv, EvidenceComplete, NestedSelectionPassed, store
<1> QED BY <1>2, <1>3, <1>4, <1>5, <1>6 DEF LabInv

LEMMA NextWindowFields ==
    ASSUME NEW j, Formed(j)
    PROVE  LET n == NextWindow(j)
           IN  /\ Formed(n) /\ n.at \in {"study", "nested"} /\ n.window = j.window + 1 /\ n.evals = <<>>
               /\ n.cmd = j.cmd /\ n.queue = j.queue /\ n.champions = j.champions
               /\ n.todo = j.todo /\ n.results = j.results
<1> DEFINE at == IF j.window < Len(Windows[j.h]) THEN "study" ELSE "nested"
           a == [j EXCEPT !.at = at]
           b == [a EXCEPT !.window = @ + 1]
           c == [b EXCEPT !.evals = <<>>]
           Same(n) == /\ Formed(n) /\ n.at \in {"study", "nested"}
                      /\ n.cmd = j.cmd /\ n.queue = j.queue /\ n.champions = j.champions
                      /\ n.todo = j.todo /\ n.results = j.results
<1>1. Same(a) /\ a.window = j.window
  BY DEF Formed
<1>2. Same(b) /\ b.window = j.window + 1
  <2> HIDE DEF a
  <2> QED BY <1>1 DEF Formed
<1>3. Same(c) /\ c.window = j.window + 1 /\ c.evals = <<>>
  <2> HIDE DEF b
  <2> QED BY <1>2 DEF Formed
<1>4. c = NextWindow(j)
  BY DEF NextWindow
<1> QED BY <1>3, <1>4

LEMMA CommandFields ==
    ASSUME NEW cmd, NEW at, NEW h
    PROVE  LET j == Command(cmd, at, h)
           IN  /\ Formed(j) /\ j.at = at /\ j.cmd = cmd /\ j.h = h /\ j.window = 0 /\ j.queue = <<>>
               /\ j.evals = <<>> /\ j.champions = <<>> /\ j.todo = <<>> /\ j.results = <<>>
<1> DEFINE a == [Idle EXCEPT !.cmd = cmd]
           b == [a EXCEPT !.at = at]
           c == [b EXCEPT !.h = h]
           Empty(j) == /\ Formed(j) /\ j.cmd = cmd /\ j.window = 0 /\ j.queue = <<>> /\ j.evals = <<>>
                       /\ j.champions = <<>> /\ j.todo = <<>> /\ j.results = <<>>
<1>1. Empty(a)
  BY DEF Idle, Formed
<1>2. Empty(b) /\ b.at = at
  <2> HIDE DEF a
  <2> QED BY <1>1 DEF Formed
<1>3. Empty(c) /\ c.at = at /\ c.h = h
  <2> HIDE DEF b
  <2> QED BY <1>2 DEF Formed
<1>4. c = Command(cmd, at, h)
  BY DEF Command
<1> QED BY <1>3, <1>4

LEMMA StartOptimizeInv == ASSUME LabInv, StartOptimize PROVE LabInv'
<1>1. PICK h : /\ UNCHANGED <<data, store>>
               /\ \/ job' = NextWindow(Command("optimize", "study", h))
                  \/ \E queue : job' = [Command("optimize", "study", h) EXCEPT !.queue = queue]
  <2>1. PICK h \in DOMAIN Protocol :
            /\ IF Protocol[h].mode = "nested"
               THEN Start(NextWindow(Command("optimize", "study", h)))
               ELSE \E queue \in {<<>>} \cup WarmStarts(h, TRUE) \cup WarmStarts(h, FALSE) :
                        Start([Command("optimize", "study", h) EXCEPT !.queue = queue])
            /\ UNCHANGED <<data, store, answer>>
    BY DEF StartOptimize
  <2> QED BY <2>1 DEF Start
<1>2. Listed(<<>>)
  BY ListedEmpty
<1> DEFINE c == Command("optimize", "study", h)
<1>3. /\ Formed(c) /\ c.at = "study" /\ c.cmd = "optimize" /\ c.window = 0
      /\ c.evals = <<>> /\ c.champions = <<>> /\ c.todo = <<>> /\ c.results = <<>>
  BY CommandFields
<1>4. CASE job' = NextWindow(c)
  <2> HIDE DEF c
  <2> DEFINE j == NextWindow(c)
  <2>1. /\ Formed(j) /\ j.at \in {"study", "nested"} /\ j.window = c.window + 1 /\ j.evals = <<>>
        /\ j.cmd = c.cmd /\ j.champions = c.champions /\ j.todo = c.todo /\ j.results = c.results
    BY <1>3, NextWindowFields
  <2>2. j.window \in Nat /\ j.window > 0 /\ j.cmd = "optimize"
    BY <1>3, <2>1
  <2>3. job' = j
    BY <1>4
  <2> HIDE DEF j
  <2> QED BY <1>1, <1>2, <1>3, <2>1, <2>2, <2>3, FreshStage
<1>5. CASE \E queue : job' = [c EXCEPT !.queue = queue]
  <2> HIDE DEF c
  <2>1. PICK queue : job' = [c EXCEPT !.queue = queue]
    BY <1>5
  <2> DEFINE j == [c EXCEPT !.queue = queue]
  <2>2. /\ Formed(j) /\ j.at = "study" /\ j.cmd = "optimize" /\ j.window = 0
        /\ j.evals = <<>> /\ j.champions = <<>> /\ j.todo = <<>> /\ j.results = <<>>
    BY <1>3 DEF Formed
  <2>3. job' = j
    BY <2>1
  <2> HIDE DEF j
  <2> QED BY <1>1, <1>2, <2>2, <2>3, FreshStage
<1> QED BY <1>1, <1>4, <1>5

LEMMA StartAutoresearchInv == ASSUME LabInv, StartAutoresearch PROVE LabInv'
<1>1. PICK h \in DOMAIN Protocol, queue \in Generated :
          /\ Start([Command("autoresearch", "research", h) EXCEPT !.queue = queue])
          /\ UNCHANGED <<data, store>>
  BY DEF StartAutoresearch
<1>2. PICK n \in 0 .. MaxCandidates : queue \in [1 .. n -> Valid \ History]
  BY DEF Generated
<1>3. n \in Nat
  BY CountsAssumption
<1>4. queue \in Seq(Valid \ History)
  BY <1>2, <1>3, SeqDef
<1>5. Listed(queue) /\ ToSet(queue) \subseteq Valid
  BY <1>4, ListedIn
<1> DEFINE c == Command("autoresearch", "research", h)
           j == [c EXCEPT !.queue = queue]
<1>6. /\ Formed(c) /\ c.at = "research" /\ c.cmd = "autoresearch" /\ c.window = 0
      /\ c.evals = <<>> /\ c.champions = <<>> /\ c.todo = <<>> /\ c.results = <<>>
  BY CommandFields
<1>7. /\ Formed(j) /\ j.at = "research" /\ j.cmd = "autoresearch" /\ j.window = 0 /\ j.queue = queue
      /\ j.evals = <<>> /\ j.champions = <<>> /\ j.todo = <<>> /\ j.results = <<>>
  <2> HIDE DEF c
  <2> QED BY <1>6 DEF Formed
<1>8. Listed(<<>>)
  BY ListedEmpty
<1>9. job' = j
  BY <1>1 DEF Start
<1> HIDE DEF j
<1> QED BY <1>1, <1>5, <1>7, <1>8, <1>9, FreshStage

LEMMA EndWindowInv == ASSUME LabInv, EndWindow PROVE LabInv'
<1>1. PICK c : /\ job' = NextWindow(c)
               /\ c = job \/ \E champion : c = [job EXCEPT !.champions = Append(@, champion)]
  BY DEF EndWindow
<1>2. UNCHANGED <<data, store>>
  BY DEF EndWindow
<1>3. /\ Formed(c) /\ Listed(c.champions)
      /\ c.window = job.window /\ c.cmd = job.cmd /\ c.queue = job.queue
      /\ c.todo = job.todo /\ c.results = job.results
  <2>1. CASE c = job
    BY <2>1 DEF LabInv, Shape
  <2>2. CASE \E champion : c = [job EXCEPT !.champions = Append(@, champion)]
    <3>1. PICK champion : c = [job EXCEPT !.champions = Append(@, champion)]
      BY <2>2
    <3>2. Listed(Append(job.champions, champion))
      BY ListedAppend DEF LabInv, Shape
    <3>3. Formed(job)
      BY DEF LabInv, Shape
    <3> QED BY <3>1, <3>2, <3>3 DEF Formed
  <2> QED BY <1>1, <2>1, <2>2
<1> DEFINE j == NextWindow(c)
<1>4. /\ Formed(j) /\ j.at \in {"study", "nested"} /\ j.window = c.window + 1 /\ j.evals = <<>>
      /\ j.cmd = c.cmd /\ j.queue = c.queue /\ j.champions = c.champions
      /\ j.todo = c.todo /\ j.results = c.results
  BY <1>3, NextWindowFields
<1>5. j.window \in Nat /\ j.window > 0 /\ j.cmd = "optimize"
  BY <1>3, <1>4 DEF LabInv, Shape, EndWindow, StudyDone
<1>6. j.cmd = "autoresearch" => Listed(j.queue) /\ ToSet(j.queue) \subseteq Valid
  BY <1>3, <1>4 DEF LabInv, ResultsJudged
<1>7. job' = j
  BY <1>1
<1> HIDE DEF j
<1>8. Listed(j.champions) /\ j.at # "research" /\ j.todo = job.todo /\ j.results = job.results
  BY <1>3, <1>4
<1> QED BY <1>2, <1>4, <1>5, <1>6, <1>7, <1>8, FreshStage

LEMMA RunTrialInv == ASSUME LabInv, RunTrial PROVE LabInv'
<1>1. PICK p, e :
          /\ e.id = <<"trial", job.window, Len(job.evals)>>
          /\ e.metrics = IF p \in Valid
                         THEN Metrics(p, data, IF job.window = 0 THEN Snapshots ELSE Windows[job.h][job.window].train)
                         ELSE Rejected
          /\ trials' = Put(trials, e.id, Row(e))
          /\ job' = [job EXCEPT !.evals = Append(@, e), !.queue = IF @ = <<>> THEN @ ELSE Tail(@)]
  <2>1. PICK p \in (IF job.queue = <<>> THEN Params ELSE {Head(job.queue)}) :
        LET range   == IF job.window = 0 THEN Snapshots ELSE Windows[job.h][job.window].train
            metrics == IF p \in Valid THEN Metrics(p, data, range) ELSE Rejected
            e       == [id |-> <<"trial", job.window, Len(job.evals)>>, params |-> p, metrics |-> metrics,
                        accepted |-> Accepted(p, metrics, job.h, job.window),
                        protocol |-> job.h, searched |-> TRUE]
        IN  /\ trials' = Put(trials, e.id, Row(e))
            /\ job' = [job EXCEPT !.evals = Append(@, e), !.queue = IF @ = <<>> THEN @ ELSE Tail(@)]
    BY DEF RunTrial
  <2> DEFINE range   == IF job.window = 0 THEN Snapshots ELSE Windows[job.h][job.window].train
             metrics == IF p \in Valid THEN Metrics(p, data, range) ELSE Rejected
             e == [id |-> <<"trial", job.window, Len(job.evals)>>, params |-> p, metrics |-> metrics,
                   accepted |-> Accepted(p, metrics, job.h, job.window),
                   protocol |-> job.h, searched |-> TRUE]
  <2>2. /\ e.id = <<"trial", job.window, Len(job.evals)>> /\ e.metrics = metrics
        /\ trials' = Put(trials, e.id, Row(e))
        /\ job' = [job EXCEPT !.evals = Append(@, e), !.queue = IF @ = <<>> THEN @ ELSE Tail(@)]
    BY <2>1
  <2> HIDE DEF e
  <2> QED BY <2>2
<1>2. job.at = "study" /\ UNCHANGED <<data, reports, recs>>
  BY DEF RunTrial
<1>3. Formed(job) /\ Listed(job.evals) /\ job.cmd = "optimize"
  BY <1>2 DEF LabInv, Shape
<1>4. /\ Formed(job') /\ job'.evals = Append(job.evals, e) /\ job'.at = job.at /\ job'.cmd = job.cmd
      /\ job'.window = job.window /\ job'.champions = job.champions /\ job'.todo = job.todo
      /\ job'.results = job.results
  BY <1>1, <1>3 DEF Formed
<1>5. DOMAIN trials' = DOMAIN trials \cup {e.id}
  <2>1. PICK row : trials' = Put(trials, e.id, row)
    BY <1>1
  <2> QED BY <2>1 DEF Put
<1>6. /\ Listed(job'.evals) /\ Len(job'.evals) = Len(job.evals) + 1
      /\ \A i \in 1 .. Len(job.evals) : job'.evals[i] = job.evals[i]
      /\ job'.evals[Len(job.evals) + 1] = e
  BY <1>3, <1>4, ListedAppend
<1>7. Shape'
  BY <1>2, <1>3, <1>4, <1>6 DEF LabInv, Shape
<1>8. StudyStored'
  <2>1. /\ DOMAIN job'.evals = 1 .. Len(job.evals) + 1 /\ DOMAIN job.evals = 1 .. Len(job.evals)
        /\ Len(job.evals) \in Nat
    BY <1>3, <1>6, ListedLen
  <2>2. job.window = 0 => e.metrics \in Results
    <3>1. Rejected \in Results
      BY DEF Rejected, Results
    <3>2. p \in Valid => Metrics(p, data, Snapshots) \in Results
      BY WholeRange DEF LabInv
    <3> QED BY <1>1, <3>1, <3>2
  <2> SUFFICES ASSUME NEW n \in 1 .. Len(job.evals) + 1
               PROVE  /\ job'.evals[n].id = <<"trial", job'.window, n - 1>>
                      /\ job'.evals[n].id \in DOMAIN trials'
                      /\ job'.window = 0 => job'.evals[n].metrics \in Results
    BY <2>1 DEF StudyStored
  <2>3. CASE n = Len(job.evals) + 1
    <3>1. n - 1 = Len(job.evals)
      BY <2>1, <2>3
    <3> QED BY <1>1, <1>4, <1>5, <1>6, <2>2, <2>3, <3>1
  <2>4. CASE n # Len(job.evals) + 1
    <3>1. n \in DOMAIN job.evals /\ job'.evals[n] = job.evals[n]
      BY <1>6, <2>1, <2>4
    <3>2. /\ job.evals[n].id = <<"trial", job.window, n - 1>>
          /\ job.evals[n].id \in DOMAIN trials
          /\ job.window = 0 => job.evals[n].metrics \in Results
      BY <3>1 DEF LabInv, StudyStored
    <3> QED BY <1>4, <1>5, <3>1, <3>2
  <2> QED BY <2>3, <2>4
<1>9. CandidatesStored' /\ EvidenceComplete'
  BY <1>2, <1>4, <1>5 DEF LabInv, CandidatesStored, EvidenceComplete
<1>10. FrontierKept' /\ VerdictGrounds'
  BY <1>2, <1>4 DEF FrontierKept, VerdictGrounds
<1>11. NestedSelectionPassed'
  BY <1>2 DEF LabInv, NestedSelectionPassed
<1>12. ResultsJudged'
  BY <1>2, <1>3, <1>4 DEF LabInv, ResultsJudged
<1> QED BY <1>7, <1>8, <1>9, <1>10, <1>11, <1>12 DEF LabInv

LEMMA EndStudyInv == ASSUME LabInv, EndStudy PROVE LabInv'
<1>1. PICK champions \in Champions : job' = [job EXCEPT !.at = "walk", !.queue = <<>>, !.todo = champions]
  BY DEF EndStudy
<1>2. /\ job.at = "study" /\ job.window = 0 /\ UNCHANGED <<data, trials, reports, recs>>
      /\ Formed(job) /\ job.cmd = "optimize"
  BY DEF EndStudy, StudyDone, store, LabInv, Shape
<1>3. /\ Formed(job') /\ job'.evals = job.evals /\ job'.at = "walk" /\ job'.cmd = job.cmd
      /\ job'.window = job.window /\ job'.champions = job.champions /\ job'.todo = champions
      /\ job'.results = job.results
  <2> DEFINE a == [job EXCEPT !.at = "walk"]
             b == [a EXCEPT !.queue = <<>>]
             c == [b EXCEPT !.todo = champions]
             Kept(n) == /\ Formed(n) /\ n.evals = job.evals /\ n.at = "walk" /\ n.cmd = job.cmd
                        /\ n.window = job.window /\ n.champions = job.champions /\ n.results = job.results
  <2>1. Kept(a)
    BY <1>2 DEF Formed
  <2>2. Kept(b)
    <3> HIDE DEF a
    <3> QED BY <2>1 DEF Formed
  <2>3. Kept(c) /\ c.todo = champions
    <3> HIDE DEF b
    <3> QED BY <2>2 DEF Formed
  <2>4. job' = c
    BY <1>1
  <2> QED BY <2>3, <2>4
<1>4. Listed(champions) /\ ToSet(champions) = Frontier(ToSet(job.evals))
  BY ChampionsListed DEF LabInv
<1>5. Frontier(ToSet(job.evals)) \subseteq ToSet(job.evals)
  BY DEF Frontier
<1>6. \A e \in ToSet(job.evals) : e.id \in DOMAIN trials
  BY DEF LabInv, StudyStored, ToSet
<1>7. Shape'
  BY <1>2, <1>3, <1>4 DEF LabInv, Shape
<1>8. StudyStored' /\ EvidenceComplete' /\ NestedSelectionPassed'
  BY <1>2, <1>3 DEF LabInv, StudyStored, EvidenceComplete, NestedSelectionPassed
<1>9. CandidatesStored'
  BY <1>2, <1>3, <1>4, <1>5, <1>6 DEF LabInv, CandidatesStored
<1>10. FrontierKept'
  BY <1>3, <1>4, <1>5 DEF FrontierKept
<1>11. VerdictGrounds' /\ ResultsJudged'
  BY <1>2, <1>3 DEF LabInv, VerdictGrounds, ResultsJudged
<1> QED BY <1>7, <1>8, <1>9, <1>10, <1>11 DEF LabInv

LEMMA JudgedReport ==
    ASSUME NEW p, NEW at, NEW h
    PROVE  LET r == RunWalkforward(p, at, h)
           IN  /\ r.params = p /\ r.protocol = h /\ "selected" \notin DOMAIN r
               /\ r.passed => ~r.fragile
<1>1. ASSUME NEW total, NEW passed, NEW d
      PROVE  Judge(h, total, passed, d).passed => ~Judge(h, total, passed, d).fragile
  BY DEF Judge
<1> QED BY <1>1 DEF RunWalkforward

LEMMA MinPair ==
    ASSUME NEW a \in Int, NEW b \in Int PROVE Min({a, b}) <= b
<1>1. \E x \in {a, b} : \A y \in {a, b} : x <= y
  <2>1. CASE a <= b
    BY <2>1
  <2>2. CASE b <= a
    BY <2>2
  <2> QED BY <2>1, <2>2
<1>2. \A y \in {a, b} : Min({a, b}) <= y
  BY <1>1 DEF Min
<1> QED BY <1>2

LEMMA WalkForwardInv == ASSUME LabInv, WalkForward PROVE LabInv'
<1>1. PICK at, report, e :
          /\ e = Head(job.todo)
          /\ report = RunWalkforward(e.params, at, job.h)
          /\ reports' = Put(reports, e.id, report)
          /\ job' = IF job.cmd = "autoresearch"
                    THEN [job EXCEPT !.at = "research", !.todo = <<>>,
                                     !.results = Append(@, [eval |-> e, report |-> report])]
                    ELSE [job EXCEPT !.at = "recommend", !.report = report]
  BY DEF WalkForward, SaveReport
<1>2. /\ job.at = "walk" /\ job.todo # <<>> /\ UNCHANGED <<trials, recs>>
      /\ data' \in data .. Min({data + 1, MaxData})
  BY DEF WalkForward
<1>3. data' \in 1 .. MaxData
  <2>1. data \in 1 .. MaxData /\ MaxData \in Nat
    BY SourceAssumption DEF LabInv, Shape
  <2>2. Min({data + 1, MaxData}) <= MaxData
    BY <2>1, MinPair
  <2>3. Min({data + 1, MaxData}) \in Int
    <3>1. \E x \in {data + 1, MaxData} : \A y \in {data + 1, MaxData} : x <= y
      <4>1. CASE data + 1 <= MaxData
        BY <2>1, <4>1
      <4>2. CASE MaxData <= data + 1
        BY <2>1, <4>2
      <4> QED BY <2>1, <4>1, <4>2
    <3>2. Min({data + 1, MaxData}) \in {data + 1, MaxData}
      BY <3>1 DEF Min
    <3> QED BY <2>1, <3>2
  <2> QED BY <1>2, <2>1, <2>2, <2>3
<1>4. /\ report.params = e.params /\ report.protocol = job.h /\ "selected" \notin DOMAIN report
      /\ report.passed => ~report.fragile
  BY <1>1, JudgedReport
<1>5. /\ DOMAIN reports' = DOMAIN reports \cup {e.id} /\ reports'[e.id] = report
      /\ \A id \in DOMAIN reports : id # e.id => reports'[id] = reports[id]
  BY <1>1 DEF Put
<1>6. e \in ToSet(job.todo) /\ Formed(job) /\ Listed(job.results)
  BY <1>1, <1>2, ListedTail DEF LabInv, Shape
<1>7. EvidenceComplete'
  BY <1>2, <1>5 DEF LabInv, EvidenceComplete
<1>8. NestedSelectionPassed'
  BY <1>4, <1>5 DEF LabInv, NestedSelectionPassed
<1>9. CASE job.cmd = "autoresearch"
  <2> DEFINE new == [eval |-> e, report |-> report]
  <2>1. /\ Formed(job') /\ job'.at = "research" /\ job'.cmd = job.cmd /\ job'.window = job.window
        /\ job'.queue = job.queue /\ job'.evals = job.evals /\ job'.champions = job.champions
        /\ job'.todo = <<>> /\ job'.results = Append(job.results, new)
    <3> HIDE DEF new
    <3> DEFINE a == [job EXCEPT !.at = "research"]
               b == [a EXCEPT !.todo = <<>>]
               results == Append(job.results, new)
               c == [b EXCEPT !.results = results]
               Kept(n) == /\ Formed(n) /\ n.at = "research" /\ n.cmd = job.cmd /\ n.window = job.window
                          /\ n.queue = job.queue /\ n.evals = job.evals /\ n.champions = job.champions
    <3>1. Kept(a) /\ a.results = job.results
      BY <1>6 DEF Formed
    <3>2. Kept(b) /\ b.todo = <<>> /\ b.results = job.results
      <4> HIDE DEF a
      <4> QED BY <3>1 DEF Formed
    <3>3. Kept(c) /\ c.todo = <<>> /\ c.results = results
      <4> HIDE DEF b, results
      <4> QED BY <3>2 DEF Formed
    <3>4. job' = c
      <4>1. b.results = job.results
        BY <3>2
      <4>2. job' = [b EXCEPT !.results = Append(b.results, new)]
        BY <1>1, <1>9 DEF new
      <4> QED BY <4>1, <4>2
    <3> QED BY <3>3, <3>4
  <2>2. Listed(job'.results) /\ ToSet(job'.results) = ToSet(job.results) \cup {new}
    <3> HIDE DEF new
    <3> QED BY <1>6, <2>1, ListedAppend
  <2>3. Listed(<<>>) /\ ToSet(<<>>) = {}
    BY ListedEmpty
  <2>4. Shape' /\ StudyStored'
    BY <1>2, <1>3, <2>1, <2>2, <2>3 DEF LabInv, Shape, StudyStored
  <2>5. e.id \in DOMAIN trials /\ e.metrics.exp \in Int
    BY <1>2, <1>6, <1>9 DEF LabInv, ResultsJudged
  <2>6. CandidatesStored'
    BY <1>2, <1>5, <2>1, <2>2, <2>5 DEF LabInv, CandidatesStored
  <2>7. FrontierKept' /\ VerdictGrounds'
    BY <1>9, <2>1 DEF FrontierKept, VerdictGrounds
  <2>8. ResultsJudged'
    BY <1>4, <1>9, <2>1, <2>2, <2>5 DEF LabInv, ResultsJudged
  <2> QED BY <1>7, <1>8, <2>4, <2>6, <2>7, <2>8 DEF LabInv
<1>10. CASE job.cmd # "autoresearch"
  <2>1. /\ Formed(job') /\ job'.at = "recommend" /\ job'.cmd = job.cmd /\ job'.window = job.window
        /\ job'.queue = job.queue /\ job'.evals = job.evals /\ job'.champions = job.champions
        /\ job'.todo = job.todo /\ job'.results = job.results /\ job'.report = report
    <3> DEFINE a == [job EXCEPT !.at = "recommend"]
               b == [a EXCEPT !.report = report]
               Kept(n) == /\ Formed(n) /\ n.at = "recommend" /\ n.cmd = job.cmd /\ n.window = job.window
                          /\ n.queue = job.queue /\ n.evals = job.evals /\ n.champions = job.champions
                          /\ n.todo = job.todo /\ n.results = job.results
    <3>1. Kept(a)
      BY <1>6 DEF Formed
    <3>2. Kept(b) /\ b.report = report
      <4> HIDE DEF a
      <4> QED BY <3>1 DEF Formed
    <3>3. job' = b
      BY <1>1, <1>10
    <3> QED BY <3>2, <3>3
  <2>2. Shape' /\ StudyStored'
    BY <1>2, <1>3, <1>10, <2>1 DEF LabInv, Shape, StudyStored
  <2>3. CandidatesStored'
    BY <1>1, <1>2, <1>5, <2>1 DEF LabInv, CandidatesStored
  <2>4. FrontierKept'
    BY <1>2, <2>1 DEF LabInv, FrontierKept
  <2>5. VerdictGrounds'
    BY <1>1, <1>2, <1>4, <1>5, <2>1 DEF LabInv, VerdictGrounds
  <2>6. ResultsJudged'
    BY <1>10, <2>1 DEF LabInv, ResultsJudged
  <2> QED BY <1>7, <1>8, <2>2, <2>3, <2>4, <2>5, <2>6 DEF LabInv
<1> QED BY <1>9, <1>10

LEMMA RecommendInv == ASSUME LabInv, Recommend PROVE LabInv'
<1>1. PICK e, rec :
          /\ e = Head(job.todo) /\ rec.settings = Config[e.params]
          /\ recs' = Put(recs, e.id, rec)
          /\ job' = [job EXCEPT !.at = "walk", !.todo = Tail(@), !.report = <<>>]
  <2>1. Recommendation(Head(job.todo), job.report).settings = Config[Head(job.todo).params]
    BY DEF Recommendation
  <2> QED BY <2>1 DEF Recommend
<1>2. job.at = "recommend" /\ job.todo # <<>> /\ UNCHANGED <<data, trials, reports>> /\ job.cmd # "autoresearch"
  BY DEF Recommend, LabInv, CandidatesStored, Shape
<1>3. Formed(job) /\ Listed(job.todo)
  BY DEF LabInv, Shape
<1>4. /\ Formed(job') /\ job'.at = "walk" /\ job'.cmd = job.cmd /\ job'.window = job.window
      /\ job'.queue = job.queue /\ job'.evals = job.evals /\ job'.champions = job.champions
      /\ job'.todo = Tail(job.todo) /\ job'.results = job.results
  <2> DEFINE a == [job EXCEPT !.at = "walk"]
             rest == Tail(job.todo)
             b == [a EXCEPT !.todo = rest]
             c == [b EXCEPT !.report = <<>>]
             Kept(n) == /\ Formed(n) /\ n.at = "walk" /\ n.cmd = job.cmd /\ n.window = job.window
                        /\ n.queue = job.queue /\ n.evals = job.evals /\ n.champions = job.champions
                        /\ n.results = job.results
  <2>1. Kept(a) /\ a.todo = job.todo
    BY <1>3 DEF Formed
  <2>2. Kept(b) /\ b.todo = rest
    <3> HIDE DEF a, rest
    <3> QED BY <2>1 DEF Formed
  <2>3. Kept(c) /\ c.todo = rest
    <3> HIDE DEF b, rest
    <3> QED BY <2>2 DEF Formed
  <2>4. job' = c
    BY <1>1, <2>1
  <2> QED BY <2>3, <2>4
<1>5. /\ Listed(Tail(job.todo)) /\ ToSet(job.todo) = ToSet(Tail(job.todo)) \cup {e} /\ e \in ToSet(job.todo)
      /\ Len(Tail(job.todo)) = Len(job.todo) - 1
  BY <1>1, <1>2, <1>3, ListedTail
<1>6. /\ DOMAIN recs' = DOMAIN recs \cup {e.id} /\ recs'[e.id] = rec
      /\ \A id \in DOMAIN recs : id # e.id => recs'[id] = recs[id]
  BY <1>1 DEF Put
<1>7. Shape' /\ StudyStored'
  BY <1>2, <1>4, <1>5 DEF LabInv, Shape, StudyStored
<1>8. EvidenceComplete'
  BY <1>1, <1>2, <1>5, <1>6 DEF LabInv, EvidenceComplete, CandidatesStored
<1>9. CandidatesStored'
  BY <1>2, <1>4, <1>5 DEF LabInv, CandidatesStored
<1>10. FrontierKept'
  <2> SUFFICES ASSUME job.cmd = "optimize", job.window = 0
               PROVE  /\ ToSet(Tail(job.todo)) \subseteq ToSet(job.evals)
                      /\ \A f \in Frontier(ToSet(job.evals)) :
                            f \in ToSet(Tail(job.todo)) \/ (f.id \in DOMAIN recs' /\ recs'[f.id].settings = Config[f.params])
    BY <1>4 DEF FrontierKept
  <2>1. /\ ToSet(job.todo) \subseteq ToSet(job.evals)
        /\ \A f \in Frontier(ToSet(job.evals)) :
               f \in ToSet(job.todo) \/ (f.id \in DOMAIN recs /\ recs[f.id].settings = Config[f.params])
    BY <1>2 DEF LabInv, FrontierKept
  <2>2. ASSUME NEW f \in ToSet(job.evals), f.id = e.id PROVE f = e
    <3>1. e \in ToSet(job.evals)
      BY <1>5, <2>1
    <3>2. PICK i, k \in DOMAIN job.evals : job.evals[i] = e /\ job.evals[k] = f
      BY <2>2, <3>1 DEF ToSet
    <3>3. DOMAIN job.evals = 1 .. Len(job.evals) /\ Len(job.evals) \in Nat
      BY ListedLen DEF LabInv, Shape
    <3>4. e.id = <<"trial", job.window, i - 1>> /\ f.id = <<"trial", job.window, k - 1>>
      BY <3>2 DEF LabInv, StudyStored
    <3>5. i - 1 = k - 1
      BY <2>2, <3>4
    <3>6. i = k
      BY <3>2, <3>3, <3>5
    <3> QED BY <3>2, <3>6
  <2>3. Frontier(ToSet(job.evals)) \subseteq ToSet(job.evals)
    BY DEF Frontier
  <2> QED BY <1>1, <1>5, <1>6, <2>1, <2>2, <2>3
<1>11. NestedSelectionPassed'
  BY <1>2 DEF LabInv, NestedSelectionPassed
<1>12. VerdictGrounds'
  <2>1. job.cmd = "replay" => Len(job.todo) = 1
    BY <1>2 DEF LabInv, VerdictGrounds
  <2>2. job.cmd = "replay" => Tail(job.todo) = <<>>
    <3>1. job.cmd = "replay" => Len(Tail(job.todo)) = 0
      BY <1>5, <2>1
    <3>2. Tail(job.todo) # <<>> => Len(Tail(job.todo)) \in Nat \ {0}
      BY <1>5, EmptySeq DEF Listed
    <3> QED BY <3>1, <3>2
  <2> QED BY <1>4, <2>2 DEF VerdictGrounds
<1>13. ResultsJudged'
  BY <1>2, <1>4 DEF LabInv, ResultsJudged
<1> QED BY <1>7, <1>8, <1>9, <1>10, <1>11, <1>12, <1>13 DEF LabInv

(* A nested report that passed selects a candidate with a window it passed. *)
LEMMA SelectedPassed ==
    ASSUME Shape, NEW ranked \in Rankings(Summaries, SummaryPrecedes)
    PROVE  /\ NestedReport(ranked).passed => ranked # <<>> /\ ranked[1].passed > 0
           /\ ranked # <<>> => ranked[1].id[1] = "nested"
<1> DEFINE all == job.champions
           own(c) == {n \in DOMAIN all : Config[all[n].params] = c}
           good(c) == {n \in own(c) : all[n].passed}
<1>1. Len(all) \in Nat /\ DOMAIN all = 1 .. Len(all) /\ IsFiniteSet(ToSet(all))
  BY ListedLen DEF Shape
<1>2. IsFiniteSet(DOMAIN all)
  BY <1>1, FS_Interval
<1>3. ASSUME NEW c PROVE IsFiniteSet(good(c)) /\ Cardinality(good(c)) \in Nat
                         /\ (good(c) # {} => Cardinality(good(c)) > 0)
  <2>1. good(c) \subseteq DOMAIN all
    OBVIOUS
  <2> HIDE DEF good, all
  <2>2. IsFiniteSet(good(c))
    BY <1>2, <2>1, FS_Subset
  <2> QED BY <2>2, FS_CardinalityType, FS_EmptySet
<1>4. \A c : Summary(c).passed = Cardinality(good(c)) /\ Summary(c).id[1] = "nested"
  BY DEF Summary
<1>5. \A s \in Summaries : s.passed \in Nat /\ s.id[1] = "nested"
  <2> HIDE DEF good
  <2> QED BY <1>3, <1>4 DEF Summaries
<1>6. IsFiniteSet(Summaries)
  <2> DEFINE T == {Summary(Config[c.params]) : c \in ToSet(all)}
             g == [c \in ToSet(all) |-> Summary(Config[c.params])]
  <2>1. g \in Surjection(ToSet(all), T)
    BY DEF Surjection
  <2>2. IsFiniteSet(T)
    <3> HIDE DEF all, g, T
    <3> QED BY <1>1, <2>1, FS_Surjection
  <2> QED BY <2>2 DEF Summaries
<1>7. /\ ranked \in [1 .. Cardinality(Summaries) -> Summaries] /\ ToSet(ranked) = Summaries
      /\ \A i, j \in DOMAIN ranked : i < j => ~SummaryPrecedes(ranked[j], ranked[i])
  BY DEF Rankings
<1>8. Listed(ranked) /\ Len(ranked) \in Nat /\ DOMAIN ranked = 1 .. Len(ranked)
  BY <1>6, <1>7, ListedOrder, ListedLen
<1>9. ASSUME ranked # <<>> PROVE 1 \in DOMAIN ranked /\ ranked[1] \in Summaries
  BY <1>7, <1>8, <1>9, ListedTail
<1>10. ASSUME NestedReport(ranked).passed PROVE ranked # <<>> /\ ranked[1].passed > 0
  <2>1. Cardinality({n \in DOMAIN all : all[n].passed}) > 0
    BY <1>10 DEF NestedReport, Judge
  <2>2. PICK n \in DOMAIN all : all[n].passed
    BY <2>1, FS_EmptySet
  <2> DEFINE c == Config[all[n].params]
  <2>3. Summary(c) \in Summaries
    BY <2>2 DEF Summaries, ToSet
  <2>4. Summary(c).passed > 0
    <3>1. n \in good(c)
      BY <2>2
    <3> HIDE DEF good, c
    <3> QED BY <1>3, <1>4, <3>1
  <2>5. PICK k \in DOMAIN ranked : ranked[k] = Summary(c)
    BY <1>7, <2>3 DEF ToSet
  <2>6. ranked # <<>>
    BY <1>8, <2>5, ListedEmpty
  <2>7. CASE k = 1
    BY <2>4, <2>5, <2>6, <2>7
  <2>8. CASE k # 1
    <3>1. 1 < k /\ 1 \in DOMAIN ranked
      BY <1>8, <2>5, <2>8
    <3>2. ~SummaryPrecedes(ranked[k], ranked[1])
      BY <1>7, <2>5, <3>1
    <3>3. ranked[k].passed \in Nat /\ ranked[1].passed \in Nat
      BY <1>5, <1>7, <2>5, <3>1
    <3>4. SummaryKey(ranked[k])[1] = -ranked[k].passed /\ SummaryKey(ranked[1])[1] = -ranked[1].passed
          /\ 1 \in DOMAIN SummaryKey(ranked[k])
      BY DEF SummaryKey, Key
    <3>5. ~(-ranked[k].passed < -ranked[1].passed)
      <4>1. \A j \in 1 .. 1 - 1 : SummaryKey(ranked[k])[j] = SummaryKey(ranked[1])[j]
        OBVIOUS
      <4>2. ~(SummaryKey(ranked[k])[1] < SummaryKey(ranked[1])[1])
        BY <3>2, <3>4, <4>1 DEF SummaryPrecedes, Lexicographic
      <4> QED BY <3>4, <4>2
    <3> QED BY <2>4, <2>5, <2>6, <3>3, <3>5
  <2> QED BY <2>7, <2>8
<1> QED BY <1>5, <1>9, <1>10

LEMMA SaveNestedInv == ASSUME LabInv, SaveNested PROVE LabInv'
<1>1. PICK ranked, report, e :
          /\ ranked \in Rankings(Summaries, SummaryPrecedes)
          /\ report = NestedReport(ranked)
          /\ ranked # <<>> => e.id = ranked[1].id
          /\ \/ /\ ranked = <<>> /\ reports' = Put(reports, <<"nested-summary">>, report) /\ job' = Idle
             \/ /\ ranked # <<>> /\ reports' = Put(reports, e.id, report)
                /\ job' = [job EXCEPT !.at = "recommend", !.champions = <<>>, !.todo = <<e>>,
                                      !.report = report]
  <2>1. PICK ranked \in Rankings(Summaries, SummaryPrecedes) :
        LET report == NestedReport(ranked)
            e      == [id |-> ranked[1].id, params |-> ranked[1].params, accepted |-> TRUE,
                       protocol |-> job.h]
        IN  IF ranked = <<>>
            THEN /\ reports' = SaveReport(<<"nested-summary">>, report)
                 /\ job' = Idle
            ELSE /\ reports' = SaveReport(e.id, report)
                 /\ job' = [job EXCEPT !.at = "recommend", !.champions = <<>>, !.todo = <<e>>,
                                         !.report = report]
    BY DEF SaveNested
  <2> DEFINE report == NestedReport(ranked)
             e == [id |-> ranked[1].id, params |-> ranked[1].params, accepted |-> TRUE, protocol |-> job.h]
  <2>2. e.id = ranked[1].id
    OBVIOUS
  <2>3. \/ /\ ranked = <<>> /\ reports' = Put(reports, <<"nested-summary">>, report) /\ job' = Idle
        \/ /\ ranked # <<>> /\ reports' = Put(reports, e.id, report)
           /\ job' = [job EXCEPT !.at = "recommend", !.champions = <<>>, !.todo = <<e>>,
                                 !.report = report]
    BY <2>1 DEF SaveReport
  <2> HIDE DEF e, report
  <2>4. report = NestedReport(ranked)
    BY DEF report
  <2> QED BY <2>2, <2>3, <2>4
<1>2. job.at = "nested" /\ UNCHANGED <<data, trials, recs>>
  BY DEF SaveNested
<1>3. Formed(job) /\ job.cmd = "optimize" /\ job.window \in Nat /\ job.window > 0 /\ data' \in 1 .. MaxData
  BY <1>2 DEF LabInv, Shape
<1>4. /\ report.passed => ranked # <<>> /\ ranked[1].passed > 0
      /\ ranked # <<>> => ranked[1].id[1] = "nested"
  BY <1>1, SelectedPassed DEF LabInv
<1>5. report.selected = ranked
  BY <1>1 DEF NestedReport
<1>6. PICK id : /\ DOMAIN reports' = DOMAIN reports \cup {id} /\ reports'[id] = report
                /\ \A i \in DOMAIN reports : i # id => reports'[i] = reports[i]
                /\ ranked # <<>> => id = e.id
  BY <1>1 DEF Put
<1>7. EvidenceComplete'
  BY <1>2, <1>6 DEF LabInv, EvidenceComplete
<1>8. NestedSelectionPassed'
  BY <1>4, <1>5, <1>6 DEF LabInv, NestedSelectionPassed
<1>9. CASE ranked = <<>>
  BY <1>1, <1>3, <1>7, <1>8, <1>9, IdleInv
<1>10. CASE ranked # <<>>
  <2>1. /\ Formed(job') /\ job'.at = "recommend" /\ job'.cmd = job.cmd /\ job'.window = job.window
        /\ job'.evals = job.evals /\ job'.results = job.results
        /\ job'.champions = <<>> /\ job'.todo = <<e>>
    <3> DEFINE rest == <<e>>
               a == [job EXCEPT !.at = "recommend"]
               b == [a EXCEPT !.champions = <<>>]
               c == [b EXCEPT !.todo = rest]
               d == [c EXCEPT !.report = report]
               Kept(n) == /\ Formed(n) /\ n.at = "recommend" /\ n.cmd = job.cmd /\ n.window = job.window
                          /\ n.evals = job.evals /\ n.results = job.results
    <3>1. Kept(a)
      BY <1>3 DEF Formed
    <3>2. Kept(b) /\ b.champions = <<>>
      <4> HIDE DEF a
      <4> QED BY <3>1 DEF Formed
    <3>3. Kept(c) /\ c.champions = <<>> /\ c.todo = rest
      <4> HIDE DEF b, rest
      <4> QED BY <3>2 DEF Formed
    <3>4. Kept(d) /\ d.champions = <<>> /\ d.todo = rest
      <4> HIDE DEF c, rest
      <4> QED BY <3>3 DEF Formed
    <3>5. job' = d
      BY <1>1, <1>10
    <3> QED BY <3>4, <3>5
  <2>2. /\ Listed(<<e>>) /\ ToSet(<<e>>) = {e} /\ Head(<<e>>) = e /\ <<e>> # <<>>
        /\ Listed(<<>>) /\ ToSet(<<>>) = {}
    BY ListedOne, ListedEmpty
  <2>3. Shape' /\ StudyStored'
    BY <1>2, <1>3, <2>1, <2>2 DEF LabInv, Shape, StudyStored
  <2>4. e.id[1] = "nested" /\ e.id \in DOMAIN reports'
    BY <1>1, <1>4, <1>6, <1>10
  <2>5. CandidatesStored'
    BY <1>2, <1>6, <2>1, <2>2, <2>4 DEF LabInv, CandidatesStored
  <2>6. FrontierKept' /\ VerdictGrounds' /\ ResultsJudged'
    BY <1>3, <2>1 DEF LabInv, FrontierKept, VerdictGrounds, ResultsJudged
  <2> QED BY <1>7, <1>8, <2>3, <2>5, <2>6 DEF LabInv
<1> QED BY <1>9, <1>10

(* One candidate is stored and goes to its walk-forward. *)
LEMMA CandidateInv ==
    ASSUME LabInv, NEW e, trials' = Put(trials, e.id, Row(e)), UNCHANGED <<data, reports, recs>>,
           Formed(job'), job'.at = "walk", job'.todo = <<e>>, job'.window \in Nat,
           Listed(job'.evals), Listed(job'.champions), job'.results = <<>> \/ job'.results = job.results,
           \/ job'.cmd = "replay" /\ e.protocol = job'.h
           \/ /\ job'.cmd = "autoresearch" /\ e.metrics.exp \in Int
              /\ Listed(job'.queue) /\ ToSet(job'.queue) \subseteq Valid,
           job'.evals = <<>> \/ (job'.evals = job.evals /\ job'.window = job.window)
    PROVE  LabInv'
<1>1. /\ DOMAIN trials' = DOMAIN trials \cup {e.id} /\ trials'[e.id] = Row(e)
      /\ \A id \in DOMAIN trials : id # e.id => trials'[id] = trials[id]
  BY DEF Put
<1>2. /\ Listed(<<e>>) /\ ToSet(<<e>>) = {e} /\ Head(<<e>>) = e /\ <<e>> # <<>> /\ Len(<<e>>) = 1
      /\ Listed(<<>>) /\ ToSet(<<>>) = {} /\ DOMAIN <<>> = {}
  BY ListedOne, ListedEmpty
<1>3. Shape'
  BY <1>2 DEF LabInv, Shape
<1>4. StudyStored'
  BY <1>1, <1>2 DEF LabInv, StudyStored
<1>5. CandidatesStored' /\ EvidenceComplete'
  BY <1>1, <1>2 DEF LabInv, CandidatesStored, EvidenceComplete
<1>6. FrontierKept' /\ NestedSelectionPassed'
  BY DEF LabInv, FrontierKept, NestedSelectionPassed
<1>7. VerdictGrounds'
  BY <1>1, <1>2 DEF VerdictGrounds
<1>8. ResultsJudged'
  BY <1>1, <1>2 DEF LabInv, ResultsJudged
<1> QED BY <1>3, <1>4, <1>5, <1>6, <1>7, <1>8 DEF LabInv

LEMMA ReplayInv == ASSUME LabInv, Replay PROVE LabInv'
<1>1. PICK e, h : /\ job' = [Command("replay", "walk", h) EXCEPT !.todo = <<e>>]
                  /\ e.protocol = h /\ trials' = Put(trials, e.id, Row(e)) /\ UNCHANGED <<data, reports, recs>>
  <2>1. PICK id \in DOMAIN trials, h \in DOMAIN Protocol :
        LET p == trials[id].params
            m == Metrics(p, data, Snapshots)
            e == [id |-> id, params |-> p, metrics |-> m,
                  accepted |-> EnoughTrades(m, Protocol[h].minTrades, MaxVolume),
                  protocol |-> h, searched |-> FALSE]
        IN  /\ Start([Command("replay", "walk", h) EXCEPT !.todo = <<e>>])
            /\ trials' = Put(trials, id, Row(e))
            /\ UNCHANGED <<data, reports, recs, answer>>
    BY DEF Replay
  <2> DEFINE p == trials[id].params
             m == Metrics(p, data, Snapshots)
             e == [id |-> id, params |-> p, metrics |-> m,
                   accepted |-> EnoughTrades(m, Protocol[h].minTrades, MaxVolume),
                   protocol |-> h, searched |-> FALSE]
  <2>2. e.id = id /\ e.protocol = h
    OBVIOUS
  <2>3. /\ job' = [Command("replay", "walk", h) EXCEPT !.todo = <<e>>]
        /\ trials' = Put(trials, id, Row(e)) /\ UNCHANGED <<data, reports, recs>>
    BY <2>1 DEF Start
  <2> HIDE DEF e
  <2> QED BY <2>2, <2>3
<1> DEFINE rest == <<e>>
           c == Command("replay", "walk", h)
           j == [c EXCEPT !.todo = rest]
<1>2. /\ Formed(c) /\ c.at = "walk" /\ c.cmd = "replay" /\ c.h = h /\ c.window = 0
      /\ c.evals = <<>> /\ c.champions = <<>> /\ c.results = <<>>
  BY CommandFields
<1>3. /\ Formed(j) /\ j.at = "walk" /\ j.cmd = "replay" /\ j.h = h /\ j.window = 0
      /\ j.evals = <<>> /\ j.champions = <<>> /\ j.results = <<>> /\ j.todo = rest
  <2> HIDE DEF c, rest
  <2> QED BY <1>2 DEF Formed
<1>4. job' = j
  BY <1>1
<1>5. Listed(<<>>)
  BY ListedEmpty
<1>6. /\ Formed(job') /\ job'.at = "walk" /\ job'.cmd = "replay" /\ e.protocol = job'.h /\ job'.window \in Nat
      /\ job'.evals = <<>> /\ Listed(job'.evals) /\ Listed(job'.champions)
      /\ job'.results = <<>> /\ job'.todo = <<e>>
  <2>1. e.protocol = h
    BY <1>1
  <2> HIDE DEF j
  <2> QED BY <2>1, <1>3, <1>4, <1>5
<1> HIDE DEF j
<1> QED BY <1>1, <1>6, CandidateInv

LEMMA EvaluateCandidateInv == ASSUME LabInv, EvaluateCandidate PROVE LabInv'
<1>1. job.at = "research" /\ job.queue # <<>> /\ UNCHANGED <<data, reports, recs>>
  BY DEF EvaluateCandidate
<1>2. Formed(job) /\ job.cmd = "autoresearch" /\ Listed(job.queue) /\ ToSet(job.queue) \subseteq Valid
  BY <1>1 DEF LabInv, Shape, ResultsJudged
<1>3. /\ Head(job.queue) \in Valid /\ Listed(Tail(job.queue)) /\ ToSet(Tail(job.queue)) \subseteq Valid
  BY <1>1, <1>2, ListedTail
<1>4. PICK e : /\ e.metrics = Metrics(Head(job.queue), data, Snapshots)
               /\ trials' = Put(trials, e.id, Row(e))
               /\ job' = [job EXCEPT !.at = "walk", !.queue = Tail(@), !.todo = <<e>>]
  <2> DEFINE p == Head(job.queue)
             m == Metrics(p, data, Snapshots)
             e == [id |-> <<"cfg", Config[p]>>, params |-> p, metrics |-> m,
                   accepted |-> EnoughTrades(m, Protocol[job.h].minTrades, MaxVolume),
                   protocol |-> job.h, searched |-> TRUE]
  <2>1. e.metrics = m
    OBVIOUS
  <2>2. /\ trials' = Put(trials, e.id, Row(e))
        /\ job' = [job EXCEPT !.at = "walk", !.queue = Tail(@), !.todo = <<e>>]
    BY DEF EvaluateCandidate
  <2> HIDE DEF e
  <2> QED BY <2>1, <2>2
<1>5. e.metrics.exp \in Int
  BY <1>3, <1>4, WholeRange DEF LabInv, Results
<1>6. /\ Formed(job') /\ job'.at = "walk" /\ job'.cmd = job.cmd /\ job'.window = job.window
      /\ job'.evals = job.evals /\ job'.champions = job.champions /\ job'.results = job.results
      /\ job'.queue = Tail(job.queue) /\ job'.todo = <<e>>
  <2> DEFINE queue == Tail(job.queue)
             rest == <<e>>
             a == [job EXCEPT !.at = "walk"]
             b == [a EXCEPT !.queue = queue]
             c == [b EXCEPT !.todo = rest]
             Kept(n) == /\ Formed(n) /\ n.at = "walk" /\ n.cmd = job.cmd /\ n.window = job.window
                        /\ n.evals = job.evals /\ n.champions = job.champions /\ n.results = job.results
  <2>1. Kept(a) /\ a.queue = job.queue
    BY <1>2 DEF Formed
  <2>2. Kept(b) /\ b.queue = queue
    <3> HIDE DEF a, queue
    <3> QED BY <2>1 DEF Formed
  <2>3. Kept(c) /\ c.queue = queue /\ c.todo = rest
    <3> HIDE DEF b, queue, rest
    <3> QED BY <2>2 DEF Formed
  <2>4. job' = c
    BY <1>4, <2>1
  <2> QED BY <2>3, <2>4
<1>7. job.window \in Nat /\ Listed(job.evals) /\ Listed(job.champions)
  BY DEF LabInv, Shape
<1> QED BY <1>1, <1>2, <1>3, <1>4, <1>5, <1>6, <1>7, CandidateInv

LEMMA RankResultsInv == ASSUME LabInv, RankResults PROVE LabInv'
<1>1. PICK ranked \in Rankings(ToSet(job.results), ResultPrecedes) :
          job' = [job EXCEPT !.at = "publish", !.results = ranked, !.todo = ranked]
  BY DEF RankResults
<1>2. job.at = "research" /\ UNCHANGED <<data, trials, reports, recs>> /\ Formed(job) /\ job.cmd = "autoresearch"
  BY DEF RankResults, store, LabInv, Shape, ResultsJudged
<1>3. /\ Listed(ranked) /\ ToSet(ranked) = ToSet(job.results)
      /\ \A i, k \in DOMAIN ranked : i < k => ~ResultPrecedes(ranked[k], ranked[i])
  BY RankedResults DEF LabInv
<1>4. /\ Formed(job') /\ job'.at = "publish" /\ job'.cmd = job.cmd /\ job'.window = job.window
      /\ job'.evals = job.evals /\ job'.champions = job.champions /\ job'.queue = job.queue
      /\ job'.results = ranked /\ job'.todo = ranked
  <2> DEFINE a == [job EXCEPT !.at = "publish"]
             b == [a EXCEPT !.results = ranked]
             c == [b EXCEPT !.todo = ranked]
             Kept(n) == /\ Formed(n) /\ n.at = "publish" /\ n.cmd = job.cmd /\ n.window = job.window
                        /\ n.evals = job.evals /\ n.champions = job.champions /\ n.queue = job.queue
  <2>1. Kept(a)
    BY <1>2 DEF Formed
  <2>2. Kept(b) /\ b.results = ranked
    <3> HIDE DEF a
    <3> QED BY <2>1 DEF Formed
  <2>3. Kept(c) /\ c.results = ranked /\ c.todo = ranked
    <3> HIDE DEF b
    <3> QED BY <2>2 DEF Formed
  <2>4. job' = c
    BY <1>1
  <2> QED BY <2>3, <2>4
<1>5. Shape' /\ StudyStored'
  BY <1>2, <1>3, <1>4 DEF LabInv, Shape, StudyStored
<1>6. CandidatesStored' /\ EvidenceComplete'
  BY <1>2, <1>3, <1>4 DEF LabInv, CandidatesStored, EvidenceComplete
<1>7. FrontierKept' /\ NestedSelectionPassed' /\ VerdictGrounds'
  BY <1>2, <1>4 DEF LabInv, FrontierKept, NestedSelectionPassed, VerdictGrounds
<1>8. ResultsJudged'
  BY <1>2, <1>3, <1>4 DEF LabInv, ResultsJudged
<1> QED BY <1>5, <1>6, <1>7, <1>8 DEF LabInv

LEMMA PublishInv == ASSUME LabInv, Publish PROVE LabInv'
<1>1. PICK r, rec : /\ r = Head(job.todo) /\ recs' = Put(recs, r.eval.id, rec)
                    /\ job' = [job EXCEPT !.todo = Tail(@)]
  BY DEF Publish
<1>2. job.at = "publish" /\ job.todo # <<>> /\ UNCHANGED <<data, trials, reports>> /\ Formed(job) /\ Listed(job.todo)
  BY DEF Publish, LabInv, Shape
<1>3. /\ Listed(Tail(job.todo)) /\ r \in ToSet(job.todo) /\ ToSet(job.todo) = ToSet(Tail(job.todo)) \cup {r}
  BY <1>1, <1>2, ListedTail
<1>4. /\ Formed(job') /\ job'.at = "publish" /\ job'.cmd = job.cmd /\ job'.window = job.window
      /\ job'.evals = job.evals /\ job'.champions = job.champions /\ job'.queue = job.queue
      /\ job'.results = job.results /\ job'.todo = Tail(job.todo)
  <2> DEFINE rest == Tail(job.todo)
             a == [job EXCEPT !.todo = rest]
  <2>1. /\ Formed(a) /\ a.at = "publish" /\ a.cmd = job.cmd /\ a.window = job.window
        /\ a.evals = job.evals /\ a.champions = job.champions /\ a.queue = job.queue
        /\ a.results = job.results /\ a.todo = rest
    <3> HIDE DEF rest
    <3> QED BY <1>2 DEF Formed
  <2>2. job' = a
    BY <1>1
  <2> QED BY <2>1, <2>2
<1>5. DOMAIN recs' = DOMAIN recs \cup {r.eval.id}
  BY <1>1 DEF Put
<1>6. Shape' /\ StudyStored'
  BY <1>2, <1>3, <1>4 DEF LabInv, Shape, StudyStored
<1>7. r \in ToSet(job.results)
  BY <1>2, <1>3 DEF LabInv, CandidatesStored
<1>8. EvidenceComplete'
  BY <1>2, <1>5, <1>7 DEF LabInv, EvidenceComplete, CandidatesStored
<1>9. CandidatesStored'
  BY <1>2, <1>3, <1>4 DEF LabInv, CandidatesStored
<1>10. FrontierKept' /\ NestedSelectionPassed' /\ VerdictGrounds'
  BY <1>2, <1>4 DEF LabInv, FrontierKept, NestedSelectionPassed, VerdictGrounds
<1>11. ResultsJudged'
  BY <1>2, <1>3, <1>4, <1>5 DEF LabInv, ResultsJudged
<1> QED BY <1>6, <1>8, <1>9, <1>10, <1>11 DEF LabInv

LEMMA LabStep == ASSUME LabInv, [LabNext]_labVars PROVE LabInv'
<1>1. CASE UNCHANGED labVars
  BY <1>1, SameJob DEF labVars, LabInv, Shape
<1>2. CASE Collect
  BY <1>2, CollectInv
<1>3. CASE Abort \/ EndCommand \/ WriteBundle \/ BuildBundle
  BY <1>3, QuietEnd
<1>4. CASE StartOptimize
  BY <1>4, StartOptimizeInv
<1>5. CASE RunTrial
  BY <1>5, RunTrialInv
<1>6. CASE EndStudy
  BY <1>6, EndStudyInv
<1>7. CASE WalkForward
  BY <1>7, WalkForwardInv
<1>8. CASE Recommend
  BY <1>8, RecommendInv
<1>9. CASE EndWindow
  BY <1>9, EndWindowInv
<1>10. CASE SaveNested
  BY <1>10, SaveNestedInv
<1>11. CASE Replay
  BY <1>11, ReplayInv
<1>12. CASE StartAutoresearch
  BY <1>12, StartAutoresearchInv
<1>13. CASE EvaluateCandidate
  BY <1>13, EvaluateCandidateInv
<1>14. CASE RankResults
  BY <1>14, RankResultsInv
<1>15. CASE Publish
  BY <1>15, PublishInv
<1> QED BY <1>1, <1>2, <1>3, <1>4, <1>5, <1>6, <1>7, <1>8, <1>9, <1>10, <1>11, <1>12, <1>13, <1>14, <1>15
        DEF LabNext

(* What autoresearch bundles is the first of the results: were a passing one *)
(* better in expectancy, the ranking would put it before.                    *)
LEMMA BestResult ==
    ASSUME LabInv, job.at = "publish", job.results # <<>>, BundleAllowed(Head(job.results)),
           NEW s \in ToSet(job.results), s.report.passed
    PROVE  /\ Head(job.results).report.passed
           /\ s.eval.metrics.exp <= Head(job.results).eval.metrics.exp
<1> DEFINE r == Head(job.results)
<1>1. Listed(job.results)
  BY DEF LabInv, Shape
<1>2. r \in ToSet(job.results) /\ r = job.results[1] /\ 1 \in DOMAIN job.results
  BY <1>1, ListedTail
<1>3. "not_passed" \notin Risks(r.eval, r.report) /\ "fragile" \notin Risks(r.eval, r.report)
  BY DEF BundleAllowed, Blocking
<1>4. r.report.passed /\ ~r.report.fragile
  <2> HIDE DEF r
  <2>1. "not_passed" \notin RisksOfReport(r.eval, r.report) /\ "fragile" \notin RisksOfReport(r.eval, r.report)
    BY <1>3 DEF Risks
  <2> QED BY <2>1 DEF RisksOfReport
<1>5. ~s.report.fragile /\ s.eval.metrics.exp \in Int /\ r.eval.metrics.exp \in Int
  BY <1>2 DEF LabInv, ResultsJudged
<1>6. PICK k \in DOMAIN job.results : job.results[k] = s
  BY DEF ToSet
<1>7. CASE k = 1
  BY <1>2, <1>4, <1>5, <1>6, <1>7
<1>8. CASE k # 1
  <2>1. 1 < k
    BY <1>1, <1>6, <1>8, ListedLen
  <2>2. ~ResultPrecedes(s, r)
    BY <1>2, <1>6, <2>1 DEF LabInv, ResultsJudged
  <2>3. /\ ResultKey(s)[1] = 0 /\ ResultKey(s)[2] = 0 /\ ResultKey(s)[3] = -s.eval.metrics.exp
        /\ ResultKey(r)[1] = 0 /\ ResultKey(r)[2] = 0 /\ ResultKey(r)[3] = -r.eval.metrics.exp
        /\ 3 \in DOMAIN ResultKey(s)
    <3> HIDE DEF r
    <3> QED BY <1>4, <1>5 DEF ResultKey
  <2>4. \A j \in 1 .. 3 - 1 : ResultKey(s)[j] = ResultKey(r)[j]
    <3> SUFFICES ASSUME NEW j \in 1 .. 3 - 1 PROVE ResultKey(s)[j] = ResultKey(r)[j]
      OBVIOUS
    <3>1. j = 1 \/ j = 2
      OBVIOUS
    <3> QED BY <2>3, <3>1
  <2>5. ~(ResultKey(s)[3] < ResultKey(r)[3])
    <3> HIDE DEF r
    <3> QED BY <2>2, <2>3, <2>4 DEF ResultPrecedes, Lexicographic
  <2>6. s.eval.metrics.exp <= r.eval.metrics.exp
    <3> HIDE DEF r
    <3> QED BY <1>5, <2>3, <2>5
  <2> QED BY <1>4, <2>6
<1> QED BY <1>7, <1>8

LEMMA FrontierCovered == LabInv => FrontierCovers
<1> SUFFICES ASSUME LabInv, job.at = "walk", job.cmd = "optimize", job.todo = <<>>, job.window = 0,
                    NEW e \in ToSet(job.evals), e.accepted
             PROVE  \E f \in ToSet(job.evals) : /\ f.id \in DOMAIN recs /\ recs[f.id].settings = Config[f.params]
                                                /\ (f = e \/ Dominates(f, e))
  BY DEF FrontierCovers
<1>1. Listed(job.evals) /\ \A x \in ToSet(job.evals) : x.metrics \in Results
  BY DEF LabInv, Shape, StudyStored, ToSet
<1>2. PICK f \in Frontier(ToSet(job.evals)) : f = e \/ Dominates(f, e)
  BY <1>1, FrontierDominates
<1>3. f \in ToSet(job.evals)
  BY DEF Frontier
<1>4. f.id \in DOMAIN recs /\ recs[f.id].settings = Config[f.params]
  BY ListedEmpty DEF LabInv, FrontierKept
<1> QED BY <1>2, <1>3, <1>4

Earned ==
    answer' # answer => CASE answer'.kind = "verdict" -> VerdictEarned(answer')
                          [] answer'.kind = "bundle"  -> BundleEarned(answer')
                          [] OTHER                    -> TRUE

LEMMA AnswerEarned == ASSUME LabInv, [LabNext]_labVars PROVE Earned
<1>1. CASE Recommend
  <2> DEFINE e == Head(job.todo)
  <2> SUFFICES ASSUME answer' # answer PROVE Earned
    BY DEF Earned
  <2>1. /\ job.at = "recommend" /\ job.cmd = "replay" /\ UNCHANGED <<trials, reports>>
        /\ answer' = [kind |-> "verdict", id |-> e.id,
                      approved |-> Recommendation(e, job.report).risks = {}]
    BY <1>1 DEF Recommend
  <2>2. job.todo # <<>>
    BY <2>1 DEF LabInv, CandidatesStored
  <2>3. /\ trials[e.id] = Row(e) /\ reports[e.id] = job.report
        /\ job.report.params = e.params /\ job.report.protocol = e.protocol
    BY <2>1, <2>2 DEF LabInv, VerdictGrounds
  <2>4. answer'.approved => Risks(e, job.report) = {}
    BY <2>1 DEF Recommendation
  <2> HIDE DEF e
  <2>5. Risks(e, job.report) = {} =>
            e.accepted /\ job.report.passed /\ ~job.report.fragile /\ ~job.report.failures
    BY DEF Risks, RisksOfReport
  <2>6. VerdictEarned(answer')
    BY <2>1, <2>3, <2>4, <2>5 DEF VerdictEarned, Row
  <2> QED BY <2>1, <2>6 DEF Earned
<1>2. CASE WriteBundle
  <2> DEFINE r == Head(job.results)
  <2> SUFFICES ASSUME answer' # answer PROVE Earned
    BY DEF Earned
  <2>1. /\ job.at = "publish" /\ job.todo = <<>> /\ job.results # <<>> /\ BundleAllowed(r)
        /\ answer' = [kind |-> "bundle", id |-> r.eval.id, rec |-> recs[r.eval.id], auto |-> TRUE]
    BY <1>2 DEF WriteBundle
  <2>2. r \in ToSet(job.results)
    BY <2>1, ListedTail DEF LabInv, Shape
  <2>3. r.report.passed
    <3>1. "not_passed" \notin Risks(r.eval, r.report)
      BY <2>1 DEF BundleAllowed, Blocking
    <3> HIDE DEF r
    <3> QED BY <3>1 DEF Risks, RisksOfReport
  <2>4. \A s \in ToSet(job.results) : s.report.passed => s.eval.metrics.exp <= r.eval.metrics.exp
    BY <2>1, BestResult
  <2>5. \A s \in ToSet(job.results) : s.eval.id \in DOMAIN trials \cap DOMAIN reports \cap DOMAIN recs
    BY <2>1, ListedEmpty DEF LabInv, CandidatesStored, ResultsJudged
  <2> HIDE DEF r
  <2>6. BundleEarned(answer')
    BY <2>1, <2>2, <2>3, <2>4, <2>5 DEF BundleEarned
  <2> QED BY <2>1, <2>6 DEF Earned
<1>3. CASE BuildBundle
  <2>1. answer'.kind = "bundle" /\ answer'.auto = FALSE
    BY <1>3 DEF BuildBundle
  <2> QED BY <2>1 DEF Earned, BundleEarned
<1>4. CASE answer' = answer
  BY <1>4 DEF Earned
<1> QED BY <1>1, <1>2, <1>3, <1>4
        DEF LabNext, labVars, Collect, Abort, StartOptimize, RunTrial, EndStudy, WalkForward, EndCommand,
            EndWindow, SaveNested, Replay, StartAutoresearch, EvaluateCandidate, RankResults, Publish

LEMMA LabAlways == LabSpec => []LabInv /\ [][Earned]_labVars
<1>1. LabInv /\ [LabNext]_labVars => LabInv' /\ Earned
  BY LabStep, AnswerEarned
<1> QED BY LabInitInv, <1>1, PTL DEF LabSpec

(* Research lab: a recommendation in the store has its walk-forward report *)
(* there, and its trial unless it is a nested candidate's, wherever a      *)
(* command is cut off (the save order of every command).                   *)
THEOREM EvidenceStored == LabSpec => []EvidenceComplete
<1>1. LabInv => EvidenceComplete
  BY DEF LabInv
<1> QED BY LabAlways, <1>1, PTL

(* Research lab: every accepted trial of a finished study is recommended or *)
(* dominated by one that is, and a nested report that passed selects a      *)
(* candidate that passed a window itself.                                   *)
THEOREM NothingGoodLost == LabSpec => []SelectionsJustified
<1>1. LabInv => SelectionsJustified
  BY FrontierCovered DEF LabInv, SelectionsJustified
<1> QED BY LabAlways, <1>1, PTL

(* Research lab: an approval is said only of a candidate whose stored trial *)
(* and report earn it, and a bundle is written only of the best result.     *)
THEOREM ApprovalEarned == LabSpec => AnswersAreEarned
<1> QED BY LabAlways, PTL DEF AnswersAreEarned, Earned
=============================================================================
