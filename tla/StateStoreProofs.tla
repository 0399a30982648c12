-------------------------- MODULE StateStoreProofs --------------------------
(***************************************************************************)
(* Proofs, for any number of trades and days, wherever operations are cut  *)
(* off and whatever the monitor's process commits in between, that         *)
(* daily_metrics agrees with trade_log after every commit, that decisions  *)
(* are handed the numbers of the tables, and that only two things end a    *)
(* safe mode.  For the last two, Streak and Drawdown are whatever they are: *)
(* what counts is which statements come before a read or a save.           *)
(*                                                                         *)
(* And of what the signal pipeline reads back from the store and keeps in  *)
(* memory, for every market and every parameter: the divergence history    *)
(* stays long enough, governance approves no level twice, and every        *)
(* candidate rests on a cluster of old levels that the last candle broke   *)
(* on the side of its trade, with stop and targets around the entry.       *)
(***************************************************************************)
EXTENDS StateStore, SignalPipeline, FiniteSetTheorems, SequenceTheorems, WellFoundedInduction, TLAPS

(* What the proof needs to know of the types: no more than the days.        *)
DaysOK ==
    /\ opened \in [Trades -> 0 .. LastDay]
    /\ closings \in Seq(Closings)
    /\ DOMAIN counts = Days
    /\ todo \in Seq(Steps)
    /\ today \in Days

LEMMA HeadStep == ASSUME todo \in Seq(Steps), todo # <<>>
                  PROVE  Head(todo) \in Steps /\ Tail(todo) \in Seq(Steps)
  OBVIOUS

LEMMA StepDay == ASSUME NEW s \in Steps PROVE s.day \in Days
  BY DEF Steps

LEMMA AfterSyncSteps == ASSUME NEW d \in Days
                        PROVE  /\ AfterSync(d) \in Seq(Steps)
                               /\ Refresh(d) \in Seq(Steps)
<1>1. <<Do("load", d), Do("derived", d), Do("sync", d)>> \in Seq(Steps)
      /\ <<Do("sync", d)>> \in Seq(Steps)
  BY DEF Do, Steps, Changes
<1> QED BY <1>1 DEF AfterSync, Refresh

(* A trade without a row enters the counts of its own day only. *)
LEMMA OpeningCounts ==
    ASSUME DaysOK, NEW t \in Trades, opened[t] = 0, NEW d \in Days, NEW e \in Days, e # d
    PROVE  CountsOf(e, [opened EXCEPT ![t] = d], closings) = CountsOf(e, opened, closings)
<1>1. 0 \notin Days
  BY LastDayAssumption DEF Days
<1>2. LoggedOn(e, [opened EXCEPT ![t] = d]) = LoggedOn(e, opened)
  BY <1>1 DEF LoggedOn, DaysOK
<1> QED BY <1>2 DEF CountsOf

(* A settlement enters the counts of the day its trade was opened on only. *)
LEMMA ClosingCounts ==
    ASSUME DaysOK, NEW c \in Closings, NEW e \in Days, e # opened[c.trade]
    PROVE  CountsOf(e, opened, Append(closings, c)) = CountsOf(e, opened, closings)
<1> DEFINE longer == Append(closings, c)
           own(seq) == {i \in DOMAIN seq : seq[i].trade \in LoggedOn(e, opened)}
<1>1. closings \in Seq(Closings) /\ c.trade \notin LoggedOn(e, opened)
  BY DEF DaysOK, LoggedOn
<1>2. /\ DOMAIN longer = DOMAIN closings \cup {Len(closings) + 1}
      /\ longer[Len(closings) + 1] = c
      /\ \A i \in DOMAIN closings : longer[i] = closings[i] /\ i # Len(closings) + 1
  BY <1>1
<1> HIDE DEF longer
<1>3. own(longer) = own(closings)
  BY <1>1, <1>2
<1>4. /\ {i \in own(longer) : longer[i].pnl > 0} = {i \in own(closings) : closings[i].pnl > 0}
      /\ {i \in own(longer) : longer[i].pnl < 0} = {i \in own(closings) : closings[i].pnl < 0}
  BY <1>2, <1>3
<1>5. CountsOf(e, opened, longer) = CountsOf(e, opened, closings)
  BY <1>3, <1>4 DEF CountsOf
<1> QED BY <1>5 DEF longer

(* A sync of day d repairs the counts if no other day's have changed.      *)
LEMMA SyncKeepsExact ==
    ASSUME DailyCountsExact, DOMAIN counts = Days, NEW d \in Days,
           \A e \in Days \ {d} : CountsOf(e, opened', closings') = CountsOf(e, opened, closings),
           counts' = [counts EXCEPT ![d] = CountsOf(d, opened', closings')]
    PROVE  DailyCountsExact' /\ DOMAIN counts' = Days
<1>1. \A e \in Days : counts'[e] = CountsOf(e, opened', closings')
  BY DEF DailyCountsExact
<1> QED BY <1>1 DEF DailyCountsExact

LEMMA BeginKeeps ==
    ASSUME DaysOK, DailyCountsExact, NEW d \in Days, NEW then \in Seq(Steps), Begin(d, then)
    PROVE  DaysOK' /\ DailyCountsExact'
<1>1. DailyCountsExact' /\ DOMAIN counts' = Days
  BY SyncKeepsExact DEF DaysOK, Begin, SyncDailyMetrics, tables
<1>2. todo' \in Seq(Steps)
  BY AfterSyncSteps DEF Begin
<1> QED BY <1>1, <1>2 DEF DaysOK, Begin, tables

LEMMA StatementKeeps ==
    ASSUME DaysOK, DailyCountsExact, Statement
    PROVE  DaysOK' /\ DailyCountsExact'
<1>1. Head(todo) \in Steps /\ Tail(todo) \in Seq(Steps)
  BY HeadStep DEF DaysOK, Statement
<1>2. CASE Sync
  <2>1. DailyCountsExact' /\ DOMAIN counts' = Days
    BY <1>1, <1>2, StepDay, SyncKeepsExact DEF DaysOK, Statement, Sync, SyncDailyMetrics, tables
  <2> QED BY <2>1, <1>1 DEF DaysOK, Statement, tables
<1>3. CASE Load \/ Save \/ Read
  BY <1>1, <1>3 DEF DaysOK, DailyCountsExact, Statement, Load, Save, Read, tables
<1> QED BY <1>2, <1>3 DEF Statement

LEMMA RecordKeeps ==
    ASSUME DaysOK, DailyCountsExact, NEW t \in Trades, NEW d \in Days, RecordTradeOpen(t, d)
    PROVE  DaysOK' /\ DailyCountsExact'
<1>1. opened' = [opened EXCEPT ![t] = d] /\ closings' = closings /\ opened[t] = 0
  BY DEF RecordTradeOpen
<1>2. \A e \in Days \ {d} : CountsOf(e, opened', closings') = CountsOf(e, opened, closings)
  BY <1>1, OpeningCounts
<1>3. DailyCountsExact' /\ DOMAIN counts' = Days
  BY <1>1, <1>2, SyncKeepsExact DEF DaysOK, RecordTradeOpen, SyncDailyMetrics
<1>4. <<Do("traded", d), Do("sync", d)>> \in Seq(Steps)
  BY DEF Do, Steps, Changes
<1>5. todo' \in Seq(Steps)
  BY <1>4, AfterSyncSteps DEF RecordTradeOpen
<1>6. opened' \in [Trades -> 0 .. LastDay]
  BY <1>1, LastDayAssumption DEF DaysOK, Days
<1> QED BY <1>1, <1>3, <1>5, <1>6 DEF DaysOK, RecordTradeOpen

LEMMA SettleKeeps ==
    ASSUME DaysOK, DailyCountsExact, NEW t \in Trades, NEW d \in Days, NEW pnl \in Pnls,
           SettleTradeClose(t, d, pnl)
    PROVE  DaysOK' /\ DailyCountsExact'
<1> DEFINE c == [trade |-> t, day |-> d, pnl |-> pnl]
<1>1. c \in Closings /\ c.trade = t
  BY DEF Closings
<1>2. closings' = Append(closings, c) /\ opened' = opened
  BY DEF SettleTradeClose
<1>3. opened[t] \in Days
  BY LastDayAssumption DEF SettleTradeClose, DaysOK, Days
<1> HIDE DEF c
<1>4. \A e \in Days \ {opened[t]} : CountsOf(e, opened', closings') = CountsOf(e, opened, closings)
  BY <1>1, <1>2, ClosingCounts
<1>5. DailyCountsExact' /\ DOMAIN counts' = Days
  BY <1>2, <1>3, <1>4, SyncKeepsExact DEF DaysOK, SettleTradeClose, SyncDailyMetrics
<1>6. <<Do("sync", d)>> \in Seq(Steps) /\ <<Do("traded", d)>> \in Seq(Steps)
  BY DEF Do, Steps, Changes
<1>7. todo' \in Seq(Steps)
  BY <1>6, AfterSyncSteps DEF SettleTradeClose
<1>8. closings' \in Seq(Closings)
  BY <1>1, <1>2 DEF DaysOK
<1> QED BY <1>2, <1>5, <1>7, <1>8 DEF DaysOK, SettleTradeClose

LEMMA NextKeeps == ASSUME DaysOK, DailyCountsExact, Next
                   PROVE  DaysOK' /\ DailyCountsExact'
<1> USE DEF DaysOK
<1>1. \A d \in Days, do \in Changes \cup {"read"} : <<Do(do, d)>> \in Seq(Steps)
  BY DEF Do, Steps
<1>2. CASE Statement
  BY <1>2, StatementKeeps
<1>3. CASE MarkError \/ MarkHealthy
  BY <1>1, <1>3, BeginKeeps DEF MarkError, MarkHealthy, Changes
<1>4. CASE CutOff \/ ApplySafeMode \/ Midnight
  <2>1. UNCHANGED <<opened, closings, counts>>
    BY <1>4 DEF CutOff, ApplySafeMode, Midnight, tables
  <2>2. DailyCountsExact'
    BY <2>1 DEF DailyCountsExact
  <2>3. todo' \in Seq(Steps)
    <3>1. todo' = <<>> \/ todo' = todo
      BY <1>4 DEF CutOff, ApplySafeMode, Midnight
    <3>2. todo \in Seq(Steps) /\ <<>> \in Seq(Steps)
      OBVIOUS
    <3> QED BY <3>1, <3>2
  <2>4. today' \in Days
    BY <1>4, LastDayAssumption DEF CutOff, ApplySafeMode, Midnight, Days
  <2> QED BY <2>1, <2>2, <2>3, <2>4
<1>5. ASSUME NEW d \in Stamps,
             \/ GetState(d) \/ SendDailySummary(d)
             \/ \E enabled \in BOOLEAN : SetSafeMode(enabled, d)
             \/ \E t \in Trades :
                    RecordTradeOpen(t, d) \/ \E pnl \in Pnls : SettleTradeClose(t, d, pnl)
      PROVE  DaysOK' /\ DailyCountsExact'
  <2>1. d \in Days
    BY DEF Stamps
  <2>2. CASE GetState(d)
    BY <1>1, <2>1, <2>2, BeginKeeps DEF GetState
  <2>3. CASE SendDailySummary(d)
    <3>1. DailyCountsExact' /\ DOMAIN counts' = Days
      BY <2>1, <2>3, SyncKeepsExact DEF SendDailySummary, SyncDailyMetrics, tables
    <3> QED BY <2>3, <3>1 DEF SendDailySummary, tables
  <2>4. ASSUME NEW enabled \in BOOLEAN, SetSafeMode(enabled, d)
        PROVE  DaysOK' /\ DailyCountsExact'
    BY <1>1, <2>1, <2>4, BeginKeeps DEF SetSafeMode, Changes
  <2>5. ASSUME NEW t \in Trades, RecordTradeOpen(t, d)
        PROVE  DaysOK' /\ DailyCountsExact'
    BY <2>1, <2>5, RecordKeeps
  <2>6. ASSUME NEW t \in Trades, NEW pnl \in Pnls, SettleTradeClose(t, d, pnl)
        PROVE  DaysOK' /\ DailyCountsExact'
    BY <2>1, <2>6, SettleKeeps
  <2> QED BY <1>5, <2>2, <2>3, <2>4, <2>5, <2>6
<1> QED BY <1>2, <1>3, <1>4, <1>5 DEF Next

LEMMA InitExact == ASSUME Init PROVE DaysOK /\ DailyCountsExact
<1>1. DaysOK
  BY LastDayAssumption DEF Init, DaysOK, Days
<1>2. ASSUME NEW d \in Days
      PROVE  CountsOf(d, opened, closings) = [trades |-> 0, wins |-> 0, losses |-> 0]
  <2>1. LoggedOn(d, opened) = {}
    BY <1>2 DEF Init, LoggedOn, Days
  <2>2. {i \in DOMAIN closings : closings[i].trade \in LoggedOn(d, opened)} = {}
    BY <2>1
  <2>3. Cardinality({}) = 0
    BY FS_EmptySet
  <2> QED BY <2>1, <2>2, <2>3 DEF CountsOf
<1> QED BY <1>1, <1>2 DEF DailyCountsExact, Init

(* The daily counts are exact after every commit: no cut-off operation and  *)
(* no other writer of bot_state can make governance miscount a day's trades. *)
THEOREM CountsExact == Spec => []DailyCountsExact
<1>1. Init => DaysOK /\ DailyCountsExact
  BY InitExact
<1>2. DaysOK /\ DailyCountsExact /\ [Next]_vars => (DaysOK /\ DailyCountsExact)'
  <2>1. CASE Next
    BY <2>1, NextKeeps
  <2>2. CASE UNCHANGED vars
    BY <2>2 DEF vars, tables, DaysOK, DailyCountsExact
  <2> QED BY <2>1, <2>2
<1> QED BY <1>1, <1>2, PTL DEF Spec

-----------------------------------------------------------------------------
(* What the statements still to come rely on *)

Columns == {"safe", "healthy", "open", "streak", "dd"}

AsInTables(d) == copy.streak = Streak(d) /\ copy.dd = Drawdown(d) /\ copy.open = OpenCount

LoadBefore(seq, i) == \E j \in 1 .. i - 1 : seq[j].do = "load"

(* An operation works for one day, and what enters or clears safe mode is   *)
(* its last statement.                                                     *)
Orderly(seq) ==
    /\ \A i, j \in DOMAIN seq : seq[i].day = seq[j].day
    /\ \A i \in DOMAIN seq : seq[i].do \in {"enter", "clear"} => i = Len(seq)

(* A read is preceded by a load, if that has not been done already.         *)
ReadsPrepared ==
    \A i \in DOMAIN todo :
        todo[i].do = "read" => AsInTables(todo[i].day) \/ LoadBefore(todo, i)

(* So is a save; between the two only the monitor changes safe mode.        *)
SavesPrepared ==
    \A i \in DOMAIN todo :
        todo[i].do \in Changes => outdated \/ copy.safe = state.safe \/ LoadBefore(todo, i)

RowsOK ==
    /\ todo \in Seq(Steps) /\ today \in Days
    /\ DOMAIN state = Columns /\ DOMAIN copy = Columns

PlanInv == RowsOK /\ Orderly(todo) /\ ReadsPrepared /\ SavesPrepared

LEMMA Joined ==
    ASSUME NEW p \in Seq(Steps), NEW q \in Seq(Steps)
    PROVE  /\ p \o q \in Seq(Steps) /\ Len(p \o q) = Len(p) + Len(q)
           /\ DOMAIN (p \o q) = 1 .. Len(p) + Len(q)
           /\ \A i \in 1 .. Len(p) : (p \o q)[i] = p[i]
           /\ \A i \in 1 .. Len(q) : (p \o q)[Len(p) + i] = q[i]
  BY ConcatProperties

(* refresh_runtime_state, statement by statement. *)
LEMMA RefreshSteps ==
    ASSUME NEW d \in Days
    PROVE  /\ AfterSync(d) \in Seq(Steps) /\ Len(AfterSync(d)) = 3
           /\ AfterSync(d)[1] = Do("load", d) /\ AfterSync(d)[2] = Do("derived", d)
           /\ AfterSync(d)[3] = Do("sync", d)
  BY AfterSyncSteps DEF AfterSync

LEMMA FreshKept ==
    ASSUME UNCHANGED <<opened, closings, copy>>, NEW d
    PROVE  AsInTables(d)' <=> AsInTables(d)
<1>1. Streak(d)' = Streak(d) /\ Drawdown(d)' = Drawdown(d)
  BY DEF Streak, Drawdown
<1>2. OpenCount' = OpenCount
  BY DEF OpenCount, IsClosed
<1> QED BY <1>1, <1>2 DEF AsInTables

LEMMA PlanKept ==
    ASSUME PlanInv, UNCHANGED <<opened, closings, copy, todo>>, today' \in Days,
           DOMAIN state' = DOMAIN state, outdated' \/ (outdated' = outdated /\ state' = state)
    PROVE  PlanInv'
<1>1. ReadsPrepared'
  <2>1. ASSUME NEW i \in DOMAIN todo, todo[i].do = "read", ~LoadBefore(todo, i),
               NEW d, d = todo[i].day
        PROVE  AsInTables(d)'
    BY <2>1, FreshKept DEF PlanInv, ReadsPrepared
  <2> QED BY <2>1 DEF ReadsPrepared
<1>2. SavesPrepared'
  BY DEF PlanInv, SavesPrepared
<1> QED BY <1>1, <1>2 DEF PlanInv, RowsOK

LEMMA InitPlan == Init => PlanInv
  BY LastDayAssumption
     DEF Init, PlanInv, RowsOK, Orderly, ReadsPrepared, SavesPrepared, Columns, Days

(* An operation that loads before it reads or saves anything.               *)
LEMMA PlanMade ==
    ASSUME PlanInv, UNCHANGED <<state, copy>>, today' \in Days,
           todo' \in Seq(Steps), Orderly(todo'),
           \A i \in DOMAIN todo' : todo'[i].do \in Changes \cup {"read"} => LoadBefore(todo', i)
    PROVE  PlanInv'
  BY DEF PlanInv, RowsOK, Orderly, ReadsPrepared, SavesPrepared, LoadBefore

LEMMA BeginPlans ==
    ASSUME PlanInv, NEW d \in Days, NEW then \in Seq(Steps), Begin(d, then),
           \A i \in DOMAIN then : then[i].day = d, Orderly(then)
    PROVE  PlanInv'
<1> DEFINE start == AfterSync(d)
           plan  == start \o then
<1>1. /\ start \in Seq(Steps) /\ Len(start) = 3 /\ start[1] = Do("load", d)
      /\ start[2] = Do("derived", d) /\ start[3] = Do("sync", d)
  BY RefreshSteps
<1>2. /\ plan \in Seq(Steps) /\ Len(plan) = 3 + Len(then) /\ DOMAIN plan = 1 .. 3 + Len(then)
      /\ plan[1] = Do("load", d) /\ plan[2] = Do("derived", d) /\ plan[3] = Do("sync", d)
      /\ \A i \in 1 .. Len(then) : plan[3 + i] = then[i]
  <2> HIDE DEF start
  <2>1. /\ plan \in Seq(Steps) /\ Len(plan) = Len(start) + Len(then)
        /\ DOMAIN plan = 1 .. Len(start) + Len(then)
        /\ \A i \in 1 .. Len(start) : plan[i] = start[i]
        /\ \A i \in 1 .. Len(then) : plan[Len(start) + i] = then[i]
    BY <1>1, Joined
  <2> HIDE DEF plan
  <2> QED BY <1>1, <2>1
<1>3. todo' = plan /\ UNCHANGED <<state, copy, today>>
  BY DEF Begin
<1> HIDE DEF plan
<1>4. /\ plan[1].do = "load"
      /\ \A i \in 1 .. 3 : plan[i].day = d /\ plan[i].do \notin {"enter", "clear"}
  <2>1. \A i \in 1 .. 3 : i = 1 \/ i = 2 \/ i = 3
    OBVIOUS
  <2> QED BY <1>2, <2>1 DEF Do
<1>5. \A i \in DOMAIN plan : i \in 1 .. 3 \/ (i - 3 \in 1 .. Len(then) /\ plan[i] = then[i - 3])
  <2> SUFFICES ASSUME NEW i \in 4 .. 3 + Len(then) PROVE i - 3 \in 1 .. Len(then) /\ plan[i] = then[i - 3]
    BY <1>2
  <2>1. i - 3 \in 1 .. Len(then) /\ 3 + (i - 3) = i
    OBVIOUS
  <2> QED BY <1>2, <2>1
<1>6. Orderly(plan)
  <2>1. \A i \in DOMAIN plan : plan[i].day = d
    BY <1>4, <1>5
  <2>2. ASSUME NEW i \in DOMAIN plan, plan[i].do \in {"enter", "clear"} PROVE i = Len(plan)
    <3>1. i - 3 \in 1 .. Len(then) /\ plan[i] = then[i - 3]
      BY <1>4, <1>5, <2>2
    <3>2. i - 3 = Len(then)
      BY <2>2, <3>1 DEF Orderly
    <3> QED BY <1>2, <3>2
  <2> QED BY <2>1, <2>2 DEF Orderly
<1>7. \A i \in DOMAIN plan : plan[i].do \in Changes \cup {"read"} => LoadBefore(plan, i)
  BY <1>2, <1>4 DEF LoadBefore, Changes
<1> QED BY <1>2, <1>3, <1>6, <1>7, PlanMade DEF PlanInv, RowsOK

LEMMA StatementPlans == ASSUME PlanInv, Statement PROVE PlanInv'
<1> DEFINE s == Head(todo)
<1>1. /\ s \in Steps /\ todo # <<>> /\ todo' = Tail(todo) /\ todo' \in Seq(Steps)
      /\ UNCHANGED <<opened, closings, today>>
  BY HeadStep DEF PlanInv, RowsOK, Statement, tables
<1>2. /\ DOMAIN todo = 1 .. Len(todo) /\ Len(todo) \in Nat \ {0} /\ s = todo[1] /\ 1 \in DOMAIN todo
      /\ DOMAIN todo' = 1 .. Len(todo) - 1 /\ Len(todo') = Len(todo) - 1
      /\ \A i \in DOMAIN todo' : i + 1 \in DOMAIN todo /\ todo'[i] = todo[i + 1]
  BY <1>1 DEF PlanInv, RowsOK
<1> HIDE DEF s
<1>3. Orderly(todo')
  BY <1>2 DEF PlanInv, Orderly
<1>4. \A d \in Days : Streak(d)' = Streak(d) /\ Drawdown(d)' = Drawdown(d)
  BY <1>1 DEF Streak, Drawdown
<1>5. OpenCount' = OpenCount
  BY <1>1 DEF OpenCount, IsClosed
<1> PICK day \in Days : day = s.day
  BY <1>1, StepDay
<1>6. \A i \in DOMAIN todo' : todo'[i].day = day
  BY <1>2 DEF PlanInv, Orderly
<1>7. ASSUME s.do # "load", NEW i \in DOMAIN todo', LoadBefore(todo, i + 1)
      PROVE  LoadBefore(todo', i)
  <2>1. PICK j \in 1 .. i : todo[j].do = "load"
    BY <1>2, <1>7 DEF LoadBefore
  <2>2. j # 1 /\ j - 1 \in 1 .. i - 1 /\ j - 1 \in DOMAIN todo'
    BY <1>2, <1>7, <2>1
  <2>3. todo'[j - 1].do = "load"
    BY <1>2, <2>1, <2>2
  <2> QED BY <2>2, <2>3 DEF LoadBefore
<1>8. CASE Load
  <2>1. copy' = Loaded(day) /\ state' = state
    BY <1>8 DEF Load, s
  <2>2. /\ copy'.streak = Streak(day) /\ copy'.dd = Drawdown(day) /\ copy'.open = OpenCount
        /\ copy'.safe = state.safe /\ DOMAIN copy' = Columns
    BY <2>1 DEF Loaded, PlanInv, RowsOK, Columns
  <2>3. AsInTables(day)'
    BY <1>4, <1>5, <2>2 DEF AsInTables
  <2>4. ReadsPrepared'
    BY <1>6, <2>3 DEF ReadsPrepared
  <2>5. SavesPrepared'
    BY <2>1, <2>2 DEF SavesPrepared
  <2> QED BY <1>1, <1>3, <2>1, <2>2, <2>4, <2>5 DEF PlanInv, RowsOK
<1>9. CASE Sync \/ Read \/ Save
  <2>1. copy' = copy /\ outdated' = outdated /\ s.do # "load"
    BY <1>9 DEF Sync, Read, Save, Changes, s
  <2>2. ReadsPrepared'
    <3> SUFFICES ASSUME NEW i \in DOMAIN todo', todo'[i].do = "read", ~LoadBefore(todo', i)
                 PROVE  AsInTables(day)'
      BY <1>6 DEF ReadsPrepared
    <3>1. ~LoadBefore(todo, i + 1)
      BY <1>7, <2>1
    <3>2. AsInTables(day)
      BY <1>2, <1>6, <3>1 DEF PlanInv, ReadsPrepared
    <3> QED BY <1>1, <2>1, <3>2, FreshKept
  <2>3. CASE state' = state
    <3>1. SavesPrepared'
      <4> SUFFICES ASSUME NEW i \in DOMAIN todo', todo'[i].do \in Changes, ~LoadBefore(todo', i)
                   PROVE  outdated \/ copy.safe = state.safe
        BY <2>1, <2>3 DEF SavesPrepared
      <4>1. ~LoadBefore(todo, i + 1)
        BY <1>7, <2>1
      <4> QED BY <1>2, <4>1 DEF PlanInv, SavesPrepared
    <3> QED BY <1>1, <1>3, <2>1, <2>2, <2>3, <3>1 DEF PlanInv, RowsOK
  <2>4. CASE Save
    <3>1. state' = Changed(copy, s.do) /\ s.do \in Changes
      BY <2>4 DEF Save, s
    <3>2. /\ DOMAIN state' = Columns
          /\ s.do \notin {"enter", "clear"} => state'.safe = copy.safe
      BY <3>1 DEF Changed, Changes, PlanInv, RowsOK, Columns
    <3>3. s.do \in {"enter", "clear"} => DOMAIN todo' = {}
      BY <1>2 DEF PlanInv, Orderly
    <3>4. SavesPrepared'
      BY <2>1, <3>2, <3>3 DEF SavesPrepared
    <3> QED BY <1>1, <1>3, <2>1, <2>2, <3>2, <3>4 DEF PlanInv, RowsOK
  <2> QED BY <1>9, <2>3, <2>4 DEF Sync, Read
<1> QED BY <1>8, <1>9 DEF Statement

LEMMA RecordPlans ==
    ASSUME PlanInv, NEW t \in Trades, NEW d \in Days, RecordTradeOpen(t, d)
    PROVE  PlanInv'
<1> DEFINE then == <<Do("traded", d), Do("sync", d)>>
<1>1. then \in Seq(Steps) /\ Len(then) = 2 /\ then[1] = Do("traded", d) /\ then[2] = Do("sync", d)
  BY DEF Do, Steps, Changes
<1>2. todo' = AfterSync(d) \o then
  BY DEF RecordTradeOpen
<1> HIDE DEF then
<1>3. /\ todo' \in Seq(Steps) /\ DOMAIN todo' = 1 .. 5 /\ Len(todo') = 5
      /\ todo'[1] = Do("load", d) /\ todo'[2] = Do("derived", d) /\ todo'[3] = Do("sync", d)
      /\ todo'[4] = Do("traded", d) /\ todo'[5] = Do("sync", d)
  <2> DEFINE start == AfterSync(d)
  <2>1. /\ start \in Seq(Steps) /\ Len(start) = 3 /\ start[1] = Do("load", d)
        /\ start[2] = Do("derived", d) /\ start[3] = Do("sync", d)
    BY RefreshSteps
  <2>2. /\ todo' \in Seq(Steps) /\ Len(todo') = Len(start) + Len(then)
        /\ DOMAIN todo' = 1 .. Len(start) + Len(then)
        /\ \A i \in 1 .. Len(start) : todo'[i] = start[i]
        /\ \A i \in 1 .. Len(then) : todo'[Len(start) + i] = then[i]
    BY <1>1, <1>2, <2>1, Joined
  <2> HIDE DEF start
  <2>3. todo'[3 + 1] = then[1] /\ todo'[3 + 2] = then[2]
    BY <1>1, <2>1, <2>2
  <2> QED BY <1>1, <2>1, <2>2, <2>3
<1>4. \A i \in 1 .. 5 : i = 1 \/ i = 2 \/ i = 3 \/ i = 4 \/ i = 5
  OBVIOUS
<1>5. Orderly(todo')
  BY <1>3, <1>4 DEF Orderly, Do
<1>6. \A i \in DOMAIN todo' : todo'[i].do \in Changes \cup {"read"} => LoadBefore(todo', i)
  BY <1>3, <1>4 DEF LoadBefore, Changes, Do
<1> QED BY <1>3, <1>5, <1>6, PlanMade DEF RecordTradeOpen, PlanInv, RowsOK

LEMMA SettlePlans ==
    ASSUME PlanInv, NEW t \in Trades, NEW d \in Days, NEW pnl \in Pnls, SettleTradeClose(t, d, pnl)
    PROVE  PlanInv'
<1> DEFINE sync   == <<Do("sync", d)>>
           traded == <<Do("traded", d)>>
           first  == sync \o Refresh(d)
<1>1. /\ sync \in Seq(Steps) /\ Len(sync) = 1 /\ sync[1] = Do("sync", d)
      /\ traded \in Seq(Steps) /\ Len(traded) = 1 /\ traded[1] = Do("traded", d)
  BY DEF Do, Steps, Changes
<1>2. Refresh(d) = sync \o AfterSync(d) /\ todo' = first \o traded
  BY DEF SettleTradeClose, Refresh
<1> HIDE DEF sync, traded
<1>3. /\ Refresh(d) \in Seq(Steps) /\ Len(Refresh(d)) = 4 /\ Refresh(d)[1] = Do("sync", d)
      /\ Refresh(d)[1 + 1] = Do("load", d) /\ Refresh(d)[1 + 2] = Do("derived", d)
      /\ Refresh(d)[1 + 3] = Do("sync", d)
  <2> DEFINE start == AfterSync(d)
  <2>1. /\ start \in Seq(Steps) /\ Len(start) = 3 /\ start[1] = Do("load", d)
        /\ start[2] = Do("derived", d) /\ start[3] = Do("sync", d)
    BY RefreshSteps
  <2> HIDE DEF start
  <2> DEFINE rest == sync \o start
  <2>3. /\ rest \in Seq(Steps) /\ Len(rest) = Len(sync) + Len(start)
        /\ \A i \in 1 .. Len(sync) : rest[i] = sync[i]
        /\ \A i \in 1 .. Len(start) : rest[Len(sync) + i] = start[i]
    BY <1>1, <2>1, Joined
  <2>4. Refresh(d) = rest
    BY <1>2 DEF start
  <2> HIDE DEF rest
  <2>5. rest[1 + 1] = start[1] /\ rest[1 + 2] = start[2] /\ rest[1 + 3] = start[3]
    BY <1>1, <2>1, <2>3
  <2> QED BY <1>1, <2>1, <2>3, <2>4, <2>5
<1>4. /\ first \in Seq(Steps) /\ Len(first) = 5 /\ first[1] = Do("sync", d)
      /\ first[2] = Do("sync", d) /\ first[3] = Do("load", d) /\ first[4] = Do("derived", d)
      /\ first[5] = Do("sync", d)
  <2>1. /\ first \in Seq(Steps) /\ Len(first) = Len(sync) + Len(Refresh(d))
        /\ \A i \in 1 .. Len(sync) : first[i] = sync[i]
        /\ \A i \in 1 .. Len(Refresh(d)) : first[Len(sync) + i] = Refresh(d)[i]
    BY <1>1, <1>3, Joined
  <2> HIDE DEF first
  <2>2. /\ first[1 + 1] = Refresh(d)[1] /\ first[1 + 2] = Refresh(d)[2]
        /\ first[1 + 3] = Refresh(d)[3] /\ first[1 + 4] = Refresh(d)[4]
    BY <1>1, <1>3, <2>1
  <2> QED BY <1>1, <1>3, <2>1, <2>2
<1> HIDE DEF first
<1>5. /\ todo' \in Seq(Steps) /\ DOMAIN todo' = 1 .. 6 /\ Len(todo') = 6
      /\ todo'[1] = Do("sync", d) /\ todo'[2] = Do("sync", d) /\ todo'[3] = Do("load", d)
      /\ todo'[4] = Do("derived", d) /\ todo'[5] = Do("sync", d) /\ todo'[6] = Do("traded", d)
  <2>1. /\ todo' \in Seq(Steps) /\ Len(todo') = Len(first) + Len(traded)
        /\ DOMAIN todo' = 1 .. Len(first) + Len(traded)
        /\ \A i \in 1 .. Len(first) : todo'[i] = first[i]
        /\ \A i \in 1 .. Len(traded) : todo'[Len(first) + i] = traded[i]
    BY <1>1, <1>2, <1>4, Joined
  <2>2. todo'[5 + 1] = traded[1]
    BY <1>1, <1>4, <2>1
  <2> QED BY <1>1, <1>4, <2>1, <2>2
<1>6. \A i \in 1 .. 6 : i = 1 \/ i = 2 \/ i = 3 \/ i = 4 \/ i = 5 \/ i = 6
  OBVIOUS
<1>7. Orderly(todo')
  BY <1>5, <1>6 DEF Orderly, Do
<1>8. \A i \in DOMAIN todo' : todo'[i].do \in Changes \cup {"read"} => LoadBefore(todo', i)
  BY <1>5, <1>6 DEF LoadBefore, Changes, Do
<1> QED BY <1>5, <1>7, <1>8, PlanMade DEF SettleTradeClose, PlanInv, RowsOK

LEMMA NextPlans == ASSUME PlanInv, [Next]_vars PROVE PlanInv'
<1>1. ASSUME NEW d \in Days, NEW do \in Changes \cup {"read"}, Begin(d, <<Do(do, d)>>)
      PROVE  PlanInv'
  <2>1. /\ <<Do(do, d)>> \in Seq(Steps) /\ Orderly(<<Do(do, d)>>)
        /\ \A i \in DOMAIN <<Do(do, d)>> : <<Do(do, d)>>[i].day = d
    BY DEF Do, Steps, Orderly
  <2> QED BY <1>1, <2>1, BeginPlans
<1>2. CASE Statement
  BY <1>2, StatementPlans
<1>3. CASE MarkError \/ MarkHealthy
  BY <1>1, <1>3 DEF MarkError, MarkHealthy, Changes, PlanInv, RowsOK
<1>4. CASE CutOff
  <2>1. todo' = <<>> /\ UNCHANGED <<state, copy, today>>
    BY <1>4 DEF CutOff
  <2> QED BY <2>1 DEF PlanInv, RowsOK, Orderly, ReadsPrepared, SavesPrepared
<1>5. CASE ApplySafeMode
  <2>1. /\ outdated' = TRUE /\ UNCHANGED <<opened, closings, copy, todo, today>>
        /\ DOMAIN state' = DOMAIN state
    BY <1>5 DEF ApplySafeMode, tables
  <2> QED BY <2>1, PlanKept DEF PlanInv, RowsOK
<1>6. CASE Midnight
  <2>1. today' \in Days
    BY <1>6, LastDayAssumption DEF Midnight, Days, PlanInv, RowsOK
  <2>2. UNCHANGED <<opened, closings, copy, todo, state, outdated>>
    BY <1>6 DEF Midnight, tables
  <2> QED BY <2>1, <2>2, PlanKept
<1>7. ASSUME NEW d \in Stamps,
             \/ GetState(d) \/ SendDailySummary(d)
             \/ \E enabled \in BOOLEAN : SetSafeMode(enabled, d)
             \/ \E t \in Trades :
                    RecordTradeOpen(t, d) \/ \E pnl \in Pnls : SettleTradeClose(t, d, pnl)
      PROVE  PlanInv'
  <2>1. d \in Days
    BY DEF Stamps
  <2>2. CASE GetState(d)
    BY <1>1, <2>1, <2>2 DEF GetState
  <2>3. CASE SendDailySummary(d)
    <3>1. UNCHANGED <<opened, closings, copy, todo, state, outdated, today>>
      BY <2>3 DEF SendDailySummary, tables
    <3> QED BY <3>1, PlanKept DEF PlanInv, RowsOK
  <2>4. ASSUME NEW enabled \in BOOLEAN, SetSafeMode(enabled, d) PROVE PlanInv'
    BY <1>1, <2>1, <2>4 DEF SetSafeMode, Changes
  <2>5. ASSUME NEW t \in Trades, RecordTradeOpen(t, d) PROVE PlanInv'
    BY <2>1, <2>5, RecordPlans
  <2>6. ASSUME NEW t \in Trades, NEW pnl \in Pnls, SettleTradeClose(t, d, pnl) PROVE PlanInv'
    BY <2>1, <2>6, SettlePlans
  <2> QED BY <1>7, <2>2, <2>3, <2>4, <2>5, <2>6
<1>8. CASE UNCHANGED vars
  BY <1>8, PlanKept DEF vars, tables, PlanInv, RowsOK
<1> QED BY <1>2, <1>3, <1>4, <1>5, <1>6, <1>7, <1>8 DEF Next

LEMMA Planned == Spec => []PlanInv
<1> QED BY InitPlan, NextPlans, PTL DEF Spec

(* Whatever was cut off before, governance and risk are handed the streak,  *)
(* the drawdown and the open count that the tables give for the day of      *)
(* their decision (get_governance_state and get_risk_state refresh first).  *)
THEOREM ReadsFresh == Spec => []DecisionsReadFresh
<1>1. PlanInv => DecisionsReadFresh
  <2> SUFFICES ASSUME PlanInv, todo # <<>>, Head(todo).do = "read"
               PROVE  AsInTables(Head(todo).day)
    BY DEF DecisionsReadFresh, AsInTables
  <2>1. 1 \in DOMAIN todo /\ Head(todo) = todo[1] /\ ~LoadBefore(todo, 1)
    BY DEF PlanInv, RowsOK, LoadBefore
  <2> QED BY <2>1 DEF PlanInv, ReadsPrepared
<1> QED BY <1>1, Planned, PTL

(* Safe mode ends when set_safe_mode is told to end it, or when an operation *)
(* saves the row it loaded before the monitor switched safe mode on, and    *)
(* never otherwise.                                                        *)
THEOREM SafeModeStays == Spec => SafeModeSticks
<1>1. PlanInv /\ [Next]_vars => [EndsSafeMode => Clearing \/ outdated]_vars
  <2> SUFFICES ASSUME PlanInv, Next, EndsSafeMode, ~outdated PROVE Clearing
    BY DEF vars, EndsSafeMode
  <2>1. DOMAIN state = Columns /\ DOMAIN copy = Columns
    BY DEF PlanInv, RowsOK
  <2>2. Statement /\ Save
    BY <2>1 DEF Next, Statement, Sync, Load, Read, MarkError, MarkHealthy, CutOff, ApplySafeMode,
                Midnight, GetState, SendDailySummary, SetSafeMode, RecordTradeOpen,
                SettleTradeClose, Begin, EndsSafeMode, Columns
  <2>3. /\ todo # <<>> /\ Head(todo).do \in Changes /\ state' = Changed(copy, Head(todo).do)
        /\ Head(todo) = todo[1] /\ 1 \in DOMAIN todo /\ ~LoadBefore(todo, 1)
    BY <2>2 DEF Statement, Save, PlanInv, RowsOK, LoadBefore
  <2>4. copy.safe = state.safe
    BY <2>3 DEF PlanInv, SavesPrepared
  <2>5. Head(todo).do \in {"derived", "error", "healthy", "traded"} => state'.safe = copy.safe
    BY <2>1, <2>3 DEF Changed, Columns
  <2>6. Head(todo).do = "enter" => state'.safe
    BY <2>1, <2>3 DEF Changed, Columns
  <2> QED BY <2>3, <2>4, <2>5, <2>6 DEF EndsSafeMode, Clearing, Changes
<1> QED BY <1>1, Planned, PTL DEF Spec, SafeModeSticks

-----------------------------------------------------------------------------
(* The signal pipeline: its history in memory and in the rows *)

(* Memory holds rows, and rows are of the past. *)
HistoryStored ==
    /\ clock \in Nat /\ rows \subseteq 0 .. clock /\ memory \subseteq rows
    /\ wasReady => Cardinality(rows) >= Required

(* Governance remembers every approval that can still block. *)
LevelsRemembered ==
    \A a \in approvals : a.at \in 0 .. clock /\ (a.at >= clock - LevelWindow => a \in levels)

PipelineInv == HistoryStored /\ ReadinessKept /\ LevelsRemembered /\ LevelsApart

LEMMA LeastNat ==
    ASSUME NEW S \in SUBSET Nat, S # {}
    PROVE  \E x \in S : \A y \in S : x <= y
<1>1. PICK x \in S : \A y \in S : ~(<<y, x>> \in OpToRel(<, Nat))
  BY NatLessThanWellFounded, WFMin, Zenon
<1>2. \A y \in S : ~(y < x)
  BY <1>1 DEF OpToRel
<1> QED BY <1>2

LEMMA Greatest ==
    ASSUME NEW m \in Nat, NEW S \in SUBSET (0 .. m), S # {}
    PROVE  \E x \in S : \A y \in S : y <= x
<1> DEFINE D == {m - x : x \in S}
<1>1. D \in SUBSET Nat /\ D # {}
  <2>1. \A x \in S : m - x \in Nat
    OBVIOUS
  <2> QED BY <2>1
<1>2. PICK d \in D : \A e \in D : d <= e
  <2> HIDE DEF D
  <2> QED BY <1>1, LeastNat
<1>3. PICK x \in S : d = m - x
  BY <1>2
<1>4. ASSUME NEW y \in S PROVE y <= x
  <2>1. m - y \in D /\ y \in 0 .. m /\ x \in 0 .. m
    OBVIOUS
  <2>2. d <= m - y
    BY <2>1, <1>2
  <2> HIDE DEF D
  <2> QED BY <2>1, <2>2, <1>3
<1> QED BY <1>4

LEMMA Sizes ==
    ASSUME NEW m \in Nat, NEW S \in SUBSET (0 .. m), NEW T \in SUBSET S
    PROVE  /\ IsFiniteSet(S) /\ IsFiniteSet(T)
           /\ Cardinality(S) \in Nat /\ Cardinality(T) \in Nat
           /\ Cardinality(T) <= Cardinality(S)
<1>1. IsFiniteSet(0 .. m)
  BY FS_Interval
<1>2. IsFiniteSet(S)
  BY <1>1, FS_Subset
<1> QED BY <1>2, FS_Subset, FS_CardinalityType

(* The newest n of at least k rows are at least k, if n is. *)
LEMMA NewestSuffice ==
    ASSUME NEW m \in Nat, NEW S \in SUBSET (0 .. m), NEW n \in Nat, NEW k \in Nat,
           k <= n, k <= Cardinality(S)
    PROVE  Cardinality(Newest(S, n)) >= k
<1> DEFINE N == Newest(S, n)
<1>1. N \in SUBSET S
  BY DEF Newest
<1>s. Cardinality(S) \in Nat /\ Cardinality(N) \in Nat
  <2> HIDE DEF N
  <2> QED BY <1>1, Sizes
<1>2. SUFFICES ASSUME Cardinality(N) < k PROVE FALSE
  BY <1>s
<1>3. S \ N # {}
  <2> HIDE DEF N
  <2>1. S \ N = {} => N = S
    BY <1>1
  <2> QED BY <1>s, <1>2, <2>1
<1>4. PICK x \in S \ N : \A y \in S \ N : y <= x
  BY <1>3, Greatest
<1>5. {s \in S : s > x} \in SUBSET N /\ N \in SUBSET (0 .. m)
  <2> HIDE DEF N
  <2>1. \A s \in S : s \in Int /\ (s > x => s \in N)
    BY <1>1, <1>4
  <2> QED BY <1>1, <2>1
<1>6. Cardinality({s \in S : s > x}) < n
  <2> HIDE DEF N
  <2>1. Cardinality({s \in S : s > x}) <= Cardinality(N) /\ Cardinality({s \in S : s > x}) \in Nat
        /\ Cardinality(N) \in Nat
    BY <1>5, Sizes
  <2> QED BY <2>1, <1>2
<1> QED BY <1>4, <1>6 DEF Newest

LEMMA ReadBack == \E n \in Nat : Bootstrapped = Newest(rows, n) /\ Required <= n
<1>1. \E x \in {Required, Window} : \A y \in {Required, Window} : x >= y
  BY TicksAssumption
<1>2. Max({Required, Window}) \in {Required, Window} /\ Max({Required, Window}) >= Required
  BY <1>1 DEF Max
<1> QED BY <1>2, TicksAssumption DEF Bootstrapped

(* One more row, in the store or in both. *)
LEMMA SaveKeeps ==
    ASSUME HistoryStored, SaveBar, clock' = clock, memory' \in {memory, memory \cup {clock}},
           wasReady' => wasReady \/ Cardinality(memory') >= Required
    PROVE  HistoryStored'
<1>1. rows' \in SUBSET (0 .. clock) /\ rows \in SUBSET rows' /\ memory' \in SUBSET rows'
  BY DEF HistoryStored, SaveBar
<1>2. Cardinality(rows') >= Cardinality(rows) /\ Cardinality(rows') >= Cardinality(memory')
  BY <1>1, Sizes DEF HistoryStored
<1>3. Cardinality(rows') \in Nat /\ Cardinality(rows) \in Nat /\ Cardinality(memory') \in Nat
  BY <1>1, Sizes DEF HistoryStored
<1>4. wasReady' => Cardinality(rows') >= Required
  BY <1>2, <1>3, TicksAssumption DEF HistoryStored
<1> QED BY <1>1, <1>4 DEF HistoryStored

(* A divergence history that was long enough is long enough after every step. *)
LEMMA HistoryStep ==
    ASSUME HistoryStored, ReadinessKept, [PipelineNext]_pipelineVars
    PROVE  HistoryStored' /\ ReadinessKept'
<1>1. CASE \/ TurnSafeMode \/ Governance \/ UNCHANGED pipelineVars
  <2>1. UNCHANGED <<clock, up, rows, memory, wasReady>>
    BY <1>1 DEF TurnSafeMode, Governance, Veto, VetoDuplicate, Approve, pipelineVars, database,
                engines, history
  <2> QED BY <2>1 DEF HistoryStored, ReadinessKept
<1>2. CASE Tick
  <2>1. clock' = clock + 1 /\ UNCHANGED <<up, rows, memory, wasReady>>
    BY <1>2 DEF Tick, database, engines, history
  <2> QED BY <2>1 DEF HistoryStored, ReadinessKept
<1>3. CASE Monitor \/ FailSnapshot \/ SkipDecision
  <2>1. UNCHANGED <<clock, up, memory, wasReady>> /\ (SaveBar \/ UNCHANGED rows)
    BY <1>3 DEF Monitor, FailSnapshot, SkipDecision, engines, history
  <2>2. CASE UNCHANGED rows
    BY <2>1, <2>2 DEF HistoryStored, ReadinessKept
  <2>3. CASE SaveBar
    BY <2>1, <2>3, SaveKeeps DEF ReadinessKept
  <2> QED BY <2>1, <2>2, <2>3
<1>4. CASE Decide
  <2>1. /\ UNCHANGED <<clock, up>> /\ SaveBar /\ memory' = memory \cup {clock}
        /\ wasReady' = (wasReady \/ Cardinality(memory') >= Required)
    BY <1>4 DEF Decide, Compute
  <2>2. HistoryStored'
    BY <2>1, SaveKeeps
  <2>3. memory' \in SUBSET (0 .. clock) /\ memory \in SUBSET memory'
    BY <2>1 DEF HistoryStored
  <2>4. /\ Cardinality(memory) \in Nat /\ Cardinality(memory') \in Nat
        /\ Cardinality(memory) <= Cardinality(memory')
    BY <2>3, Sizes DEF HistoryStored
  <2>5. up' /\ wasReady' => (up /\ wasReady) \/ Cardinality(memory') >= Required
    BY <2>1, Zenon
  <2>6. up /\ wasReady => Cardinality(memory') >= Required
    BY <2>4, TicksAssumption DEF ReadinessKept
  <2> QED BY <2>2, <2>5, <2>6, Zenon DEF ReadinessKept
<1>5. CASE Crash
  <2>1. ~up' /\ memory' = {} /\ UNCHANGED <<clock, rows, wasReady>>
    BY <1>5 DEF Crash, database
  <2> QED BY <2>1 DEF HistoryStored, ReadinessKept
<1>6. CASE Boot
  <2>1. memory' = Bootstrapped /\ UNCHANGED <<clock, rows, wasReady>>
    BY <1>6 DEF Boot, database, history
  <2>2. PICK n \in Nat : Bootstrapped = Newest(rows, n) /\ Required <= n
    BY ReadBack
  <2>3. Newest(rows, n) \subseteq rows
    BY DEF Newest
  <2>4. wasReady => Cardinality(Newest(rows, n)) >= Required
    BY <2>2, NewestSuffice, TicksAssumption DEF HistoryStored
  <2> QED BY <2>1, <2>2, <2>3, <2>4 DEF HistoryStored, ReadinessKept
<1> QED BY <1>1, <1>2, <1>3, <1>4, <1>5, <1>6 DEF PipelineNext

(* What is approved is looked up first and remembered after. *)
LEMMA ApproveStep ==
    ASSUME clock \in Nat, LevelsRemembered, LevelsApart, Approve
    PROVE  LevelsRemembered' /\ LevelsApart'
<1> DEFINE new == [at |-> clock, entry |-> candidate.entry]
<1>1. /\ clock' = clock /\ approvals' = approvals \cup {new} /\ levels' = Fresh \cup {new}
      /\ new.at = clock /\ new.entry = candidate.entry
  BY DEF Approve
<1>2. \A a \in approvals : a.at >= clock - LevelWindow => a \in Fresh
  BY DEF LevelsRemembered, Fresh
<1>3. \A a \in approvals : a.at >= clock - LevelWindow => ~SameLevel(a, new.entry)
  BY <1>1, <1>2 DEF Approve, Duplicate
<1> HIDE DEF new
<1>4. LevelsRemembered'
  BY <1>1, <1>2 DEF LevelsRemembered
<1>5. ASSUME NEW a \in approvals', NEW b \in approvals', a.at < b.at, b.at - a.at <= LevelWindow
      PROVE  ~SameLevel(a, b.entry)
  <2>1. a.at \in 0 .. clock /\ b.at \in 0 .. clock
    BY <1>1, <1>4 DEF LevelsRemembered
  <2>2. CASE b = new
    <3>1. a \in approvals /\ a.at >= clock - LevelWindow
      BY <1>1, <1>5, <2>1, <2>2, LevelsAssumption
    <3> QED BY <3>1, <1>3, <2>2
  <2>3. CASE b \in approvals
    <3>1. a \in approvals
      BY <1>1, <1>5, <2>1
    <3> QED BY <3>1, <2>3, <1>5 DEF LevelsApart
  <2> QED BY <1>1, <2>2, <2>3
<1>6. LevelsApart'
  BY <1>5 DEF LevelsApart, SameLevel
<1> QED BY <1>4, <1>6

LEMMA LevelsStep ==
    ASSUME clock \in Nat, LevelsRemembered, LevelsApart, [PipelineNext]_pipelineVars
    PROVE  LevelsRemembered' /\ LevelsApart'
<1>1. CASE Approve
  BY <1>1, ApproveStep
<1>2. CASE Crash
  BY <1>2 DEF Crash, LevelsRemembered, LevelsApart
<1>3. CASE Tick
  <2>1. clock' = clock + 1 /\ UNCHANGED <<levels, approvals>>
    BY <1>3 DEF Tick, engines, history
  <2> QED BY <2>1, LevelsAssumption DEF LevelsRemembered, LevelsApart
<1>4. CASE VetoDuplicate
  <2>1. levels' = Fresh /\ UNCHANGED <<clock, approvals>>
    BY <1>4 DEF VetoDuplicate, history
  <2> QED BY <2>1 DEF LevelsRemembered, LevelsApart, Fresh
<1>5. CASE \/ TurnSafeMode \/ Monitor \/ FailSnapshot \/ SkipDecision \/ Decide \/ Veto \/ Boot
           \/ UNCHANGED pipelineVars
  <2>1. UNCHANGED <<clock, levels, approvals>>
    BY <1>5 DEF TurnSafeMode, Monitor, FailSnapshot, SkipDecision, Decide, Veto, Boot, engines,
                history, pipelineVars
  <2> QED BY <2>1 DEF LevelsRemembered, LevelsApart
<1> QED BY <1>1, <1>2, <1>3, <1>4, <1>5 DEF PipelineNext, Governance

LEMMA PipelineHolds == PipelineSpec => []PipelineInv
<1>1. PipelineInit => PipelineInv
  BY FS_EmptySet, TicksAssumption
     DEF PipelineInit, PipelineInv, HistoryStored, ReadinessKept, LevelsRemembered, LevelsApart
<1>2. PipelineInv /\ [PipelineNext]_pipelineVars => PipelineInv'
  BY HistoryStep, LevelsStep DEF PipelineInv, HistoryStored
<1> QED BY <1>1, <1>2, PTL DEF PipelineSpec

(* Whatever restarts, safe modes and failed snapshots come, and however many *)
(* rows the position monitor adds: a process that found its CVD history     *)
(* mature finds it mature again.                                            *)
THEOREM HistorySurvives == PipelineSpec => []ReadinessKept
<1> QED BY PipelineHolds, PTL DEF PipelineInv

(* Within the window governance approves a level once, also when no trade   *)
(* came of it.                                                              *)
THEOREM ApprovedOnce == PipelineSpec => []LevelsApart
<1> QED BY PipelineHolds, PTL DEF PipelineInv

-----------------------------------------------------------------------------
(* Sums, means and equal levels *)

(* What holds of 0 and of the next number holds of every number. *)
LEMMA UpTo ==
    ASSUME NEW m \in Nat, NEW G, 0 \in G, \A n \in 1 .. m : n - 1 \in G => n \in G
    PROVE  m \in G
<1> DEFINE B == (0 .. m) \ G
<1> SUFFICES ASSUME B # {} PROVE FALSE
  OBVIOUS
<1>1. B \in SUBSET Nat
  OBVIOUS
<1>2. PICK n \in B : \A k \in B : n <= k
  <2> HIDE DEF B
  <2> QED BY <1>1, LeastNat
<1>3. n \in 1 .. m /\ n - 1 \in 0 .. m
  OBVIOUS
<1>4. n - 1 \notin B
  BY <1>2, <1>3
<1> QED BY <1>3, <1>4

LEMMA Without ==
    ASSUME NEW T, IsFiniteSet(T), NEW x \in T
    PROVE  /\ IsFiniteSet(T \ {x}) /\ Cardinality(T) \in Nat \ {0}
           /\ Cardinality(T \ {x}) = Cardinality(T) - 1
<1>1. Cardinality(T) \in Nat /\ Cardinality(T) # 0
  BY FS_CardinalityType, FS_EmptySet
<1> QED BY <1>1, FS_RemoveElement

(* The lowest of finitely many values. *)
LEMMA Lowest ==
    ASSUME NEW S, IsFiniteSet(S), S # {}, NEW f, \A x \in S : f[x] \in Int
    PROVE  \E x \in S : \A y \in S : f[x] <= f[y]
<1> DEFINE G == {n \in Nat : \A T \in SUBSET S : Cardinality(T) = n /\ T # {} =>
                                 \E x \in T : \A y \in T : f[x] <= f[y]}
<1>1. 0 \in G
  <2>1. \A T \in SUBSET S : Cardinality(T) = 0 => T = {}
    BY FS_Subset, FS_EmptySet
  <2> QED BY <2>1
<1>2. ASSUME NEW n \in Nat \ {0}, n - 1 \in G PROVE n \in G
  <2> SUFFICES ASSUME NEW T \in SUBSET S, Cardinality(T) = n, T # {}
               PROVE  \E x \in T : \A y \in T : f[x] <= f[y]
    OBVIOUS
  <2>1. PICK x \in T : TRUE
    OBVIOUS
  <2>2. Cardinality(T \ {x}) = n - 1 /\ T \ {x} \in SUBSET S
    BY FS_Subset, Without
  <2>3. CASE T = {x}
    BY <2>3
  <2>4. CASE T \ {x} # {}
    <3>1. PICK z \in T \ {x} : \A y \in T \ {x} : f[z] <= f[y]
      BY <1>2, <2>2, <2>4
    <3>2. f[x] \in Int /\ f[z] \in Int /\ \A y \in T : f[y] \in Int
      OBVIOUS
    <3>3. \A y \in T : y = x \/ y \in T \ {x}
      OBVIOUS
    <3> HIDE DEF G
    <3>4. CASE f[z] <= f[x]
      BY <3>1, <3>2, <3>3, <3>4
    <3>5. CASE f[x] <= f[z]
      BY <3>1, <3>2, <3>3, <3>5
    <3> QED BY <3>2, <3>4, <3>5
  <2> QED BY <2>3, <2>4
<1>3. Cardinality(S) \in G
  <2> HIDE DEF G
  <2>1. Cardinality(S) \in Nat /\ \A n \in 1 .. Cardinality(S) : n \in Nat \ {0}
    BY FS_CardinalityType
  <2> QED BY <1>1, <1>2, <2>1, UpTo
<1> QED BY <1>3

LEMMA Highest ==
    ASSUME NEW S, IsFiniteSet(S), S # {}, NEW f, \A x \in S : f[x] \in Int
    PROVE  \E x \in S : \A y \in S : f[y] <= f[x]
<1> DEFINE g == [x \in S |-> -f[x]]
<1>1. \A x \in S : g[x] \in Int /\ g[x] = -f[x]
  OBVIOUS
<1> HIDE DEF g
<1>2. PICK x \in S : \A y \in S : g[x] <= g[y]
  BY <1>1, Lowest
<1> QED BY <1>1, <1>2

(* g sums f up over the subsets of S. *)
Summed(f, S, g) ==
    g = [T \in SUBSET S |-> IF T = {} THEN 0 ELSE LET x == CHOOSE x \in T : TRUE IN f[x] + g[T \ {x}]]

AnyOf(T) == CHOOSE x \in T : TRUE

SumUpTo(f, S, g, n) ==
    /\ g \in [SUBSET S -> Int] /\ g[{}] = 0
    /\ \A T \in SUBSET S : T # {} /\ Cardinality(T) <= n => g[T] = f[AnyOf(T)] + g[T \ {AnyOf(T)}]

LEMMA AnyOfIn == ASSUME NEW T, T # {} PROVE AnyOf(T) \in T
  BY DEF AnyOf

LEMMA SumExists ==
    ASSUME NEW S, IsFiniteSet(S), NEW f, \A x \in S : f[x] \in Int
    PROVE  \E g : Summed(f, S, g)
<1> DEFINE G == {n \in Nat : \E g : SumUpTo(f, S, g, n)}
<1>s. \A T \in SUBSET S : IsFiniteSet(T) /\ Cardinality(T) \in Nat /\ Cardinality(T) <= Cardinality(S)
                          /\ (T # {} => Cardinality(T) # 0)
  BY FS_Subset, FS_CardinalityType, FS_EmptySet
<1>1. 0 \in G
  <2> DEFINE z == [T \in SUBSET S |-> 0]
  <2>1. z \in [SUBSET S -> Int] /\ z[{}] = 0
    OBVIOUS
  <2>2. \A T \in SUBSET S : T # {} => ~(Cardinality(T) <= 0)
    BY <1>s
  <2> QED BY <2>1, <2>2 DEF SumUpTo
<1>2. ASSUME NEW n \in Nat \ {0}, n - 1 \in G PROVE n \in G
  <2>1. PICK g : SumUpTo(f, S, g, n - 1)
    BY <1>2
  <2> DEFINE h == [T \in SUBSET S |-> IF T # {} /\ Cardinality(T) = n
                                      THEN f[AnyOf(T)] + g[T \ {AnyOf(T)}] ELSE g[T]]
  <2>2. \A T \in SUBSET S : T # {} => AnyOf(T) \in S /\ T \ {AnyOf(T)} \in SUBSET S
    BY AnyOfIn
  <2>3. h \in [SUBSET S -> Int] /\ h[{}] = 0
    BY <2>1, <2>2 DEF SumUpTo
  <2>4. ASSUME NEW T \in SUBSET S, T # {}, Cardinality(T) <= n
        PROVE  h[T] = f[AnyOf(T)] + h[T \ {AnyOf(T)}]
    <3> DEFINE R == T \ {AnyOf(T)}
    <3>1. R \in SUBSET S /\ Cardinality(R) = Cardinality(T) - 1 /\ Cardinality(T) \in Nat
      BY <1>s, <2>2, <2>4, AnyOfIn, Without
    <3>2. h[R] = g[R]
      BY <2>4, <3>1
    <3>3. CASE Cardinality(T) = n
      BY <2>4, <3>2, <3>3
    <3>4. CASE Cardinality(T) # n
      <4>1. Cardinality(T) <= n - 1
        BY <2>4, <3>1, <3>4
      <4>2. h[T] = g[T]
        BY <3>4
      <4> QED BY <2>1, <2>4, <3>2, <4>1, <4>2 DEF SumUpTo
    <3> QED BY <3>3, <3>4
  <2> HIDE DEF h
  <2>5. SumUpTo(f, S, h, n)
    BY <2>3, <2>4 DEF SumUpTo
  <2> QED BY <2>5
<1>3. Cardinality(S) \in G
  <2> HIDE DEF G
  <2>1. Cardinality(S) \in Nat /\ \A n \in 1 .. Cardinality(S) : n \in Nat \ {0}
    BY FS_CardinalityType
  <2> QED BY <1>1, <1>2, <2>1, UpTo
<1>4. PICK g : SumUpTo(f, S, g, Cardinality(S))
  BY <1>3
<1>5. Summed(f, S, g)
  <2>1. \A T \in SUBSET S :
            g[T] = IF T = {} THEN 0 ELSE f[AnyOf(T)] + g[T \ {AnyOf(T)}]
    BY <1>4, <1>s DEF SumUpTo
  <2>2. g = [T \in SUBSET S |-> IF T = {} THEN 0 ELSE f[AnyOf(T)] + g[T \ {AnyOf(T)}]]
    BY <1>4, <2>1 DEF SumUpTo
  <2> QED BY <2>2 DEF Summed, AnyOf
<1> QED BY <1>5

(* A sum lies between the lowest and the highest value times their number. *)
LEMMA SumBetween ==
    ASSUME NEW S, IsFiniteSet(S), NEW f, NEW lo \in Int, NEW hi \in Int,
           \A x \in S : f[x] \in Int /\ lo <= f[x] /\ f[x] <= hi,
           NEW g, Summed(f, S, g)
    PROVE  g[S] \in Int /\ Cardinality(S) * lo <= g[S] /\ g[S] <= Cardinality(S) * hi
<1> DEFINE Fits(T) == /\ g[T] \in Int
                      /\ Cardinality(T) * lo <= g[T] /\ g[T] <= Cardinality(T) * hi
           G == {n \in Nat : \A T \in SUBSET S : Cardinality(T) = n => Fits(T)}
<1>s. \A T \in SUBSET S : IsFiniteSet(T) /\ Cardinality(T) \in Nat /\ (Cardinality(T) = 0 <=> T = {})
  BY FS_Subset, FS_CardinalityType, FS_EmptySet
<1>t. \A T \in SUBSET S : g[T] = IF T = {} THEN 0 ELSE f[AnyOf(T)] + g[T \ {AnyOf(T)}]
  <2>1. g = [T \in SUBSET S |-> IF T = {} THEN 0 ELSE f[AnyOf(T)] + g[T \ {AnyOf(T)}]]
    BY DEF Summed, AnyOf
  <2> QED BY <2>1
<1>1. 0 \in G
  <2>1. \A T \in SUBSET S : Cardinality(T) = 0 => g[T] = 0
    BY <1>s, <1>t
  <2>2. 0 * lo = 0 /\ 0 * hi = 0
    OBVIOUS
  <2> QED BY <2>1, <2>2
<1>2. ASSUME NEW n \in Nat \ {0}, n - 1 \in G PROVE n \in G
  <2> SUFFICES ASSUME NEW T \in SUBSET S, Cardinality(T) = n PROVE Fits(T)
    OBVIOUS
  <2> DEFINE x == AnyOf(T)
             R == T \ {x}
  <2>1. T # {} /\ x \in T /\ x \in S
    BY <1>s, AnyOfIn
  <2>2. R \in SUBSET S /\ Cardinality(R) = n - 1
    BY <1>s, <2>1, Without
  <2>3. Fits(R)
    BY <1>2, <2>2
  <2>4. g[T] = f[x] + g[R]
    BY <1>t, <2>1
  <2> HIDE DEF x, R
  <2>5. /\ f[x] \in Int /\ lo <= f[x] /\ f[x] <= hi
        /\ g[R] \in Int /\ (n - 1) * lo <= g[R] /\ g[R] <= (n - 1) * hi
    BY <2>1, <2>2, <2>3
  <2>6. (n - 1) * lo = n * lo - lo /\ (n - 1) * hi = n * hi - hi
    OBVIOUS
  <2>7. n * lo \in Int /\ n * hi \in Int
    OBVIOUS
  <2> QED BY <2>4, <2>5, <2>6, <2>7
<1>3. Cardinality(S) \in G
  <2> HIDE DEF G
  <2>1. Cardinality(S) \in Nat /\ \A n \in 1 .. Cardinality(S) : n \in Nat \ {0}
    BY FS_CardinalityType
  <2> QED BY <1>1, <1>2, <2>1, UpTo
<1> QED BY <1>3

(* The mean, rounded to the nearest integer, leaves the range of the values *)
(* no more than the exact one does.                                         *)
LEMMA MeanBetween ==
    ASSUME NEW S, IsFiniteSet(S), S # {}, NEW f, \A x \in S : f[x] \in Int
    PROVE  /\ Mean(f, S) \in Int
           /\ \E i, j \in S : f[i] <= Mean(f, S) /\ Mean(f, S) <= f[j]
<1> DEFINE g == CHOOSE h : Summed(f, S, h)
           n == Cardinality(S)
<1>1. MapThenSumSet(LAMBDA k : f[k], S) = g[S]
  BY DEF MapThenSumSet, MapThenFoldSet, Summed
<1>2. Mean(f, S) = (2 * g[S] + n) \div (2 * n)
  BY <1>1 DEF Mean
<1>3. PICK i \in S : \A x \in S : f[i] <= f[x]
  BY Lowest
<1>4. PICK j \in S : \A x \in S : f[x] <= f[j]
  BY Highest
<1>5. Summed(f, S, g)
  BY SumExists
<1> HIDE DEF g
<1>6. g[S] \in Int /\ n * f[i] <= g[S] /\ g[S] <= n * f[j]
  BY <1>3, <1>4, <1>5, SumBetween
<1>7. n \in Nat \ {0} /\ f[i] \in Int /\ f[j] \in Int
  BY FS_CardinalityType, FS_EmptySet
<1> HIDE DEF n
<1>8. ASSUME NEW a \in Int, NEW b \in Int, NEW s \in Int, NEW k \in Nat \ {0}, k * a <= s, s <= k * b
      PROVE  /\ (2 * s + k) \div (2 * k) \in Int
             /\ a <= (2 * s + k) \div (2 * k) /\ (2 * s + k) \div (2 * k) <= b
  <2> DEFINE d == 2 * k
             q == (2 * s + k) \div d
  <2>1. d \in Nat \ {0} /\ 2 * s + k \in Int
    OBVIOUS
  <2>2. q \in Int /\ d * q <= 2 * s + k /\ 2 * s + k < d * q + d
    <3> HIDE DEF d
    <3> QED BY <2>1
  <2>3. d * a <= 2 * s + k /\ 2 * s + k < d * b + d
    <3>1. d * a = 2 * (k * a) /\ d * b = 2 * (k * b) /\ k * a \in Int /\ k * b \in Int
      OBVIOUS
    <3> HIDE DEF d
    <3>2. d = 2 * k
      BY DEF d
    <3> QED BY <1>8, <3>1, <3>2
  <2> HIDE DEF d, q
  <2>4. ~(q < a)
    <3> SUFFICES ASSUME q + 1 <= a PROVE FALSE
      BY <2>2
    <3>1. d * (q + 1) <= d * a /\ d * (q + 1) = d * q + d
      BY <2>1, <2>2
    <3>2. d * q \in Int /\ d * a \in Int
      BY <2>1, <2>2
    <3> QED BY <2>1, <2>2, <2>3, <3>1, <3>2
  <2>5. ~(b < q)
    <3> SUFFICES ASSUME b + 1 <= q PROVE FALSE
      BY <2>2
    <3>1. d * (b + 1) <= d * q /\ d * (b + 1) = d * b + d
      BY <2>1, <2>2
    <3>2. d * q \in Int /\ d * b \in Int
      BY <2>1, <2>2
    <3> QED BY <2>1, <2>2, <2>3, <3>1, <3>2
  <2> QED BY <2>2, <2>4, <2>5 DEF d, q
<1> QED BY <1>2, <1>6, <1>7, <1>8

LEMMA Extremes ==
    ASSUME NEW S, IsFiniteSet(S), S # {}, \A x \in S : x \in Int
    PROVE  /\ Min(S) \in S /\ \A x \in S : Min(S) <= x
           /\ Max(S) \in S /\ \A x \in S : x <= Max(S)
<1> DEFINE f == [x \in S |-> x]
<1>1. \A x \in S : f[x] \in Int /\ f[x] = x
  OBVIOUS
<1> HIDE DEF f
<1>2. \E x \in S : \A y \in S : x <= y
  BY <1>1, Lowest
<1>3. \E x \in S : \A y \in S : y <= x
  BY <1>1, Highest
<1>4. Min(S) \in S /\ \A x \in S : Min(S) <= x
  BY <1>2 DEF Min
<1>5. \E x \in S : \A y \in S : x >= y
  BY <1>3
<1>6. Max(S) \in S /\ \A x \in S : Max(S) >= x
  BY <1>5 DEF Max
<1> QED BY <1>4, <1>6

LEMMA TwoOf ==
    ASSUME NEW x \in Int, NEW y \in Int
    PROVE  /\ Min({x, y}) = IF x <= y THEN x ELSE y
           /\ Max({x, y}) = IF x <= y THEN y ELSE x
<1>1. IsFiniteSet({x, y}) /\ {x, y} # {}
  <2>1. IsFiniteSet({x})
    BY FS_Singleton
  <2>2. IsFiniteSet({x} \cup {y})
    BY <2>1, FS_AddElement
  <2>3. {x, y} = {x} \cup {y}
    OBVIOUS
  <2> QED BY <2>2, <2>3
<1>2. /\ Min({x, y}) \in {x, y} /\ \A z \in {x, y} : Min({x, y}) <= z
      /\ Max({x, y}) \in {x, y} /\ \A z \in {x, y} : z <= Max({x, y})
  BY <1>1, Extremes
<1> QED BY <1>2

(* Sorting and cutting at the gaps is meant to put every candle into one    *)
(* cluster: Cluster(f, _) are the classes of an equivalence.                *)
THEOREM ClustersPartition ==
    ASSUME NEW f, \A x \in DOMAIN f : f[x] \in Int
    PROVE  /\ \A i \in DOMAIN f : i \in Cluster(f, i)
           /\ \A i, j \in DOMAIN f : j \in Cluster(f, i) => Cluster(f, j) = Cluster(f, i)
<1> DEFINE Near(k) == \E n \in DOMAIN f : f[k] < f[n] /\ f[n] - f[k] <= Tolerance
           Between(x, y, v) == (x <= v /\ v < y) \/ (y <= v /\ v < x)
<1>1. \A i, j \in DOMAIN f : j \in Cluster(f, i) <=>
          \A k \in DOMAIN f : Between(f[i], f[j], f[k]) => Near(k)
  <2> TAKE i, j \in DOMAIN f
  <2>1. /\ Min({f[i], f[j]}) = IF f[i] <= f[j] THEN f[i] ELSE f[j]
        /\ Max({f[i], f[j]}) = IF f[i] <= f[j] THEN f[j] ELSE f[i]
    BY TwoOf
  <2>2. \A k \in DOMAIN f : Min({f[i], f[j]}) <= f[k] /\ f[k] < Max({f[i], f[j]})
                            <=> Between(f[i], f[j], f[k])
    BY <2>1
  <2> HIDE DEF Between
  <2> QED BY <2>2 DEF Cluster
<1> HIDE DEF Near
<1>2. \A i \in DOMAIN f : i \in Cluster(f, i)
  BY <1>1
<1>3. \A i, j \in DOMAIN f : j \in Cluster(f, i) => i \in Cluster(f, j)
  BY <1>1
<1>4. ASSUME NEW i \in DOMAIN f, NEW j \in DOMAIN f, NEW l \in DOMAIN f,
             j \in Cluster(f, i), l \in Cluster(f, j)
      PROVE  l \in Cluster(f, i)
  <2>1. \A k \in DOMAIN f : Between(f[i], f[l], f[k]) => Between(f[i], f[j], f[k]) \/ Between(f[j], f[l], f[k])
    OBVIOUS
  <2> HIDE DEF Between
  <2> QED BY <1>1, <1>4, <2>1
<1>5. \A i \in DOMAIN f : Cluster(f, i) \in SUBSET DOMAIN f
  BY DEF Cluster
<1>6. ASSUME NEW i \in DOMAIN f, NEW j \in DOMAIN f, j \in Cluster(f, i)
      PROVE  Cluster(f, j) = Cluster(f, i)
  <2>1. i \in Cluster(f, j)
    BY <1>3, <1>6
  <2> QED BY <1>4, <1>5, <1>6, <2>1
<1> QED BY <1>2, <1>6

(* From each value of a cluster but the highest there is a next one close by. *)
LEMMA ClusterChained ==
    ASSUME NEW f, \A x \in DOMAIN f : f[x] \in Int, NEW i \in DOMAIN f,
           NEW a \in Cluster(f, i), NEW b \in Cluster(f, i), f[a] < f[b]
    PROVE  \E k \in Cluster(f, i) : f[a] < f[k] /\ f[k] - f[a] <= Tolerance
<1> DEFINE Near(k) == \E n \in DOMAIN f : f[k] < f[n] /\ f[n] - f[k] <= Tolerance
           Between(x, y, v) == (x <= v /\ v < y) \/ (y <= v /\ v < x)
<1>1. \A j \in DOMAIN f : j \in Cluster(f, i) <=>
          \A k \in DOMAIN f : Between(f[i], f[j], f[k]) => Near(k)
  <2> TAKE j \in DOMAIN f
  <2>1. /\ Min({f[i], f[j]}) = IF f[i] <= f[j] THEN f[i] ELSE f[j]
        /\ Max({f[i], f[j]}) = IF f[i] <= f[j] THEN f[j] ELSE f[i]
    BY TwoOf
  <2>2. \A k \in DOMAIN f : Min({f[i], f[j]}) <= f[k] /\ f[k] < Max({f[i], f[j]})
                            <=> Between(f[i], f[j], f[k])
    BY <2>1
  <2> HIDE DEF Between
  <2> QED BY <2>2 DEF Cluster
<1>2. a \in DOMAIN f /\ b \in DOMAIN f
  BY DEF Cluster
<1>3. f[a] \in Int /\ f[b] \in Int /\ f[i] \in Int /\ Tolerance \in Int
  BY <1>2, SetupsAssumption
<1>4. i \in Cluster(f, i)
  BY <1>1, <1>3
<1>5. CASE f[i] <= f[a]
  <2>1. Near(a)
    BY <1>1, <1>2, <1>3, <1>5
  <2>2. PICK n \in DOMAIN f : f[a] < f[n] /\ f[n] - f[a] <= Tolerance
    BY <2>1
  <2>3. CASE f[n] <= f[b]
    <3>1. \A k \in DOMAIN f : Between(f[i], f[n], f[k]) => Between(f[i], f[b], f[k])
      BY <1>2, <1>3, <1>5, <2>2, <2>3
    <3> HIDE DEF Between, Next
    <3>2. n \in Cluster(f, i)
      BY <1>1, <1>2, <3>1
    <3> QED BY <2>2, <3>2
  <2>4. CASE ~(f[n] <= f[b])
    BY <1>2, <1>3, <2>2, <2>4
  <2> QED BY <2>3, <2>4
<1>6. CASE f[a] < f[i]
  <2>1. Near(a)
    BY <1>1, <1>2, <1>3, <1>6
  <2>2. PICK n \in DOMAIN f : f[a] < f[n] /\ f[n] - f[a] <= Tolerance
    BY <2>1
  <2>3. CASE f[n] <= f[i]
    <3>1. \A k \in DOMAIN f : Between(f[i], f[n], f[k]) => Between(f[i], f[a], f[k])
      BY <1>2, <1>3, <1>6, <2>2, <2>3
    <3> HIDE DEF Between, Next
    <3>2. n \in Cluster(f, i)
      BY <1>1, <1>2, <3>1
    <3> QED BY <2>2, <3>2
  <2>4. CASE ~(f[n] <= f[i])
    BY <1>3, <1>4, <1>6, <2>2, <2>4
  <2> QED BY <2>3, <2>4
<1> QED BY <1>3, <1>5, <1>6

(* Each level that is found is one, and there are finitely many. *)
LEMMA LevelsAround ==
    ASSUME NEW f, IsFiniteSet(DOMAIN f), DOMAIN f \in SUBSET Int, \A x \in DOMAIN f : f[x] \in Int
    PROVE  /\ IsFiniteSet(EqualLevels(f))
           /\ \A l \in EqualLevels(f) : l \in Int /\ HitsAround(f, l)
<1> DEFINE All == {Cluster(f, i) : i \in DOMAIN f}
           Some == {C \in All : Cardinality(C) >= MinHits /\ Max(C) - Min(C) >= MinAge}
<1>1. IsFiniteSet(Some)
  <2> DEFINE g == [i \in DOMAIN f |-> Cluster(f, i)]
  <2>1. g \in Surjection(DOMAIN f, All)
    BY DEF Surjection
  <2>2. IsFiniteSet(All)
    <3> HIDE DEF All, g
    <3> QED BY <2>1, FS_Surjection
  <2> HIDE DEF All
  <2> QED BY <2>2, FS_Subset
<1>2. EqualLevels(f) = {Mean(f, S) : S \in Some}
  BY DEF EqualLevels
<1>3. IsFiniteSet(EqualLevels(f))
  <2> DEFINE g == [S \in Some |-> Mean(f, S)]
  <2> HIDE DEF Some
  <2>1. g \in Surjection(Some, EqualLevels(f))
    BY <1>2 DEF Surjection
  <2> HIDE DEF g
  <2> QED BY <1>1, <2>1, FS_Surjection
<1>4. ASSUME NEW S \in Some PROVE Mean(f, S) \in Int /\ HitsAround(f, Mean(f, S))
  <2>1. PICK i \in DOMAIN f : S = Cluster(f, i)
    OBVIOUS
  <2>2. S \in SUBSET DOMAIN f /\ i \in S
    <3>1. Min({f[i], f[i]}) = f[i] /\ Max({f[i], f[i]}) = f[i]
      BY TwoOf
    <3>2. \A k \in DOMAIN f : ~(f[i] <= f[k] /\ f[k] < f[i])
      OBVIOUS
    <3> QED BY <2>1, <3>1, <3>2 DEF Cluster
  <2>3. IsFiniteSet(S) /\ S # {} /\ \A x \in S : x \in Int /\ f[x] \in Int
    BY <2>2, FS_Subset
  <2>4. Mean(f, S) \in Int /\ \E a, b \in S : f[a] <= Mean(f, S) /\ Mean(f, S) <= f[b]
    BY <2>3, MeanBetween
  <2>5. Cardinality(S) >= MinHits /\ \E a, b \in S : b - a >= MinAge
    <3>1. Min(S) \in S /\ Max(S) \in S
      BY <2>3, Extremes
    <3> QED BY <3>1
  <2>6. \A a, b \in S : f[a] < f[b] => \E k \in S : f[a] < f[k] /\ f[k] - f[a] <= Tolerance
    BY <2>1, ClusterChained
  <2> HIDE DEF Some
  <2> QED BY <2>2, <2>4, <2>5, <2>6 DEF HitsAround
<1> HIDE DEF Some
<1> QED BY <1>2, <1>3, <1>4

-----------------------------------------------------------------------------
(* Sweeps and candidates *)

(* What the last candle did to the level of a sweep. *)
Broke(c, s) ==
    LET last == c[Len(c)]
    IN  /\ s.level \in Int /\ s.side \in {"LOW", "HIGH"}
        /\ s.side = "LOW"  => /\ last.low < s.level /\ HitsAround(Lows(c), s.level)
                              /\ s.reclaim => last.close > s.level
        /\ s.side = "HIGH" => /\ last.high > s.level /\ HitsAround(Highs(c), s.level)
                              /\ s.reclaim => last.close < s.level

LEMMA CandleTyped ==
    ASSUME NEW c \in Charts, Moves(c)
    PROVE  /\ IsFiniteSet(DOMAIN c) /\ DOMAIN c \in SUBSET Int
           /\ \A i \in DOMAIN c : c[i].low \in Int /\ c[i].high \in Int
           /\ c[Len(c)] \in [open : Int, high : Int, low : Int, close : Int]
<1> DEFINE R == [open : Int, high : Int, low : Int, close : Int]
<1>1. c \in Seq(R)
  BY ChartsAssumption
<1>2. \A r \in R : r.low \in Int /\ r.high \in Int
  OBVIOUS
<1> HIDE DEF R
<1>3. Len(c) \in Nat /\ DOMAIN c = 1 .. Len(c) /\ \A i \in DOMAIN c : c[i] \in R
  BY <1>1, LenProperties, ElementOfSeq
<1>4. Len(c) \in DOMAIN c
  BY <1>3 DEF Moves
<1>5. IsFiniteSet(DOMAIN c)
  BY <1>3, FS_Interval
<1> QED BY <1>2, <1>3, <1>4, <1>5 DEF R

LEMMA SweepBreaks ==
    ASSUME NEW c \in Charts, SweepReclaim(c).side # "none"
    PROVE  Broke(c, SweepReclaim(c))
<1> DEFINE last == c[Len(c)]
           s    == SweepReclaim(c)
           side == IF Swept(c, "LOW") # {} THEN "LOW" ELSE "HIGH"
<1>1. Moves(c) /\ Swept(c, side) # {}
  BY DEF SweepReclaim
<1>2. /\ IsFiniteSet(DOMAIN c) /\ DOMAIN c \in SUBSET Int
      /\ last.low \in Int /\ last.high \in Int /\ last.close \in Int
      /\ \A i \in DOMAIN c : c[i].low \in Int /\ c[i].high \in Int
  BY <1>1, CandleTyped
<1>3. /\ IsFiniteSet(EqualLevels(Lows(c))) /\ \A l \in EqualLevels(Lows(c)) : l \in Int /\ HitsAround(Lows(c), l)
      /\ IsFiniteSet(EqualLevels(Highs(c))) /\ \A l \in EqualLevels(Highs(c)) : l \in Int /\ HitsAround(Highs(c), l)
  <2>1. /\ DOMAIN Lows(c) = DOMAIN c /\ \A i \in DOMAIN c : Lows(c)[i] \in Int
        /\ DOMAIN Highs(c) = DOMAIN c /\ \A i \in DOMAIN c : Highs(c)[i] \in Int
    BY <1>2 DEF Lows, Highs
  <2> QED BY <1>2, <2>1, LevelsAround
<1>4. /\ Swept(c, "LOW") \in SUBSET EqualLevels(Lows(c))
      /\ \A l \in Swept(c, "LOW") : last.low < l - SweepBuf
      /\ Swept(c, "HIGH") \in SUBSET EqualLevels(Highs(c))
      /\ \A l \in Swept(c, "HIGH") : last.high > l + SweepBuf
  BY DEF Swept
<1>5. Min(Swept(c, side)) \in Swept(c, side)
  <2>1. IsFiniteSet(Swept(c, side)) /\ \A l \in Swept(c, side) : l \in Int
    BY <1>3, <1>4, FS_Subset
  <2> QED BY <1>1, <2>1, Extremes
<1>6. /\ s.level = Min(Swept(c, side)) /\ s.side = side
      /\ side = "LOW"  => (s.reclaim => last.close > s.level + ReclaimBuf)
      /\ side = "HIGH" => (s.reclaim => last.close < s.level - ReclaimBuf)
  <2> HIDE <1>5
  <2>1. CASE Swept(c, "LOW") # {}
    BY <1>1, <2>1 DEF SweepReclaim
  <2>2. CASE Swept(c, "LOW") = {}
    BY <1>1, <2>2 DEF SweepReclaim
  <2> QED BY <2>1, <2>2
<1> HIDE DEF s
<1>7. SweepBuf \in Nat /\ ReclaimBuf \in Nat
  BY SetupsAssumption
<1>8. CASE side = "LOW"
  <2>1. s.level \in Int /\ HitsAround(Lows(c), s.level) /\ last.low < s.level - SweepBuf
    BY <1>3, <1>4, <1>5, <1>6, <1>8
  <2> QED BY <1>2, <1>6, <1>7, <1>8, <2>1 DEF Broke, s
<1>9. CASE side = "HIGH"
  <2>1. s.level \in Int /\ HitsAround(Highs(c), s.level) /\ last.high > s.level + SweepBuf
    BY <1>3, <1>4, <1>5, <1>6, <1>9
  <2> QED BY <1>2, <1>6, <1>7, <1>9, <2>1 DEF Broke, s
<1> QED BY <1>8, <1>9

(* The bracket around the entry. *)
LEMMA Bracket ==
    ASSUME NEW l \in Int, NEW d \in {"LONG", "SHORT"}
    PROVE  LET b == BuildLevels(l, d)
           IN  /\ b.entry \in Int
               /\ d = "LONG"  => /\ b.entry - EntryOffset = l
                                 /\ b.stop < b.entry /\ b.entry < b.tp1 /\ b.tp1 < b.tp2
               /\ d = "SHORT" => /\ b.entry + EntryOffset = l
                                 /\ b.stop > b.entry /\ b.entry > b.tp1 /\ b.tp1 > b.tp2
<1>1. /\ EntryOffset \in Nat /\ StopOffset \in Nat \ {0} /\ MinStop \in Nat
      /\ Tp1 \in Nat \ {0} /\ Tp2 \in Nat /\ Tp1 < Tp2
  BY SetupsAssumption
<1>2. StopDistance \in Nat \ {0}
  <2> DEFINE x == EntryOffset + StopOffset
  <2>1. x \in Int /\ x \in Nat \ {0} /\ MinStop \in Int
    BY <1>1
  <2>2. StopDistance = Max({x, MinStop})
    BY DEF StopDistance
  <2> HIDE DEF x
  <2>3. Max({x, MinStop}) = IF x <= MinStop THEN MinStop ELSE x
    BY <2>1, TwoOf
  <2> QED BY <1>1, <2>1, <2>2, <2>3
<1> QED BY <1>1, <1>2 DEF BuildLevels

(* A direction agrees with the side of the sweep, and stands alone only as  *)
(* a continuation.                                                          *)
LEMMA DirectionAgrees ==
    ASSUME NEW s, NEW m, NEW div, Direction(s, m, div) \in {"LONG", "SHORT"}
    PROVE  LET d == Direction(s, m, div)
           IN  \/ s.reclaim /\ d = "LONG" /\ s.side = "LOW"
               \/ s.reclaim /\ d = "SHORT" /\ s.side = "HIGH"
               \/ ~s.reclaim /\ d = "LONG" /\ s.side = "HIGH" /\ Regime(m) = "uptrend"
<1>1. CASE Regime(m) = "uptrend" /\ ~s.reclaim
  <2>1. Continuation(s, m) \in {"LONG", "none"} /\ (Continuation(s, m) = "LONG" => s.side = "HIGH")
    BY DEF Continuation
  <2> QED BY <1>1, <2>1 DEF Direction
<1>2. CASE ~(Regime(m) = "uptrend" /\ ~s.reclaim)
  <2>1. s.reclaim /\ Direction(s, m, div) = InferDirection(s, m, div)
    BY <1>2 DEF Direction
  <2>2. /\ InferDirection(s, m, div) = "LONG" => s.side = "LOW"
        /\ InferDirection(s, m, div) = "SHORT" => s.side = "HIGH"
    BY DEF InferDirection
  <2> QED BY <2>1, <2>2
<1> QED BY <1>1, <1>2

(* What CandidateJustified says of the candidate. *)
Justified(k) ==
    LET last  == k.chart[Len(k.chart)]
        long  == k.direction = "LONG"
        level == IF long THEN k.entry - EntryOffset ELSE k.entry + EntryOffset
        brokeLow  == last.low < level /\ HitsAround(Lows(k.chart), level)
        brokeHigh == last.high > level /\ HitsAround(Highs(k.chart), level)
    IN  /\ k.direction \in Allowed(k.regime)
        /\ \/ k.reclaim /\ long /\ brokeLow /\ last.close > level
           \/ k.reclaim /\ ~long /\ brokeHigh /\ last.close < level
           \/ ~k.reclaim /\ long /\ brokeHigh /\ k.regime = "uptrend"
        /\ IF long THEN k.stop < k.entry /\ k.entry < k.tp1 /\ k.tp1 < k.tp2
                   ELSE k.stop > k.entry /\ k.entry > k.tp1 /\ k.tp1 > k.tp2

LEMMA GenerateJustified ==
    ASSUME NEW c \in Charts, NEW m, NEW div, Generate(c, m, div) # NoCandidate
    PROVE  Justified(Generate(c, m, div))
<1> DEFINE k == Generate(c, m, div)
           s == SweepReclaim(c)
           d == Direction(s, m, div)
           b == BuildLevels(s.level, d)
<1> SUFFICES Justified(k)
  OBVIOUS
<1>1. /\ s.side # "none" /\ d \in Allowed(Regime(m))
      /\ k = [direction |-> d, entry |-> b.entry, stop |-> b.stop, tp1 |-> b.tp1, tp2 |-> b.tp2,
              chart |-> c, regime |-> Regime(m), reclaim |-> s.reclaim]
  BY DEF Generate, Sweeps
<1>2. d \in {"LONG", "SHORT"}
  BY <1>1 DEF Allowed
<1>3. Broke(c, s)
  BY <1>1, SweepBreaks
<1>4. /\ k.entry = b.entry /\ k.stop = b.stop /\ k.tp1 = b.tp1 /\ k.tp2 = b.tp2
      /\ k.direction = d /\ k.chart = c /\ k.regime = Regime(m) /\ k.reclaim = s.reclaim
  <2> HIDE DEF k, b, s, d
  <2> QED BY <1>1
<1>5. \/ s.reclaim /\ d = "LONG" /\ s.side = "LOW"
      \/ s.reclaim /\ d = "SHORT" /\ s.side = "HIGH"
      \/ ~s.reclaim /\ d = "LONG" /\ s.side = "HIGH" /\ Regime(m) = "uptrend"
  BY <1>2, DirectionAgrees
<1>6. /\ d = "LONG"  => b.entry - EntryOffset = s.level /\ b.stop < b.entry /\ b.entry < b.tp1 /\ b.tp1 < b.tp2
      /\ d = "SHORT" => b.entry + EntryOffset = s.level /\ b.stop > b.entry /\ b.entry > b.tp1 /\ b.tp1 > b.tp2
  <2>1. s.level \in Int
    BY <1>3 DEF Broke
  <2> HIDE DEF s, d
  <2> QED BY <1>2, <2>1, Bracket
<1> HIDE DEF k, s, d, b
<1>7. /\ k.direction \in Allowed(k.regime) /\ k.chart = c
      /\ k.reclaim <=> s.reclaim
  BY <1>1, <1>4
<1>8. /\ s.side = "LOW"  => /\ c[Len(c)].low < s.level /\ HitsAround(Lows(c), s.level)
                            /\ s.reclaim => c[Len(c)].close > s.level
      /\ s.side = "HIGH" => /\ c[Len(c)].high > s.level /\ HitsAround(Highs(c), s.level)
                            /\ s.reclaim => c[Len(c)].close < s.level
  BY <1>3 DEF Broke
<1>9. CASE d = "LONG"
  <2>1. /\ k.direction = "LONG" /\ k.entry - EntryOffset = s.level
        /\ k.stop < k.entry /\ k.entry < k.tp1 /\ k.tp1 < k.tp2
    BY <1>4, <1>6, <1>9
  <2>2. \/ k.reclaim /\ s.side = "LOW"
        \/ ~k.reclaim /\ s.side = "HIGH" /\ k.regime = "uptrend"
    BY <1>4, <1>5, <1>7, <1>9
  <2> QED BY <1>7, <1>8, <2>1, <2>2 DEF Justified
<1>10. CASE d = "SHORT"
  <2>1. /\ k.direction = "SHORT" /\ k.direction # "LONG" /\ k.entry + EntryOffset = s.level
        /\ k.stop > k.entry /\ k.entry > k.tp1 /\ k.tp1 > k.tp2
    BY <1>4, <1>6, <1>10
  <2>2. k.reclaim /\ s.side = "HIGH"
    BY <1>5, <1>7, <1>10
  <2> QED BY <1>7, <1>8, <2>1, <2>2 DEF Justified
<1> QED BY <1>2, <1>9, <1>10

LEMMA CandidateInit == PipelineInit => CandidateJustified
  BY DEF PipelineInit, CandidateJustified

LEMMA CandidateStep ==
    ASSUME CandidateJustified, [PipelineNext]_pipelineVars
    PROVE  CandidateJustified'
<1>1. CASE Decide
  <2>1. PICK c \in Charts, m \in Climates : Compute(c, m)
    BY <1>1 DEF Decide
  <2>2. pc' = "govern" => candidate' # NoCandidate /\ candidate' = Generate(c, m, Divergence(memory'))
    BY <2>1 DEF Compute
  <2>3. pc' = "govern" => Justified(candidate')
    BY <2>2, GenerateJustified
  <2> QED BY <2>3 DEF CandidateJustified, Justified
<1>2. CASE UNCHANGED <<pc, candidate>>
  BY <1>2 DEF CandidateJustified
<1>3. CASE pc' = "idle"
  BY <1>3 DEF CandidateJustified
<1>4. Decide \/ UNCHANGED <<pc, candidate>> \/ pc' = "idle"
  BY DEF PipelineNext, pipelineVars, Tick, TurnSafeMode, Monitor, FailSnapshot, SkipDecision,
         Governance, Veto, VetoDuplicate, Approve, EndDecision, Crash, Boot
<1> QED BY <1>1, <1>2, <1>3, <1>4

(* A candidate is always one a trader could defend: for all charts,          *)
(* indicators, tolerances, offsets and histories.                           *)
THEOREM CandidatesHold == PipelineSpec => []CandidateJustified
<1> QED BY CandidateInit, CandidateStep, PTL DEF PipelineSpec

============================================================================
