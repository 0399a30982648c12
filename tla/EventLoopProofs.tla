--------------------------- MODULE EventLoopProofs --------------------------
(***************************************************************************)
(* The clockwork for every length of a bar, a day and an interval, however *)
(* slow the handlers and wherever the process ends: no bar is decided on   *)
(* twice and none is left out while iterations keep up, positions are      *)
(* looked at in time, and a day has one summary.  Inv relates the three    *)
(* deadlines to the reading of the clock at each stage of an iteration,    *)
(* and what has happened to both.  After a stop request every step is      *)
(* nearer to the end of the process.                                       *)
(***************************************************************************)
EXTENDS EventLoop, TLAPS

Down    == {"down", "starting"}
Reading == {"health", "monitor", "decision"}    \* the decision is still ahead
Running == {"loop", "kill"} \cup Reading

TypeOK ==
    /\ clock \in Nat /\ now \in Nat
    /\ pc \in Down \cup Running /\ stopping \in BOOLEAN
    /\ currentDay \in Nat
    /\ nextHealth \in Nat /\ nextMonitor \in Nat /\ nextDecision \in Nat
    /\ cycles \in [Bars -> Nat] /\ summaries \in [Days -> Nat]
    /\ upSince \in Nat /\ monitored \in Nat /\ overran \in BOOLEAN

(* Nothing has happened in an iteration yet: the schedule was just set. *)
JustSet == clock = now /\ now = upSince /\ now <= nextMonitor /\ now <= nextDecision

(* How far the clock has run on since it was read. *)
Elapsed ==
    /\ now <= clock
    /\ pc = "health"   => clock <= now
    /\ pc = "monitor"  => clock <= now + Slow
    /\ pc = "decision" => clock <= now + 2 * Slow
    /\ pc = "kill"     => clock <= now + 3 * Slow
    /\ pc = "loop"     => clock <= now + LongestIteration
    /\ pc \in Reading \cup {"kill"} => now < MaxClock

(* When the monitor is due again. *)
MonitorAhead ==
    /\ nextMonitor <= monitored + MonitorEvery
    /\ pc \in {"health", "monitor"} => now < nextMonitor + LongestIteration
    /\ pc \in {"decision", "kill"}  => now < nextMonitor
    /\ pc = "loop" => now < nextMonitor \/ JustSet

(* When the next decision is due: on a boundary, ahead of every bar that    *)
(* was decided on, and while iterations keep up within the bar that is read. *)
DecisionAhead ==
    pc \in Running =>
        /\ \E k \in Nat : nextDecision = k * Bar
        /\ pc = "kill" => now < nextDecision
        /\ pc = "loop" => now < nextDecision \/ JustSet
        /\ pc \in Reading /\ ~overran => now < nextDecision + Bar

BarsDecided ==
    \A b \in Bars :
        /\ cycles[b] <= 1
        /\ cycles[b] > 0 => /\ b * Bar <= clock
                            /\ pc \in Down => b * Bar < clock
                            /\ pc \in Running => b * Bar <= now /\ b * Bar < nextDecision

NoneLeftOut ==
    pc \in Running /\ ~overran =>
        \A b \in Bars : upSince <= b * Bar /\ b * Bar < nextDecision => cycles[b] >= 1

DaysSummed ==
    /\ pc \in Running => currentDay = DayOf(now)
    /\ \A d \in Days :
        /\ summaries[d] <= 1
        /\ summaries[d] > 0 => d < DayOf(clock) /\ (pc \in Running => d < currentDay)

NoDayLeftOut ==
    pc \in Running =>
        \A b \in Bars :
            cycles[b] > 0 /\ DayOf(b * Bar) \in DayOf(upSince) .. currentDay - 1
                => summaries[DayOf(b * Bar)] = 1

Inv ==
    /\ TypeOK /\ Elapsed /\ MonitorAhead /\ DecisionAhead
    /\ BarsDecided /\ NoneLeftOut /\ DaysSummed /\ NoDayLeftOut

-----------------------------------------------------------------------------
(* Bars and days *)

LEMMA Positive ==
    /\ Bar \in Nat /\ Bar > 0 /\ BarsPerDay \in Nat /\ BarsPerDay > 0
    /\ MonitorEvery \in Nat /\ MonitorEvery > 0 /\ HealthEvery \in Nat /\ HealthEvery > 0
    /\ Idle \in Nat /\ Idle > 0 /\ MaxClock \in Nat /\ MaxClock > 0
BY PositiveAssumption

LEMMA Division ==
    ASSUME NEW t \in Nat, NEW n \in Nat, n > 0
    PROVE  /\ t \div n \in Nat /\ (t \div n) * n <= t /\ t < (t \div n + 1) * n
           /\ t % n = t - n * (t \div n)
OBVIOUS

LEMMA Products ==
    ASSUME NEW a \in Int, NEW b \in Int, NEW n \in Nat
    PROVE  /\ a * n \in Int
           /\ a <= b => a * n <= b * n
           /\ a * n < b * n => a < b
           /\ (a + 1) * n = a * n + n
<1>1. a <= b => a * n <= b * n
  OBVIOUS
<1>2. b <= a => b * n <= a * n
  OBVIOUS
<1> QED BY <1>1, <1>2

LEMMA Quotients ==
    ASSUME NEW s \in Nat, NEW t \in Nat, NEW n \in Nat, n > 0, s <= t
    PROVE  s \div n <= t \div n
<1>1. (s \div n) * n < (t \div n + 1) * n
  BY Division
<1>2. s \div n < t \div n + 1
  BY <1>1, Division, Products
<1> QED BY <1>2, Division

LEMMA BarBounds ==
    ASSUME NEW t \in Nat
    PROVE  /\ BarOf(t) \in Nat /\ BarOf(t) * Bar <= t
           /\ t < (BarOf(t) + 1) * Bar /\ NextBoundary(t) = (BarOf(t) + 1) * Bar
           /\ NextBoundary(t) \in Nat
           /\ t % Bar = 0 <=> t = BarOf(t) * Bar
BY Division, Positive DEF BarOf, NextBoundary

LEMMA BarUnique ==
    ASSUME NEW t \in Nat, NEW b \in Nat, b * Bar <= t, t < (b + 1) * Bar
    PROVE  BarOf(t) = b
<1>1. /\ BarOf(t) \in Nat /\ BarOf(t) * Bar <= t /\ t < (BarOf(t) + 1) * Bar
      /\ BarOf(t) * Bar \in Int /\ (BarOf(t) + 1) * Bar \in Int
      /\ b * Bar \in Int /\ (b + 1) * Bar \in Int
  BY BarBounds, Positive, Products
<1>2. b * Bar < (BarOf(t) + 1) * Bar /\ BarOf(t) * Bar < (b + 1) * Bar
  BY <1>1
<1>3. b < BarOf(t) + 1
  BY <1>1, <1>2, Positive, Products
<1>4. BarOf(t) < b + 1
  BY <1>1, <1>2, Positive, Products
<1> QED BY <1>1, <1>3, <1>4

LEMMA OnBar == ASSUME NEW b \in Nat PROVE b * Bar \in Nat /\ BarOf(b * Bar) = b
<1>1. b * Bar \in Nat /\ b * Bar < (b + 1) * Bar
  BY Positive, Products
<1> QED BY <1>1, BarUnique

LEMMA Ordered ==
    ASSUME NEW s \in Nat, NEW t \in Nat, s <= t
    PROVE  BarOf(s) <= BarOf(t) /\ DayOf(s) <= DayOf(t)
BY Quotients, BarBounds, Positive DEF BarOf, DayOf

LEMMA DayIsNat == ASSUME NEW t \in Nat PROVE DayOf(t) \in Nat
BY BarBounds, Division, Positive DEF DayOf

LEMMA BarsAreNat ==
    /\ \A b \in Bars : b \in Nat /\ b * Bar \in Nat
    /\ \A d \in Days : d \in Nat
    /\ \A t \in Nat : DayOf(t) \in Nat
BY OnBar, DayIsNat DEF Bars, Days

LEMMA DaysOrdered == \A s, t \in Nat : s <= t => DayOf(s) <= DayOf(t)
BY Ordered

(* Every reading lies in a bar and a day that are counted. *)
LEMMA InRange ==
    ASSUME NEW t \in Nat, t < MaxClock
    PROVE  BarOf(t) \in Bars /\ DayOf(t) \in Days
<1> DEFINE top == MaxClock + 6 * Slow + Idle
<1>1. top \in Nat /\ t <= top
  BY Positive, SlowAssumption
<1>2. /\ BarOf(t) \in Nat /\ BarOf(top) \in Nat /\ BarOf(t) <= BarOf(top)
      /\ DayOf(t) \in Nat /\ DayOf(top) \in Nat /\ DayOf(t) <= DayOf(top)
  BY <1>1, Ordered, BarBounds, DayIsNat
<1> QED BY <1>2 DEF Bars, Days

(* The day of a bar is the day of every moment in it. *)
LEMMA DayOfBar == ASSUME NEW t \in Nat PROVE DayOf(BarOf(t) * Bar) = DayOf(t)
BY BarBounds, OnBar DEF DayOf

-----------------------------------------------------------------------------
(* The sleep *)

LEMMA LeastOfThree ==
    ASSUME NEW a \in Int, NEW b \in Int, NEW c \in Int, NEW S \in SUBSET {a, b, c}, S # {}
    PROVE  Min(S) \in S
<1>1. \E x \in S : \A y \in S : x <= y
  <2> SUFFICES ASSUME \A x \in S : \E y \in S : ~(x <= y) PROVE FALSE
    OBVIOUS
  <2>1. a \in S => (b \in S /\ b < a) \/ (c \in S /\ c < a)
    OBVIOUS
  <2>2. b \in S => (a \in S /\ a < b) \/ (c \in S /\ c < b)
    OBVIOUS
  <2>3. c \in S => (a \in S /\ a < c) \/ (b \in S /\ b < c)
    OBVIOUS
  <2>4. a \in S \/ b \in S \/ c \in S
    OBVIOUS
  <2> QED BY <2>1, <2>2, <2>3, <2>4
<1> QED BY <1>1 DEF Min

(* The loop sleeps, but no longer than loop_idle_sleep_seconds. *)
LEMMA SleepBounds == ASSUME TypeOK PROVE SleepTicks \in Nat /\ SleepTicks <= Idle
<1> DEFINE deltas == {target - now : target \in {nextMonitor, nextHealth, nextDecision}}
           ahead  == {delta \in deltas : delta > 0}
<1>1. CASE ahead = {}
  BY <1>1, Positive DEF SleepTicks
<1>2. CASE ahead # {}
  <2>1. /\ nextMonitor - now \in Int /\ nextHealth - now \in Int /\ nextDecision - now \in Int
        /\ ahead \in SUBSET {nextMonitor - now, nextHealth - now, nextDecision - now}
    BY DEF TypeOK
  <2>2. Min(ahead) \in ahead
    <3> HIDE DEF ahead
    <3> QED BY <1>2, <2>1, LeastOfThree
  <2>3. Min(ahead) \in Nat
    BY <2>1, <2>2
  <2>4. \E x \in {Min(ahead), Idle} : \A y \in {Min(ahead), Idle} : x <= y
    BY <2>3, Positive
  <2>5. /\ Min({Min(ahead), Idle}) \in {Min(ahead), Idle}
        /\ \A y \in {Min(ahead), Idle} : Min({Min(ahead), Idle}) <= y
    BY <2>4 DEF Min
  <2>6. SleepTicks = Min({Min(ahead), Idle})
    BY <1>2 DEF SleepTicks
  <2> HIDE DEF ahead
  <2> QED BY <2>3, <2>5, <2>6, Positive
<1> QED BY <1>1, <1>2

-----------------------------------------------------------------------------
(* Beginning and end of a process *)

LEMMA BootKeeps == ASSUME Inv, Boot PROVE Inv'
<1>1. TypeOK'
  BY Positive, SlowAssumption DEF Inv, TypeOK, Down, Running, Reading, Boot, deadlines, history
<1>2. Elapsed'
  BY Positive, SlowAssumption DEF Inv, TypeOK, Elapsed, Reading, LongestIteration, Boot,
         deadlines, history
<1>3. MonitorAhead'
  BY Positive, SlowAssumption DEF Inv, TypeOK, Elapsed, MonitorAhead, JustSet, LongestIteration,
         Boot, deadlines, history
<1>4. DecisionAhead'
  BY Positive DEF Inv, TypeOK, Elapsed, DecisionAhead, JustSet, Running, Reading, Boot,
         deadlines, history
<1>5. BarsDecided'
  BY Positive, BarsAreNat DEF Inv, TypeOK, Elapsed, BarsDecided, Down, Running, Reading, Boot,
         deadlines, history
<1>6. NoneLeftOut'
  BY Positive, BarsAreNat DEF Inv, TypeOK, NoneLeftOut, Running, Reading, Boot, deadlines,
         history
<1>7. DaysSummed'
  BY BarsAreNat DEF Inv, TypeOK, Elapsed, DaysSummed, Running, Reading, Boot, deadlines, history
<1>8. NoDayLeftOut'
  BY BarsAreNat DEF Inv, TypeOK, NoDayLeftOut, Running, Reading, Boot, deadlines, history
<1> QED BY <1>1, <1>2, <1>3, <1>4, <1>5, <1>6, <1>7, <1>8 DEF Inv

LEMMA InitializeRuntimeScheduleKeeps ==
    ASSUME Inv, NEW lag \in Lags, InitializeRuntimeSchedule(lag)
    PROVE  Inv'
<1> DEFINE t == clock + lag
<1>1. t \in Nat /\ clock <= t /\ DayOf(t) \in Nat
  BY DayIsNat, SlowAssumption DEF Inv, TypeOK, Lags
<1>2. /\ pc = "starting" /\ pc' = "loop"
      /\ clock' = t /\ now' = t /\ upSince' = t /\ monitored' = t
      /\ nextMonitor' = t /\ nextHealth' = t /\ currentDay' = DayOf(t)
      /\ UNCHANGED <<stopping, cycles, summaries>> /\ overran' = FALSE
  BY DEF InitializeRuntimeSchedule
<1>3. nextDecision' = IF t % Bar = 0 THEN t ELSE NextBoundary(t)
  BY DEF InitializeRuntimeSchedule
<1>4. /\ t <= nextDecision' /\ nextDecision' \in Nat
      /\ nextDecision' = BarOf(t) * Bar \/ nextDecision' = (BarOf(t) + 1) * Bar
  BY <1>1, <1>3, BarBounds
<1> HIDE DEF t
<1>5. TypeOK'
  BY <1>1, <1>2, <1>4 DEF Inv, TypeOK, Running
<1>6. Elapsed' /\ MonitorAhead'
  BY <1>1, <1>2, <1>4, Positive, SlowAssumption
     DEF Elapsed, MonitorAhead, JustSet, LongestIteration, Reading
<1>7. DecisionAhead'
  <2>1. JustSet'
    BY <1>1, <1>2, <1>4 DEF JustSet
  <2>2. \E k \in Nat : nextDecision' = k * Bar
    BY <1>1, <1>4, BarBounds
  <2> QED BY <1>2, <2>1, <2>2 DEF DecisionAhead, Reading
<1>8. BarsDecided'
  <2> SUFFICES ASSUME NEW b \in Bars
               PROVE  cycles[b] <= 1 /\ (cycles[b] > 0 => b * Bar <= t /\ b * Bar < nextDecision')
    BY <1>2 DEF BarsDecided, Down, Running
  <2>1. cycles[b] <= 1 /\ (cycles[b] > 0 => b * Bar < clock)
    BY <1>2 DEF Inv, BarsDecided, Down
  <2> QED BY <2>1, <1>1, <1>4, BarsAreNat DEF Inv, TypeOK
<1>9. NoneLeftOut'
  <2> SUFFICES ASSUME NEW b \in Bars, t <= b * Bar, b * Bar < nextDecision'
               PROVE  FALSE
    BY <1>2 DEF NoneLeftOut, Running
  <2>1. b \in Nat /\ b * Bar \in Nat
    BY BarsAreNat
  <2>2. t % Bar # 0 /\ nextDecision' = (BarOf(t) + 1) * Bar
    BY <1>1, <1>3, <1>4, <2>1, BarBounds
  <2>3. /\ BarOf(t) \in Nat /\ BarOf(t) * Bar <= t /\ BarOf(t) * Bar \in Int
        /\ t % Bar = 0 <=> t = BarOf(t) * Bar
    BY <1>1, BarBounds, OnBar
  <2>4. b < BarOf(t) + 1
    BY <2>1, <2>2, <2>3, Products, Positive
  <2>5. b * Bar <= BarOf(t) * Bar
    BY <2>1, <2>3, <2>4, Products, Positive
  <2> QED BY <1>1, <2>1, <2>2, <2>3, <2>5
<1>10. DaysSummed'
  <2> SUFFICES ASSUME NEW d \in Days
               PROVE  summaries[d] <= 1 /\ (summaries[d] > 0 => d < DayOf(t))
    BY <1>2 DEF DaysSummed
  <2>1. summaries[d] <= 1 /\ (summaries[d] > 0 => d < DayOf(clock))
    BY DEF Inv, DaysSummed
  <2>2. DayOf(clock) \in Nat /\ DayOf(clock) <= DayOf(t) /\ d \in Nat
    BY <1>1, Ordered, DayIsNat, BarsAreNat DEF Inv, TypeOK
  <2> QED BY <1>1, <2>1, <2>2
<1>11. NoDayLeftOut'
  BY <1>1, <1>2, BarsAreNat DEF NoDayLeftOut
<1> QED BY <1>5, <1>6, <1>7, <1>8, <1>9, <1>10, <1>11 DEF Inv

LEMMA StopKeeps == ASSUME Inv, Stop PROVE Inv'
<1>1. TypeOK'
  BY Positive, SlowAssumption DEF Inv, TypeOK, Down, Running, Reading, Stop, deadlines, history,
         JustSet
<1>2. Elapsed'
  BY Positive, SlowAssumption DEF Inv, TypeOK, Elapsed, Reading, LongestIteration, Stop,
         deadlines, history, JustSet
<1>3. MonitorAhead'
  BY Positive, SlowAssumption DEF Inv, TypeOK, Elapsed, MonitorAhead, JustSet, LongestIteration,
         Stop, deadlines, history, JustSet
<1>4. DecisionAhead'
  BY Positive DEF Inv, TypeOK, Elapsed, DecisionAhead, JustSet, Running, Reading, Stop,
         deadlines, history, JustSet
<1>5. BarsDecided'
  BY Positive, BarsAreNat DEF Inv, TypeOK, Elapsed, BarsDecided, Down, Running, Reading, Stop,
         deadlines, history, JustSet
<1>6. NoneLeftOut'
  BY Positive, BarsAreNat DEF Inv, TypeOK, NoneLeftOut, Running, Reading, Stop, deadlines,
         history, JustSet
<1>7. DaysSummed'
  BY BarsAreNat DEF Inv, TypeOK, Elapsed, DaysSummed, Running, Reading, Stop, deadlines,
         history, JustSet
<1>8. NoDayLeftOut'
  BY BarsAreNat DEF Inv, TypeOK, NoDayLeftOut, Running, Reading, Stop, deadlines, history,
         JustSet
<1> QED BY <1>1, <1>2, <1>3, <1>4, <1>5, <1>6, <1>7, <1>8 DEF Inv

LEMMA ShutdownKeeps == ASSUME Inv, Shutdown PROVE Inv'
<1>1. TypeOK'
  BY Positive, SlowAssumption DEF Inv, TypeOK, Down, Running, Reading, Shutdown, deadlines,
         history
<1>2. Elapsed'
  BY Positive, SlowAssumption DEF Inv, TypeOK, Elapsed, Reading, LongestIteration, Shutdown,
         deadlines, history
<1>3. MonitorAhead'
  BY Positive, SlowAssumption DEF Inv, TypeOK, Elapsed, MonitorAhead, JustSet, LongestIteration,
         Shutdown, deadlines, history
<1>4. DecisionAhead'
  BY Positive DEF Inv, TypeOK, Elapsed, DecisionAhead, JustSet, Running, Reading, Shutdown,
         deadlines, history
<1>5. BarsDecided'
  BY Positive, BarsAreNat DEF Inv, TypeOK, Elapsed, BarsDecided, Down, Running, Reading,
         Shutdown, deadlines, history
<1>6. NoneLeftOut'
  BY Positive, BarsAreNat DEF Inv, TypeOK, NoneLeftOut, Running, Reading, Shutdown, deadlines,
         history
<1>7. DaysSummed'
  BY BarsAreNat, DaysOrdered DEF Inv, TypeOK, Elapsed, DaysSummed, Running, Reading, Shutdown,
         deadlines, history
<1>8. NoDayLeftOut'
  BY BarsAreNat DEF Inv, TypeOK, NoDayLeftOut, Running, Reading, Shutdown, deadlines, history
<1> QED BY <1>1, <1>2, <1>3, <1>4, <1>5, <1>6, <1>7, <1>8 DEF Inv

LEMMA CrashKeeps == ASSUME Inv, Crash PROVE Inv'
<1>1. TypeOK'
  BY Positive, SlowAssumption DEF Inv, TypeOK, Down, Running, Reading, Crash, deadlines, history
<1>2. Elapsed'
  BY Positive, SlowAssumption DEF Inv, TypeOK, Elapsed, Reading, LongestIteration, Crash,
         deadlines, history
<1>3. MonitorAhead'
  BY Positive, SlowAssumption DEF Inv, TypeOK, Elapsed, MonitorAhead, JustSet, LongestIteration,
         Crash, deadlines, history
<1>4. DecisionAhead'
  BY Positive DEF Inv, TypeOK, Elapsed, DecisionAhead, JustSet, Running, Reading, Crash,
         deadlines, history
<1>5. BarsDecided'
  BY Positive, BarsAreNat DEF Inv, TypeOK, Elapsed, BarsDecided, Down, Running, Reading, Crash,
         deadlines, history
<1>6. NoneLeftOut'
  BY Positive, BarsAreNat DEF Inv, TypeOK, NoneLeftOut, Running, Reading, Crash, deadlines,
         history
<1>7. DaysSummed'
  BY BarsAreNat, DaysOrdered DEF Inv, TypeOK, Elapsed, DaysSummed, Running, Reading, Crash,
         deadlines, history
<1>8. NoDayLeftOut'
  BY BarsAreNat DEF Inv, TypeOK, NoDayLeftOut, Running, Reading, Crash, deadlines, history
<1> QED BY <1>1, <1>2, <1>3, <1>4, <1>5, <1>6, <1>7, <1>8 DEF Inv

-----------------------------------------------------------------------------
(* One iteration *)

LEMMA BeginIterationKeeps == ASSUME Inv, BeginIteration PROVE Inv'
<1>1. /\ pc = "loop" /\ pc' = "health" /\ now' = clock /\ clock < MaxClock
      /\ overran' = (overran \/ clock - now > Bar)
      /\ UNCHANGED <<clock, stopping, nextHealth, nextMonitor, nextDecision, cycles, upSince, monitored>>
  BY DEF BeginIteration, deadlines
<1>2. clock \in Nat /\ now \in Nat /\ now <= clock /\ nextDecision \in Nat
  BY DEF Inv, TypeOK, Elapsed
<1>3. currentDay = DayOf(now) /\ DayOf(now) <= DayOf(clock) /\ DayOf(clock) \in Nat
  BY <1>1, <1>2, Ordered, DayIsNat DEF Inv, DaysSummed, Running
<1>4. currentDay \in Days /\ currentDay \in Nat
  <2>1. now < MaxClock
    BY <1>1, <1>2, Positive
  <2> QED BY <1>2, <1>3, <2>1, InRange, DayIsNat
<1>5. currentDay' = DayOf(clock)
  BY DEF BeginIteration, HandleDailyRollover
<1>6. \/ DayOf(clock) = currentDay /\ summaries' = summaries
      \/ DayOf(clock) > currentDay /\ summaries' = [summaries EXCEPT ![currentDay] = summaries[currentDay] + 1]
  BY <1>3, <1>4 DEF BeginIteration, HandleDailyRollover
<1>7. TypeOK'
  <2>1. summaries' \in [Days -> Nat]
    BY <1>4, <1>6 DEF Inv, TypeOK
  <2>2. overran' \in BOOLEAN
    BY <1>1, Zenon DEF Inv, TypeOK
  <2> QED BY <1>1, <1>3, <1>5, <2>1, <2>2 DEF Inv, TypeOK, Running, Reading
<1>8. Elapsed' /\ MonitorAhead'
  BY <1>1, <1>2, Positive, SlowAssumption
     DEF Inv, TypeOK, Elapsed, MonitorAhead, JustSet, LongestIteration, Reading
<1>9. DecisionAhead'
  <2>1. \E k \in Nat : nextDecision' = k * Bar
    BY <1>1 DEF Inv, DecisionAhead, Running
  <2>2. ASSUME ~overran' PROVE now' < nextDecision' + Bar
    <3>1. clock - now <= Bar
      <4>1. ~(clock - now > Bar)
        BY <1>1, <2>2, Zenon
      <4> QED BY <1>2, <4>1, Positive
    <3>2. now < nextDecision \/ (clock = now /\ now <= nextDecision)
      BY <1>1 DEF Inv, DecisionAhead, JustSet, Running
    <3> QED BY <1>1, <1>2, <3>1, <3>2, Positive
  <2> QED BY <1>1, <2>1, <2>2 DEF DecisionAhead, Reading
<1>10. BarsDecided'
  BY <1>1, <1>2, BarsAreNat DEF Inv, TypeOK, BarsDecided, Down, Running, Reading
<1>11. NoneLeftOut'
  BY <1>1 DEF Inv, NoneLeftOut, Running, Reading
<1>12. DaysSummed'
  <2> SUFFICES ASSUME NEW d \in Days
               PROVE  summaries'[d] <= 1 /\ (summaries'[d] > 0 => d < DayOf(clock))
    BY <1>1, <1>5 DEF DaysSummed
  <2>1. summaries[d] <= 1 /\ (summaries[d] > 0 => d < currentDay) /\ d \in Nat /\ summaries[d] \in Nat
    BY <1>1, BarsAreNat DEF Inv, TypeOK, DaysSummed, Running
  <2> QED BY <1>3, <1>4, <1>6, <2>1 DEF Inv, TypeOK
<1>13. NoDayLeftOut'
  <2> SUFFICES ASSUME NEW b \in Bars, cycles[b] > 0, DayOf(b * Bar) \in DayOf(upSince) .. DayOf(clock) - 1
               PROVE  summaries'[DayOf(b * Bar)] = 1
    BY <1>1, <1>5 DEF NoDayLeftOut
  <2>1. b * Bar \in Nat /\ b * Bar <= now /\ DayOf(b * Bar) \in Nat
    BY <1>1, BarsAreNat DEF Inv, BarsDecided, Running
  <2>2. DayOf(b * Bar) <= currentDay
    BY <1>2, <1>3, <2>1, Ordered
  <2>3. CASE DayOf(b * Bar) < currentDay
    <3>1. summaries[DayOf(b * Bar)] = 1
      BY <1>1, <1>4, <2>1, <2>3, BarsAreNat DEF Inv, TypeOK, NoDayLeftOut, Running
    <3>2. DayOf(b * Bar) # currentDay
      BY <1>4, <2>1, <2>3
    <3>3. summaries'[DayOf(b * Bar)] = summaries[DayOf(b * Bar)]
      <4>1. CASE summaries' = summaries
        BY <4>1
      <4>2. CASE summaries' = [summaries EXCEPT ![currentDay] = summaries[currentDay] + 1]
        <5>1. MaxClock + 6 * Slow + Idle \in Nat
          BY Positive, SlowAssumption
        <5>2. DayOf(MaxClock + 6 * Slow + Idle) \in Nat
          BY <5>1, DayIsNat
        <5>3. DayOf(b * Bar) \in Days
          BY <1>4, <2>1, <2>3, <5>2 DEF Days
        <5> QED BY <4>2, <3>2, <5>3 DEF Inv, TypeOK
      <4> QED BY <1>6, <4>1, <4>2
    <3> QED BY <3>1, <3>3
  <2>4. CASE DayOf(b * Bar) = currentDay
    <3>1. DayOf(clock) > currentDay
      BY <1>3, <1>4, <2>1, <2>4
    <3>2. summaries[currentDay] = 0
      BY <1>1, <1>4 DEF Inv, TypeOK, DaysSummed, Running
    <3> QED BY <1>4, <1>6, <2>4, <3>1, <3>2 DEF Inv, TypeOK
  <2> QED BY <1>4, <2>1, <2>2, <2>3, <2>4
<1> QED BY <1>7, <1>8, <1>9, <1>10, <1>11, <1>12, <1>13 DEF Inv

LEMMA RunHealthCheckKeeps == ASSUME Inv, NEW lag \in Lags, RunHealthCheck(lag) PROVE Inv'
<1>1. TypeOK'
  BY Positive, SlowAssumption DEF Inv, TypeOK, Down, Running, Reading, RunHealthCheck, Lags,
         history
<1>2. Elapsed'
  BY Positive, SlowAssumption DEF Inv, TypeOK, Elapsed, Reading, LongestIteration,
         RunHealthCheck, Lags, history
<1>3. MonitorAhead'
  BY Positive, SlowAssumption DEF Inv, TypeOK, Elapsed, MonitorAhead, JustSet, LongestIteration,
         RunHealthCheck, Lags, history
<1>4. DecisionAhead'
  BY Positive DEF Inv, TypeOK, Elapsed, DecisionAhead, JustSet, Running, Reading,
         RunHealthCheck, Lags, history
<1>5. BarsDecided'
  BY Positive, BarsAreNat DEF Inv, TypeOK, Elapsed, BarsDecided, Down, Running, Reading,
         RunHealthCheck, Lags, history
<1>6. NoneLeftOut'
  BY Positive, BarsAreNat DEF Inv, TypeOK, NoneLeftOut, Running, Reading, RunHealthCheck, Lags,
         history
<1>7. DaysSummed'
  BY BarsAreNat, DaysOrdered DEF Inv, TypeOK, Elapsed, DaysSummed, Running, Reading,
         RunHealthCheck, Lags, history
<1>8. NoDayLeftOut'
  BY BarsAreNat DEF Inv, TypeOK, NoDayLeftOut, Running, Reading, RunHealthCheck, Lags, history
<1> QED BY <1>1, <1>2, <1>3, <1>4, <1>5, <1>6, <1>7, <1>8 DEF Inv

LEMMA RunPositionMonitorKeeps == ASSUME Inv, NEW lag \in Lags, RunPositionMonitor(lag) PROVE Inv'
<1>1. TypeOK'
  BY Positive, SlowAssumption DEF Inv, TypeOK, Down, Running, Reading, RunPositionMonitor, Lags
<1>2. Elapsed'
  BY Positive, SlowAssumption DEF Inv, TypeOK, Elapsed, Reading, LongestIteration,
         RunPositionMonitor, Lags
<1>3. MonitorAhead'
  BY Positive, SlowAssumption DEF Inv, TypeOK, Elapsed, MonitorAhead, JustSet, LongestIteration,
         RunPositionMonitor, Lags
<1>4. DecisionAhead'
  BY Positive DEF Inv, TypeOK, Elapsed, DecisionAhead, JustSet, Running, Reading,
         RunPositionMonitor, Lags
<1>5. BarsDecided'
  BY Positive, BarsAreNat DEF Inv, TypeOK, Elapsed, BarsDecided, Down, Running, Reading,
         RunPositionMonitor, Lags
<1>6. NoneLeftOut'
  BY Positive, BarsAreNat DEF Inv, TypeOK, NoneLeftOut, Running, Reading, RunPositionMonitor,
         Lags
<1>7. DaysSummed'
  BY BarsAreNat, DaysOrdered DEF Inv, TypeOK, Elapsed, DaysSummed, Running, Reading,
         RunPositionMonitor, Lags
<1>8. NoDayLeftOut'
  BY BarsAreNat DEF Inv, TypeOK, NoDayLeftOut, Running, Reading, RunPositionMonitor, Lags
<1> QED BY <1>1, <1>2, <1>3, <1>4, <1>5, <1>6, <1>7, <1>8 DEF Inv

LEMMA RunDecisionCycleKeeps == ASSUME Inv, NEW lag \in Lags, RunDecisionCycle(lag) PROVE Inv'
<1>1. /\ pc = "decision" /\ pc' = "kill"
      /\ UNCHANGED <<now, stopping, currentDay, nextHealth, nextMonitor, summaries, upSince,
                     monitored, overran>>
  BY DEF RunDecisionCycle
<1>2. /\ clock \in Nat /\ now \in Nat /\ now <= clock /\ now < MaxClock /\ nextDecision \in Nat
      /\ clock' \in Nat /\ clock <= clock' /\ clock' <= now + 3 * Slow
  BY <1>1, SlowAssumption DEF Inv, TypeOK, Elapsed, Reading, RunDecisionCycle, Lags
<1>3. Elapsed' /\ MonitorAhead'
  BY <1>1, <1>2 DEF Inv, Elapsed, MonitorAhead, Reading
<1>4. DaysSummed'
  <2>1. DayOf(clock) <= DayOf(clock') /\ DayOf(clock) \in Nat /\ DayOf(clock') \in Nat
    BY <1>2, Ordered, DayIsNat
  <2> QED BY <1>1, <2>1, BarsAreNat DEF Inv, DaysSummed, Running, Reading
<1>5. CASE now < nextDecision
  <2>1. UNCHANGED <<clock, nextDecision, cycles>>
    BY <1>2, <1>5 DEF RunDecisionCycle
  <2>2. TypeOK'
    BY <1>1, <2>1 DEF Inv, TypeOK, Running
  <2>3. DecisionAhead'
    BY <1>1, <1>5, <2>1 DEF Inv, DecisionAhead, Running, Reading
  <2>4. BarsDecided' /\ NoneLeftOut' /\ NoDayLeftOut'
    BY <1>1, <2>1 DEF Inv, BarsDecided, NoneLeftOut, NoDayLeftOut, Down, Running, Reading
  <2> QED BY <1>3, <1>4, <2>2, <2>3, <2>4 DEF Inv
<1>6. CASE now >= nextDecision
  <2> DEFINE here == BarOf(now)
  <2>1. /\ here \in Bars /\ here \in Nat /\ here * Bar \in Nat
        /\ here * Bar <= now /\ now < (here + 1) * Bar /\ (here + 1) * Bar \in Nat
    BY <1>2, InRange, BarBounds, BarsAreNat, Products, Positive
  <2>2. /\ nextDecision' = (here + 1) * Bar
        /\ cycles' = [cycles EXCEPT ![here] = cycles[here] + 1]
    BY <1>2, <1>6, BarBounds DEF RunDecisionCycle, AdvanceDecisionDeadline
  <2> HIDE DEF here
  <2>3. \A b \in Bars : cycles[b] \in Nat /\ b \in Nat /\ b * Bar \in Nat
    BY BarsAreNat DEF Inv, TypeOK
  <2>4. \A b \in Bars : cycles[b] > 0 => b < here
    <3> SUFFICES ASSUME NEW b \in Bars, cycles[b] > 0 PROVE b < here
      OBVIOUS
    <3>1. b * Bar < nextDecision
      BY <1>1 DEF Inv, BarsDecided, Running, Reading
    <3>2. PICK k \in Nat : nextDecision = k * Bar
      BY <1>1 DEF Inv, DecisionAhead, Running, Reading
    <3>3. b < k
      BY <2>3, <3>1, <3>2, Products, Positive
    <3>4. k * Bar < (here + 1) * Bar
      BY <1>2, <1>6, <2>1, <3>2
    <3>5. k < here + 1
      BY <2>1, <3>4, Products, Positive
    <3> QED BY <2>1, <2>3, <3>3, <3>5
  <2>5. cycles[here] = 0
    BY <2>1, <2>3, <2>4
  <2>6. TypeOK'
    BY <1>1, <1>2, <2>1, <2>2, <2>3 DEF Inv, TypeOK, Running
  <2>7. DecisionAhead'
    <3>1. here + 1 \in Nat
      BY <2>1
    <3> QED BY <1>1, <2>1, <2>2, <3>1 DEF DecisionAhead, Reading
  <2>8. BarsDecided'
    <3> SUFFICES ASSUME NEW b \in Bars
                 PROVE  /\ cycles'[b] <= 1
                        /\ cycles'[b] > 0 => /\ b * Bar <= now
                                             /\ b * Bar < nextDecision'
      BY <1>1, <1>2, <2>3 DEF BarsDecided, Down, Running
    <3>1. CASE b = here
      BY <1>2, <2>1, <2>2, <2>5, <3>1 DEF Inv, TypeOK
    <3>2. CASE b # here
      <4>1. cycles'[b] = cycles[b]
        BY <2>2, <3>2 DEF Inv, TypeOK
      <4>2. cycles[b] <= 1 /\ (cycles[b] > 0 => b * Bar <= now /\ b * Bar < nextDecision)
        BY <1>1 DEF Inv, BarsDecided, Running, Reading
      <4> QED BY <1>2, <1>6, <2>1, <2>2, <2>3, <4>1, <4>2
    <3> QED BY <3>1, <3>2
  <2>9. NoneLeftOut'
    <3> SUFFICES ASSUME ~overran, NEW b \in Bars, upSince <= b * Bar, b * Bar < nextDecision'
                 PROVE  cycles'[b] >= 1
      BY <1>1 DEF NoneLeftOut
    <3>1. CASE b = here
      BY <2>1, <2>2, <2>5, <3>1 DEF Inv, TypeOK
    <3>2. CASE b # here
      <4>1. b < here + 1
        BY <2>1, <2>2, <2>3, Products, Positive
      <4>2. b + 1 <= here
        BY <2>1, <2>3, <3>2, <4>1
      <4>3. (b + 1) * Bar <= here * Bar /\ (b + 1) * Bar = b * Bar + Bar
        BY <2>1, <2>3, <4>2, Products, Positive
      <4>4. now < nextDecision + Bar
        BY <1>1 DEF Inv, DecisionAhead, Running, Reading
      <4>5. b * Bar < nextDecision
        BY <1>2, <2>1, <2>3, <4>3, <4>4, Positive
      <4>6. cycles[b] >= 1
        BY <1>1, <4>5 DEF Inv, NoneLeftOut, Running, Reading
      <4> QED BY <2>2, <3>2, <4>6 DEF Inv, TypeOK
    <3> QED BY <3>1, <3>2
  <2>10. NoDayLeftOut'
    <3> SUFFICES ASSUME NEW b \in Bars, cycles'[b] > 0, DayOf(b * Bar) \in DayOf(upSince) .. currentDay - 1
                 PROVE  summaries[DayOf(b * Bar)] = 1
      BY <1>1 DEF NoDayLeftOut
    <3>1. DayOf(here * Bar) = currentDay
      BY <1>1, <1>2, DayOfBar DEF Inv, DaysSummed, Running, Reading, here
    <3>2. b # here
      BY <3>1 DEF Inv, TypeOK
    <3>3. cycles[b] > 0
      BY <2>2, <3>2 DEF Inv, TypeOK
    <3> QED BY <1>1, <3>3 DEF Inv, NoDayLeftOut, Running, Reading
  <2> QED BY <1>3, <1>4, <2>6, <2>7, <2>8, <2>9, <2>10 DEF Inv
<1> QED BY <1>2, <1>5, <1>6

LEMMA EndIterationKeeps == ASSUME Inv, NEW lag \in Lags, EndIteration(lag) PROVE Inv'
<1>1. TypeOK'
  BY Positive, SlowAssumption, SleepBounds DEF Inv, TypeOK, Down, Running, Reading,
         EndIteration, Lags, deadlines, history
<1>2. Elapsed'
  BY Positive, SlowAssumption, SleepBounds DEF Inv, TypeOK, Elapsed, Reading, LongestIteration,
         EndIteration, Lags, deadlines, history
<1>3. MonitorAhead'
  BY Positive, SlowAssumption DEF Inv, TypeOK, Elapsed, MonitorAhead, JustSet, LongestIteration,
         EndIteration, Lags, deadlines, history
<1>4. DecisionAhead'
  BY Positive DEF Inv, TypeOK, Elapsed, DecisionAhead, JustSet, Running, Reading, EndIteration,
         Lags, deadlines, history
<1>5. BarsDecided'
  BY Positive, BarsAreNat, SleepBounds DEF Inv, TypeOK, Elapsed, BarsDecided, Down, Running,
         Reading, EndIteration, Lags, deadlines, history
<1>6. NoneLeftOut'
  BY Positive, BarsAreNat DEF Inv, TypeOK, NoneLeftOut, Running, Reading, EndIteration, Lags,
         deadlines, history
<1>7. DaysSummed'
  BY BarsAreNat, DaysOrdered, SleepBounds DEF Inv, TypeOK, Elapsed, DaysSummed, Running,
         Reading, EndIteration, Lags, deadlines, history
<1>8. NoDayLeftOut'
  BY BarsAreNat DEF Inv, TypeOK, NoDayLeftOut, Running, Reading, EndIteration, Lags, deadlines,
         history
<1> QED BY <1>1, <1>2, <1>3, <1>4, <1>5, <1>6, <1>7, <1>8 DEF Inv

LEMMA StutterKeeps == ASSUME Inv, UNCHANGED vars PROVE Inv'
<1>1. TypeOK'
  BY Positive, SlowAssumption DEF Inv, TypeOK, Down, Running, Reading, vars, deadlines, history,
         JustSet
<1>2. Elapsed'
  BY Positive, SlowAssumption DEF Inv, TypeOK, Elapsed, Reading, LongestIteration, vars,
         deadlines, history, JustSet
<1>3. MonitorAhead'
  BY Positive, SlowAssumption DEF Inv, TypeOK, Elapsed, MonitorAhead, JustSet, LongestIteration,
         vars, deadlines, history, JustSet
<1>4. DecisionAhead'
  BY Positive DEF Inv, TypeOK, Elapsed, DecisionAhead, JustSet, Running, Reading, vars,
         deadlines, history, JustSet
<1>5. BarsDecided'
  BY Positive, BarsAreNat DEF Inv, TypeOK, Elapsed, BarsDecided, Down, Running, Reading, vars,
         deadlines, history, JustSet
<1>6. NoneLeftOut'
  BY Positive, BarsAreNat DEF Inv, TypeOK, NoneLeftOut, Running, Reading, vars, deadlines,
         history, JustSet
<1>7. DaysSummed'
  BY BarsAreNat DEF Inv, TypeOK, Elapsed, DaysSummed, Running, Reading, vars, deadlines,
         history, JustSet
<1>8. NoDayLeftOut'
  BY BarsAreNat DEF Inv, TypeOK, NoDayLeftOut, Running, Reading, vars, deadlines, history,
         JustSet
<1> QED BY <1>1, <1>2, <1>3, <1>4, <1>5, <1>6, <1>7, <1>8 DEF Inv

-----------------------------------------------------------------------------
LEMMA InitInv == Init => Inv
<1> SUFFICES ASSUME Init PROVE Inv
  OBVIOUS
<1>1. TypeOK
  BY DEF Init, TypeOK, Down
<1>2. Elapsed /\ MonitorAhead /\ DecisionAhead
  BY Positive DEF Init, Elapsed, MonitorAhead, DecisionAhead, Reading, Running
<1>3. BarsDecided /\ NoneLeftOut /\ DaysSummed /\ NoDayLeftOut
  BY DEF Init, BarsDecided, NoneLeftOut, DaysSummed, NoDayLeftOut, Running, Reading
<1> QED BY <1>1, <1>2, <1>3 DEF Inv

LEMMA StepInv == ASSUME Inv, [Next]_vars PROVE Inv'
BY BootKeeps, InitializeRuntimeScheduleKeeps, StopKeeps, ShutdownKeeps, CrashKeeps,
   BeginIterationKeeps, RunHealthCheckKeeps, RunPositionMonitorKeeps, RunDecisionCycleKeeps,
   EndIterationKeeps, StutterKeeps DEF Next, Loop

LEMMA Invariance == Spec => []Inv
<1>1. Init => Inv
  BY InitInv
<1>2. Inv /\ [Next]_vars => Inv'
  BY StepInv
<1> QED BY <1>1, <1>2, PTL DEF Spec

(* No 15-minute bar is decided on twice, whichever processes follow each    *)
(* other, and none is left out while iterations keep up                    *)
(* (_advance_decision_deadline and the start's first boundary).            *)
THEOREM BarsOnce == Spec => []EachBarOnce
<1>1. Inv => EachBarOnce
  <2> SUFFICES ASSUME Inv PROVE EachBarOnce
    OBVIOUS
  <2>1. \A b \in Bars : cycles[b] <= 1
    BY DEF Inv, BarsDecided
  <2>2. ASSUME pc = "loop", ~overran, NEW b \in Bars, upSince <= b * Bar, b * Bar <= now, upSince < now
        PROVE  cycles[b] >= 1
    <3>1. now < nextDecision
      BY <2>2 DEF Inv, TypeOK, DecisionAhead, Running, JustSet
    <3>2. b * Bar < nextDecision
      BY <2>2, <3>1, BarsAreNat DEF Inv, TypeOK
    <3> QED BY <2>2, <3>2 DEF Inv, NoneLeftOut, Running
  <2> QED BY <2>1, <2>2 DEF EachBarOnce
<1> QED BY <1>1, Invariance, PTL

(* Open positions are looked at in time, however the three deadlines of the *)
(* loop fall together and however long each handler takes.                 *)
THEOREM MonitorInTime == Spec => []MonitorPrompt
<1>1. Inv => MonitorPrompt
  BY Positive, SlowAssumption
     DEF Inv, TypeOK, MonitorAhead, JustSet, Elapsed, MonitorPrompt, Down, Running, Reading, LongestIteration
<1> QED BY <1>1, Invariance, PTL

(* A day gets no second summary, and a day with decisions has one when the  *)
(* process that saw its end goes on (_handle_daily_rollover).              *)
THEOREM SummariesOnce == Spec => []OneSummaryEachDay
<1>1. Inv => OneSummaryEachDay
  BY DEF Inv, DaysSummed, NoDayLeftOut, OneSummaryEachDay, Running, Reading
<1> QED BY <1>1, Invariance, PTL

-----------------------------------------------------------------------------
(* Why a stop request ends the process *)

(* How far it is from a call to the next look at the request. *)
Distance == [loop |-> 0, kill |-> 1, decision |-> 2, monitor |-> 3, health |-> 4, starting |-> 5]

StopAdvances ==
    stopping /\ pc # "down" =>
        \/ pc' = "down"
        \/ stopping' /\ Distance[pc'] < Distance[pc]
        \/ UNCHANGED vars

(* Once the request is there no step forgets it and no iteration begins:    *)
(* each is nearer to the look at it, and that look is the end.  It is what  *)
(* StopEnds decreases, also while the process is still starting.            *)
THEOREM StopsAdvance == Spec => [][StopAdvances]_vars
<1>1. Inv /\ [Next]_vars => StopAdvances
  <2> SUFFICES ASSUME Inv, Next, stopping, pc # "down", pc' # "down"
               PROVE  stopping' /\ Distance[pc'] < Distance[pc]
    BY DEF StopAdvances
  <2>1. CASE Loop
    <3>1. CASE BeginIteration \/ Shutdown
      BY <3>1 DEF BeginIteration, Shutdown
    <3>2. ASSUME NEW lag \in Lags,
                 \/ InitializeRuntimeSchedule(lag) \/ RunHealthCheck(lag) \/ RunPositionMonitor(lag)
                 \/ RunDecisionCycle(lag) \/ EndIteration(lag)
          PROVE  /\ stopping' = stopping
                 /\ <<pc, pc'>> \in {<<"starting", "loop">>, <<"health", "monitor">>,
                                     <<"monitor", "decision">>, <<"decision", "kill">>, <<"kill", "loop">>}
      BY <3>2 DEF InitializeRuntimeSchedule, RunHealthCheck, RunPositionMonitor, RunDecisionCycle,
                  EndIteration, history
    <3>3. ASSUME <<pc, pc'>> \in {<<"starting", "loop">>, <<"health", "monitor">>,
                                  <<"monitor", "decision">>, <<"decision", "kill">>, <<"kill", "loop">>}
          PROVE  Distance[pc'] < Distance[pc]
      BY <3>3 DEF Distance
    <3>4. CASE \E lag \in Lags :
                 \/ InitializeRuntimeSchedule(lag) \/ RunHealthCheck(lag) \/ RunPositionMonitor(lag)
                 \/ RunDecisionCycle(lag) \/ EndIteration(lag)
      BY <3>2, <3>3, <3>4
    <3> QED BY <2>1, <3>1, <3>4 DEF Loop
  <2>2. CASE Stop \/ Crash \/ Boot
    BY <2>2 DEF Stop, Crash, Boot
  <2> QED BY <2>1, <2>2 DEF Next
<1> QED BY <1>1, Invariance, PTL DEF Spec
=============================================================================
