----------------------------- MODULE EventLoop ------------------------------
(***************************************************************************)
(* The clockwork of BotOrchestrator: start, _run_event_loop with its three *)
(* deadlines, the daily rollover and stop.  BotRuntime runs the handlers   *)
(* of one iteration in the code's order but not at their times; here the   *)
(* handlers only take time, and the question is when they run.             *)
(*                                                                         *)
(* Time is counted in ticks.  An iteration reads the clock once ("now")    *)
(* and uses that reading for every deadline, while its handlers let the    *)
(* clock run on.  A process that ends is started again by systemd after    *)
(* RestartSec, at least one tick.                                          *)
(***************************************************************************)
EXTENDS Integers, FiniteSetsExt

CONSTANTS
    Bar,            \* ticks of 15 minutes
    BarsPerDay,     \* 96 in the code
    MonitorEvery,   \* position_monitor_interval_seconds
    HealthEvery,    \* health_check_interval_seconds
    Idle,           \* loop_idle_sleep_seconds
    Slow,           \* bound: ticks a handler may take
    MaxClock        \* bound: no iteration begins after it

ASSUME PositiveAssumption ==
    {Bar, BarsPerDay, MonitorEvery, HealthEvery, Idle, MaxClock} \subseteq Nat \ {0}
ASSUME SlowAssumption     == Slow \in Nat

VARIABLES
    clock,          \* the wall clock
    now,            \* the iteration's reading of it
    pc,             \* "down", "starting", "loop", "health", "monitor", "decision" or "kill"
    stopping,       \* _stop_event
    currentDay,     \* _current_utc_day
    nextHealth, nextMonitor, nextDecision,
    cycles,         \* history: decision cycles run in each bar
    summaries,      \* history: summaries sent for each day
    upSince,        \* history: when this process set its schedule
    monitored,      \* history: the reading at which the monitor last ran
    overran         \* history: did an iteration of this process take longer than a bar?

deadlines == <<nextHealth, nextMonitor, nextDecision>>
history   == <<cycles, summaries, upSince, monitored, overran>>
vars      == <<clock, now, pc, stopping, currentDay, deadlines, history>>

BarOf(t) == t \div Bar
DayOf(t) == BarOf(t) \div BarsPerDay
Bars     == 0 .. BarOf(MaxClock + 6 * Slow + Idle) + 1
Days     == 0 .. DayOf(MaxClock + 6 * Slow + Idle) + 1
Lags     == 0 .. Slow

-----------------------------------------------------------------------------
NextBoundary(t) == (BarOf(t) + 1) * Bar

(* start: everything before the schedule is set takes some time. *)
Boot ==
    /\ pc = "down" /\ clock < MaxClock
    /\ pc' = "starting" /\ stopping' = FALSE
    /\ UNCHANGED <<clock, now, currentDay, deadlines, history>>

InitializeRuntimeSchedule(lag) ==
    LET t == clock + lag
    IN  /\ pc = "starting" /\ pc' = "loop"
        /\ clock' = t /\ now' = t
        /\ currentDay' = DayOf(t)
        /\ nextMonitor' = t /\ nextHealth' = t
        /\ nextDecision' = IF t % Bar = 0 THEN t ELSE NextBoundary(t)
        /\ upSince' = t /\ monitored' = t /\ overran' = FALSE
        /\ UNCHANGED <<stopping, cycles, summaries>>

(* Mutant: the summary is that of the day that begins. *)
SummaryOfNewDay(t) ==
    IF DayOf(t) = currentDay
    THEN UNCHANGED <<currentDay, summaries>>
    ELSE /\ summaries' = [summaries EXCEPT ![DayOf(t)] = summaries[DayOf(t)] + 1]
         /\ currentDay' = DayOf(t)

HandleDailyRollover(t) ==
    IF DayOf(t) = currentDay
    THEN UNCHANGED <<currentDay, summaries>>
    ELSE /\ summaries' = [summaries EXCEPT ![currentDay] = summaries[currentDay] + 1]
         /\ currentDay' = DayOf(t)

BeginIteration ==
    /\ pc = "loop" /\ ~stopping /\ clock < MaxClock
    /\ pc' = "health" /\ now' = clock
    /\ HandleDailyRollover(clock)
    /\ overran' = (overran \/ clock - now > Bar)
    /\ UNCHANGED <<clock, stopping, deadlines, cycles, upSince, monitored>>

RunHealthCheck(lag) ==
    /\ pc = "health" /\ pc' = "monitor"
    /\ IF now >= nextHealth
       THEN clock' = clock + lag /\ nextHealth' = now + HealthEvery
       ELSE UNCHANGED <<clock, nextHealth>>
    /\ UNCHANGED <<now, stopping, currentDay, nextMonitor, nextDecision, history>>

(* Mutant: the monitor waits for the decision when both are due. *)
MonitorYields(lag) ==
    /\ pc = "monitor" /\ pc' = "decision"
    /\ IF now >= nextMonitor /\ now < nextDecision
       THEN clock' = clock + lag /\ nextMonitor' = now + MonitorEvery /\ monitored' = now
       ELSE UNCHANGED <<clock, nextMonitor, monitored>>
    /\ UNCHANGED <<now, stopping, currentDay, nextHealth, nextDecision, cycles, summaries, upSince,
                   overran>>

RunPositionMonitor(lag) ==
    /\ pc = "monitor" /\ pc' = "decision"
    /\ IF now >= nextMonitor
       THEN clock' = clock + lag /\ nextMonitor' = now + MonitorEvery /\ monitored' = now
       ELSE UNCHANGED <<clock, nextMonitor, monitored>>
    /\ UNCHANGED <<now, stopping, currentDay, nextHealth, nextDecision, cycles, summaries, upSince,
                   overran>>

(* Mutant: the deadline may be now. *)
AdvanceToNow(current, t) == IF current >= t THEN current ELSE NextBoundary(t)

(* current is on a boundary, and 15 minutes are added until it is past t. *)
AdvanceDecisionDeadline(current, t) == IF current > t THEN current ELSE NextBoundary(t)

RunDecisionCycle(lag) ==
    /\ pc = "decision" /\ pc' = "kill"
    /\ IF now >= nextDecision
       THEN /\ clock' = clock + lag
            /\ nextDecision' = AdvanceDecisionDeadline(nextDecision, now)
            /\ cycles' = [cycles EXCEPT ![BarOf(now)] = cycles[BarOf(now)] + 1]
       ELSE UNCHANGED <<clock, nextDecision, cycles>>
    /\ UNCHANGED <<now, stopping, currentDay, nextHealth, nextMonitor, summaries, upSince,
                   monitored, overran>>

(* The time to the next deadline, as seen from the iteration's reading. *)
SleepTicks ==
    LET deltas == {target - now : target \in {nextMonitor, nextHealth, nextDecision}}
        ahead  == {delta \in deltas : delta > 0}
    IN  IF ahead = {} THEN Idle ELSE Min({Min(ahead), Idle})

(* The kill switch, and the sleep. *)
EndIteration(lag) ==
    /\ pc = "kill" /\ pc' = "loop"
    /\ clock' = clock + lag + SleepTicks
    /\ UNCHANGED <<now, stopping, currentDay, deadlines, history>>

(* The signal handler. *)
Stop ==
    /\ pc # "down" /\ ~stopping
    /\ stopping' = TRUE
    /\ UNCHANGED <<clock, now, pc, currentDay, deadlines, history>>

(* Mutant: the event is looked at only after a decision. *)
ShutdownAfterDecision ==
    /\ pc = "kill" /\ stopping /\ nextDecision > now + Bar
    /\ pc' = "down" /\ clock' = clock + 1
    /\ UNCHANGED <<now, stopping, currentDay, deadlines, history>>

Shutdown ==
    /\ pc = "loop" /\ stopping
    /\ pc' = "down" /\ clock' = clock + 1
    /\ UNCHANGED <<now, stopping, currentDay, deadlines, history>>

(* An exception that no handler catches, or a kill; RestartSec passes. *)
Crash ==
    /\ pc # "down"
    /\ pc' = "down" /\ clock' = clock + 1
    /\ UNCHANGED <<now, stopping, currentDay, deadlines, history>>

Init ==
    /\ clock = 0 /\ now = 0 /\ pc = "down" /\ stopping = FALSE /\ currentDay = 0
    /\ nextHealth = 0 /\ nextMonitor = 0 /\ nextDecision = 0
    /\ cycles = [b \in Bars |-> 0] /\ summaries = [d \in Days |-> 0]
    /\ upSince = 0 /\ monitored = 0 /\ overran = FALSE

Loop ==
    \/ BeginIteration \/ Shutdown
    \/ \E lag \in Lags :
           \/ InitializeRuntimeSchedule(lag) \/ RunHealthCheck(lag) \/ RunPositionMonitor(lag)
           \/ RunDecisionCycle(lag) \/ EndIteration(lag)

(* Whoever stops the bot may start it again: systemd, or the dashboard. *)
Next == Loop \/ Stop \/ Crash \/ Boot

Spec == Init /\ [][Next]_vars

(* The loop goes on as long as the process lives. *)
LiveSpec == Spec /\ WF_vars(Loop)

-----------------------------------------------------------------------------
(* Properties *)

(* No 15-minute bar is decided on twice, by one process or by two that      *)
(* follow each other, however late a cycle runs; and as long as no          *)
(* iteration of a process takes longer than a bar, it decides on every bar  *)
(* that begins after it has set its schedule.                               *)
EachBarOnce ==
    /\ \A b \in Bars : cycles[b] <= 1
    /\ pc = "loop" /\ ~overran =>
           \A b \in Bars : upSince <= b * Bar /\ b * Bar <= now /\ upSince < now => cycles[b] >= 1

(* The longest time from one reading of the clock to the next. *)
LongestIteration == 4 * Slow + Idle

(* Open positions are looked at once in MonitorEvery ticks, give or take    *)
(* the iteration that is under way when the deadline passes.                *)
MonitorPrompt ==
    pc \notin {"down", "starting"} => now - monitored < MonitorEvery + LongestIteration

(* A day gets no second summary, by this process or the next; and a day     *)
(* with decision cycles has its summary once it is over, if a process that  *)
(* was up on that day is the one that sees the next.  (After a restart      *)
(* across midnight it never gets one: the day is kept in memory.)           *)
OneSummaryEachDay ==
    /\ \A d \in Days : summaries[d] <= 1
    /\ pc = "health" =>
           \A b \in Bars : cycles[b] > 0 /\ DayOf(b * Bar) \in DayOf(upSince) .. DayOf(now) - 1
                           => summaries[DayOf(b * Bar)] = 1

(* A stop request ends the process. *)
StopEnds == stopping ~> pc = "down"
=============================================================================
