-------------------------- MODULE BotRuntimeProofs --------------------------
(***************************************************************************)
(* Theorems about BotRuntime, for every value of its constants: first the  *)
(* tables and what they promise of a trade, then the limits of an entry,   *)
(* then why every iteration comes to its kill switch.                      *)
(***************************************************************************)
EXTENDS BotRuntime, FiniteSetTheorems, TLAPS

-----------------------------------------------------------------------------
(* The inductive invariant *)

(* Positions are filled in the order of their rowids.                      *)
FilledInOrder ==
    \A t, u \in Trades : u < t /\ position[t] # "none" => position[u] # "none"

BooksConsistent ==
    \A t \in Trades :
        /\ tradeLog[t] = "open" => position[t] = "OPEN"
        /\ tradeLog[t] = "closed" <=> position[t] = "CLOSED"

(* The list being worked off holds tracked trades only, and none is left   *)
(* over when another stage runs.                                           *)
WorklistTracked ==
    /\ todo \subseteq Tracked
    /\ pc \notin {"monitorLife", "decideLife"} => todo = {}

(* Between the engine's commit and the recording, the newest position is   *)
(* open and unrecorded.                                                    *)
NewestUnrecorded ==
    pc = "record" => \A t \in Trades :
        Latest(t) => position[t] = "OPEN" /\ tradeLog[t] = "none"

BooksInv == FilledInOrder /\ BooksConsistent /\ WorklistTracked /\ NewestUnrecorded

SlotInv ==
    /\ Cardinality(OpenPositions) <= MaxOpen
    /\ pc = "execute" => Cardinality(OpenPositions) < MaxOpen

(* Once past the gate there is no safe mode, and outside safe mode no      *)
(* iteration starts with more errors than the kill switch tolerates.       *)
ErrorInv ==
    /\ pc \in {"down", "recover", "feeds"} => execErrors = 0
    /\ pc \in {"govern", "risk", "execute", "record"} => ~bot.safeMode
    /\ ~bot.safeMode /\ pc # "kill" => execErrors <= MaxExecErrors
    /\ execErrors <= MaxExecErrors + 1

IInv == TypeOK /\ BooksInv /\ SlotInv /\ ErrorInv

-----------------------------------------------------------------------------
(* Types *)

(* set_safe_mode leaves a well-formed row, cause and pending event.        *)
LEMMA SetSafeModeType ==
    ASSUME TypeOK, NEW on \in BOOLEAN, NEW reason \in Triggers, NEW today \in Days,
           SetSafeMode(on, reason, today)
    PROVE  bot' \in BotRow /\ cause' \in Triggers
           /\ pendingEvent' \in {"none", "entered", "cleared"}
  BY SMT DEF TypeOK, SetSafeMode, BotRow, Triggers, TechnicalTriggers, OtherErrors, NoError, NoDay

LEMMA ActivateSafeModeType ==
    ASSUME TypeOK, NEW reason \in Triggers, NEW today \in Days,
           ActivateSafeMode(reason, today)
    PROVE  bot' \in BotRow /\ cause' \in Triggers
           /\ pendingEvent' \in {"none", "entered", "cleared"}
  BY SetSafeModeType DEF ActivateSafeMode, TypeOK

LEMMA MarkErrorType ==
    ASSUME TypeOK, NEW trigger \in Triggers, MarkError(trigger)
    PROVE  bot' \in BotRow
  BY DEF TypeOK, MarkError, BotRow

LEMMA MarkHealthyType ==
    ASSUME TypeOK, MarkHealthy
    PROVE  bot' \in BotRow
  BY DEF TypeOK, MarkHealthy, BotRow, Triggers, NoError

LEMMA BookExitType ==
    ASSUME TypeOK, NEW t \in Trades, BookExit(t)
    PROVE  /\ mode' \in Modes
           /\ position' \in [Trades -> {"none", "OPEN", "CLOSED"}]
           /\ tradeLog' \in [Trades -> {"none", "open", "closed"}]
           /\ openedOn' \in [Trades -> Days \cup {NoDay}]
           /\ closedOn' \in [Trades -> Days \cup {NoDay}]
           /\ closedAt' \in [Trades -> Nat]
           /\ pnl' \in [Trades -> Int]
           /\ closings' \in Nat
           /\ settledNow' \in BOOLEAN
  <1>1. closings' \in Nat
    BY DEF TypeOK, BookExit
  <1>2. closedAt' \in [Trades -> Nat]
    BY <1>1 DEF TypeOK, BookExit
  <1>3. pnl' \in [Trades -> Int]
    <2>1. PICK result \in Pnls : pnl' = [pnl EXCEPT ![t] = result]
      BY DEF BookExit
    <2>2. result \in Int
      BY <2>1, MoneyAssumption
    <2> QED BY <2>1, <2>2 DEF TypeOK
  <1> QED BY <1>1, <1>2, <1>3 DEF TypeOK, BookExit

LEMMA FirstDayIsADay == FirstDay \in Days
  BY BoundsAssumption DEF Days

LEMMA InitType == Init => TypeOK
<1> SUFFICES ASSUME Init PROVE TypeOK
  OBVIOUS
<1>1. bot \in BotRow /\ cause \in Triggers
  BY DEF Init, BotRow, Triggers, NoDay
<1>2. loopDay \in Days /\ day \in Days
  BY FirstDayIsADay DEF Init
<1>3. /\ position \in [Trades -> {"none", "OPEN", "CLOSED"}]
      /\ tradeLog \in [Trades -> {"none", "open", "closed"}]
      /\ openedOn \in [Trades -> Days \cup {NoDay}]
      /\ closedOn \in [Trades -> Days \cup {NoDay}]
      /\ closedAt \in [Trades -> Nat]
      /\ pnl \in [Trades -> Int]
  BY DEF Init
<1>4. mode \in Modes /\ pc \in Stages /\ lastEvent = "none" /\ pendingEvent = "none"
  BY DEF Init, Stages
<1>5. closings \in Nat /\ settledNow \in BOOLEAN /\ todo \subseteq Trades
      /\ execErrors \in Nat /\ healthFails \in Nat
  BY DEF Init
<1> QED BY <1>1, <1>2, <1>3, <1>4, <1>5 DEF TypeOK

(* Every step keeps the types.                                             *)
LEMMA StepType ==
    ASSUME TypeOK, [Next]_vars
    PROVE  TypeOK'
<1> USE DEF tables, process, NoSafeModeChange, At, Stages
<1>1. CASE WriteEvent
  BY <1>1 DEF WriteEvent, TypeOK
<1>2. CASE Start
  BY <1>2 DEF Start, TypeOK
<1>3. CASE Recover
  <2>1. bot' \in BotRow /\ cause' \in Triggers /\ pendingEvent' \in {"none", "entered", "cleared"}
    <3>1. bot.lastError \in Triggers /\ NoError \in Triggers /\ day \in Days
      BY DEF TypeOK, BotRow, Triggers
    <3>2. CASE RecoverPaper
      BY <3>1, <3>2, SetSafeModeType DEF RecoverPaper
    <3>3. CASE RecoverLive
      <4>1. {"exchange_sync_failed", "recovery_inconsistency"} \subseteq Triggers
        BY DEF Triggers, TechnicalTriggers, OtherErrors
      <4> QED BY <4>1, <3>1, <3>3, SetSafeModeType DEF RecoverLive
    <3> QED BY <1>3, <3>2, <3>3 DEF Recover
  <2> QED BY <1>3, <2>1 DEF Recover, TypeOK
<1>4. CASE StartDataFeeds
  <2>1. bot' \in BotRow /\ cause' \in Triggers /\ pendingEvent' \in {"none", "entered", "cleared"}
    <3>1. "feed_start_failed" \in Triggers /\ day \in Days
      BY DEF TypeOK, Triggers, TechnicalTriggers
    <3> QED BY <1>4, <3>1, SetSafeModeType DEF StartDataFeeds, TypeOK
  <2> QED BY <1>4, <2>1 DEF StartDataFeeds, TypeOK
<1>5. CASE BeginIteration
  BY <1>5 DEF BeginIteration, TypeOK
<1>6. CASE HealthCheck
  <2>1. bot' \in BotRow /\ cause' \in Triggers /\ pendingEvent' \in {"none", "entered", "cleared"}
    <3>1. "health_check_failure_threshold" \in Triggers /\ loopDay \in Days
      BY DEF TypeOK, Triggers, TechnicalTriggers
    <3> QED BY <1>6, <3>1, ActivateSafeModeType DEF HealthCheck, TypeOK
  <2>2. healthFails' \in Nat
    BY <1>6 DEF HealthCheck, TypeOK
  <2> QED BY <1>6, <2>1, <2>2 DEF HealthCheck, TypeOK
<1>7. CASE SkipMonitor
  BY <1>7 DEF SkipMonitor, TypeOK
<1>8. CASE BeginMonitor
  BY <1>8 DEF BeginMonitor, TypeOK, Tracked, OpenPositions
<1>9. ASSUME NEW t \in Trades, HoldTrade(t) PROVE TypeOK'
  BY <1>9 DEF HoldTrade, TypeOK
<1>10. ASSUME NEW t \in Trades, SettleTrade(t) PROVE TypeOK'
  BY <1>10, BookExitType, MarkHealthyType DEF SettleTrade, TypeOK
<1>11. CASE FinishLifecycle
  BY <1>11 DEF FinishLifecycle, AfterLifecycle, TypeOK
<1>12. CASE FailLifecycle
  <2>1. "lifecycle_failed" \in Triggers
    BY DEF Triggers, OtherErrors
  <2>2. bot' \in BotRow
    BY <1>12, <2>1, MarkErrorType DEF FailLifecycle, TypeOK
  <2>3. CASE UNCHANGED <<tables, settledNow>>
    BY <1>12, <2>2, <2>3 DEF FailLifecycle, TypeOK
  <2>4. CASE \E t \in todo : BookExit(t)
    <3>1. PICK t \in todo : BookExit(t)
      BY <2>4
    <3>2. t \in Trades
      BY DEF TypeOK
    <3> QED BY <1>12, <2>2, <3>1, <3>2, BookExitType DEF FailLifecycle, TypeOK
  <2> QED BY <1>12, <2>3, <2>4 DEF FailLifecycle
<1>13. CASE SkipDecision
  BY <1>13 DEF SkipDecision, TypeOK
<1>14. CASE BeginDecision
  <2>1. "snapshot_build_failed" \in Triggers
    BY DEF Triggers, TechnicalTriggers
  <2>2. bot' \in BotRow
    BY <1>14, <2>1, MarkErrorType DEF BeginDecision, TypeOK
  <2>3. todo' \subseteq Trades
    BY <1>14 DEF BeginDecision, TypeOK, Tracked, OpenPositions
  <2> QED BY <1>14, <2>2, <2>3 DEF BeginDecision, TypeOK
<1>15. CASE Gate
  BY <1>15, MarkHealthyType DEF Gate, TypeOK
<1>16. CASE Govern
  BY <1>16, MarkHealthyType DEF Govern, TypeOK
<1>17. CASE AssessRisk
  BY <1>17, MarkHealthyType DEF AssessRisk, TypeOK
<1>18. ASSUME NEW t \in Trades, Fill(t) PROVE TypeOK'
  BY <1>18 DEF Fill, TypeOK
<1>19. ExecutionError => /\ bot' \in BotRow /\ execErrors' \in Nat /\ pc' = "kill"
                         /\ UNCHANGED <<loopDay, settledNow, todo, healthFails, day,
                                        cause, pendingEvent, lastEvent>>
  <2>1. "execution_failed" \in Triggers
    BY DEF Triggers, OtherErrors
  <2> QED BY <2>1, MarkErrorType DEF ExecutionError, TypeOK
<1>20. CASE FailExecution
  BY <1>19, <1>20 DEF FailExecution, TypeOK
<1>21. ASSUME NEW t \in Trades, RecordTradeOpen(t) PROVE TypeOK'
  BY <1>21, MarkHealthyType DEF RecordTradeOpen, InsertTradeLog, TypeOK
<1>22. ASSUME NEW t \in Trades, FailRecord(t) PROVE TypeOK'
  BY <1>19, <1>22 DEF FailRecord, InsertTradeLog, TypeOK
<1>23. CASE KillSwitch
  <2>1. bot' \in BotRow /\ cause' \in Triggers /\ pendingEvent' \in {"none", "entered", "cleared"}
    <3>1. "kill_switch" \in Triggers /\ loopDay \in Days
      BY DEF TypeOK, Triggers, OtherErrors
    <3> QED BY <1>23, <3>1, ActivateSafeModeType DEF KillSwitch, TypeOK
  <2> QED BY <1>23, <2>1 DEF KillSwitch, TypeOK
<1>24. CASE Halt
  BY <1>24, FirstDayIsADay DEF Halt, TypeOK
<1>25. CASE Tick
  BY <1>25, BoundsAssumption DEF Tick, TypeOK, Days
<1>26. CASE UNCHANGED vars
  BY <1>26 DEF vars, TypeOK
<1> QED
  BY <1>1, <1>2, <1>3, <1>4, <1>5, <1>6, <1>7, <1>8, <1>9, <1>10, <1>11, <1>12, <1>13,
     <1>14, <1>15, <1>16, <1>17, <1>18, <1>20, <1>21, <1>22, <1>23, <1>24, <1>25, <1>26
  DEF Next, Run, Lifecycle, Decision

(* Every variable always has its type.                                     *)
THEOREM TypeCorrect == Spec => []TypeOK
<1>1. TypeOK /\ [Next]_vars => TypeOK'
  BY StepType
<1> QED BY InitType, <1>1, PTL DEF Spec

-----------------------------------------------------------------------------
(* Safe mode and execution errors *)

LEMMA ErrorInit == Init => ErrorInv
  BY LimitsAssumption DEF Init, ErrorInv

(* Only the kill switch can pass an error count above the limit on to the  *)
(* next iteration, and then only with safe mode on.                        *)
LEMMA ErrorStep ==
    ASSUME TypeOK, ErrorInv, [Next]_vars
    PROVE  ErrorInv'
<1> USE LimitsAssumption DEF TypeOK, BotRow, ErrorInv, tables, process, NoSafeModeChange, At
<1>1. CASE WriteEvent
  BY <1>1 DEF WriteEvent
<1>2. CASE Start
  BY <1>2 DEF Start
<1>3. CASE Recover
  BY <1>3 DEF Recover
<1>4. CASE StartDataFeeds
  BY <1>4 DEF StartDataFeeds
<1>5. CASE BeginIteration
  BY <1>5 DEF BeginIteration
<1>6. CASE HealthCheck
  <2>1. bot' = bot \/ bot'.safeMode
    BY <1>6 DEF HealthCheck, ActivateSafeMode, SetSafeMode
  <2> QED BY <1>6, <2>1 DEF HealthCheck
<1>7. CASE SkipMonitor
  BY <1>7 DEF SkipMonitor
<1>8. CASE BeginMonitor
  BY <1>8 DEF BeginMonitor
<1>9. ASSUME NEW t \in Trades, HoldTrade(t) PROVE ErrorInv'
  BY <1>9 DEF HoldTrade
<1>10. ASSUME NEW t \in Trades, SettleTrade(t) PROVE ErrorInv'
  BY <1>10 DEF SettleTrade, InLifecycle, MarkHealthy
<1>11. CASE FinishLifecycle
  BY <1>11 DEF FinishLifecycle, InLifecycle, AfterLifecycle
<1>12. CASE FailLifecycle
  BY <1>12 DEF FailLifecycle, InLifecycle, MarkError
<1>13. CASE SkipDecision
  BY <1>13 DEF SkipDecision
<1>14. CASE BeginDecision
  BY <1>14 DEF BeginDecision, MarkError
<1>15. CASE Gate
  BY <1>15 DEF Gate, MarkHealthy
<1>16. CASE Govern
  BY <1>16 DEF Govern, MarkHealthy
<1>17. CASE AssessRisk
  BY <1>17 DEF AssessRisk, MarkHealthy
<1>18. ASSUME NEW t \in Trades, Fill(t) PROVE ErrorInv'
  BY <1>18 DEF Fill
<1>19. CASE FailExecution
  BY <1>19 DEF FailExecution, ExecutionError, MarkError
<1>20. ASSUME NEW t \in Trades, RecordTradeOpen(t) PROVE ErrorInv'
  BY <1>20 DEF RecordTradeOpen, MarkHealthy
<1>21. ASSUME NEW t \in Trades, FailRecord(t) PROVE ErrorInv'
  BY <1>21 DEF FailRecord, ExecutionError, MarkError
<1>22. CASE KillSwitch
  <2>1. execErrors > MaxExecErrors => bot'.safeMode
    BY <1>22 DEF KillSwitch, KillReason, ActivateSafeMode, SetSafeMode
  <2> QED BY <1>22, <2>1 DEF KillSwitch
<1>23. CASE Halt
  BY <1>23 DEF Halt
<1>24. CASE Tick
  BY <1>24 DEF Tick
<1>25. CASE UNCHANGED vars
  BY <1>25 DEF vars
<1> QED
  BY <1>1, <1>2, <1>3, <1>4, <1>5, <1>6, <1>7, <1>8, <1>9, <1>10, <1>11, <1>12, <1>13,
     <1>14, <1>15, <1>16, <1>17, <1>18, <1>19, <1>20, <1>21, <1>22, <1>23, <1>24, <1>25
  DEF Next, Run, Lifecycle, Decision

(* _critical_execution_errors never exceeds kill_switch_max_exec_errors by *)
(* more than the one error of the iteration that trips the kill switch.    *)
THEOREM ExecErrorsBounded == Spec => []ExecErrorBound
<1>1. Init => TypeOK /\ ErrorInv
  BY InitType, ErrorInit
<1>2. TypeOK /\ ErrorInv /\ [Next]_vars => (TypeOK /\ ErrorInv)'
  BY StepType, ErrorStep
<1>3. ErrorInv => ExecErrorBound
  BY DEF ErrorInv, ExecErrorBound
<1> QED BY <1>1, <1>2, <1>3, PTL DEF Spec

-----------------------------------------------------------------------------
(* The books *)

LEMMA BooksInit == Init => BooksInv
  BY DEF Init, BooksInv, FilledInOrder, BooksConsistent, WorklistTracked, NewestUnrecorded

(* A step that leaves the tables alone keeps the books in order as long as *)
(* it lists tracked trades only and does not jump to the recording.        *)
LEMMA QuietStep ==
    ASSUME BooksInv, UNCHANGED tables,
           todo' \subseteq Tracked,
           pc' \notin {"monitorLife", "decideLife"} => todo' = {},
           pc' = "record" => pc = "record"
    PROVE  BooksInv' /\ OpenPositions' = OpenPositions
  BY DEF tables, BooksInv, FilledInOrder, BooksConsistent, WorklistTracked, NewestUnrecorded,
         Tracked, OpenPositions, Latest

(* Booking the exit of a listed trade closes it in both tables.            *)
LEMMA BookExitStep ==
    ASSUME TypeOK, BooksInv, NEW t \in todo, BookExit(t),
           todo' \subseteq todo \ {t},
           pc' \notin {"monitorLife", "decideLife"} => todo' = {},
           pc' # "record"
    PROVE  BooksInv' /\ OpenPositions' \subseteq OpenPositions
<1> USE DEF TypeOK, BookExit
<1>1. t \in Trades /\ position[t] = "OPEN" /\ tradeLog[t] = "open"
  BY DEF BooksInv, WorklistTracked, Tracked, OpenPositions
<1>2. FilledInOrder'
  BY <1>1 DEF BooksInv, FilledInOrder
<1>3. BooksConsistent'
  BY <1>1 DEF BooksInv, BooksConsistent
<1>4. WorklistTracked'
  BY <1>1 DEF BooksInv, WorklistTracked, Tracked, OpenPositions
<1>5. NewestUnrecorded'
  BY DEF NewestUnrecorded
<1>6. OpenPositions' \subseteq OpenPositions
  BY <1>1 DEF OpenPositions
<1> QED BY <1>2, <1>3, <1>4, <1>5, <1>6 DEF BooksInv

(* The engine's commit adds the next position, and nothing else is newest. *)
LEMMA FillStep ==
    ASSUME TypeOK, BooksInv, NEW t \in Trades, Fill(t)
    PROVE  BooksInv' /\ OpenPositions' = OpenPositions \cup {t}
<1> USE DEF TypeOK, Fill, process, At
<1>1. tradeLog[t] = "none"
  BY DEF BooksInv, BooksConsistent
<1>2. FilledInOrder'
  BY DEF BooksInv, FilledInOrder, Trades
<1>3. BooksConsistent'
  BY <1>1 DEF BooksInv, BooksConsistent
<1>4. todo = {}
  BY DEF BooksInv, WorklistTracked
<1>5. WorklistTracked'
  BY <1>4 DEF WorklistTracked
<1>6. NewestUnrecorded'
  <2> SUFFICES ASSUME NEW u \in Trades, Latest(u)'
               PROVE  u = t
    BY <1>1 DEF NewestUnrecorded
  <2>1. CASE u < t
    BY <2>1 DEF Latest, Trades
  <2>2. CASE t < u
    BY <2>2 DEF Latest, BooksInv, FilledInOrder, Trades
  <2> QED BY <2>1, <2>2 DEF Trades
<1>7. OpenPositions' = OpenPositions \cup {t}
  BY DEF OpenPositions
<1> QED BY <1>2, <1>3, <1>5, <1>6, <1>7 DEF BooksInv

(* Recording, or failing to record, the newest position.                   *)
LEMMA RecordStep ==
    ASSUME TypeOK, BooksInv, NEW t \in Trades,
           pc = "record", pc' = "kill", Latest(t),
           InsertTradeLog(t) \/ UNCHANGED tradeLog,
           UNCHANGED <<position, todo>>
    PROVE  BooksInv' /\ OpenPositions' = OpenPositions
<1> USE DEF TypeOK, InsertTradeLog
<1>1. position[t] = "OPEN" /\ tradeLog[t] = "none" /\ todo = {}
  BY DEF BooksInv, NewestUnrecorded, WorklistTracked
<1>2. FilledInOrder'
  BY DEF BooksInv, FilledInOrder
<1>3. BooksConsistent'
  BY <1>1 DEF BooksInv, BooksConsistent
<1>4. WorklistTracked' /\ NewestUnrecorded'
  BY <1>1 DEF WorklistTracked, NewestUnrecorded
<1> QED BY <1>2, <1>3, <1>4 DEF BooksInv, OpenPositions

LEMMA BooksStep ==
    ASSUME TypeOK, BooksInv, [Next]_vars
    PROVE  BooksInv'
<1> USE DEF tables, process, NoSafeModeChange, At, InLifecycle
<1>0. todo \subseteq Tracked /\ (pc \notin {"monitorLife", "decideLife"} => todo = {})
  BY DEF BooksInv, WorklistTracked
<1>1. CASE WriteEvent
  BY <1>0, <1>1, QuietStep DEF WriteEvent
<1>2. CASE Start
  BY <1>0, <1>2, QuietStep DEF Start
<1>3. CASE Recover
  BY <1>0, <1>3, QuietStep DEF Recover
<1>4. CASE StartDataFeeds
  BY <1>0, <1>4, QuietStep DEF StartDataFeeds
<1>5. CASE BeginIteration
  BY <1>0, <1>5, QuietStep DEF BeginIteration
<1>6. CASE HealthCheck
  BY <1>0, <1>6, QuietStep DEF HealthCheck
<1>7. CASE SkipMonitor
  BY <1>0, <1>7, QuietStep DEF SkipMonitor
<1>8. CASE BeginMonitor
  BY <1>8, QuietStep DEF BeginMonitor
<1>9. ASSUME NEW t \in Trades, HoldTrade(t) PROVE BooksInv'
  BY <1>0, <1>9, QuietStep DEF HoldTrade
<1>10. ASSUME NEW t \in Trades, SettleTrade(t) PROVE BooksInv'
  BY <1>10, BookExitStep DEF SettleTrade
<1>11. CASE FinishLifecycle
  BY <1>0, <1>11, QuietStep DEF FinishLifecycle, AfterLifecycle
<1>12. CASE FailLifecycle
  <2>1. todo' = {} /\ pc' # "record"
    BY <1>12 DEF FailLifecycle
  <2>2. CASE UNCHANGED <<tables, settledNow>>
    BY <2>1, <2>2, QuietStep
  <2>3. CASE \E t \in todo : BookExit(t)
    BY <2>1, <2>3, BookExitStep
  <2> QED BY <1>12, <2>2, <2>3 DEF FailLifecycle
<1>13. CASE SkipDecision
  BY <1>0, <1>13, QuietStep DEF SkipDecision
<1>14. CASE BeginDecision
  BY <1>0, <1>14, QuietStep DEF BeginDecision
<1>15. CASE Gate
  BY <1>0, <1>15, QuietStep DEF Gate
<1>16. CASE Govern
  BY <1>0, <1>16, QuietStep DEF Govern
<1>17. CASE AssessRisk
  BY <1>0, <1>17, QuietStep DEF AssessRisk
<1>18. ASSUME NEW t \in Trades, Fill(t) PROVE BooksInv'
  BY <1>18, FillStep
<1>19. CASE FailExecution
  BY <1>0, <1>19, QuietStep DEF FailExecution, ExecutionError
<1>20. ASSUME NEW t \in Trades, RecordTradeOpen(t) PROVE BooksInv'
  BY <1>20, RecordStep DEF RecordTradeOpen
<1>21. ASSUME NEW t \in Trades, FailRecord(t) PROVE BooksInv'
  BY <1>21, RecordStep DEF FailRecord, ExecutionError
<1>22. CASE KillSwitch
  BY <1>0, <1>22, QuietStep DEF KillSwitch
<1>23. CASE Halt
  BY <1>23, QuietStep DEF Halt
<1>24. CASE Tick
  BY <1>0, <1>24, QuietStep DEF Tick
<1>25. CASE UNCHANGED vars
  BY <1>0, <1>25, QuietStep DEF vars
<1> QED
  BY <1>1, <1>2, <1>3, <1>4, <1>5, <1>6, <1>7, <1>8, <1>9, <1>10, <1>11, <1>12, <1>13,
     <1>14, <1>15, <1>16, <1>17, <1>18, <1>19, <1>20, <1>21, <1>22, <1>23, <1>24, <1>25
  DEF Next, Run, Lifecycle, Decision

-----------------------------------------------------------------------------
(* The open slots *)

LEMMA OpenPositionsFinite == IsFiniteSet(OpenPositions)
<1>1. IsFiniteSet(Trades)
  BY BoundsAssumption, FS_Interval DEF Trades
<1>2. OpenPositions \in SUBSET Trades
  BY DEF OpenPositions
<1> QED BY <1>1, <1>2, FS_Subset

LEMMA SlotInit == Init => SlotInv
<1> SUFFICES ASSUME Init PROVE SlotInv
  OBVIOUS
<1>1. OpenPositions = {}
  BY DEF Init, OpenPositions
<1>2. Cardinality(OpenPositions) = 0
  BY <1>1, FS_EmptySet
<1> QED BY <1>2, LimitsAssumption DEF Init, SlotInv

(* Fewer open positions cannot break the bound.                            *)
LEMMA SlotShrink ==
    ASSUME SlotInv, OpenPositions' \subseteq OpenPositions,
           pc' = "execute" => pc = "execute"
    PROVE  SlotInv'
<1>1. /\ Cardinality(OpenPositions') <= Cardinality(OpenPositions)
      /\ Cardinality(OpenPositions') \in Nat /\ Cardinality(OpenPositions) \in Nat
  BY OpenPositionsFinite, FS_Subset, FS_CardinalityType
<1> QED BY <1>1, LimitsAssumption DEF SlotInv

(* What each kind of step does to the set of open positions.               *)
LEMMA OpenPositionsStep ==
    ASSUME TypeOK, BooksInv, [Next]_vars
    PROVE  \/ OpenPositions' \subseteq OpenPositions /\ (pc' = "execute" => pc = "execute")
           \/ AssessRisk
           \/ \E t \in Trades : Fill(t)
<1> USE DEF tables, process, NoSafeModeChange, At, InLifecycle
<1>1. UNCHANGED position => OpenPositions' = OpenPositions
  BY DEF OpenPositions
<1>2. ASSUME NEW t \in Trades, SettleTrade(t) PROVE OpenPositions' \subseteq OpenPositions
  BY <1>2 DEF SettleTrade, BookExit, OpenPositions, TypeOK
<1>3. ASSUME FailLifecycle PROVE OpenPositions' \subseteq OpenPositions
  BY <1>3 DEF FailLifecycle, BookExit, OpenPositions, TypeOK
<1>4. CASE Lifecycle
  BY <1>1, <1>2, <1>3, <1>4
  DEF Lifecycle, HoldTrade, SettleTrade, FinishLifecycle, FailLifecycle, AfterLifecycle
<1>5. CASE Decision
  BY <1>1, <1>5 DEF Decision, SkipDecision, BeginDecision, Gate, Govern, FailExecution,
                    RecordTradeOpen, FailRecord, ExecutionError
<1>6. CASE WriteEvent \/ Start \/ Recover \/ StartDataFeeds \/ BeginIteration
           \/ HealthCheck \/ SkipMonitor \/ BeginMonitor \/ KillSwitch
  BY <1>1, <1>6 DEF WriteEvent, Start, Recover, StartDataFeeds, BeginIteration,
                    HealthCheck, SkipMonitor, BeginMonitor, KillSwitch
<1>7. CASE Halt \/ Tick \/ UNCHANGED vars
  BY <1>1, <1>7 DEF Halt, Tick, vars
<1> QED BY <1>4, <1>5, <1>6, <1>7 DEF Next, Run

LEMMA SlotStep ==
    ASSUME TypeOK, BooksInv, SlotInv, [Next]_vars
    PROVE  SlotInv'
<1>1. CASE OpenPositions' \subseteq OpenPositions /\ (pc' = "execute" => pc = "execute")
  BY <1>1, SlotShrink
<1>2. CASE AssessRisk
  <2>1. OpenPositions' = OpenPositions
    BY <1>2 DEF AssessRisk, tables, OpenPositions
  <2>2. pc' = "execute" => Cardinality(OpenPositions) < MaxOpen
    BY <1>2 DEF AssessRisk, RiskAllows
  <2> QED BY <2>1, <2>2 DEF SlotInv
<1>3. ASSUME NEW t \in Trades, Fill(t) PROVE SlotInv'
  <2>1. OpenPositions' = OpenPositions \cup {t} /\ t \notin OpenPositions
    BY <1>3, FillStep DEF Fill, OpenPositions
  <2>2. Cardinality(OpenPositions') = Cardinality(OpenPositions) + 1
    BY <2>1, OpenPositionsFinite, FS_AddElement
  <2>3. Cardinality(OpenPositions) < MaxOpen /\ pc' = "record"
    BY <1>3 DEF Fill, At, SlotInv
  <2> QED BY <2>2, <2>3, OpenPositionsFinite, FS_CardinalityType, LimitsAssumption DEF SlotInv
<1> QED BY <1>1, <1>2, <1>3, OpenPositionsStep

(* The invariant the safety theorems rest on.                              *)
THEOREM Inductive == Spec => []IInv
<1>1. Init => IInv
  BY InitType, ErrorInit, BooksInit, SlotInit DEF IInv
<1>2. IInv /\ [Next]_vars => IInv'
  BY StepType, ErrorStep, BooksStep, SlotStep DEF IInv
<1> QED BY <1>1, <1>2, PTL DEF Spec

(* The table of positions never holds more than max_open_positions open    *)
(* rows, whatever fails and whenever the process dies.                     *)
THEOREM OpenBounded == Spec => []OpenBound
<1>1. IInv => OpenBound
  BY DEF IInv, SlotInv, OpenBound
<1> QED BY <1>1, Inductive, PTL

-----------------------------------------------------------------------------
(* The refinement *)

LEMMA StageOfHeld ==
    ASSUME TypeOK
    PROVE  Abstract!Held = OpenPositions
  BY DEF Abstract!Held, OpenPositions, Stage, TypeOK

(* A step that leaves positions alone is invisible to TradeLifecycle.      *)
LEMMA StutterStep ==
    ASSUME UNCHANGED position
    PROVE  UNCHANGED [t \in Trades |-> Stage(t)]
  BY DEF Stage

LEMMA EnterStep ==
    ASSUME IInv, NEW t \in Trades, Fill(t)
    PROVE  Abstract!Enter(t)
<1> USE DEF IInv, TypeOK, Fill, At
<1>1. Stage(t) = "absent" /\ Stage(t)' = "held"
  BY DEF Stage
<1>2. \A u \in Trades \ {t} : Stage(u)' = Stage(u)
  BY DEF Stage
<1>3. Abstract!Cardinality(Abstract!Held) < MaxOpen
  <2>1. Abstract!Cardinality(OpenPositions) = Cardinality(OpenPositions)
    BY Zenon DEF Abstract!Cardinality, Cardinality
  <2> QED BY <2>1, StageOfHeld DEF SlotInv
<1> QED BY <1>1, <1>2, <1>3 DEF Abstract!Enter

LEMMA SettleStep ==
    ASSUME IInv, NEW t \in todo, BookExit(t)
    PROVE  t \in Trades /\ Abstract!Settle(t)
<1> USE DEF IInv, TypeOK, BookExit
<1>1. t \in Trades /\ position[t] = "OPEN"
  BY DEF BooksInv, WorklistTracked, Tracked, OpenPositions
<1>2. Stage(t) = "held" /\ Stage(t)' = "settled"
  BY <1>1 DEF Stage
<1>3. \A u \in Trades \ {t} : Stage(u)' = Stage(u)
  BY <1>1 DEF Stage
<1> QED BY <1>1, <1>2, <1>3 DEF Abstract!Settle

(* The runtime implements the abstract life of a trade.                    *)
THEOREM Refinement == Spec => ImplementsLifecycle
<1>1. Init => Abstract!LifecycleInit
  BY DEF Init, Abstract!LifecycleInit, Stage
<1>2. IInv /\ [Next]_vars => [Abstract!LifecycleNext]_([t \in Trades |-> Stage(t)])
  <2> SUFFICES ASSUME IInv, [Next]_vars, ~ UNCHANGED [t \in Trades |-> Stage(t)]
               PROVE  Abstract!LifecycleNext
    OBVIOUS
  <2>1. position' # position
    BY StutterStep
  <2> USE DEF tables, process
  <2>2. \/ \E t \in Trades : Fill(t)
        \/ \E t \in todo : BookExit(t)
    <3>1. CASE Lifecycle
      BY <2>1, <3>1 DEF Lifecycle, HoldTrade, SettleTrade, FinishLifecycle, FailLifecycle
    <3>2. CASE Decision
      BY <2>1, <3>2 DEF Decision, SkipDecision, BeginDecision, Gate, Govern, AssessRisk,
                        FailExecution, RecordTradeOpen, FailRecord
    <3>3. CASE WriteEvent \/ Start \/ Recover \/ StartDataFeeds \/ BeginIteration
               \/ HealthCheck \/ SkipMonitor \/ BeginMonitor \/ KillSwitch
      BY <2>1, <3>3 DEF WriteEvent, Start, Recover, StartDataFeeds, BeginIteration,
                        HealthCheck, SkipMonitor, BeginMonitor, KillSwitch
    <3>4. CASE Halt \/ Tick \/ UNCHANGED vars
      BY <2>1, <3>4 DEF Halt, Tick, vars
    <3> QED BY <3>1, <3>2, <3>3, <3>4 DEF Next, Run
  <2> QED BY <2>2, EnterStep, SettleStep DEF Abstract!LifecycleNext
<1> QED BY <1>1, <1>2, Inductive, PTL DEF Spec, ImplementsLifecycle, Abstract!LifecycleSpec

-----------------------------------------------------------------------------
(* The books agree *)

(* A position nobody recorded is the newest, on its way to be recorded, or  *)
(* was left by one of the two faults that cut recording off.                *)
UnrecordedExplained ==
    \A t \in Trades :
        position[t] = "OPEN" /\ tradeLog[t] = "none"
            => (pc = "record" /\ Latest(t)) \/ Faults \cap {"crash", "record"} # {}

(* Only the recording itself leaves the recording stage without a fault.    *)
LEMMA UnrecordedStep ==
    ASSUME IInv, UnrecordedExplained, [Next]_vars
    PROVE  UnrecordedExplained'
<1> SUFFICES ASSUME Faults \cap {"crash", "record"} = {}
             PROVE  UnrecordedExplained'
  BY DEF UnrecordedExplained
<1> USE DEF tables, process, At
<1>1. ASSUME UNCHANGED tables, pc = "record" => pc' = "record" PROVE UnrecordedExplained'
  BY <1>1 DEF UnrecordedExplained, Latest
<1>2. ASSUME NEW t \in todo, BookExit(t), pc # "record" PROVE UnrecordedExplained'
  BY <1>2 DEF UnrecordedExplained, BookExit, IInv, TypeOK
<1>3. CASE Lifecycle
  BY <1>1, <1>2, <1>3
  DEF Lifecycle, InLifecycle, HoldTrade, SettleTrade, FinishLifecycle, FailLifecycle
<1>4. ASSUME NEW t \in Trades, Fill(t) PROVE UnrecordedExplained'
  <2>1. position' = [position EXCEPT ![t] = "OPEN"] /\ tradeLog' = tradeLog
        /\ pc = "execute" /\ pc' = "record" /\ position[t] = "none"
    BY <1>4 DEF Fill
  <2>2. \A u \in Trades : u > t => position[u] = "none"
    BY <2>1 DEF IInv, BooksInv, FilledInOrder
  <2>3. Latest(t)'
    BY <2>1, <2>2 DEF Latest, IInv, TypeOK, Trades
  <2>4. ASSUME NEW u \in Trades, u # t, position'[u] = "OPEN", tradeLog'[u] = "none" PROVE FALSE
    BY <2>1, <2>4 DEF UnrecordedExplained, IInv, TypeOK
  <2> QED BY <2>1, <2>3, <2>4 DEF UnrecordedExplained
<1>5. ASSUME NEW t \in Trades, RecordTradeOpen(t) PROVE UnrecordedExplained'
  <2>1. position' = position /\ tradeLog' = [tradeLog EXCEPT ![t] = "open"] /\ Latest(t)
    BY <1>5 DEF RecordTradeOpen, InsertTradeLog
  <2>2. \A u \in Trades : Latest(u) => u = t
    BY <2>1 DEF Latest, Trades
  <2> QED BY <2>1, <2>2 DEF UnrecordedExplained, IInv, TypeOK
<1>6. CASE Decision
  BY <1>1, <1>4, <1>5, <1>6
  DEF Decision, SkipDecision, BeginDecision, Gate, Govern, AssessRisk, FailExecution, FailRecord,
      ExecutionError
<1>7. CASE WriteEvent \/ Start \/ Recover \/ StartDataFeeds \/ BeginIteration
           \/ HealthCheck \/ SkipMonitor \/ BeginMonitor \/ KillSwitch
  BY <1>1, <1>7 DEF WriteEvent, Start, Recover, StartDataFeeds, BeginIteration,
                    HealthCheck, SkipMonitor, BeginMonitor, KillSwitch
<1>8. CASE Halt \/ Tick \/ UNCHANGED vars
  BY <1>1, <1>8 DEF Halt, Tick, vars
<1> QED BY <1>3, <1>6, <1>7, <1>8 DEF Next, Run

(* positions and trade_log agree, up to the window between their commits.   *)
THEOREM Books == Spec => []BooksAgree
<1>1. Init => UnrecordedExplained
  BY DEF Init, UnrecordedExplained
<1>2. IInv /\ UnrecordedExplained => BooksAgree
  BY DEF IInv, BooksInv, BooksConsistent, UnrecordedExplained, BooksAgree
<1> QED BY <1>1, <1>2, UnrecordedStep, Inductive, PTL DEF Spec

-----------------------------------------------------------------------------
(* Safe mode *)

(* Every write to bot_state is one of three operations.                     *)
LEMMA BotStep ==
    ASSUME [Next]_vars
    PROVE  \/ UNCHANGED <<bot, pendingEvent>>
           \/ pendingEvent' = pendingEvent
              /\ (MarkHealthy \/ \E trigger \in Triggers : MarkError(trigger))
           \/ \E on \in BOOLEAN : \E reason, today : SetSafeMode(on, reason, today)
           \/ (WriteEvent \/ Halt) /\ UNCHANGED bot
<1> USE DEF NoSafeModeChange, Triggers, TechnicalTriggers, OtherErrors
<1>1. CASE Lifecycle
  BY <1>1 DEF Lifecycle, HoldTrade, SettleTrade, FinishLifecycle, FailLifecycle
<1>2. CASE Decision
  BY <1>2 DEF Decision, SkipDecision, BeginDecision, Gate, Govern, AssessRisk, Fill, FailExecution,
              RecordTradeOpen, FailRecord, ExecutionError
<1>3. CASE Recover
  BY <1>3, Zenon DEF Recover, RecoverPaper, RecoverLive
<1>4. CASE StartDataFeeds \/ HealthCheck \/ KillSwitch
  BY <1>4, Zenon DEF StartDataFeeds, HealthCheck, KillSwitch, ActivateSafeMode
<1>5. CASE Start \/ BeginIteration \/ SkipMonitor \/ BeginMonitor
  BY <1>5 DEF Start, BeginIteration, SkipMonitor, BeginMonitor
<1>6. CASE WriteEvent \/ Halt
  BY <1>6 DEF WriteEvent, Halt
<1>7. CASE Tick \/ UNCHANGED vars
  BY <1>7 DEF Tick, vars
<1> QED BY <1>1, <1>2, <1>3, <1>4, <1>5, <1>6, <1>7 DEF Next, Run

(* While safe mode lasts its entry stamp is kept, over every new reason and *)
(* every restart.                                                           *)
THEOREM EntryStamps == Spec => EntryStampKept
<1>1. ASSUME TypeOK, [Next]_vars, bot.safeMode, bot'.safeMode PROVE bot'.since = bot.since
  <2>1. CASE UNCHANGED bot
    BY <2>1
  <2>2. CASE MarkHealthy \/ \E trigger \in Triggers : MarkError(trigger)
    BY <1>1, <2>2 DEF MarkHealthy, MarkError, TypeOK, BotRow
  <2>3. ASSUME NEW on \in BOOLEAN, NEW reason, NEW today, SetSafeMode(on, reason, today)
        PROVE  bot'.since = bot.since
    BY <1>1, <2>3 DEF SetSafeMode
  <2> QED BY <1>1, <2>1, <2>2, <2>3, BotStep
<1>2. TypeOK /\ [Next]_vars => [bot.safeMode /\ bot'.safeMode => bot'.since = bot.since]_vars
  BY <1>1
<1> QED BY <1>2, TypeCorrect, PTL DEF Spec, EntryStampKept

(* What safe_mode_events says, or is about to say.                          *)
Announced == IF pendingEvent = "none" THEN lastEvent ELSE pendingEvent

AuditInv ==
    /\ pc \in {"down", "recover"} => pendingEvent = "none"
    /\ pc \notin {"down", "recover"} => Announced = IF bot.safeMode THEN "entered" ELSE "cleared"

(* A step outside set_safe_mode keeps the flag, the row and what is pending.*)
LEMMA AuditQuiet ==
    ASSUME TypeOK, AuditInv, UNCHANGED <<lastEvent, pendingEvent>>,
           UNCHANGED bot \/ MarkHealthy \/ \E trigger : MarkError(trigger),
           pc' \in {"down", "recover"} <=> pc \in {"down", "recover"}
    PROVE  AuditInv'
<1>1. bot'.safeMode = bot.safeMode
  BY DEF MarkHealthy, MarkError, TypeOK, BotRow
<1> QED BY <1>1 DEF AuditInv, Announced

LEMMA AuditSet ==
    ASSUME NEW on \in BOOLEAN, NEW reason, NEW today, SetSafeMode(on, reason, today),
           pc' \notin {"down", "recover"}
    PROVE  AuditInv'
  BY DEF SetSafeMode, AuditInv, Announced

LEMMA AuditStep ==
    ASSUME TypeOK, AuditInv, "event" \notin Faults, [Next]_vars
    PROVE  AuditInv'
<1> USE DEF At, NoSafeModeChange
<1>1. CASE Lifecycle
  BY <1>1, AuditQuiet DEF Lifecycle, InLifecycle, AfterLifecycle, HoldTrade, SettleTrade,
                          FinishLifecycle, FailLifecycle
<1>2. CASE Decision
  BY <1>2, AuditQuiet DEF Decision, SkipDecision, BeginDecision, Gate, Govern, AssessRisk, Fill,
                          FailExecution, RecordTradeOpen, FailRecord, ExecutionError
<1>3. CASE Recover
  <2>1. pc' = "feeds" /\ (RecoverPaper \/ RecoverLive)
    BY <1>3 DEF Recover
  <2>2. \E on \in BOOLEAN : \E reason, today : SetSafeMode(on, reason, today)
    BY <2>1, Zenon DEF RecoverPaper, RecoverLive
  <2> QED BY <2>1, <2>2, AuditSet
<1>4. CASE StartDataFeeds \/ HealthCheck \/ KillSwitch
  <2>1. pc \notin {"down", "recover"} /\ pc' \notin {"down", "recover"} /\ lastEvent' = lastEvent
    BY <1>4 DEF StartDataFeeds, HealthCheck, KillSwitch
  <2>2. \/ UNCHANGED <<bot, pendingEvent>>
        \/ \E on \in BOOLEAN : \E reason, today : SetSafeMode(on, reason, today)
    BY <1>4, Zenon DEF StartDataFeeds, HealthCheck, KillSwitch, ActivateSafeMode
  <2> QED BY <2>1, <2>2, AuditSet, AuditQuiet
<1>5. CASE Start \/ BeginIteration \/ SkipMonitor \/ BeginMonitor
  BY <1>5, AuditQuiet DEF Start, BeginIteration, SkipMonitor, BeginMonitor
<1>6. CASE WriteEvent
  BY <1>6 DEF WriteEvent, AuditInv, Announced
<1>7. CASE Halt
  BY <1>7 DEF Halt, AuditInv
<1>8. CASE Tick \/ UNCHANGED vars
  BY <1>8 DEF Tick, vars, AuditInv, Announced
<1> QED BY <1>1, <1>2, <1>3, <1>4, <1>5, <1>6, <1>7, <1>8 DEF Next, Run

(* The newest row of safe_mode_events tells the truth about safe mode, over *)
(* crashes between the two commits of set_safe_mode as well.                *)
THEOREM AuditTrail == Spec => []AuditMatchesState
<1> DEFINE Told == "event" \notin Faults => AuditInv
<1>1. Init => Told
  BY DEF Init, AuditInv
<1>2. TypeOK /\ Told /\ [Next]_vars => Told'
  BY AuditStep
<1>3. Told => AuditMatchesState
  BY DEF AuditInv, Announced, AuditMatchesState
<1> QED BY <1>1, <1>2, <1>3, TypeCorrect, PTL DEF Spec

-----------------------------------------------------------------------------
(* The entry gates                                                         *)
(*                                                                         *)
(* Why what the gates have checked still holds when the position is        *)
(* opened and counted, several commits and possibly a midnight later: the  *)
(* numbers of a day can only be changed by the process that is waiting     *)
(* between its gates, and a new day starts with nothing on its account.    *)

(* Nothing is booked on a day that has not begun.                           *)
NothingAhead ==
    /\ loopDay <= day
    /\ \A t \in Trades : closedOn[t] <= day /\ openedOn[t] <= day

(* What risk and governance have left to hold at the entry.                 *)
Permitted == pc = "execute" => Streak(day) < MaxLosses /\ ~DrawdownReached(day)

(* The place of the next trade among the day's is free until it is taken.   *)
PlaceFree ==
    /\ pc \in {"risk", "execute"} => Cardinality(LoggedOn(day)) < MaxPerDay
    /\ pc = "record" =>
           \A t \in Trades : Latest(t) => Cardinality(LoggedOn(openedOn[t])) < MaxPerDay

GateInv == NothingAhead /\ Permitted /\ DailyTradesBound /\ PlaceFree

-----------------------------------------------------------------------------
(* A new day *)

(* No trade of the day, no streak and no drawdown.                          *)
LEMMA NewDayStreak ==
    ASSUME TypeOK, NEW d \in Nat, d > day, NothingAhead
    PROVE  Streak(d) = 0
<1> DEFINE S == {t \in Closed :
                     /\ pnl[t] < 0
                     /\ \A u \in Closed : NotAfter(t, u) => closedOn[u] = d /\ pnl[u] <= 0}
<1>1. S = {}
  <2> SUFFICES ASSUME NEW t \in S PROVE FALSE
    OBVIOUS
  <2>1. t \in Closed /\ t \in Trades
    BY DEF Closed
  <2>2. closedAt[t] \in Nat
    BY <2>1 DEF TypeOK
  <2>3. NotAfter(t, t)
    BY <2>1, <2>2 DEF NotAfter, Trades
  <2>4. closedOn[t] = d
    BY <2>1, <2>3
  <2>5. closedOn[t] <= day /\ day \in Nat
    BY <2>1, BoundsAssumption DEF NothingAhead, TypeOK, Days
  <2> QED BY <2>4, <2>5
<1>2. Streak(d) = Cardinality(S)
  BY DEF Streak
<1> QED BY <1>1, <1>2, FS_EmptySet

LEMMA NewPeriodDrawdowns ==
    ASSUME TypeOK, NEW a \in Int, NEW b \in Int, a > day, NothingAhead
    PROVE  Drawdowns(a, b) = {}
<1>1. {t \in Closed : closedOn[t] \in a .. b} = {}
  <2> SUFFICES ASSUME NEW t \in Closed, closedOn[t] \in a .. b PROVE FALSE
    OBVIOUS
  <2>1. closedOn[t] <= day /\ day \in Nat
    BY BoundsAssumption DEF Closed, NothingAhead, TypeOK, Days
  <2> QED BY <2>1
<1> QED BY <1>1, Zenon DEF Drawdowns

(* The week of the next day is the same, or new as well.                    *)
LEMMA NextMonday ==
    ASSUME NEW d \in Nat
    PROVE  Monday(d + 1) \in Int /\ (Monday(d + 1) = Monday(d) \/ Monday(d + 1) = d + 1)
  BY DEF Monday

LEMMA NewDayDrawdown ==
    ASSUME TypeOK, NothingAhead, ~DrawdownReached(day)
    PROVE  ~DrawdownReached(day + 1)
<1>1. day \in Nat
  BY BoundsAssumption DEF TypeOK, Days
<1>2. DailyDrawdowns(day + 1) = {}
  BY <1>1, NewPeriodDrawdowns DEF DailyDrawdowns
<1>3. CASE Monday(day + 1) = Monday(day)
  BY <1>2, <1>3 DEF DrawdownReached, WeeklyDrawdowns
<1>4. CASE Monday(day + 1) = day + 1
  <2>1. WeeklyDrawdowns(day + 1) = {}
    BY <1>1, <1>4, NewPeriodDrawdowns DEF WeeklyDrawdowns
  <2> QED BY <1>2, <2>1 DEF DrawdownReached
<1> QED BY <1>1, <1>3, <1>4, NextMonday

LEMMA NewDayTrades ==
    ASSUME TypeOK, NothingAhead, NEW d \in Nat, d > day
    PROVE  Cardinality(LoggedOn(d)) = 0
<1>1. LoggedOn(d) = {}
  <2> SUFFICES ASSUME NEW t \in Trades, openedOn[t] = d PROVE FALSE
    BY DEF LoggedOn
  <2>1. openedOn[t] <= day /\ day \in Nat
    BY BoundsAssumption DEF NothingAhead, TypeOK, Days
  <2> QED BY <2>1
<1> QED BY <1>1, FS_EmptySet

LEMMA Counts ==
    /\ \A d : IsFiniteSet(LoggedOn(d)) /\ Cardinality(LoggedOn(d)) \in Nat
    /\ \A d : Streak(d) \in Nat
<1>1. IsFiniteSet(Trades)
  BY BoundsAssumption, FS_Interval DEF Trades
<1>2. ASSUME NEW S \in SUBSET Trades PROVE IsFiniteSet(S) /\ Cardinality(S) \in Nat
  BY <1>1, FS_Subset, FS_CardinalityType
<1>3. \A d : LoggedOn(d) \in SUBSET Trades
  BY DEF LoggedOn
<1>4. ASSUME NEW d PROVE Streak(d) \in Nat
  <2>1. {t \in Closed : /\ pnl[t] < 0
                        /\ \A u \in Closed : NotAfter(t, u) => closedOn[u] = d /\ pnl[u] <= 0}
            \in SUBSET Trades
    BY DEF Closed
  <2> QED BY <1>2, <2>1 DEF Streak
<1> QED BY <1>2, <1>3, <1>4

-----------------------------------------------------------------------------
(* Steps *)

(* What is asked of the tables has the same answer while they stay.         *)
LEMMA SameTables ==
    ASSUME UNCHANGED tables
    PROVE  /\ \A d : LoggedOn(d)' = LoggedOn(d)
           /\ \A t : Latest(t)' = Latest(t)
           /\ UNCHANGED day =>
                  Streak(day)' = Streak(day) /\ DrawdownReached(day)' = DrawdownReached(day)
<1> USE DEF tables
<1>1. \A d : LoggedOn(d)' = LoggedOn(d)
  BY DEF LoggedOn
<1>2. \A t : Latest(t)' = Latest(t)
  BY DEF Latest
<1>3. ASSUME UNCHANGED day PROVE Streak(day)' = Streak(day)
  BY <1>3 DEF Streak, Closed, NotAfter
<1>4. ASSUME UNCHANGED day PROVE DrawdownReached(day)' = DrawdownReached(day)
  BY <1>4
  DEF DrawdownReached, DailyDrawdowns, WeeklyDrawdowns, Drawdowns, Closed, NotAfter, Total
<1> QED BY <1>1, <1>2, <1>3, <1>4

LEMMA SameTablesNextDay ==
    ASSUME UNCHANGED tables, day' = day + 1
    PROVE  Streak(day)' = Streak(day + 1) /\ DrawdownReached(day)' = DrawdownReached(day + 1)
<1> USE DEF tables
<1>1. Streak(day)' = Streak(day + 1)
  BY DEF Streak, Closed, NotAfter
<1>2. DrawdownReached(day)' = DrawdownReached(day + 1)
  BY DEF DrawdownReached, DailyDrawdowns, WeeklyDrawdowns, Drawdowns, Monday, Closed, NotAfter,
         Total
<1> QED BY <1>1, <1>2

(* A step that leaves the tables and the day alone and does not pass a gate.*)
LEMMA GateQuiet ==
    ASSUME IInv, GateInv, UNCHANGED <<tables, day>>, loopDay' \in {loopDay, day, FirstDay},
           pc' \in {"risk", "execute", "record"} => pc' = pc
    PROVE  GateInv'
<1>1. /\ \A d : LoggedOn(d)' = LoggedOn(d)
      /\ \A t : Latest(t)' = Latest(t)
      /\ Streak(day)' = Streak(day) /\ DrawdownReached(day)' = DrawdownReached(day)
  BY SameTables
<1>2. openedOn' = openedOn /\ closedOn' = closedOn
  BY DEF tables
<1>3. NothingAhead'
  BY <1>2, BoundsAssumption DEF GateInv, NothingAhead, IInv, TypeOK, Days
<1>4. Permitted'
  BY <1>1 DEF GateInv, Permitted
<1>5. DailyTradesBound'
  BY <1>1 DEF GateInv, DailyTradesBound
<1>6. PlaceFree'
  BY <1>1, <1>2 DEF GateInv, PlaceFree
<1> QED BY <1>3, <1>4, <1>5, <1>6 DEF GateInv

(* Booking an exit counts nowhere, and in the past.                         *)
LEMMA BookExitGate ==
    ASSUME IInv, GateInv, NEW t \in todo, BookExit(t), UNCHANGED <<day, loopDay>>,
           pc' \notin {"risk", "execute", "record"}
    PROVE  GateInv'
<1>1. t \in Trades /\ tradeLog[t] = "open"
  BY DEF IInv, BooksInv, WorklistTracked, Tracked, OpenPositions
<1>2. \A d : LoggedOn(d)' = LoggedOn(d)
  BY <1>1 DEF BookExit, LoggedOn, IInv, TypeOK
<1>3. NothingAhead'
  BY <1>1 DEF BookExit, GateInv, NothingAhead, IInv, TypeOK
<1>4. DailyTradesBound'
  BY <1>2 DEF GateInv, DailyTradesBound
<1> QED BY <1>3, <1>4 DEF GateInv, Permitted, PlaceFree

(* The gates check, and what they checked is what the next stage needs.     *)
LEMMA CheckGate ==
    ASSUME IInv, GateInv, Govern \/ AssessRisk
    PROVE  GateInv'
<1>1. UNCHANGED <<tables, process, day>>
  BY DEF Govern, AssessRisk
<1>2. /\ \A d : LoggedOn(d)' = LoggedOn(d)
      /\ Streak(day)' = Streak(day) /\ DrawdownReached(day)' = DrawdownReached(day)
  BY <1>1, SameTables
<1>3. NothingAhead' /\ DailyTradesBound'
  BY <1>1, <1>2 DEF GateInv, NothingAhead, DailyTradesBound, tables, process
<1>4. Permitted'
  BY <1>1, <1>2 DEF Permitted, Govern, AssessRisk, RiskAllows
<1>5. PlaceFree'
  BY <1>1, <1>2 DEF GateInv, PlaceFree, Govern, AssessRisk, GovernancePasses, At
<1> QED BY <1>3, <1>4, <1>5 DEF GateInv

LEMMA FillGate ==
    ASSUME IInv, GateInv, NEW t \in Trades, Fill(t)
    PROVE  GateInv'
<1> USE DEF Fill, At, process
<1>1. tradeLog[t] = "none" /\ pc' = "record"
  BY DEF IInv, BooksInv, BooksConsistent, TypeOK
<1>2. \A d : LoggedOn(d)' = LoggedOn(d)
  BY <1>1 DEF LoggedOn, IInv, TypeOK
<1>3. NothingAhead'
  BY DEF GateInv, NothingAhead, IInv, TypeOK, Days
<1>4. DailyTradesBound'
  BY <1>2 DEF GateInv, DailyTradesBound
<1>5. PlaceFree'
  <2> SUFFICES ASSUME NEW u \in Trades, Latest(u)'
               PROVE  Cardinality(LoggedOn(openedOn[u]))' < MaxPerDay
    BY <1>1 DEF PlaceFree
  <2>1. position' = [position EXCEPT ![t] = "OPEN"]
    OBVIOUS
  <2>2. u = t
    <3>1. CASE u < t
      BY <2>1, <3>1 DEF Latest, Trades, IInv, TypeOK
    <3>2. CASE t < u
      BY <2>1, <3>2 DEF Latest, IInv, TypeOK, BooksInv, FilledInOrder, Trades
    <3> QED BY <3>1, <3>2 DEF Trades
  <2>3. openedOn'[u] = day
    BY <2>2 DEF IInv, TypeOK
  <2>4. Cardinality(LoggedOn(day)) < MaxPerDay
    BY DEF GateInv, PlaceFree
  <2>5. Cardinality(LoggedOn(openedOn[u]))' = Cardinality(LoggedOn(day))
    BY <1>2, <2>3
  <2> QED BY <2>4, <2>5
<1> QED BY <1>1, <1>3, <1>4, <1>5 DEF GateInv, Permitted

(* Recording takes the place that was kept free.                            *)
LEMMA RecordGate ==
    ASSUME IInv, GateInv, NEW t \in Trades, RecordTradeOpen(t) \/ FailRecord(t)
    PROVE  GateInv'
<1> USE DEF RecordTradeOpen, FailRecord, ExecutionError, process, At
<1>1. /\ pc = "record" /\ pc' = "kill" /\ Latest(t) /\ openedOn' = openedOn /\ closedOn' = closedOn
      /\ day' = day /\ loopDay' = loopDay
      /\ tradeLog' = tradeLog \/ tradeLog' = [tradeLog EXCEPT ![t] = "open"]
  BY DEF InsertTradeLog
<1>2. NothingAhead'
  BY <1>1 DEF GateInv, NothingAhead
<1>3. ASSUME NEW d \in Days PROVE Cardinality(LoggedOn(d))' <= MaxPerDay
  <2>1. Cardinality(LoggedOn(d)) <= MaxPerDay /\ MaxPerDay \in Nat
    BY LimitsAssumption DEF GateInv, DailyTradesBound
  <2>2. CASE LoggedOn(d)' = LoggedOn(d)
    BY <2>1, <2>2
  <2>3. CASE LoggedOn(d)' # LoggedOn(d)
    <3>1. openedOn[t] = d /\ LoggedOn(d)' = LoggedOn(d) \cup {t}
      BY <1>1, <2>3 DEF LoggedOn, IInv, TypeOK
    <3>2. Cardinality(LoggedOn(d)) < MaxPerDay
      BY <1>1, <3>1 DEF GateInv, PlaceFree
    <3>3. Cardinality(LoggedOn(d) \cup {t}) <= Cardinality(LoggedOn(d)) + 1
      <4> DEFINE S == LoggedOn(d)
      <4>1. IsFiniteSet(S) /\ Cardinality(S) \in Nat
        BY Counts
      <4> HIDE DEF S
      <4>2. Cardinality(S \cup {t}) = IF t \in S THEN Cardinality(S) ELSE Cardinality(S) + 1
        BY <4>1, FS_AddElement
      <4>3. Cardinality(S \cup {t}) <= Cardinality(S) + 1
        BY <4>1, <4>2
      <4> QED BY <4>3 DEF S
    <3>4. IsFiniteSet(LoggedOn(d)) /\ Cardinality(LoggedOn(d)) \in Nat
          /\ Cardinality(LoggedOn(d) \cup {t}) \in Nat
      <4>1. IsFiniteSet(LoggedOn(d)) /\ Cardinality(LoggedOn(d)) \in Nat
        BY Counts
      <4> QED BY <4>1, FS_AddElement, FS_CardinalityType
    <3>5. Cardinality(LoggedOn(d))' = Cardinality(LoggedOn(d) \cup {t})
      BY <3>1
    <3> QED BY <2>1, <3>2, <3>3, <3>4, <3>5
  <2> QED BY <2>2, <2>3
<1>4. DailyTradesBound'
  BY <1>3 DEF DailyTradesBound, Days
<1> QED BY <1>1, <1>2, <1>4 DEF GateInv, Permitted, PlaceFree

(* Midnight takes nothing away from what was checked.                       *)
LEMMA MidnightGate ==
    ASSUME IInv, GateInv, Tick
    PROVE  GateInv'
<1>1. UNCHANGED <<tables, pc, process>> /\ day' = day + 1 /\ day \in Nat
  BY BoundsAssumption DEF Tick, IInv, TypeOK, Days
<1>2. \A d : LoggedOn(d)' = LoggedOn(d)
  BY <1>1, SameTables
<1>3. NothingAhead'
  BY <1>1, BoundsAssumption DEF GateInv, NothingAhead, tables, process, IInv, TypeOK, Days, NoDay
<1>4. Permitted'
  <2> SUFFICES ASSUME pc = "execute" PROVE Streak(day)' < MaxLosses /\ ~DrawdownReached(day)'
    BY <1>1 DEF Permitted
  <2>1. Streak(day) < MaxLosses /\ ~DrawdownReached(day)
    BY DEF GateInv, Permitted
  <2>2. Streak(day + 1) = 0
    BY <1>1, NewDayStreak DEF IInv, GateInv
  <2>3. 0 < MaxLosses
    BY <2>1, Counts, LimitsAssumption
  <2>4. ~DrawdownReached(day + 1)
    BY <2>1, NewDayDrawdown DEF IInv, GateInv
  <2>5. Streak(day)' = 0 /\ ~DrawdownReached(day)'
    BY <1>1, <2>2, <2>4, SameTablesNextDay
  <2> QED BY <2>3, <2>5
<1>5. DailyTradesBound'
  BY <1>2 DEF GateInv, DailyTradesBound, Days
<1>6. PlaceFree'
  <2>1. pc \in {"risk", "execute"} => Cardinality(LoggedOn(day + 1)) < MaxPerDay
    <3> SUFFICES ASSUME pc \in {"risk", "execute"} PROVE Cardinality(LoggedOn(day + 1)) < MaxPerDay
      OBVIOUS
    <3>1. Cardinality(LoggedOn(day)) < MaxPerDay /\ Cardinality(LoggedOn(day)) \in Nat
      BY Counts DEF GateInv, PlaceFree
    <3>2. Cardinality(LoggedOn(day + 1)) = 0
      BY <1>1, NewDayTrades DEF IInv, GateInv
    <3> QED BY <3>1, <3>2, LimitsAssumption
  <2>2. Cardinality(LoggedOn(day))' = Cardinality(LoggedOn(day + 1))
    BY <1>1, <1>2
  <2>3. \A t \in Trades :
            /\ Latest(t)' = Latest(t)
            /\ Cardinality(LoggedOn(openedOn[t]))' = Cardinality(LoggedOn(openedOn[t]))
    BY <1>1, <1>2 DEF tables, Latest
  <2> QED BY <1>1, <2>1, <2>2, <2>3 DEF GateInv, PlaceFree
<1> QED BY <1>3, <1>4, <1>5, <1>6 DEF GateInv

LEMMA GateInit == Init => GateInv
<1> SUFFICES ASSUME Init PROVE GateInv
  OBVIOUS
<1>1. \A d : LoggedOn(d) = {}
  BY DEF Init, LoggedOn
<1>2. DailyTradesBound
  BY <1>1, FS_EmptySet, LimitsAssumption DEF DailyTradesBound
<1>3. NothingAhead
  BY BoundsAssumption DEF Init, NothingAhead, NoDay
<1> QED BY <1>2, <1>3 DEF Init, GateInv, Permitted, PlaceFree

LEMMA GateStep ==
    ASSUME IInv, GateInv, [Next]_vars
    PROVE  GateInv'
<1> USE DEF process, At, NoSafeModeChange
<1>1. CASE Lifecycle
  <2>1. ASSUME NEW t \in Trades, HoldTrade(t) PROVE GateInv'
    BY <2>1, GateQuiet DEF HoldTrade
  <2>2. ASSUME NEW t \in Trades, SettleTrade(t) PROVE GateInv'
    BY <2>2, BookExitGate DEF SettleTrade, InLifecycle
  <2>3. CASE FinishLifecycle
    BY <2>3, GateQuiet DEF FinishLifecycle, AfterLifecycle
  <2>4. CASE FailLifecycle
    <3>1. UNCHANGED <<day, loopDay>> /\ pc' \notin {"risk", "execute", "record"}
      BY <2>4 DEF FailLifecycle
    <3> QED BY <2>4, <3>1, GateQuiet, BookExitGate DEF FailLifecycle
  <2> QED BY <1>1, <2>1, <2>2, <2>3, <2>4 DEF Lifecycle
<1>2. CASE Decision
  <2>1. CASE SkipDecision \/ BeginDecision \/ Gate \/ FailExecution
    BY <2>1, GateQuiet DEF SkipDecision, BeginDecision, Gate, FailExecution, ExecutionError
  <2> QED BY <1>2, <2>1, CheckGate, FillGate, RecordGate DEF Decision
<1>3. CASE WriteEvent \/ Start \/ Recover \/ StartDataFeeds \/ BeginIteration
           \/ HealthCheck \/ SkipMonitor \/ BeginMonitor \/ KillSwitch
  BY <1>3, GateQuiet DEF WriteEvent, Start, Recover, StartDataFeeds, BeginIteration,
                         HealthCheck, SkipMonitor, BeginMonitor, KillSwitch
<1>4. CASE Halt \/ UNCHANGED vars
  BY <1>4, GateQuiet DEF Halt, vars
<1> QED BY <1>1, <1>2, <1>3, <1>4, MidnightGate DEF Next, Run

-----------------------------------------------------------------------------
LEMMA GatesHold == Spec => []GateInv
<1>1. IInv /\ GateInv /\ [Next]_vars => GateInv'
  BY GateStep
<1> QED BY <1>1, GateInit, Inductive, PTL DEF Spec

(* No UTC day has more rows opened on it than max_trades_per_day, although  *)
(* the number is read at one commit and counted up at a later one, maybe on *)
(* another day.                                                             *)
THEOREM DailyTrades == Spec => []DailyTradesBound
<1>1. GateInv => DailyTradesBound
  BY DEF GateInv
<1> QED BY <1>1, GatesHold, PTL

(* A position is opened only while the row it was gated on still permits    *)
(* it: no safe mode, no limit of the wall clock's day, no errors unanswered.*)
THEOREM EntriesPermitted == Spec => EntryIsPermitted
<1>1. ASSUME IInv, GateInv, [Next]_vars,
             NEW t \in Trades, position[t] = "none", position'[t] = "OPEN"
      PROVE  ~bot.safeMode /\ Streak(day) < MaxLosses /\ ~DrawdownReached(day)
             /\ execErrors <= MaxExecErrors
  <2>1. t \in OpenPositions' /\ t \notin OpenPositions
    BY <1>1 DEF OpenPositions
  <2>2. pc = "execute"
    <3>1. ~AssessRisk
      BY <1>1 DEF AssessRisk, tables
    <3> QED BY <2>1, <3>1, <1>1, OpenPositionsStep DEF Fill, At, IInv
  <2> QED BY <1>1, <2>2 DEF IInv, ErrorInv, GateInv, Permitted
<1>2. IInv /\ GateInv /\ [Next]_vars =>
        [\A t \in Trades : position[t] = "none" /\ position'[t] = "OPEN" =>
           /\ ~bot.safeMode
           /\ Streak(day) < MaxLosses /\ ~DrawdownReached(day)
           /\ execErrors <= MaxExecErrors]_vars
  BY <1>1
<1> QED BY <1>2, GatesHold, Inductive, PTL DEF Spec, EntryIsPermitted

-----------------------------------------------------------------------------
(* The streak of losses *)

StreakInv ==
    /\ StreakBound
    /\ pc = "record" => Streak(day) < MaxLosses

Losses(d) == {t \in Closed : /\ pnl[t] < 0
                             /\ \A u \in Closed : NotAfter(t, u) => closedOn[u] = d /\ pnl[u] <= 0}

LEMMA LossesCounted ==
    /\ \A d : Streak(d) = Cardinality(Losses(d)) /\ IsFiniteSet(Losses(d))
    /\ IsFiniteSet(Tracked) /\ Cardinality(Tracked) \in Nat
<1>1. IsFiniteSet(Trades)
  BY BoundsAssumption, FS_Interval DEF Trades
<1>2. \A d : Losses(d) \in SUBSET Trades
  BY DEF Losses, Closed
<1>3. Tracked \in SUBSET Trades
  BY DEF Tracked, OpenPositions
<1>4. \A d : Streak(d) = Cardinality(Losses(d))
  BY DEF Streak, Losses
<1> QED BY <1>1, <1>2, <1>3, <1>4, FS_Subset, FS_CardinalityType

(* Open trades are never more than the slots.                               *)
LEMMA TrackedFit ==
    ASSUME SlotInv
    PROVE  Cardinality(Tracked) <= MaxOpen
<1>1. Tracked \in SUBSET OpenPositions
  BY DEF Tracked
<1>2. Cardinality(Tracked) <= Cardinality(OpenPositions) /\ Cardinality(OpenPositions) \in Nat
  BY <1>1, OpenPositionsFinite, FS_Subset, FS_CardinalityType
<1> QED BY <1>2, LossesCounted, LimitsAssumption DEF SlotInv

(* One exit makes the streak longer by one loss at most, and the open       *)
(* trades fewer by one.                                                     *)
LEMMA BookExitStreak ==
    ASSUME IInv, NEW t \in todo, BookExit(t), UNCHANGED day
    PROVE  Streak(day)' + Cardinality(Tracked') <= Streak(day) + Cardinality(Tracked)
<1>1. /\ t \in Trades /\ t \in Tracked /\ t \notin Closed
      /\ position[t] = "OPEN" /\ tradeLog[t] = "open"
  BY DEF IInv, BooksInv, WorklistTracked, Tracked, OpenPositions, Closed
<1>2. Tracked' = Tracked \ {t}
  BY <1>1 DEF BookExit, Tracked, OpenPositions, IInv, TypeOK
<1>3. Closed' = Closed \cup {t}
  BY <1>1 DEF BookExit, Closed, IInv, TypeOK
<1>4. \A u \in Closed : u \in Trades /\ u # t
  BY <1>1 DEF Closed
<1>5. \A u \in Closed : pnl'[u] = pnl[u] /\ closedOn'[u] = closedOn[u] /\ closedAt'[u] = closedAt[u]
  BY <1>1, <1>4 DEF BookExit, IInv, TypeOK
<1>6. Losses(day)' \subseteq Losses(day) \cup {t}
  <2> SUFFICES ASSUME NEW u \in Losses(day)', u # t PROVE u \in Losses(day)
    OBVIOUS
  <2>1. u \in Closed /\ pnl[u] < 0
    BY <1>3, <1>5 DEF Losses
  <2>2. ASSUME NEW v \in Closed, NotAfter(u, v) PROVE closedOn[v] = day /\ pnl[v] <= 0
    <3>1. NotAfter(u, v)'
      BY <1>5, <2>1, <2>2 DEF NotAfter
    <3>2. v \in Closed'
      BY <1>3
    <3>3. closedOn'[v] = day /\ pnl'[v] <= 0
      BY <3>1, <3>2 DEF Losses
    <3> QED BY <1>5, <3>3
  <2> QED BY <2>1, <2>2 DEF Losses
<1> DEFINE L == Losses(day)
           M == Losses(day)'
           T == Tracked
<1>7. IsFiniteSet(L) /\ IsFiniteSet(T) /\ Cardinality(L) = Streak(day)
  BY LossesCounted
<1>8. Cardinality(M) = Streak(day)'
  BY DEF Streak, Losses
<1>9. M \in SUBSET (L \cup {t}) /\ t \in T /\ Tracked' = T \ {t}
  BY <1>1, <1>2, <1>6
<1> HIDE DEF L, M, T
<1>10. Cardinality(L) \in Nat /\ Cardinality(T) \in Nat
  BY <1>7, FS_CardinalityType
<1>11. /\ IsFiniteSet(L \cup {t})
       /\ Cardinality(L \cup {t}) = IF t \in L THEN Cardinality(L) ELSE Cardinality(L) + 1
  BY <1>7, FS_AddElement
<1>12. Cardinality(M) <= Cardinality(L \cup {t}) /\ Cardinality(M) \in Nat
  BY <1>9, <1>11, FS_Subset, FS_CardinalityType
<1>13. Cardinality(T \ {t}) = Cardinality(T) - 1
  BY <1>7, <1>9, FS_RemoveElement
<1> QED BY <1>7, <1>8, <1>9, <1>10, <1>11, <1>12, <1>13 DEF T

(* A step that leaves the tables and the day alone.                         *)
LEMMA StreakQuiet ==
    ASSUME StreakInv, UNCHANGED <<tables, day>>, pc' = "record" => pc = "record"
    PROVE  StreakInv'
<1>1. Streak(day)' = Streak(day)
  BY SameTables
<1>2. Tracked' = Tracked
  BY DEF tables, Tracked, OpenPositions
<1> QED BY <1>1, <1>2 DEF StreakInv, StreakBound

LEMMA StreakExit ==
    ASSUME IInv, StreakInv, NEW t \in todo, BookExit(t), UNCHANGED day, pc' # "record"
    PROVE  StreakInv'
<1>1. Streak(day)' + Cardinality(Tracked') <= Streak(day) + Cardinality(Tracked)
  BY BookExitStreak
<1>2. Streak(day)' \in Nat /\ Cardinality(Tracked') \in Nat
  <2>1. /\ \A d : Losses(d)' \in SUBSET Trades
        /\ Tracked' \in SUBSET Trades
    BY DEF Losses, Closed, Tracked, OpenPositions
  <2>2. IsFiniteSet(Trades)
    BY BoundsAssumption, FS_Interval DEF Trades
  <2>3. Cardinality(Losses(day)') \in Nat /\ Cardinality(Tracked') \in Nat
    BY <2>1, <2>2, FS_Subset, FS_CardinalityType
  <2> QED BY <2>3 DEF Streak, Losses
<1>3. Streak(day) \in Nat /\ Cardinality(Tracked) \in Nat
  BY Counts, LossesCounted
<1> QED BY <1>1, <1>2, <1>3, LimitsAssumption DEF StreakInv, StreakBound

(* From the risk gate on there is room for every open trade to lose.        *)
LEMMA StreakEntry ==
    ASSUME IInv, GateInv, StreakInv,
           NEW t \in Trades, Fill(t) \/ RecordTradeOpen(t) \/ FailRecord(t)
    PROVE  StreakInv'
<1>1. day' = day /\ closedOn' = closedOn /\ closedAt' = closedAt /\ pnl' = pnl
  BY DEF Fill, RecordTradeOpen, FailRecord, ExecutionError, process
<1>2. Closed' = Closed
  <2>1. \/ Fill(t) /\ tradeLog' = tradeLog
        \/ /\ pc = "record" /\ Latest(t)
           /\ tradeLog' = tradeLog \/ tradeLog' = [tradeLog EXCEPT ![t] = "open"]
    BY DEF Fill, RecordTradeOpen, FailRecord, InsertTradeLog, At
  <2> QED BY <2>1 DEF Closed, IInv, TypeOK, BooksInv, NewestUnrecorded
<1>3. Streak(day)' = Streak(day)
  BY <1>1, <1>2 DEF Streak, NotAfter
<1>4. Streak(day) < MaxLosses /\ Streak(day) \in Nat
  BY Counts DEF Fill, RecordTradeOpen, FailRecord, At, StreakInv, GateInv, Permitted
<1>5. Cardinality(Tracked') <= MaxOpen /\ Cardinality(Tracked') \in Nat
  <2>1. SlotInv'
    <3>1. [Next]_vars
      BY DEF Next, Run, Decision
    <3> QED BY <3>1, SlotStep DEF IInv
  <2>2. Tracked' \in SUBSET OpenPositions' /\ OpenPositions' \in SUBSET Trades
    BY DEF Tracked, OpenPositions
  <2>3. IsFiniteSet(OpenPositions')
    <3>1. IsFiniteSet(Trades)
      BY BoundsAssumption, FS_Interval DEF Trades
    <3> QED BY <2>2, <3>1, FS_Subset
  <2>4. /\ Cardinality(Tracked') <= Cardinality(OpenPositions')
        /\ Cardinality(Tracked') \in Nat /\ Cardinality(OpenPositions') \in Nat
    BY <2>2, <2>3, FS_Subset, FS_CardinalityType
  <2>5. Cardinality(OpenPositions') <= MaxOpen
    BY <2>1 DEF SlotInv
  <2> QED BY <2>4, <2>5, LimitsAssumption
<1> QED BY <1>1, <1>3, <1>4, <1>5, LimitsAssumption DEF StreakInv, StreakBound

(* Midnight begins a new streak.                                            *)
LEMMA StreakMidnight ==
    ASSUME IInv, GateInv, StreakInv, Tick
    PROVE  StreakInv'
<1>1. UNCHANGED <<tables, pc>> /\ day' = day + 1 /\ day \in Nat
  BY BoundsAssumption DEF Tick, IInv, TypeOK, Days
<1>2. Streak(day)' = 0
  BY <1>1, NewDayStreak, SameTablesNextDay DEF IInv, GateInv
<1>3. Tracked' = Tracked /\ Cardinality(Tracked) <= MaxOpen /\ Cardinality(Tracked) \in Nat
  BY <1>1, TrackedFit, LossesCounted DEF tables, Tracked, OpenPositions, IInv
<1>4. pc = "record" => 0 < MaxLosses
  BY Counts, LimitsAssumption DEF StreakInv
<1> QED BY <1>1, <1>2, <1>3, <1>4, LimitsAssumption DEF StreakInv, StreakBound

LEMMA StreakStep ==
    ASSUME IInv, GateInv, StreakInv, [Next]_vars
    PROVE  StreakInv'
<1> USE DEF process, At, NoSafeModeChange
<1>1. CASE Lifecycle
  <2>1. ASSUME NEW t \in Trades, HoldTrade(t) PROVE StreakInv'
    BY <2>1, StreakQuiet DEF HoldTrade
  <2>2. ASSUME NEW t \in Trades, SettleTrade(t) PROVE StreakInv'
    BY <2>2, StreakExit DEF SettleTrade, InLifecycle
  <2>3. CASE FinishLifecycle
    BY <2>3, StreakQuiet DEF FinishLifecycle, AfterLifecycle
  <2>4. CASE FailLifecycle
    <3>1. UNCHANGED day /\ pc' # "record"
      BY <2>4 DEF FailLifecycle
    <3> QED BY <2>4, <3>1, StreakQuiet, StreakExit DEF FailLifecycle
  <2> QED BY <1>1, <2>1, <2>2, <2>3, <2>4 DEF Lifecycle
<1>2. CASE Decision
  <2>1. CASE SkipDecision \/ BeginDecision \/ Gate \/ FailExecution \/ Govern \/ AssessRisk
    BY <2>1, StreakQuiet DEF SkipDecision, BeginDecision, Gate, FailExecution, ExecutionError,
                             Govern, AssessRisk
  <2> QED BY <1>2, <2>1, StreakEntry DEF Decision
<1>3. CASE WriteEvent \/ Start \/ Recover \/ StartDataFeeds \/ BeginIteration
           \/ HealthCheck \/ SkipMonitor \/ BeginMonitor \/ KillSwitch
  BY <1>3, StreakQuiet DEF WriteEvent, Start, Recover, StartDataFeeds, BeginIteration,
                           HealthCheck, SkipMonitor, BeginMonitor, KillSwitch
<1>4. CASE Halt \/ UNCHANGED vars
  BY <1>4, StreakQuiet DEF Halt, vars
<1> QED BY <1>1, <1>2, <1>3, <1>4, StreakMidnight DEF Next, Run

(* The losses in a row that are booked today and the trades still open are, *)
(* together, fewer than max_consecutive_losses plus the open slots.         *)
THEOREM StreakBounded == Spec => []StreakBound
<1>1. Init => StreakInv
  <2> SUFFICES ASSUME Init PROVE StreakInv
    OBVIOUS
  <2>1. Losses(day) = {} /\ Tracked = {}
    BY DEF Init, Losses, Closed, Tracked, OpenPositions
  <2>2. Streak(day) = 0 /\ Cardinality(Tracked) = 0
    BY <2>1, LossesCounted, FS_EmptySet
  <2> QED BY <2>2, LimitsAssumption DEF Init, StreakInv, StreakBound
<1>2. IInv /\ GateInv /\ StreakInv /\ [Next]_vars => StreakInv'
  BY StreakStep
<1>3. StreakInv => StreakBound
  BY DEF StreakInv
<1> QED BY <1>1, <1>2, <1>3, GatesHold, Inductive, PTL DEF Spec

-----------------------------------------------------------------------------
(* Why every iteration comes to its kill switch *)

(* How many calls of the loop are still to come. *)
Place == [kill |-> 1, record |-> 2, execute |-> 3, risk |-> 4, govern |-> 5, gate |-> 6,
          decideLife |-> 7, decide |-> 8, monitorLife |-> 9, monitor |-> 10, health |-> 11]

InIteration == pc \in DOMAIN Place

(* The process takes one call after another and none twice; where it stays, *)
(* it has written the event it owed or looked at one trade more.  Out of an *)
(* iteration leads the kill switch, or the end of the process.              *)
IterationAdvances ==
    InIteration /\ Run =>
        \/ pc' \in DOMAIN Place /\ Place[pc'] < Place[pc]
        \/ /\ pc' = pc
           /\ \/ pendingEvent # "none" /\ pendingEvent' = "none" /\ todo' = todo
              \/ todo' # todo /\ todo' \subseteq todo /\ pendingEvent' = pendingEvent
        \/ /\ pc = "kill" /\ pc' = "loop"
           /\ KillReason => bot'.safeMode

(* Whatever fails on the way - snapshot, lifecycle, execution, recording -  *)
(* an iteration is a finite number of calls, the last of which is the kill  *)
(* switch, and with a reason for it the process does not begin another one  *)
(* outside safe mode.  It is what KillSwitchFires decreases.                *)
THEOREM IterationsJudged == Spec => [][IterationAdvances]_vars
<1>1. IterationAdvances
  <2> SUFFICES ASSUME InIteration, Run
               PROVE  \/ pc' \in DOMAIN Place /\ Place[pc'] < Place[pc]
                      \/ /\ pc' = pc
                         /\ \/ pendingEvent # "none" /\ pendingEvent' = "none" /\ todo' = todo
                            \/ todo' # todo /\ todo' \subseteq todo /\ pendingEvent' = pendingEvent
                      \/ /\ pc = "kill" /\ pc' = "loop"
                         /\ KillReason => bot'.safeMode
    BY DEF IterationAdvances
  <2>1. CASE WriteEvent
    BY <2>1 DEF WriteEvent, process
  <2>2. CASE Start \/ Recover \/ StartDataFeeds \/ BeginIteration
    BY <2>2 DEF Start, Recover, StartDataFeeds, BeginIteration, At, InIteration, Place
  <2>3. CASE HealthCheck \/ SkipMonitor \/ BeginMonitor
    BY <2>3 DEF HealthCheck, SkipMonitor, BeginMonitor, At, Place
  <2>4. CASE Lifecycle
    <3>1. ASSUME NEW t \in Trades, HoldTrade(t) \/ SettleTrade(t)
          PROVE  /\ pc' = pc /\ pendingEvent' = pendingEvent
                 /\ todo' # todo /\ todo' \subseteq todo
      BY <3>1 DEF HoldTrade, SettleTrade, NoSafeModeChange
    <3>2. CASE FinishLifecycle
      BY <3>2 DEF FinishLifecycle, AfterLifecycle, InLifecycle, At, Place
    <3>3. CASE FailLifecycle
      BY <3>3 DEF FailLifecycle, InLifecycle, At, Place
    <3> QED BY <2>4, <3>1, <3>2, <3>3 DEF Lifecycle
  <2>5. CASE Decision
    <3>1. CASE SkipDecision \/ BeginDecision \/ Gate \/ Govern \/ AssessRisk \/ FailExecution
      BY <3>1 DEF SkipDecision, BeginDecision, Gate, Govern, AssessRisk, FailExecution,
                  ExecutionError, At, Place
    <3>2. ASSUME NEW t \in Trades, Fill(t) \/ RecordTradeOpen(t) \/ FailRecord(t)
          PROVE  pc' \in DOMAIN Place /\ Place[pc'] < Place[pc]
      BY <3>2 DEF Fill, RecordTradeOpen, FailRecord, ExecutionError, At, Place
    <3> QED BY <2>5, <3>1, <3>2 DEF Decision
  <2>6. CASE KillSwitch
    <3>1. KillReason => bot'.safeMode
      BY <2>6 DEF KillSwitch, ActivateSafeMode, SetSafeMode
    <3> QED BY <2>6, <3>1 DEF KillSwitch, At
  <2> QED BY <2>1, <2>2, <2>3, <2>4, <2>5, <2>6 DEF Run
<1> QED BY <1>1, PTL DEF Spec
=============================================================================
