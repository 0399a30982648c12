CONSTANTS
    Modes = {"PAPER", "LIVE"}
    Faults = {"crash", "feeds", "health", "snapshot", "lifecycle", "execute", "record"}
    MaxTrades = 3
    FirstDay = 6
    LastDay = 7
    RefEquity = 100
    MaxOpen = 2
    MaxPerDay = 2
    MaxLosses = 1
    DailyLimit = 5
    WeeklyLimit = 8
    MaxExecErrors = 0
    HealthThreshold = 0
    Pnls <- WinOrLose
SPECIFICATION LiveSpec
INVARIANTS BooksAgree AuditMatchesState StreakBound DailyTradesBound
PROPERTIES EntryIsPermitted ImplementsLifecycle KillSwitchFires TrackedTradesSettle
