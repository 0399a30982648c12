CONSTANTS
    Modes = {"PAPER"}
    Faults = {"snapshot"}
    MaxTrades = 2
    FirstDay = 6
    LastDay = 6
    RefEquity = 100
    MaxOpen = 2
    MaxPerDay = 2
    MaxLosses = 1
    DailyLimit = 5
    WeeklyLimit = 8
    MaxExecErrors = 1
    HealthThreshold = 2
    Pnls <- WinOrLose
SPECIFICATION Spec
PROPERTY CapitalSafeModeSticks
