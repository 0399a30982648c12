CONSTANTS
    MaxBars = 4
    MaxTrades = 3
    Bars <- SomeBars
    Setups <- LongAndShort
    Rates = {0, 1}
    Size = 3
    PartialSize = 1
    Trail = 4
    EntrySlip = 0
    ExitSlip = 1
    Fee = 1
    HoldLimit = 2
    MaxOpen = 2
    InitialEquity = 100

SPECIFICATION Spec

INVARIANTS EquityIsCash RowExplainsProfit

PROPERTIES StopOnlyTightens ImplementsLifecycle

CHECK_DEADLOCK FALSE
