CONSTANTS
    Long = 3
    Short = 2
    PageLimit = 2
    BufferSize = 3
    Ready = 75
    Degraded = 50
    MaxClock = 4
    MaxTrades = 4

SPECIFICATION LiveSpec

INVARIANTS RestWindowExact ReadyIsGapless

PROPERTY LoadingEnds

CHECK_DEADLOCK FALSE
