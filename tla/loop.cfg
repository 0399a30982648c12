CONSTANTS
    Bar = 4
    BarsPerDay = 2
    MonitorEvery = 2
    HealthEvery = 3
    Idle = 1
    Slow = 2
    MaxClock = 18

SPECIFICATION LiveSpec

INVARIANTS EachBarOnce MonitorPrompt OneSummaryEachDay

PROPERTY StopEnds

CHECK_DEADLOCK FALSE
