CONSTANTS
    Bar = 2
    MaxClock = 8
    Required = 3
    Window = 2
    SpikePoints = 2
    Price <- SomePrices
    Flow <- SomeFlow
    Charts <- SomeCharts
    Climates <- SomeClimates
    Tolerance = 1
    MinHits = 2
    MinAge = 1
    Proximity = 2
    SweepBuf = 1
    ReclaimBuf = 1
    WickMin = 2
    MinDepth = 1
    EntryOffset = 1
    StopOffset = 1
    MinStop = 1
    Tp1 = 2
    Tp2 = 4
    Session <- OneSession
    Eligible <- EuNotWild
    LevelTol = 100
    LevelWindow = 4
    Cooldown = 3

SPECIFICATION PipelineSpec

INVARIANT HistoryIsBars

CHECK_DEADLOCK FALSE
