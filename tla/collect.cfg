CONSTANTS
    MaxRetries = 3
    Proxies = 3
    MaxCalls = 3
    Bar = 2
    Long = 4
    Hour = 2
    Day = 4
    Limit = 2
    Lookback = 2
    RateTries = 2
    Required = 2
    LastTime = 4
    MaxTape = 3
    MaxLoads = 2
    LookbackRows = 1
    Page = 2
    Back = 2
    LastMs = 3
    MaxOrders = 4
    DayMs = 2
    LastDay = 2
    Coinm <- CoinmFiles
    Tardis <- TardisFiles
    Chunk = 2
    MaxErrors = 2
    MaxPasses = 3
    BiasDays = 4
    Rolling = 2
SPECIFICATION CollectorsSpec
INVARIANTS BanMovesOn CompletedRunIsWhole ForceOrdersKept ReplayIsFair
PROPERTIES ImplementsRequest RowsStay
CHECK_DEADLOCK FALSE
