CONSTANTS
    Trades = {t1, t2}
    LastDay = 2
    Pnls <- AllResults
    HardStopAfter = 1
    HardStopBelow = 0

SPECIFICATION Spec

INVARIANTS DailyCountsExact DecisionsReadFresh

PROPERTY SafeModeSticks
