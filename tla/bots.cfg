CONSTANTS
    MaxBots = 4
    MaxCycles = 2
    FileLines = 3
    Limit = 2
    MaxLines = 8
    MaxStreams = 2

SPECIFICATION DashboardSpec

INVARIANTS AtMostOneBot OnlyOwnAreStopped TrailTellsTruth StreamExplained

CHECK_DEADLOCK FALSE
