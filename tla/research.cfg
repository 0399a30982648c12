CONSTANTS
    Params <- Vectors
    Base <- Current
    Config <- Settings
    Valid <- ValidVectors
    MaxData = 2
    LastSnapshot = 7
    MaxVolume = 10
    ResultAt <- ResultsByVersion
    Evaluations <- Evaluated
    Protocol <- Protocols
    NTrials = 2
    MaxCandidates = 2
    TopN = 3
    MaxRuns = 2

SPECIFICATION LabSpec

INVARIANTS EvidenceComplete SelectionsJustified

PROPERTY AnswersAreEarned

CHECK_DEADLOCK FALSE
