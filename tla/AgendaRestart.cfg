SPECIFICATION FairSpec
CONSTANTS
    Boots = {1, 2}
    MaxCause = 2
    MaxAttempts = 2
    NoSession = NoSession
    Worlds <- RestartWorlds
    MaxSuccessors = 1
    Threshold = 2
    EarlyCap = 2
    Ring = 4
    Cohomed = FALSE
INVARIANTS
    FiresAtMostOnce
    MemoryMatchesJournal
PROPERTIES
    CompletedStays
    FailedMeansUnfinished
    AcquisitionOutranks
    EveryRunSettles
CHECK_DEADLOCK FALSE
