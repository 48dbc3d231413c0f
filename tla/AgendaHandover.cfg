SPECIFICATION FairSpec
CONSTANTS
    Boots = {1, 2}
    MaxCause = 1
    MaxAttempts = 1
    NoSession = NoSession
    Worlds <- HandoverWorlds
    MaxSuccessors = 0
    Threshold = 2
    EarlyCap = 2
    Ring = 2
    Cohomed = TRUE
INVARIANTS
    HolderIsReal
PROPERTIES
    FiringIsHolders
    EveryRunSettles
CHECK_DEADLOCK FALSE
