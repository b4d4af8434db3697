SPECIFICATION FairSpec
CONSTANTS
    t1 = t1
    t2 = t2
    CallIds = {t1, t2}
    MaxTurns = 3
    MaxCalls = 3
    Threshold = 4
    LongTokens = 3
    FailureThreshold = 2
INVARIANTS PromptWellFormed BreakerTrips RunWellFormed
PROPERTIES EveryRunEnds
CHECK_DEADLOCK FALSE
