SPECIFICATION Spec
CONSTANTS
    t1 = t1
    t2 = t2
    CallIds = {t1, t2}
    MaxTurns = 3
    MaxCalls = 3
    Threshold = 4
    LongTokens = 3
    FailureThreshold = 2
PROPERTIES
    FailureIsFailure
CHECK_DEADLOCK FALSE
