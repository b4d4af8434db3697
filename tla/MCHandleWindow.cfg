SPECIFICATION Spec
CONSTANTS
    w1 = w1
    w2 = w2
    w3 = w3
    r1 = r1
    Workers = {w1, w2, w3}
    Roots = {r1}
    Ids = {w1, w2, w3}
    IdOf <- MCIdOf
    MaxConcurrent = 1
    NoCaller = NoCaller
    NoWorker = NoWorker
    NoReason = NoReason
PROPERTIES
    HeldForAWindow
CHECK_DEADLOCK FALSE
