SPECIFICATION FairSpec
CONSTANTS
    w1 = w1
    w2 = w2
    w3 = w3
    w4 = w4
    i1 = i1
    i2 = i2
    s1 = s1
    s2 = s2
    Waits = {w1, w2, w3, w4}
    Ids = {i1, i2}
    Signals = {s1, s2}
    IdOf <- MCIdOf
    SignalOf <- MCSignalOf
    NoWait = NoWait
    NoSignal = NoSignal
    NoOutcome = NoOutcome
INVARIANTS RegistryTidy
PROPERTIES EndedByItsOwn ImplementsPromise EveryWaitEnds
CHECK_DEADLOCK FALSE
