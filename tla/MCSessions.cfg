SPECIFICATION Spec
CONSTANTS
    m1 = m1
    m2 = m2
    m3 = m3
    n1 = n1
    s1 = s1
    s2 = s2
    Sessions = {s1, s2}
    Messages = {m1, m2, m3, n1}
    SessionOf <- MCSessionOf
    MaxRestarts = 1
    FaultyIO = TRUE
    NoTitle = NoTitle
    NotCached = NotCached
SYMMETRY Similar
INVARIANTS CacheTrue HistoryIsPast ServedAsStored
CHECK_DEADLOCK FALSE
