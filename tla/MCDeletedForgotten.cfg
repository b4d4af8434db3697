SPECIFICATION Spec
CONSTANTS
    m1 = m1
    m2 = m2
    m3 = m3
    n1 = n1
    s1 = s1
    s2 = s2
    Sessions = {s1}
    Messages = {m1, m2}
    SessionOf <- OneSession
    MaxRestarts = 1
    FaultyIO = FALSE
    NoTitle = NoTitle
    NotCached = NotCached
INVARIANTS
    DeletedIsForgotten
CHECK_DEADLOCK FALSE
