\* Two callers, up to two operations and two transports, stdio and HTTP.
CONSTANTS
    Callers = {c1, c2}
    Tools = {a}
    MaxTransports = 2
    MaxReconnectAttempts = 2
    MaxOperations = 2
SPECIFICATION Spec
INVARIANTS WaitsAreHeard AnswerIsOwn ManagerHonest NoStrayTransport
SYMMETRY Symmetry
\* Every operation ends in the end and no more are begun.
CHECK_DEADLOCK FALSE
