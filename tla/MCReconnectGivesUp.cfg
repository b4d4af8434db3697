\* One operation over and over: the attempts one caller makes.
CONSTANTS
    Callers = {c1}
    Tools = {a}
    MaxTransports = 3
    MaxReconnectAttempts = 2
    MaxOperations = 1
SPECIFICATION Spec
INVARIANT ReconnectGivesUp
CHECK_DEADLOCK FALSE
