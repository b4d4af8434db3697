SPECIFICATION ConsoleSpec
CONSTANTS
    MaxSends = 2
    MaxAttempts = 1
    MaxHealthChecks = 1
    MaxTokens = 1
    MaxEvents = 1
    MaxQueue = 1
    MaxFaults = 0
INVARIANTS NeverTwoOpen
CHECK_DEADLOCK FALSE
