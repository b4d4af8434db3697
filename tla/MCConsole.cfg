SPECIFICATION ConsoleSpec
CONSTANTS
    MaxSends = 2
    MaxAttempts = 2
    MaxHealthChecks = 1
    MaxTokens = 1
    MaxEvents = 1
    MaxQueue = 1
    MaxFaults = 1
INVARIANTS StreamsInStep TokensStayHome
PROPERTIES AbortedIsSilent InputComesBack
CHECK_DEADLOCK FALSE
