SPECIFICATION ConsoleSpec
CONSTANTS
    MaxSends = 1
    MaxAttempts = 1
    MaxHealthChecks = 1
    MaxTokens = 0
    MaxEvents = 1
    MaxQueue = 1
    MaxFaults = 0
INVARIANTS PromptSurfaces
CHECK_DEADLOCK FALSE
