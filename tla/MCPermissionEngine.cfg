SPECIFICATION FairSpec
CONSTANTS
    b1 = b1
    b2 = b2
    x1 = x1
    x2 = x2
    r1 = r1
    r2 = r2
    s1 = s1
    s2 = s2
    bash = bash
    read = read
    NoCall = NoCall
    NoRun = NoRun
    NoOutcome = NoOutcome
    NoVerdict = NoVerdict
    Calls = {b1, b2, x1, x2}
    Runs = {r1, r2}
    Sessions = {s1}
    Tools = {bash, read}
    ApprovalIds = {"s1:0", "s1:1", "s1:2"}
    RunOf <- MCRunOf
    SessionOf <- MCSessionOf
    ModeOf <- MCModeOf
    ToolOf <- MCToolOf
    ApprovalIdOf <- MCIdOf
    LevelOf <- MCLevelOf
    Critical = {x2}
    ReadOnlyTools = {read}
    FaultyIO = TRUE
    MaxAnswers = 1
INVARIANTS GateHonest
PROPERTIES AlwaysNeverAsksAgain DenyAlwaysHolds EveryCheckReturns
CHECK_DEADLOCK FALSE
