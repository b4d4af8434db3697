SPECIFICATION Spec
CONSTANTS
    b1 = b1
    b2 = b2
    x1 = x1
    x2 = x2
    r1 = r1
    r2 = r2
    s1 = s1
    s2 = s2
    bash = bash
    read = read
    NoCall = NoCall
    NoRun = NoRun
    NoOutcome = NoOutcome
    NoVerdict = NoVerdict
    Calls <- PairCalls
    Runs = {r1, r2}
    Sessions = {s1, s2}
    Tools = {bash, read}
    ApprovalIds = {"s1:0", "s1:1", "s2:0"}
    RunOf <- PairRunOf
    SessionOf <- PairSessionOf
    ModeOf <- PairModeOf
    ToolOf <- PairToolOf
    ApprovalIdOf <- PairIdOf
    LevelOf <- MCLevelOf
    Critical = {x2}
    ReadOnlyTools = {read}
    FaultyIO = FALSE
    MaxAnswers = 1
PROPERTIES
    DeleteEndsOwnPrompts
CHECK_DEADLOCK FALSE
