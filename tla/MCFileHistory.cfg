SPECIFICATION Spec
CONSTANTS
  Callers = {c1, c2}
  Paths <- MCPaths
  Names <- MCPaths
  Name <- MCName
  Answers <- MCAnswers
  Values = {v1, v2}
  MaxCalls = 3
  MaxTime = 1
  MaxFaults = 1
SYMMETRY Symmetry
INVARIANTS Recoverable
PROPERTIES RewindReverts
CHECK_DEADLOCK FALSE
