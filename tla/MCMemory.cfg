SPECIFICATION MemorySpec
CONSTANTS
  Writers = {c1, c2}
  Bullets = {b1, b2}
  Cap = 1
  PromptCap = 2
  MaxTime = 1
  MaxCalls = 2
  MaxFaults = 1
SYMMETRY Symmetry
INVARIANTS MemoryHonest
PROPERTIES AppendKeeps
CHECK_DEADLOCK FALSE
