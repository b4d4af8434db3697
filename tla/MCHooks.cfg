SPECIFICATION HooksSpec
CONSTANTS
  Callers = {c1, c2}
  Commands = {"lint", "audit", "blank"}
  Blank = {"blank"}
  GlobalFiles <- MCGlobal
  ProjectFiles <- MCProject
  Changes = {"object", "other"}
  MaxEdits = 1
  MaxDispatches = 2
INVARIANTS DispatchHonest StaleOnlyByRace
PROPERTIES BlockedStays EveryDispatchEnds
CHECK_DEADLOCK FALSE
