\* What dispatcher.ts:13 says of the time limit of a hook.
SPECIFICATION HooksSpec
CONSTANTS
  Callers = {c1}
  Commands = {"lint", "audit", "blank"}
  Blank = {"blank"}
  GlobalFiles <- MCGlobal
  ProjectFiles <- MCProject
  Changes = {"object", "other"}
  MaxEdits = 0
  MaxDispatches = 1
PROPERTY TimeLimitHolds
CHECK_DEADLOCK FALSE
