SPECIFICATION Spec
CONSTANTS
  Callers = {c1, c2}
  Hosts <- MCHosts
  Policies = {"strict", "off", "invalid"}
  MaxCommands = 2
INVARIANTS RunsAsTold
PROPERTIES EveryCommandReturns
CHECK_DEADLOCK FALSE
