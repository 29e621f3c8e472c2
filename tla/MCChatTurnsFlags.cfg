SPECIFICATION TurnsSpec
CONSTANTS
  c1 = c1
  c2 = c2
  Conn = {c1}
  Providers = {"claude"}
  MaxStarts = 2
  MaxAgents = 2
  MaxEvents = 2
INVARIANT
  FreshFlagsNextTurn
CHECK_DEADLOCK FALSE
