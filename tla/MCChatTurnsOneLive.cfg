SPECIFICATION TurnsSpec
CONSTANTS
  c1 = c1
  c2 = c2
  Conn = {c1, c2}
  Providers = {"claude"}
  MaxStarts = 2
  MaxAgents = 2
  MaxEvents = 0
INVARIANT
  OneLiveTurn
CHECK_DEADLOCK FALSE
