SPECIFICATION TurnsSpec
CONSTANTS
  c1 = c1
  c2 = c2
  Conn = {c1}
  Providers = {"claude"}
  MaxStarts = 3
  MaxAgents = 1
  MaxEvents = 2
INVARIANT
  PromptsNeverFold
CHECK_DEADLOCK FALSE
