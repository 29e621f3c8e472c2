SPECIFICATION Spec
CONSTANTS
  a = a
  b = b
  mine = mine
  theirs = theirs
  Client = {a, b}
  ClientLine = {mine}
  AgentLine = {theirs}
  MaxOpens = 1
  MaxEdits = 0
  MaxWrites = 1
  MaxStores = 0
  MaxCloses = 0
INVARIANT NoWriteIsMissed
CHECK_DEADLOCK FALSE
