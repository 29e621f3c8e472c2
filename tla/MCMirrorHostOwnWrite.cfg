SPECIFICATION Spec
CONSTANTS
  a = a
  b = b
  mine = mine
  theirs = theirs
  Client = {a, b}
  ClientLine = {mine}
  AgentLine = {theirs}
  MaxOpens = 1
  MaxEdits = 2
  MaxWrites = 0
  MaxStores = 2
  MaxCloses = 0
INVARIANT OwnWriteIsNotForeign
CHECK_DEADLOCK FALSE
