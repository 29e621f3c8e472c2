SPECIFICATION Spec
CONSTANTS
  a = a
  b = b
  mine = mine
  theirs = theirs
  Client = {a, b}
  ClientLine = {mine}
  AgentLine = {theirs}
  MaxOpens = 2
  MaxEdits = 0
  MaxWrites = 1
  MaxStores = 1
  MaxCloses = 1
SYMMETRY Symmetry
INVARIANTS
  MirrorInv
CHECK_DEADLOCK FALSE
