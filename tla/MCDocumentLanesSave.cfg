SPECIFICATION LanesSpec
CONSTANTS
  mine = mine
  theirs = theirs
  ClientLine = {mine}
  AgentLine = {theirs}
  MaxEdits = 1
  MaxWrites = 0
  MaxSaves = 2
  MaxFaults = 1
INVARIANTS
  NewestSaveStays
CHECK_DEADLOCK FALSE
