SPECIFICATION LanesSpec
CONSTANTS
  mine = mine
  theirs = theirs
  ClientLine = {mine}
  AgentLine = {theirs}
  MaxEdits = 1
  MaxWrites = 1
  MaxSaves = 1
  MaxFaults = 1
INVARIANTS
  NothingLandsTwice
CHECK_DEADLOCK FALSE
