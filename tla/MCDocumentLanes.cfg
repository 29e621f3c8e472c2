SPECIFICATION FairLanesSpec
CONSTANTS
  mine = mine
  theirs = theirs
  ClientLine = {mine}
  AgentLine = {theirs}
  MaxEdits = 1
  MaxWrites = 1
  MaxSaves = 1
  MaxFaults = 1
INVARIANTS
  LanesInv
PROPERTIES
  LanesCatchUp
CHECK_DEADLOCK FALSE
