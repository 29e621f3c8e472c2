SPECIFICATION FairChannelSpec
CONSTANTS
  MaxOpens = 3
  MaxSaves = 1
  MaxFaults = 1
  MaxOthers = 1
INVARIANTS
  ChannelInv
  RowsHaveTheirLives
PROPERTIES
  SavesEnd
  OpensAndCloses
CHECK_DEADLOCK FALSE
