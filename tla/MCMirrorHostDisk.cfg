SPECIFICATION FairSpec
CONSTANTS
  a = a
  b = b
  mine = mine
  theirs = theirs
  Client = {a}
  ClientLine = {mine}
  AgentLine = {theirs}
  MaxOpens = 1
  MaxEdits = 2
  MaxWrites = 2
  MaxStores = 2
  MaxCloses = 0
INVARIANTS
  MirrorHoldsBothSides
  LaneKeepsTheMirror
PROPERTY MirrorCatchesUp
CHECK_DEADLOCK FALSE
