SPECIFICATION FairWireSpec
CONSTANTS
  a = a
  b = b
  Chan = {a, b}
  Ext = {a}
  Standing = {a}
  Depth = 1
  MaxActions = 2
  MaxSubs = 1
  MaxEvents = 2
INVARIANTS
  WireInv
  NoSilentGap
PROPERTIES
  StreamCatchesUp
CHECK_DEADLOCK FALSE
