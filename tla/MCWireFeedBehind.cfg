SPECIFICATION WireSpec
CONSTANTS
  a = a
  b = b
  Chan = {a, b}
  Ext = {a}
  Standing = {a}
  Depth = 1
  MaxActions = 2
  MaxSubs = 1
  MaxEvents = 2
INVARIANT
  ReplayRepeatsNothing
CHECK_DEADLOCK FALSE
