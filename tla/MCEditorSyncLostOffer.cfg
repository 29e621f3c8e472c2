SPECIFICATION EditorSpec
CONSTANTS
  a = a
  b = b
  Host = Host
  Client = {a}
  Uid <- MCUid
  Shadows = {}
  MaxLocal = 1
  MaxReload = 2
  MaxDeaths = 0
  MaxEarly = 0
  MaxSaves = 0
  Ordered = TRUE
INVARIANT EditorCatchesUp
CHECK_DEADLOCK FALSE
