SPECIFICATION Spec
CONSTANTS
  a = a
  b = b
  Host = Host
  Client = {a}
  Uid <- MCUid
  Shadows = {}
  MaxLocal = 2
  MaxReload = 1
  MaxDeaths = 1
  Ordered = TRUE
INVARIANT NothingStrands
CHECK_DEADLOCK FALSE
