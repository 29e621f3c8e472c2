SPECIFICATION Spec
CONSTANTS
  a = a
  b = b
  Host = Host
  Client = {a, b}
  Uid <- MCUid
  Shadows = {}
  MaxLocal = 2
  MaxReload = 1
  MaxDeaths = 0
  Ordered = FALSE
INVARIANT NothingMisapplies
CHECK_DEADLOCK FALSE
