SPECIFICATION EditorSpec
CONSTANTS
  a = a
  b = b
  Host = Host
  Client = {a}
  Uid <- MCUid
  Shadows = {}
  MaxLocal = 1
  MaxReload = 1
  MaxDeaths = 0
  MaxEarly = 1
  MaxSaves = 0
  Ordered = TRUE
INVARIANT EarlyTypingComesBack
CHECK_DEADLOCK FALSE
