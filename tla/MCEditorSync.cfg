SPECIFICATION FairEditorSpec
CONSTANTS
  a = a
  b = b
  Host = Host
  Client = {a}
  Uid <- MCUid
  Shadows <- MCShadows
  MaxLocal = 3
  MaxReload = 2
  MaxDeaths = 1
  MaxEarly = 1
  MaxSaves = 1
  Ordered = TRUE
INVARIANTS
  EditorInv
  TypingSurvives
PROPERTIES
  EditorNeverGoesBack
  EditorsSettle
CHECK_DEADLOCK FALSE
