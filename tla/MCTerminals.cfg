SPECIFICATION FairTermSpec
CONSTANTS
  t1 = t1
  t2 = t2
  Terminal = {t1}
  MaxChunks = 1
  MaxSizes = 2
  MaxDeaths = 2
INVARIANTS
  TermInv
  GridIsWhatWasSaid
  EveryPtyIsOwned
PROPERTIES
  TerminalsComeRight
CHECK_DEADLOCK FALSE
