SPECIFICATION TermSpec
CONSTANTS
  t1 = t1
  t2 = t2
  Terminal = {t1}
  MaxChunks = 1
  MaxSizes = 2
  MaxDeaths = 2
INVARIANT
  OpenKeepsItsSeat
CHECK_DEADLOCK FALSE
