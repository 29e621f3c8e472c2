SPECIFICATION FairSpec
CONSTANTS
  a = a
  b = b
  Host = Host
  Client = {a, b}
  Uid <- MCUid
  Shadows <- MCShadows
  MaxLocal = 2
  MaxReload = 2
  MaxDeaths = 1
  Ordered = TRUE
INVARIANTS
  IInv
  NothingMisapplies
  StableIsServerHistory
  EchoIsRecognised
  TypedSurvives
PROPERTIES
  SharesOneHistory
  Converges
CHECK_DEADLOCK FALSE
