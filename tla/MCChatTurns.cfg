SPECIFICATION FairTurnsSpec
CONSTANTS
  c1 = c1
  c2 = c2
  Conn = {c1, c2}
  Providers = {"claude", "codex"}
  MaxStarts = 2
  MaxAgents = 2
  MaxEvents = 1
INVARIANTS
  QueueIsKept
  AnswersLandOnTheirTurn
  WorksOnTheActiveTurn
  ProcessesServeTheChat
PROPERTIES
  TurnsEnd
CHECK_DEADLOCK FALSE
