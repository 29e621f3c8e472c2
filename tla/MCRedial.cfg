SPECIFICATION FairRedialSpec
CONSTANTS
  ui = ui
  executor = executor
  poll = poll
  worker = worker
  Asker = {ui, executor}
  Poller = {poll, worker}
  OnRuntime = {worker}
  MaxAsks = 2
  MaxLinks = 2
  MaxOutages = 2
INVARIANTS
  RedialInv
PROPERTIES
  AsksEnd
  PollsComeBack
CHECK_DEADLOCK FALSE
