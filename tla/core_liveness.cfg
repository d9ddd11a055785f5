CONSTANTS
  w1 = w1
  l1 = l1
  p1 = p1
  p2 = p2
  Workers = {w1}
  ManualWorkers = {}
  RunsDaemon = TRUE
  Lights = {}
  Planners = {p1}
  ManualPlanners = {}
  MaxTasks = 2
  Kinds = {"llm"}
  ZombieAge = 2
  CallTimeout = 1
  SweepLimit = 2
  MaxFaults = 1
  DbMayFail = FALSE
  RouteBatch = 0
  PolicyChoices = {"open", "paused"}
  ProviderChoices = {"codex", "copilot-daemon"}
SPECIFICATION FairSpec
INVARIANTS
  LockMeansBusy
PROPERTIES
  OrphanReaped
  QueuedTaken
  LockReleased
