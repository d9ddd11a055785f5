CONSTANTS
  w1 = w1
  l1 = l1
  p1 = p1
  p2 = p2
  Workers = {w1}
  ManualWorkers = {}
  RunsDaemon = TRUE
  Lights = {l1}
  Planners = {p1}
  ManualPlanners = {}
  MaxTasks = 2
  Kinds = {"llm", "light"}
  ZombieAge = 2
  CallTimeout = 1
  SweepLimit = 1
  MaxFaults = 2
  DbMayFail = TRUE
  RouteBatch = 1
  PolicyChoices = {"open"}
  ProviderChoices = {"copilot-daemon"}
SPECIFICATION Spec
INVARIANTS
  TypeOK
  QueuedUntouched
  RunningIsOwned
  ZombiesFellBack
PROPERTIES
  RefinesLifecycle
