CONSTANTS
  w1 = w1
  l1 = l1
  p1 = p1
  p2 = p2
  Workers = {w1}
  ManualWorkers = {}
  RunsDaemon = TRUE
  Lights = {}
  Planners = {p1}
  ManualPlanners = {}
  MaxTasks = 1
  Kinds = {"llm"}
  ZombieAge = 2
  CallTimeout = 1
  SweepLimit = 1
  MaxFaults = 0
  DbMayFail = FALSE
  RouteBatch = 0
  PolicyChoices = {"open"}
  ProviderChoices = {"copilot-daemon"}
SPECIFICATION Spec
INVARIANTS ZombieMeansDead
