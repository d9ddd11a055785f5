CONSTANTS
  w1 = w1
  l1 = l1
  p1 = p1
  p2 = p2
  Workers = {}
  ManualWorkers = {}
  RunsDaemon = FALSE
  Lights = {}
  Planners = {p1, p2}
  ManualPlanners = {}
  MaxTasks = 2
  Kinds = {"llm"}
  ZombieAge = 2
  CallTimeout = 1
  SweepLimit = 1
  MaxFaults = 0
  DbMayFail = FALSE
  RouteBatch = 0
  PolicyChoices = {"open"}
  ProviderChoices = {"codex"}
SPECIFICATION Spec
INVARIANTS NoStacking
