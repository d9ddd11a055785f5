CONSTANTS
  w1 = w1
  l1 = l1
  p1 = p1
  p2 = p2
  Workers = {w1}
  ManualWorkers = {}
  RunsDaemon = FALSE
  Lights = {}
  Planners = {p1}
  ManualPlanners = {p1}
  MaxTasks = 3
  Kinds = {"llm"}
  ZombieAge = 2
  CallTimeout = 1
  SweepLimit = 2
  MaxFaults = 2
  DbMayFail = TRUE
  RouteBatch = 0
  PolicyChoices = {"open", "paused", "hard_off"}
  ProviderChoices = {"codex", "copilot-daemon"}
SPECIFICATION Spec
INVARIANTS
  NoStacking
PROPERTIES
  OutcomeStands
