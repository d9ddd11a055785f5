\* The self-training loop: one planner, two strategy ticks that overlap, one
\* signal that may give two insights, one evaluation to review, one fault.
CONSTANTS
  Signals = {s1}
  Rounds = 2
  MaxTasks = 3
  MaxEvals = 1
  Planners = {p1}
  Strategists = {k1, k2}
  Window = 3
  MaxFaults = 1
SPECIFICATION LiveSpec
INVARIANTS TypeOK OneActivePerSignal SettledOnEvidence LearnedOnce
PROPERTIES FollowsLedger SettledStays HeldByReview PatchIsJudged SettledIsLearned
