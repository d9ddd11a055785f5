\* Two predictions and a gate at three: two runs of one monitor suffice.
CONSTANTS
  Predictions = {r1, r2}
  Monitors = {m1}
  Approaching = 2
  Sufficient = 3
  MaxRuns = 4
SPECIFICATION Spec
INVARIANT SmallSampleInsufficient
CHECK_DEADLOCK FALSE
