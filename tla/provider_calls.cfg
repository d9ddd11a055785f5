\* External calls: a worker run by hand and a daemon, with a cap of two lines.
CONSTANTS
  Workers = {w1}
  Daemons = {d1}
  Manual = {w1}
  Cap = 2
SPECIFICATION LiveSpec
INVARIANTS TypeOK CallsAreAudited AttemptsAnswered OneCallAfterForbidden TwoCallsPastCap
PROPERTIES GuardEnds HardOffQuiesces
