SPECIFICATION Spec
CONSTANTS
  j1 = j1
  j2 = j2
  w1 = w1
  w2 = w2
  Api = api
  NoJob = none
  Job = {j1, j2}
  Worker = {w1, w2}
  Stages <- OneStage
  Polled = {}
  DbAnswers = {TRUE}
  MaxCrashes = 1
  MaxRestarts = 1
  MaxLost = 0
INVARIANTS RunAtMostOnce
PROPERTIES DecidedOnce
SYMMETRY Symmetry
CHECK_DEADLOCK FALSE
