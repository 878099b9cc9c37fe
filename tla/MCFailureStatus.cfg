SPECIFICATION Spec
CONSTANTS
  j1 = j1
  j2 = j2
  w1 = w1
  w2 = w2
  Api = api
  NoJob = none
  Job = {j1}
  Worker = {w1}
  Stages <- NoStage
  Polled = {j1}
  DbAnswers = {FALSE}
  MaxCrashes = 0
  MaxRestarts = 0
  MaxLost = 0
INVARIANTS FailureMeansRaised
CHECK_DEADLOCK FALSE
