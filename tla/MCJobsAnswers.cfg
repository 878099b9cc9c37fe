SPECIFICATION FairSpec
CONSTANTS
  j1 = j1
  j2 = j2
  w1 = w1
  w2 = w2
  Api = api
  NoJob = none
  Job = {j1}
  Worker = {w1}
  Stages <- TwoStages
  Polled = {j1}
  DbAnswers = {TRUE, FALSE}
  MaxCrashes = 1
  MaxRestarts = 1
  MaxLost = 1
INVARIANTS OutcomesTruthful AnswersTruthful
PROPERTIES MongoIsLedger ApiIsLedger PollingCompletes
CHECK_DEADLOCK FALSE
