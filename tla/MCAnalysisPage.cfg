\* Two analyses and two reloads; a run gives up after two polls without an outcome.
SPECIFICATION FairSpec
CONSTANTS
    MaxRuns = 2
    MaxPolls = 2
    MaxReloads = 2
INVARIANTS
    TimerOfTheRun
    ProgressWhileLoading
PROPERTIES
    AnswersRequests
    AppBecomesReady
    LoadingEnds
CHECK_DEADLOCK FALSE
