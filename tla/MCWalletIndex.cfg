\* An analysis, the watching indexer and a reverification share the index of a
\* wallet with two contracts, or two analyses do; one call may fail or one worker
\* go down.
SPECIFICATION FairSpec
CONSTANTS
    Analysis = {a1, a2}
    Indexer = {"watch", "reverify"}
    MaxContracts = 2
    Publishable = {1}
    MaxFaults = 1
    Watched = TRUE
    Alone = {a2}
INVARIANTS
    CountBacked
    AnswerNotTorn
    NoOverclaim
    ResultsAreAnswers
PROPERTIES
    IndexConverges
    EnrichmentSettles
CHECK_DEADLOCK FALSE
