--------------------------- MODULE MCJobPipeline ---------------------------
(* Instances of JobPipeline, one per MCJobs*.cfg and violation run.        *)
EXTENDS JobPipeline, TLC

CONSTANTS j1, j2, w1, w2

NoStage   == <<>>
OneStage  == <<"scoring">>
TwoStages == <<"deployments", "scoring">>
Symmetry  == Permutations(Job) \cup Permutations(Worker)
=============================================================================
