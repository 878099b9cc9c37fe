---------------------------- MODULE AnalysisPage ----------------------------
(***************************************************************************)
(* The page on which a wallet is analysed: page.tsx with the hooks         *)
(* useAppReady and useAnalysisJob, in front of a job store that keeps the  *)
(* promise of JobLedger.                                                   *)
(*                                                                         *)
(* Run n is the n-th call of runAnalysis, and job n the one it enqueues.   *)
(* An await is a step of its own; a run's return, its finally block and    *)
(* the page's continuation follow each other without one.  A reload starts *)
(* the page from the beginning, but not the jobs.                          *)
(***************************************************************************)
EXTENDS Integers, Sequences, FiniteSets, SequencesExt

CONSTANTS
    MaxRuns,    \* bound: analyses the user starts
    MaxPolls,   \* bound: polls until POLL_TIMEOUT_MS has passed
    MaxReloads  \* bound: reloads of the page

ASSUME AnalysisPageAssumption ==
    MaxRuns \in Nat /\ MaxPolls \in Nat \ {0} /\ MaxReloads \in Nat

VARIABLES
    wagmi,       \* status of useAccount
    mounted, minElapsed, timedOut,  \* useAppReady
    page,        \* state: status, and the run whose data it shows
    includeENS,  \* the checkbox
    run,         \* what has become of each run
    abortRef, timerRef,  \* the run that each ref belongs to
    aborted,     \* the runs whose signal is aborted
    stage,       \* useAnalysisJob's stage
    ledger, verdict,     \* the job store
    started, reloads     \* history: calls of runAnalysis, reloads

readyVars == <<wagmi, mounted, minElapsed, timedOut>>
hookVars == <<run, abortRef, timerRef, aborted, stage>>
jobVars == <<ledger, verdict>>
vars == <<readyVars, page, includeENS, hookVars, jobVars, started, reloads>>

Run == 1 .. MaxRuns
NoRun == 0

AnalysisState == [status : {"idle", "loading", "success", "error", "partial"},
                  data : Run \union {NoRun}]

\* The stages a job goes through after "queued", in the order of AnalysisProgress.
Steps == <<"deployments", "verification", "ens", "scoring", "complete">>
Stage == Range(Steps) \union {"queued", "none", "unavailable"}

\* What a job that has no outcome may say of itself: queued, also when it is not known
\* (any more), or the step the worker reported last, "ens" in an analysis without ENS too.
JobStage == (Range(Steps) \ {"complete"}) \union {"queued"}

\* A call of runAnalysis that is not yet made, and one whose local variables are gone.
Unused == [phase |-> "unused", left |-> 0]
Ended == [phase |-> "ended", left |-> 0]
Live(r) == run[r].phase \in {"enqueueing", "polling"}

Jobs == INSTANCE JobLedger WITH Job <- Run, Volatile <- TRUE

------------------------------------------------------------------------------
(* useAppReady                                                             *)

\* Mutant: without the hard timeout.
WagmiSettledUntimed == wagmi \in {"connected", "disconnected"}

WagmiSettled == wagmi \in {"connected", "disconnected"} \/ timedOut

Ready == mounted /\ minElapsed /\ WagmiSettled

Mount ==
    /\ ~mounted
    /\ mounted' = TRUE
    /\ UNCHANGED <<wagmi, minElapsed, timedOut, page, includeENS, hookVars, jobVars,
                   started, reloads>>

MinElapsed ==
    /\ mounted /\ ~minElapsed
    /\ minElapsed' = TRUE
    /\ UNCHANGED <<wagmi, mounted, timedOut, page, includeENS, hookVars, jobVars,
                   started, reloads>>

TimeOut ==
    /\ minElapsed /\ ~timedOut
    /\ timedOut' = TRUE
    /\ UNCHANGED <<wagmi, mounted, minElapsed, page, includeENS, hookVars, jobVars,
                   started, reloads>>

\* wagmi hydrates, connects, loses and regains the wallet as it likes.
Wallet ==
    /\ wagmi' \in {"connecting", "connected", "disconnected"} \ {wagmi}
    /\ UNCHANGED <<mounted, minElapsed, timedOut, page, includeENS, hookVars, jobVars,
                   started, reloads>>

------------------------------------------------------------------------------
(* runAnalysis                                                             *)

\* One of the buttons is there and enabled: the page is beyond its loading screen,
\* a wallet is connected and no run is under way.
CanAnalyze == Ready /\ wagmi = "connected" /\ page.status # "loading"

\* Mutant: the button stays enabled while a run is under way.
AnalyzeWalletAgain ==
    /\ Ready /\ wagmi = "connected"
    /\ started < MaxRuns
    /\ started' = started + 1
    /\ page' = [status |-> "loading", data |-> NoRun]
    /\ aborted' = aborted \union ({abortRef} \ {NoRun})
    /\ abortRef' = started + 1
    /\ timerRef' = started + 1
    /\ stage' = "queued"
    /\ run' = [run EXCEPT ![started + 1] = [phase |-> "enqueueing", left |-> MaxPolls]]
    /\ UNCHANGED <<readyVars, includeENS, jobVars, reloads>>

\* Mutant: the stage of the last run stays until a poll brings one of this run.
AnalyzeWalletKeepingStage ==
    /\ CanAnalyze
    /\ started < MaxRuns
    /\ started' = started + 1
    /\ page' = [status |-> "loading", data |-> NoRun]
    /\ aborted' = aborted \union ({abortRef} \ {NoRun})
    /\ abortRef' = started + 1
    /\ timerRef' = started + 1
    /\ run' = [run EXCEPT ![started + 1] = [phase |-> "enqueueing", left |-> MaxPolls]]
    /\ UNCHANGED <<readyVars, includeENS, stage, jobVars, reloads>>

\* The click on "Analyze My Wallet" or "Try Again", up to the first await:
\* analyzeWallet, cancel() and the start of runAnalysis.
AnalyzeWallet ==
    /\ CanAnalyze
    /\ started < MaxRuns
    /\ started' = started + 1
    /\ page' = [status |-> "loading", data |-> NoRun]
    /\ aborted' = aborted \union ({abortRef} \ {NoRun})
    /\ abortRef' = started + 1
    /\ timerRef' = started + 1
    /\ stage' = "queued"
    /\ run' = [run EXCEPT ![started + 1] = [phase |-> "enqueueing", left |-> MaxPolls]]
    /\ UNCHANGED <<readyVars, includeENS, jobVars, reloads>>

\* return, finally and the rest of analyzeWallet: a cancelled run is an error, the
\* timer is cleared whoever holds it, and the page takes over the result.
Return(r, status) ==
    /\ run' = [run EXCEPT ![r] = Ended]
    /\ page' = IF status = "error" \/ r \in aborted
               THEN [status |-> "error", data |-> NoRun]
               ELSE [status |-> status, data |-> r]
    /\ timerRef' = NoRun

\* The answer to POST /api/analyze; when it is an error, the job may exist nevertheless.
Enqueued(r) ==
    /\ run[r].phase = "enqueueing"
    /\ \/ /\ run' = [run EXCEPT ![r].phase = "polling"]
          /\ UNCHANGED <<page, timerRef>>
       \/ Return(r, "error")
    /\ UNCHANGED <<readyVars, includeENS, abortRef, aborted, stage, jobVars, started, reloads>>

\* getAnalysisJob and its route: the worker API's answer, FAILURE also for a job that
\* it cannot look up, or an HTTP error, whose body has no status.
Answers(r) ==
    {"error"} \union (IF ledger[r] = "ABSENT" THEN {"PENDING", "FAILURE"} ELSE {ledger[r]})

\* PENDING, which always brings a stage, or an error, which brings none: the loop goes on.
PollPending(r) ==
    /\ run[r].phase = "polling"
    /\ run[r].left > 0
    /\ \/ UNCHANGED stage
       \/ "PENDING" \in Answers(r) /\ stage' \in JobStage
    /\ run' = [run EXCEPT ![r].left = @ - 1]
    /\ UNCHANGED <<readyVars, page, includeENS, abortRef, timerRef, aborted, jobVars,
                   started, reloads>>

\* Mutant: any answer but FAILURE is the result.
PollSuccessEarly(r) ==
    /\ run[r].phase = "polling"
    /\ run[r].left > 0
    /\ "FAILURE" \notin Answers(r)
    /\ stage' = "complete"
    /\ \E status \in {"success", "partial"} : Return(r, status)
    /\ UNCHANGED <<readyVars, includeENS, abortRef, aborted, jobVars, started, reloads>>

PollSuccess(r) ==
    /\ run[r].phase = "polling"
    /\ run[r].left > 0
    /\ "SUCCESS" \in Answers(r)
    /\ stage' = "complete"
    /\ \E status \in {"success", "partial"} : Return(r, status)
    /\ UNCHANGED <<readyVars, includeENS, abortRef, aborted, jobVars, started, reloads>>

\* The stage is the one the job failed in, if it had one.
PollFailure(r) ==
    /\ run[r].phase = "polling"
    /\ run[r].left > 0
    /\ "FAILURE" \in Answers(r)
    /\ stage' \in IF ledger[r] = "FAILURE" THEN JobStage \union {stage} ELSE {"unavailable"}
    /\ Return(r, "error")
    /\ UNCHANGED <<readyVars, includeENS, abortRef, aborted, jobVars, started, reloads>>

\* The browser's own fetch does not get through.
FetchFails(r) ==
    /\ run[r].phase = "polling"
    /\ run[r].left > 0
    /\ Return(r, "error")
    /\ UNCHANGED <<readyVars, includeENS, abortRef, aborted, stage, jobVars, started, reloads>>

\* Mutant: the deadline is passed over.
DeadlineMissed(r) ==
    /\ run[r].phase = "polling"
    /\ run[r].left < 0
    /\ Return(r, "error")
    /\ UNCHANGED <<readyVars, includeENS, abortRef, aborted, stage, jobVars, started, reloads>>

\* "Analysis timed out": the loop's condition fails.
Deadline(r) ==
    /\ run[r].phase = "polling"
    /\ run[r].left = 0
    /\ Return(r, "error")
    /\ UNCHANGED <<readyVars, includeENS, abortRef, aborted, stage, jobVars, started, reloads>>

------------------------------------------------------------------------------
ToggleENS ==
    /\ includeENS' = ~includeENS
    /\ UNCHANGED <<readyVars, page, hookVars, jobVars, started, reloads>>

\* AnalysisProgress.tsx, which is shown while the page is loading.  It counts the
\* steps from 0 and has a checkmark for those before the current one, a dot for that
\* one.  Every percentage is a whole number, and the label of a step is its name.
StageIndex(s) ==
    IF s \in Range(Steps) THEN (CHOOSE i \in DOMAIN Steps : Steps[i] = s) - 1 ELSE -1

VisibleSteps == {s \in Range(Steps) : includeENS \/ s # "ens"}

ProgressPct ==
    LET pct == (100 * (StageIndex(stage) + 1)) \div Cardinality(VisibleSteps)
    IN  IF StageIndex(stage) < 0 THEN 5 ELSE IF pct > 100 THEN 100 ELSE pct

CurrentStep ==
    IF stage = "none" THEN "Preparing analysis..."
    ELSE IF stage \in VisibleSteps THEN stage ELSE "blank"

Done == {s \in VisibleSteps : StageIndex(s) < StageIndex(stage)}
Active == {s \in VisibleSteps : StageIndex(s) = StageIndex(stage)}

\* What the worker does with jobs it was sent; an API restart may forget them.
Backend ==
    /\ \/ \E r \in Run : /\ run[r].phase # "unused"
                         /\ \/ Jobs!Note(r)
                            \/ /\ UNCHANGED verdict \/ \E o \in Jobs!Outcome : Jobs!Decide(r, o)
                               /\ Jobs!Publish(r)
       \/ Jobs!Forget
    /\ UNCHANGED <<readyVars, page, includeENS, hookVars, started, reloads>>

NoPage == [status |-> "idle", data |-> NoRun]

Init ==
    /\ wagmi = "connecting"
    /\ mounted = FALSE /\ minElapsed = FALSE /\ timedOut = FALSE
    /\ page = NoPage
    /\ includeENS = FALSE
    /\ run = [r \in Run |-> Unused]
    /\ abortRef = NoRun /\ timerRef = NoRun /\ aborted = {}
    /\ stage = "none"
    /\ Jobs!Init
    /\ started = 0 /\ reloads = 0

\* The page starts anew; its runs are gone.
Reload ==
    /\ reloads < MaxReloads
    /\ reloads' = reloads + 1
    /\ wagmi' = "connecting"
    /\ mounted' = FALSE /\ minElapsed' = FALSE /\ timedOut' = FALSE
    /\ page' = NoPage
    /\ includeENS' = FALSE
    /\ run' = [r \in Run |-> IF Live(r) THEN Ended ELSE run[r]]
    /\ abortRef' = NoRun /\ timerRef' = NoRun /\ aborted' = {}
    /\ stage' = "none"
    /\ UNCHANGED <<jobVars, started>>

RunStep(r) ==
    \/ Enqueued(r) \/ PollPending(r) \/ PollSuccess(r) \/ PollFailure(r)
    \/ FetchFails(r) \/ Deadline(r)

Next ==
    \/ Mount \/ MinElapsed \/ TimeOut \/ Wallet
    \/ AnalyzeWallet \/ ToggleENS \/ Reload \/ Backend
    \/ \E r \in Run : RunStep(r)

\* The timers fire, and every fetch ends: the route handlers give up on the worker
\* after 5 or 10 seconds.
FairSpec ==
    /\ Init /\ [][Next]_vars
    /\ WF_vars(Mount) /\ WF_vars(MinElapsed) /\ WF_vars(TimeOut)
    /\ \A r \in Run : WF_vars(RunStep(r))

------------------------------------------------------------------------------
\* Every variable has its type, and no run polls more often than its time allows.
TypeOK ==
    /\ wagmi \in {"connecting", "connected", "disconnected"}
    /\ {mounted, minElapsed, timedOut, includeENS} \subseteq BOOLEAN
    /\ page \in AnalysisState
    /\ {abortRef, timerRef} \union aborted \subseteq Run \union {NoRun}
    /\ run \in [Run -> [phase : {"unused", "enqueueing", "polling", "ended"},
                        left : 0 .. MaxPolls]]
    /\ stage \in Stage
    /\ started \in 0 .. MaxRuns /\ reloads \in 0 .. MaxReloads

Requests == INSTANCE AnalysisRequests WITH
    MaxRequests <- MaxRuns, asked <- started, shown <- page, truth <- verdict

\* page.tsx and useAnalysisJob.ts implement AnalysisRequests: each analysis asked for is
\* answered at most once and truthfully, and no late poll, cancelled run or forgotten job
\* changes what is shown for it.
AnswersRequests == Requests!Spec

\* What the page shows is the answer to the last question: the data of a job that
\* succeeded, and no older run's, however late that one returns.
ShownIsLastAnswer ==
    page.status \in {"success", "partial"} =>
        page.data = started /\ verdict[page.data] = "SUCCESS"

\* useAnalysisJob.ts clears "the" timer in its finally block. It is that of the run
\* which ends, because two runs are never under way; so the clock of a loading page
\* ticks, and that of any other does not.
TimerOfTheRun ==
    /\ \A r \in Run : Live(r) => timerRef = r /\ page.status = "loading"
    /\ timerRef # NoRun => Live(timerRef)

\* AnalysisProgress.tsx: when a loading page says "100% Complete", all that is left is
\* the scoring, and it does so because of the checkbox, which hides a step that counts.
\* The step named is the one pointed out in the list; none is when the job has not
\* reported one, and while it is at the ENS profile without the checkbox, which the
\* worker reports of an analysis without ENS too.  "Preparing analysis..." is never shown.
ProgressWhileLoading ==
    page.status = "loading" =>
        /\ ProgressPct = 100 <=> stage = "scoring" /\ ~includeENS
        /\ ProgressPct = 100 => VisibleSteps \ Done = {"scoring", "complete"}
        /\ Active # {} <=> CurrentStep = stage
        /\ CurrentStep = "blank" <=> stage = "queued" \/ (stage = "ens" /\ ~includeENS)
        /\ CurrentStep # "Preparing analysis..."

\* useAppReady.ts: the hard timeout keeps the app from being stuck on the loading
\* screen, whatever wagmi does; nor does it get back there in the end.
AppBecomesReady == <>[]Ready

\* Every analysis comes to an end on the page, also when the worker never answers,
\* forgets the job or is not there.
LoadingEnds == (page.status = "loading") ~> (page.status # "loading")
==============================================================================
