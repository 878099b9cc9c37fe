-------------------------- MODULE AnalysisPageProofs --------------------------
(***************************************************************************)
(* Theorems about AnalysisPage, for any number of runs, polls and reloads. *)
(***************************************************************************)
EXTENDS AnalysisPage, FiniteSetTheorems, TLAPS

-----------------------------------------------------------------------------
(* The inductive invariant                                                 *)

\* The job store keeps its promise: a final status is the outcome of the job.
StoreTruthful ==
  /\ ledger \in [Run -> {"ABSENT", "PENDING", "SUCCESS", "FAILURE"}]
  /\ verdict \in [Run -> {"none", "SUCCESS", "FAILURE"}]
  /\ \A r \in Run : ledger[r] \in {"SUCCESS", "FAILURE"} => ledger[r] = verdict[r]

\* Only the run that was started last can be under way.
LastRunOnly ==
  \A r \in Run : /\ Live(r) => r = started
                 /\ r > started => run[r].phase = "unused"

\* The data shown are those of a run.
ShownIsOfRun == page.status \in {"success", "partial"} => page.data \in Run

IInv == /\ TypeOK /\ StoreTruthful /\ LastRunOnly /\ ShownIsOfRun
        /\ TimerOfTheRun /\ ShownIsLastAnswer

-----------------------------------------------------------------------------
LEMMA Numbers ==
  /\ MaxRuns \in Nat /\ MaxPolls \in Nat \ {0} /\ MaxReloads \in Nat
  /\ NoRun \notin Run
  BY AnalysisPageAssumption DEF AnalysisPageAssumption, NoRun, Run

LEMMA EndedTyped ==
  Ended \in [phase : {"unused", "enqueueing", "polling", "ended"},
             left : 0 .. MaxPolls]
BY Numbers DEF Ended

LEMMA StagesTyped ==
  /\ Range(Steps) \cup {"none", "queued", "unavailable"} \subseteq Stage
  /\ JobStage \subseteq Stage /\ "complete" \in Stage
  BY DEF Stage, JobStage, Steps, Range

\* The invariant holds of a page that is being opened.
LEMMA Initially == Init => IInv
<1> SUFFICES ASSUME Init PROVE IInv
  OBVIOUS
<1>1. TypeOK
  <2>1. {mounted, minElapsed, timedOut, includeENS} \subseteq BOOLEAN
    BY DEF Init
  <2>2. run \in [Run -> [phase : {"unused", "enqueueing", "polling", "ended"},
                         left : 0 .. MaxPolls]]
    BY Numbers DEF Init, Unused
  <2>3. started \in 0 .. MaxRuns /\ reloads \in 0 .. MaxReloads
    BY Numbers DEF Init
  <2>4. page \in AnalysisState
    BY DEF Init, NoPage, AnalysisState
  <2>5. QED
    BY <2>1, <2>2, <2>3, <2>4, StagesTyped DEF Init, TypeOK
<1>2. StoreTruthful
  BY DEF Init, StoreTruthful, Jobs!Init
<1>3. LastRunOnly /\ ShownIsOfRun /\ TimerOfTheRun /\ ShownIsLastAnswer
  BY DEF Init, LastRunOnly, ShownIsOfRun, TimerOfTheRun, ShownIsLastAnswer, Live, Unused, NoPage, NoRun
<1>4. QED
  BY <1>1, <1>2, <1>3 DEF IInv

\* A run goes on, one poll nearer to its deadline or not.
LEMMA GoesOn ==
  ASSUME IInv, NEW r \in Run, Live(r), NEW n \in 0 .. MaxPolls,
         \/ run' = [run EXCEPT ![r].phase = "polling"]
         \/ run[r].phase = "polling" /\ run' = [run EXCEPT ![r].left = n],
         stage' \in Stage,
         UNCHANGED <<readyVars, page, includeENS, abortRef, timerRef, aborted, jobVars,
                     started, reloads>>
  PROVE  IInv'
<1>1. run \in [Run -> [phase : {"unused", "enqueueing", "polling", "ended"},
                       left : 0 .. MaxPolls]]
  BY DEF IInv, TypeOK
<1>2. run' \in [Run -> [phase : {"unused", "enqueueing", "polling", "ended"},
                        left : 0 .. MaxPolls]]
  BY <1>1
<1>3. \A q \in Run : /\ q # r => run'[q] = run[q]
                     /\ run'[r].phase \in {"enqueueing", "polling"}
  BY <1>1 DEF Live
<1>5. TypeOK'
  BY <1>2 DEF IInv, TypeOK, readyVars
<1>6. StoreTruthful'
  BY DEF IInv, StoreTruthful, jobVars
<1>7. LastRunOnly'
  <2>1. r = started /\ started \in Nat
    BY Numbers DEF IInv, LastRunOnly, TypeOK
  <2>2. QED
    BY <1>3, <2>1 DEF IInv, LastRunOnly, Live, Run
<1>8. TimerOfTheRun'
  BY <1>3 DEF IInv, TimerOfTheRun, Live, TypeOK
<1>9. ShownIsLastAnswer' /\ ShownIsOfRun'
  BY DEF IInv, ShownIsLastAnswer, ShownIsOfRun, jobVars
<1>10. QED
  BY <1>5, <1>6, <1>7, <1>8, <1>9 DEF IInv

\* A run returns: with the data of its own job, or with an error.
LEMMA Ends ==
  ASSUME IInv, NEW r \in Run, Live(r), NEW status \in {"success", "partial", "error"},
         Return(r, status), status # "error" => ledger[r] = "SUCCESS", stage' \in Stage,
         UNCHANGED <<readyVars, includeENS, abortRef, aborted, jobVars, started, reloads>>
  PROVE  IInv'
<1>1. run \in [Run -> [phase : {"unused", "enqueueing", "polling", "ended"},
                       left : 0 .. MaxPolls]]
  BY DEF IInv, TypeOK
<1>2. /\ run' \in [Run -> [phase : {"unused", "enqueueing", "polling", "ended"},
                           left : 0 .. MaxPolls]]
      /\ run'[r].phase = "ended"
      /\ \A q \in Run : q # r => run'[q] = run[q]
  <2>1. run' = [run EXCEPT ![r] = Ended] /\ Ended.phase = "ended"
    BY DEF Return, Ended
  <2>2. QED
    BY <1>1, <2>1, EndedTyped
<1>3. r = started
  BY DEF IInv, LastRunOnly
<1>4. \A q \in Run : ~(run'[q].phase \in {"enqueueing", "polling"})
  BY <1>2, <1>3 DEF IInv, LastRunOnly, Live
<1>5. /\ timerRef' = NoRun
      /\ \/ page' = [status |-> "error", data |-> NoRun]
         \/ page' = [status |-> status, data |-> r] /\ status # "error"
  BY DEF Return
<1>6. TypeOK'
  <2>1. {abortRef, timerRef} \cup aborted \subseteq Run \cup {NoRun}
    BY DEF IInv, TypeOK
  <2>2. {abortRef', timerRef'} \cup aborted' \subseteq Run \cup {NoRun}
    BY <1>5, <2>1
  <2>3. page' \in AnalysisState
    BY <1>5 DEF AnalysisState
  <2>4. QED
    BY <1>2, <2>2, <2>3 DEF IInv, TypeOK, readyVars
<1>7. StoreTruthful'
  BY DEF IInv, StoreTruthful, jobVars
<1>8. LastRunOnly'
  <2>1. \A q \in Run : q > started => run'[q].phase = "unused"
    BY <1>2, <1>3, Numbers DEF IInv, LastRunOnly, TypeOK, Run
  <2>2. QED
    BY <1>4, <2>1 DEF LastRunOnly, Live
<1>9. TimerOfTheRun'
  BY <1>4, <1>5 DEF TimerOfTheRun, Live
<1>10. ShownIsLastAnswer' /\ ShownIsOfRun'
  <2>1. status # "error" => verdict[r] = "SUCCESS"
    BY DEF IInv, StoreTruthful
  <2>2. QED
    BY <1>3, <1>5, <2>1 DEF ShownIsLastAnswer, ShownIsOfRun, jobVars
<1>11. QED
  BY <1>6, <1>7, <1>8, <1>9, <1>10 DEF IInv

\* A click starts a run, and none was under way.
LEMMA Starts ==
  ASSUME IInv, AnalyzeWallet
  PROVE  IInv'
<1>1. run \in [Run -> [phase : {"unused", "enqueueing", "polling", "ended"},
                       left : 0 .. MaxPolls]]
  BY DEF IInv, TypeOK
<1>2. PICK r \in Run : r = started + 1
  BY Numbers DEF AnalyzeWallet, IInv, TypeOK, Run
<1>3. MaxPolls \in 0 .. MaxPolls
  BY Numbers
<1>4. /\ run' \in [Run -> [phase : {"unused", "enqueueing", "polling", "ended"},
                           left : 0 .. MaxPolls]]
      /\ run'[r].phase = "enqueueing"
      /\ \A q \in Run : q # r => run'[q] = run[q]
  <2>1. [phase |-> "enqueueing", left |-> MaxPolls]
          \in [phase : {"unused", "enqueueing", "polling", "ended"},
               left : 0 .. MaxPolls]
    BY <1>3
  <2>2. run' = [run EXCEPT ![r] =
                 [phase |-> "enqueueing", left |-> MaxPolls]]
    BY <1>2 DEF AnalyzeWallet
  <2>3. QED
    BY <1>1, <2>1, <2>2
<1>5. \A q \in Run : ~(run[q].phase \in {"enqueueing", "polling"})
  BY DEF AnalyzeWallet, CanAnalyze, IInv, TimerOfTheRun, Live
<1>6. /\ started' = r /\ timerRef' = r /\ abortRef' = r /\ stage' = "queued"
      /\ page' = [status |-> "loading", data |-> NoRun]
      /\ aborted' = aborted \cup ({abortRef} \ {NoRun})
      /\ UNCHANGED <<readyVars, includeENS, jobVars, reloads>>
  BY <1>2 DEF AnalyzeWallet
<1>7. TypeOK'
  <2>1. {abortRef, timerRef} \cup aborted \subseteq Run \cup {NoRun}
    BY DEF IInv, TypeOK
  <2>2. {abortRef', timerRef'} \cup aborted' \subseteq Run \cup {NoRun}
    BY <1>6, <2>1
  <2>3. started' \in 0 .. MaxRuns
    BY <1>6, Numbers DEF Run
  <2>4. page' \in AnalysisState /\ stage' \in Stage
    BY <1>6, StagesTyped DEF AnalysisState
  <2>5. QED
    BY <1>4, <1>6, <2>2, <2>3, <2>4 DEF IInv, TypeOK, readyVars
<1>8. StoreTruthful'
  BY <1>6 DEF IInv, StoreTruthful, jobVars
<1>9. LastRunOnly'
  <2>1. \A q \in Run : q > r => q # r /\ q > started
    BY <1>2, Numbers DEF Run, IInv, TypeOK
  <2>2. \A q \in Run : q > started => run[q].phase = "unused"
    BY DEF IInv, LastRunOnly
  <2>3. \A q \in Run : q > r => run'[q].phase = "unused"
    BY <1>4, <2>1, <2>2
  <2>4. \A q \in Run : q # r => ~(run'[q].phase \in {"enqueueing", "polling"})
    BY <1>4, <1>5
  <2>5. QED
    BY <1>6, <2>3, <2>4 DEF LastRunOnly, Live
<1>10. TimerOfTheRun'
  BY <1>4, <1>5, <1>6 DEF TimerOfTheRun, Live
<1>11. ShownIsLastAnswer' /\ ShownIsOfRun'
  BY <1>6 DEF ShownIsLastAnswer, ShownIsOfRun
<1>12. QED
  BY <1>7, <1>8, <1>9, <1>10, <1>11 DEF IInv

\* The worker's side enters in the store what a JobLedger lets it enter.
LEMMA Works ==
  ASSUME IInv, Backend
  PROVE  IInv'
<1>1. /\ ledger \in [Run -> {"ABSENT", "PENDING", "SUCCESS", "FAILURE"}]
      /\ verdict \in [Run -> {"none", "SUCCESS", "FAILURE"}]
      /\ \A r \in Run : ledger[r] \in {"SUCCESS", "FAILURE"} => ledger[r] = verdict[r]
  BY DEF IInv, StoreTruthful
<1>2. ASSUME NEW r \in Run, UNCHANGED verdict \/ \E o \in Jobs!Outcome : Jobs!Decide(r, o)
      PROVE  /\ verdict' \in [Run -> {"none", "SUCCESS", "FAILURE"}]
             /\ \A q \in Run : verdict[q] # "none" => verdict'[q] = verdict[q]
  BY <1>1, <1>2 DEF Jobs!Decide, Jobs!Outcome
<1>3. /\ verdict' \in [Run -> {"none", "SUCCESS", "FAILURE"}]
      /\ \A q \in Run : verdict[q] # "none" => verdict'[q] = verdict[q]
  BY <1>1, <1>2 DEF Backend, Jobs!Note, Jobs!Forget
<1>4. /\ ledger' \in [Run -> {"ABSENT", "PENDING", "SUCCESS", "FAILURE"}]
      /\ \A r \in Run : ledger'[r] \in {"SUCCESS", "FAILURE"} => ledger'[r] = verdict'[r]
  <2>1. ASSUME NEW r \in Run, Jobs!Note(r) PROVE <1>4!1 /\ <1>4!2
    BY <1>1, <1>3, <2>1 DEF Jobs!Note
  <2>2. ASSUME NEW r \in Run, Jobs!Publish(r) PROVE <1>4!1 /\ <1>4!2
    BY <1>1, <1>3, <2>2 DEF Jobs!Publish, Jobs!Outcome
  <2>3. ASSUME Jobs!Forget PROVE <1>4!1 /\ <1>4!2
    BY <2>3 DEF Jobs!Forget
  <2>4. QED
    BY <2>1, <2>2, <2>3 DEF Backend
<1>5. StoreTruthful'
  BY <1>3, <1>4 DEF StoreTruthful
<1>6. UNCHANGED <<readyVars, page, includeENS, hookVars, started, reloads>>
  BY DEF Backend
<1>7. TypeOK' /\ LastRunOnly' /\ ShownIsOfRun' /\ TimerOfTheRun'
  BY <1>6 DEF IInv, TypeOK, LastRunOnly, ShownIsOfRun, TimerOfTheRun, Live, readyVars, hookVars
<1>8. ShownIsLastAnswer'
  BY <1>3, <1>6 DEF IInv, ShownIsLastAnswer, ShownIsOfRun
<1>9. QED
  BY <1>5, <1>7, <1>8 DEF IInv

\* Nothing of the runs, the page and the store changes.
LEMMA Elsewhere ==
  ASSUME IInv, Mount \/ MinElapsed \/ TimeOut \/ Wallet \/ ToggleENS
  PROVE  IInv'
<1>1. UNCHANGED <<page, hookVars, jobVars, started, reloads>>
  BY DEF Mount, MinElapsed, TimeOut, Wallet, ToggleENS
<1>2. /\ {mounted', minElapsed', timedOut', includeENS'} \subseteq BOOLEAN
      /\ wagmi' \in {"connecting", "connected", "disconnected"}
  <2>1. /\ mounted \in BOOLEAN /\ minElapsed \in BOOLEAN /\ timedOut \in BOOLEAN
        /\ includeENS \in BOOLEAN /\ wagmi \in {"connecting", "connected", "disconnected"}
    BY DEF IInv, TypeOK
  <2>2. mounted' \in BOOLEAN
    BY <2>1 DEF Mount, MinElapsed, TimeOut, Wallet, ToggleENS, readyVars
  <2>3. minElapsed' \in BOOLEAN
    BY <2>1 DEF Mount, MinElapsed, TimeOut, Wallet, ToggleENS, readyVars
  <2>4. timedOut' \in BOOLEAN
    BY <2>1 DEF Mount, MinElapsed, TimeOut, Wallet, ToggleENS, readyVars
  <2>5. includeENS' \in BOOLEAN
    BY <2>1 DEF Mount, MinElapsed, TimeOut, Wallet, ToggleENS
  <2>6. wagmi' \in {"connecting", "connected", "disconnected"}
    BY <2>1 DEF Mount, MinElapsed, TimeOut, Wallet, ToggleENS, readyVars
  <2>7. QED
    BY <2>2, <2>3, <2>4, <2>5, <2>6
<1>3. TypeOK'
  BY <1>1, <1>2 DEF IInv, TypeOK, hookVars
<1>4. StoreTruthful' /\ ShownIsLastAnswer' /\ ShownIsOfRun'
  BY <1>1 DEF IInv, StoreTruthful, ShownIsLastAnswer, ShownIsOfRun, jobVars
<1>5. LastRunOnly' /\ TimerOfTheRun'
  BY <1>1 DEF IInv, LastRunOnly, TimerOfTheRun, Live, hookVars
<1>6. QED
  BY <1>3, <1>4, <1>5 DEF IInv

\* A reload ends what was under way, and shows nothing.
LEMMA Reloads ==
  ASSUME IInv, Reload
  PROVE  IInv'
<1>1. run \in [Run -> [phase : {"unused", "enqueueing", "polling", "ended"},
                       left : 0 .. MaxPolls]]
  BY DEF IInv, TypeOK
<1>2. /\ run' \in [Run -> [phase : {"unused", "enqueueing", "polling", "ended"},
                           left : 0 .. MaxPolls]]
      /\ \A r \in Run : ~(run'[r].phase \in {"enqueueing", "polling"})
      /\ \A r \in Run : run[r].phase = "unused" => run'[r].phase = "unused"
  <2>1. /\ run' = [r \in Run |-> IF Live(r) THEN Ended ELSE run[r]]
        /\ Ended.phase = "ended"
    BY DEF Reload, Ended
  <2>2. QED
    BY <1>1, <2>1, EndedTyped DEF Live
<1>3. /\ page' = [status |-> "idle", data |-> NoRun] /\ stage' = "none" /\ wagmi' = "connecting"
      /\ abortRef' = NoRun /\ timerRef' = NoRun /\ aborted' = {}
      /\ UNCHANGED <<jobVars, started>>
  BY DEF Reload, NoPage
<1>4. TypeOK'
  <2>1. {mounted', minElapsed', timedOut', includeENS'} \subseteq BOOLEAN
    BY DEF Reload
  <2>2. reloads' \in 0 .. MaxReloads
    BY Numbers DEF Reload, IInv, TypeOK
  <2>3. page' \in AnalysisState
    BY <1>3 DEF AnalysisState
  <2>4. QED
    BY <1>2, <1>3, <2>1, <2>2, <2>3, StagesTyped DEF IInv, TypeOK
<1>5. StoreTruthful' /\ ShownIsLastAnswer' /\ ShownIsOfRun'
  BY <1>3 DEF IInv, StoreTruthful, ShownIsLastAnswer, ShownIsOfRun, jobVars
<1>6. LastRunOnly' /\ TimerOfTheRun'
  BY <1>2, <1>3 DEF IInv, LastRunOnly, TimerOfTheRun, Live
<1>7. QED
  BY <1>4, <1>5, <1>6 DEF IInv

\* The steps of a run: it goes on, or it ends.
LEMMA RunSteps ==
  ASSUME IInv, NEW r \in Run, RunStep(r)
  PROVE  IInv'
<1>0. /\ run \in [Run -> [phase : {"unused", "enqueueing", "polling", "ended"},
                          left : 0 .. MaxPolls]]
      /\ stage \in Stage
  BY DEF IInv, TypeOK
<1>1. Live(r)
  BY DEF RunStep, Enqueued, PollPending, PollSuccess, PollFailure, FetchFails, Deadline, Live
<1>2. CASE Enqueued(r)
  <2>1. CASE run' = [run EXCEPT ![r].phase = "polling"] /\ UNCHANGED <<page, timerRef>>
    <3>1. 0 \in 0 .. MaxPolls
      BY Numbers
    <3>2. QED
      BY <1>0, <1>1, <1>2, <2>1, <3>1, GoesOn DEF Enqueued
  <2>2. CASE Return(r, "error")
    BY <1>0, <1>1, <1>2, <2>2, Ends DEF Enqueued
  <2>3. QED
    BY <1>2, <2>1, <2>2 DEF Enqueued
<1>3. CASE PollPending(r)
  <2>1. run[r].left - 1 \in 0 .. MaxPolls
    BY <1>0, <1>3, Numbers DEF PollPending
  <2>2. stage' \in Stage
    BY <1>0, <1>3, StagesTyped DEF PollPending
  <2>3. run[r].phase = "polling" /\ run' = [run EXCEPT ![r].left = run[r].left - 1]
    BY <1>3 DEF PollPending
  <2>4. QED
    BY <1>1, <1>3, <2>1, <2>2, <2>3, GoesOn DEF PollPending
<1>4. CASE PollSuccess(r)
  <2>1. PICK status \in {"success", "partial"} : Return(r, status)
    BY <1>4 DEF PollSuccess
  <2>2. ledger[r] = "SUCCESS"
    BY <1>4 DEF PollSuccess, Answers
  <2>3. stage' \in Stage
    BY <1>4, StagesTyped DEF PollSuccess
  <2>4. QED
    BY <1>1, <1>4, <2>1, <2>2, <2>3, Ends DEF PollSuccess
<1>5. CASE PollFailure(r) \/ FetchFails(r) \/ Deadline(r)
  <2>1. /\ Return(r, "error")
        /\ UNCHANGED <<readyVars, includeENS, abortRef, aborted, jobVars, started, reloads>>
    BY <1>5 DEF PollFailure, FetchFails, Deadline
  <2>2. stage' \in Stage
    BY <1>0, <1>5, StagesTyped DEF PollFailure, FetchFails, Deadline
  <2>3. QED
    BY <1>1, <2>1, <2>2, Ends
<1>6. QED
  BY <1>2, <1>3, <1>4, <1>5 DEF RunStep

\* Every step keeps it: those of a run only touch the run that is under way.
LEMMA Inductive == IInv /\ [Next]_vars => IInv'
<1> SUFFICES ASSUME IInv, [Next]_vars PROVE IInv'
  OBVIOUS
<1>1. CASE Next
  BY <1>1, Starts, Works, Elsewhere, Reloads, RunSteps DEF Next
<1>2. CASE UNCHANGED vars
  BY <1>2 DEF vars, readyVars, hookVars, jobVars, IInv, TypeOK, StoreTruthful, LastRunOnly,
              ShownIsOfRun, TimerOfTheRun, ShownIsLastAnswer, Live
<1>3. QED
  BY <1>1, <1>2

-----------------------------------------------------------------------------
(* Requests and answers                                                    *)

\* What does not concern requests is a stutter of theirs.
LEMMA OthersStutter ==
  ASSUME UNCHANGED <<page, started, verdict>>
  PROVE  UNCHANGED Requests!vars
BY DEF Requests!vars

\* The end of a run answers the request that is waiting, as it is the run of this one.
LEMMA ReturnAnswers ==
  ASSUME IInv, NEW r \in Run, Live(r), NEW status \in {"success", "partial", "error"},
         Return(r, status), status # "error" => ledger[r] = "SUCCESS",
         UNCHANGED <<jobVars, started>>
  PROVE  Requests!Next
<1>1. page.status = "loading" /\ r = started
  BY DEF IInv, TimerOfTheRun, LastRunOnly
<1>2. CASE page' = [status |-> "error", data |-> NoRun]
  <2>1. Requests!Refuse
    BY <1>1, <1>2 DEF Requests!Refuse, Requests!Show, Requests!Nothing, NoRun, jobVars
  <2>2. QED
    BY <2>1 DEF Requests!Next
<1>3. CASE status # "error" /\ page' = [status |-> status, data |-> r]
  <2>1. verdict[r] = "SUCCESS"
    BY <1>3 DEF IInv, StoreTruthful
  <2>2. Requests!Tell(status)
    BY <1>1, <1>3, <2>1 DEF Requests!Tell, Requests!Show, jobVars
  <2>3. status \in {"success", "partial"}
    BY <1>3
  <2>4. QED
    BY <2>2, <2>3 DEF Requests!Next
<1>4. QED
  BY <1>2, <1>3 DEF Return

\* A step of a run goes on or answers.
LEMMA RunStepAnswers ==
  ASSUME IInv, NEW r \in Run, RunStep(r)
  PROVE  [Requests!Next]_(Requests!vars)
<1>1. Live(r) /\ UNCHANGED <<jobVars, started>>
  BY DEF RunStep, Enqueued, PollPending, PollSuccess, PollFailure, FetchFails, Deadline, Live
<1>2. \/ UNCHANGED page
      \/ Return(r, "error")
      \/ \E status \in {"success", "partial"} : Return(r, status) /\ ledger[r] = "SUCCESS"
  <2>1. "SUCCESS" \in Answers(r) => ledger[r] = "SUCCESS"
    BY DEF Answers
  <2>2. QED
    BY <2>1 DEF RunStep, Enqueued, PollPending, PollSuccess, PollFailure, FetchFails, Deadline
<1>3. CASE UNCHANGED page
  BY <1>1, <1>3, OthersStutter DEF jobVars
<1>4. CASE Return(r, "error")
  BY <1>1, <1>4, ReturnAnswers
<1>5. CASE \E status \in {"success", "partial"} : Return(r, status) /\ ledger[r] = "SUCCESS"
  BY <1>1, <1>5, ReturnAnswers
<1>6. QED
  BY <1>2, <1>3, <1>4, <1>5

\* What enters the store settles at most one request, which has been made.
LEMMA BackendSettles ==
  ASSUME IInv, Backend
  PROVE  [Requests!Next]_(Requests!vars)
<1>1. UNCHANGED <<page, started>>
  BY DEF Backend
<1>2. CASE UNCHANGED verdict
  BY <1>1, <1>2, OthersStutter
<1>3. ASSUME NEW r \in Run, run[r].phase # "unused", NEW o \in Jobs!Outcome, Jobs!Decide(r, o)
      PROVE  Requests!Next
  <2>1. r <= started
    BY <1>3, Numbers DEF IInv, LastRunOnly, TypeOK, Run
  <2>2. Requests!Settle(r, o)
    BY <1>1, <1>3, <2>1 DEF Requests!Settle, Jobs!Decide
  <2>3. r \in Requests!Request /\ o \in {"SUCCESS", "FAILURE"}
    BY DEF Requests!Request, Run, Jobs!Outcome
  <2>4. QED
    BY <2>2, <2>3 DEF Requests!Next
<1>4. \/ UNCHANGED verdict
      \/ \E r \in Run, o \in Jobs!Outcome : run[r].phase # "unused" /\ Jobs!Decide(r, o)
  BY DEF Backend, Jobs!Note, Jobs!Forget
<1>5. QED
  BY <1>2, <1>3, <1>4

-----------------------------------------------------------------------------
(* The progress bar                                                        *)

\* While the page loads, the stage is one of a job that has no outcome.
StageOfTheRun == page.status = "loading" => stage \in JobStage

\* The stage is reset when a run starts, and what brings another one ends the loading.
LEMMA StageFollowsRun ==
  ASSUME IInv, StageOfTheRun, [Next]_vars
  PROVE  StageOfTheRun'
<1>1. CASE UNCHANGED <<page, stage>>
  BY <1>1 DEF StageOfTheRun
<1>2. CASE AnalyzeWallet
  <2>1. stage' = "queued"
    BY <1>2 DEF AnalyzeWallet
  <2>2. QED
    BY <2>1 DEF StageOfTheRun, JobStage
<1>3. CASE Reload
  <2>1. page'.status = "idle"
    BY <1>3 DEF Reload, NoPage
  <2>2. QED
    BY <2>1 DEF StageOfTheRun
<1>4. ASSUME NEW r \in Run, RunStep(r) PROVE StageOfTheRun'
  <2>1. CASE \E status \in {"success", "partial", "error"} : Return(r, status)
    <3>1. page'.status # "loading"
      BY <2>1 DEF Return
    <3>2. QED
      BY <3>1 DEF StageOfTheRun
  <2>2. CASE Enqueued(r)
    BY <1>1, <2>1, <2>2 DEF Enqueued
  <2>3. CASE PollPending(r)
    BY <1>1, <2>3 DEF PollPending, StageOfTheRun
  <2>4. CASE PollSuccess(r) \/ PollFailure(r) \/ FetchFails(r) \/ Deadline(r)
    <3>1. \E status \in {"success", "partial", "error"} : Return(r, status)
      BY <2>4 DEF PollSuccess, PollFailure, FetchFails, Deadline
    <3>2. QED
      BY <2>1, <3>1
  <2>5. QED
    BY <1>4, <2>2, <2>3, <2>4 DEF RunStep
<1>5. CASE Mount \/ MinElapsed \/ TimeOut \/ Wallet \/ ToggleENS \/ Backend
  <2>1. UNCHANGED <<page, stage>>
    BY <1>5 DEF Mount, MinElapsed, TimeOut, Wallet, ToggleENS, Backend, hookVars
  <2>2. QED
    BY <1>1, <2>1
<1>6. CASE UNCHANGED vars
  BY <1>1, <1>6 DEF vars, hookVars
<1>7. QED
  BY <1>2, <1>3, <1>4, <1>5, <1>6 DEF Next

\* The places of the steps.
LEMMA StageNumbers ==
  /\ Range(Steps) = {"deployments", "verification", "ens", "scoring", "complete"}
  /\ StageIndex("deployments") = 0 /\ StageIndex("verification") = 1
  /\ StageIndex("ens") = 2 /\ StageIndex("scoring") = 3 /\ StageIndex("complete") = 4
  /\ StageIndex("queued") = -1
<1>1. /\ DOMAIN Steps = 1 .. 5
      /\ Steps[1] = "deployments" /\ Steps[2] = "verification" /\ Steps[3] = "ens"
      /\ Steps[4] = "scoring" /\ Steps[5] = "complete"
  BY DEF Steps
<1>2. \A i \in 1 .. 5 : i = 1 \/ i = 2 \/ i = 3 \/ i = 4 \/ i = 5
  OBVIOUS
<1>3. Range(Steps) = {"deployments", "verification", "ens", "scoring", "complete"}
  BY <1>1, <1>2 DEF Range
<1>4. ASSUME NEW i \in 1 .. 5 PROVE StageIndex(Steps[i]) = i - 1
  <2>1. \A j \in 1 .. 5 : Steps[j] = Steps[i] => j = i
    BY <1>1, <1>2
  <2>2. (CHOOSE j \in DOMAIN Steps : Steps[j] = Steps[i]) = i
    BY <1>1, <2>1
  <2>3. Steps[i] \in Range(Steps)
    BY <1>1 DEF Range
  <2>4. QED
    BY <2>2, <2>3 DEF StageIndex
<1>5. /\ StageIndex(Steps[1]) = 0 /\ StageIndex(Steps[2]) = 1 /\ StageIndex(Steps[3]) = 2
      /\ StageIndex(Steps[4]) = 3 /\ StageIndex(Steps[5]) = 4
  <2>1. 1 \in 1 .. 5 /\ 2 \in 1 .. 5 /\ 3 \in 1 .. 5 /\ 4 \in 1 .. 5 /\ 5 \in 1 .. 5
    OBVIOUS
  <2>2. QED
    BY <1>4, <2>1
<1>6. StageIndex("queued") = -1
  BY <1>3 DEF StageIndex
<1> QED
  BY <1>1, <1>3, <1>5, <1>6

\* Five steps are to be seen, or four.
LEMMA StepsCounted ==
  ASSUME includeENS \in BOOLEAN
  PROVE  /\ VisibleSteps = {"deployments", "verification", "scoring", "complete"}
                             \cup (IF includeENS THEN {"ens"} ELSE {})
         /\ Cardinality(VisibleSteps) = IF includeENS THEN 5 ELSE 4
<1>1. VisibleSteps = {"deployments", "verification", "scoring", "complete"}
                       \cup (IF includeENS THEN {"ens"} ELSE {})
  BY StageNumbers DEF VisibleSteps
<1> DEFINE four == {"deployments", "verification", "scoring", "complete"}
<1>2. IsFiniteSet(four) /\ Cardinality(four) = 4
  <2>1. IsFiniteSet({}) /\ Cardinality({}) = 0
    BY FS_EmptySet
  <2> DEFINE one == {} \cup {"deployments"}
             two == one \cup {"verification"}
             three == two \cup {"scoring"}
  <2>2. IsFiniteSet(one) /\ Cardinality(one) = 1
    BY <2>1, FS_AddElement
  <2>3. IsFiniteSet(two) /\ Cardinality(two) = 2
    <3>1. "verification" \notin one
      OBVIOUS
    <3> HIDE DEF one
    <3>2. QED
      BY <2>2, <3>1, FS_AddElement
  <2>4. IsFiniteSet(three) /\ Cardinality(three) = 3
    <3>1. "scoring" \notin two
      OBVIOUS
    <3> HIDE DEF two
    <3>2. QED
      BY <2>3, <3>1, FS_AddElement
  <2>5. "complete" \notin three /\ four = three \cup {"complete"}
    OBVIOUS
  <2> HIDE DEF three, four
  <2>6. QED
    BY <2>4, <2>5, FS_AddElement
<1>3. "ens" \notin four
  OBVIOUS
<1>4. Cardinality(four \cup {"ens"}) = 5
  <2> HIDE DEF four
  <2>1. QED
    BY <1>2, <1>3, FS_AddElement
<1>5. CASE includeENS
  BY <1>1, <1>4, <1>5
<1>6. CASE ~ includeENS
  <2>1. VisibleSteps = four
    BY <1>1, <1>6
  <2>2. QED
    BY <1>1, <1>2, <1>6, <2>1
<1> QED
  BY <1>5, <1>6

-----------------------------------------------------------------------------
(* The theorems                                                            *)

\* The inductive invariant holds throughout.
THEOREM PageInvariant == FairSpec => []IInv
<1>1. QED
  BY Initially, Inductive, PTL DEF FairSpec

\* AnswersRequests: the page implements AnalysisRequests, so that each request is
\* answered at most once, truthfully and by nothing that belongs to another one.
THEOREM PageAnswersRequests == FairSpec => AnswersRequests
<1>1. Init => Requests!Init
  BY DEF Init, Jobs!Init, NoPage, NoRun, Run,
         Requests!Init, Requests!Nothing, Requests!Request
<1>2. IInv /\ [Next]_vars => [Requests!Next]_(Requests!vars)
  <2> SUFFICES ASSUME IInv, [Next]_vars PROVE [Requests!Next]_(Requests!vars)
    OBVIOUS
  <2>1. CASE AnalyzeWallet
    <3>1. page.status # "loading" /\ started + 1 \in Requests!Request
      BY <2>1, Numbers DEF AnalyzeWallet, CanAnalyze, IInv, TypeOK, Requests!Request
    <3>2. Requests!Ask
      BY <2>1, <3>1 DEF AnalyzeWallet, jobVars, NoRun,
                        Requests!Ask, Requests!Show, Requests!Nothing
    <3>3. QED
      BY <3>2 DEF Requests!Next
  <2>2. CASE Reload
    <3>1. Requests!Leave
      BY <2>2 DEF Reload, NoPage, jobVars, NoRun,
                  Requests!Leave, Requests!Show, Requests!Nothing
    <3>2. QED
      BY <3>1 DEF Requests!Next
  <2>3. CASE Backend
    BY <2>3, BackendSettles
  <2>4. CASE \E r \in Run : RunStep(r)
    BY <2>4, RunStepAnswers
  <2>5. CASE \/ Mount \/ MinElapsed \/ TimeOut \/ Wallet \/ ToggleENS
             \/ UNCHANGED vars
    <3>1. UNCHANGED <<page, started, verdict>>
      BY <2>5 DEF Mount, MinElapsed, TimeOut, Wallet, ToggleENS, vars, jobVars
    <3>2. QED
      BY <3>1, OthersStutter
  <2>6. QED
    BY <2>1, <2>2, <2>3, <2>4, <2>5 DEF Next
<1>3. QED
  BY <1>1, <1>2, PageInvariant, PTL DEF FairSpec, AnswersRequests, Requests!Spec

\* Types, and the bound that POLL_TIMEOUT_MS puts on the polls of a run
\* (useAnalysisJob.ts).
THEOREM PageTypeCorrect == FairSpec => []TypeOK
<1>1. IInv => TypeOK
  BY DEF IInv
<1>2. QED
  BY <1>1, PageInvariant, PTL

\* page.tsx shows the data of the last run, whose job succeeded, and no other's,
\* however many runs and reloads there were before.
THEOREM ShownAlwaysLastAnswer == FairSpec => []ShownIsLastAnswer
<1>1. IInv => ShownIsLastAnswer
  BY DEF IInv
<1>2. QED
  BY <1>1, PageInvariant, PTL

\* useAnalysisJob.ts: two runs are never under way, so the timer that a finally block
\* clears is that of its own run.
THEOREM TimerAlwaysOfTheRun == FairSpec => []TimerOfTheRun
<1>1. IInv => TimerOfTheRun
  BY DEF IInv
<1>2. QED
  BY <1>1, PageInvariant, PTL

\* AnalysisProgress.tsx: a loading page says "100% Complete" when the job is being scored
\* and ENS hidden, and only then; a step is pointed out, and named, unless the job is
\* queued, or at the ENS profile while ENS is hidden.
THEOREM ProgressAlwaysWhileLoading == FairSpec => []ProgressWhileLoading
<1>1. Init => StageOfTheRun
  BY DEF Init, StageOfTheRun, NoPage
<1>2. IInv /\ StageOfTheRun => ProgressWhileLoading
  <2> SUFFICES ASSUME IInv, StageOfTheRun, page.status = "loading"
               PROVE  /\ ProgressPct = 100 <=> stage = "scoring" /\ ~includeENS
                      /\ ProgressPct = 100 => VisibleSteps \ Done = {"scoring", "complete"}
                      /\ Active # {} <=> CurrentStep = stage
                      /\ CurrentStep = "blank" <=>
                            stage = "queued" \/ (stage = "ens" /\ ~includeENS)
                      /\ CurrentStep # "Preparing analysis..."
    BY DEF ProgressWhileLoading
  <2>1. includeENS \in BOOLEAN /\ stage \in Stage
    BY DEF IInv, TypeOK
  <2>2. stage \in {"queued", "deployments", "verification", "ens", "scoring"}
    BY StageNumbers DEF JobStage, StageOfTheRun
  <2>3. ProgressPct = 100 <=> stage = "scoring" /\ ~includeENS
    <3> DEFINE n == Cardinality(VisibleSteps)
               i == StageIndex(stage)
    <3>1. n = IF includeENS THEN 5 ELSE 4
      BY <2>1, StepsCounted
    <3>2. /\ stage = "queued" => i = -1
          /\ stage = "deployments" => i = 0
          /\ stage = "verification" => i = 1
          /\ stage = "ens" => i = 2
          /\ stage = "scoring" => i = 3
      BY StageNumbers
    <3>3. ProgressPct = IF i < 0 THEN 5 ELSE IF (100 * (i + 1)) \div n > 100 THEN 100
                        ELSE (100 * (i + 1)) \div n
      BY DEF ProgressPct
    <3> HIDE DEF n, i
    <3>4. stage # "queued" => i \in 0 .. 3 /\ (i = 3 <=> stage = "scoring")
      BY <2>2, <3>2
    <3>5. \A k \in 0 .. 3 : /\ (100 * (k + 1)) \div 5 <= 100
                            /\ (100 * (k + 1)) \div 5 # 100
                            /\ (100 * (k + 1)) \div 4 <= 100
                            /\ (100 * (k + 1)) \div 4 = 100 <=> k = 3
      OBVIOUS
    <3>6. CASE stage = "queued"
      <4>1. ProgressPct = 5
        BY <3>2, <3>3, <3>6
      <4>2. QED
        BY <3>6, <4>1
    <3>7. CASE stage # "queued" /\ includeENS
      BY <3>1, <3>3, <3>4, <3>5, <3>7
    <3>8. CASE stage # "queued" /\ ~ includeENS
      BY <3>1, <3>3, <3>4, <3>5, <3>8
    <3>9. QED
      BY <2>1, <3>6, <3>7, <3>8
  <2>4. VisibleSteps = {"deployments", "verification", "scoring", "complete"}
                         \cup (IF includeENS THEN {"ens"} ELSE {})
    BY <2>1, StepsCounted
  <2>5. ProgressPct = 100 => VisibleSteps \ Done = {"scoring", "complete"}
    <3> SUFFICES ASSUME stage = "scoring", ~ includeENS
                 PROVE  VisibleSteps \ Done = {"scoring", "complete"}
      BY <2>3
    <3>1. VisibleSteps = {"deployments", "verification", "scoring", "complete"}
      BY <2>4
    <3>2. Done = {"deployments", "verification"}
      BY <3>1, StageNumbers DEF Done
    <3>3. QED
      BY <3>1, <3>2
  <2>6. Active = VisibleSteps \cap {stage}
    <3>1. \A s, t \in {"queued", "deployments", "verification", "ens", "scoring", "complete"} :
            StageIndex(s) = StageIndex(t) => s = t
      BY StageNumbers
    <3>2. VisibleSteps \subseteq {"deployments", "verification", "ens", "scoring", "complete"}
      BY <2>4
    <3>3. QED
      BY <2>2, <3>1, <3>2 DEF Active
  <2>7. CurrentStep = IF stage \in VisibleSteps THEN stage ELSE "blank"
    BY <2>2 DEF CurrentStep
  <2>8. stage \notin VisibleSteps <=> stage = "queued" \/ (stage = "ens" /\ ~includeENS)
    BY <2>1, <2>2, <2>4
  <2>9. stage # "blank" /\ stage # "Preparing analysis..."
    BY <2>2
  <2>10. QED
    BY <2>3, <2>5, <2>6, <2>7, <2>8, <2>9
<1>3. QED
  BY <1>1, <1>2, StageFollowsRun, PageInvariant, PTL DEF FairSpec

=============================================================================
