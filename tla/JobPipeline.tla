----------------------------- MODULE JobPipeline -----------------------------
(***************************************************************************)
(* A wallet analysis from POST /analyze to GET /result/:jobId: the API     *)
(* process (services/analysis/api.js), the worker processes (worker.js),   *)
(* the two ZeroMQ channels between them (push.js, resultsChannel.js) and   *)
(* the job store of db.js, of which every process has a private in-memory  *)
(* copy in front of the shared MongoDB collection job_results.             *)
(*                                                                         *)
(* An async call is split at its awaits: saveJobProgress and saveJobResult *)
(* write the memory of their process at once and MongoDB later, and only   *)
(* then is the update sent on the results channel.  The progress reports   *)
(* of a running analysis are not awaited by it, so several such calls may  *)
(* be under way in one worker and overtake each other.                     *)
(*                                                                         *)
(* The horizon is shorter than JOB_TTL_MS (one hour): no record expires.   *)
(***************************************************************************)
EXTENDS Naturals, Sequences, FiniteSets

CONSTANTS Job, Worker,
          Api,         \* the API process
          NoJob,
          Stages,      \* sequence of stages an analysis reports by onProgress
          DbAnswers,   \* bound: {TRUE} healthy, {FALSE} down, BOOLEAN flaky
          Polled,      \* bound: the jobs GET /result is asked for
          MaxCrashes,  \* bound: crashes of workers
          MaxRestarts, \* bound: restarts of the API process
          MaxLost      \* bound: reports whose send fails and is swallowed

ASSUME PipelineAssumption ==
  /\ Api \notin Worker
  /\ NoJob \notin Job
  /\ Stages \in Seq(STRING)
  /\ \A i \in DOMAIN Stages : Stages[i] # "queued"
  /\ DbAnswers \subseteq BOOLEAN /\ DbAnswers # {}
  /\ Polled \subseteq Job
  /\ MaxCrashes \in Nat /\ MaxRestarts \in Nat /\ MaxLost \in Nat

VARIABLES client,    \* what POST /analyze told the client, per job
          blocked,   \* job whose push.send has no peer to go to yet
          queue,     \* jobs queued for each worker's pull socket
          pc,        \* where run() of each worker is
          current,   \* the job each worker is on
          reported,  \* how many stages of it the worker has reported
          tasks,     \* recordProgress/recordResult calls under way
          channel,   \* results channel of each worker
          applying,  \* update the API's listener is awaiting, or <<>>
          mem,       \* _memoryJobs of each process
          mongo,     \* collection job_results
          reading,   \* jobs whose poll missed memory and awaits MongoDB
          answer,    \* last answer of GET /result/:jobId
          verdict,   \* history: how analyzeWallet ended for each job
          runs,      \* history: how often a worker took each job to run it
          faults     \* history: crashes, restarts and lost reports so far

clientVars == <<client, blocked>>
workerVars == <<pc, current, reported>>
pollVars   == <<reading, answer>>
vars == <<client, blocked, queue, pc, current, reported, tasks, channel,
          applying, mem, mongo, reading, answer, verdict, runs, faults>>

Process == Worker \cup {Api}
Outcome == {"SUCCESS", "FAILURE"}
Stage   == {Stages[i] : i \in DOMAIN Stages}
           \cup {"none", "queued", "complete", "unavailable"}
Record  == [status : {"ABSENT", "PENDING"} \cup Outcome, stage : Stage]
Update  == [job : Job, status : {"PENDING"} \cup Outcome, stage : Stage]
Task    == [worker : Worker, update : Update, at : {"save", "report"}]

(* No worker ever sends more updates than this.                            *)
MaxUpdates == Cardinality(Job) * (Len(Stages) + 2)

Absent == [status |-> "ABSENT", stage |-> "none"]

-----------------------------------------------------------------------------
(* The job store of db.js.  Memory and MongoDB apply the same rules.       *)

(* Mutant: status: "PENDING" without existing?.status and $setOnInsert.    *)
WithProgressReset(r, s) == [status |-> "PENDING", stage |-> s]

(* saveJobProgress: keeps the status a record has, PENDING if it is new.   *)
WithProgress(r, s) ==
  [status |-> IF r.status = "ABSENT" THEN "PENDING" ELSE r.status, stage |-> s]

(* saveJobResult: stage "complete" on SUCCESS, else the stage it was in.   *)
WithResult(r, o) ==
  [status |-> o, stage |-> IF o = "SUCCESS" THEN "complete" ELSE r.stage]

Saved(r, u) ==
  IF u.status \in Outcome THEN WithResult(r, u.status)
                          ELSE WithProgress(r, u.stage)

SaveInMemory(p, u) == mem' = [mem EXCEPT ![p][u.job] = Saved(@, u)]

(* The MongoDB half of a save; its failure is logged and swallowed.        *)
SaveInMongo(u) ==
  \E ok \in DbAnswers :
    mongo' = IF ok THEN [mongo EXCEPT ![u.job] = Saved(@, u)] ELSE mongo

-----------------------------------------------------------------------------
(* POST /analyze.                                                          *)

(* The send goes through: ZeroMQ hands the job to a connected worker.      *)
Enqueue(j) ==
  /\ client[j] = "new"
  /\ blocked = NoJob
  /\ \E w \in Worker : /\ pc[w] # "down"
                       /\ queue' = [queue EXCEPT ![w] = Append(@, j)]
  /\ client' = [client EXCEPT ![j] = "accepted"]
  /\ UNCHANGED <<blocked, workerVars, tasks, channel, applying, mem, mongo,
                 pollVars, verdict, runs, faults>>

(* No worker is connected: await push.send does not return.                *)
EnqueueBlocks(j) ==
  /\ client[j] = "new"
  /\ blocked = NoJob
  /\ \A w \in Worker : pc[w] = "down"
  /\ blocked' = j
  /\ client' = [client EXCEPT ![j] = "waiting"]
  /\ UNCHANGED <<queue, workerVars, tasks, channel, applying, mem, mongo,
                 pollVars, verdict, runs, faults>>

(* 503 when the push socket is not bound; 500 when send rejects, as it     *)
(* does while another send is blocked.                                     *)
EnqueueFails(j) ==
  /\ client[j] = "new"
  /\ client' = [client EXCEPT ![j] = "refused"]
  /\ UNCHANGED <<blocked, queue, workerVars, tasks, channel, applying, mem,
                 mongo, pollVars, verdict, runs, faults>>

(* Mutant: the BFF retries the request under the same id.                  *)
ClientTimeoutRetrying(j) ==
  /\ client[j] = "waiting"
  /\ client' = [client EXCEPT ![j] = "new"]
  /\ UNCHANGED <<blocked, queue, workerVars, tasks, channel, applying, mem,
                 mongo, pollVars, verdict, runs, faults>>

(* The BFF gives up after 10 s; the handler in the API does not.           *)
ClientTimeout(j) ==
  /\ client[j] = "waiting"
  /\ client' = [client EXCEPT ![j] = "refused"]
  /\ UNCHANGED <<blocked, queue, workerVars, tasks, channel, applying, mem,
                 mongo, pollVars, verdict, runs, faults>>

(* A worker has connected: the blocked send completes.                     *)
Unblock(w) ==
  /\ blocked # NoJob
  /\ pc[w] # "down"
  /\ queue' = [queue EXCEPT ![w] = Append(@, blocked)]
  /\ client' = [client EXCEPT ![blocked] =
                  IF @ = "waiting" THEN "accepted" ELSE @]
  /\ blocked' = NoJob
  /\ UNCHANGED <<workerVars, tasks, channel, applying, mem, mongo, pollVars,
                 verdict, runs, faults>>

-----------------------------------------------------------------------------
(* The worker: run() and the calls it starts.                              *)

(* recordProgress / recordResult up to its first await.                    *)
Record_(w, u) ==
  /\ SaveInMemory(w, u)
  /\ tasks' = tasks \cup {[worker |-> w, update |-> u, at |-> "save"]}

StartWorker(w) ==
  /\ pc[w] = "down"
  /\ pc' = [pc EXCEPT ![w] = "idle"]
  /\ UNCHANGED <<clientVars, queue, current, reported, tasks, channel,
                 applying, mem, mongo, pollVars, verdict, runs, faults>>

(* Next message of the pull socket; awaits recordProgress(jobId, "queued").*)
Receive(w) ==
  /\ pc[w] = "idle"
  /\ queue[w] # <<>>
  /\ current' = [current EXCEPT ![w] = Head(queue[w])]
  /\ queue' = [queue EXCEPT ![w] = Tail(@)]
  /\ pc' = [pc EXCEPT ![w] = "received"]
  /\ reported' = [reported EXCEPT ![w] = 0]
  /\ runs' = [runs EXCEPT ![Head(queue[w])] = @ + 1]
  /\ Record_(w, [job |-> Head(queue[w]), status |-> "PENDING",
                 stage |-> "queued"])
  /\ UNCHANGED <<clientVars, channel, applying, mongo, pollVars, verdict,
                 faults>>

(* onProgress of the running analysis: starts a call and does not wait.    *)
Progress(w) ==
  /\ pc[w] = "analyzing"
  /\ reported[w] < Len(Stages)
  /\ reported' = [reported EXCEPT ![w] = @ + 1]
  /\ Record_(w, [job |-> current[w], status |-> "PENDING",
                 stage |-> Stages[reported[w] + 1]])
  /\ UNCHANGED <<clientVars, queue, pc, current, channel, applying, mongo,
                 pollVars, verdict, runs, faults>>

(* Mutant: the exception is swallowed and the job recorded as a success.   *)
FinishSwallowing(w, o) ==
  /\ pc[w] = "analyzing"
  /\ o = "SUCCESS" => reported[w] = Len(Stages)
  /\ verdict' = [verdict EXCEPT ![current[w]] = o]
  /\ pc' = [pc EXCEPT ![w] = "recording"]
  /\ Record_(w, [job |-> current[w], status |-> "SUCCESS", stage |-> "none"])
  /\ UNCHANGED <<clientVars, queue, current, reported, channel, applying,
                 mongo, pollVars, runs, faults>>

(* analyzeWallet returns, after its last stage, or throws at any point;    *)
(* run() awaits recordResult.                                              *)
Finish(w, o) ==
  /\ pc[w] = "analyzing"
  /\ o = "SUCCESS" => reported[w] = Len(Stages)
  /\ verdict' = [verdict EXCEPT ![current[w]] = o]
  /\ pc' = [pc EXCEPT ![w] = "recording"]
  /\ Record_(w, [job |-> current[w], status |-> o, stage |-> "none"])
  /\ UNCHANGED <<clientVars, queue, current, reported, channel, applying,
                 mongo, pollVars, runs, faults>>

(* The MongoDB write of a call under way.                                  *)
TaskSave(t) ==
  /\ t \in tasks
  /\ t.at = "save"
  /\ SaveInMongo(t.update)
  /\ tasks' = (tasks \ {t}) \cup {[t EXCEPT !.at = "report"]}
  /\ UNCHANGED <<clientVars, queue, workerVars, channel, applying, mem,
                 pollVars, verdict, runs, faults>>

(* run() resumes when a call it awaits is over.                            *)
Resume(t) ==
  LET w == t.worker IN
  IF t.update.status \in Outcome
    THEN /\ pc' = [pc EXCEPT ![w] = "idle"]
         /\ current' = [current EXCEPT ![w] = NoJob]
    ELSE /\ pc' = [pc EXCEPT ![w] =
                     IF t.update.stage = "queued" THEN "analyzing" ELSE @]
         /\ UNCHANGED current

(* Mutant: nothing is pushed to the API, as before resultsChannel.js.      *)
TaskReportNothing(t) ==
  /\ t \in tasks
  /\ t.at = "report"
  /\ tasks' = tasks \ {t}
  /\ Resume(t)
  /\ UNCHANGED <<clientVars, queue, reported, channel, applying, mem, mongo,
                 pollVars, verdict, runs, faults>>

(* reportJobUpdate: the last await of the call; a failed send is swallowed.*)
TaskReport(t) ==
  /\ t \in tasks
  /\ t.at = "report"
  /\ tasks' = tasks \ {t}
  /\ Resume(t)
  /\ \/ /\ channel' = [channel EXCEPT ![t.worker] = Append(@, t.update)]
        /\ UNCHANGED faults
     \/ /\ faults.lost < MaxLost
        /\ faults' = [faults EXCEPT !.lost = @ + 1]
        /\ UNCHANGED channel
  /\ UNCHANGED <<clientVars, queue, reported, applying, mem, mongo, pollVars,
                 verdict, runs>>

(* Mutant: the job a dying worker was on is delivered again, as by a      *)
(* broker that waits for the worker to acknowledge it.                     *)
CrashRedelivering(w) ==
  /\ pc[w] # "down"
  /\ faults.crashes < MaxCrashes
  /\ faults' = [faults EXCEPT !.crashes = @ + 1]
  /\ pc' = [pc EXCEPT ![w] = "down"]
  /\ current' = [current EXCEPT ![w] = NoJob]
  /\ reported' = [reported EXCEPT ![w] = 0]
  /\ queue' = [queue EXCEPT ![w] =
                 IF current[w] = NoJob THEN <<>> ELSE <<current[w]>>]
  /\ tasks' = {t \in tasks : t.worker # w}
  /\ channel' = [channel EXCEPT ![w] = <<>>]
  /\ mem' = [mem EXCEPT ![w] = [j \in Job |-> Absent]]
  /\ UNCHANGED <<clientVars, applying, mongo, pollVars, verdict, runs>>

(* A worker dies: its calls, its memory, the jobs queued for it and some   *)
(* of the reports not yet on the wire are gone; nothing is redelivered.    *)
Crash(w) ==
  /\ pc[w] # "down"
  /\ faults.crashes < MaxCrashes
  /\ faults' = [faults EXCEPT !.crashes = @ + 1]
  /\ pc' = [pc EXCEPT ![w] = "down"]
  /\ current' = [current EXCEPT ![w] = NoJob]
  /\ reported' = [reported EXCEPT ![w] = 0]
  /\ queue' = [queue EXCEPT ![w] = <<>>]
  /\ tasks' = {t \in tasks : t.worker # w}
  /\ \E n \in 0..Len(channel[w]) :
       channel' = [channel EXCEPT ![w] = SubSeq(@, 1, n)]
  /\ mem' = [mem EXCEPT ![w] = [j \in Job |-> Absent]]
  /\ UNCHANGED <<clientVars, applying, mongo, pollVars, verdict, runs>>

-----------------------------------------------------------------------------
(* The API's listener: one update at a time, memory at once, then MongoDB. *)

Listen(w) ==
  /\ applying = <<>>
  /\ channel[w] # <<>>
  /\ SaveInMemory(Api, Head(channel[w]))
  /\ applying' = <<Head(channel[w])>>
  /\ channel' = [channel EXCEPT ![w] = Tail(@)]
  /\ UNCHANGED <<clientVars, queue, workerVars, tasks, mongo, pollVars,
                 verdict, runs, faults>>

ListenSave ==
  /\ applying # <<>>
  /\ SaveInMongo(Head(applying))
  /\ applying' = <<>>
  /\ UNCHANGED <<clientVars, queue, workerVars, tasks, channel, mem, pollVars,
                 verdict, runs, faults>>

(* The API process restarts: its memory, its blocked send and the jobs and *)
(* updates buffered on its side of the sockets are gone.                   *)
RestartApi ==
  /\ faults.restarts < MaxRestarts
  /\ faults' = [faults EXCEPT !.restarts = @ + 1]
  /\ mem' = [mem EXCEPT ![Api] = [j \in Job |-> Absent]]
  /\ applying' = <<>>
  /\ blocked' = NoJob
  /\ client' = [j \in Job |-> IF client[j] = "waiting" THEN "refused"
                                                       ELSE client[j]]
  /\ reading' = {}
  /\ \E kept \in [Worker -> 0..MaxUpdates] :
       /\ \A w \in Worker : kept[w] \in 0..Len(queue[w])
       /\ queue' = [w \in Worker |-> SubSeq(queue[w], 1, kept[w])]
  /\ \E gone \in [Worker -> 0..MaxUpdates] :
       /\ \A w \in Worker : gone[w] \in 0..Len(channel[w])
       /\ channel' = [w \in Worker |->
                        SubSeq(channel[w], gone[w] + 1, Len(channel[w]))]
  /\ UNCHANGED <<workerVars, tasks, mongo, answer, verdict, runs>>

-----------------------------------------------------------------------------
(* GET /result/:jobId, asked for a job the client was given the id of.     *)

(* getJobResult finds the job in memory.                                   *)
PollMemory(j) ==
  /\ client[j] = "accepted"
  /\ j \notin reading
  /\ mem[Api][j] # Absent
  /\ answer' = [answer EXCEPT ![j] = mem[Api][j]]
  /\ UNCHANGED <<clientVars, queue, workerVars, tasks, channel, applying, mem,
                 mongo, reading, verdict, runs, faults>>

(* It does not, and awaits MongoDB.                                        *)
PollMiss(j) ==
  /\ client[j] = "accepted"
  /\ j \notin reading
  /\ mem[Api][j] = Absent
  /\ reading' = reading \cup {j}
  /\ UNCHANGED <<clientVars, queue, workerVars, tasks, channel, applying, mem,
                 mongo, answer, verdict, runs, faults>>

(* Mutant: a job without a document is reported as failed.                 *)
MongoAnswerMissing(j) ==
  IF mongo[j] = Absent THEN [status |-> "FAILURE", stage |-> "queued"]
                       ELSE mongo[j]

(* What the route answers for a MongoDB document, for none, and when       *)
(* MongoDB cannot be asked.                                                *)
MongoAnswer(j) ==
  IF mongo[j] = Absent THEN [status |-> "PENDING", stage |-> "queued"]
                       ELSE mongo[j]

Unavailable == [status |-> "FAILURE", stage |-> "unavailable"]

PollMongo(j) ==
  /\ j \in reading
  /\ reading' = reading \ {j}
  /\ \E ok \in DbAnswers :
       answer' = [answer EXCEPT ![j] = IF ok THEN MongoAnswer(j)
                                             ELSE Unavailable]
  /\ UNCHANGED <<clientVars, queue, workerVars, tasks, channel, applying, mem,
                 mongo, verdict, runs, faults>>

-----------------------------------------------------------------------------
Init ==
  /\ client = [j \in Job |-> "new"]
  /\ blocked = NoJob
  /\ queue = [w \in Worker |-> <<>>]
  /\ pc = [w \in Worker |-> "down"]
  /\ current = [w \in Worker |-> NoJob]
  /\ reported = [w \in Worker |-> 0]
  /\ tasks = {}
  /\ channel = [w \in Worker |-> <<>>]
  /\ applying = <<>>
  /\ mem = [p \in Process |-> [j \in Job |-> Absent]]
  /\ mongo = [j \in Job |-> Absent]
  /\ reading = {}
  /\ answer = [j \in Job |-> Absent]
  /\ verdict = [j \in Job |-> "none"]
  /\ runs = [j \in Job |-> 0]
  /\ faults = [crashes |-> 0, restarts |-> 0, lost |-> 0]

WorkerStep(w) == Receive(w) \/ Progress(w) \/ \E o \in Outcome : Finish(w, o)

TaskStep == \E t \in tasks : TaskSave(t) \/ TaskReport(t)

Next ==
  \/ \E j \in Job : Enqueue(j) \/ EnqueueBlocks(j) \/ EnqueueFails(j)
                    \/ ClientTimeout(j)
  \/ \E w \in Worker : StartWorker(w) \/ Unblock(w) \/ WorkerStep(w)
                       \/ Crash(w) \/ Listen(w)
  \/ TaskStep
  \/ ListenSave
  \/ RestartApi
  \/ \E j \in Polled : PollMemory(j) \/ PollMiss(j) \/ PollMongo(j)

Spec == Init /\ [][Next]_vars

(* The event loops of the processes keep running what is ready, a worker   *)
(* is (re)started, and the result is asked for again and again.            *)
Fairness ==
  /\ \A w \in Worker : /\ WF_vars(StartWorker(w))
                       /\ WF_vars(Unblock(w))
                       /\ WF_vars(WorkerStep(w))
                       /\ WF_vars(Listen(w))
  /\ WF_vars(TaskStep)
  /\ WF_vars(ListenSave)
  /\ \A j \in Polled : /\ WF_vars(PollMemory(j))
                       /\ WF_vars(PollMiss(j))
                       /\ WF_vars(PollMongo(j))

FairSpec == Spec /\ Fairness

-----------------------------------------------------------------------------
(* Properties.                                                             *)

(* Everything the processes hold, store or send is of its type: in         *)
(* particular every record and every message has a status the BFF knows.   *)
TypeOK ==
  /\ client \in [Job -> {"new", "waiting", "accepted", "refused"}]
  /\ blocked \in Job \cup {NoJob}
  /\ queue \in [Worker -> Seq(Job)]
  /\ pc \in [Worker -> {"down", "idle", "received", "analyzing", "recording"}]
  /\ current \in [Worker -> Job \cup {NoJob}]
  /\ reported \in [Worker -> 0..Len(Stages)]
  /\ tasks \subseteq Task
  /\ channel \in [Worker -> Seq(Update)]
  /\ applying \in {<<>>} \cup {<<u>> : u \in Update}
  /\ mem \in [Process -> [Job -> Record]]
  /\ mongo \in [Job -> Record]
  /\ reading \subseteq Job
  /\ answer \in [Job -> Record]
  /\ verdict \in [Job -> {"none"} \cup Outcome]
  /\ runs \in [Job -> Nat]
  /\ faults \in [crashes : 0..MaxCrashes, restarts : 0..MaxRestarts,
                 lost : 0..MaxLost]

(* A final status, wherever it is stored or under way, is the one the      *)
(* analysis of that job ended with: un-awaited progress reports, restarts  *)
(* and lost updates can delay an outcome but never invent or swap one.     *)
OutcomesTruthful ==
  /\ \A p \in Process, j \in Job :
       mem[p][j].status \in Outcome => mem[p][j].status = verdict[j]
  /\ \A j \in Job : mongo[j].status \in Outcome => mongo[j].status = verdict[j]
  /\ \A t \in tasks :
       t.update.status \in Outcome => t.update.status = verdict[t.update.job]
  /\ \A w \in Worker : \A i \in DOMAIN channel[w] :
       channel[w][i].status \in Outcome
         => channel[w][i].status = verdict[channel[w][i].job]
  /\ \A i \in DOMAIN applying :
       applying[i].status \in Outcome
         => applying[i].status = verdict[applying[i].job]

(* The client is never told an outcome the analysis did not have, except   *)
(* for the FAILURE that says the store itself could not be asked.          *)
AnswersTruthful ==
  \A j \in Job :
    answer[j].status \in Outcome /\ answer[j].stage # "unavailable"
      => answer[j].status = verdict[j]

(* No job is run twice, whatever crashes or restarts, before, while or     *)
(* after it is run: a worker takes it from its queue at most once, and a   *)
(* job that was being run when its worker died is never taken again.       *)
RunAtMostOnce == \A j \in Job : runs[j] <= 1

(* An outcome, once decided, is never decided again.                       *)
DecidedOnce ==
  [][\A j \in Job : verdict[j] # "none" => verdict'[j] = verdict[j]]_vars

(* Each store of job records is a JobLedger: MongoDB a durable one, the    *)
(* memory of the API one that is forgotten when the process restarts.      *)
MongoLedger == INSTANCE JobLedger WITH
  ledger <- [j \in Job |-> mongo[j].status], Volatile <- FALSE
ApiLedger == INSTANCE JobLedger WITH
  ledger <- [j \in Job |-> mem[Api][j].status], Volatile <- TRUE

MongoIsLedger == MongoLedger!Spec
ApiIsLedger   == ApiLedger!Spec

(* README: "polling completes instead of hanging at PENDING forever"       *)
(* without MongoDB: as long as it is asked, GET /result answers every      *)
(* accepted job in the end with its outcome, and from then on with nothing *)
(* else, late progress reports notwithstanding; unless a worker crashed,   *)
(* the API was restarted or a report was lost.                             *)
PollingCompletes ==
  \A j \in Polled : client[j] = "accepted" ~>
    [](\/ answer[j].status \in Outcome /\ answer[j].status = verdict[j]
       \/ faults # [crashes |-> 0, restarts |-> 0, lost |-> 0])

(* Refuted: services/analysis/api.js:145, "FAILURE - job raised an         *)
(* exception", as the meaning of the status GET /result/:jobId answers.    *)
FailureMeansRaised ==
  \A j \in Job : answer[j].status = "FAILURE" => verdict[j] = "FAILURE"
=============================================================================
