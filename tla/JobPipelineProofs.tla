-------------------------- MODULE JobPipelineProofs --------------------------
(***************************************************************************)
(* Theorems about JobPipeline, for any number of jobs, workers, stages,    *)
(* crashes, restarts and lost reports, and for any behaviour of MongoDB.   *)
(***************************************************************************)
EXTENDS JobPipeline, TLAPS

-----------------------------------------------------------------------------
(* The inductive invariant                                                 *)

\* run() is suspended at a call t: the first progress report or the result.
Awaited(t) == t.update.status \in Outcome \/ t.update.stage = "queued"

\* Where run() is agrees with the calls it awaits, of which there is one at most,
\* and with the job it is on, which is decided when its result is recorded.
RunsInStep ==
  /\ \A w \in Worker :
       /\ pc[w] \in {"down", "idle"} => current[w] = NoJob
       /\ pc[w] \in {"received", "analyzing"} =>
            current[w] \in Job /\ verdict[current[w]] = "none"
       /\ pc[w] = "recording" =>
            current[w] \in Job /\ verdict[current[w]] # "none"
  /\ \A t \in tasks : Awaited(t) =>
       /\ t.update.job = current[t.worker]
       /\ pc[t.worker] = IF t.update.status \in Outcome THEN "recording" ELSE "received"
  /\ \A t, u \in tasks : Awaited(t) /\ Awaited(u) /\ t.worker = u.worker => t = u

\* A job not yet handed to a worker is undecided.
Undecided ==
  \A j \in Job : client[j] = "new" \/ blocked = j => verdict[j] = "none"

\* ZeroMQ hands a job to one worker, at most one worker is on it, and once it was
\* taken or has ended it is in no queue and in no blocked send any more.
Queued(j, w) == \E i \in DOMAIN queue[w] : queue[w][i] = j
On(j, w)     == current[w] = j

JobInOnePlace ==
  \A j \in Job :
    /\ \A v, w \in Worker :
         /\ Queued(j, v) => blocked # j /\ ~On(j, w) /\ verdict[j] = "none"
         /\ On(j, v) => blocked # j
         /\ (Queued(j, v) /\ Queued(j, w)) \/ (On(j, v) /\ On(j, w)) => v = w
    /\ \A w \in Worker : \A m, n \in DOMAIN queue[w] :
         queue[w][m] = j /\ queue[w][n] = j => m = n
    /\ client[j] = "new" => /\ blocked # j
                            /\ \A w \in Worker : ~Queued(j, w) /\ ~On(j, w)

\* A job that was ever taken is nowhere it could be taken from again.
TakenForGood ==
  \A j \in Job : runs[j] # 0 =>
    /\ runs[j] = 1
    /\ client[j] # "new" /\ blocked # j /\ \A w \in Worker : ~Queued(j, w)

-----------------------------------------------------------------------------
(* Types                                                                   *)

LEMMA StagesTyped ==
  /\ Len(Stages) \in Nat
  /\ \A n \in 0 .. Len(Stages) : n < Len(Stages) => Stages[n + 1] \in Stage /\ n + 1 \in 0 .. Len(Stages)
  /\ {"none", "queued", "complete", "unavailable"} \subseteq Stage
  BY PipelineAssumption DEF PipelineAssumption, Stage

LEMMA SavedTyped ==
  ASSUME NEW r \in Record, NEW u \in Update
  PROVE  Saved(r, u) \in Record
  BY StagesTyped DEF Saved, WithResult, WithProgress, Record, Update, Outcome

LEMMA AbsentTyped == Absent \in Record
  BY StagesTyped DEF Absent, Record

\* What a save leaves of the memories and of MongoDB.
LEMMA SavesTyped ==
  ASSUME TypeOK, NEW u \in Update, NEW p \in Process
  PROVE  /\ SaveInMemory(p, u) => mem' \in [Process -> [Job -> Record]]
         /\ SaveInMongo(u) => mongo' \in [Job -> Record]
<1>1. u.job \in Job
  BY DEF Update
<1>2. /\ mem[p][u.job] \in Record /\ mongo[u.job] \in Record
  BY <1>1 DEF TypeOK
<1>3. /\ Saved(mem[p][u.job], u) \in Record /\ Saved(mongo[u.job], u) \in Record
  BY <1>2, SavedTyped
<1>4. ASSUME SaveInMemory(p, u) PROVE mem' \in [Process -> [Job -> Record]]
  BY <1>1, <1>3, <1>4 DEF SaveInMemory, TypeOK
<1>5. ASSUME SaveInMongo(u) PROVE mongo' \in [Job -> Record]
  BY <1>1, <1>3, <1>5 DEF SaveInMongo, TypeOK
<1>6. QED
  BY <1>4, <1>5

LEMMA ClientTyped ==
  ASSUME TypeOK, NEW j \in Job,
         Enqueue(j) \/ EnqueueBlocks(j) \/ EnqueueFails(j) \/ ClientTimeout(j)
  PROVE  TypeOK'
<1>1. CASE Enqueue(j)
  BY <1>1 DEF Enqueue, TypeOK, workerVars, pollVars
<1>2. CASE EnqueueBlocks(j)
  BY <1>2 DEF EnqueueBlocks, TypeOK, workerVars, pollVars
<1>3. CASE EnqueueFails(j)
  BY <1>3 DEF EnqueueFails, TypeOK, workerVars, pollVars
<1>4. CASE ClientTimeout(j)
  BY <1>4 DEF ClientTimeout, TypeOK, workerVars, pollVars
<1>5. QED
  BY <1>1, <1>2, <1>3, <1>4

LEMMA SubSeqTyped ==
  ASSUME NEW S, NEW s \in Seq(S), NEW m \in Nat, NEW n \in 0 .. Len(s), m >= 1
  PROVE  SubSeq(s, m, n) \in Seq(S)
  OBVIOUS

LEMMA FaultsTyped ==
  ASSUME TypeOK,
         \/ faults.crashes < MaxCrashes /\ faults' = [faults EXCEPT !.crashes = @ + 1]
         \/ faults.restarts < MaxRestarts /\ faults' = [faults EXCEPT !.restarts = @ + 1]
         \/ faults.lost < MaxLost /\ faults' = [faults EXCEPT !.lost = @ + 1]
  PROVE  faults' \in [crashes : 0 .. MaxCrashes, restarts : 0 .. MaxRestarts, lost : 0 .. MaxLost]
<1>1. faults \in [crashes : 0 .. MaxCrashes, restarts : 0 .. MaxRestarts, lost : 0 .. MaxLost]
  BY DEF TypeOK
<1>2. MaxCrashes \in Nat /\ MaxRestarts \in Nat /\ MaxLost \in Nat
  BY PipelineAssumption DEF PipelineAssumption
<1>3. /\ faults.crashes \in 0 .. MaxCrashes /\ faults.restarts \in 0 .. MaxRestarts
      /\ faults.lost \in 0 .. MaxLost
  BY <1>1
<1>4. \/ faults' = [faults EXCEPT !.crashes = @ + 1] /\ faults.crashes + 1 \in 0 .. MaxCrashes
      \/ faults' = [faults EXCEPT !.restarts = @ + 1] /\ faults.restarts + 1 \in 0 .. MaxRestarts
      \/ faults' = [faults EXCEPT !.lost = @ + 1] /\ faults.lost + 1 \in 0 .. MaxLost
  BY <1>2, <1>3
<1>5. QED
  BY <1>1, <1>4

LEMMA WorkerTyped ==
  ASSUME TypeOK, RunsInStep, NEW w \in Worker,
         StartWorker(w) \/ Unblock(w) \/ WorkerStep(w) \/ Crash(w) \/ Listen(w)
  PROVE  TypeOK'
<1>0. w \in Process /\ Api \in Process
  BY DEF Process
<1>1. CASE StartWorker(w)
  BY <1>1 DEF StartWorker, TypeOK, clientVars, pollVars
<1>2. CASE Unblock(w)
  <2>1. blocked \in Job
    BY <1>2 DEF Unblock, TypeOK
  <2>2. QED
    BY <1>2, <2>1 DEF Unblock, TypeOK, workerVars, pollVars
<1>3. CASE Receive(w)
  <2> DEFINE u == [job |-> Head(queue[w]), status |-> "PENDING", stage |-> "queued"]
  <2>1. /\ Head(queue[w]) \in Job /\ Tail(queue[w]) \in Seq(Job)
    BY <1>3 DEF Receive, TypeOK
  <2>2. u \in Update
    BY <2>1, StagesTyped DEF Update
  <2>3. mem' \in [Process -> [Job -> Record]]
    BY <1>0, <1>3, <2>2, SavesTyped DEF Receive, Record_
  <2>4. tasks' \subseteq Task
    BY <1>3, <2>2 DEF Receive, Record_, Task, TypeOK
  <2>5. QED
    BY <1>3, <2>1, <2>3, <2>4, StagesTyped DEF Receive, TypeOK, clientVars, pollVars
<1>4. CASE Progress(w)
  <2> DEFINE u == [job |-> current[w], status |-> "PENDING", stage |-> Stages[reported[w] + 1]]
  <2>1. current[w] \in Job
    BY <1>4 DEF Progress, RunsInStep
  <2>2. u \in Update
    BY <2>1, <1>4, StagesTyped DEF Update, Progress, TypeOK
  <2>3. mem' \in [Process -> [Job -> Record]]
    BY <1>0, <1>4, <2>2, SavesTyped DEF Progress, Record_
  <2>4. tasks' \subseteq Task
    BY <1>4, <2>2 DEF Progress, Record_, Task, TypeOK
  <2>5. QED
    BY <1>4, <2>3, <2>4, StagesTyped DEF Progress, TypeOK, clientVars, pollVars
<1>5. ASSUME NEW o \in Outcome, Finish(w, o) PROVE TypeOK'
  <2> DEFINE u == [job |-> current[w], status |-> o, stage |-> "none"]
  <2>1. current[w] \in Job
    BY <1>5 DEF Finish, RunsInStep
  <2>2. u \in Update
    BY <2>1, StagesTyped DEF Update
  <2>3. mem' \in [Process -> [Job -> Record]]
    BY <1>0, <1>5, <2>2, SavesTyped DEF Finish, Record_
  <2>4. tasks' \subseteq Task
    BY <1>5, <2>2 DEF Finish, Record_, Task, TypeOK
  <2>5. QED
    BY <1>5, <2>1, <2>3, <2>4 DEF Finish, TypeOK, clientVars, pollVars
<1>6. CASE Listen(w)
  <2>1. Head(channel[w]) \in Update /\ Tail(channel[w]) \in Seq(Update)
    BY <1>6 DEF Listen, TypeOK
  <2>2. mem' \in [Process -> [Job -> Record]]
    BY <1>0, <1>6, <2>1, SavesTyped DEF Listen
  <2>3. applying' \in {<<>>} \cup {<<u>> : u \in Update}
    BY <1>6, <2>1 DEF Listen
  <2>4. channel' \in [Worker -> Seq(Update)]
    BY <1>6, <2>1 DEF Listen, TypeOK
  <2>5. QED
    BY <1>6, <2>2, <2>3, <2>4 DEF Listen, TypeOK, clientVars, workerVars, pollVars
<1>7. CASE Crash(w)
  <2>1. PICK n \in 0 .. Len(channel[w]) : channel' = [channel EXCEPT ![w] = SubSeq(@, 1, n)]
    BY <1>7 DEF Crash
  <2>2. SubSeq(channel[w], 1, n) \in Seq(Update)
    BY SubSeqTyped DEF TypeOK
  <2>3. channel' \in [Worker -> Seq(Update)]
    BY <2>1, <2>2 DEF TypeOK
  <2>4. mem' \in [Process -> [Job -> Record]]
    BY <1>0, <1>7, AbsentTyped DEF Crash, TypeOK
  <2>5. faults' \in [crashes : 0 .. MaxCrashes, restarts : 0 .. MaxRestarts, lost : 0 .. MaxLost]
    <3>1. faults.crashes < MaxCrashes /\ faults' = [faults EXCEPT !.crashes = @ + 1]
      BY <1>7 DEF Crash
    <3>2. QED
      BY <3>1, FaultsTyped
  <2>6. /\ pc' \in [Worker -> {"down", "idle", "received", "analyzing", "recording"}]
        /\ current' \in [Worker -> Job \cup {NoJob}]
        /\ reported' \in [Worker -> 0 .. Len(Stages)]
        /\ queue' \in [Worker -> Seq(Job)]
        /\ tasks' \subseteq Task
    BY <1>7, StagesTyped DEF Crash, TypeOK
  <2>7. QED
    BY <1>7, <2>3, <2>4, <2>5, <2>6 DEF Crash, TypeOK, clientVars, pollVars
<1>8. QED
  BY <1>1, <1>2, <1>3, <1>4, <1>5, <1>6, <1>7 DEF WorkerStep

LEMMA TaskTyped ==
  ASSUME TypeOK, RunsInStep, NEW t \in tasks, TaskSave(t) \/ TaskReport(t)
  PROVE  TypeOK'
<1>0. t \in Task /\ t.worker \in Worker /\ t.update \in Update
  BY DEF TypeOK, Task
<1>1. CASE TaskSave(t)
  <2>1. mongo' \in [Job -> Record]
    BY <1>0, <1>1, SavesTyped DEF TaskSave, Process
  <2>2. tasks' \subseteq Task
    BY <1>0, <1>1 DEF TaskSave, TypeOK, Task
  <2>3. QED
    BY <1>1, <2>1, <2>2 DEF TaskSave, TypeOK, clientVars, workerVars, pollVars
<1>2. CASE TaskReport(t)
  <2>1. /\ pc' \in [Worker -> {"down", "idle", "received", "analyzing", "recording"}]
        /\ current' \in [Worker -> Job \cup {NoJob}]
    <3>1. CASE t.update.status \in Outcome
      BY <1>0, <1>2, <3>1 DEF TaskReport, Resume, TypeOK
    <3>2. CASE t.update.status \notin Outcome
      <4>1. UNCHANGED current
        BY <1>2, <3>2 DEF TaskReport, Resume
      <4>2. pc' = [pc EXCEPT ![t.worker] = "analyzing"] \/ pc' = [pc EXCEPT ![t.worker] = @]
        BY <1>2, <3>2 DEF TaskReport, Resume
      <4>3. QED
        BY <1>0, <4>1, <4>2 DEF TypeOK
    <3>3. QED
      BY <3>1, <3>2
  <2>2. channel' \in [Worker -> Seq(Update)]
    <3>1. \/ channel' = [channel EXCEPT ![t.worker] = Append(@, t.update)]
          \/ UNCHANGED channel
      BY <1>2 DEF TaskReport
    <3>2. Append(channel[t.worker], t.update) \in Seq(Update)
      BY <1>0 DEF TypeOK
    <3>3. QED
      BY <3>1, <3>2 DEF TypeOK
  <2>3. faults' \in [crashes : 0 .. MaxCrashes, restarts : 0 .. MaxRestarts, lost : 0 .. MaxLost]
    <3>1. \/ UNCHANGED faults
          \/ faults.lost < MaxLost /\ faults' = [faults EXCEPT !.lost = @ + 1]
      BY <1>2 DEF TaskReport
    <3>2. QED
      BY <3>1, FaultsTyped DEF TypeOK
  <2>4. QED
    BY <1>2, <2>1, <2>2, <2>3 DEF TaskReport, TypeOK, clientVars, pollVars
<1>3. QED
  BY <1>1, <1>2

LEMMA ApiTyped ==
  ASSUME TypeOK,
         ListenSave \/ RestartApi
           \/ \E j \in Polled : PollMemory(j) \/ PollMiss(j) \/ PollMongo(j)
  PROVE  TypeOK'
<1>0. Api \in Process /\ Polled \subseteq Job
  BY PipelineAssumption DEF Process, PipelineAssumption
<1>1. CASE ListenSave
  <2>1. Head(applying) \in Update
    BY <1>1 DEF ListenSave, TypeOK
  <2>2. mongo' \in [Job -> Record]
    BY <1>0, <1>1, <2>1, SavesTyped DEF ListenSave
  <2>3. QED
    BY <1>1, <2>2 DEF ListenSave, TypeOK, clientVars, workerVars, pollVars
<1>2. CASE RestartApi
  <2>1. PICK kept \in [Worker -> 0 .. MaxUpdates] :
          /\ \A w \in Worker : kept[w] \in 0 .. Len(queue[w])
          /\ queue' = [w \in Worker |-> SubSeq(queue[w], 1, kept[w])]
    BY <1>2 DEF RestartApi
  <2>2. PICK gone \in [Worker -> 0 .. MaxUpdates] :
          /\ \A w \in Worker : gone[w] \in 0 .. Len(channel[w])
          /\ channel' = [w \in Worker |->
                           SubSeq(channel[w], gone[w] + 1, Len(channel[w]))]
    BY <1>2 DEF RestartApi
  <2>3. \A w \in Worker : /\ SubSeq(queue[w], 1, kept[w]) \in Seq(Job)
                          /\ SubSeq(channel[w], gone[w] + 1, Len(channel[w])) \in Seq(Update)
    <3> TAKE w \in Worker
    <3>1. queue[w] \in Seq(Job) /\ channel[w] \in Seq(Update)
      BY DEF TypeOK
    <3>2. Len(channel[w]) \in 0 .. Len(channel[w]) /\ gone[w] + 1 \in Nat /\ gone[w] + 1 >= 1
      BY <2>2, <3>1
    <3>3. QED
      BY <2>1, <3>1, <3>2, SubSeqTyped
  <2>4. queue' \in [Worker -> Seq(Job)] /\ channel' \in [Worker -> Seq(Update)]
    BY <2>1, <2>2, <2>3
  <2>5. mem' \in [Process -> [Job -> Record]]
    BY <1>0, <1>2, AbsentTyped DEF RestartApi, TypeOK
  <2>6. faults' \in [crashes : 0 .. MaxCrashes, restarts : 0 .. MaxRestarts, lost : 0 .. MaxLost]
    <3>1. faults.restarts < MaxRestarts /\ faults' = [faults EXCEPT !.restarts = @ + 1]
      BY <1>2 DEF RestartApi
    <3>2. QED
      BY <3>1, FaultsTyped
  <2>7. client' \in [Job -> {"new", "waiting", "accepted", "refused"}]
    BY <1>2 DEF RestartApi, TypeOK
  <2>8. QED
    BY <1>2, <2>4, <2>5, <2>6, <2>7 DEF RestartApi, TypeOK, workerVars
<1>3. ASSUME NEW j \in Polled, PollMemory(j) \/ PollMiss(j) \/ PollMongo(j)
      PROVE  TypeOK'
  <2>1. /\ mem[Api][j] \in Record /\ mongo[j] \in Record /\ j \in Job
    BY <1>0 DEF TypeOK
  <2>2. MongoAnswer(j) \in Record /\ Unavailable \in Record
    BY <2>1, StagesTyped DEF MongoAnswer, Unavailable, Record, Outcome
  <2>3. answer' \in [Job -> Record] /\ reading' \subseteq Job
    <3>1. CASE PollMemory(j)
      BY <2>1, <3>1 DEF PollMemory, TypeOK
    <3>2. CASE PollMiss(j)
      BY <2>1, <3>2 DEF PollMiss, TypeOK
    <3>3. CASE PollMongo(j)
      <4>1. \/ answer' = [answer EXCEPT ![j] = MongoAnswer(j)]
            \/ answer' = [answer EXCEPT ![j] = Unavailable]
        BY <3>3 DEF PollMongo
      <4>2. reading' \subseteq Job
        BY <3>3 DEF PollMongo, TypeOK
      <4>3. answer \in [Job -> Record]
        BY DEF TypeOK
      <4>4. QED
        BY <2>1, <2>2, <4>1, <4>2, <4>3
    <3>4. QED
      BY <1>3, <3>1, <3>2, <3>3
  <2>4. UNCHANGED <<client, blocked, queue, pc, current, reported, tasks, channel,
                    applying, mem, mongo, verdict, runs, faults>>
    BY <1>3 DEF PollMemory, PollMiss, PollMongo, clientVars, workerVars
  <2>5. QED
    BY <2>3, <2>4 DEF TypeOK
<1>4. QED
  BY <1>1, <1>2, <1>3

-----------------------------------------------------------------------------
(* Where a job can be                                                      *)

\* A step that only takes jobs away from where they are keeps them in one place.
LEMMA TakingAway ==
  ASSUME TypeOK, JobInOnePlace, Undecided,
         \A j \in Job : client'[j] = "new" => client[j] = "new",
         blocked' = blocked \/ blocked' = NoJob,
         \A w \in Worker : \A i \in DOMAIN queue'[w] :
            i \in DOMAIN queue[w] /\ queue'[w][i] = queue[w][i],
         \A w \in Worker : current'[w] = current[w] \/ current'[w] = NoJob,
         UNCHANGED verdict
  PROVE  JobInOnePlace' /\ Undecided'
<1>0. NoJob \notin Job
  BY PipelineAssumption DEF PipelineAssumption
<1>1. \A j \in Job, w \in Worker : /\ Queued(j, w)' => Queued(j, w)
                                  /\ On(j, w)' => On(j, w)
  BY <1>0 DEF Queued, On
<1>2. \A j \in Job : blocked' = j => blocked = j
  BY <1>0
<1>3. Undecided'
  BY <1>2 DEF Undecided
<1>4. \A j \in Job, v, w \in Worker :
        /\ Queued(j, v)' => blocked' # j /\ ~On(j, w)' /\ verdict'[j] = "none"
        /\ On(j, v)' => blocked' # j
        /\ (Queued(j, v)' /\ Queued(j, w)') \/ (On(j, v)' /\ On(j, w)') => v = w
  <2> TAKE j \in Job, v, w \in Worker
  <2>1. /\ Queued(j, v) => blocked # j /\ ~On(j, w) /\ verdict[j] = "none"
        /\ On(j, v) => blocked # j
        /\ (Queued(j, v) /\ Queued(j, w)) \/ (On(j, v) /\ On(j, w)) => v = w
    BY DEF JobInOnePlace
  <2>2. /\ Queued(j, v)' => Queued(j, v)
        /\ Queued(j, w)' => Queued(j, w)
        /\ On(j, v)' => On(j, v)
        /\ On(j, w)' => On(j, w)
    BY <1>1 DEF Queued, On
  <2>3. QED
    BY <1>2, <2>1, <2>2
<1>5. \A j \in Job : client'[j] = "new" =>
        blocked' # j /\ \A w \in Worker : ~Queued(j, w)' /\ ~On(j, w)'
  <2> TAKE j \in Job
  <2>1. client[j] = "new" => blocked # j /\ \A w \in Worker : ~Queued(j, w) /\ ~On(j, w)
    BY DEF JobInOnePlace
  <2>2. \A w \in Worker : /\ Queued(j, w)' => Queued(j, w)
                          /\ On(j, w)' => On(j, w)
    BY <1>1 DEF Queued, On
  <2>3. QED
    BY <1>2, <2>1, <2>2 DEF Queued, On
<1>6. \A j \in Job, w \in Worker : \A m, n \in DOMAIN queue'[w] :
        queue'[w][m] = j /\ queue'[w][n] = j => m = n
  BY DEF JobInOnePlace
<1>7. QED
  BY <1>3, <1>4, <1>5, <1>6 DEF JobInOnePlace

\* A job that is nowhere yet, or blocked, goes to the end of a queue.
LEMMA HandingOver ==
  ASSUME TypeOK, JobInOnePlace, Undecided, NEW j \in Job, NEW w \in Worker,
         \/ client[j] = "new" /\ blocked = NoJob
         \/ client[j] # "new" /\ blocked = j,
         blocked' = NoJob,
         queue' = [queue EXCEPT ![w] = Append(@, j)],
         \A i \in Job : client'[i] = "new" => client[i] = "new" /\ i # j,
         UNCHANGED <<current, verdict>>
  PROVE  JobInOnePlace' /\ Undecided'
<1>0. NoJob \notin Job /\ queue \in [Worker -> Seq(Job)]
  BY PipelineAssumption DEF PipelineAssumption, TypeOK
<1>1. /\ verdict[j] = "none" /\ \A v \in Worker : ~Queued(j, v) /\ ~On(j, v)
  BY DEF JobInOnePlace, Undecided
<1>2. \A v \in Worker : v # w => queue'[v] = queue[v]
  BY <1>0
<1>3. /\ DOMAIN queue'[w] = DOMAIN queue[w] \cup {Len(queue[w]) + 1}
      /\ queue'[w][Len(queue[w]) + 1] = j
      /\ \A i \in DOMAIN queue[w] : queue'[w][i] = queue[w][i]
      /\ Len(queue[w]) + 1 \notin DOMAIN queue[w]
  BY <1>0
<1>4. \A i \in Job, v \in Worker :
        /\ Queued(i, v)' => Queued(i, v) \/ (i = j /\ v = w)
        /\ On(i, v)' <=> On(i, v)
  BY <1>2, <1>3 DEF Queued, On
<1>5. Undecided'
  BY <1>0 DEF Undecided
<1>6. \A i \in Job, u, v \in Worker :
        /\ Queued(i, u)' => blocked' # i /\ ~On(i, v)' /\ verdict'[i] = "none"
        /\ On(i, u)' => blocked' # i
        /\ (Queued(i, u)' /\ Queued(i, v)') \/ (On(i, u)' /\ On(i, v)') => u = v
  BY <1>0, <1>1, <1>4 DEF JobInOnePlace
<1>7. \A i \in Job : client'[i] = "new" =>
        blocked' # i /\ \A v \in Worker : ~Queued(i, v)' /\ ~On(i, v)'
  BY <1>0, <1>1, <1>4 DEF JobInOnePlace
<1>8. \A i \in Job, v \in Worker : \A m, n \in DOMAIN queue'[v] :
        queue'[v][m] = i /\ queue'[v][n] = i => m = n
  BY <1>1, <1>2, <1>3 DEF JobInOnePlace, Queued
<1>9. QED
  BY <1>5, <1>6, <1>7, <1>8 DEF JobInOnePlace

\* The worker takes the job at the head of its queue.
LEMMA Receiving ==
  ASSUME TypeOK, RunsInStep, JobInOnePlace, Undecided, NEW w \in Worker, Receive(w)
  PROVE  JobInOnePlace' /\ Undecided'
<1>h. PICK h \in Job : h = Head(queue[w])
  BY DEF Receive, TypeOK
<1>0. NoJob \notin Job /\ queue \in [Worker -> Seq(Job)] /\ current \in [Worker -> Job \cup {NoJob}]
  BY PipelineAssumption DEF PipelineAssumption, TypeOK
<1>1. /\ queue[w] # <<>> /\ current[w] = NoJob
      /\ queue' = [queue EXCEPT ![w] = Tail(@)] /\ current' = [current EXCEPT ![w] = h]
      /\ UNCHANGED <<client, blocked, verdict>>
  BY <1>h DEF Receive, RunsInStep, clientVars
<1>2. /\ h \in Job /\ 1 \in DOMAIN queue[w] /\ queue[w][1] = h
      /\ \A i \in DOMAIN queue'[w] : i + 1 \in DOMAIN queue[w] /\ queue'[w][i] = queue[w][i + 1] /\ i \in Nat \ {0}
      /\ \A v \in Worker : v # w => queue'[v] = queue[v] /\ current'[v] = current[v]
      /\ current'[w] = h
  BY <1>h, <1>0, <1>1
<1>3. \A j \in Job, v \in Worker : Queued(j, v)' => Queued(j, v)
  BY <1>2 DEF Queued
<1>4. Queued(h, w) /\ \A v \in Worker : ~Queued(h, v)'
  <2>1. Queued(h, w)
    BY <1>2 DEF Queued
  <2>2. ASSUME NEW v \in Worker, Queued(h, v)' PROVE FALSE
    <3>1. Queued(h, v)
      BY <1>2, <1>3, <2>2 DEF Queued
    <3>2. v = w
      BY <1>2, <2>1, <3>1 DEF JobInOnePlace
    <3>3. PICK i \in DOMAIN queue'[w] : queue'[w][i] = h
      BY <2>2, <3>2 DEF Queued
    <3>4. i + 1 \in DOMAIN queue[w] /\ queue[w][i + 1] = h /\ i \in Nat \ {0}
      BY <1>2, <3>3
    <3>5. i + 1 = 1
      BY <1>2, <3>4 DEF JobInOnePlace
    <3>6. QED
      BY <3>4, <3>5
  <2>3. QED
    BY <2>1, <2>2 DEF Queued
<1>5. \A j \in Job, v \in Worker : On(j, v)' => On(j, v) \/ (j = h /\ v = w)
  BY <1>2 DEF On
<1>6. /\ verdict[h] = "none" /\ blocked # h /\ client[h] # "new"
      /\ \A v \in Worker : ~On(h, v)
  BY <1>2, <1>4 DEF JobInOnePlace
<1>7. Undecided'
  BY <1>1 DEF Undecided
<1>8. \A j \in Job, u, v \in Worker :
        /\ Queued(j, u)' => blocked' # j /\ ~On(j, v)' /\ verdict'[j] = "none"
        /\ On(j, u)' => blocked' # j
        /\ (Queued(j, u)' /\ Queued(j, v)') \/ (On(j, u)' /\ On(j, v)') => u = v
  <2> TAKE j \in Job, u, v \in Worker
  <2>1. /\ Queued(j, u) => blocked # j /\ ~On(j, v) /\ verdict[j] = "none"
        /\ On(j, u) => blocked # j
        /\ (Queued(j, u) /\ Queued(j, v)) \/ (On(j, u) /\ On(j, v)) => u = v
    BY DEF JobInOnePlace
  <2>2. /\ Queued(j, u)' => Queued(j, u) /\ j # h
        /\ Queued(j, v)' => Queued(j, v) /\ j # h
    BY <1>3, <1>4 DEF Queued
  <2>3. /\ On(j, u)' => On(j, u) \/ (j = h /\ u = w)
        /\ On(j, v)' => On(j, v) \/ (j = h /\ v = w)
        /\ j = h => ~On(j, u) /\ ~On(j, v)
    BY <1>5, <1>6 DEF On
  <2>4. QED
    BY <1>1, <1>6, <2>1, <2>2, <2>3
<1>9. \A j \in Job : client'[j] = "new" =>
        blocked' # j /\ \A v \in Worker : ~Queued(j, v)' /\ ~On(j, v)'
  <2> TAKE j \in Job
  <2>1. client[j] = "new" => blocked # j /\ \A v \in Worker : ~Queued(j, v) /\ ~On(j, v)
    BY DEF JobInOnePlace
  <2>2. \A v \in Worker : /\ Queued(j, v)' => Queued(j, v)
                          /\ On(j, v)' => On(j, v) \/ j = h
    BY <1>3, <1>5 DEF Queued, On
  <2>3. QED
    BY <1>1, <1>6, <2>1, <2>2 DEF Queued, On
<1>10. \A j \in Job, v \in Worker : \A m, n \in DOMAIN queue'[v] :
         queue'[v][m] = j /\ queue'[v][n] = j => m = n
  <2> TAKE j \in Job, v \in Worker
  <2>1. \A m, n \in DOMAIN queue[v] : queue[v][m] = j /\ queue[v][n] = j => m = n
    BY DEF JobInOnePlace
  <2>2. CASE v # w
    BY <1>2, <2>1, <2>2
  <2>3. CASE v = w
    <3> TAKE m, n \in DOMAIN queue'[v]
    <3>1. m + 1 \in DOMAIN queue[v] /\ n + 1 \in DOMAIN queue[v] /\ m \in Nat /\ n \in Nat
      BY <1>2, <2>3
    <3>2. queue'[v][m] = queue[v][m + 1] /\ queue'[v][n] = queue[v][n + 1]
      BY <1>2, <2>3
    <3>3. queue'[v][m] = j /\ queue'[v][n] = j => m + 1 = n + 1
      BY <2>1, <3>1, <3>2
    <3>4. QED
      BY <3>1, <3>3
  <2>4. QED
    BY <2>2, <2>3
<1>11. QED
  BY <1>7, <1>8, <1>9, <1>10 DEF JobInOnePlace

\* The job that is decided is in no queue, in no blocked send and not new.
LEMMA Deciding ==
  ASSUME TypeOK, RunsInStep, JobInOnePlace, Undecided,
         NEW w \in Worker, NEW o \in Outcome, Finish(w, o)
  PROVE  JobInOnePlace' /\ Undecided'
<1>1. /\ current[w] \in Job /\ verdict \in [Job -> {"none"} \cup Outcome]
      /\ verdict' = [verdict EXCEPT ![current[w]] = o]
      /\ UNCHANGED <<client, blocked, queue, current>>
  BY DEF Finish, RunsInStep, TypeOK, clientVars
<1>2. /\ On(current[w], w) /\ blocked # current[w] /\ client[current[w]] # "new"
      /\ \A v \in Worker : ~Queued(current[w], v)
  BY <1>1 DEF JobInOnePlace, On
<1>3. Undecided'
  BY <1>1, <1>2 DEF Undecided
<1>4. \A j \in Job, v \in Worker : (Queued(j, v)' => Queued(j, v)) /\ (On(j, v)' => On(j, v))
  BY <1>1 DEF Queued, On
<1>5. \A j \in Job : j # current[w] => verdict'[j] = verdict[j]
  BY <1>1
<1>6. \A j \in Job, v \in Worker : Queued(j, v) => verdict'[j] = verdict[j]
  BY <1>2, <1>5
<1>7. JobInOnePlace'
  BY <1>1, <1>4, <1>6 DEF JobInOnePlace, Queued, On
<1>8. QED
  BY <1>3, <1>7

\* The one send that may block is of a job that was new.
LEMMA Blocking ==
  ASSUME TypeOK, JobInOnePlace, Undecided, NEW j \in Job, EnqueueBlocks(j)
  PROVE  JobInOnePlace' /\ Undecided'
<1>1. /\ client[j] = "new" /\ blocked = NoJob /\ blocked' = j
      /\ client \in [Job -> {"new", "waiting", "accepted", "refused"}]
      /\ client' = [client EXCEPT ![j] = "waiting"]
      /\ UNCHANGED <<queue, current, verdict>>
  BY DEF EnqueueBlocks, workerVars, TypeOK
<1>2. verdict[j] = "none" /\ \A v \in Worker : ~Queued(j, v) /\ ~On(j, v)
  BY <1>1 DEF JobInOnePlace, Undecided
<1>3. \A i \in Job : client'[i] = "new" => client[i] = "new" /\ i # j
  BY <1>1
<1>4. Undecided'
  BY <1>1, <1>2, <1>3 DEF Undecided
<1>5. JobInOnePlace'
  BY <1>1, <1>2, <1>3 DEF JobInOnePlace, Queued, On
<1>6. QED
  BY <1>4, <1>5

\* Every other step leaves the jobs where they are or takes some away.
LEMMA PlacesKept ==
  ASSUME TypeOK, RunsInStep, JobInOnePlace, Undecided, Next
  PROVE  JobInOnePlace' /\ Undecided'
<1> DEFINE Places == <<client, blocked, queue, current, verdict>>
<1>0. /\ NoJob \notin Job /\ queue \in [Worker -> Seq(Job)]
      /\ client \in [Job -> {"new", "waiting", "accepted", "refused"}]
      /\ current \in [Worker -> Job \cup {NoJob}]
      /\ blocked \in Job \cup {NoJob}
  BY PipelineAssumption DEF PipelineAssumption, TypeOK
<1>1. ASSUME UNCHANGED Places PROVE JobInOnePlace' /\ Undecided'
  <2>1. UNCHANGED <<client, blocked, queue, current, verdict>>
    BY <1>1
  <2>2. QED
    BY <2>1, TakingAway
<1>2. ASSUME NEW j \in Job, Enqueue(j) PROVE JobInOnePlace' /\ Undecided'
  <2>1. PICK w \in Worker : queue' = [queue EXCEPT ![w] = Append(@, j)]
    BY <1>2 DEF Enqueue
  <2>2. /\ client[j] = "new" /\ blocked = NoJob /\ blocked' = NoJob
        /\ UNCHANGED <<current, verdict>>
        /\ client' = [client EXCEPT ![j] = "accepted"]
    BY <1>2 DEF Enqueue, workerVars
  <2>3. \A i \in Job : client'[i] = "new" => client[i] = "new" /\ i # j
    BY <1>0, <2>2
  <2>4. QED
    BY <2>1, <2>2, <2>3, HandingOver
<1>3. ASSUME NEW j \in Job, EnqueueFails(j) \/ ClientTimeout(j)
      PROVE  JobInOnePlace' /\ Undecided'
  <2>1. /\ UNCHANGED <<blocked, queue, current, verdict>>
        /\ client' = [client EXCEPT ![j] = "refused"]
    BY <1>3 DEF EnqueueFails, ClientTimeout, workerVars
  <2>2. \A i \in Job : client'[i] = "new" => client[i] = "new"
    BY <1>0, <2>1
  <2>3. QED
    BY <2>1, <2>2, TakingAway
<1>4. ASSUME NEW w \in Worker, Unblock(w) PROVE JobInOnePlace' /\ Undecided'
  <2>1. PICK j \in Job : blocked = j
    BY <1>0, <1>4 DEF Unblock
  <2>2. /\ queue' = [queue EXCEPT ![w] = Append(@, j)] /\ blocked' = NoJob
        /\ client' = [client EXCEPT ![j] = IF @ = "waiting" THEN "accepted" ELSE @]
        /\ UNCHANGED <<current, verdict>>
    BY <1>4, <2>1 DEF Unblock, workerVars
  <2>3. client[j] # "new"
    BY <2>1 DEF JobInOnePlace
  <2>4. \A i \in Job : client'[i] = "new" => client[i] = "new" /\ i # j
    BY <1>0, <2>2, <2>3
  <2>5. QED
    BY <2>1, <2>2, <2>3, <2>4, HandingOver
<1>5. ASSUME NEW w \in Worker, Crash(w) PROVE JobInOnePlace' /\ Undecided'
  <2>1. /\ UNCHANGED <<client, blocked, verdict>>
        /\ queue' = [queue EXCEPT ![w] = <<>>] /\ current' = [current EXCEPT ![w] = NoJob]
    BY <1>5 DEF Crash, clientVars
  <2>2. \A v \in Worker : \A i \in DOMAIN queue'[v] :
          i \in DOMAIN queue[v] /\ queue'[v][i] = queue[v][i]
    BY <1>0, <2>1
  <2>3. \A v \in Worker : current'[v] = current[v] \/ current'[v] = NoJob
    BY <1>0, <2>1
  <2>4. QED
    BY <2>1, <2>2, <2>3, TakingAway
<1>6. ASSUME NEW t \in tasks, TaskReport(t) PROVE JobInOnePlace' /\ Undecided'
  <2>1. UNCHANGED <<client, blocked, queue, verdict>>
    BY <1>6 DEF TaskReport, clientVars
  <2>2. current' = [current EXCEPT ![t.worker] = NoJob] \/ UNCHANGED current
    BY <1>6 DEF TaskReport, Resume
  <2>3. \A v \in Worker : current'[v] = current[v] \/ current'[v] = NoJob
    BY <1>0, <2>2
  <2>4. QED
    BY <2>1, <2>3, TakingAway
<1>7. ASSUME RestartApi PROVE JobInOnePlace' /\ Undecided'
  <2>1. PICK kept \in [Worker -> 0 .. MaxUpdates] :
          /\ \A w \in Worker : kept[w] \in 0 .. Len(queue[w])
          /\ queue' = [w \in Worker |-> SubSeq(queue[w], 1, kept[w])]
    BY <1>7 DEF RestartApi
  <2>2. \A w \in Worker : \A i \in DOMAIN queue'[w] :
          i \in DOMAIN queue[w] /\ queue'[w][i] = queue[w][i]
    BY <1>0, <2>1
  <2>3. /\ blocked' = NoJob /\ UNCHANGED <<current, verdict>>
        /\ client' = [j \in Job |-> IF client[j] = "waiting" THEN "refused" ELSE client[j]]
    BY <1>7 DEF RestartApi, workerVars
  <2>4. \A j \in Job : client'[j] = "new" => client[j] = "new"
    BY <2>3
  <2>5. QED
    BY <2>2, <2>3, <2>4, TakingAway
<1>8. ASSUME NEW w \in Worker, StartWorker(w) \/ Progress(w) \/ Listen(w)
      PROVE  UNCHANGED Places
  BY <1>8 DEF StartWorker, Progress, Listen, clientVars, workerVars
<1>9. ASSUME ListenSave \/ \E t \in tasks : TaskSave(t) PROVE UNCHANGED Places
  BY <1>9 DEF ListenSave, TaskSave, clientVars, workerVars
<1>10. ASSUME NEW j \in Polled, PollMemory(j) \/ PollMiss(j) \/ PollMongo(j)
       PROVE  UNCHANGED Places
  BY <1>10 DEF PollMemory, PollMiss, PollMongo, clientVars, workerVars
<1>11. QED
  BY <1>1, <1>2, <1>3, <1>4, <1>5, <1>6, <1>7, <1>8, <1>9, <1>10, Blocking, Receiving, Deciding
     DEF Next, WorkerStep, TaskStep

-----------------------------------------------------------------------------
(* How often a job is taken                                                *)

\* Taking nothing, a step must only not bring a taken job back.
LEMMA NothingTaken ==
  ASSUME TypeOK, TakenForGood, UNCHANGED runs,
         \A j \in Job : client'[j] = "new" => client[j] = "new",
         \A j \in Job : blocked' = j => blocked = j \/ runs[j] = 0,
         \A j \in Job, w \in Worker : Queued(j, w)' => Queued(j, w) \/ runs[j] = 0
  PROVE  TakenForGood'
  BY DEF TakenForGood, Queued

\* A step adds at most one job to a queue.
LEMMA QueuedAfter ==
  ASSUME TypeOK, NEW j \in Job, NEW w \in Worker, queue' = [queue EXCEPT ![w] = Append(@, j)]
  PROVE  \A i \in Job, v \in Worker : Queued(i, v)' => Queued(i, v) \/ i = j
<1> SUFFICES ASSUME NEW i \in Job, NEW v \in Worker, Queued(i, v)', i # j PROVE Queued(i, v)
  BY DEF Queued
<1>1. queue \in [Worker -> Seq(Job)]
  BY DEF TypeOK
<1>2. PICK n \in DOMAIN queue'[v] : queue'[v][n] = i
  BY DEF Queued
<1>3. n \in DOMAIN queue[v] /\ queue'[v][n] = queue[v][n]
  BY <1>1, <1>2
<1>4. QED
  BY <1>2, <1>3 DEF Queued

\* The job a worker takes was never taken before, and is nowhere else.
LEMMA Taking ==
  ASSUME TypeOK, RunsInStep, JobInOnePlace, TakenForGood, JobInOnePlace',
         NEW w \in Worker, Receive(w)
  PROVE  TakenForGood'
<1>1. PICK h \in Job : h = Head(queue[w])
  BY DEF Receive, TypeOK
<1>2. /\ queue \in [Worker -> Seq(Job)] /\ runs \in [Job -> Nat] /\ queue[w] # <<>>
      /\ queue' = [queue EXCEPT ![w] = Tail(@)] /\ current' = [current EXCEPT ![w] = h]
      /\ current \in [Worker -> Job \cup {NoJob}]
      /\ runs' = [runs EXCEPT ![h] = @ + 1] /\ UNCHANGED <<client, blocked>>
  BY <1>1 DEF Receive, TypeOK, clientVars
<1>3. Queued(h, w) /\ On(h, w)'
  BY <1>1, <1>2 DEF Queued, On
<1>4. /\ runs[h] = 0 /\ client[h] # "new" /\ blocked # h
      /\ \A v \in Worker : ~Queued(h, v)'
  BY <1>2, <1>3 DEF TakenForGood, JobInOnePlace
<1>5. \A j \in Job, v \in Worker : Queued(j, v)' => Queued(j, v)
  <2> SUFFICES ASSUME NEW j \in Job, NEW v \in Worker, Queued(j, v)' PROVE Queued(j, v)
    BY DEF Queued
  <2>1. PICK n \in DOMAIN queue'[v] : queue'[v][n] = j
    BY DEF Queued
  <2>2. CASE v = w
    <3>1. n + 1 \in DOMAIN queue[w] /\ queue[w][n + 1] = j
      BY <1>2, <2>1, <2>2
    <3>2. QED
      BY <2>2, <3>1 DEF Queued
  <2>3. CASE v # w
    BY <1>2, <2>1, <2>3 DEF Queued
  <2>4. QED
    BY <2>2, <2>3
<1>6. runs'[h] = 1 /\ \A j \in Job : j # h => runs'[j] = runs[j]
  BY <1>2, <1>4
<1>7. QED
  BY <1>2, <1>4, <1>5, <1>6 DEF TakenForGood, Queued

LEMMA TakenKept ==
  ASSUME TypeOK, RunsInStep, JobInOnePlace, TakenForGood, JobInOnePlace', Next
  PROVE  TakenForGood'
<1> DEFINE Places == <<client, blocked, queue, runs>>
<1>0. /\ NoJob \notin Job /\ queue \in [Worker -> Seq(Job)]
      /\ client \in [Job -> {"new", "waiting", "accepted", "refused"}]
  BY PipelineAssumption DEF PipelineAssumption, TypeOK
<1>1. ASSUME UNCHANGED Places PROVE TakenForGood'
  BY <1>1 DEF TakenForGood, Queued
<1>2. ASSUME NEW j \in Job, Enqueue(j) PROVE TakenForGood'
  <2>1. PICK w \in Worker : queue' = [queue EXCEPT ![w] = Append(@, j)]
    BY <1>2 DEF Enqueue
  <2>2. /\ client[j] = "new" /\ client' = [client EXCEPT ![j] = "accepted"]
        /\ UNCHANGED <<blocked, runs>>
    BY <1>2 DEF Enqueue
  <2>3. runs[j] = 0
    BY <2>2 DEF TakenForGood
  <2>4. \A i \in Job : client'[i] = "new" => client[i] = "new"
    BY <1>0, <2>2
  <2>5. \A i \in Job, v \in Worker : Queued(i, v)' => Queued(i, v) \/ runs[i] = 0
    BY <2>1, <2>3, QueuedAfter
  <2>6. QED
    BY <2>2, <2>4, <2>5, NothingTaken
<1>3. ASSUME NEW j \in Job, EnqueueBlocks(j) PROVE TakenForGood'
  <2>1. /\ client[j] = "new" /\ client' = [client EXCEPT ![j] = "waiting"]
        /\ blocked' = j /\ UNCHANGED <<queue, runs>>
    BY <1>3 DEF EnqueueBlocks
  <2>2. runs[j] = 0
    BY <2>1 DEF TakenForGood
  <2>3. \A i \in Job : client'[i] = "new" => client[i] = "new"
    BY <1>0, <2>1
  <2>4. QED
    BY <2>1, <2>2, <2>3, NothingTaken DEF Queued
<1>4. ASSUME NEW j \in Job, EnqueueFails(j) \/ ClientTimeout(j) PROVE TakenForGood'
  <2>1. /\ client' = [client EXCEPT ![j] = "refused"] /\ UNCHANGED <<blocked, queue, runs>>
    BY <1>4 DEF EnqueueFails, ClientTimeout
  <2>2. \A i \in Job : client'[i] = "new" => client[i] = "new"
    BY <1>0, <2>1
  <2>3. QED
    BY <2>1, <2>2, NothingTaken DEF Queued
<1>5. ASSUME NEW w \in Worker, Unblock(w) PROVE TakenForGood'
  <2>1. PICK j \in Job : blocked = j
    BY <1>5 DEF Unblock, TypeOK
  <2>2. /\ queue' = [queue EXCEPT ![w] = Append(@, j)] /\ blocked' = NoJob
        /\ client' = [client EXCEPT ![j] = IF @ = "waiting" THEN "accepted" ELSE @]
        /\ UNCHANGED runs
    BY <1>5, <2>1 DEF Unblock
  <2>3. runs[j] = 0
    BY <2>1 DEF TakenForGood
  <2>4. \A i \in Job : client'[i] = "new" => client[i] = "new"
    BY <1>0, <2>2
  <2>5. \A i \in Job, v \in Worker : Queued(i, v)' => Queued(i, v) \/ runs[i] = 0
    BY <2>2, <2>3, QueuedAfter
  <2>6. \A i \in Job : blocked' # i
    BY <1>0, <2>2
  <2>7. QED
    BY <2>2, <2>4, <2>5, <2>6, NothingTaken
<1>6. ASSUME NEW w \in Worker, Crash(w) PROVE TakenForGood'
  <2>1. queue' = [queue EXCEPT ![w] = <<>>] /\ UNCHANGED <<client, blocked, runs>>
    BY <1>6 DEF Crash, clientVars
  <2>2. \A i \in Job, v \in Worker : Queued(i, v)' => Queued(i, v)
    BY <1>0, <2>1 DEF Queued
  <2>3. QED
    BY <2>1, <2>2, NothingTaken
<1>7. ASSUME RestartApi PROVE TakenForGood'
  <2>1. PICK kept \in [Worker -> 0 .. MaxUpdates] :
          /\ \A w \in Worker : kept[w] \in 0 .. Len(queue[w])
          /\ queue' = [w \in Worker |-> SubSeq(queue[w], 1, kept[w])]
    BY <1>7 DEF RestartApi
  <2>2. \A w \in Worker : \A i \in DOMAIN queue'[w] :
          i \in DOMAIN queue[w] /\ queue'[w][i] = queue[w][i]
    BY <1>0, <2>1
  <2>3. \A i \in Job, v \in Worker : Queued(i, v)' => Queued(i, v)
    BY <2>2 DEF Queued
  <2>4. /\ blocked' = NoJob /\ UNCHANGED runs
        /\ client' = [j \in Job |-> IF client[j] = "waiting" THEN "refused" ELSE client[j]]
    BY <1>7 DEF RestartApi
  <2>5. /\ \A j \in Job : client'[j] = "new" => client[j] = "new"
        /\ \A j \in Job : blocked' # j
    BY <1>0, <2>4
  <2>6. QED
    BY <2>3, <2>4, <2>5, NothingTaken
<1>8. ASSUME NEW w \in Worker,
             StartWorker(w) \/ Progress(w) \/ Listen(w) \/ \E o \in Outcome : Finish(w, o)
      PROVE  UNCHANGED Places
  BY <1>8 DEF StartWorker, Progress, Listen, Finish, clientVars, workerVars
<1>9. ASSUME ListenSave \/ \E t \in tasks : TaskSave(t) \/ TaskReport(t) PROVE UNCHANGED Places
  BY <1>9 DEF ListenSave, TaskSave, TaskReport, clientVars, workerVars
<1>10. ASSUME NEW j \in Polled, PollMemory(j) \/ PollMiss(j) \/ PollMongo(j)
       PROVE  UNCHANGED Places
  BY <1>10 DEF PollMemory, PollMiss, PollMongo, clientVars, workerVars
<1>11. QED
  BY <1>1, <1>2, <1>3, <1>4, <1>5, <1>6, <1>7, <1>8, <1>9, <1>10, Taking
     DEF Next, WorkerStep, TaskStep

-----------------------------------------------------------------------------
(* run() and the calls it awaits                                           *)

\* A step that moves no worker and starts no call that is awaited.
LEMMA StandingStill ==
  ASSUME TypeOK, RunsInStep, UNCHANGED <<pc, current, verdict>>,
         \A t \in tasks' : Awaited(t) => t \in tasks
  PROVE  RunsInStep'
  BY DEF RunsInStep, Awaited

\* A step of one worker, which awaits no call before it and t, at most, after it.
LEMMA OneWorkerMoves ==
  ASSUME TypeOK, RunsInStep, NEW w \in Worker, NEW N,
         \A v \in Worker : v # w => pc'[v] = pc[v] /\ current'[v] = current[v],
         \A v \in Worker : v # w /\ current[v] \in Job => verdict'[current[v]] = verdict[current[v]],
         \A t \in tasks' : t \in tasks \/ t = N,
         \A t \in tasks' : Awaited(t) /\ t.worker = w => t = N,
         N \in tasks' => N.worker = w,
         N \in tasks' /\ Awaited(N) =>
           /\ N.update.job = current'[w]
           /\ pc'[w] = IF N.update.status \in Outcome THEN "recording" ELSE "received",
         \/ pc'[w] \in {"down", "idle"} /\ current'[w] = NoJob
         \/ /\ pc'[w] \in {"received", "analyzing"} /\ current'[w] \in Job
            /\ verdict'[current'[w]] = "none"
         \/ pc'[w] = "recording" /\ current'[w] \in Job /\ verdict'[current'[w]] # "none"
  PROVE  RunsInStep'
<1>1. \A v \in Worker :
        /\ pc'[v] \in {"down", "idle"} => current'[v] = NoJob
        /\ pc'[v] \in {"received", "analyzing"} =>
             current'[v] \in Job /\ verdict'[current'[v]] = "none"
        /\ pc'[v] = "recording" =>
             current'[v] \in Job /\ verdict'[current'[v]] # "none"
  <2> TAKE v \in Worker
  <2>1. CASE v = w
    BY <2>1
  <2>2. CASE v # w
    <3>1. /\ pc[v] \in {"down", "idle"} => current[v] = NoJob
          /\ pc[v] \in {"received", "analyzing"} =>
               current[v] \in Job /\ verdict[current[v]] = "none"
          /\ pc[v] = "recording" =>
               current[v] \in Job /\ verdict[current[v]] # "none"
      BY DEF RunsInStep
    <3>2. pc'[v] = pc[v] /\ current'[v] = current[v]
      BY <2>2
    <3>3. current[v] \in Job => verdict'[current[v]] = verdict[current[v]]
      BY <2>2
    <3>4. QED
      BY <3>1, <3>2, <3>3
  <2>3. QED
    BY <2>1, <2>2
<1>2. \A t \in tasks' : Awaited(t) =>
        /\ t.update.job = current'[t.worker]
        /\ pc'[t.worker] = IF t.update.status \in Outcome THEN "recording" ELSE "received"
  <2> TAKE t \in tasks'
  <2> HAVE Awaited(t)
  <2>1. CASE t = N
    BY <2>1
  <2>2. CASE t # N
    <3>1. t \in tasks /\ t.worker # w /\ t.worker \in Worker
      BY <2>2 DEF TypeOK, Task
    <3>2. QED
      BY <3>1 DEF RunsInStep
  <2>3. QED
    BY <2>1, <2>2
<1>3. \A t, u \in tasks' : Awaited(t) /\ Awaited(u) /\ t.worker = u.worker => t = u
  <2> TAKE t, u \in tasks'
  <2> HAVE Awaited(t) /\ Awaited(u) /\ t.worker = u.worker
  <2>1. CASE t.worker = w
    BY <2>1
  <2>2. CASE t.worker # w
    <3>1. t \in tasks /\ u \in tasks
      BY <2>2
    <3>2. QED
      BY <3>1 DEF RunsInStep
  <2>3. QED
    BY <2>1, <2>2
<1>4. QED
  BY <1>1, <1>2, <1>3 DEF RunsInStep, Awaited

LEMMA MovesKept ==
  ASSUME TypeOK, RunsInStep, JobInOnePlace, Next
  PROVE  RunsInStep'
<1>0. /\ pc \in [Worker -> {"down", "idle", "received", "analyzing", "recording"}]
      /\ current \in [Worker -> Job \cup {NoJob}]
      /\ queue \in [Worker -> Seq(Job)]
      /\ verdict \in [Job -> {"none"} \cup Outcome]
      /\ \A t \in tasks : t.worker \in Worker
      /\ "PENDING" \notin Outcome
  BY DEF TypeOK, Task, Outcome
<1>1. ASSUME NEW j \in Job, Enqueue(j) \/ EnqueueBlocks(j) \/ EnqueueFails(j) \/ ClientTimeout(j)
      PROVE  RunsInStep'
  <2>1. UNCHANGED <<pc, current, verdict, tasks>>
    BY <1>1 DEF Enqueue, EnqueueBlocks, EnqueueFails, ClientTimeout, workerVars
  <2>2. QED
    BY <2>1, StandingStill
<1>2. ASSUME NEW w \in Worker, Unblock(w) \/ Listen(w) PROVE RunsInStep'
  <2>1. UNCHANGED <<pc, current, verdict, tasks>>
    BY <1>2 DEF Unblock, Listen, workerVars
  <2>2. QED
    BY <2>1, StandingStill
<1>3. ASSUME ListenSave \/ RestartApi \/ \E j \in Polled : PollMemory(j) \/ PollMiss(j) \/ PollMongo(j)
      PROVE  RunsInStep'
  <2>1. UNCHANGED <<pc, current, verdict, tasks>>
    BY <1>3 DEF ListenSave, RestartApi, PollMemory, PollMiss, PollMongo, workerVars
  <2>2. QED
    BY <2>1, StandingStill
<1>4. ASSUME NEW w \in Worker, Progress(w) PROVE RunsInStep'
  <2> DEFINE u == [job |-> current[w], status |-> "PENDING", stage |-> Stages[reported[w] + 1]]
  <2>1. tasks' = tasks \cup {[worker |-> w, update |-> u, at |-> "save"]}
    BY <1>4 DEF Progress, Record_
  <2>2. Stages[reported[w] + 1] # "queued"
    <3>1. reported[w] \in 0 .. Len(Stages) /\ reported[w] < Len(Stages)
      BY <1>4 DEF Progress, TypeOK
    <3>2. reported[w] + 1 \in DOMAIN Stages
      BY <3>1, PipelineAssumption DEF PipelineAssumption
    <3>3. QED
      BY <3>2, PipelineAssumption DEF PipelineAssumption
  <2>3. ~Awaited([worker |-> w, update |-> u, at |-> "save"])
    BY <1>0, <2>2 DEF Awaited
  <2>4. \A t \in tasks' : Awaited(t) => t \in tasks
    BY <2>1, <2>3
  <2>5. UNCHANGED <<pc, current, verdict>>
    BY <1>4 DEF Progress
  <2>6. QED
    BY <2>4, <2>5, StandingStill
<1>5. ASSUME NEW w \in Worker, StartWorker(w) \/ Crash(w) PROVE RunsInStep'
  <2> DEFINE N == [worker |-> w, at |-> "save"]
  <2>1. \A t \in tasks' : t \in tasks /\ (Awaited(t) => t.worker # w)
    <3>1. CASE StartWorker(w)
      <4>1. tasks' = tasks /\ pc[w] = "down"
        BY <3>1 DEF StartWorker
      <4>2. QED
        BY <4>1 DEF RunsInStep
    <3>2. CASE Crash(w)
      BY <3>2 DEF Crash
    <3>3. QED
      BY <1>5, <3>1, <3>2
  <2>2. \A v \in Worker : v # w => pc'[v] = pc[v] /\ current'[v] = current[v]
    BY <1>0, <1>5 DEF StartWorker, Crash
  <2>3. pc'[w] \in {"down", "idle"} /\ current'[w] = NoJob /\ UNCHANGED verdict
    <3>1. pc[w] = "down" => current[w] = NoJob
      BY DEF RunsInStep
    <3>2. QED
      BY <1>0, <1>5, <3>1 DEF StartWorker, Crash
  <2>4. N.worker = w
    OBVIOUS
  <2> HIDE DEF N
  <2>5. QED
    BY <2>1, <2>2, <2>3, <2>4, OneWorkerMoves
<1>6. ASSUME NEW w \in Worker, Receive(w) PROVE RunsInStep'
  <2>h. PICK h \in Job : h = Head(queue[w])
    BY <1>0, <1>6 DEF Receive
  <2> DEFINE N == [worker |-> w, at |-> "save",
                   update |-> [job |-> h, status |-> "PENDING", stage |-> "queued"]]
  <2>1. /\ pc[w] = "idle" /\ pc' = [pc EXCEPT ![w] = "received"]
        /\ current' = [current EXCEPT ![w] = h] /\ UNCHANGED verdict
        /\ tasks' = tasks \cup {N} /\ queue[w] # <<>>
    BY <1>6, <2>h DEF Receive, Record_
  <2>2. \A t \in tasks : Awaited(t) => t.worker # w
    BY <2>1 DEF RunsInStep
  <2>3. verdict[h] = "none"
    <3>1. Queued(h, w)
      BY <1>0, <2>h, <2>1 DEF Queued
    <3>2. QED
      BY <3>1 DEF JobInOnePlace
  <2>4. \A v \in Worker : v # w => pc'[v] = pc[v] /\ current'[v] = current[v]
    BY <1>0, <2>1
  <2>5. pc'[w] = "received" /\ current'[w] = h
    BY <1>0, <2>1
  <2>6. N.worker = w /\ N.update.job = h /\ N.update.status \notin Outcome
    BY <1>0
  <2>7. \A t \in tasks' : t \in tasks \/ t = N
    BY <2>1
  <2> HIDE DEF N
  <2>8. QED
    BY <2>1, <2>2, <2>3, <2>4, <2>5, <2>6, <2>7, OneWorkerMoves
<1>7. ASSUME NEW w \in Worker, NEW o \in Outcome, Finish(w, o) PROVE RunsInStep'
  <2>h. PICK h \in Job : h = current[w]
    BY <1>7 DEF Finish, RunsInStep
  <2> DEFINE N == [worker |-> w, at |-> "save",
                   update |-> [job |-> h, status |-> o, stage |-> "none"]]
  <2>1. /\ pc[w] = "analyzing" /\ pc' = [pc EXCEPT ![w] = "recording"]
        /\ current' = current /\ verdict' = [verdict EXCEPT ![h] = o]
        /\ tasks' = tasks \cup {N}
    BY <1>7, <2>h DEF Finish, Record_
  <2>2. \A t \in tasks : Awaited(t) => t.worker # w
    BY <2>1 DEF RunsInStep
  <2>3. \A v \in Worker : v # w /\ current[v] \in Job => verdict'[current[v]] = verdict[current[v]]
    <3>1. \A v \in Worker : v # w => current[v] # h
      BY <2>h DEF JobInOnePlace, On
    <3>2. QED
      BY <1>0, <2>1, <3>1
  <2>4. \A v \in Worker : v # w => pc'[v] = pc[v] /\ current'[v] = current[v]
    BY <1>0, <2>1
  <2>5. pc'[w] = "recording" /\ current'[w] = h /\ verdict'[h] = o /\ o # "none"
    BY <1>0, <2>h, <2>1 DEF Outcome
  <2>6. N.worker = w /\ N.update.job = h /\ N.update.status \in Outcome
    OBVIOUS
  <2>7. \A t \in tasks' : t \in tasks \/ t = N
    BY <2>1
  <2> HIDE DEF N
  <2>8. QED
    BY <2>1, <2>2, <2>3, <2>4, <2>5, <2>6, <2>7, OneWorkerMoves
<1>8. ASSUME NEW t \in tasks, TaskSave(t) PROVE RunsInStep'
  <2> DEFINE N == [t EXCEPT !.at = "report"]
  <2>1. /\ tasks' = (tasks \ {t}) \cup {N} /\ UNCHANGED <<pc, current, verdict>>
    BY <1>8 DEF TaskSave, workerVars
  <2>2. N.worker = t.worker /\ N.update = t.update
    BY DEF TypeOK, Task
  <2>3. \A v \in tasks' : (v \in tasks /\ v # t) \/ v = N
    BY <2>1
  <2>4. Awaited(N) <=> Awaited(t)
    BY <2>2 DEF Awaited
  <2> HIDE DEF N
  <2>5. /\ \A v \in tasks' : Awaited(v) =>
             /\ v.update.job = current[v.worker]
             /\ pc[v.worker] = IF v.update.status \in Outcome THEN "recording" ELSE "received"
    BY <2>2, <2>3, <2>4 DEF RunsInStep
  <2>6. \A v, u \in tasks' : Awaited(v) /\ Awaited(u) /\ v.worker = u.worker => v = u
    BY <2>2, <2>3, <2>4 DEF RunsInStep
  <2>7. QED
    BY <2>1, <2>5, <2>6 DEF RunsInStep, Awaited
<1>9. ASSUME NEW t \in tasks, TaskReport(t) PROVE RunsInStep'
  <2>1. tasks' = tasks \ {t} /\ Resume(t) /\ UNCHANGED verdict
    BY <1>9 DEF TaskReport
  <2>2. CASE ~Awaited(t)
    <3>1. UNCHANGED <<pc, current>>
      BY <1>0, <2>1, <2>2 DEF Resume, Awaited
    <3>2. QED
      BY <2>1, <3>1, StandingStill
  <2>3. CASE Awaited(t)
    <3> DEFINE w == t.worker
    <3>1. /\ w \in Worker
          /\ \A v \in tasks' : v \in tasks /\ (Awaited(v) => v.worker # w)
      BY <1>0, <2>1, <2>3 DEF RunsInStep
    <3>2. \A v \in Worker : v # w => pc'[v] = pc[v] /\ current'[v] = current[v]
      BY <1>0, <2>1 DEF Resume
    <3>3. \/ pc'[w] = "idle" /\ current'[w] = NoJob
          \/ pc'[w] = "analyzing" /\ current'[w] \in Job /\ verdict'[current'[w]] = "none"
      <4>1. CASE t.update.status \in Outcome
        BY <1>0, <2>1, <4>1 DEF Resume
      <4>2. CASE t.update.status \notin Outcome
        <5>1. t.update.stage = "queued" /\ pc[w] = "received"
          BY <2>3, <4>2 DEF Awaited, RunsInStep
        <5>2. current[w] \in Job /\ verdict[current[w]] = "none"
          BY <1>0, <5>1 DEF RunsInStep
        <5>3. pc' = [pc EXCEPT ![w] = "analyzing"] /\ UNCHANGED current
          BY <2>1, <4>2, <5>1 DEF Resume
        <5>4. QED
          BY <1>0, <2>1, <5>2, <5>3
      <4>3. QED
        BY <4>1, <4>2
    <3>4. t \notin tasks'
      BY <2>1
    <3>5. QED
      BY <2>1, <3>1, <3>2, <3>3, <3>4, OneWorkerMoves
  <2>4. QED
    BY <2>2, <2>3
<1>10. QED
  BY <1>1, <1>2, <1>3, <1>4, <1>5, <1>6, <1>7, <1>8, <1>9 DEF Next, WorkerStep, TaskStep

-----------------------------------------------------------------------------
(* Outcomes                                                                *)

\* Only the worker that is on a job decides it, and only once.
LEMMA VerdictsStand ==
  ASSUME TypeOK, RunsInStep, Next
  PROVE  \A j \in Job : verdict[j] # "none" => verdict'[j] = verdict[j]
<1>1. ASSUME NEW w \in Worker, NEW o \in Outcome, Finish(w, o)
      PROVE  \A j \in Job : verdict[j] # "none" => verdict'[j] = verdict[j]
  <2>1. /\ verdict[current[w]] = "none" /\ current[w] \in Job
        /\ verdict' = [verdict EXCEPT ![current[w]] = o]
        /\ verdict \in [Job -> {"none"} \cup Outcome]
    BY <1>1 DEF Finish, RunsInStep, TypeOK
  <2>2. QED
    BY <2>1
<1>2. ASSUME NEW j \in Job, Enqueue(j) \/ EnqueueBlocks(j) \/ EnqueueFails(j) \/ ClientTimeout(j)
      PROVE  UNCHANGED verdict
  BY <1>2 DEF Enqueue, EnqueueBlocks, EnqueueFails, ClientTimeout
<1>3. ASSUME NEW w \in Worker, \/ StartWorker(w) \/ Unblock(w) \/ Receive(w) \/ Progress(w)
                               \/ Crash(w) \/ Listen(w)
      PROVE  UNCHANGED verdict
  BY <1>3 DEF StartWorker, Unblock, Receive, Progress, Crash, Listen
<1>4. ASSUME ListenSave \/ RestartApi \/ \E t \in tasks : TaskSave(t) \/ TaskReport(t)
      PROVE  UNCHANGED verdict
  BY <1>4 DEF ListenSave, RestartApi, TaskSave, TaskReport
<1>5. ASSUME NEW j \in Polled, PollMemory(j) \/ PollMiss(j) \/ PollMongo(j)
      PROVE  UNCHANGED verdict
  BY <1>5 DEF PollMemory, PollMiss, PollMongo
<1>6. QED
  BY <1>1, <1>2, <1>3, <1>4, <1>5 DEF Next, WorkerStep, TaskStep

\* A save does to the status of a record what a JobLedger lets be done to it.
LEMMA SavedStatus ==
  ASSUME NEW r \in Record, NEW u \in Update, NEW o,
         r.status \in Outcome => r.status = o,
         u.status \in Outcome => u.status = o
  PROVE  \/ Saved(r, u).status = r.status
         \/ r.status = "ABSENT" /\ Saved(r, u).status = "PENDING"
         \/ /\ r.status \in {"ABSENT", "PENDING"} /\ o \in Outcome
            /\ Saved(r, u).status = o
<1>1. /\ u.status \in {"PENDING"} \cup Outcome
      /\ r.status \in {"ABSENT", "PENDING"} \cup Outcome
  BY DEF Update, Record
<1>2. Saved(r, u).status =
        IF u.status \in Outcome THEN u.status
        ELSE IF r.status = "ABSENT" THEN "PENDING" ELSE r.status
  BY DEF Saved, WithResult, WithProgress
<1>3. QED
  BY <1>1, <1>2

\* An outcome in a store or under way that is not new is still the decided one.
LEMMA OldNews ==
  ASSUME TypeOK, OutcomesTruthful,
         \A j \in Job : verdict[j] # "none" => verdict'[j] = verdict[j]
  PROVE  /\ \A p \in Process, j \in Job :
              mem[p][j].status \in Outcome => mem[p][j].status = verdict'[j]
         /\ \A j \in Job : mongo[j].status \in Outcome => mongo[j].status = verdict'[j]
         /\ \A t \in tasks :
              t.update.status \in Outcome => t.update.status = verdict'[t.update.job]
         /\ \A w \in Worker : \A i \in DOMAIN channel[w] :
              channel[w][i].status \in Outcome
                => channel[w][i].status = verdict'[channel[w][i].job]
         /\ \A i \in DOMAIN applying :
              applying[i].status \in Outcome
                => applying[i].status = verdict'[applying[i].job]
<1>0. "none" \notin Outcome
  BY DEF Outcome
<1>1. \A p \in Process, j \in Job :
        mem[p][j].status \in Outcome => mem[p][j].status = verdict'[j]
  BY <1>0 DEF OutcomesTruthful
<1>2. \A j \in Job : mongo[j].status \in Outcome => mongo[j].status = verdict'[j]
  BY <1>0 DEF OutcomesTruthful
<1>3. \A t \in tasks :
        t.update.status \in Outcome => t.update.status = verdict'[t.update.job]
  <2>1. \A t \in tasks : t.update.job \in Job
    BY DEF TypeOK, Task, Update
  <2>2. QED
    BY <1>0, <2>1 DEF OutcomesTruthful
<1>4. \A w \in Worker : \A i \in DOMAIN channel[w] :
        channel[w][i].status \in Outcome
          => channel[w][i].status = verdict'[channel[w][i].job]
  <2>1. \A w \in Worker : channel[w] \in Seq(Update)
    BY DEF TypeOK
  <2>2. \A w \in Worker : \A i \in DOMAIN channel[w] : channel[w][i] \in Update
    BY <2>1
  <2>3. \A w \in Worker : \A i \in DOMAIN channel[w] : channel[w][i].job \in Job
    BY <2>2 DEF Update
  <2>4. QED
    BY <1>0, <2>3 DEF OutcomesTruthful
<1>5. \A i \in DOMAIN applying :
        applying[i].status \in Outcome
          => applying[i].status = verdict'[applying[i].job]
  <2>1. \A i \in DOMAIN applying : applying[i].job \in Job
    BY DEF TypeOK, Update
  <2>2. QED
    BY <1>0, <2>1 DEF OutcomesTruthful
<1>6. QED
  BY <1>1, <1>2, <1>3, <1>4, <1>5

\* What a save leaves in a memory or in MongoDB.
LEMMA SavesTruthful ==
  ASSUME TypeOK, TypeOK', OutcomesTruthful, NEW u \in Update, NEW p \in Process,
         \A j \in Job : verdict[j] # "none" => verdict'[j] = verdict[j],
         u.status \in Outcome => u.status = verdict'[u.job]
  PROVE  /\ SaveInMemory(p, u) => \A q \in Process, j \in Job :
              mem'[q][j].status \in Outcome => mem'[q][j].status = verdict'[j]
         /\ SaveInMongo(u) => \A j \in Job :
              mongo'[j].status \in Outcome => mongo'[j].status = verdict'[j]
<1>1. /\ mem \in [Process -> [Job -> Record]] /\ mongo \in [Job -> Record]
      /\ verdict' \in [Job -> {"none"} \cup Outcome] /\ u.job \in Job
  BY DEF TypeOK, Update
<1>2. \A q \in Process, j \in Job :
        mem[q][j].status \in Outcome => mem[q][j].status = verdict'[j]
  BY OldNews
<1>3. \A j \in Job : mongo[j].status \in Outcome => mongo[j].status = verdict'[j]
  BY OldNews
<1>4. \A r \in Record : Saved(r, u).status \in Outcome =>
        \/ r.status \in Outcome /\ Saved(r, u).status = r.status
        \/ Saved(r, u).status = u.status
  BY DEF Saved, WithResult, WithProgress, Outcome
<1>5. ASSUME SaveInMemory(p, u), NEW q \in Process, NEW j \in Job, mem'[q][j].status \in Outcome
      PROVE  mem'[q][j].status = verdict'[j]
  <2>1. CASE q = p /\ j = u.job
    <3>1. mem'[q][j] = Saved(mem[q][j], u) /\ mem[q][j] \in Record
      BY <1>1, <1>5, <2>1 DEF SaveInMemory
    <3>2. QED
      BY <1>2, <1>4, <1>5, <2>1, <3>1
  <2>2. CASE ~(q = p /\ j = u.job)
    <3>1. mem'[q][j] = mem[q][j]
      BY <1>1, <1>5, <2>2 DEF SaveInMemory
    <3>2. QED
      BY <1>2, <1>5, <3>1
  <2>3. QED
    BY <2>1, <2>2
<1>6. ASSUME SaveInMongo(u), NEW j \in Job, mongo'[j].status \in Outcome
      PROVE  mongo'[j].status = verdict'[j]
  <2>1. mongo' = mongo \/ mongo' = [mongo EXCEPT ![u.job] = Saved(@, u)]
    BY <1>6 DEF SaveInMongo
  <2>2. CASE mongo'[j] = mongo[j]
    BY <1>3, <1>6, <2>2
  <2>3. CASE j = u.job /\ mongo'[j] = Saved(mongo[j], u)
    BY <1>1, <1>3, <1>4, <1>6, <2>3
  <2>4. QED
    BY <1>1, <2>1, <2>2, <2>3
<1>7. QED
  BY <1>5, <1>6

\* What is entered in a memory or sent to MongoDB in a step is truthful.
LEMMA TruthKept ==
  ASSUME TypeOK, TypeOK', RunsInStep, OutcomesTruthful, Next
  PROVE  OutcomesTruthful'
<1>s. \A j \in Job : verdict[j] # "none" => verdict'[j] = verdict[j]
  BY VerdictsStand
<1> DEFINE MemT == \A p \in Process, j \in Job :
                     mem'[p][j].status \in Outcome => mem'[p][j].status = verdict'[j]
           MongoT == \A j \in Job :
                       mongo'[j].status \in Outcome => mongo'[j].status = verdict'[j]
           TasksT == \A t \in tasks' : t.update.status \in Outcome
                                         => t.update.status = verdict'[t.update.job]
           ChannelT == \A w \in Worker : \A i \in DOMAIN channel'[w] :
                         channel'[w][i].status \in Outcome
                           => channel'[w][i].status = verdict'[channel'[w][i].job]
           ApplyingT == \A i \in DOMAIN applying' :
                          applying'[i].status \in Outcome
                            => applying'[i].status = verdict'[applying'[i].job]
           Truth == MemT /\ MongoT /\ TasksT /\ ChannelT /\ ApplyingT
<1>0. /\ channel \in [Worker -> Seq(Update)] /\ "PENDING" \notin Outcome /\ Api \in Process
      /\ \A w \in Worker : w \in Process
      /\ mem \in [Process -> [Job -> Record]]
  BY DEF TypeOK, Outcome, Process
<1>1. /\ UNCHANGED mem => MemT
      /\ UNCHANGED mongo => MongoT
      /\ tasks' \subseteq tasks => TasksT
      /\ UNCHANGED channel => ChannelT
      /\ UNCHANGED applying => ApplyingT
  BY <1>s, OldNews
<1>2. ASSUME NEW w \in Worker, NEW u \in Update, Record_(w, u), UNCHANGED <<mongo, channel, applying>>,
             u.status \in Outcome => u.status = verdict'[u.job]
      PROVE  Truth
  <2>1. MemT
    BY <1>s, <1>0, <1>2, SavesTruthful DEF Record_
  <2>2. TasksT
    BY <1>s, <1>2, OldNews DEF Record_
  <2>3. QED
    BY <1>1, <1>2, <2>1, <2>2
<1>3. ASSUME NEW w \in Worker, Receive(w) PROVE Truth
  <2>1. [job |-> Head(queue[w]), status |-> "PENDING", stage |-> "queued"] \in Update
    BY <1>3, StagesTyped DEF Receive, TypeOK, Update
  <2>2. QED
    BY <1>0, <1>2, <1>3, <2>1 DEF Receive
<1>4. ASSUME NEW w \in Worker, Progress(w) PROVE Truth
  <2>1. [job |-> current[w], status |-> "PENDING", stage |-> Stages[reported[w] + 1]] \in Update
    BY <1>4, StagesTyped DEF Progress, RunsInStep, TypeOK, Update
  <2>2. QED
    BY <1>0, <1>2, <1>4, <2>1 DEF Progress
<1>5. ASSUME NEW w \in Worker, NEW o \in Outcome, Finish(w, o) PROVE Truth
  <2>1. current[w] \in Job
    BY <1>5 DEF Finish, RunsInStep
  <2>2. [job |-> current[w], status |-> o, stage |-> "none"] \in Update
    BY <2>1, StagesTyped DEF Update
  <2>3. verdict'[current[w]] = o
    BY <1>5, <2>1 DEF Finish, TypeOK
  <2>4. QED
    BY <1>2, <1>5, <2>2, <2>3 DEF Finish
<1>6. ASSUME NEW t \in tasks, TaskSave(t) PROVE Truth
  <2>1. t.update \in Update /\ t \in Task
    BY DEF TypeOK, Task
  <2>2. t.update.status \in Outcome => t.update.status = verdict'[t.update.job]
    BY <1>s, OldNews
  <2>3. MongoT
    BY <1>s, <1>0, <1>6, <2>1, <2>2, SavesTruthful DEF TaskSave
  <2>4. TasksT
    <3>1. [t EXCEPT !.at = "report"].update = t.update
      BY <2>1 DEF Task
    <3>2. \A v \in tasks' : v \in tasks \/ v.update = t.update
      BY <1>6, <3>1 DEF TaskSave
    <3>3. QED
      BY <1>s, <2>2, <3>2, OldNews
  <2>5. UNCHANGED <<mem, channel, applying>>
    BY <1>6 DEF TaskSave
  <2>6. QED
    BY <1>1, <2>3, <2>4, <2>5
<1>7. ASSUME NEW t \in tasks, TaskReport(t) PROVE Truth
  <2>1. t.worker \in Worker /\ t.update \in Update
    BY DEF TypeOK, Task
  <2>2. t.update.status \in Outcome => t.update.status = verdict'[t.update.job]
    BY <1>s, OldNews
  <2>3. ChannelT
    <3>1. CASE channel' = [channel EXCEPT ![t.worker] = Append(@, t.update)]
      <4> TAKE w \in Worker
      <4> TAKE i \in DOMAIN channel'[w]
      <4>1. (i \in DOMAIN channel[w] /\ channel'[w][i] = channel[w][i]) \/ channel'[w][i] = t.update
        BY <1>0, <2>1, <3>1
      <4>2. QED
        BY <1>s, <2>2, <4>1, OldNews
    <3>2. QED
      BY <1>1, <1>7, <3>1 DEF TaskReport
  <2>4. tasks' \subseteq tasks /\ UNCHANGED <<mem, mongo, applying>>
    BY <1>7 DEF TaskReport
  <2>5. QED
    BY <1>1, <2>3, <2>4
<1>8. ASSUME NEW w \in Worker, Crash(w) PROVE Truth
  <2>1. PICK n \in 0 .. Len(channel[w]) : channel' = [channel EXCEPT ![w] = SubSeq(@, 1, n)]
    BY <1>8 DEF Crash
  <2>2. ChannelT
    <3> TAKE v \in Worker
    <3> TAKE i \in DOMAIN channel'[v]
    <3>1. i \in DOMAIN channel[v] /\ channel'[v][i] = channel[v][i]
      BY <1>0, <2>1
    <3>2. QED
      BY <1>s, <3>1, OldNews
  <2>3. MemT
    <3> TAKE p \in Process, j \in Job
    <3>1. mem'[p][j] = mem[p][j] \/ mem'[p][j] = Absent
      BY <1>0, <1>8 DEF Crash
    <3>2. Absent.status \notin Outcome
      BY DEF Absent, Outcome
    <3>3. QED
      BY <1>s, <3>1, <3>2, OldNews
  <2>4. tasks' \subseteq tasks /\ UNCHANGED <<mongo, applying>>
    BY <1>8 DEF Crash
  <2>5. QED
    BY <1>1, <2>2, <2>3, <2>4
<1>9. ASSUME NEW w \in Worker, Listen(w) PROVE Truth
  <2>1. PICK u \in Update : u = Head(channel[w])
    BY <1>0, <1>9 DEF Listen
  <2>2. u.status \in Outcome => u.status = verdict'[u.job]
    <3>1. 1 \in DOMAIN channel[w] /\ u = channel[w][1]
      BY <1>0, <1>9, <2>1 DEF Listen
    <3>2. QED
      BY <1>s, <3>1, OldNews
  <2>3. MemT
    BY <1>s, <1>0, <1>9, <2>1, <2>2, SavesTruthful DEF Listen
  <2>4. ApplyingT
    <3>1. applying' = <<u>>
      BY <1>9, <2>1 DEF Listen
    <3>2. QED
      BY <2>2, <3>1
  <2>5. ChannelT
    <3> TAKE v \in Worker
    <3> TAKE i \in DOMAIN channel'[v]
    <3>1. PICK k \in DOMAIN channel[v] : channel'[v][i] = channel[v][k]
      <4>1. CASE v = w
        <5>1. i + 1 \in DOMAIN channel[v] /\ channel'[v][i] = channel[v][i + 1]
          BY <1>0, <1>9, <4>1 DEF Listen
        <5>2. QED
          BY <5>1
      <4>2. CASE v # w
        BY <1>0, <1>9, <4>2 DEF Listen
      <4>3. QED
        BY <4>1, <4>2
    <3>2. QED
      BY <1>s, <3>1, OldNews
  <2>6. UNCHANGED <<tasks, mongo>>
    BY <1>9 DEF Listen
  <2>7. QED
    BY <1>1, <2>3, <2>4, <2>5, <2>6
<1>10. ASSUME ListenSave PROVE Truth
  <2>1. PICK u \in Update : applying = <<u>>
    BY <1>10 DEF ListenSave, TypeOK
  <2>2. u.status \in Outcome => u.status = verdict'[u.job]
    <3>1. 1 \in DOMAIN applying /\ applying[1] = u
      BY <2>1
    <3>2. QED
      BY <1>s, <3>1, OldNews
  <2>3. SaveInMongo(u) /\ applying' = <<>> /\ UNCHANGED <<mem, tasks, channel>>
    BY <1>10, <2>1 DEF ListenSave
  <2>4. MongoT
    BY <1>s, <1>0, <2>2, <2>3, SavesTruthful
  <2>5. ApplyingT
    BY <2>3
  <2>6. QED
    BY <1>1, <2>3, <2>4, <2>5
<1>11. ASSUME RestartApi PROVE Truth
  <2>1. PICK gone \in [Worker -> 0 .. MaxUpdates] :
          /\ \A w \in Worker : gone[w] \in 0 .. Len(channel[w])
          /\ channel' = [w \in Worker |->
                           SubSeq(channel[w], gone[w] + 1, Len(channel[w]))]
    BY <1>11 DEF RestartApi
  <2>2. ChannelT
    <3> TAKE w \in Worker
    <3> TAKE i \in DOMAIN channel'[w]
    <3>1. gone[w] + i \in DOMAIN channel[w] /\ channel'[w][i] = channel[w][gone[w] + i]
      BY <1>0, <2>1
    <3>2. QED
      BY <1>s, <3>1, OldNews
  <2>3. MemT
    <3> TAKE p \in Process, j \in Job
    <3>1. mem'[p][j] = mem[p][j] \/ mem'[p][j] = Absent
      BY <1>0, <1>11 DEF RestartApi
    <3>2. Absent.status \notin Outcome
      BY DEF Absent, Outcome
    <3>3. QED
      BY <1>s, <3>1, <3>2, OldNews
  <2>4. applying' = <<>> /\ UNCHANGED <<tasks, mongo>>
    BY <1>11 DEF RestartApi
  <2>5. QED
    BY <1>1, <2>2, <2>3, <2>4
<1>12. ASSUME UNCHANGED <<tasks, channel, applying, mem, mongo>> PROVE Truth
  BY <1>1, <1>12
<1>13. ASSUME NEW j \in Job, Enqueue(j) \/ EnqueueBlocks(j) \/ EnqueueFails(j) \/ ClientTimeout(j)
       PROVE  UNCHANGED <<tasks, channel, applying, mem, mongo>>
  BY <1>13 DEF Enqueue, EnqueueBlocks, EnqueueFails, ClientTimeout
<1>14. ASSUME NEW w \in Worker, StartWorker(w) \/ Unblock(w)
       PROVE  UNCHANGED <<tasks, channel, applying, mem, mongo>>
  BY <1>14 DEF StartWorker, Unblock
<1>15. ASSUME NEW j \in Polled, PollMemory(j) \/ PollMiss(j) \/ PollMongo(j)
       PROVE  UNCHANGED <<tasks, channel, applying, mem, mongo>>
  BY <1>15 DEF PollMemory, PollMiss, PollMongo
<1> HIDE DEF Truth
<1>16. Truth
  BY <1>3, <1>4, <1>5, <1>6, <1>7, <1>8, <1>9, <1>10, <1>11, <1>12, <1>13, <1>14, <1>15
     DEF Next, WorkerStep, TaskStep
<1>17. QED
  BY <1>16 DEF Truth, OutcomesTruthful

\* An answer repeats a record of the memory of the API or of MongoDB, or says that
\* there is none or that it cannot be asked for.
LEMMA AnswersKept ==
  ASSUME TypeOK, RunsInStep, OutcomesTruthful, AnswersTruthful, Next
  PROVE  AnswersTruthful'
<1>1. \A j \in Job : verdict[j] # "none" => verdict'[j] = verdict[j]
  BY VerdictsStand
<1>2. /\ "none" \notin Outcome /\ Polled \subseteq Job /\ answer \in [Job -> Record]
      /\ Api \in Process /\ "PENDING" \notin Outcome
  BY PipelineAssumption DEF PipelineAssumption, Outcome, TypeOK, Process
<1>3. ASSUME UNCHANGED answer PROVE AnswersTruthful'
  BY <1>1, <1>2, <1>3 DEF AnswersTruthful
<1>4. ASSUME NEW j \in Polled, PollMemory(j) \/ PollMongo(j) PROVE AnswersTruthful'
  <2>1. UNCHANGED verdict /\ j \in Job
    BY <1>2, <1>4 DEF PollMemory, PollMongo
  <2>2. PICK r : /\ answer' = [answer EXCEPT ![j] = r]
                 /\ r.status \in Outcome /\ r.stage # "unavailable" => r.status = verdict[j]
    <3>1. CASE PollMemory(j)
      BY <1>2, <2>1, <3>1 DEF PollMemory, OutcomesTruthful
    <3>2. CASE PollMongo(j)
      <4>1. \/ answer' = [answer EXCEPT ![j] = mongo[j]]
            \/ answer' = [answer EXCEPT ![j] = [status |-> "PENDING", stage |-> "queued"]]
            \/ answer' = [answer EXCEPT ![j] = Unavailable]
        BY <3>2 DEF PollMongo, MongoAnswer
      <4>2. QED
        BY <1>2, <2>1, <4>1 DEF Unavailable, OutcomesTruthful
    <3>3. QED
      BY <1>4, <3>1, <3>2
  <2>3. QED
    BY <1>2, <2>1, <2>2 DEF AnswersTruthful
<1>5. ASSUME NEW j \in Job, Enqueue(j) \/ EnqueueBlocks(j) \/ EnqueueFails(j) \/ ClientTimeout(j)
      PROVE  UNCHANGED answer
  BY <1>5 DEF Enqueue, EnqueueBlocks, EnqueueFails, ClientTimeout, pollVars
<1>6. ASSUME NEW w \in Worker, \/ StartWorker(w) \/ Unblock(w) \/ WorkerStep(w)
                               \/ Crash(w) \/ Listen(w)
      PROVE  UNCHANGED answer
  BY <1>6 DEF StartWorker, Unblock, WorkerStep, Receive, Progress, Finish, Crash, Listen, pollVars
<1>7. ASSUME ListenSave \/ RestartApi \/ TaskStep PROVE UNCHANGED answer
  BY <1>7 DEF ListenSave, RestartApi, TaskStep, TaskSave, TaskReport, pollVars
<1>8. ASSUME NEW j \in Polled, PollMiss(j) PROVE UNCHANGED answer
  BY <1>8 DEF PollMiss
<1>9. QED
  BY <1>3, <1>4, <1>5, <1>6, <1>7, <1>8 DEF Next

-----------------------------------------------------------------------------
(* The theorems                                                            *)

IInv == /\ TypeOK
        /\ RunsInStep
        /\ JobInOnePlace /\ TakenForGood /\ Undecided
        /\ OutcomesTruthful /\ AnswersTruthful

LEMMA Initially == Init => IInv
<1> SUFFICES ASSUME Init PROVE IInv
  OBVIOUS
<1>1. TypeOK
  <2>1. mem \in [Process -> [Job -> Record]] /\ mongo \in [Job -> Record] /\ answer \in [Job -> Record]
    BY AbsentTyped DEF Init
  <2>2. faults \in [crashes : 0 .. MaxCrashes, restarts : 0 .. MaxRestarts, lost : 0 .. MaxLost]
    BY PipelineAssumption DEF PipelineAssumption, Init
  <2>3. reported \in [Worker -> 0 .. Len(Stages)]
    BY StagesTyped DEF Init
  <2>4. QED
    BY <2>1, <2>2, <2>3 DEF Init, TypeOK
<1>2. RunsInStep
  BY DEF Init, RunsInStep
<1>3. JobInOnePlace /\ TakenForGood /\ Undecided
  BY PipelineAssumption
     DEF PipelineAssumption, Init, JobInOnePlace, TakenForGood, Undecided, Queued, On
<1>4. OutcomesTruthful /\ AnswersTruthful
  BY DEF Init, OutcomesTruthful, AnswersTruthful, Absent, Outcome
<1>5. QED
  BY <1>1, <1>2, <1>3, <1>4 DEF IInv

LEMMA Inductive == IInv /\ [Next]_vars => IInv'
<1> SUFFICES ASSUME IInv, [Next]_vars PROVE IInv'
  OBVIOUS
<1>1. CASE Next
  <2>1. TypeOK'
    BY <1>1, ClientTyped, WorkerTyped, TaskTyped, ApiTyped DEF Next, TaskStep, IInv
  <2>2. QED
    BY <1>1, <2>1, MovesKept, PlacesKept, TakenKept, TruthKept, AnswersKept DEF IInv
<1>2. CASE UNCHANGED vars
  BY <1>2 DEF vars, IInv, TypeOK, RunsInStep, Awaited, JobInOnePlace, TakenForGood,
              Undecided, Queued, On,
              OutcomesTruthful, AnswersTruthful
<1>3. QED
  BY <1>1, <1>2

\* A save into MongoDB is an entry of its ledger, or none if MongoDB is down.
LEMMA MongoEntry ==
  ASSUME TypeOK, TypeOK', OutcomesTruthful, NEW u \in Update, SaveInMongo(u), UNCHANGED verdict,
         u.status \in Outcome => u.status = verdict[u.job]
  PROVE  [MongoLedger!Next]_(MongoLedger!vars)
<1>1. CASE UNCHANGED mongo
  BY <1>1 DEF MongoLedger!vars
<1>2. CASE mongo' = [mongo EXCEPT ![u.job] = Saved(@, u)]
  <2> DEFINE a == [j \in Job |-> mongo[j].status]
             b == [j \in Job |-> mongo'[j].status]
  <2>1. /\ mongo \in [Job -> Record] /\ verdict \in [Job -> {"none"} \cup Outcome]
        /\ u.job \in Job
    BY DEF TypeOK, Update
  <2>2. mongo[u.job].status \in Outcome => mongo[u.job].status = verdict[u.job]
    BY <2>1 DEF OutcomesTruthful
  <2>3. \/ b = a
        \/ a[u.job] = "ABSENT" /\ b = [a EXCEPT ![u.job] = "PENDING"]
        \/ /\ a[u.job] \in {"ABSENT", "PENDING"} /\ verdict[u.job] \in Outcome
           /\ b = [a EXCEPT ![u.job] = verdict[u.job]]
    <3>1. b = [a EXCEPT ![u.job] = Saved(mongo[u.job], u).status]
      BY <1>2, <2>1
    <3>2. a[u.job] = mongo[u.job].status /\ a = [a EXCEPT ![u.job] = a[u.job]]
      BY <2>1
    <3>3. mongo[u.job] \in Record
      BY <2>1
    <3>4. \/ Saved(mongo[u.job], u).status = mongo[u.job].status
          \/ mongo[u.job].status = "ABSENT" /\ Saved(mongo[u.job], u).status = "PENDING"
          \/ /\ mongo[u.job].status \in {"ABSENT", "PENDING"} /\ verdict[u.job] \in Outcome
             /\ Saved(mongo[u.job], u).status = verdict[u.job]
      BY <2>2, <3>3, SavedStatus
    <3> HIDE DEF a, b
    <3>5. QED
      BY <3>1, <3>2, <3>4
  <2>4. CASE b = a
    BY <2>4 DEF MongoLedger!vars
  <2>5. CASE a[u.job] = "ABSENT" /\ b = [a EXCEPT ![u.job] = "PENDING"]
    <3>1. MongoLedger!Note(u.job)
      BY <2>5 DEF MongoLedger!Note
    <3>2. QED
      BY <2>1, <3>1 DEF MongoLedger!Next
  <2>6. CASE /\ a[u.job] \in {"ABSENT", "PENDING"} /\ verdict[u.job] \in Outcome
             /\ b = [a EXCEPT ![u.job] = verdict[u.job]]
    <3>1. MongoLedger!Publish(u.job)
      BY <2>6 DEF MongoLedger!Publish, MongoLedger!Outcome, Outcome
    <3>2. QED
      BY <2>1, <3>1 DEF MongoLedger!Next
  <2>7. QED
    BY <2>3, <2>4, <2>5, <2>6
<1>3. QED
  BY <1>1, <1>2 DEF SaveInMongo

\* A step that decides a job and leaves MongoDB alone is a Decide of its ledger.
LEMMA MongoDecision ==
  ASSUME TypeOK, RunsInStep, NEW w \in Worker, NEW o \in Outcome, Finish(w, o)
  PROVE  [MongoLedger!Next]_(MongoLedger!vars)
<1>1. current[w] \in Job /\ verdict[current[w]] = "none" /\ UNCHANGED mongo
  BY DEF Finish, RunsInStep
<1>2. MongoLedger!Decide(current[w], o) /\ o \in MongoLedger!Outcome
  BY <1>1 DEF Finish, MongoLedger!Decide, MongoLedger!Outcome, Outcome
<1>3. QED
  BY <1>1, <1>2 DEF MongoLedger!Next

LEMMA MongoStep == IInv /\ IInv' /\ [Next]_vars => [MongoLedger!Next]_(MongoLedger!vars)
<1> SUFFICES ASSUME IInv, IInv', [Next]_vars PROVE [MongoLedger!Next]_(MongoLedger!vars)
  OBVIOUS
<1>1. ASSUME UNCHANGED <<mongo, verdict>> PROVE [MongoLedger!Next]_(MongoLedger!vars)
  BY <1>1 DEF MongoLedger!vars
<1>2. ASSUME NEW t \in tasks, TaskSave(t) PROVE [MongoLedger!Next]_(MongoLedger!vars)
  <2>1. t.update \in Update
    BY DEF IInv, TypeOK, Task
  <2>2. t.update.status \in Outcome => t.update.status = verdict[t.update.job]
    BY DEF IInv, OutcomesTruthful
  <2>3. QED
    BY <1>2, <2>1, <2>2, MongoEntry DEF TaskSave, IInv
<1>3. ASSUME ListenSave PROVE [MongoLedger!Next]_(MongoLedger!vars)
  <2>1. PICK u \in Update : applying = <<u>>
    BY <1>3 DEF ListenSave, IInv, TypeOK
  <2>2. u.status \in Outcome => u.status = verdict[u.job]
    <3>1. 1 \in DOMAIN applying /\ applying[1] = u
      BY <2>1
    <3>2. QED
      BY <3>1 DEF IInv, OutcomesTruthful
  <2>3. SaveInMongo(u) /\ UNCHANGED verdict
    BY <1>3, <2>1 DEF ListenSave
  <2>4. QED
    BY <2>2, <2>3, MongoEntry DEF IInv
<1>4. ASSUME NEW w \in Worker, NEW o \in Outcome, Finish(w, o)
      PROVE  [MongoLedger!Next]_(MongoLedger!vars)
  BY <1>4, MongoDecision DEF IInv
<1>5. ASSUME NEW j \in Job, Enqueue(j) \/ EnqueueBlocks(j) \/ EnqueueFails(j) \/ ClientTimeout(j)
      PROVE  UNCHANGED <<mongo, verdict>>
  BY <1>5 DEF Enqueue, EnqueueBlocks, EnqueueFails, ClientTimeout
<1>6. ASSUME NEW w \in Worker, \/ StartWorker(w) \/ Unblock(w) \/ Receive(w) \/ Progress(w)
                               \/ Crash(w) \/ Listen(w)
      PROVE  UNCHANGED <<mongo, verdict>>
  BY <1>6 DEF StartWorker, Unblock, Receive, Progress, Crash, Listen
<1>7. ASSUME RestartApi \/ \E t \in tasks : TaskReport(t) PROVE UNCHANGED <<mongo, verdict>>
  BY <1>7 DEF RestartApi, TaskReport
<1>8. ASSUME NEW j \in Polled, PollMemory(j) \/ PollMiss(j) \/ PollMongo(j)
      PROVE  UNCHANGED <<mongo, verdict>>
  BY <1>8 DEF PollMemory, PollMiss, PollMongo
<1>9. UNCHANGED vars => UNCHANGED <<mongo, verdict>>
  BY DEF vars
<1>10. QED
  BY <1>1, <1>2, <1>3, <1>4, <1>5, <1>6, <1>7, <1>8, <1>9 DEF Next, WorkerStep, TaskStep

\* The listener enters in the memory of the API what its ledger lets it enter.
LEMMA ApiEntry ==
  ASSUME TypeOK, TypeOK', OutcomesTruthful, NEW u \in Update, SaveInMemory(Api, u), UNCHANGED verdict,
         u.status \in Outcome => u.status = verdict[u.job]
  PROVE  [ApiLedger!Next]_(ApiLedger!vars)
<1> DEFINE a == [j \in Job |-> mem[Api][j].status]
           b == [j \in Job |-> mem'[Api][j].status]
<1>1. /\ mem[Api] \in [Job -> Record] /\ verdict \in [Job -> {"none"} \cup Outcome]
      /\ u.job \in Job /\ Api \in Process
  BY DEF TypeOK, Update, Process
<1>2. mem[Api][u.job].status \in Outcome => mem[Api][u.job].status = verdict[u.job]
  BY <1>1 DEF OutcomesTruthful
<1>3. mem'[Api] = [mem[Api] EXCEPT ![u.job] = Saved(@, u)]
  BY <1>1 DEF SaveInMemory, TypeOK
<1>4. \/ b = a
      \/ a[u.job] = "ABSENT" /\ b = [a EXCEPT ![u.job] = "PENDING"]
      \/ /\ a[u.job] \in {"ABSENT", "PENDING"} /\ verdict[u.job] \in Outcome
         /\ b = [a EXCEPT ![u.job] = verdict[u.job]]
  <2>1. b = [a EXCEPT ![u.job] = Saved(mem[Api][u.job], u).status]
    BY <1>1, <1>3
  <2>2. a[u.job] = mem[Api][u.job].status /\ a = [a EXCEPT ![u.job] = a[u.job]]
    BY <1>1
  <2>3. mem[Api][u.job] \in Record
    BY <1>1
  <2>4. \/ Saved(mem[Api][u.job], u).status = mem[Api][u.job].status
        \/ mem[Api][u.job].status = "ABSENT" /\ Saved(mem[Api][u.job], u).status = "PENDING"
        \/ /\ mem[Api][u.job].status \in {"ABSENT", "PENDING"} /\ verdict[u.job] \in Outcome
           /\ Saved(mem[Api][u.job], u).status = verdict[u.job]
    BY <1>2, <2>3, SavedStatus
  <2> HIDE DEF a, b
  <2>5. QED
    BY <2>1, <2>2, <2>4
<1>5. CASE b = a
  BY <1>5 DEF ApiLedger!vars
<1>6. CASE a[u.job] = "ABSENT" /\ b = [a EXCEPT ![u.job] = "PENDING"]
  <2>1. ApiLedger!Note(u.job)
    BY <1>6 DEF ApiLedger!Note
  <2>2. QED
    BY <1>1, <2>1 DEF ApiLedger!Next
<1>7. CASE /\ a[u.job] \in {"ABSENT", "PENDING"} /\ verdict[u.job] \in Outcome
           /\ b = [a EXCEPT ![u.job] = verdict[u.job]]
  <2>1. ApiLedger!Publish(u.job)
    BY <1>7 DEF ApiLedger!Publish, ApiLedger!Outcome, Outcome
  <2>2. QED
    BY <1>1, <2>1 DEF ApiLedger!Next
<1>8. QED
  BY <1>4, <1>5, <1>6, <1>7

LEMMA ApiStep == IInv /\ IInv' /\ [Next]_vars => [ApiLedger!Next]_(ApiLedger!vars)
<1> SUFFICES ASSUME IInv, IInv', [Next]_vars PROVE [ApiLedger!Next]_(ApiLedger!vars)
  OBVIOUS
<1>0. /\ mem \in [Process -> [Job -> Record]] /\ Api \in Process /\ Api \notin Worker
      /\ channel \in [Worker -> Seq(Update)]
  BY PipelineAssumption DEF PipelineAssumption, IInv, TypeOK, Process
<1>1. ASSUME mem'[Api] = mem[Api], UNCHANGED verdict PROVE [ApiLedger!Next]_(ApiLedger!vars)
  BY <1>1 DEF ApiLedger!vars
<1>2. ASSUME NEW w \in Worker, Listen(w) PROVE [ApiLedger!Next]_(ApiLedger!vars)
  <2>1. PICK u \in Update : u = Head(channel[w])
    BY <1>0, <1>2 DEF Listen
  <2>2. u.status \in Outcome => u.status = verdict[u.job]
    <3>1. 1 \in DOMAIN channel[w] /\ u = channel[w][1]
      BY <1>0, <1>2, <2>1 DEF Listen
    <3>2. QED
      BY <3>1 DEF IInv, OutcomesTruthful
  <2>3. SaveInMemory(Api, u) /\ UNCHANGED verdict
    BY <1>2, <2>1 DEF Listen
  <2>4. QED
    BY <2>2, <2>3, ApiEntry DEF IInv
<1>3. ASSUME RestartApi PROVE [ApiLedger!Next]_(ApiLedger!vars)
  <2>1. mem'[Api] = [j \in Job |-> Absent] /\ UNCHANGED verdict
    BY <1>0, <1>3 DEF RestartApi
  <2>2. [j \in Job |-> mem'[Api][j].status] = [j \in Job |-> "ABSENT"]
    BY <2>1 DEF Absent
  <2>3. ApiLedger!Forget
    BY <2>1, <2>2 DEF ApiLedger!Forget
  <2>4. QED
    BY <2>3 DEF ApiLedger!Next
<1>4. ASSUME NEW w \in Worker, NEW o \in Outcome, Finish(w, o)
      PROVE  [ApiLedger!Next]_(ApiLedger!vars)
  <2>1. current[w] \in Job /\ verdict[current[w]] = "none"
    BY <1>4 DEF Finish, RunsInStep, IInv
  <2>2. mem'[Api] = mem[Api]
    BY <1>0, <1>4 DEF Finish, Record_, SaveInMemory
  <2>3. ApiLedger!Decide(current[w], o) /\ o \in ApiLedger!Outcome
    BY <1>4, <2>1 DEF Finish, ApiLedger!Decide, ApiLedger!Outcome, Outcome
  <2>4. QED
    BY <2>1, <2>2, <2>3 DEF ApiLedger!Next
<1>5. ASSUME NEW w \in Worker, Receive(w) \/ Progress(w) \/ Crash(w)
      PROVE  mem'[Api] = mem[Api] /\ UNCHANGED verdict
  BY <1>0, <1>5 DEF Receive, Progress, Crash, Record_, SaveInMemory
<1>6. ASSUME NEW j \in Job, Enqueue(j) \/ EnqueueBlocks(j) \/ EnqueueFails(j) \/ ClientTimeout(j)
      PROVE  UNCHANGED <<mem, verdict>>
  BY <1>6 DEF Enqueue, EnqueueBlocks, EnqueueFails, ClientTimeout
<1>7. ASSUME NEW w \in Worker, StartWorker(w) \/ Unblock(w) PROVE UNCHANGED <<mem, verdict>>
  BY <1>7 DEF StartWorker, Unblock
<1>8. ASSUME ListenSave \/ TaskStep PROVE UNCHANGED <<mem, verdict>>
  BY <1>8 DEF ListenSave, TaskStep, TaskSave, TaskReport
<1>9. ASSUME NEW j \in Polled, PollMemory(j) \/ PollMiss(j) \/ PollMongo(j)
      PROVE  UNCHANGED <<mem, verdict>>
  BY <1>9 DEF PollMemory, PollMiss, PollMongo
<1>10. UNCHANGED vars => UNCHANGED <<mem, verdict>>
  BY DEF vars
<1>11. QED
  BY <1>1, <1>2, <1>3, <1>4, <1>5, <1>6, <1>7, <1>8, <1>9, <1>10 DEF Next, WorkerStep

-----------------------------------------------------------------------------
(* The inductive invariant holds throughout.                               *)
THEOREM PipelineInvariant == Spec => []IInv
<1>1. QED
  BY Initially, Inductive, PTL DEF Spec

(* Types: every record, message and answer has a status the BFF knows      *)
(* (worker.js, db.js, api.js).                                             *)
THEOREM PipelineTypeCorrect == Spec => []TypeOK
<1>1. IInv => TypeOK
  BY DEF IInv
<1>2. QED
  BY <1>1, PipelineInvariant, PTL

(* No job is run twice (push.js, worker.js): a worker takes it at most     *)
(* once, for any crashes of the worker that was on it and any restarts.    *)
THEOREM RunsAtMostOnce == Spec => []RunAtMostOnce
<1>1. IInv => RunAtMostOnce
  BY DEF IInv, TakenForGood, RunAtMostOnce
<1>2. QED
  BY <1>1, PipelineInvariant, PTL

(* A final status in any store or on any channel is the one the analysis   *)
(* ended with (saveJobProgress and saveJobResult of db.js).                *)
THEOREM OutcomesAlwaysTruthful == Spec => []OutcomesTruthful
<1>1. IInv => OutcomesTruthful
  BY DEF IInv
<1>2. QED
  BY <1>1, PipelineInvariant, PTL

(* GET /result/:jobId never tells an outcome the analysis did not have,    *)
(* but for the FAILURE of a store that cannot be asked (api.js).           *)
THEOREM AnswersAlwaysTruthful == Spec => []AnswersTruthful
<1>1. IInv => AnswersTruthful
  BY DEF IInv
<1>2. QED
  BY <1>1, PipelineInvariant, PTL

(* An outcome, once decided by run() of worker.js, is never decided again. *)
THEOREM DecisionsStand == Spec => DecidedOnce
<1>1. IInv /\ [Next]_vars
        => [\A j \in Job : verdict[j] # "none" => verdict'[j] = verdict[j]]_vars
  BY VerdictsStand DEF IInv
<1>2. QED
  BY <1>1, PipelineInvariant, PTL DEF Spec, DecidedOnce

(* The collection job_results is a durable JobLedger, whichever processes  *)
(* write to it and however their writes overtake each other.               *)
THEOREM MongoImplementsLedger == Spec => MongoIsLedger
<1>1. Init => MongoLedger!Init
  BY DEF Init, MongoLedger!Init, Absent
<1>2. QED
  BY <1>1, MongoStep, PipelineInvariant, PTL DEF Spec, MongoIsLedger, MongoLedger!Spec

(* The job records in the memory of the API are a JobLedger that a restart *)
(* of the process forgets.                                                 *)
THEOREM ApiImplementsLedger == Spec => ApiIsLedger
<1>1. Init => ApiLedger!Init
  BY DEF Init, ApiLedger!Init, Absent, Process
<1>2. QED
  BY <1>1, ApiStep, PipelineInvariant, PTL DEF Spec, ApiIsLedger, ApiLedger!Spec
=============================================================================
