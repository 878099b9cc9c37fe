---------------------------- MODULE WalletIndex ----------------------------
(***************************************************************************)
(* The chain index of one wallet on one chain, and everybody who writes or *)
(* reads it: analyses (services/analysis/tasks.js and chain-data/), the    *)
(* enrichment jobs they leave behind (queues.js), and the Rust indexer     *)
(* (services/indexer/src), run as `watch`, `backfill` and `reverify`.      *)
(*                                                                         *)
(* Contract addresses are numbered in the order of their deployment, the   *)
(* order in which every loop of the code goes through them.                *)
(***************************************************************************)
EXTENDS Integers, FiniteSets

CONSTANTS
    Analysis,      \* calls of analyzeWallet, each in a worker of its own
    Indexer,       \* subset of {"watch", "backfill", "reverify"}: the commands run
    MaxContracts,  \* bound on the contracts the wallet deploys
    Publishable,   \* those whose source is submitted to Etherscan some day
    MaxFaults,     \* bound on failed calls and crashes
    Watched,       \* BOOLEAN: the wallet is in INDEXER_WATCH_WALLETS
    Alone          \* bound: the analyses that run only before any command is run

ASSUME WalletIndexAssumption ==
    /\ Indexer \subseteq {"watch", "backfill", "reverify"}
    /\ MaxContracts \in Nat /\ MaxFaults \in Nat
    /\ Watched \in BOOLEAN

ASSUME AloneAssumption == Alone \subseteq Analysis

Contract == 1 .. MaxContracts
Unmarked == -1

VARIABLES
    deployed,   \* number of contracts the wallet has deployed
    published,  \* those of them whose source Etherscan has verified
    rows,       \* contract_deployments
    checked,    \* contract_verifications: is_verified, "unknown" without a row
    marker,     \* wallet_deployments: contract_count, Unmarked without a row
    analysis,   \* local state of each analysis
    indexer,    \* local state of each indexer command
    results,    \* analysis_results: the documents of the wallet
    jobs,       \* enrichment jobs under way: whose, and the contracts to count
    faults      \* calls that have failed so far

chain == <<deployed, published>>
index == <<rows, checked, marker>>
vars == <<chain, index, analysis, indexer, results, jobs, faults>>

Deployed == 1 .. deployed
Works == UNCHANGED faults
Fails == faults < MaxFaults /\ faults' = faults + 1

\* The contract a loop over S comes to next.
First(S) == CHOOSE c \in S : \A d \in S : c <= d

------------------------------------------------------------------------------
(* What the index collections go through.                                  *)

SaveRow(c) ==
    /\ rows' = rows \union {c}
    /\ UNCHANGED <<checked, marker>>

SaveCheck(c, flag) ==
    /\ checked' = [checked EXCEPT ![c] = IF flag THEN "yes" ELSE "no"]
    /\ UNCHANGED <<rows, marker>>

SaveMarker(count) ==
    /\ marker' = count
    /\ UNCHANGED <<rows, checked>>

\* Mutant: an answer without source code counts as a verified contract.
LooksVerifiedBlank(c, flag) ==
    \/ Works /\ flag = (c \in published)
    \/ Fails /\ flag \in BOOLEAN

\* What Etherscan says of c. A refusal (rate limit, status "0") or a failed
\* request reads as "not verified".
LooksVerified(c, flag) ==
    \/ Works /\ flag = (c \in published)
    \/ Fails /\ flag = FALSE

------------------------------------------------------------------------------
(* analyzeWallet                                                           *)

NotStarted ==
    [pc |-> "idle", source |-> "live", list |-> {}, verified |-> {},
     todo |-> {}, seen |-> Unmarked]

Goto(a, new) == analysis' = [analysis EXCEPT ![a] = new]

\* getDeploymentsForWallet, first read: no marker, no database or a failed read
\* sends the analysis to the live sources.
ReadMarker(a) ==
    /\ analysis[a].pc = "idle"
    /\ a \in Alone => \A x \in Indexer : indexer[x].pc = "down"
    /\ \/ /\ Works /\ marker # Unmarked
          /\ Goto(a, [analysis[a] EXCEPT !.pc = "rows", !.seen = marker])
       \/ /\ \/ Works /\ marker = Unmarked
             \/ Fails
          /\ Goto(a, [analysis[a] EXCEPT !.pc = "fetch"])
    /\ UNCHANGED <<chain, index, indexer, results, jobs>>

\* Its second read.
ReadRows(a) ==
    /\ analysis[a].pc = "rows"
    /\ \/ /\ Works
          /\ Goto(a, [analysis[a] EXCEPT
                !.pc = IF rows = {} THEN "save" ELSE "checks",
                !.source = "indexed", !.list = rows])
       \/ Fails /\ Goto(a, [analysis[a] EXCEPT !.pc = "fetch"])
    /\ UNCHANGED <<chain, index, indexer, results, jobs>>

\* Mutant: the marker is read last.
ReadChecksMarkerLast(a) ==
    /\ analysis[a].pc = "checks"
    /\ Works
    /\ Goto(a, [analysis[a] EXCEPT !.pc = "lookup", !.todo = analysis[a].list,
          !.seen = marker])
    /\ UNCHANGED <<chain, index, indexer, results, jobs>>

\* Its third read. If a contract has no verification row all are looked up.
ReadChecks(a) ==
    /\ analysis[a].pc = "checks"
    /\ LET list == analysis[a].list
           complete == \A c \in list : checked[c] # "unknown"
       IN  \/ /\ Works /\ complete
              /\ Goto(a, [analysis[a] EXCEPT !.pc = "save",
                    !.verified = {c \in list : checked[c] = "yes"}])
           \/ /\ Works /\ ~complete
              /\ Goto(a, [analysis[a] EXCEPT !.pc = "lookup", !.todo = list])
           \/ Fails /\ Goto(a, [analysis[a] EXCEPT !.pc = "fetch",
                    !.source = "live", !.list = {}])
    /\ UNCHANGED <<chain, index, indexer, results, jobs>>

\* fetchDeployments: Alchemy, whose answer lacks the contracts it has no receipt
\* for yet; Etherscan if that fails or is empty; nothing if both fail.
Fetch(a) ==
    /\ analysis[a].pc = "fetch"
    /\ \E list \in SUBSET Deployed :
        /\ (Works /\ list = Deployed) \/ Fails
        /\ Goto(a, [analysis[a] EXCEPT
              !.pc = IF list = {} THEN "save" ELSE "lookup",
              !.list = list, !.todo = list])
    /\ UNCHANGED <<chain, index, indexer, results, jobs>>

\* enrichVerification, one contract.
LookUp(a) ==
    /\ analysis[a].pc = "lookup"
    /\ LET c == First(analysis[a].todo)
           left == analysis[a].todo \ {c}
       IN  \E flag \in BOOLEAN :
            /\ LooksVerified(c, flag)
            /\ Goto(a, [analysis[a] EXCEPT
                  !.verified = IF flag THEN @ \union {c} ELSE @,
                  !.todo = IF left = {} THEN analysis[a].list ELSE left,
                  !.pc = IF left # {} THEN "lookup"
                         ELSE IF analysis[a].source = "live" THEN "saveRow"
                         ELSE "saveCheck"])
    /\ UNCHANGED <<chain, index, indexer, results, jobs>>

\* Mutant: the error of one row is swallowed, and the loop goes on to the marker.
UpsertDeploymentSwallowing(a) ==
    /\ analysis[a].pc = "saveRow"
    /\ LET c == First(analysis[a].todo)
           left == analysis[a].todo \ {c}
       IN  /\ \/ Works /\ SaveRow(c)
              \/ Fails /\ UNCHANGED index
           /\ Goto(a, [analysis[a] EXCEPT !.todo = left,
                 !.pc = IF left = {} THEN "mark" ELSE "saveRow"])
    /\ UNCHANGED <<chain, indexer, results, jobs>>

\* upsertContractDeployments, one row. The first one that fails ends it, without
\* a marker; the verifications are saved all the same.
UpsertDeployment(a) ==
    /\ analysis[a].pc = "saveRow"
    /\ LET c == First(analysis[a].todo)
           left == analysis[a].todo \ {c}
       IN  \/ /\ Works /\ SaveRow(c)
              /\ Goto(a, [analysis[a] EXCEPT !.todo = left,
                    !.pc = IF left = {} THEN "mark" ELSE "saveRow"])
           \/ /\ Fails /\ UNCHANGED index
              /\ Goto(a, [analysis[a] EXCEPT !.pc = "saveCheck",
                    !.todo = analysis[a].list])
    /\ UNCHANGED <<chain, indexer, results, jobs>>

\* markWalletIndexed
MarkIndexed(a) ==
    /\ analysis[a].pc = "mark"
    /\ \/ Works /\ SaveMarker(Cardinality(analysis[a].list))
       \/ Fails /\ UNCHANGED index
    /\ Goto(a, [analysis[a] EXCEPT !.pc = "saveCheck",
          !.todo = analysis[a].list])
    /\ UNCHANGED <<chain, indexer, results, jobs>>

\* upsertContractVerification, one row; its failure is not looked at.
UpsertVerification(a) ==
    /\ analysis[a].pc = "saveCheck"
    /\ LET c == First(analysis[a].todo)
           left == analysis[a].todo \ {c}
       IN  /\ \/ Works /\ SaveCheck(c, c \in analysis[a].verified)
              \/ Fails /\ UNCHANGED index
           /\ Goto(a, [analysis[a] EXCEPT !.todo = left,
                 !.pc = IF left = {} THEN "save" ELSE "saveCheck"])
    /\ UNCHANGED <<chain, indexer, results, jobs>>

\* The queue with what analysis a puts into it: nothing if it found nothing verified.
EnqueueEnrichment(a) ==
    IF analysis[a].verified = {} THEN jobs
    ELSE jobs \union {[of |-> a, contracts |-> analysis[a].verified]}

\* Mutant: only a live answer is enriched.
SaveResultLiveOnly(a) ==
    /\ analysis[a].pc = "save"
    /\ Works
    /\ results' = {[by |-> a, contracts |-> analysis[a].list,
          verified |-> analysis[a].verified,
          interactors |-> UNION {d.interactors : d \in results}]}
    /\ jobs' = IF analysis[a].verified = {} \/ analysis[a].source = "indexed"
               THEN jobs
               ELSE jobs \union {[of |-> a, contracts |-> analysis[a].verified]}
    /\ Goto(a, [analysis[a] EXCEPT !.pc = "done"])
    /\ UNCHANGED <<chain, index, indexer>>

\* Mutant: the number of verified contracts is set on insert only, as that of the
\* interactors is.
SaveResultSettingOnInsert(a) ==
    /\ analysis[a].pc = "save"
    /\ Works
    /\ results' = {[by |-> a, contracts |-> analysis[a].list,
          verified |-> IF results = {} THEN analysis[a].verified
                       ELSE UNION {d.verified : d \in results},
          interactors |-> UNION {d.interactors : d \in results}]}
    /\ jobs' = EnqueueEnrichment(a)
    /\ Goto(a, [analysis[a] EXCEPT !.pc = "done"])
    /\ UNCHANGED <<chain, index, indexer>>

\* saveAnalysisResult keeps the count of an earlier document; the verified
\* contracts go to the enrichment queue whether or not the result was saved.
SaveResult(a) ==
    /\ analysis[a].pc = "save"
    /\ LET t == analysis[a]
       IN  /\ \/ /\ Works
                 /\ results' = {[by |-> a, contracts |-> t.list,
                        verified |-> t.verified,
                        interactors |-> UNION {d.interactors : d \in results}]}
              \/ Fails /\ UNCHANGED results
           /\ jobs' = EnqueueEnrichment(a)
           /\ Goto(a, [t EXCEPT !.pc = "done"])
    /\ UNCHANGED <<chain, index, indexer>>

\* The worker goes down, and its enrichment queue with it.
Crash(a) ==
    /\ analysis[a].pc \notin {"idle", "lost"}
    /\ analysis[a].pc = "done" => \E j \in jobs : j.of = a
    /\ Fails
    /\ jobs' = {j \in jobs : j.of # a}
    /\ Goto(a, IF analysis[a].pc = "done" THEN analysis[a]
               ELSE [NotStarted EXCEPT !.pc = "lost"])
    /\ UNCHANGED <<chain, index, indexer, results>>

\* The contracts whose senders Etherscan may turn out to list.
FetchUniqueSenders(job) == SUBSET job.contracts

\* updateUniqueInteractors: an update of the wallet's document, if there is one.
UpdateUniqueInteractors(counted) ==
    results' = {[d EXCEPT !.interactors = {counted}] : d \in results}

\* countUniqueInteractors, started by the queue as soon as it is enqueued.
\* Contracts whose senders cannot be fetched are left out of the count; an update
\* that fails or finds no document is lost. Nothing throws, so nothing is retried.
Enrich(job) ==
    /\ \E counted \in FetchUniqueSenders(job) :
        \/ Works /\ counted = job.contracts /\ UpdateUniqueInteractors(counted)
        \/ Fails /\ (UpdateUniqueInteractors(counted) \/ UNCHANGED results)
    /\ jobs' = jobs \ {job}
    /\ UNCHANGED <<chain, index, analysis, indexer>>

------------------------------------------------------------------------------
(* The Rust indexer. A failed call ends what the command is doing.         *)

Resting == [pc |-> "idle", list |-> {}, verified |-> {}, todo |-> {}]

Move(x, new) == indexer' = [indexer EXCEPT ![x] = new]

\* list_wallets, and INDEXER_WATCH_WALLETS.
WalletListed == marker # Unmarked \/ Watched

\* `watch` refreshes the wallets that have a marker and those of its environment;
\* if it cannot list them, the process ends. `backfill` names its wallet.
Begin(x) ==
    /\ x \in {"watch", "backfill"}
    /\ indexer[x].pc = "idle"
    /\ \/ /\ Works
          /\ x = "watch" => WalletListed
          /\ Move(x, [indexer[x] EXCEPT !.pc = "fetch"])
       \/ /\ x = "watch" /\ Fails
          /\ Move(x, [indexer[x] EXCEPT !.pc = "down"])
    /\ UNCHANGED <<chain, index, analysis, results, jobs>>

\* A command is run; `watch` again after it ended.
Start(x) ==
    /\ indexer[x].pc = "down"
    /\ \A a \in Alone : analysis[a].pc = "idle"
    /\ Move(x, Resting)
    /\ UNCHANGED <<chain, index, analysis, results, jobs, faults>>

\* fetch_deployments, and mark_empty_wallet if nothing is found.
Refresh(x) ==
    /\ indexer[x].pc = "fetch"
    /\ \/ \E list \in SUBSET Deployed :
            /\ (Works /\ list = Deployed) \/ Fails
            /\ Move(x, [indexer[x] EXCEPT !.list = list, !.todo = list,
                  !.pc = IF list = {} THEN "mark" ELSE "lookup"])
       \/ Fails /\ Move(x, Resting)
    /\ UNCHANGED <<chain, index, analysis, results, jobs>>

\* enrich_verification, one contract.
CheckSource(x) ==
    /\ indexer[x].pc = "lookup"
    /\ LET c == First(indexer[x].todo)
           left == indexer[x].todo \ {c}
       IN  \/ \E flag \in BOOLEAN :
                /\ LooksVerified(c, flag)
                /\ Move(x, [indexer[x] EXCEPT
                      !.verified = IF flag THEN @ \union {c} ELSE @,
                      !.todo = IF left = {} THEN indexer[x].list ELSE left,
                      !.pc = IF left = {} THEN "saveRow" ELSE "lookup"])
           \/ Fails /\ Move(x, Resting)
    /\ UNCHANGED <<chain, index, analysis, results, jobs>>

\* save_backfill: for each contract its row, then its verification; at last the
\* marker.
BackfillRow(x) ==
    /\ indexer[x].pc = "saveRow"
    /\ \/ /\ Works /\ SaveRow(First(indexer[x].todo))
          /\ Move(x, [indexer[x] EXCEPT !.pc = "saveCheck"])
       \/ Fails /\ Move(x, Resting) /\ UNCHANGED index
    /\ UNCHANGED <<chain, analysis, results, jobs>>

\* Mutant: is_verified is set on insert only.
BackfillCheckOnInsert(x) ==
    /\ indexer[x].pc = "saveCheck"
    /\ LET c == First(indexer[x].todo)
           left == indexer[x].todo \ {c}
       IN  /\ Works
           /\ IF checked[c] = "unknown" THEN SaveCheck(c, c \in indexer[x].verified)
              ELSE UNCHANGED index
           /\ Move(x, [indexer[x] EXCEPT !.todo = left,
                 !.pc = IF left = {} THEN "mark" ELSE "saveRow"])
    /\ UNCHANGED <<chain, analysis, results, jobs>>

BackfillCheck(x) ==
    /\ indexer[x].pc = "saveCheck"
    /\ LET c == First(indexer[x].todo)
           left == indexer[x].todo \ {c}
       IN  \/ /\ Works /\ SaveCheck(c, c \in indexer[x].verified)
              /\ Move(x, [indexer[x] EXCEPT !.todo = left,
                    !.pc = IF left = {} THEN "mark" ELSE "saveRow"])
           \/ Fails /\ Move(x, Resting) /\ UNCHANGED index
    /\ UNCHANGED <<chain, analysis, results, jobs>>

BackfillMark(x) ==
    /\ indexer[x].pc = "mark"
    /\ \/ Works /\ SaveMarker(Cardinality(indexer[x].list))
       \/ Fails /\ UNCHANGED index
    /\ Move(x, Resting)
    /\ UNCHANGED <<chain, analysis, results, jobs>>

\* `reverify`: the rows checked longer ago than its max_age_hours, which may be
\* any, each looked up and saved in turn. A failed lookup leaves its row; a failed
\* write ends the command.
ListStale(x) ==
    /\ x = "reverify" /\ indexer[x].pc = "idle"
    /\ Works
    /\ \E stale \in SUBSET {c \in Contract : checked[c] # "unknown"} :
        /\ stale # {}
        /\ Move(x, [indexer[x] EXCEPT !.pc = "recheck", !.todo = stale])
    /\ UNCHANGED <<chain, index, analysis, results, jobs>>

Recheck(x) ==
    /\ indexer[x].pc = "recheck"
    /\ LET c == First(indexer[x].todo)
           left == indexer[x].todo \ {c}
       IN  \/ \E flag \in BOOLEAN :
                /\ LooksVerified(c, flag)
                /\ Move(x, [indexer[x] EXCEPT !.pc = "update",
                      !.verified = IF flag THEN {c} ELSE {}])
           \/ /\ Fails
              /\ Move(x, IF left = {} THEN Resting
                         ELSE [indexer[x] EXCEPT !.todo = left])
    /\ UNCHANGED <<chain, index, analysis, results, jobs>>

UpdateVerification(x) ==
    /\ indexer[x].pc = "update"
    /\ LET c == First(indexer[x].todo)
           left == indexer[x].todo \ {c}
       IN  \/ /\ Works /\ SaveCheck(c, c \in indexer[x].verified)
              /\ Move(x, IF left = {} THEN Resting
                         ELSE [indexer[x] EXCEPT !.todo = left, !.pc = "recheck"])
           \/ Fails /\ Move(x, Resting) /\ UNCHANGED index
    /\ UNCHANGED <<chain, analysis, results, jobs>>

------------------------------------------------------------------------------
(* The world outside                                                       *)

Deploy ==
    /\ deployed < MaxContracts
    /\ deployed' = deployed + 1
    /\ UNCHANGED <<published, index, analysis, indexer, results, jobs, faults>>

Publish(c) ==
    /\ c \in (Deployed \cap Publishable) \ published
    /\ published' = published \union {c}
    /\ UNCHANGED <<deployed, index, analysis, indexer, results, jobs, faults>>

------------------------------------------------------------------------------
Init ==
    /\ deployed = 0 /\ published = {}
    /\ rows = {} /\ marker = Unmarked
    /\ checked = [c \in Contract |-> "unknown"]
    /\ analysis = [a \in Analysis |-> NotStarted]
    /\ indexer = [x \in Indexer |-> [Resting EXCEPT !.pc = "down"]]
    /\ results = {} /\ jobs = {} /\ faults = 0

AnalysisStep(a) ==
    \/ ReadMarker(a) \/ ReadRows(a) \/ ReadChecks(a)
    \/ Fetch(a) \/ LookUp(a)
    \/ UpsertDeployment(a) \/ MarkIndexed(a) \/ UpsertVerification(a)
    \/ SaveResult(a)

IndexerStep(x) ==
    \/ Begin(x) \/ Refresh(x) \/ CheckSource(x)
    \/ BackfillRow(x) \/ BackfillCheck(x) \/ BackfillMark(x)
    \/ ListStale(x) \/ Recheck(x) \/ UpdateVerification(x)

Next ==
    \/ \E a \in Analysis : AnalysisStep(a) \/ Crash(a)
    \/ \E job \in jobs : Enrich(job)
    \/ \E x \in Indexer : IndexerStep(x) \/ Start(x)
    \/ Deploy \/ (\E c \in Contract : Publish(c))

Spec == Init /\ [][Next]_vars

\* The event loop of each process goes on, and `watch` wakes up after each
\* interval. Nobody has to start an analysis or another command.
Fairness ==
    /\ \A a \in Analysis : WF_vars(analysis[a].pc # "idle" /\ AnalysisStep(a))
    /\ \A x \in Indexer :
        WF_vars((x = "watch" \/ indexer[x].pc # "idle") /\ IndexerStep(x))
    /\ WF_vars(\E job \in jobs : Enrich(job))

FairSpec == Spec /\ Fairness

------------------------------------------------------------------------------
AnalysisState ==
    [pc : {"idle", "rows", "checks", "fetch", "lookup", "saveRow", "mark",
           "saveCheck", "save", "done", "lost"},
     source : {"live", "indexed"}, list : SUBSET Contract,
     verified : SUBSET Contract, todo : SUBSET Contract,
     seen : {Unmarked} \union 0 .. MaxContracts]

IndexerState ==
    [pc : {"idle", "down", "fetch", "lookup", "saveRow", "saveCheck", "mark",
           "recheck", "update"},
     list : SUBSET Contract, verified : SUBSET Contract, todo : SUBSET Contract]

\* Nobody enters a loop body with nothing left to do.
Looping == {"lookup", "saveRow", "saveCheck", "recheck", "update"}

WorldType ==
    /\ deployed \in 0 .. MaxContracts /\ published \subseteq Deployed
    /\ faults \in 0 .. MaxFaults

IndexType ==
    /\ rows \subseteq Deployed
    /\ checked \in [Contract -> {"unknown", "yes", "no"}]
    /\ \A c \in Contract : checked[c] # "unknown" => c \in Deployed
    /\ marker \in {Unmarked} \union 0 .. MaxContracts

AnalysisType ==
    /\ analysis \in [Analysis -> AnalysisState]
    /\ \A a \in Analysis :
        /\ analysis[a].list \subseteq Deployed
        /\ analysis[a].todo \subseteq analysis[a].list
        /\ analysis[a].pc \in Looping <=> analysis[a].todo # {}
        /\ analysis[a].pc \in {"checks", "mark"} => analysis[a].list # {}

IndexerType ==
    /\ indexer \in [Indexer -> IndexerState]
    /\ \A x \in Indexer :
        /\ indexer[x].list \union indexer[x].todo \subseteq Deployed
        /\ indexer[x].pc \in Looping => indexer[x].todo # {}
        /\ indexer[x].pc = "lookup" => indexer[x].list # {}

DocumentType ==
    /\ results \subseteq [by : Analysis, contracts : SUBSET Contract,
          verified : SUBSET Contract, interactors : SUBSET SUBSET Contract]
    /\ jobs \subseteq [of : Analysis, contracts : SUBSET Contract]

\* Everybody works on contracts that exist.
TypeOK == WorldType /\ IndexType /\ AnalysisType /\ IndexerType /\ DocumentType

\* A marker never counts more contracts than there are deployment rows, whoever
\* wrote them and wherever a write failed: read.js and store.rs write it last.
CountBacked == marker # Unmarked => marker <= Cardinality(rows)

\* An analysis that goes by the index has every contract the marker it relies on
\* counted, although marker, rows and verifications are three reads and others
\* write in between.
AnswerNotTorn ==
    \A a \in Analysis :
        analysis[a].source = "indexed"
            => analysis[a].seen <= Cardinality(analysis[a].list)

\* No row, answer or document calls a contract verified that is not, whatever the
\* order in which stale lookups are saved.
NoOverclaim ==
    /\ \A c \in Contract : checked[c] = "yes" => c \in published
    /\ \A a \in Analysis : analysis[a].verified \subseteq published
    /\ \A d \in results : UNION d.interactors \subseteq published

\* What a document of analysis_results says of contracts is the answer of one
\* analysis, whichever saves fail, whoever crashes and however late a count comes.
\* Its interactors are those of verified contracts some finished analysis found,
\* not always this one: a save keeps the count of the document it overwrites, and
\* a count is written without a look at whose document it is.
ResultsAreAnswers ==
    \A d \in results :
        /\ analysis[d.by].pc = "done"
        /\ d.contracts = analysis[d.by].list
        /\ d.verified = analysis[d.by].verified
        /\ \A counted \in d.interactors : \E a \in Analysis :
              analysis[a].pc = "done" /\ counted \subseteq analysis[a].verified

\* As long as `watch` is running, the index of a marked wallet comes to agree with
\* the chain and with Etherscan, whatever stale or failed answers were saved.
IndexConverges ==
    \/ <>[](indexer["watch"].pc = "down")
    \/ <>[](marker # Unmarked =>
              /\ rows = Deployed /\ marker = deployed
              /\ \A c \in Deployed : checked[c] = IF c \in published THEN "yes" ELSE "no")

\* A saved result with verified contracts gets its count of interactors unless a
\* call fails or the worker goes down.
EnrichmentSettles ==
    (\E d \in results : d.verified # {})
        ~> (faults > 0 \/ \A d \in results : d.interactors # {})

==============================================================================
