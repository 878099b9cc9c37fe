# Proof-of-Dev in TLA+

Proof-of-Dev scores a developer's wallet from the contracts it deployed and the
protocol accounts it used, and mints the score as a soulbound token. This
directory holds TLA+ models of that program, TLC configurations that check
them on small instances, and proofs for every value of the constants. The
modules are translations of the source; the docs are only used as the source
of claims to compare the code with.

    tlc -config MCTokens.cfg MCProofOfDev      # model-check one run
    tlapm ProofOfDevProofs.tla                 # check one module's proofs

## 1. The system

| Component | Source | State | Operations | Talks to |
|---|---|---|---|---|
| Contract | `contracts/ProofOfDev.sol` | holder maps, nonces, metadata, verified flags, owner, pending owner, signer, cached chain id | mint, updateScore, burn, markVerified, transfer/acceptOwnership, setSigner, setBaseURI; transfers and approvals revert | wallets, KeeperHub's wallet, owner |
| Analysis API | `services/analysis/api.js` | push socket, `_memoryJobs`, listener | POST /analyze, GET /result, GET /profile, POST /keeperhub/verify, shutdown | BFF, workers (ZeroMQ), MongoDB, KeeperHub, Etherscan |
| Worker | `services/analysis/worker.js` | current job, calls under way, its own `_memoryJobs` | run, recordProgress, recordResult, shutdown | API (two ZeroMQ channels), MongoDB |
| Results channel | `services/analysis/resultsChannel.js` | push socket per worker, pull socket of the API | reportJobUpdate, listenForJobUpdates | worker to API |
| Job store | `services/analysis/db.js` | a Map per process, collections `job_results`, `analysis_results`, `wallet_profiles` | saveJobProgress, saveJobResult, getJobResult, pruning, connection | all processes |
| Push socket | `services/analysis/push.js` | socket, bind in flight, next retry | getPush, closePush | API |
| Wallet analysis | `tasks.js`, `profile.js`, `normalize.js`, `chain-data/*` | none of its own; writes the index | analyzeWallet and its sources | Alchemy, RPC, Etherscan, MongoDB |
| Enrichment queue | `queues.js`, `chain-data/interactors.js` | queue of jobs, interactor count in `analysis_results` | enqueue, run | MongoDB, Etherscan |
| Chain index | `chain-data/read.js`, `services/indexer/src/*.rs` | deployments, verifications, indexed-wallet marker | upsert, mark, read; backfill, watch, reverify | worker and Rust indexer share MongoDB |
| Scoring | `scoring.generated.js`, `lib/core/scoring.ts` | none | score, tier, penalties | analysis, BFF |
| KeeperHub client | `keeperhub.js`, `chain-data/mintEvents.js` | none; executions live at KeeperHub | simulate, execute, poll | KeeperHub, Etherscan |
| Mint and attest buttons | `components/MintButton.tsx`, `AttestButton.tsx` | dialog step, checkbox, isAuthorizing, the wallet call, the query for the receipt, keeperhubState | confirm, authorize, send, follow the receipt, trigger verification, poll isVerified | BFF, wallet, contract |
| Mint authorization, EAS | `lib/mint/*`, `lib/eas/*`, `lib/api/canonicalProfile.ts` | none | read the stored profile, sign with the chain's nonce and a deadline | buttons, worker API, contract |
| Page, hooks, BFF | `app/page.tsx`, `hooks/*`, `lib/api/*` | page state, abort controller, timer, readiness | start, poll, give up, show | API, wallet |

What is hard here:

* **Interleaving.** `onProgress` is not awaited, so several saves of one job
  are under way at once and overtake its result. The listener of the API and
  the worker both write MongoDB. KeeperHub simulates, then sends: in between
  anybody may call the contract.
* **Failure.** A write to MongoDB that fails is logged and swallowed, as is a
  report that cannot be sent. A crashed worker loses its queue, a restarted API
  its job records.
* **Shared data.** An index of three collections is written row by row by four
  kinds of process, without transactions, and read in three reads.
* **Stale answers.** Etherscan lookups, nonces, profiles, the connected account
  and the network are all read some time before they are used. A mint button
  whose receipt cannot be had, or that is left, forgets a pending transaction.
* **Timeouts.** The BFF gives up an enqueue that the API goes on with; the
  route gives up polling an execution that KeeperHub goes on with.
* **Long call sequences.** `burn` leaves the verified flag set; ownership takes
  two steps; nonces are all that stands between a signature and its replay.

What makes each part correct is stated as the properties of section 3; the
places where it could go wrong are the `hazards` of `PROJECT.json`.

## 2. Modules

| Module | Models | Correspondence |
|---|---|---|
| `ProofOfDev` | the contract and the chain it is on | one action per external function, one variable per storage slot. A call that reverts is no step. View functions are operators. `accepted` is a history variable: the attestations that took effect. |
| `JobLedger` | abstract store of job records | absent, PENDING, final once and with the outcome the analysis had; a volatile store may forget everything |
| `JobPipeline` | API, workers, channels, job store, BFF timeout | one action per stretch of code between two awaits: memory at once (`Record_`), MongoDB later (`TaskSave`, `ListenSave`), then the report (`TaskReport`). Enqueueing, blocked sends, polls, crashes and restarts are actions. `runs` is a history variable: how often a worker took each job. |
| `AnalysisRequests` | abstract page | one request at a time, answered once and truthfully; the answer stays until the next request or until the page is left |
| `AnalysisPage` | page, hooks and progress bar, in front of the job store | runs of `runAnalysis` are numbered; refs and React state are variables; the job store is `JobLedger` itself (`Jobs!...`), volatile. Answers of the BFF route are an operator (`Answers`), and so is what the bar of `AnalysisProgress` shows of the page's state. |
| `WalletIndex` | analyses, their enrichment jobs and the Rust indexer on one wallet | one action per database call or request; each may fail at the cost of a fault. `rows`, `checked`, `marker` are the three index collections, `results` is `analysis_results`, whose document says which analysis wrote it. |
| `Scoring` | normalisation, both scoring engines, profile, the bars of the score card | pure operators over sequences of contracts; a loop of the code is a recursive function of how far it has come; the state only enumerates what the sources list and when it is scored. The generated engine's parts are mapped to their template in `generate.js` where it has them. |
| `Publishing` | buttons, signing services, wallet, attempts to mint | extends `ProofOfDev`: the mint transaction is the contract's `Mint`, and its other functions interleave. A click on the button is an attempt, numbered, from the request to the server to the block; the button refers to the attempt it authorizes (`auth`), the last one it gave the wallet (`tx`) and what the query for its receipt has come to (`receipt`). Account and network are parameters of `ApproveInWallet`. `known` is a history variable, and so are an attempt's `held` and `ours` (what the wallet held, and whether the signer was the server's, when the server signed) and `lost` (the button no longer knows that it is under way). |
| `KeeperHub` | button, route, `verifyMintOnChain`, KeeperHub's executions | extends `ProofOfDev`: every action of the contract interleaves with every step of a request. What KeeperHub answers to a simulation or a poll is the operators `SimulateContractCall` and `GetExecutionStatus`. |
| `MC*` | | constants for TLC |
| `*Proofs` | | theorems of the module they are named after |

Composition: `Publishing` and `KeeperHub` are each composed with the contract,
and both are proved to implement its `Spec`. `JobPipeline` is shown to
implement `JobLedger` in both of its stores, and `AnalysisPage` is built on
`JobLedger`, so that what is said about the page holds for what the pipeline
does. The page in turn is proved to implement `AnalysisRequests`.

A signature is modelled by the digest it signs and the key that signed it
(`Attestation`); any key may have signed anything in `ProofOfDev`, and
`Recover` yields the key only for the digest that was signed. The function
arguments of `mint` and `updateScore` are those of the attestation, since with
others the contract recovers nobody's address.

Beside some definitions stands a variant marked *Mutant*, the same definition
with one plausible mistake in it (a dropped check, a missing reset). No
specification uses the variants; each documents which mistake a property
catches, and `PROJECT.json` lists the pairs.

Abstractions, beyond those:

* `JobPipeline`'s horizon is shorter than `JOB_TTL_MS`; no record expires. A
  wallet, a score or a message is the job it belongs to. One poll per job is
  under way at a time, and polling goes on after a final answer (the hook stops
  at the first one; what it would have seen later is of interest). The
  high-water mark of ZeroMQ is never reached. `push.send` while another send is
  blocked fails, as the zeromq binding does. There is one document per job.
* In `KeeperHub`, Etherscan and KeeperHub are external. The same
  idempotency key always yields the first execution.
* `WalletIndex` has one wallet on one chain; others share no document with it.
  Contracts are numbered by deployment, the order of all the loops. Alchemy and
  Etherscan list what is deployed unless they fail, in which case anything less
  may come out. That takes a wallet of at most 1000 deployments:
  `deployments.js:44` and `deployments.rs:48` ask Alchemy for so many transfers
  and for no further page. The marker is the number of distinct contracts; the
  code takes the length of the list it wrote (`read.js:157`, `store.rs:134`),
  which counts a contract twice that the source lists twice. The sources'
  protocol usage and ENS are not there. The retries of `queues.js` are not
  either: its handler catches everything, so they never run.
* `Scoring` has the points and multipliers of `scoring.json` as they are
  (multipliers in hundredths, which keeps the code's rounding exact), but the
  cap, the burst window and the age threshold as constants, so that small lists
  reach them. Malformed timestamps are numbers that are not positive.
* `AnalysisPage`: a button's click is possible where the page enables it, which
  is why two runs are never under way; the stage a pending poll brings may
  be any that a job can have (`JobStage`), in whatever order: `queued`, which the
  BFF puts in for none, and `ens`, which the worker reports of an analysis without
  ENS too (`tasks.js:99`), are among them.
* `Publishing`: the server's clock is the chain's; messages and the texts shown
  are left out; a tab's buttons are for a fixed address, as a dashboard passes
  it to them. A tab is left and opened again (`Leave`), which a reload, a new
  analysis or the browser may do; a request to the server dies with the page, but
  goes on when only the button goes. What the wallet has or has sent stays
  there. An RPC node may fail to answer at any time, and wagmi asks again when
  the window gets the focus or the network changes (`Refetch`). No other part of
  the application mounts the two buttons at this commit, although the
  repository's README:206 describes them on the dashboard.
* `uint256` arithmetic does not overflow within any reachable number of calls,
  and malleated signatures, which `_verifySignature` rejects, do not exist.

## 3. Runs

Passing runs:

| Run | Instance | Shows |
|---|---|---|
| `contract_tokens` (`MCTokens`) | 2 accounts, both of which mint and may own the contract; 3 tokens, 2 nonces each; one chain | `HoldingsAgree`, `FreshIdsPristine`, `SupplyCountsMints`, `Soulbound`, `VerifiedIsOneWay`, `TypeOK` through mint, verify, burn and re-mint generations |
| `contract_attestations` (`MCAttestations`) | 1 minting account, 2 keys, 2 chain ids, 2 contents, 2 block times, 2 tokens | every dimension of an attestation: replay (`NonceLedger`), staleness (`AcceptedInForce`), what the token shows (`MetadataIsNewest`) |
| `jobs_delivery` (`MCJobsDelivery`) | 2 jobs, 2 workers, 1 stage, 1 crash, 1 restart | no job is taken by a worker twice (`RunAtMostOnce`, of the history `runs`) or decided twice (`DecidedOnce`), with blocked sends, client timeouts and a worker that goes down with its queue |
| `jobs_answers` (`MCJobsAnswers`) | 1 job, 1 worker, 2 stages, MongoDB flaky at every write and read, 1 crash, 1 restart, 1 lost report | `OutcomesTruthful`, `AnswersTruthful`; MongoDB and the API's memory each implement `JobLedger`; `PollingCompletes` where nothing crashed, restarted or was lost, however flaky MongoDB is |
| `keeperhub` (`MCKeeperHub`) | 2 requests for 1 token; KeeperHub may fail an execution | `OneExecution`, `TriggeredMeansVerified`, `RequestsEnd` |
| `wallet_index` (`MCWalletIndex`) | 2 analyses, `watch` and `reverify`, 2 contracts, one of them published some day; 1 failed call or crash; the second analysis only where no command runs (`Alone`) | no marker counts too much (`CountBacked`), no answer is torn (`AnswerNotTorn`), nothing over-claims (`NoOverclaim`), what a document says of contracts is one analysis's answer, and its interactors are of contracts some analysis found verified (`ResultsAreAnswers`), the index converges (`IndexConverges`) and interactors get counted (`EnrichmentSettles`) |
| `scoring` (`MCScoring`) | lists of up to 4 entries, 3 scored; timestamps -1, 1, 2, 3; window 1, age threshold 2; clock 3 to 4; without ENS and with a name and 0 to 3 metadata fields | the engines agree with each other and with the table of tiers (`Parity`), bursts and duplicates match their definitions, which know no order (`BurstsAreTriples`, `DedupeKeepsOldest`); penalties are announced (`PenaltyIsAnnounced`), time never hurts (`AgingNeverHurts`) |
| `publishing` (`MCPublishing`) | 1 tab that may be left and opened again, 2 clicks, 2 accounts, 2 networks, 2 tokens, 2 nonces, deadlines that pass, a signer that is rotated, receipts that cannot be had, transactions that are replaced | `MintedIsCanonical`, `OneTransactionPerTab`, `DoneIsMinted`, `RevertHasCause`, `ButtonsSettle` |
| `analysis_page` (`MCAnalysisPage`) | 2 analyses, 2 polls each before giving up, 2 reloads | the page implements `AnalysisRequests` (`AnswersRequests`); `TimerOfTheRun`, `ProgressWhileLoading`, `AppBecomesReady`, `LoadingEnds` |

Runs that refute what a comment or a document says of the program:

| Run | Claim | What happens |
|---|---|---|
| `jobs_failure_status` | `api.js:145`: FAILURE means the job raised an exception | without MongoDB a poll before the worker's first report finds nothing in memory and is told FAILURE (`db.js:336`); the hook gives up |
| `keeperhub_cancelled` | `keeperhub.js:303`: throws if the execution ultimately fails | a `cancelled` execution ends the polling and counts as success |
| `attest_response` | `app/api/attest/route.ts:13`: the response is the signed payload | the payload's `deadline` is a bigint, which `NextResponse.json` cannot serialize: every signed attestation is answered with an error |

Smaller observations of the same kind, each at its line in the `hazards` of
`PROJECT.json` and in no run of its own: a report of a result that is lost
leaves GET /result at PENDING because the API's memory hides MongoDB
(`db.js:330`); a verification request that gave up leaves the badge at `error`
although the transaction lands (`MintButton.tsx:106`); without ENS the progress
bar reads "100% Complete" during scoring (`AnalysisProgress.tsx:52`) and points
no step out while the worker is at the ENS stage it reports all the same
(`ProgressWhileLoading` states both); a mint sent after the wallet left Sepolia,
and a transaction that was replaced in the wallet by another one, is shown as
minted (`DoneIsMinted` excepts them); when the RPC node cannot be asked for the
receipt, or the page is reloaded, the mint button forgets its pending
transaction and a second one can be sent, of which the contract takes one at
most (`OneTransactionPerTab` excepts what the button has lost sight of); a wallet
that holds a token already, or asks while the contract has another signer, is
signed an authorization that can only revert (`mintAuthorizationService.ts:88-96`
asks the contract for neither; `VoidWhenSigned` in `RevertHasCause`); the count
of interactors in a stored result may be another analysis's (`db.js:190`);
the retry branch of the
enrichment queue never runs.

**Bounds.** Two accounts suffice for everything the contract says about two
holders; three ids give each of them a token and one of them a second
generation, and two nonces give every attestation a predecessor. Properties of
the contract are proved without these bounds, too. One job is enough for
`jobs_answers` because records of different jobs share no state but the queues,
which `jobs_delivery` has; two stages let two un-awaited reports be under way
when the result is. One crash, one restart and one lost report may fall at any
step. `MCKeeperHub` has one token: two requests for it cover concurrency and
retries; after a burn no other token is minted there, which the theorems for
any number of tokens make up for. `MCWalletIndex`: with two contracts a loop
over rows has an inside to be interrupted in, and one of them tells verified
from unverified; `backfill` takes the same actions as `watch`, which only adds
that it starts by itself. `MCScoring`: four entries are one more than the cap
and one more than a burst, and four timestamps have ties, gaps of a window, a
larger gap, and one that is unknown. `MCWalletIndex` has the second analysis
for what two analyses do to each other's result; what they do to the index beside
a command one of them does, and `Alone` keeps three processes from sharing it.
`MCPublishing`: two attempts compete for
one nonce; attempts of different tabs meet in the contract only, as these do after
a `Leave`; two tokens allow a mint after a burn; the deadline is the block's own
time, so that the next block voids it.
`MCAnalysisPage`: two runs are a first one and a later one, and two polls allow
a stage before the answer. Deadlock checking is off since all bounds are in
guards: every instance stops when its ids, nonces, jobs, runs or requests are
used up.

`jobs_delivery` uses the permutations of jobs and workers as symmetry, which is
sound as none is named in the configuration's safety properties. Liveness runs
use no symmetry.

**Fairness.** Everywhere, weak fairness of what event loops, timers and request
timeouts do by themselves, and of nothing that is a fault or a user's choice.
`JobPipeline`: a worker takes what is queued, a call that was started goes on,
the listener reads, a worker is started, the client polls again. `KeeperHub`:
the route's own steps and the button's, and KeeperHub ends each execution
*somehow*. `WalletIndex`: an analysis or command under way goes on, `watch`
wakes up after its interval, the enrichment queue drains; nobody has to start
an analysis, deploy or publish. A wallet's index converges because `watch` comes
by again, not because nothing failed. `Publishing`: the services' fetches end
(they have timeouts); no user has to click, no transaction has to be mined.
`AnalysisPage`: the timers fire and each fetch ends, as the route handlers
give up after 5 or 10 seconds; wagmi owes nothing.

## 4. Proofs

All theorems hold for every value of the constants under the `ASSUME` of the
module (accounts are accounts, bounds are natural numbers, `NoJob` is no job).

**`ProofOfDevProofs`.** `IInv` is the conjunction of `TypeOK`, `HoldingsAgree`,
`FreshIdsPristine`, `NonceLedger` and `MetadataIsNewest`. No part is inductive
without others: ids stay pristine only because holder maps agree and a burned
id is below `nextTokenId`; the displayed metadata is the newest only because an
account's token is its own and no two accepted attestations share a nonce. Each
part is preserved via a lemma that reduces the ten actions to the few shapes
that matter to it (`HolderStep`: a token is given, taken or left; `AuthStep`: a
nonce is spent or not; `Written`). `SupplyAlwaysCountsMints` adds that the set
of accepted mints is finite: an accepted mint is a new element, because its
nonce was not in the history, and a new id.

**`KeeperHubProofs`.** `HubImplementsContract` proves that the composition
still behaves as `ProofOfDev!Spec`, so that the contract's theorems carry over.
Its invariant `HubInv` strengthens the properties by `FiledByToken` (an
execution is filed under the id it is for: the reason why there is one per
token), `CompletedVerified`, `AnsweredIsDone` and, if KeeperHub cancels nothing,
`NoneCancelled`. `AtMostOneExecution` holds for any number of requests and
tokens; `TriggeredIsVerified` has the assumption that `"cancelled"` is not
among `Mishaps`, without which `keeperhub_cancelled` shows it false.

**`JobPipelineProofs`.** `IInv` adds four facts to the properties. `RunsInStep`:
where `run()` stands agrees with the one call it awaits and with its job, which
is decided exactly while its result is recorded; without it nothing says that a
report under way belongs to the job's only run. `JobInOnePlace`: a job is with
the client, in the blocked send, in one place of one queue or with one worker.
`TakenForGood`: a job that was ever taken is in none of the places a worker can
take it from, which is what makes `RunsAtMostOnce` inductive; a crash that put
the job back would break it. `Undecided`: a job no worker has had is undecided,
so whoever takes it decides it first. Each store implements `JobLedger` because
every write is of an update that agrees with `verdict` and a final record only
gives way to itself; the refinement theorems use the invariant before the step.

**`WalletIndexProofs`.** `IndexInv` says what each process has done and learned
(`AnalysisSound`, `IndexerSound`): rows before the loop's next contract are in
the index, a marker that was read counts no more than the rows that were read
after it, since rows are never deleted. That a loop comes to a member of its
set is `FirstIsMember`, by well-foundedness of a finite set's subsets. A document
keeps its writer's answer because a finished analysis changes no more, and a count
is of verified contracts because the enrichment jobs are those of finished
analyses.

**`PublishingProofs`.** `FlowInv` follows a profile from the store through
server and wallet to the contract (`Canonical`), says that a button refers to
attempts of its own (`OwnAttempts`), that an attempt under way which its button
has not lost sight of is what the button waits for (`Waited`), and that what was
mined on Sepolia was accepted (`MinedIsAccepted`). `OneTransactionPerTab` follows
from `Waited`: two attempts in one tab would both be the one referred to, or the
button, which is disabled while it waits, would have begun the second one.
`FlowImplementsContract` carries the contract's theorems over. `SignedInv` says
that what the services sign carries the key, chain, type and a nonce not ahead of
the contract's; nonces only grow, so it stays so. Only `RevertMint` takes an attempt from pending to reverted
(`OnlyRevertsRevert`), and `RevertsAlwaysHaveCause` follows from the contract's
three checks: each has failed since, or had when the server signed.

**`AnalysisPageProofs`.** `IInv` adds `StoreTruthful` (the ledger's promise) and
`LastRunOnly`: only the run started last can be under way. The button being
disabled while a run is under way is the only reason for it, and without it
the `finally` block of `useAnalysisJob` would clear another run's timer.

`PageAnswersRequests` maps the page's state to the request it belongs to: a
click asks, a reload leaves, a run's return refuses or tells, and all other
steps stutter. Which request a return answers is the point: it is the waiting
one because of `LastRunOnly`, and one is waiting because of `TimerOfTheRun`;
that it is told the truth takes `StoreTruthful`.

The progress bar is a function of the page's state, and two
things about it are proved. `StageOfTheRun`, which the bar's theorem adds to
the invariant, says that the stage on display while loading is one that the BFF
answers of a pending job; from it `ProgressAlwaysWhileLoading` follows: the bar
is only mounted while the job is queued or in a stage of its list, so
"Preparing analysis..." is never shown, it reads 100 % only in the stage
`scoring` with the ENS step hidden, and no step is pointed out only while the job
is queued or in the hidden step.

**`ScoringProofs`.** Loops over lists are recursive functions of the prefix
they have covered. `LoopRuns` turns such a definition into equations (base and
step), once and for all loops, and `Induction` supplies the induction: a set of
prefix lengths that has 0, and the next length with each, is all of them. So
`DeduplicatedSteps`, `PointsSteps` and `SumSteps` unfold a loop once, and what
is proved about it is carried from one entry to the next.

* `OldestIsKept`: each pass of the deduplication leaves, per address, one entry
  that is not younger than any seen so far. `Insert`, which replaces the entry
  of the same address, keeps that.
* `BurstsAreFound`: the code sorts and looks two places ahead. The stable sort
  is a rank that counts the entries before one (an entry with a smaller time,
  or an equal time and a smaller index); ranks are a bijection onto the
  positions, hence three entries within the window exist exactly if three
  neighbours in the sorted order are within it.
* `EnginesAreAtParity`: the worker's engine adds the points up in one loop, the
  web's in one per category, with the check of how many verified contracts were
  scored before, which the cap on the list makes idle; both end with the same sums (`EnginesAgree`), and
  the two ways of looking a tier up find the last one that is reached
  (`TiersAgree`).
* `BreakdownsAddUp`, `PenaltiesAreAnnounced`: the bonus is defined as what the
  multipliers add or take, entry by entry; and three contracts that are close
  stay so on the longer list the warning is derived from.
* `TimeNeverHurts`: no multiplier falls as a contract ages, and rounding and
  adding up are monotone.
* `BarsAreScaled`: at any age a contract earns at most 6 points for being
  deployed and 12 for being verified, which is what `ScoreCard` scales its bars
  by, so that no bar is cut off.

**Theorems without a run.** `BarsFit`, `BreakdownAddsUp`, `ShownIsLastAnswer`
(which follows from `AnswersRequests`), `TypeOK` of `Scoring` and the type invariants of `JobPipeline`, `KeeperHub`, `WalletIndex`,
`Publishing` and `AnalysisPage` are in no run: they are proved for every
instance.

Only model-checked is liveness, which is out of the prover's reach:
`PollingCompletes`, `RequestsEnd`, `IndexConverges`, `EnrichmentSettles`,
`ButtonsSettle`, `AppBecomesReady`, `LoadingEnds`. Every other property of a
passing run is stated by a theorem.

## 5. Not modelled, and the plan

* **Connections.** `getPush` shares the bind that is in flight (`push.js:36`),
  but a bind may outlast its timeout; `getClient` (`db.js:48`) has no such guard,
  and concurrent first calls open two connections. What follows is decided by the
  zeromq binding and the MongoDB driver. The models have the outcome: a call
  fails, or a request is refused with 503.
* **Expiry** of job records after an hour and the missing unique index of
  `job_results`: see the hazards.
* **Data of the analysis** that no property tells apart: protocol usage, ENS
  requests, mock mode, `/health`.
* **The EAS transaction** of the attest button: not reachable, see
  `attest_response`.
* Other presentational components and the texts of those modelled (`ScoreCard`,
  `ProgressBar`, `AnalysisProgress`), text report, configuration, mock data, deployment
  and demo scripts (their contract calls are steps of `ProofOfDev`).

What could be added, in this order: expiry in `JobLedger`; a module for the
connections' life.
