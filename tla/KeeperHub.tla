------------------------------ MODULE KeeperHub ------------------------------
(***************************************************************************)
(* The post-mint verification: MintButton.tsx posts the hash of a          *)
(* confirmed mint to POST /keeperhub/verify (api.js), which looks the      *)
(* Minted event up (mintEvents.js) and has KeeperHub's wallet call         *)
(* markVerified on the contract: simulate, execute, poll (keeperhub.js).   *)
(*                                                                         *)
(* The contract is ProofOfDev: between any two steps of a request its      *)
(* users and its owner may call whatever they like, so that what the       *)
(* simulation found may no longer hold when the transaction lands.         *)
(* KeeperHub itself is a service: an execution is known by its             *)
(* idempotency key, runs once, and ends on its own time.                   *)
(***************************************************************************)
EXTENDS ProofOfDev

CONSTANTS Request,   \* POST /keeperhub/verify requests, each with its button
          Keeper,    \* KeeperHub's wallet
          Mishaps    \* how an execution may end without being mined

ASSUME KeeperAssumption ==
  /\ Keeper \in Address
  /\ Mishaps \subseteq {"failed", "cancelled"}

VARIABLES step,        \* where each request is
          subject,     \* the token it is about, 0 before it is made
          account,     \* the account that minted it
          answer,      \* its HTTP answer
          executions,  \* KeeperHub's executions, by idempotency key
          ui           \* keeperhubState of the button that sent it

requestVars == <<step, subject, account, answer>>
hubVars     == <<requestVars, executions, ui>>
allVars     == <<vars, hubVars>>

Key      == TokenId \cup Request
Finished == {"completed", "reverted", "failed", "cancelled"}

NoExecution == [token |-> 0, status |-> "none"]
Execution   == [token : TokenId, status : {"pending"} \cup Finished]

-----------------------------------------------------------------------------
(* The button.                                                             *)

(* The mint transaction of token t is confirmed: one POST, with its hash.  *)
(* The token may have been burned since.                                   *)
Trigger(r, t, a) ==
  /\ step[r] = "idle"
  /\ t < nextTokenId
  /\ owners[t] \in {a, Zero}
  /\ step' = [step EXCEPT ![r] = "lookup"]
  /\ subject' = [subject EXCEPT ![r] = t]
  /\ account' = [account EXCEPT ![r] = a]
  /\ ui' = [ui EXCEPT ![r] = "triggering"]
  /\ UNCHANGED <<vars, answer, executions>>

(* The answer reaches the browser ...                                      *)
ShowAnswer(r) ==
  /\ ui[r] = "triggering"
  /\ answer[r] # "none"
  /\ ui' = [ui EXCEPT ![r] = IF answer[r] = "triggered" THEN "triggered"
                                                        ELSE "error"]
  /\ UNCHANGED <<vars, requestVars, executions>>

(* ... or it does not: the proxy of the BFF waits no longer, or a hop fails.*)
ShowNoAnswer(r) ==
  /\ ui[r] = "triggering"
  /\ ui' = [ui EXCEPT ![r] = "error"]
  /\ UNCHANGED <<vars, requestVars, executions>>

(* While "triggered" the button asks the contract for isVerified of the    *)
(* token the account holds.                                                *)
ShowVerified(r) ==
  /\ ui[r] = "triggered"
  /\ HasMinted(account[r])
  /\ verified[tokens[account[r]]]
  /\ ui' = [ui EXCEPT ![r] = "verified"]
  /\ UNCHANGED <<vars, requestVars, executions>>

-----------------------------------------------------------------------------
(* The route and verifyMintOnChain.                                        *)

Respond(r, a) ==
  /\ answer' = [answer EXCEPT ![r] = a]
  /\ step' = [step EXCEPT ![r] = "done"]

(* verifyMintedEvent: Etherscan has the receipt, or not yet (404).         *)
LookUp(r) ==
  /\ step[r] = "lookup"
  /\ \/ step' = [step EXCEPT ![r] = "simulate"] /\ UNCHANGED answer
     \/ Respond(r, "notFound")
  /\ UNCHANGED <<vars, subject, account, executions, ui>>

(* What markVerified requires of a call by KeeperHub's wallet.             *)
Succeeds(t) == owner = Keeper /\ Exists(t) /\ ~verified[t]

(* The dry run of the call that would be made for the request.             *)
SimulateContractCall(r) == Succeeds(subject[r])

Simulate(r) ==
  /\ step[r] = "simulate"
  /\ IF SimulateContractCall(r)
       THEN step' = [step EXCEPT ![r] = "execute"] /\ UNCHANGED answer
       ELSE Respond(r, "failed")
  /\ UNCHANGED <<vars, subject, account, executions, ui>>

(* Mutant: executeContractCall's default key, a random one.                *)
RandomKey(r) == r

(* The contract and the network are fixed: only the token id varies.       *)
IdempotencyKey(r) == subject[r]

(* KeeperHub starts an execution unless it knows the key; its reply, the   *)
(* execution's id, may not arrive.                                         *)
Execute(r) ==
  /\ step[r] = "execute"
  /\ executions' = [executions EXCEPT ![IdempotencyKey(r)] =
       IF @ = NoExecution THEN [token |-> subject[r], status |-> "pending"]
                          ELSE @]
  /\ \/ step' = [step EXCEPT ![r] = "poll"] /\ UNCHANGED answer
     \/ Respond(r, "failed")
  /\ UNCHANGED <<vars, subject, account, ui>>

GetExecutionStatus(r) == executions[IdempotencyKey(r)].status

(* Mutant: a reverted transaction counts as done.                          *)
PollTakingReverted(r) ==
  /\ step[r] = "poll"
  /\ LET state == GetExecutionStatus(r) IN
     /\ state \in Finished
     /\ Respond(r, IF state = "failed" THEN "failed" ELSE "triggered")
  /\ UNCHANGED <<vars, subject, account, executions, ui>>

(* Mutant: "reverted" is missing from TERMINAL_STATUSES.                   *)
PollPastReverted(r) ==
  /\ step[r] = "poll"
  /\ LET state == GetExecutionStatus(r) IN
     /\ state \in Finished \ {"reverted"}
     /\ Respond(r, IF state = "failed" THEN "failed" ELSE "triggered")
  /\ UNCHANGED <<vars, subject, account, executions, ui>>

(* The poll that finds a terminal status.                                  *)
Poll(r) ==
  /\ step[r] = "poll"
  /\ LET state == GetExecutionStatus(r) IN
     /\ state \in Finished
     /\ Respond(r, IF state \in {"failed", "reverted"} THEN "failed"
                                                       ELSE "triggered")
  /\ UNCHANGED <<vars, subject, account, executions, ui>>

(* A call to Etherscan or KeeperHub throws, or two minutes of polling are  *)
(* over: 502, whatever becomes of the execution.                           *)
GiveUp(r) ==
  /\ step[r] \in {"lookup", "simulate", "execute", "poll"}
  /\ Respond(r, "failed")
  /\ UNCHANGED <<vars, subject, account, executions, ui>>

-----------------------------------------------------------------------------
(* KeeperHub.                                                              *)

End(k, status) ==
  executions' = [executions EXCEPT ![k] = [token |-> @.token, status |-> status]]

Pending(k) == executions[k].status = "pending"

(* The transaction is mined and succeeds ...                               *)
Land(k) ==
  /\ Pending(k)
  /\ MarkVerified(Keeper, executions[k].token)
  /\ End(k, "completed")
  /\ UNCHANGED <<requestVars, ui>>

(* ... or reverts: since the simulation the token was burned, or verified, *)
(* or the contract has another owner ...                                   *)
Revert(k) ==
  /\ Pending(k)
  /\ ~Succeeds(executions[k].token)
  /\ End(k, "reverted")
  /\ UNCHANGED <<vars, requestVars, ui>>

(* ... or is never mined.                                                  *)
Drop(k) ==
  /\ Pending(k)
  /\ \E how \in Mishaps : End(k, how)
  /\ UNCHANGED <<vars, requestVars, ui>>

-----------------------------------------------------------------------------
(* Anybody else's call of the contract, and the chain moving on.           *)
ContractStep == Next /\ UNCHANGED hubVars

HubInit ==
  /\ Init
  /\ step = [r \in Request |-> "idle"]
  /\ subject = [r \in Request |-> 0]
  /\ account = [r \in Request |-> Zero]
  /\ answer = [r \in Request |-> "none"]
  /\ executions = [k \in Key |-> NoExecution]
  /\ ui = [r \in Request |-> "idle"]

RequestStep(r) == LookUp(r) \/ Simulate(r) \/ Execute(r) \/ Poll(r)

ButtonStep(r) == ShowAnswer(r) \/ ShowVerified(r)

KeeperStep(k) == Land(k) \/ Revert(k) \/ Drop(k)

HubNext ==
  \/ ContractStep
  \/ \E r \in Request, t \in TokenId, a \in User : Trigger(r, t, a)
  \/ \E r \in Request : RequestStep(r) \/ GiveUp(r) \/ ButtonStep(r)
                        \/ ShowNoAnswer(r)
  \/ \E k \in Key : KeeperStep(k)

HubSpec == HubInit /\ [][HubNext]_allVars

(* The handler and the button keep running, and KeeperHub ends every       *)
(* execution; that a call fails, or the two minutes end, is never counted  *)
(* on.                                                                     *)
HubFairness ==
  /\ \A r \in Request : /\ WF_allVars(RequestStep(r))
                        /\ WF_allVars(ButtonStep(r))
  /\ \A k \in Key : WF_allVars(KeeperStep(k))

HubFairSpec == HubSpec /\ HubFairness

-----------------------------------------------------------------------------
(* Properties.                                                             *)

(* The added state holds values of its types, and a request past its       *)
(* lookup is about a token that was really minted.                         *)
HubTypeOK ==
  /\ step \in [Request -> {"idle", "lookup", "simulate", "execute", "poll",
                           "done"}]
  /\ subject \in [Request -> 0..MaxTokens]
  /\ account \in [Request -> User \cup {Zero}]
  /\ answer \in [Request -> {"none", "triggered", "notFound", "failed"}]
  /\ executions \in [Key -> Execution \cup {NoExecution}]
  /\ ui \in [Request -> {"idle", "triggering", "triggered", "verified",
                         "error"}]
  /\ \A r \in Request : step[r] # "idle" => subject[r] \in 1..(nextTokenId - 1)

(* keeperhub.js, "a retried request can never double-submit": however many *)
(* requests are made for a token, at once or after a failure, KeeperHub is *)
(* asked for at most one transaction for it.                               *)
OneExecution ==
  \A j, k \in Key :
    executions[j] # NoExecution /\ executions[k] # NoExecution
      /\ executions[j].token = executions[k].token => j = k

(* A request is only answered "triggered", 202, when the token is verified *)
(* on chain, whatever was burned, transferred or retried meanwhile.        *)
TriggeredMeansVerified ==
  \A r \in Request : answer[r] = "triggered" => verified[subject[r]]

(* No button shows "triggering" for ever: as KeeperHub ends the execution, *)
(* the request ends, even one whose transaction reverted because the token *)
(* was burned or the contract changed hands after the simulation.          *)
RequestsEnd ==
  \A r \in Request : ui[r] = "triggering" ~> ui[r] # "triggering"
=============================================================================
