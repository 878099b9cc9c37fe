--------------------------- MODULE KeeperHubProofs ---------------------------
(***************************************************************************)
(* Proofs about the post-mint verification, for any number of tokens and   *)
(* requests.  What the contract guarantees is taken from the lemmas of     *)
(* ProofOfDevProofs; what is added is that an execution is filed under the *)
(* id of its token, and what each of its outcomes says about the contract. *)
(***************************************************************************)
EXTENDS KeeperHub, ProofOfDevProofs

USE ProofOfDevAssumption, KeeperAssumption

-----------------------------------------------------------------------------
(* Every step of the composed system is one of the contract, or leaves it  *)
(* alone.                                                                  *)
LEMMA HubStepIsContractStep ==
  ASSUME HubTypeOK, [HubNext]_allVars
  PROVE  [Next]_vars
<1>1. ASSUME NEW r \in Request,
             \/ RequestStep(r) \/ GiveUp(r) \/ ButtonStep(r) \/ ShowNoAnswer(r)
             \/ \E t \in TokenId, a \in User : Trigger(r, t, a)
      PROVE  UNCHANGED vars
  BY <1>1 DEF RequestStep, LookUp, Simulate, Execute, Poll, GiveUp, ButtonStep,
              ShowAnswer, ShowVerified, ShowNoAnswer, Trigger
<1>2. ASSUME NEW k \in Key, KeeperStep(k) PROVE [Next]_vars
  <2>1. CASE Land(k)
    <3>1. executions[k].token \in TokenId
      BY <2>1 DEF Land, Pending, HubTypeOK, Execution, NoExecution
    <3>2. QED
      BY <2>1, <3>1 DEF Land, Next
  <2>2. CASE Revert(k) \/ Drop(k)
    BY <2>2 DEF Revert, Drop
  <2>3. QED
    BY <1>2, <2>1, <2>2 DEF KeeperStep
<1>3. CASE ContractStep
  BY <1>3 DEF ContractStep
<1>4. CASE UNCHANGED allVars
  BY <1>4 DEF allVars
<1>5. QED
  BY <1>1, <1>2, <1>3, <1>4 DEF HubNext

(* What a step of the contract never takes back: the ids it issued and the *)
(* tokens it verified.                                                     *)
LEMMA ContractOnlyGrows ==
  ASSUME TypeOK, [Next]_vars
  PROVE  /\ nextTokenId' \in Nat
         /\ nextTokenId <= nextTokenId'
         /\ \A t \in TokenId : verified[t] => verified'[t]
<1>1. HolderStep
  BY NextIsHolderStep
<1>2. QED
  BY <1>1 DEF HolderStep, Given, Taken, Kept, TypeOK

-----------------------------------------------------------------------------
(* The inductive invariant.                                                *)

(* An execution is filed under the id of the token it verifies.            *)
FiledByToken ==
  \A k \in Key : executions[k] # NoExecution => k = executions[k].token

(* A completed execution has verified its token.                           *)
CompletedVerified ==
  \A k \in Key :
    executions[k].status = "completed" => verified[executions[k].token]

(* Only a request that is over has an answer.                              *)
AnsweredIsDone ==
  \A r \in Request : answer[r] # "none" => step[r] = "done"

NoneCancelled == \A k \in Key : executions[k].status # "cancelled"

HubInv ==
  /\ TypeOK
  /\ HubTypeOK
  /\ AnsweredIsDone
  /\ FiledByToken
  /\ CompletedVerified
  /\ "cancelled" \notin Mishaps => NoneCancelled /\ TriggeredMeansVerified

(* The invariant holds before the first request.                           *)
LEMMA HubInitInv == HubInit => HubInv
<1> SUFFICES ASSUME HubInit PROVE HubInv
  OBVIOUS
<1>1. TypeOK
  BY InitType DEF HubInit
<1>2. HubTypeOK
  BY DEF HubInit, HubTypeOK
<1>3. QED
  BY <1>1, <1>2 DEF HubInit, HubInv, AnsweredIsDone, FiledByToken,
                    CompletedVerified, NoneCancelled, TriggeredMeansVerified, NoExecution

(* A request that was answered is about a token the contract issued.       *)
LEMMA AnsweredHasToken ==
  ASSUME HubInv, NEW r \in Request, answer[r] # "none"
  PROVE  subject[r] \in TokenId
<1>1. step[r] = "done"
  BY DEF HubInv, AnsweredIsDone
<1>2. subject[r] \in 1..(nextTokenId - 1)
  BY <1>1 DEF HubInv, HubTypeOK
<1>3. nextTokenId \in 1..(MaxTokens + 1)
  BY DEF HubInv, TypeOK
<1>4. QED
  BY <1>2, <1>3 DEF TokenId

(* Every step keeps the types of requests, executions and buttons.         *)
LEMMA HubStepType ==
  ASSUME TypeOK, HubTypeOK, AnsweredIsDone, [HubNext]_allVars
  PROVE  HubTypeOK' /\ AnsweredIsDone'
<1>1. /\ nextTokenId \in Nat /\ nextTokenId' \in Nat
      /\ nextTokenId <= nextTokenId'
      /\ nextTokenId - 1 <= MaxTokens
  BY HubStepIsContractStep, ContractOnlyGrows DEF TypeOK
<1>2. ASSUME NEW r \in Request, NEW t \in TokenId, NEW a \in User, Trigger(r, t, a)
      PROVE  HubTypeOK' /\ AnsweredIsDone'
  BY <1>1, <1>2 DEF Trigger, HubTypeOK, AnsweredIsDone, TokenId, vars
<1>3. ASSUME NEW r \in Request, LookUp(r) \/ Simulate(r) \/ Poll(r) \/ GiveUp(r)
      PROVE  HubTypeOK' /\ AnsweredIsDone'
  BY <1>1, <1>3 DEF LookUp, Simulate, Poll, GiveUp, Respond, HubTypeOK,
                    AnsweredIsDone, vars
<1>4. ASSUME NEW r \in Request, Execute(r)
      PROVE  HubTypeOK' /\ AnsweredIsDone'
  <2>1. subject[r] \in TokenId
    BY <1>1, <1>4 DEF Execute, HubTypeOK, TokenId
  <2>2. [token |-> subject[r], status |-> "pending"] \in Execution
    BY <2>1 DEF Execution
  <2>3. executions' \in [Key -> Execution \cup {NoExecution}]
    BY <1>4, <2>1, <2>2 DEF Execute, HubTypeOK, Key, IdempotencyKey
  <2>4. QED
    BY <1>1, <1>4, <2>3 DEF Execute, Respond, HubTypeOK, AnsweredIsDone, vars
<1>5. ASSUME NEW r \in Request, ButtonStep(r) \/ ShowNoAnswer(r)
      PROVE  HubTypeOK' /\ AnsweredIsDone'
  BY <1>1, <1>5 DEF ButtonStep, ShowAnswer, ShowVerified, ShowNoAnswer,
                    requestVars, HubTypeOK, AnsweredIsDone, vars
<1>6. ASSUME NEW k \in Key, KeeperStep(k)
      PROVE  HubTypeOK' /\ AnsweredIsDone'
  <2>1. PICK status \in Finished : End(k, status)
    BY <1>6 DEF KeeperStep, Land, Revert, Drop, Finished
  <2>2. UNCHANGED <<requestVars, ui>> /\ Pending(k)
    BY <1>6 DEF KeeperStep, Land, Revert, Drop
  <2>3. executions[k].token \in TokenId
    BY <2>2 DEF Pending, HubTypeOK, Execution, NoExecution
  <2>4. [token |-> executions[k].token, status |-> status] \in Execution
    BY <2>3 DEF Execution
  <2>5. executions' \in [Key -> Execution \cup {NoExecution}]
    BY <2>1, <2>4 DEF End, HubTypeOK
  <2>6. QED
    BY <1>1, <2>2, <2>5 DEF requestVars, HubTypeOK, AnsweredIsDone
<1>7. CASE ContractStep \/ UNCHANGED allVars
  BY <1>1, <1>7 DEF ContractStep, allVars, hubVars, requestVars, HubTypeOK,
                    AnsweredIsDone
<1>8. QED
  BY <1>2, <1>3, <1>4, <1>5, <1>6, <1>7 DEF HubNext, RequestStep

(* Where a step leaves KeeperHub's executions alone and answers no request *)
(* "triggered", only the contract matters, and it only grows.              *)
LEMMA QuietStep ==
  ASSUME HubInv, [Next]_vars, TypeOK', HubTypeOK', AnsweredIsDone',
         executions' = executions,
         \A r \in Request : answer'[r] = "triggered" =>
           answer[r] = "triggered" /\ subject'[r] = subject[r]
  PROVE  HubInv'
<1>1. \A t \in TokenId : verified[t] => verified'[t]
  BY ContractOnlyGrows DEF HubInv
<1>2. FiledByToken'
  BY DEF HubInv, FiledByToken
<1>3. CompletedVerified'
  BY <1>1 DEF HubInv, CompletedVerified, HubTypeOK, Execution, NoExecution
<1>4. ASSUME "cancelled" \notin Mishaps
      PROVE  NoneCancelled' /\ TriggeredMeansVerified'
  <2>1. ASSUME NEW r \in Request, answer'[r] = "triggered"
        PROVE  verified'[subject'[r]]
    <3>0. answer[r] # "none"
      BY <2>1
    <3>1. subject'[r] = subject[r] /\ verified[subject[r]]
      BY <1>4, <2>1 DEF HubInv, TriggeredMeansVerified
    <3>2. subject[r] \in TokenId
      BY <2>1, <3>0, AnsweredHasToken
    <3>3. QED
      BY <1>1, <3>1, <3>2
  <2>2. QED
    BY <1>4, <2>1 DEF HubInv, NoneCancelled, TriggeredMeansVerified
<1>5. QED
  BY <1>2, <1>3, <1>4 DEF HubInv

(* Starting an execution: its key is the id of a token that has none.      *)
LEMMA ExecuteInv ==
  ASSUME HubInv, HubTypeOK', AnsweredIsDone', TypeOK',
         NEW r \in Request, Execute(r)
  PROVE  HubInv'
<1>1. subject[r] \in TokenId
  BY DEF Execute, HubInv, HubTypeOK, TypeOK, TokenId
<1>2. subject[r] \in Key /\ verified' = verified /\ subject' = subject
  BY <1>1 DEF Execute, Key, vars
<1>3. \A k \in Key :
        \/ executions'[k] = executions[k]
        \/ /\ k = subject[r]
           /\ executions'[k] = [token |-> subject[r], status |-> "pending"]
  BY <1>2 DEF Execute, IdempotencyKey, HubInv, HubTypeOK
<1>4. FiledByToken' /\ CompletedVerified'
  BY <1>2, <1>3 DEF HubInv, FiledByToken, CompletedVerified
<1>5. NoneCancelled => NoneCancelled'
  BY <1>3 DEF NoneCancelled
<1>6. TriggeredMeansVerified => TriggeredMeansVerified'
  BY <1>2 DEF Execute, Respond, TriggeredMeansVerified, HubInv, HubTypeOK
<1>7. QED
  BY <1>4, <1>5, <1>6 DEF HubInv

(* An execution ends: only one that verified its token ends "completed".   *)
LEMMA KeeperInv ==
  ASSUME HubInv, HubTypeOK', AnsweredIsDone', TypeOK', [Next]_vars,
         NEW k \in Key, KeeperStep(k)
  PROVE  HubInv'
<1>1. \A t \in TokenId : verified[t] => verified'[t]
  BY ContractOnlyGrows DEF HubInv
<1>2. UNCHANGED <<requestVars, ui>> /\ Pending(k)
  BY DEF KeeperStep, Land, Revert, Drop
<1>3. executions[k].token \in TokenId /\ executions[k] # NoExecution
  BY <1>2 DEF Pending, HubInv, HubTypeOK, Execution, NoExecution
<1>4. PICK status \in Finished :
        /\ End(k, status)
        /\ status = "completed" => verified'[executions[k].token]
        /\ status = "cancelled" => "cancelled" \in Mishaps
  <2>1. CASE Land(k)
    BY <2>1, <1>3 DEF Land, MarkVerified, Finished, HubInv, TypeOK
  <2>2. CASE Revert(k)
    BY <2>2 DEF Revert, Finished
  <2>3. CASE Drop(k)
    BY <2>3 DEF Drop, Finished
  <2>4. QED
    BY <2>1, <2>2, <2>3 DEF KeeperStep
<1>5. \A j \in Key :
        IF j = k THEN executions'[j] = [token |-> executions[k].token,
                                        status |-> status]
                 ELSE executions'[j] = executions[j]
  BY <1>4 DEF End, HubInv, HubTypeOK
<1>6. FiledByToken'
  BY <1>3, <1>5 DEF HubInv, FiledByToken
<1>7. CompletedVerified'
  <2> SUFFICES ASSUME NEW j \in Key, executions'[j].status = "completed"
               PROVE  verified'[executions'[j].token]
    BY DEF CompletedVerified
  <2>1. CASE j = k
    BY <1>4, <1>5, <2>1
  <2>2. CASE j # k
    <3>1. executions'[j] = executions[j] /\ verified[executions[j].token]
      BY <1>5, <2>2 DEF HubInv, CompletedVerified
    <3>2. executions[j].token \in TokenId
      BY <3>1 DEF HubInv, HubTypeOK, Execution, NoExecution
    <3>3. QED
      BY <1>1, <3>1, <3>2
  <2>3. QED
    BY <2>1, <2>2
<1>8. "cancelled" \notin Mishaps /\ NoneCancelled => NoneCancelled'
  BY <1>4, <1>5 DEF NoneCancelled
<1>9. TriggeredMeansVerified => TriggeredMeansVerified'
  BY <1>1, <1>2, AnsweredHasToken DEF requestVars, TriggeredMeansVerified
<1>10. QED
  BY <1>6, <1>7, <1>8, <1>9 DEF HubInv

(* A poll answers "triggered" only for an execution that is neither failed *)
(* nor reverted: a completed one, unless it was cancelled.                 *)
LEMMA PollInv ==
  ASSUME HubInv, HubTypeOK', AnsweredIsDone', TypeOK',
         NEW r \in Request, Poll(r)
  PROVE  HubInv'
<1>1. subject[r] \in TokenId /\ subject[r] \in Key
  BY DEF Poll, HubInv, HubTypeOK, TypeOK, TokenId, Key
<1>2. /\ verified' = verified /\ subject' = subject /\ executions' = executions
      /\ answer' \in [Request -> {"none", "triggered", "notFound", "failed"}]
  BY DEF Poll, vars, HubTypeOK
<1>3. FiledByToken' /\ CompletedVerified'
  BY <1>2 DEF HubInv, FiledByToken, CompletedVerified
<1>4. ASSUME "cancelled" \notin Mishaps
      PROVE  NoneCancelled' /\ TriggeredMeansVerified'
  <2>1. NoneCancelled'
    BY <1>2, <1>4 DEF HubInv, NoneCancelled
  <2>2. answer'[r] = "triggered" => verified[subject[r]]
    <3>1. executions[subject[r]].status \in Finished
      BY DEF Poll, IdempotencyKey, GetExecutionStatus
    <3>2. executions[subject[r]] # NoExecution
      BY <3>1 DEF Finished, NoExecution
    <3>3. executions[subject[r]].token = subject[r]
      BY <1>1, <3>2 DEF HubInv, FiledByToken
    <3>4. answer'[r] = "triggered" => executions[subject[r]].status = "completed"
      BY <1>1, <1>4, <3>1 DEF Poll, Respond, IdempotencyKey, GetExecutionStatus, Finished, HubInv,
                              HubTypeOK, NoneCancelled
    <3>5. QED
      BY <1>1, <3>3, <3>4 DEF HubInv, CompletedVerified
  <2>3. \A q \in Request : q # r => answer'[q] = answer[q]
    BY DEF Poll, Respond, HubInv, HubTypeOK
  <2>4. QED
    BY <1>2, <1>4, <2>1, <2>2, <2>3 DEF HubInv, TriggeredMeansVerified
<1>5. QED
  BY <1>3, <1>4 DEF HubInv

(* Every step keeps the invariant.                                         *)
LEMMA HubStepInv == HubInv /\ [HubNext]_allVars => HubInv'
<1> SUFFICES ASSUME HubInv, [HubNext]_allVars PROVE HubInv'
  OBVIOUS
<1>1. [Next]_vars
  BY HubStepIsContractStep DEF HubInv
<1>2. TypeOK' /\ HubTypeOK' /\ AnsweredIsDone'
  BY <1>1, StepType, HubStepType DEF HubInv
<1>3. ASSUME NEW r \in Request, Execute(r) PROVE HubInv'
  BY <1>2, <1>3, ExecuteInv
<1>4. ASSUME NEW k \in Key, KeeperStep(k) PROVE HubInv'
  BY <1>1, <1>2, <1>4, KeeperInv
<1>5. ASSUME NEW r \in Request, Poll(r) PROVE HubInv'
  BY <1>2, <1>5, PollInv
<1>6. ASSUME NEW r \in Request, NEW t \in TokenId, NEW a \in User, Trigger(r, t, a)
      PROVE  HubInv'
  <2>1. \A q \in Request : answer'[q] = "triggered" =>
          answer[q] = "triggered" /\ subject'[q] = subject[q]
    BY <1>6 DEF Trigger, HubInv, HubTypeOK, AnsweredIsDone
  <2>2. QED
    BY <1>1, <1>2, <1>6, <2>1, QuietStep DEF Trigger
<1>7. ASSUME NEW r \in Request, LookUp(r) \/ Simulate(r) \/ GiveUp(r)
      PROVE  HubInv'
  <2>1. \A q \in Request : answer'[q] = "triggered" =>
          answer[q] = "triggered" /\ subject'[q] = subject[q]
    BY <1>7 DEF LookUp, Simulate, GiveUp, Respond, HubInv, HubTypeOK
  <2>2. executions' = executions
    BY <1>7 DEF LookUp, Simulate, GiveUp
  <2>3. QED
    BY <1>1, <1>2, <2>1, <2>2, QuietStep
<1>8. ASSUME \/ \E r \in Request : ButtonStep(r) \/ ShowNoAnswer(r)
             \/ ContractStep
             \/ UNCHANGED allVars
      PROVE  HubInv'
  <2>1. UNCHANGED <<requestVars, executions>>
    BY <1>8 DEF ButtonStep, ShowAnswer, ShowVerified, ShowNoAnswer, ContractStep,
                allVars, hubVars
  <2>2. QED
    BY <1>1, <1>2, <2>1, QuietStep DEF requestVars
<1>9. QED
  BY <1>3, <1>4, <1>5, <1>6, <1>7, <1>8 DEF HubNext, RequestStep

-----------------------------------------------------------------------------
(* The invariant holds in every reachable state.                           *)
THEOREM HubInvariant == HubSpec => []HubInv
<1>1. QED
  BY HubInitInv, HubStepInv, PTL DEF HubSpec

(* The requests, executions and buttons are well typed, and a request is   *)
(* about a token that was minted.                                          *)
THEOREM HubTypeCorrect == HubSpec => []HubTypeOK
<1>1. HubInv => HubTypeOK
  BY DEF HubInv
<1>2. QED
  BY <1>1, HubInvariant, PTL

(* Composed with everything KeeperHub does, the contract still behaves as  *)
(* ProofOfDev says: what is proved of Spec holds here too.                 *)
THEOREM HubImplementsContract == HubSpec => Spec
<1>1. HubInit => Init
  BY DEF HubInit
<1>2. HubInv /\ [HubNext]_allVars => [Next]_vars
  BY HubStepIsContractStep DEF HubInv
<1>3. QED
  BY <1>1, <1>2, HubInvariant, PTL DEF HubSpec, Spec

(* keeperhub.js asks KeeperHub for at most one transaction per token, for  *)
(* any number of requests and retries.                                     *)
THEOREM AtMostOneExecution == HubSpec => []OneExecution
<1>1. HubInv => OneExecution
  BY DEF HubInv, FiledByToken, OneExecution
<1>2. QED
  BY <1>1, HubInvariant, PTL

(* As long as KeeperHub cancels nothing, 202 "triggered" means the token   *)
(* is verified on chain.                                                   *)
THEOREM TriggeredIsVerified ==
  ASSUME "cancelled" \notin Mishaps
  PROVE  HubSpec => []TriggeredMeansVerified
<1>1. HubInv => TriggeredMeansVerified
  BY DEF HubInv
<1>2. QED
  BY <1>1, HubInvariant, PTL
=============================================================================
