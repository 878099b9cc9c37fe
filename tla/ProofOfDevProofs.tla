-------------------------- MODULE ProofOfDevProofs --------------------------
(***************************************************************************)
(* Proofs about the contract for every set of accounts, data, chains and   *)
(* every bound.  The inductive invariant is IInv; each theorem at the end  *)
(* extracts one property of ProofOfDev from it.                            *)
(***************************************************************************)
EXTENDS ProofOfDev, FiniteSetTheorems, TLAPS

USE ProofOfDevAssumption

(* A state invariant that every action preserves given TypeOK: the holder  *)
(* maps, the unissued ids, the nonces and the displayed metadata hang      *)
(* together.                                                               *)
IInv ==
  /\ TypeOK
  /\ HoldingsAgree
  /\ FreshIdsPristine
  /\ NonceLedger
  /\ MetadataIsNewest

-----------------------------------------------------------------------------
(* The storage of the contract keeps its types in the initial state.       *)
LEMMA InitType == Init => TypeOK
BY DEF Init, TypeOK, TokenId, Time

(* What _authorize establishes, read off its checks: the attestation is    *)
(* for msg.sender and its current nonce, of the right kind, for the        *)
(* current chain, signed by the current signer, and not expired.           *)
LEMMA AuthorizeFacts ==
  ASSUME TypeOK, NEW a \in Address, NEW att \in Attestation, NEW kind \in Kind,
         Authorize(kind, a, att)
  PROVE  /\ att.digest \in Digest
         /\ att.key \in Address
         /\ att.key = signer
         /\ att.digest.to = a
         /\ att.digest.kind = kind
         /\ att.digest.nonce = nonces[a]
         /\ att.digest.domain = chain
         /\ att.digest.data \in Data
         /\ now <= att.digest.deadline
         /\ nonces[a] < MaxNonce
         /\ nonces' = [nonces EXCEPT ![a] = @ + 1]
         /\ accepted' = accepted \cup {[att |-> att, at |-> now, chain |-> chain]}
<1>1. att.digest \in Digest /\ att.key \in Address
  BY DEF Attestation
<1>2. att.digest = StructHash(kind, a, att) /\ att.key = signer
  BY DEF Authorize, Recover, TypeOK
<1>3. DomainSeparator = chain
  BY DEF DomainSeparator
<1>4. /\ att.digest.to = a
      /\ att.digest.kind = kind
      /\ att.digest.nonce = nonces[a]
      /\ att.digest.domain = chain
  BY <1>2, <1>3 DEF StructHash
<1>5. att.digest.data \in Data
  BY <1>1 DEF Digest
<1>6. QED
  BY <1>1, <1>2, <1>4, <1>5 DEF Authorize

(* A successful _authorize keeps the nonces and the history well typed.    *)
LEMMA AuthorizeType ==
  ASSUME TypeOK, NEW a \in Address, NEW att \in Attestation, NEW kind \in Kind,
         Authorize(kind, a, att)
  PROVE  /\ nonces' \in [Address -> 0..MaxNonce]
         /\ accepted' \subseteq Accepted
<1>1. nonces[a] \in 0..MaxNonce /\ nonces[a] < MaxNonce
  BY AuthorizeFacts DEF TypeOK
<1>2. nonces' \in [Address -> 0..MaxNonce]
  BY <1>1, AuthorizeFacts DEF TypeOK
<1>3. [att |-> att, at |-> now, chain |-> chain] \in Accepted
  BY DEF TypeOK, Accepted
<1>4. QED
  BY <1>2, <1>3, AuthorizeFacts DEF TypeOK

(* Every step keeps the storage well typed.                                *)
LEMMA StepType == TypeOK /\ [Next]_vars => TypeOK'
<1> SUFFICES ASSUME TypeOK, [Next]_vars PROVE TypeOK'
  OBVIOUS
<1> USE DEF tokenVars, adminVars, authVars, envVars
<1>1. ASSUME NEW a \in User, NEW att \in Attestation, Mint(a, att)
      PROVE  TypeOK'
  <2>1. Authorize("MINT", a, att) /\ "MINT" \in Kind /\ a \in Address
    BY <1>1 DEF Mint, Kind
  <2>2. nonces' \in [Address -> 0..MaxNonce] /\ accepted' \subseteq Accepted
    BY <2>1, AuthorizeType
  <2>3. att.digest.data \in Data
    BY <2>1, AuthorizeFacts
  <2>4. nextTokenId \in TokenId /\ nextTokenId + 1 \in 1..(MaxTokens + 1)
    BY <1>1 DEF Mint, TypeOK, TokenId
  <2>5. [data |-> att.digest.data, mintedAt |-> now, updatedAt |-> now] \in Meta
    BY <2>3 DEF TypeOK, Meta
  <2>6. /\ owners' \in [TokenId -> Address \cup {Zero}]
        /\ tokens' \in [Address -> 0..MaxTokens]
        /\ metadata' \in [TokenId -> Meta \cup {NoMeta}]
    BY <1>1, <2>1, <2>4, <2>5 DEF Mint, TypeOK, TokenId
  <2>7. QED
    BY <1>1, <2>2, <2>4, <2>6 DEF Mint, TypeOK
<1>2. ASSUME NEW a \in User, NEW att \in Attestation, UpdateScore(a, att)
      PROVE  TypeOK'
  <2>1. Authorize("UPDATE", a, att) /\ "UPDATE" \in Kind /\ a \in Address
    BY <1>2 DEF UpdateScore, Kind
  <2>2. nonces' \in [Address -> 0..MaxNonce] /\ accepted' \subseteq Accepted
    BY <2>1, AuthorizeType
  <2>3. att.digest.data \in Data /\ now \in Time
    BY <2>1, AuthorizeFacts DEF TypeOK
  <2>4. tokens[a] \in TokenId
    BY <1>2, <2>1 DEF UpdateScore, TypeOK, TokenId
  <2>5. metadata[tokens[a]].mintedAt \in Time
    BY <2>4 DEF TypeOK, Meta, NoMeta, Time
  <2>6. [data |-> att.digest.data, mintedAt |-> metadata[tokens[a]].mintedAt,
         updatedAt |-> now] \in Meta
    BY <2>3, <2>5 DEF Meta
  <2>7. metadata' = [metadata EXCEPT ![tokens[a]] =
          [data |-> att.digest.data, mintedAt |-> metadata[tokens[a]].mintedAt,
           updatedAt |-> now]]
    BY <1>2 DEF UpdateScore
  <2>8. metadata' \in [TokenId -> Meta \cup {NoMeta}]
    BY <2>4, <2>6, <2>7 DEF TypeOK
  <2>9. QED
    BY <1>2, <2>2, <2>8 DEF UpdateScore, TypeOK
<1>3. ASSUME NEW a \in User, Burn(a) PROVE TypeOK'
  BY <1>3 DEF Burn, TypeOK, TokenId
<1>4. ASSUME NEW a \in Address, AcceptOwnership(a) PROVE TypeOK'
  BY <1>4 DEF AcceptOwnership, TypeOK
<1>5. ASSUME NEW a \in Address, NEW t \in TokenId, MarkVerified(a, t) PROVE TypeOK'
  BY <1>5 DEF MarkVerified, TypeOK
<1>6. ASSUME NEW a \in Address, NEW b \in Address \cup {Zero},
             TransferOwnership(a, b) \/ SetSigner(a, b)
      PROVE  TypeOK'
  BY <1>6 DEF TransferOwnership, SetSigner, TypeOK
<1>7. ASSUME NEW a \in Address, NEW uri \in URI, SetBaseURI(a, uri) PROVE TypeOK'
  BY <1>7 DEF SetBaseURI, TypeOK
<1>8. CASE NextBlock
  BY <1>8 DEF NextBlock, TypeOK, Time
<1>9. ASSUME NEW c \in ChainId, Fork(c) PROVE TypeOK'
  BY <1>9 DEF Fork, TypeOK
<1>10. CASE UNCHANGED vars
  BY <1>10 DEF vars, TypeOK
<1>11. QED
  BY <1>1, <1>2, <1>3, <1>4, <1>5, <1>6, <1>7, <1>8, <1>9, <1>10 DEF Next

(* The storage of the contract is well typed in every reachable state, and *)
(* signer and owner are never address(0).                                  *)
THEOREM TypeCorrect == Spec => []TypeOK
<1>1. Init => TypeOK
  BY InitType
<1>2. TypeOK /\ [Next]_vars => TypeOK'
  BY StepType
<1>3. QED
  BY <1>1, <1>2, PTL DEF Spec

-----------------------------------------------------------------------------
(* What a step does to the holder maps: it gives the next id to an account *)
(* without a token, takes an account's token away, or leaves them alone.   *)
Given(a) ==
  /\ tokens[a] = 0
  /\ nextTokenId \in TokenId
  /\ nextTokenId' = nextTokenId + 1
  /\ owners' = [owners EXCEPT ![nextTokenId] = a]
  /\ tokens' = [tokens EXCEPT ![a] = nextTokenId]
  /\ verified' = verified

Taken(a) ==
  /\ tokens[a] # 0
  /\ nextTokenId' = nextTokenId
  /\ owners' = [owners EXCEPT ![tokens[a]] = Zero]
  /\ tokens' = [tokens EXCEPT ![a] = 0]
  /\ verified' = verified

Kept ==
  /\ UNCHANGED <<nextTokenId, owners, tokens>>
  /\ \/ verified' = verified
     \/ \E t \in TokenId : /\ owners[t] # Zero
                           /\ verified' = [verified EXCEPT ![t] = TRUE]

HolderStep ==
  \/ \E a \in Address : Given(a) \/ Taken(a)
  \/ Kept

(* Every step of the contract is a holder step.                            *)
LEMMA NextIsHolderStep == TypeOK /\ [Next]_vars => HolderStep
<1> SUFFICES ASSUME TypeOK, [Next]_vars PROVE HolderStep
  OBVIOUS
<1> USE DEF tokenVars, adminVars, authVars, envVars
<1>1. ASSUME NEW a \in User, NEW att \in Attestation, Mint(a, att)
      PROVE  HolderStep
  <2>1. nextTokenId \in TokenId
    BY <1>1 DEF Mint, TypeOK, TokenId
  <2>2. Given(a) /\ a \in Address
    BY <1>1, <2>1 DEF Mint, Given
  <2>3. QED
    BY <2>2 DEF HolderStep
<1>2. ASSUME NEW a \in User, NEW att \in Attestation, UpdateScore(a, att)
      PROVE  HolderStep
  BY <1>2 DEF UpdateScore, HolderStep, Kept
<1>3. ASSUME NEW a \in User, Burn(a) PROVE HolderStep
  <2>1. Taken(a) /\ a \in Address
    BY <1>3 DEF Burn, Taken
  <2>2. QED
    BY <2>1 DEF HolderStep
<1>4. ASSUME NEW a \in Address, NEW t \in TokenId, MarkVerified(a, t)
      PROVE  HolderStep
  BY <1>4 DEF MarkVerified, HolderStep, Kept, Exists
<1>5. ASSUME \/ \E a \in Address : AcceptOwnership(a)
             \/ \E a \in Address, b \in Address \cup {Zero} :
                  TransferOwnership(a, b) \/ SetSigner(a, b)
             \/ \E a \in Address, uri \in URI : SetBaseURI(a, uri)
             \/ NextBlock
             \/ \E c \in ChainId : Fork(c)
             \/ UNCHANGED vars
      PROVE  HolderStep
  BY <1>5 DEF AcceptOwnership, TransferOwnership, SetSigner, SetBaseURI,
              NextBlock, Fork, vars, HolderStep, Kept
<1>6. QED
  BY <1>1, <1>2, <1>3, <1>4, <1>5 DEF Next

(* A holder step keeps the two maps inverse to each other and the ids not  *)
(* yet issued pristine.                                                    *)
LEMMA HolderStepInv ==
  ASSUME TypeOK, HoldingsAgree, FreshIdsPristine, HolderStep
  PROVE  HoldingsAgree' /\ FreshIdsPristine'
<1> USE DEF TypeOK, TokenId, Given, Taken
<1>1. ASSUME NEW a \in Address, Given(a)
      PROVE  HoldingsAgree' /\ FreshIdsPristine'
  <2>1. owners[nextTokenId] = Zero
    BY <1>1 DEF FreshIdsPristine
  <2>2. ASSUME NEW b \in Address, NEW t \in TokenId
        PROVE  (owners'[t] = b) <=> (tokens'[b] = t)
    <3>1. (owners[t] = b) <=> (tokens[b] = t)
      BY DEF HoldingsAgree
    <3>2. CASE t = nextTokenId /\ b = a
      BY <1>1, <3>2
    <3>3. CASE t = nextTokenId /\ b # a
      BY <1>1, <2>1, <3>1, <3>3
    <3>4. CASE t # nextTokenId /\ b = a
      BY <1>1, <3>1, <3>4
    <3>5. CASE t # nextTokenId /\ b # a
      BY <1>1, <3>1, <3>5
    <3>6. QED
      BY <3>2, <3>3, <3>4, <3>5
  <2>3. FreshIdsPristine'
    BY <1>1 DEF FreshIdsPristine
  <2>4. QED
    BY <2>2, <2>3 DEF HoldingsAgree
<1>2. ASSUME NEW a \in Address, Taken(a)
      PROVE  HoldingsAgree' /\ FreshIdsPristine'
  <2>1. tokens[a] \in TokenId /\ owners[tokens[a]] = a
    BY <1>2 DEF HoldingsAgree
  <2>2. ASSUME NEW b \in Address, NEW t \in TokenId
        PROVE  (owners'[t] = b) <=> (tokens'[b] = t)
    <3>1. (owners[t] = b) <=> (tokens[b] = t)
      BY DEF HoldingsAgree
    <3>2. CASE b = a
      BY <1>2, <2>1, <3>1, <3>2
    <3>3. CASE b # a
      BY <1>2, <2>1, <3>1, <3>3
    <3>4. QED
      BY <3>2, <3>3
  <2>3. FreshIdsPristine'
    BY <1>2, <2>1 DEF FreshIdsPristine
  <2>4. QED
    BY <2>2, <2>3 DEF HoldingsAgree
<1>3. CASE Kept
  BY <1>3 DEF Kept, HoldingsAgree, FreshIdsPristine
<1>4. QED
  BY <1>1, <1>2, <1>3 DEF HolderStep

-----------------------------------------------------------------------------
(* What a step does to nonces and history: it spends the current nonce of  *)
(* one account on one attestation, or leaves both alone.                   *)
Spend(a, att) ==
  /\ att.key = signer
  /\ att.digest.to = a
  /\ att.digest.nonce = nonces[a]
  /\ att.digest.domain = chain
  /\ now <= att.digest.deadline
  /\ nonces[a] < MaxNonce
  /\ nonces' = [nonces EXCEPT ![a] = @ + 1]
  /\ accepted' = accepted \cup {[att |-> att, at |-> now, chain |-> chain]}

AuthStep ==
  \/ \E a \in Address, att \in Attestation : Spend(a, att)
  \/ UNCHANGED <<nonces, accepted>>

(* Mint and updateScore spend a nonce; nothing else touches them.          *)
LEMMA NextIsAuthStep == TypeOK /\ [Next]_vars => AuthStep
<1> SUFFICES ASSUME TypeOK, [Next]_vars PROVE AuthStep
  OBVIOUS
<1>1. ASSUME NEW a \in User, NEW att \in Attestation,
             Mint(a, att) \/ UpdateScore(a, att)
      PROVE  AuthStep
  <2>1. PICK kind \in Kind : Authorize(kind, a, att)
    BY <1>1 DEF Mint, UpdateScore, Kind
  <2>2. a \in Address
    OBVIOUS
  <2>3. Spend(a, att)
    BY <2>1, <2>2, AuthorizeFacts DEF Spend
  <2>4. QED
    BY <2>2, <2>3 DEF AuthStep
<1>2. ASSUME \/ \E a \in User : Burn(a)
             \/ \E a \in Address : AcceptOwnership(a)
             \/ \E a \in Address, t \in TokenId : MarkVerified(a, t)
             \/ \E a \in Address, b \in Address \cup {Zero} :
                  TransferOwnership(a, b) \/ SetSigner(a, b)
             \/ \E a \in Address, uri \in URI : SetBaseURI(a, uri)
             \/ NextBlock
             \/ \E c \in ChainId : Fork(c)
             \/ UNCHANGED vars
      PROVE  AuthStep
  BY <1>2 DEF Burn, AcceptOwnership, MarkVerified, TransferOwnership, SetSigner,
              SetBaseURI, NextBlock, Fork, vars, authVars, AuthStep
<1>3. QED
  BY <1>1, <1>2 DEF Next

(* An accepted attestation is for an account and a nonce of the contract.  *)
LEMMA AcceptedTyped ==
  ASSUME TypeOK, NEW e \in accepted
  PROVE  /\ e.att.digest.to \in Address
         /\ e.att.digest.nonce \in 0..MaxNonce
BY DEF TypeOK, Accepted, Attestation, Digest

(* Spending a nonce keeps the ledger: the new entry takes exactly the      *)
(* nonce that no earlier entry of the account has.                         *)
LEMMA SpendKeepsLedger ==
  ASSUME TypeOK, NonceLedger, NEW a \in Address, NEW att \in Attestation,
         Spend(a, att)
  PROVE  NonceLedger'
<1> DEFINE new == [att |-> att, at |-> now, chain |-> chain]
<1>1. /\ nonces[a] \in Nat
      /\ nonces'[a] = nonces[a] + 1
      /\ \A b \in Address : b # a => nonces'[b] = nonces[b]
      /\ \A b \in Address : nonces[b] \in Nat
      /\ accepted' = accepted \cup {new}
      /\ new.att = att
  BY DEF TypeOK, Spend
<1>2. att.digest.to = a /\ att.digest.nonce = nonces[a]
  BY DEF Spend
<1>3. ASSUME NEW e \in accepted'
      PROVE  e.att.digest.nonce < nonces'[e.att.digest.to]
  <2>1. CASE e = new
    BY <1>1, <1>2, <2>1
  <2>2. CASE e \in accepted
    <3>1. /\ e.att.digest.nonce < nonces[e.att.digest.to]
          /\ e.att.digest.to \in Address
          /\ e.att.digest.nonce \in 0..MaxNonce
      BY <2>2, AcceptedTyped DEF NonceLedger
    <3>2. QED
      BY <1>1, <3>1
  <2>3. QED
    BY <1>1, <2>1, <2>2
<1>4. ASSUME NEW b \in Address, NEW n \in 0..(nonces'[b] - 1)
      PROVE  \E e \in accepted' : e.att.digest.to = b /\ e.att.digest.nonce = n
  <2>1. CASE b = a /\ n = nonces[a]
    <3>1. new \in accepted'
      BY <1>1
    <3>2. new.att.digest.to = b /\ new.att.digest.nonce = n
      BY <1>1, <1>2, <2>1
    <3>3. QED
      BY <3>1, <3>2
  <2>2. CASE ~(b = a /\ n = nonces[a])
    <3>1. n \in 0..(nonces[b] - 1)
      BY <1>1, <2>2
    <3>2. PICK e \in accepted : e.att.digest.to = b /\ e.att.digest.nonce = n
      BY <3>1 DEF NonceLedger
    <3>3. QED
      BY <1>1, <3>2
  <2>3. QED
    BY <2>1, <2>2
<1>5. ASSUME NEW e \in accepted', NEW f \in accepted',
             e.att.digest.to = f.att.digest.to,
             e.att.digest.nonce = f.att.digest.nonce
      PROVE  e = f
  <2>1. ASSUME NEW g \in accepted, g.att.digest.to = a,
               g.att.digest.nonce = nonces[a]
        PROVE  FALSE
    BY <1>1, <2>1 DEF NonceLedger
  <2>2. CASE e \in accepted /\ f \in accepted
    BY <1>5, <2>2 DEF NonceLedger
  <2>3. CASE e = new \/ f = new
    BY <1>1, <1>2, <1>5, <2>1, <2>3
  <2>4. QED
    BY <1>1, <2>2, <2>3
<1>6. QED
  BY <1>3, <1>4, <1>5 DEF NonceLedger

(* Every step keeps the ledger.                                            *)
LEMMA StepLedger == TypeOK /\ NonceLedger /\ [Next]_vars => NonceLedger'
<1> SUFFICES ASSUME TypeOK, NonceLedger, [Next]_vars PROVE NonceLedger'
  OBVIOUS
<1>1. ASSUME NEW a \in Address, NEW att \in Attestation, Spend(a, att)
      PROVE  NonceLedger'
  BY <1>1, SpendKeepsLedger
<1>2. CASE UNCHANGED <<nonces, accepted>>
  BY <1>2 DEF NonceLedger
<1>3. QED
  BY <1>1, <1>2, NextIsAuthStep DEF AuthStep

-----------------------------------------------------------------------------
(* A successful mint or update of a writes what the attestation says into  *)
(* a's token, and leaves the tokens of the others alone.                   *)
Written(a, att) ==
  /\ Spend(a, att)
  /\ tokens'[a] \in TokenId
  /\ \A b \in Address : b # a => tokens'[b] = tokens[b]
  /\ metadata'[tokens'[a]].data = att.digest.data
  /\ metadata'[tokens'[a]].updatedAt = now
  /\ \A t \in TokenId : t # tokens'[a] => metadata'[t] = metadata[t]

LEMMA MintWrites ==
  ASSUME TypeOK, NEW a \in User, NEW att \in Attestation, Mint(a, att)
  PROVE  Written(a, att)
<1>1. a \in Address /\ nextTokenId \in TokenId
  BY DEF Mint, TypeOK, TokenId
<1>2. Spend(a, att)
  BY <1>1, AuthorizeFacts DEF Mint, Kind, Spend
<1>3. /\ tokens'[a] = nextTokenId
      /\ \A b \in Address : b # a => tokens'[b] = tokens[b]
  BY <1>1 DEF Mint, TypeOK
<1>4. /\ metadata'[nextTokenId] =
           [data |-> att.digest.data, mintedAt |-> now, updatedAt |-> now]
      /\ \A t \in TokenId : t # nextTokenId => metadata'[t] = metadata[t]
  BY <1>1 DEF Mint, TypeOK
<1>5. QED
  BY <1>1, <1>2, <1>3, <1>4 DEF Written

(* UpdateScore writes the same fields, into the token the caller holds.    *)
LEMMA UpdateWrites ==
  ASSUME TypeOK, NEW a \in User, NEW att \in Attestation, UpdateScore(a, att)
  PROVE  Written(a, att)
<1>1. a \in Address /\ tokens[a] \in TokenId /\ tokens' = tokens
  BY DEF UpdateScore, TypeOK, TokenId
<1>2. Spend(a, att)
  BY <1>1, AuthorizeFacts DEF UpdateScore, Kind, Spend
<1>3. /\ metadata'[tokens[a]] =
           [data |-> att.digest.data, mintedAt |-> metadata[tokens[a]].mintedAt,
            updatedAt |-> now]
      /\ \A t \in TokenId : t # tokens[a] => metadata'[t] = metadata[t]
  BY <1>1 DEF UpdateScore, TypeOK
<1>4. QED
  BY <1>1, <1>2, <1>3 DEF Written

(* Two accounts never hold the same token.                                 *)
LEMMA HoldersDiffer ==
  ASSUME TypeOK, HoldingsAgree, NEW a \in Address, NEW b \in Address,
         tokens[a] # 0, tokens[a] = tokens[b]
  PROVE  a = b
<1>1. tokens[a] \in TokenId
  BY DEF TypeOK, TokenId
<1>2. owners[tokens[a]] = a /\ owners[tokens[a]] = b
  BY <1>1 DEF HoldingsAgree
<1>3. QED
  BY <1>2

(* Writing the newest attestation into the holder's token keeps every      *)
(* displayed score the newest one.                                         *)
LEMMA WrittenKeepsNewest ==
  ASSUME TypeOK, HoldingsAgree, HoldingsAgree', TypeOK', MetadataIsNewest,
         NEW a \in Address, NEW att \in Attestation, Written(a, att)
  PROVE  MetadataIsNewest'
<1> DEFINE new == [att |-> att, at |-> now, chain |-> chain]
<1>1. /\ nonces[a] \in Nat
      /\ nonces'[a] = nonces[a] + 1
      /\ \A b \in Address : b # a => nonces'[b] = nonces[b]
      /\ accepted' = accepted \cup {new}
  BY DEF TypeOK, Written, Spend
<1>2. SUFFICES ASSUME NEW b \in Address, tokens'[b] # 0
               PROVE  \E e \in accepted' :
                        /\ Newest(b, e)'
                        /\ metadata'[tokens'[b]].data = e.att.digest.data
                        /\ metadata'[tokens'[b]].updatedAt = e.at
  BY DEF MetadataIsNewest
<1>3. CASE b = a
  <2>1. PICK e \in accepted' : e.att = att /\ e.at = now
    <3>1. new \in accepted'
      BY <1>1
    <3>2. new.att = att /\ new.at = now
      OBVIOUS
    <3>3. QED
      BY <3>1, <3>2
  <2>2. Newest(b, e)'
    BY <1>1, <1>3, <2>1 DEF Newest, Written, Spend
  <2>3. /\ metadata'[tokens'[b]].data = e.att.digest.data
        /\ metadata'[tokens'[b]].updatedAt = e.at
    BY <1>3, <2>1 DEF Written
  <2>4. QED
    BY <2>2, <2>3
<1>4. CASE b # a
  <2>1. tokens[b] = tokens'[b] /\ tokens[b] # 0 /\ tokens[b] \in TokenId
    <3>1. tokens[b] = tokens'[b]
      BY <1>4 DEF Written
    <3>2. tokens[b] # 0 /\ tokens[b] \in 0..MaxTokens
      BY <1>2, <3>1 DEF TypeOK
    <3>3. QED
      BY <3>1, <3>2 DEF TokenId
  <2>2. tokens'[b] # tokens'[a]
    <3>1. tokens'[b] = tokens'[a] => owners'[tokens'[b]] = a /\ owners'[tokens'[b]] = b
      BY <2>1 DEF HoldingsAgree
    <3>2. QED
      BY <1>4, <3>1
  <2>3. metadata'[tokens'[b]] = metadata[tokens[b]]
    BY <2>1, <2>2 DEF Written
  <2>4. PICK e \in accepted :
          /\ Newest(b, e)
          /\ metadata[tokens[b]].data = e.att.digest.data
          /\ metadata[tokens[b]].updatedAt = e.at
    BY <2>1 DEF MetadataIsNewest
  <2>5. Newest(b, e)'
    BY <1>1, <1>4, <2>4 DEF Newest
  <2>6. QED
    BY <1>1, <2>3, <2>4, <2>5
<1>5. QED
  BY <1>3, <1>4

(* Every step keeps the displayed scores the newest ones.                  *)
LEMMA StepNewest ==
  ASSUME TypeOK, TypeOK', HoldingsAgree, HoldingsAgree', MetadataIsNewest,
         [Next]_vars
  PROVE  MetadataIsNewest'
<1> USE DEF tokenVars, adminVars, authVars, envVars
<1>1. ASSUME NEW a \in User, NEW att \in Attestation,
             Mint(a, att) \/ UpdateScore(a, att)
      PROVE  MetadataIsNewest'
  <2>1. Written(a, att) /\ a \in Address
    BY <1>1, MintWrites, UpdateWrites
  <2>2. QED
    BY <2>1, WrittenKeepsNewest
<1>2. ASSUME NEW a \in User, Burn(a) PROVE MetadataIsNewest'
  <2>1. SUFFICES ASSUME NEW b \in Address, tokens'[b] # 0
                 PROVE  \E e \in accepted' :
                          /\ Newest(b, e)'
                          /\ metadata'[tokens'[b]].data = e.att.digest.data
                          /\ metadata'[tokens'[b]].updatedAt = e.at
    BY DEF MetadataIsNewest
  <2>2. a \in Address /\ tokens[a] \in TokenId
    BY <1>2 DEF Burn, TypeOK, TokenId
  <2>3. b # a /\ tokens'[b] = tokens[b] /\ tokens[b] \in TokenId
    BY <1>2, <2>1, <2>2 DEF Burn, TypeOK, TokenId
  <2>4. tokens[b] # tokens[a]
    BY <2>1, <2>2, <2>3, HoldersDiffer
  <2>5. metadata'[tokens[b]] = metadata[tokens[b]]
    BY <1>2, <2>2, <2>3, <2>4 DEF Burn, TypeOK
  <2>6. PICK e \in accepted :
          /\ Newest(b, e)
          /\ metadata[tokens[b]].data = e.att.digest.data
          /\ metadata[tokens[b]].updatedAt = e.at
    BY <2>1, <2>3 DEF MetadataIsNewest
  <2>7. accepted' = accepted /\ nonces' = nonces
    BY <1>2 DEF Burn
  <2>8. QED
    BY <2>3, <2>5, <2>6, <2>7 DEF Newest
<1>3. ASSUME \/ \E a \in Address : AcceptOwnership(a)
             \/ \E a \in Address, t \in TokenId : MarkVerified(a, t)
             \/ \E a \in Address, b \in Address \cup {Zero} :
                  TransferOwnership(a, b) \/ SetSigner(a, b)
             \/ \E a \in Address, uri \in URI : SetBaseURI(a, uri)
             \/ NextBlock
             \/ \E c \in ChainId : Fork(c)
             \/ UNCHANGED vars
      PROVE  MetadataIsNewest'
  <2>1. UNCHANGED <<tokens, metadata, nonces, accepted>>
    BY <1>3 DEF AcceptOwnership, MarkVerified, TransferOwnership, SetSigner,
                SetBaseURI, NextBlock, Fork, vars
  <2>2. QED
    BY <2>1 DEF MetadataIsNewest, Newest
<1>4. QED
  BY <1>1, <1>2, <1>3 DEF Next

-----------------------------------------------------------------------------
(* The whole invariant: holder maps, unissued ids, nonces and displayed    *)
(* metadata stay consistent in every reachable state of the contract.      *)
THEOREM ContractInvariant == Spec => []IInv
<1>1. Init => IInv
  <2> SUFFICES ASSUME Init PROVE IInv
    OBVIOUS
  <2>1. TypeOK
    BY InitType
  <2>2. HoldingsAgree /\ FreshIdsPristine
    BY DEF Init, HoldingsAgree, FreshIdsPristine, TokenId
  <2>3. NonceLedger
    BY DEF Init, NonceLedger
  <2>4. MetadataIsNewest
    BY DEF Init, MetadataIsNewest
  <2>5. QED
    BY <2>1, <2>2, <2>3, <2>4 DEF IInv
<1>2. IInv /\ [Next]_vars => IInv'
  <2> SUFFICES ASSUME IInv, [Next]_vars PROVE IInv'
    OBVIOUS
  <2>1. TypeOK'
    BY StepType DEF IInv
  <2>2. HoldingsAgree' /\ FreshIdsPristine'
    BY NextIsHolderStep, HolderStepInv DEF IInv
  <2>3. NonceLedger'
    BY StepLedger DEF IInv
  <2>4. MetadataIsNewest'
    BY <2>1, <2>2, StepNewest DEF IInv
  <2>5. QED
    BY <2>1, <2>2, <2>3, <2>4 DEF IInv
<1>3. QED
  BY <1>1, <1>2, PTL DEF Spec

(* _owners and _tokens are inverse maps: one token per account, and        *)
(* ownerOf, balanceOf and hasMinted never disagree.                        *)
THEOREM HoldingsAgreeAlways == Spec => []HoldingsAgree
<1>1. IInv => HoldingsAgree
  BY DEF IInv
<1>2. QED
  BY <1>1, ContractInvariant, PTL

(* A token that is minted is never born verified, although burn() leaves   *)
(* the flag of the burned id set.                                          *)
THEOREM FreshIdsAlwaysPristine == Spec => []FreshIdsPristine
<1>1. IInv => FreshIdsPristine
  BY DEF IInv
<1>2. QED
  BY <1>1, ContractInvariant, PTL

(* The supply is the number of accepted mints, which are finitely many.    *)
Minted == {e \in accepted : e.att.digest.kind = "MINT"}
SupplyInv == IsFiniteSet(Minted) /\ SupplyCountsMints

(* A mint adds one entry to the history, for a nonce that no entry had,    *)
(* and one id; an update and the rest leave both as they are.              *)
LEMMA StepSupply ==
  ASSUME TypeOK, NonceLedger, SupplyInv, [Next]_vars
  PROVE  SupplyInv'
<1>1. ASSUME NEW a \in User, NEW att \in Attestation, Mint(a, att) PROVE SupplyInv'
  <2>0. a \in Address /\ "MINT" \in Kind
    BY DEF Kind
  <2> DEFINE e == [att |-> att, at |-> now, chain |-> chain]
  <2>1. /\ accepted' = accepted \cup {e} /\ nextTokenId' = nextTokenId + 1
        /\ att.digest.kind = "MINT" /\ att.digest.to = a /\ att.digest.nonce = nonces[a]
    BY <1>1, <2>0, AuthorizeFacts DEF Mint
  <2>2. e \notin accepted
    BY <2>0, <2>1 DEF NonceLedger, TypeOK
  <2>3. Minted' = Minted \cup {e} /\ e \notin Minted
    BY <2>1, <2>2 DEF Minted
  <2>4. IsFiniteSet(Minted') /\ Cardinality(Minted') = Cardinality(Minted) + 1
    BY <2>3, FS_AddElement DEF SupplyInv
  <2>5. Cardinality(Minted) = nextTokenId - 1
    BY DEF SupplyInv, SupplyCountsMints, Minted, TotalSupply
  <2>6. nextTokenId' - 1 = Cardinality(Minted')
    BY <2>1, <2>4, <2>5 DEF TypeOK
  <2>7. QED
    BY <2>4, <2>6 DEF SupplyInv, SupplyCountsMints, Minted, TotalSupply
<1>2. ASSUME UNCHANGED <<Minted, nextTokenId>> PROVE SupplyInv'
  BY <1>2 DEF SupplyInv, SupplyCountsMints, Minted, TotalSupply
<1>3. ASSUME NEW a \in User, NEW att \in Attestation, UpdateScore(a, att)
      PROVE  UNCHANGED <<Minted, nextTokenId>>
  <2>1. a \in Address /\ "UPDATE" \in Kind
    BY DEF Kind
  <2>2. /\ accepted' = accepted \cup {[att |-> att, at |-> now, chain |-> chain]}
        /\ att.digest.kind = "UPDATE" /\ UNCHANGED nextTokenId
    BY <1>3, <2>1, AuthorizeFacts DEF UpdateScore
  <2>3. QED
    BY <2>2 DEF Minted
<1>4. ASSUME \/ \E a \in User : Burn(a)
             \/ \E a \in Address : AcceptOwnership(a)
             \/ \E a \in Address, t \in TokenId : MarkVerified(a, t)
             \/ \E a \in Address, b \in Address \cup {Zero} :
                  TransferOwnership(a, b) \/ SetSigner(a, b)
             \/ \E a \in Address, uri \in URI : SetBaseURI(a, uri)
             \/ NextBlock
             \/ \E c \in ChainId : Fork(c)
             \/ UNCHANGED vars
      PROVE  UNCHANGED <<Minted, nextTokenId>>
  <2>1. UNCHANGED <<accepted, nextTokenId>>
    BY <1>4 DEF Burn, AcceptOwnership, MarkVerified, TransferOwnership, SetSigner,
                SetBaseURI, NextBlock, Fork, vars, authVars, tokenVars
  <2>2. QED
    BY <2>1 DEF Minted
<1>5. QED
  BY <1>1, <1>2, <1>3, <1>4 DEF Next

(* totalSupply() counts the mints that succeeded; burns do not lower it.   *)
THEOREM SupplyAlwaysCountsMints == Spec => []SupplyCountsMints
<1>1. Init => SupplyInv
  <2> SUFFICES ASSUME Init PROVE SupplyInv
    OBVIOUS
  <2>1. Minted = {} /\ nextTokenId = 1
    BY DEF Init, Minted
  <2>2. IsFiniteSet(Minted) /\ Cardinality(Minted) = 0
    BY <2>1, FS_EmptySet
  <2>3. Cardinality(Minted) = nextTokenId - 1
    BY <2>1, <2>2
  <2>4. QED
    BY <2>2, <2>3 DEF SupplyInv, SupplyCountsMints, Minted, TotalSupply
<1>2. IInv /\ SupplyInv /\ [Next]_vars => SupplyInv'
  BY StepSupply DEF IInv
<1>3. SupplyInv => SupplyCountsMints
  BY DEF SupplyInv
<1>4. QED
  BY <1>1, <1>2, <1>3, ContractInvariant, PTL DEF Spec

(* No attestation is ever accepted twice, and each nonce stands for        *)
(* exactly one accepted attestation.                                       *)
THEOREM NoReplay == Spec => []NonceLedger
<1>1. IInv => NonceLedger
  BY DEF IInv
<1>2. QED
  BY <1>1, ContractInvariant, PTL

(* The score a live token shows is the newest one attested for its holder. *)
THEOREM MetadataAlwaysNewest == Spec => []MetadataIsNewest
<1>1. IInv => MetadataIsNewest
  BY DEF IInv
<1>2. QED
  BY <1>1, ContractInvariant, PTL

(* Attestations take effect only under the current signer, on the current  *)
(* chain and before their deadline.                                        *)
THEOREM AcceptedAlwaysInForce == Spec => AcceptedInForce
<1>1. TypeOK /\ [Next]_vars =>
        [\A e \in accepted' \ accepted :
           /\ e.att.key = signer
           /\ e.att.digest.domain = chain
           /\ now <= e.att.digest.deadline]_vars
  BY NextIsAuthStep DEF AuthStep, Spend
<1>2. QED
  BY <1>1, TypeCorrect, PTL DEF Spec, AcceptedInForce

(* What Soulbound says of a step and a token.                              *)
StaysBound(t) ==
  /\ owners[t] # Zero => owners'[t] \in {owners[t], Zero}
  /\ t < nextTokenId => t < nextTokenId'
  /\ owners[t] = Zero /\ t < nextTokenId => owners'[t] = Zero

(* A token never changes hands and a burned id is never issued again.      *)
THEOREM AlwaysSoulbound == Spec => Soulbound
<1>1. IInv /\ [Next]_vars => [\A t \in TokenId : StaysBound(t)]_vars
  <2> SUFFICES ASSUME IInv, [Next]_vars, NEW t \in TokenId
               PROVE  StaysBound(t)
    OBVIOUS
  <2>1. HolderStep /\ TypeOK /\ HoldingsAgree /\ FreshIdsPristine
    BY NextIsHolderStep DEF IInv
  <2>2. t \in Int /\ nextTokenId \in Int
    BY <2>1 DEF TypeOK, TokenId
  <2>3. ASSUME NEW a \in Address, Given(a)
        PROVE  StaysBound(t)
    <3>1. owners[nextTokenId] = Zero
      BY <2>1, <2>3 DEF Given, FreshIdsPristine, TokenId
    <3>2. /\ owners'[t] = IF t = nextTokenId THEN a ELSE owners[t]
          /\ nextTokenId' = nextTokenId + 1
      BY <2>1, <2>3 DEF Given, TypeOK
    <3>3. QED
      BY <2>2, <3>1, <3>2 DEF StaysBound
  <2>4. ASSUME NEW a \in Address, Taken(a)
        PROVE  StaysBound(t)
    BY <2>1, <2>4 DEF Taken, TypeOK, StaysBound
  <2>5. CASE Kept
    BY <2>5 DEF Kept, StaysBound
  <2>6. QED
    BY <2>1, <2>3, <2>4, <2>5 DEF HolderStep
<1>2. QED
  BY <1>1, ContractInvariant, PTL DEF Spec, Soulbound, StaysBound

(* markVerified is one-way, and only ever marks a live token.              *)
THEOREM VerificationIsOneWay == Spec => VerifiedIsOneWay
<1>1. TypeOK /\ [Next]_vars =>
        [\A t \in TokenId :
           /\ verified[t] => verified'[t]
           /\ ~verified[t] /\ verified'[t] => Exists(t)]_vars
  <2> SUFFICES ASSUME TypeOK, [Next]_vars, NEW t \in TokenId
               PROVE  /\ verified[t] => verified'[t]
                      /\ ~verified[t] /\ verified'[t] => Exists(t)
    OBVIOUS
  <2>1. HolderStep
    BY NextIsHolderStep
  <2>2. \/ verified' = verified
        \/ \E u \in TokenId : /\ owners[u] # Zero
                              /\ verified' = [verified EXCEPT ![u] = TRUE]
    BY <2>1 DEF HolderStep, Given, Taken, Kept
  <2>3. CASE verified' = verified
    BY <2>3
  <2>4. ASSUME NEW u \in TokenId, owners[u] # Zero,
               verified' = [verified EXCEPT ![u] = TRUE]
        PROVE  /\ verified[t] => verified'[t]
               /\ ~verified[t] /\ verified'[t] => Exists(t)
    <3>1. CASE t = u
      BY <2>4, <3>1 DEF Exists, TypeOK
    <3>2. CASE t # u
      BY <2>4, <3>2 DEF TypeOK
    <3>3. QED
      BY <3>1, <3>2
  <2>5. QED
    BY <2>2, <2>3, <2>4
<1>2. QED
  BY <1>1, TypeCorrect, PTL DEF Spec, VerifiedIsOneWay
=============================================================================
