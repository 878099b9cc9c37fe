----------------------------- MODULE ProofOfDev -----------------------------
(***************************************************************************)
(* The soulbound reputation contract, contracts/ProofOfDev.sol.            *)
(*                                                                         *)
(* One action per state-changing external function; a call that reverts    *)
(* leaves the storage as it was and is therefore no step.  The functions   *)
(* transferFrom, safeTransferFrom, approve and setApprovalForAll revert    *)
(* unconditionally and have no action at all.  The view functions are      *)
(* operators.                                                              *)
(*                                                                         *)
(* A signature is known by what was signed and by whose key: an            *)
(* attestation that any key may have signed.  A caller who passes call     *)
(* arguments other than the signed ones makes the contract hash a struct   *)
(* nobody signed, so the arguments of mint and updateScore are read from   *)
(* the attestation itself.                                                 *)
(***************************************************************************)
EXTENDS Integers, FiniteSets

CONSTANTS Address,        \* the accounts: users, owners and signing keys
          User,           \* bound: those of them that mint
          Zero,           \* address(0)
          Deployer,       \* msg.sender of the constructor
          InitialSigner,  \* constructor argument
          Data,           \* (score, contractCount, verifiedContractCount, hasENS)
          ChainId,        \* values block.chainid may take
          HomeChain,      \* block.chainid at deployment (_cachedChainId)
          URI,            \* base token URIs
          MaxTokens,      \* bound: ids the contract may issue
          MaxNonce,       \* bound: attestations accepted per account
          MaxTime         \* bound: last block timestamp

ASSUME ProofOfDevAssumption ==
  /\ Zero \notin Address
  /\ User \subseteq Address
  /\ Deployer \in Address
  /\ InitialSigner \in Address
  /\ HomeChain \in ChainId
  /\ URI # {}
  /\ MaxTokens \in Nat
  /\ MaxNonce \in Nat
  /\ MaxTime \in Nat

VARIABLES nextTokenId,    \* _nextTokenId
          owners,         \* _owners : token id -> address
          tokens,         \* _tokens : address -> token id, 0 for none
          nonces,         \* nonces  : address -> next nonce
          metadata,       \* _metadata
          verified,       \* _verified
          baseURI,        \* _baseTokenURI
          owner, pendingOwner, signer,
          now,            \* block.timestamp
          chain,          \* block.chainid
          accepted        \* history: every attestation _authorize let through

tokenVars == <<nextTokenId, owners, tokens, metadata>>
adminVars == <<baseURI, owner, pendingOwner, signer>>
authVars  == <<nonces, accepted>>
envVars   == <<now, chain>>
vars == <<nextTokenId, owners, tokens, nonces, metadata, verified, baseURI,
          owner, pendingOwner, signer, now, chain, accepted>>

TokenId == 1..MaxTokens
Time    == 0..MaxTime
Kind    == {"MINT", "UPDATE"}   \* MINT_TYPEHASH, UPDATE_TYPEHASH

(* What an EIP-712 digest commits to: the domain and the struct hash.      *)
Digest == [domain : ChainId, kind : Kind, to : Address, data : Data,
           nonce : 0..MaxNonce, deadline : Time]

(* A signature: the digest that was signed, and the key that signed it.    *)
Attestation == [digest : Digest, key : Address]

Meta   == [data : Data, mintedAt : Time, updatedAt : Time]
NoMeta == [data |-> Zero, mintedAt |-> 0, updatedAt |-> 0]

(* A history entry: the attestation, and the block that accepted it.       *)
Accepted == [att : Attestation, at : Time, chain : ChainId]

-----------------------------------------------------------------------------
(* View functions.                                                         *)

Exists(t)    == t \in TokenId /\ owners[t] # Zero
HasMinted(a) == tokens[a] # 0
TotalSupply  == nextTokenId - 1

(* Mutant: a domain separator computed once, in the constructor.           *)
CachedDomain == HomeChain

(* _domainSeparator: the cached one on the chain the contract was deployed *)
(* on, rebuilt for the current chain after a fork.                         *)
DomainSeparator == IF chain = HomeChain THEN HomeChain ELSE chain

(* ecrecover: the key when the rebuilt digest is the signed one; any other *)
(* digest recovers to an address that is nobody's.                         *)
Recover(digest, att) == IF att.digest = digest THEN att.key ELSE Zero

(* Mutant: the type hash is left out, so any kind of attestation will do.  *)
StructHashUntyped(kind, a, att) ==
  [domain |-> DomainSeparator, kind |-> att.digest.kind, to |-> a,
   data |-> att.digest.data, nonce |-> nonces[a],
   deadline |-> att.digest.deadline]

(* Mutant: the caller supplies the nonce.                                  *)
StructHashAnyNonce(kind, a, att) ==
  [domain |-> DomainSeparator, kind |-> kind, to |-> a,
   data |-> att.digest.data, nonce |-> att.digest.nonce,
   deadline |-> att.digest.deadline]

(* The digest _authorize rebuilds for msg.sender a.                        *)
StructHash(kind, a, att) ==
  [domain |-> DomainSeparator, kind |-> kind, to |-> a,
   data |-> att.digest.data, nonce |-> nonces[a],
   deadline |-> att.digest.deadline]

(* _authorize: every check of it, and the nonce it burns.                  *)
Authorize(kind, a, att) ==
  /\ now <= att.digest.deadline
  /\ LET recovered == Recover(StructHash(kind, a, att), att)
     IN recovered # Zero /\ recovered = signer
  /\ nonces[a] < MaxNonce
  /\ nonces' = [nonces EXCEPT ![a] = @ + 1]
  /\ accepted' = accepted \cup {[att |-> att, at |-> now, chain |-> chain]}

-----------------------------------------------------------------------------
(* State-changing functions; a is msg.sender.                              *)

(* Mutant: no AlreadyMinted check.                                         *)
MintAgain(a, att) ==
  /\ Authorize("MINT", a, att)
  /\ nextTokenId <= MaxTokens
  /\ nextTokenId' = nextTokenId + 1
  /\ owners' = [owners EXCEPT ![nextTokenId] = a]
  /\ tokens' = [tokens EXCEPT ![a] = nextTokenId]
  /\ metadata' = [metadata EXCEPT ![nextTokenId] =
       [data |-> att.digest.data, mintedAt |-> now, updatedAt |-> now]]
  /\ UNCHANGED <<verified, adminVars, envVars>>

Mint(a, att) ==
  /\ tokens[a] = 0
  /\ Authorize("MINT", a, att)
  /\ nextTokenId <= MaxTokens
  /\ nextTokenId' = nextTokenId + 1
  /\ owners' = [owners EXCEPT ![nextTokenId] = a]
  /\ tokens' = [tokens EXCEPT ![a] = nextTokenId]
  /\ metadata' = [metadata EXCEPT ![nextTokenId] =
       [data |-> att.digest.data, mintedAt |-> now, updatedAt |-> now]]
  /\ UNCHANGED <<verified, adminVars, envVars>>

(* Mutant: updatedAt is not refreshed.                                     *)
UpdateScoreOldStamp(a, att) ==
  /\ tokens[a] # 0
  /\ Authorize("UPDATE", a, att)
  /\ metadata' = [metadata EXCEPT ![tokens[a]] =
       [data |-> att.digest.data, mintedAt |-> @.mintedAt,
        updatedAt |-> @.updatedAt]]
  /\ UNCHANGED <<nextTokenId, owners, tokens, verified, adminVars, envVars>>

UpdateScore(a, att) ==
  /\ tokens[a] # 0
  /\ Authorize("UPDATE", a, att)
  /\ metadata' = [metadata EXCEPT ![tokens[a]] =
       [data |-> att.digest.data, mintedAt |-> @.mintedAt, updatedAt |-> now]]
  /\ UNCHANGED <<nextTokenId, owners, tokens, verified, adminVars, envVars>>

(* Mutant: burning the newest token makes its id available again.          *)
BurnReusingId(a) ==
  /\ tokens[a] # 0
  /\ owners' = [owners EXCEPT ![tokens[a]] = Zero]
  /\ tokens' = [tokens EXCEPT ![a] = 0]
  /\ metadata' = [metadata EXCEPT ![tokens[a]] = NoMeta]
  /\ nextTokenId' = IF tokens[a] = nextTokenId - 1 THEN tokens[a]
                                                   ELSE nextTokenId
  /\ UNCHANGED <<verified, authVars, adminVars, envVars>>

(* Mutant: burning clears the flag.                                        *)
BurnClearingFlag(a) ==
  /\ tokens[a] # 0
  /\ owners' = [owners EXCEPT ![tokens[a]] = Zero]
  /\ tokens' = [tokens EXCEPT ![a] = 0]
  /\ metadata' = [metadata EXCEPT ![tokens[a]] = NoMeta]
  /\ verified' = [verified EXCEPT ![tokens[a]] = FALSE]
  /\ UNCHANGED <<nextTokenId, authVars, adminVars, envVars>>

(* The _verified flag of a burned token is left set.                       *)
Burn(a) ==
  /\ tokens[a] # 0
  /\ owners' = [owners EXCEPT ![tokens[a]] = Zero]
  /\ tokens' = [tokens EXCEPT ![a] = 0]
  /\ metadata' = [metadata EXCEPT ![tokens[a]] = NoMeta]
  /\ UNCHANGED <<nextTokenId, verified, authVars, adminVars, envVars>>

(* Mutant: no TokenDoesNotExist check.                                     *)
MarkVerifiedUnchecked(a, t) ==
  /\ a = owner
  /\ ~verified[t]
  /\ verified' = [verified EXCEPT ![t] = TRUE]
  /\ UNCHANGED <<tokenVars, authVars, adminVars, envVars>>

MarkVerified(a, t) ==
  /\ a = owner
  /\ Exists(t)
  /\ ~verified[t]
  /\ verified' = [verified EXCEPT ![t] = TRUE]
  /\ UNCHANGED <<tokenVars, authVars, adminVars, envVars>>

TransferOwnership(a, newOwner) ==
  /\ a = owner
  /\ newOwner # Zero
  /\ pendingOwner' = newOwner
  /\ UNCHANGED <<tokenVars, verified, authVars, baseURI, owner, signer, envVars>>

AcceptOwnership(a) ==
  /\ a = pendingOwner
  /\ owner' = a
  /\ pendingOwner' = Zero
  /\ UNCHANGED <<tokenVars, verified, authVars, baseURI, signer, envVars>>

(* Mutant: no zero-address check.                                          *)
SetSignerUnchecked(a, newSigner) ==
  /\ a = owner
  /\ signer' = newSigner
  /\ UNCHANGED <<tokenVars, verified, authVars, baseURI, owner, pendingOwner,
                 envVars>>

SetSigner(a, newSigner) ==
  /\ a = owner
  /\ newSigner # Zero
  /\ signer' = newSigner
  /\ UNCHANGED <<tokenVars, verified, authVars, baseURI, owner, pendingOwner,
                 envVars>>

SetBaseURI(a, uri) ==
  /\ a = owner
  /\ baseURI' = uri
  /\ UNCHANGED <<tokenVars, verified, authVars, owner, pendingOwner, signer,
                 envVars>>

-----------------------------------------------------------------------------
(* The chain: block timestamps grow, and a fork changes block.chainid.     *)

NextBlock ==
  /\ now < MaxTime
  /\ now' = now + 1
  /\ UNCHANGED <<tokenVars, verified, authVars, adminVars, chain>>

Fork(c) ==
  /\ c # chain
  /\ chain' = c
  /\ UNCHANGED <<tokenVars, verified, authVars, adminVars, now>>

-----------------------------------------------------------------------------
Init ==
  /\ nextTokenId = 1
  /\ owners = [t \in TokenId |-> Zero]
  /\ tokens = [a \in Address |-> 0]
  /\ nonces = [a \in Address |-> 0]
  /\ metadata = [t \in TokenId |-> NoMeta]
  /\ verified = [t \in TokenId |-> FALSE]
  /\ baseURI \in URI
  /\ owner = Deployer
  /\ pendingOwner = Zero
  /\ signer = InitialSigner
  /\ now = 0
  /\ chain = HomeChain
  /\ accepted = {}

Next ==
  \/ \E a \in User, att \in Attestation : Mint(a, att) \/ UpdateScore(a, att)
  \/ \E a \in User : Burn(a)
  \/ \E a \in Address : AcceptOwnership(a)
  \/ \E a \in Address, t \in TokenId : MarkVerified(a, t)
  \/ \E a \in Address, b \in Address \cup {Zero} :
       TransferOwnership(a, b) \/ SetSigner(a, b)
  \/ \E a \in Address, uri \in URI : SetBaseURI(a, uri)
  \/ NextBlock
  \/ \E c \in ChainId : Fork(c)

Spec == Init /\ [][Next]_vars

-----------------------------------------------------------------------------
(* Properties.                                                             *)

(* Every storage slot holds a value of its Solidity type; the signer and   *)
(* the owner are never address(0), which the checks in the constructor,    *)
(* setSigner and transferOwnership are there to ensure.                    *)
TypeOK ==
  /\ nextTokenId \in 1..(MaxTokens + 1)
  /\ owners \in [TokenId -> Address \cup {Zero}]
  /\ tokens \in [Address -> 0..MaxTokens]
  /\ nonces \in [Address -> 0..MaxNonce]
  /\ metadata \in [TokenId -> Meta \cup {NoMeta}]
  /\ verified \in [TokenId -> BOOLEAN]
  /\ baseURI \in URI
  /\ owner \in Address
  /\ pendingOwner \in Address \cup {Zero}
  /\ signer \in Address
  /\ now \in Time
  /\ chain \in ChainId
  /\ accepted \subseteq Accepted

(* _owners and _tokens are inverse to each other through any sequence of   *)
(* mints, burns and re-mints, so an account holds at most one token and    *)
(* hasMinted agrees with ownerOf.                                          *)
HoldingsAgree ==
  \A a \in Address, t \in TokenId : (owners[t] = a) <=> (tokens[a] = t)

(* Ids not yet issued are pristine: no holder and no leftover "verified"   *)
(* flag, so a fresh token cannot start out verified although burn() never  *)
(* clears the flag.                                                        *)
FreshIdsPristine ==
  \A t \in TokenId : t >= nextTokenId => owners[t] = Zero /\ ~verified[t]

(* The nonce of an account counts exactly the attestations it has used:    *)
(* each nonce below it was spent by one attestation for that account, and  *)
(* no accepted attestation could be accepted again.                        *)
NonceLedger ==
  /\ \A e \in accepted : e.att.digest.nonce < nonces[e.att.digest.to]
  /\ \A a \in Address : \A n \in 0..(nonces[a] - 1) :
       \E e \in accepted : e.att.digest.to = a /\ e.att.digest.nonce = n
  /\ \A e, f \in accepted :
       /\ e.att.digest.to = f.att.digest.to
       /\ e.att.digest.nonce = f.att.digest.nonce
       => e = f

(* The attestation that spent an account's newest nonce.                   *)
Newest(a, e) ==
  e.att.digest.to = a /\ e.att.digest.nonce = nonces[a] - 1

(* What getMetadata shows of a live token is what the newest attestation   *)
(* its holder used says, stamped with the time it was used: neither a      *)
(* burn and re-mint nor an older update shows through.                     *)
MetadataIsNewest ==
  \A a \in Address : tokens[a] # 0 =>
    \E e \in accepted :
      /\ Newest(a, e)
      /\ metadata[tokens[a]].data = e.att.digest.data
      /\ metadata[tokens[a]].updatedAt = e.at

(* totalSupply() is the number of mints that ever succeeded, not of tokens *)
(* alive (test/ProofOfDev.test.cjs relies on it not shrinking on a burn).  *)
SupplyCountsMints ==
  TotalSupply = Cardinality({e \in accepted : e.att.digest.kind = "MINT"})

(* An attestation takes effect only while it is in force: signed by the    *)
(* key that is the signer at that moment (rotating the signer revokes      *)
(* everything the old one signed), for the chain the call executes on, and *)
(* not past its deadline.                                                  *)
AcceptedInForce ==
  [][\A e \in accepted' \ accepted :
       /\ e.att.key = signer
       /\ e.att.digest.domain = chain
       /\ now <= e.att.digest.deadline]_vars

(* Soulbound: a token never passes from one holder to another, and the id  *)
(* of a burned token is never given out again: it stays below _nextTokenId *)
(* and without a holder.                                                   *)
Soulbound ==
  [][\A t \in TokenId :
       /\ owners[t] # Zero => owners'[t] \in {owners[t], Zero}
       /\ t < nextTokenId => t < nextTokenId'
       /\ owners[t] = Zero /\ t < nextTokenId => owners'[t] = Zero]_vars

(* A token's verification is not reversible ("one-way flag"), whoever owns *)
(* the contract later, and only ever starts while the token is alive.      *)
VerifiedIsOneWay ==
  [][\A t \in TokenId :
       /\ verified[t] => verified'[t]
       /\ ~verified[t] /\ verified'[t] => Exists(t)]_vars

=============================================================================
