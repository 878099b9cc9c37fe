----------------------------- MODULE Publishing -----------------------------
(***************************************************************************)
(* How a profile gets on chain: MintButton.tsx and AttestButton.tsx in the *)
(* browser, the two services that sign what they submit                    *)
(* (mintAuthorizationService.ts, attestationService.ts) and the ProofOfDev *)
(* contract.                                                               *)
(*                                                                         *)
(* Each tab shows the buttons for one address.  All tabs share the wallet, *)
(* whose account and network the user may change at any time: a step that  *)
(* needs Sepolia can be taken once the wallet is there, and a transaction  *)
(* is sent from any account to any network.  A profile is what GET         *)
(* /profile answers for Sepolia; it changes with every analysis.  The      *)
(* server's clock is the chain's.                                          *)
(***************************************************************************)
EXTENDS ProofOfDev

CONSTANTS
    Tab,           \* browser tabs
    AddressOf,     \* the address prop of a tab's buttons
    Shown,         \* the profile a tab displays, of whatever network
    Result,        \* the profiles an analysis on Sepolia can have
    Attesting,     \* bound: the tabs in which the user tries the attest button
    MaxAttempts,   \* bound: clicks on the mint button
    OtherNetwork,  \* a network the wallet can be on, without the contract
    ServerKey,     \* the address of MINT_SIGNER_PRIVATE_KEY
    NoProfile,     \* the worker has no Sepolia analysis on record
    TTL            \* AUTHORIZATION_TTL_SECONDS

ASSUME PublishingAssumption ==
    /\ Tab # {} /\ AddressOf \in [Tab -> User]
    /\ Shown \in [Tab -> Data]
    /\ Result \subseteq Data
    /\ Attesting \subseteq Tab
    /\ MaxAttempts \in Nat
    /\ OtherNetwork # HomeChain
    /\ ServerKey \in Address
    /\ NoProfile \notin Data
    /\ TTL \in Nat

VARIABLES
    profile,  \* MongoDB: address -> the stored Sepolia profile
    known,    \* history: every profile ever stored
    mint,     \* tab -> state of its MintButton
    attest,   \* tab -> state of its AttestButton
    attempts  \* what has become of each click on a mint button

flowVars == <<profile, known, mint, attest, attempts>>
contractVars == <<tokenVars, verified, authVars, adminVars, envVars>>
allVars == <<contractVars, flowVars>>

Network == {HomeChain, OtherNetwork}
NoPayload == [data |-> NoProfile, deadline |-> 0]

Attempt == 1 .. MaxAttempts
None == 0

\* auth is the attempt for which isAuthorizing is set, tx the one writeContract was
\* last called for, and receipt what the query for its receipt has come to.
Fresh == [step |-> "options", understood |-> FALSE, auth |-> None, tx |-> None,
          receipt |-> "none"]

\* An attempt is "fetching" and "profiled" before and after the server has read the
\* profile, "asked" when the wallet has its transaction, "pending" when the network has.
\* Histories: what the wallet held and who was signer when the server signed, and
\* whether the button has lost sight of the attempt while it was under way.
Authorizing == {"fetching", "profiled"}
InWallet == {"asked", "pending"}
Over == {"failed", "mined", "reverted", "replaced"}
UnderWay(i) == attempts[i].status \in Authorizing \union InWallet
Click(t, status) ==
    [status |-> status, tab |-> t, payload |-> NoPayload, signed |-> {},
     from |-> AddressOf[t], net |-> HomeChain, held |-> FALSE, ours |-> TRUE, lost |-> FALSE]
Unused == Click(CHOOSE t \in Tab : TRUE, "unused")

\* An attempt that is over: what was sent, and where, if anything was.
Ended(i, status) ==
    [Click(attempts[i].tab, status) EXCEPT !.signed = attempts[i].signed, !.net = attempts[i].net]

------------------------------------------------------------------------------
(* MintButton: the confirmation dialog                                     *)

Open(t) ==
    /\ mint[t].step = "options"
    /\ mint' = [mint EXCEPT ![t].step = "confirm"]
    /\ UNCHANGED <<contractVars, profile, known, attest, attempts>>

\* Backdrop, cross and Cancel: nothing that is under way is stopped.
Close(t) ==
    /\ mint[t].step = "confirm"
    /\ mint' = [mint EXCEPT ![t].step = "options", ![t].understood = FALSE]
    /\ UNCHANGED <<contractVars, profile, known, attest, attempts>>

Understand(t) ==
    /\ mint[t].step = "confirm"
    /\ mint' = [mint EXCEPT ![t].understood = ~@]
    /\ UNCHANGED <<contractVars, profile, known, attest, attempts>>

IsAuthorizing(t) == mint[t].auth # None
IsWritePending(t) == mint[t].tx # None /\ attempts[mint[t].tx].status = "asked"
IsConfirming(t) == mint[t].receipt = "waiting"

\* The button is in the dialog, on Sepolia only, and asks for the checkbox.
Offered(t) == mint[t].step = "confirm" /\ mint[t].understood

\* handleConfirmMint up to the answer of the server.
Begin(t) ==
    \E i \in Attempt :
        /\ attempts[i].status = "unused" /\ \A j \in 1 .. i - 1 : attempts[j].status # "unused"
        /\ attempts' = [attempts EXCEPT ![i] = Click(t, "fetching")]
        /\ mint' = [mint EXCEPT ![t].auth = i]
        /\ UNCHANGED <<contractVars, profile, known, attest>>

\* Mutant: the button stays enabled while a transaction is being confirmed.
HandleConfirmMintAgain(t) ==
    Offered(t) /\ ~IsAuthorizing(t) /\ ~IsWritePending(t) /\ Begin(t)

HandleConfirmMint(t) ==
    Offered(t) /\ ~IsAuthorizing(t) /\ ~IsWritePending(t) /\ ~IsConfirming(t) /\ Begin(t)

------------------------------------------------------------------------------
(* POST /api/mint-authorization                                            *)

\* The catch and finally of handleConfirmMint; the message is left out.
Fail(i) ==
    /\ attempts' = [attempts EXCEPT ![i] = Ended(i, "failed")]
    /\ mint' = [t \in Tab |-> IF mint[t].auth = i THEN [mint[t] EXCEPT !.auth = None] ELSE mint[t]]

\* Mutant: what the browser shows is taken for the profile.
FetchCanonicalProfileFromClient(i) ==
    /\ attempts[i].status = "fetching"
    /\ now + TTL \in Time
    /\ attempts' = [attempts EXCEPT ![i].status = "profiled",
                    ![i].payload = [data |-> Shown[attempts[i].tab], deadline |-> now + TTL]]
    /\ UNCHANGED <<contractVars, profile, known, mint, attest>>

\* Mutant: a request that fails is never answered.
FetchCanonicalProfileHanging(i) ==
    /\ attempts[i].status = "fetching"
    /\ LET data == profile[AddressOf[attempts[i].tab]] IN
        /\ data # NoProfile
        /\ now + TTL \in Time
        /\ attempts' = [attempts EXCEPT ![i].status = "profiled",
                        ![i].payload = [data |-> data, deadline |-> now + TTL]]
    /\ UNCHANGED <<contractVars, profile, known, mint, attest>>

\* fetchCanonicalProfile, and the deadline that is counted from its answer.  A
\* wallet without a profile, or a worker that cannot be reached, is an error.
FetchCanonicalProfile(i) ==
    /\ attempts[i].status = "fetching"
    /\ \/ Fail(i)
       \/ LET data == profile[AddressOf[attempts[i].tab]] IN
            /\ data # NoProfile
            /\ now + TTL \in Time
            /\ attempts' = [attempts EXCEPT ![i].status = "profiled",
                            ![i].payload = [data |-> data, deadline |-> now + TTL]]
            /\ UNCHANGED mint
    /\ UNCHANGED <<contractVars, profile, known, attest>>

\* Mutant: the typed data are for another chain.
MintAttestationElsewhere(t, payload) ==
    [digest |-> [domain |-> OtherNetwork, kind |-> "MINT", to |-> AddressOf[t],
                 data |-> payload.data, nonce |-> nonces[AddressOf[t]],
                 deadline |-> payload.deadline],
     key |-> ServerKey]

\* The typed data of the service and the signature on it.
MintAttestation(t, payload) ==
    [digest |-> [domain |-> HomeChain, kind |-> "MINT", to |-> AddressOf[t],
                 data |-> payload.data, nonce |-> nonces[AddressOf[t]],
                 deadline |-> payload.deadline],
     key |-> ServerKey]

\* createMintAuthorization reads the nonce, which may fail, and signs; the browser
\* hands the answer to the wallet, whether the dialog or the button is still there or not.
CreateMintAuthorization(i) ==
    /\ attempts[i].status = "profiled"
    /\ \/ Fail(i)
       \/ LET t == attempts[i].tab IN
            /\ attempts' = [attempts EXCEPT ![i].status = "asked", ![i].payload = NoPayload,
                    ![i].signed = {MintAttestation(t, attempts[i].payload)},
                    ![i].held = tokens[AddressOf[t]] # 0, ![i].ours = signer = ServerKey]
            /\ mint' = IF mint[t].auth # i THEN mint
                       ELSE [mint EXCEPT ![t].auth = None, ![t].tx = i, ![t].receipt = "none"]
    /\ UNCHANGED <<contractVars, profile, known, attest>>

------------------------------------------------------------------------------
(* The wallet and the chain                                                *)

\* The transaction is sent by the account, and to the network, of the moment.
ApproveInWallet(i, account, network) ==
    /\ attempts[i].status = "asked"
    /\ attempts' = [attempts EXCEPT ![i].status = "pending", ![i].from = account,
                                    ![i].net = network]
    /\ mint' = [t \in Tab |-> IF mint[t].tx = i THEN [mint[t] EXCEPT !.receipt = "waiting"]
                              ELSE mint[t]]
    /\ UNCHANGED <<contractVars, profile, known, attest>>

RejectInWallet(i) ==
    /\ attempts[i].status = "asked"
    /\ attempts' = [attempts EXCEPT ![i] = [Ended(i, "failed") EXCEPT !.signed = {}]]
    /\ UNCHANGED <<contractVars, profile, known, mint, attest>>

\* The user cancels the transaction in the wallet, or puts another one in its place.
ReplaceInWallet(i) ==
    /\ attempts[i].status = "pending"
    /\ attempts' = [attempts EXCEPT ![i] = Ended(i, "replaced")]
    /\ UNCHANGED <<contractVars, profile, known, mint, attest>>

MineMint(i) ==
    /\ attempts[i].status = "pending" /\ attempts[i].net = HomeChain
    /\ \E att \in attempts[i].signed : Mint(attempts[i].from, att)
    /\ attempts' = [attempts EXCEPT ![i] = Ended(i, "mined")]
    /\ UNCHANGED <<profile, known, mint, attest>>

\* The checks of mint() that make it revert.
Reverts(a, att) ==
    \/ tokens[a] # 0
    \/ now > att.digest.deadline
    \/ Recover(StructHash("MINT", a, att), att) # signer

RevertMint(i) ==
    /\ attempts[i].status = "pending" /\ attempts[i].net = HomeChain
    /\ \E att \in attempts[i].signed : Reverts(attempts[i].from, att)
    /\ attempts' = [attempts EXCEPT ![i] = Ended(i, "reverted")]
    /\ UNCHANGED <<contractVars, profile, known, mint, attest>>

\* Elsewhere there is no code at the address, and a call of it succeeds.
MineElsewhere(i) ==
    /\ attempts[i].status = "pending" /\ attempts[i].net = OtherNetwork
    /\ attempts' = [attempts EXCEPT ![i] = Ended(i, "mined")]
    /\ UNCHANGED <<contractVars, profile, known, mint, attest>>

------------------------------------------------------------------------------
(* useWaitForTransactionReceipt                                            *)

\* Mutant: a receipt is a success, whatever its status.
ReceiptAny(t) ==
    /\ IsConfirming(t)
    /\ attempts[mint[t].tx].status # "pending"
    /\ mint' = [mint EXCEPT ![t].step = "done", ![t].receipt = "success"]
    /\ UNCHANGED <<contractVars, profile, known, attest, attempts>>

\* The receipt of what was mined in the place of the transaction is a success, too.
Receipt(t) ==
    /\ IsConfirming(t)
    /\ attempts[mint[t].tx].status \in {"mined", "replaced"}
    /\ mint' = [mint EXCEPT ![t].step = "done", ![t].receipt = "success"]
    /\ UNCHANGED <<contractVars, profile, known, attest, attempts>>

\* A revert is an error of the query, and so is a network that cannot be asked.  The
\* component reads neither: the button is free again, whatever the transaction does.
ReceiptError(t) ==
    /\ IsConfirming(t)
    /\ mint' = [mint EXCEPT ![t].receipt = "error"]
    /\ attempts' = [attempts EXCEPT ![mint[t].tx].lost = @ \/ UnderWay(mint[t].tx)]
    /\ UNCHANGED <<contractVars, profile, known, attest>>

\* The query starts again: the window has the focus, or the network has changed.
Refetch(t) ==
    /\ mint[t].receipt = "error"
    /\ mint' = [mint EXCEPT ![t].receipt = "waiting"]
    /\ UNCHANGED <<contractVars, profile, known, attest, attempts>>

\* The buttons go, with the page or with what it shows, and come back as new ones.
\* A page takes its requests to the server with it, but neither leaves the wallet.
Leave(t) ==
    /\ mint[t] # Fresh \/ attest[t].status # "idle"
    /\ mint' = [mint EXCEPT ![t] = Fresh]
    /\ attest' = [attest EXCEPT ![t] = [status |-> "idle", signed |-> FALSE]]
    /\ \E reload \in BOOLEAN :
        attempts' = [i \in Attempt |->
            IF attempts[i].tab # t \/ ~UnderWay(i) THEN attempts[i]
            ELSE IF reload /\ attempts[i].status \in Authorizing
            THEN Ended(i, "failed")
            ELSE [attempts[i] EXCEPT !.lost = TRUE]]
    /\ UNCHANGED <<contractVars, profile, known>>

------------------------------------------------------------------------------
(* AttestButton and POST /api/attest                                       *)

\* Its button, on Sepolia, is enabled unless isBusy.
Attestable(t) == t \in Attesting /\ attest[t].status \notin {"signing", "pending"}

HandleAttest(t) ==
    /\ Attestable(t)
    /\ attest' = [attest EXCEPT ![t] = [status |-> "signing", signed |-> FALSE]]
    /\ UNCHANGED <<contractVars, profile, known, mint, attempts>>

\* NextResponse.json: JSON.stringify throws a TypeError on a bigint.
Serializable(payload) == \A field \in DOMAIN payload : payload[field] # "bigint"

\* The types of a DelegatedAttestationPayload's fields.
DelegatedAttestationPayload ==
    [easContractAddress |-> "string", schemaUID |-> "string", recipient |-> "string",
     encodedData |-> "string", signature |-> "object", attester |-> "string",
     deadline |-> "bigint"]

\* createDelegatedAttestation may have signed what was looked up: it needs a
\* profile, and can fail even so.
CreateDelegatedAttestation(t) == {FALSE, profile[AddressOf[t]] # NoProfile}

\* The profile is looked up, signed and sent; any failure, the last one included,
\* is an error response that the button shows.
AnswerAttest(t) ==
    /\ attest[t].status = "signing"
    /\ \E signed \in CreateDelegatedAttestation(t) :
        attest' = [attest EXCEPT ![t] =
            [status |-> IF signed /\ Serializable(DelegatedAttestationPayload)
                        THEN "pending" ELSE "error",
             signed |-> signed]]
    /\ UNCHANGED <<contractVars, profile, known, mint, attempts>>

------------------------------------------------------------------------------
(* What else happens                                                       *)

\* An analysis of the address on Sepolia is stored.
Analyze(u, data) ==
    /\ profile[u] # data
    /\ profile' = [profile EXCEPT ![u] = data]
    /\ known' = known \union {<<u, data>>}
    /\ UNCHANGED <<contractVars, mint, attest, attempts>>

\* The contract's own steps: the owner makes its own key the signer, or the server's
\* again; a holder burns.
RotateSigner(key) == key # signer /\ SetSigner(owner, key) /\ UNCHANGED flowVars
BurnToken(u) == Burn(u) /\ UNCHANGED flowVars
Advance == NextBlock /\ UNCHANGED flowVars

------------------------------------------------------------------------------
InitFlow ==
    /\ Init
    /\ profile = [u \in User |-> NoProfile]
    /\ known = {}
    /\ mint = [t \in Tab |-> Fresh]
    /\ attest = [t \in Tab |-> [status |-> "idle", signed |-> FALSE]]
    /\ attempts = [i \in Attempt |-> Unused]

NextFlow ==
    \/ \E t \in Tab :
        \/ Open(t) \/ Close(t) \/ Understand(t) \/ HandleConfirmMint(t)
        \/ Receipt(t) \/ ReceiptError(t) \/ Refetch(t) \/ Leave(t)
        \/ HandleAttest(t) \/ AnswerAttest(t)
    \/ \E i \in Attempt :
        \/ FetchCanonicalProfile(i) \/ CreateMintAuthorization(i)
        \/ \E u \in User, n \in Network : ApproveInWallet(i, u, n)
        \/ RejectInWallet(i) \/ ReplaceInWallet(i)
        \/ MineMint(i) \/ RevertMint(i) \/ MineElsewhere(i)
    \/ \E u \in User : BurnToken(u)
    \/ \E t \in Tab, data \in Result : Analyze(AddressOf[t], data)
    \/ \E key \in {ServerKey, Deployer} : RotateSigner(key)
    \/ Advance

\* Every fetch the services make ends, with an answer or a timeout.
SpecFlow ==
    InitFlow /\ [][NextFlow]_allVars
        /\ \A i \in Attempt : WF_allVars(FetchCanonicalProfile(i))
                              /\ WF_allVars(CreateMintAuthorization(i))
        /\ \A t \in Tab : WF_allVars(AnswerAttest(t))

------------------------------------------------------------------------------
\* Every variable has its type, and an attempt has at most one signature.
TypeOKFlow ==
    /\ profile \in [User -> Data \union {NoProfile}]
    /\ known \subseteq User \X Data
    /\ \A t \in Tab :
        /\ mint[t].step \in {"options", "confirm", "done"}
        /\ {mint[t].auth, mint[t].tx} \subseteq Attempt \union {None}
        /\ mint[t].receipt \in {"none", "waiting", "error", "success"}
        /\ attest[t].status \in {"idle", "signing", "pending", "error"}
    /\ \A i \in Attempt :
        /\ attempts[i].status \in {"unused"} \union Authorizing \union InWallet \union Over
        /\ attempts[i].tab \in Tab /\ attempts[i].from \in User
        /\ attempts[i].signed \subseteq Attestation
        /\ \A a, b \in attempts[i].signed : a = b

\* canonicalProfile.ts: what the contract stores as a score was, at some time, the
\* worker's own result for that wallet; nothing a browser shows gets there.
MintedIsCanonical ==
    \A e \in accepted : <<e.att.digest.to, e.att.digest.data>> \in known

\* MintButton.tsx: however often its dialog is closed and opened again, a tab has at
\* most one mint under way, of those that the button has not lost sight of.  It does so
\* when it goes, or when the query for the receipt fails: nothing then keeps the user
\* from paying for a second mint while the first is pending.
OneTransactionPerTab ==
    \A i, j \in Attempt :
        /\ UnderWay(i) /\ ~attempts[i].lost
        /\ UnderWay(j) /\ ~attempts[j].lost
        /\ attempts[i].tab = attempts[j].tab
        => i = j

\* The contract took a transaction, or a network without the contract did, or the wallet
\* replaced it.
Succeeded(i) ==
    \/ attempts[i].status = "replaced"
    \/ attempts[i].status = "mined" /\ attempts[i].net = OtherNetwork
    \/ attempts[i].status = "mined" /\ \E e \in accepted : e.att \in attempts[i].signed

\* MintButton.tsx: a tab says "Minted!" only if an authorization of its own was accepted,
\* or its wallet had left Sepolia before it sent the transaction, or replaced it.
DoneIsMinted ==
    \A t \in Tab :
        mint[t].step = "done" => \E i \in Attempt : attempts[i].tab = t /\ Succeeded(i)

\* Since the authorization was signed, something happened that makes it void, or it
\* was sent by a wallet that it is not for.
VoidedSince(i, att) ==
    LET a == attempts[i].from IN
    \/ a # att.digest.to
    \/ nonces[a] > att.digest.nonce
    \/ now > att.digest.deadline
    \/ tokens[a] # 0 /\ ~attempts[i].held
    \/ signer # ServerKey /\ attempts[i].ours

\* The authorization was void when it was signed: the service asks neither who the
\* signer is nor whether the wallet holds a token.
VoidWhenSigned(i) ==
    \/ tokens[attempts[i].from] # 0 /\ attempts[i].held
    \/ signer # ServerKey /\ ~attempts[i].ours

\* mintAuthorizationService.ts: the typed data match the contract.  A mint of a server's
\* authorization is refused only for what happened since it was signed, and otherwise
\* only to a wallet that held a token then, or under a signer other than the server's.
RevertHasCause ==
    [][\A i \in Attempt :
        attempts[i].status = "pending" /\ attempts'[i].status = "reverted" =>
            \A att \in attempts[i].signed : VoidedSince(i, att) \/ VoidWhenSigned(i)]_allVars

\* Neither button waits for its server forever, whatever fails there.
ButtonsSettle ==
    \A t \in Tab :
        /\ IsAuthorizing(t) ~> ~IsAuthorizing(t)
        /\ (attest[t].status = "signing") ~> (attest[t].status # "signing")

\* app/api/attest/route.ts: an attestation the server signed is its response.
AttestationDelivered ==
    \A t \in Tab : attest[t].signed => attest[t].status # "error"
==============================================================================
