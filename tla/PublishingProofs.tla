--------------------------- MODULE PublishingProofs ---------------------------
(***************************************************************************)
(* Theorems about Publishing, for any number of tabs, users, profiles and  *)
(* clicks.  What the contract guarantees is taken from ProofOfDevProofs.   *)
(***************************************************************************)
EXTENDS Publishing, ProofOfDevProofs

USE ProofOfDevAssumption, PublishingAssumption

-----------------------------------------------------------------------------
(* The inductive invariant                                                 *)

Button == [step : {"options", "confirm", "done"}, understood : BOOLEAN,
           auth : Attempt \union {None}, tx : Attempt \union {None},
           receipt : {"none", "waiting", "error", "success"}]

Entry == [status : {"unused"} \union Authorizing \union InWallet \union Over,
          tab : Tab, payload : [data : Data \union {NoProfile}, deadline : Time],
          signed : SUBSET Attestation, from : User, net : Network,
          held : BOOLEAN, ours : BOOLEAN, lost : BOOLEAN]

AttestButton == [status : {"idle", "signing", "pending", "error"}, signed : BOOLEAN]

FlowTyped ==
  /\ profile \in [User -> Data \union {NoProfile}]
  /\ known \subseteq User \X Data
  /\ mint \in [Tab -> Button]
  /\ attest \in [Tab -> AttestButton]
  /\ attempts \in [Attempt -> Entry]

\* An attestation says of its wallet what some analysis said.
IsKnown(att) == <<att.digest.to, att.digest.data>> \in known

\* What the server reads, signs and hands out was stored by an analysis.
Sound(x) ==
  /\ x.status = "profiled" => <<AddressOf[x.tab], x.payload.data>> \in known
  /\ \A att \in x.signed : IsKnown(att)
  /\ \A att, other \in x.signed : att = other

Canonical ==
  /\ \A u \in User : profile[u] # NoProfile => <<u, profile[u]>> \in known
  /\ \A i \in Attempt : Sound(attempts[i])

\* The references of a button are to attempts of its own: one that it waits for the
\* server to answer, and one that has reached the wallet.
Sent == InWallet \union Over
OwnAttempts ==
  \A t \in Tab :
    /\ mint[t].auth # None =>
         LET x == attempts[mint[t].auth]
         IN  x.tab = t /\ x.status \in Authorizing /\ ~x.lost
    /\ mint[t].tx # None =>
         attempts[mint[t].tx].tab = t /\ attempts[mint[t].tx].status \in Sent
    /\ mint[t].receipt # "none" => mint[t].tx # None

\* An attempt that is under way and not lost is what its button is waiting for.
Active(x) == x.status \in Authorizing \union InWallet /\ ~x.lost
Waits(m, i, x) ==
  /\ x.status \in Authorizing => m.auth = i
  /\ x.status \in InWallet => m.tx = i
  /\ x.status = "pending" => m.receipt = "waiting"
Waited == \A i \in Attempt : Active(attempts[i]) => Waits(mint[attempts[i].tab], i, attempts[i])

\* What was mined on Sepolia was accepted.
MinedIsAccepted ==
  \A i \in Attempt :
    attempts[i].status = "mined" /\ attempts[i].net = HomeChain
      => \E e \in accepted : e.att \in attempts[i].signed

FlowInv ==
  /\ TypeOK /\ FlowTyped
  /\ Canonical /\ MintedIsCanonical
  /\ OwnAttempts /\ Waited /\ OneTransactionPerTab
  /\ MinedIsAccepted /\ DoneIsMinted

-----------------------------------------------------------------------------
LEMMA NetworksTyped == HomeChain \in Network /\ OtherNetwork \in Network /\ 0 \in Time
  BY DEF Network, Time

LEMMA NoneIsNone == None \notin Attempt
  BY DEF None, Attempt

LEMMA ClickTyped ==
  ASSUME NEW t \in Tab, NEW status \in {"unused", "fetching"} \union Over
  PROVE  LET c == Click(t, status)
         IN  c \in Entry /\ c.status = status /\ c.tab = t /\ c.signed = {} /\ ~c.lost
  BY NetworksTyped DEF Click, Entry, NoPayload, Authorizing, InWallet, Over

LEMMA EndedTyped ==
  ASSUME FlowTyped, NEW i \in Attempt, NEW status \in Over
  PROVE  /\ Ended(i, status) \in Entry
         /\ Ended(i, status).status = status /\ Ended(i, status).tab = attempts[i].tab
         /\ Ended(i, status).signed = attempts[i].signed /\ ~Ended(i, status).lost
         /\ Ended(i, status).net = attempts[i].net
<1>1. attempts[i] \in Entry
  BY DEF FlowTyped
<1>2. attempts[i].tab \in Tab /\ attempts[i].signed \subseteq Attestation /\ attempts[i].net \in Network
  BY <1>1 DEF Entry
<1> DEFINE c == Click(attempts[i].tab, status)
<1>3. c \in Entry /\ c.status = status /\ c.tab = attempts[i].tab /\ ~c.lost
  <2>1. status \in {"unused", "fetching"} \union Over
    OBVIOUS
  <2>2. QED
    BY ONLY <1>2, <2>1, ClickTyped
<1>4. Ended(i, status) = [c EXCEPT !.signed = attempts[i].signed, !.net = attempts[i].net]
  BY DEF Ended
<1> HIDE DEF c
<1>5. QED
  BY <1>2, <1>3, <1>4 DEF Entry

LEMMA FlowInit == InitFlow => FlowInv
<1> SUFFICES ASSUME InitFlow PROVE FlowInv
  OBVIOUS
<1>1. TypeOK
  BY InitType DEF InitFlow
<1>2. PICK t \in Tab : Unused = Click(t, "unused")
  BY DEF Unused
<1>3. \A i \in Attempt : /\ attempts[i] \in Entry /\ attempts[i].status = "unused"
                         /\ attempts[i].signed = {}
  BY <1>2, ClickTyped DEF InitFlow
<1>4. FlowTyped
  <2>1. Fresh \in Button
    BY DEF Fresh, Button
  <2>2. [status |-> "idle", signed |-> FALSE] \in AttestButton
    BY DEF AttestButton
  <2>3. attempts \in [Attempt -> Entry]
    BY <1>3 DEF InitFlow
  <2>4. QED
    BY <2>1, <2>2, <2>3 DEF InitFlow, FlowTyped
<1>5. Canonical /\ Waited /\ OneTransactionPerTab /\ MinedIsAccepted
  BY <1>3 DEF InitFlow, Canonical, Sound, Waited, Active, OneTransactionPerTab, UnderWay,
              MinedIsAccepted, Authorizing, InWallet
<1>6. OwnAttempts /\ DoneIsMinted /\ MintedIsCanonical
  BY DEF InitFlow, Init, OwnAttempts, DoneIsMinted, MintedIsCanonical, Fresh
<1>7. QED
  BY <1>1, <1>4, <1>5, <1>6 DEF FlowInv

\* OneTransactionPerTab in terms of Active.
LEMMA OneActive ==
  OneTransactionPerTab <=>
    \A i, j \in Attempt : Active(attempts[i]) /\ Active(attempts[j])
                          /\ attempts[i].tab = attempts[j].tab
                          => i = j
  BY DEF OneTransactionPerTab, UnderWay, Active

\* Every step of the composed system is one of the contract or leaves it alone.
LEMMA FlowStepIsContractStep ==
  ASSUME TypeOK, FlowTyped, [NextFlow]_allVars
  PROVE  [Next]_vars
<1>0. UNCHANGED contractVars => UNCHANGED vars
  BY DEF contractVars, tokenVars, authVars, adminVars, envVars, vars
<1>1. ASSUME NEW t \in Tab,
             \/ Open(t) \/ Close(t) \/ Understand(t) \/ HandleConfirmMint(t)
             \/ Receipt(t) \/ ReceiptError(t) \/ Refetch(t) \/ Leave(t)
             \/ HandleAttest(t) \/ AnswerAttest(t)
      PROVE  UNCHANGED contractVars
  BY <1>1 DEF Open, Close, Understand, HandleConfirmMint, Begin, Receipt, ReceiptError, Refetch,
              Leave, HandleAttest, AnswerAttest
<1>2. ASSUME NEW i \in Attempt,
             \/ FetchCanonicalProfile(i) \/ CreateMintAuthorization(i)
             \/ \E u \in User, n \in Network : ApproveInWallet(i, u, n)
             \/ RejectInWallet(i) \/ ReplaceInWallet(i) \/ RevertMint(i) \/ MineElsewhere(i)
      PROVE  UNCHANGED contractVars
  BY <1>2 DEF FetchCanonicalProfile, CreateMintAuthorization, ApproveInWallet, RejectInWallet,
              ReplaceInWallet, RevertMint, MineElsewhere
<1>3. ASSUME NEW i \in Attempt, MineMint(i) PROVE Next
  <2>1. PICK att \in attempts[i].signed : Mint(attempts[i].from, att)
    BY <1>3 DEF MineMint
  <2>2. attempts[i] \in Entry
    BY DEF FlowTyped
  <2>3. attempts[i].from \in User /\ att \in Attestation
    BY <2>2 DEF Entry
  <2>4. QED
    BY <2>1, <2>3 DEF Next
<1>4. ASSUME NEW u \in User, BurnToken(u) PROVE Next
  BY <1>4 DEF BurnToken, Next
<1>5. ASSUME NEW u \in User, NEW data \in Result, Analyze(u, data) PROVE UNCHANGED contractVars
  BY <1>5 DEF Analyze
<1>6. ASSUME NEW key \in {ServerKey, Deployer}, RotateSigner(key) PROVE Next
  BY <1>6 DEF RotateSigner, Next, TypeOK
<1>7. ASSUME Advance PROVE Next
  BY <1>7 DEF Advance, Next
<1>8. UNCHANGED allVars => UNCHANGED contractVars
  BY DEF allVars
<1>9. QED
  BY <1>0, <1>1, <1>2, <1>3, <1>4, <1>5, <1>6, <1>7, <1>8 DEF NextFlow

-----------------------------------------------------------------------------
(* The shapes of steps                                                     *)

\* Nothing of the buttons, the attempts and the history changes.
LEMMA Around ==
  ASSUME FlowInv, TypeOK', attest' \in [Tab -> AttestButton],
         UNCHANGED <<profile, known, mint, attempts, accepted>>
  PROVE  FlowInv'
<1>1. FlowTyped'
  BY DEF FlowInv, FlowTyped
<1>2. Canonical' /\ MintedIsCanonical'
  BY DEF FlowInv, Canonical, Sound, MintedIsCanonical, IsKnown
<1>3. OwnAttempts' /\ Waited' /\ OneTransactionPerTab'
  BY DEF FlowInv, OwnAttempts, Waited, Active, Waits, OneTransactionPerTab, UnderWay
<1>4. MinedIsAccepted' /\ DoneIsMinted'
  BY DEF FlowInv, MinedIsAccepted, DoneIsMinted, Succeeded
<1>5. QED
  BY <1>1, <1>2, <1>3, <1>4 DEF FlowInv

\* The contract is left alone.
LEMMA ContractRests ==
  ASSUME FlowInv, UNCHANGED contractVars
  PROVE  TypeOK' /\ accepted' = accepted
  BY DEF FlowInv, TypeOK, contractVars, tokenVars, authVars, adminVars, envVars

\* A button moves, and keeps its references; no attempt does.
LEMMA ButtonMoves ==
  ASSUME FlowInv, NEW t \in Tab, NEW m \in Button, mint' = [mint EXCEPT ![t] = m],
         m.auth = mint[t].auth, m.tx = mint[t].tx,
         m.receipt # "none" => m.tx # None,
         mint[t].receipt = "waiting" =>
           m.receipt = "waiting" \/ attempts[m.tx].status # "pending",
         m.step = "done" =>
           mint[t].step = "done" \/ \E i \in Attempt : attempts[i].tab = t /\ Succeeded(i),
         UNCHANGED <<contractVars, profile, known, attest, attempts>>
  PROVE  FlowInv'
<1>0. /\ mint \in [Tab -> Button] /\ mint'[t] = m
      /\ \A s \in Tab : s # t => mint'[s] = mint[s]
      /\ \A i \in Attempt : attempts[i] \in Entry /\ attempts[i].tab \in Tab
  BY DEF FlowInv, FlowTyped, Entry
<1>1. TypeOK' /\ accepted' = accepted
  BY ContractRests
<1>2. FlowTyped'
  BY <1>0 DEF FlowInv, FlowTyped
<1>3. Canonical' /\ MintedIsCanonical' /\ OneTransactionPerTab' /\ MinedIsAccepted'
  BY <1>1 DEF FlowInv, Canonical, Sound, MintedIsCanonical, IsKnown, OneTransactionPerTab,
              UnderWay, MinedIsAccepted
<1>4. OwnAttempts'
  BY <1>0 DEF FlowInv, OwnAttempts
<1>5. Waited'
  <2> SUFFICES ASSUME NEW i \in Attempt, Active(attempts[i])
               PROVE  Waits(mint'[attempts[i].tab], i, attempts[i])
    BY DEF Waited, Active, Waits
  <2>1. Waits(mint[attempts[i].tab], i, attempts[i])
    BY DEF FlowInv, Waited
  <2>2. QED
    BY <1>0, <2>1 DEF Waits, InWallet
<1>6. DoneIsMinted'
  BY <1>0, <1>1 DEF FlowInv, DoneIsMinted, Succeeded
<1>7. QED
  BY <1>1, <1>2, <1>3, <1>4, <1>5, <1>6 DEF FlowInv

\* An attempt moves, and its button with it.
LEMMA AttemptMoves ==
  ASSUME FlowInv, TypeOK', NEW i \in Attempt, NEW x \in Entry, NEW m \in Button,
         attempts' = [attempts EXCEPT ![i] = x], mint' = [mint EXCEPT ![x.tab] = m],
         x.tab = attempts[i].tab, x.status # "unused",
         attempts[i].status \in Over => x = attempts[i],
         Sound(x), Active(x) => Active(attempts[i]) /\ Waits(m, i, x),
         m.step = mint[x.tab].step,
         m.auth = mint[x.tab].auth \/ (m.auth = None /\ mint[x.tab].auth = i),
         m.auth = i => x.status \in Authorizing /\ ~x.lost,
         m.tx = i \/ m.tx = mint[x.tab].tx, m.tx = i => x.status \in Sent,
         m.receipt # "none" => m.tx # None,
         \/ Active(attempts[i])
         \/ m.tx = mint[x.tab].tx /\ (m.receipt = mint[x.tab].receipt \/ mint[x.tab].tx = i),
         accepted \subseteq accepted', \A e \in accepted' \ accepted : IsKnown(e.att),
         x.status = "mined" /\ x.net = HomeChain => \E e \in accepted' : e.att \in x.signed,
         UNCHANGED <<profile, known, attest>>
  PROVE  FlowInv'
<1> DEFINE t == x.tab
<1>0. /\ mint \in [Tab -> Button] /\ attempts \in [Attempt -> Entry]
      /\ t \in Tab /\ \A j \in Attempt : attempts[j] \in Entry /\ attempts[j].tab \in Tab
  BY DEF FlowInv, FlowTyped, Entry
<1>1. /\ mint'[t] = m /\ \A s \in Tab : s # t => mint'[s] = mint[s]
      /\ attempts'[i] = x /\ \A j \in Attempt : j # i => attempts'[j] = attempts[j]
  BY <1>0
<1>2. FlowTyped'
  <2>1. attempts' \in [Attempt -> Entry] /\ mint' \in [Tab -> Button]
    BY <1>0
  <2>2. QED
    BY <2>1 DEF FlowInv, FlowTyped
<1>3. Canonical'
  <2>1. \A j \in Attempt : Sound(attempts'[j])
    BY <1>1 DEF FlowInv, Canonical
  <2>2. UNCHANGED <<profile, known>> /\ Canonical
    BY DEF FlowInv
  <2>3. QED
    BY ONLY <2>1, <2>2 DEF Canonical, Sound, IsKnown
<1>4. MintedIsCanonical'
  BY DEF FlowInv, MintedIsCanonical, IsKnown
<1>5. OwnAttempts'
  <2> SUFFICES ASSUME NEW s \in Tab
               PROVE  /\ mint'[s].auth # None =>
                           /\ attempts'[mint'[s].auth].tab = s
                           /\ attempts'[mint'[s].auth].status \in Authorizing
                           /\ ~attempts'[mint'[s].auth].lost
                      /\ mint'[s].tx # None => /\ attempts'[mint'[s].tx].tab = s
                                               /\ attempts'[mint'[s].tx].status \in Sent
                      /\ mint'[s].receipt # "none" => mint'[s].tx # None
    BY DEF OwnAttempts
  <2>1. /\ mint[s].auth # None =>
             /\ attempts[mint[s].auth].tab = s
             /\ attempts[mint[s].auth].status \in Authorizing
             /\ ~attempts[mint[s].auth].lost
        /\ mint[s].tx # None => /\ attempts[mint[s].tx].tab = s
                                /\ attempts[mint[s].tx].status \in Sent
        /\ mint[s].receipt # "none" => mint[s].tx # None
    BY DEF FlowInv, OwnAttempts
  <2>2. /\ mint[s].auth # None => mint[s].auth \in Attempt
        /\ mint[s].tx # None => mint[s].tx \in Attempt
    BY <1>0 DEF Button
  <2>3. CASE s = t
    <3>1. mint'[s].auth # None => mint'[s].auth = mint[s].auth
      BY <1>1, <2>3
    <3>2. mint'[s].tx # None => mint'[s].tx = i \/ mint'[s].tx = mint[s].tx
      BY <1>1, <2>3
    <3>3. mint'[s].auth = i => x.status \in Authorizing /\ ~x.lost
      BY <1>1, <2>3
    <3>4. mint'[s].tx = i => x.status \in Sent
      BY <1>1, <2>3
    <3>5. mint'[s].receipt # "none" => mint'[s].tx # None
      BY <1>1, <2>3
    <3>6. QED
      BY <1>1, <2>1, <2>2, <2>3, <3>1, <3>2, <3>3, <3>4, <3>5
  <2>4. CASE s # t
    <3>1. mint'[s] = mint[s]
      BY <1>1, <2>4
    <3>2. mint[s].auth # i /\ mint[s].tx # i
      BY <2>1, <2>4, NoneIsNone
    <3>3. QED
      BY <1>1, <2>1, <2>2, <3>1, <3>2
  <2>5. QED
    BY <2>3, <2>4
<1>6. \A j \in Attempt : Active(attempts'[j]) => Active(attempts[j]) /\ attempts'[j].tab = attempts[j].tab
  BY <1>1
<1>7. \A j, k \in Attempt : Active(attempts[j]) /\ Active(attempts[k])
                            /\ attempts[j].tab = attempts[k].tab
                            => j = k
  BY OneActive DEF FlowInv
<1>8. OneTransactionPerTab'
  BY <1>6, <1>7 DEF OneTransactionPerTab, UnderWay, Active
<1>9. Waited'
  <2> SUFFICES ASSUME NEW j \in Attempt, Active(attempts'[j])
               PROVE  Waits(mint'[attempts'[j].tab], j, attempts'[j])
    BY DEF Waited, Active, Waits
  <2>1. CASE j = i
    BY <1>1, <2>1
  <2>2. CASE j # i
    <3>1. attempts'[j] = attempts[j] /\ Waits(mint[attempts[j].tab], j, attempts[j])
      BY <1>1, <2>2 DEF FlowInv, Waited
    <3>2. CASE attempts[j].tab # t
      BY <1>0, <1>1, <3>1, <3>2
    <3>3. CASE attempts[j].tab = t
      <4>1. ~Active(attempts[i])
        BY <1>7, <2>2, <3>1, <3>3
      <4>2. m.tx = mint[t].tx /\ (m.receipt = mint[t].receipt \/ mint[t].tx = i)
        BY <4>1
      <4>3. m.auth = mint[t].auth \/ mint[t].auth = i
        OBVIOUS
      <4>4. Waits(m, j, attempts[j])
        BY <2>2, <3>1, <3>3, <4>2, <4>3 DEF Waits, Authorizing, InWallet
      <4>5. QED
        BY <1>1, <3>1, <3>3, <4>4
    <3>4. QED
      BY <3>2, <3>3
  <2>3. QED
    BY <2>1, <2>2
<1>10. MinedIsAccepted'
  <2> SUFFICES ASSUME NEW j \in Attempt, attempts'[j].status = "mined", attempts'[j].net = HomeChain
               PROVE  \E e \in accepted' : e.att \in attempts'[j].signed
    BY DEF MinedIsAccepted
  <2>1. CASE j = i
    BY <1>1, <2>1
  <2>2. CASE j # i
    BY <1>1, <2>2 DEF FlowInv, MinedIsAccepted
  <2>3. QED
    BY <2>1, <2>2
<1>11. DoneIsMinted'
  <2>1. \A j \in Attempt : Succeeded(j) => attempts'[j] = attempts[j] /\ Succeeded(j)'
    <3> SUFFICES ASSUME NEW j \in Attempt, Succeeded(j)
                 PROVE  attempts'[j] = attempts[j] /\ Succeeded(j)'
      OBVIOUS
    <3>1. attempts[j].status \in Over
      BY DEF Succeeded, Over
    <3>2. attempts'[j] = attempts[j]
      BY <1>1, <3>1
    <3>3. QED
      BY <3>2 DEF Succeeded
  <2>2. \A s \in Tab : mint'[s].step = mint[s].step
    BY <1>1
  <2>3. QED
    BY <2>1, <2>2 DEF FlowInv, DoneIsMinted
<1>12. QED
  BY <1>2, <1>3, <1>4, <1>5, <1>8, <1>9, <1>10, <1>11 DEF FlowInv

\* A click starts an attempt, and there was none that the button waited for.
LEMMA Begins ==
  ASSUME FlowInv, NEW t \in Tab, HandleConfirmMint(t)
  PROVE  FlowInv'
<1>0. PICK i \in Attempt :
        /\ attempts[i].status = "unused"
        /\ attempts' = [attempts EXCEPT ![i] = Click(t, "fetching")]
        /\ mint' = [mint EXCEPT ![t].auth = i]
        /\ UNCHANGED <<contractVars, profile, known, attest>>
  BY DEF HandleConfirmMint, Begin
<1>1. /\ mint \in [Tab -> Button] /\ attempts \in [Attempt -> Entry]
      /\ mint[t] \in Button /\ \A j \in Attempt : attempts[j] \in Entry /\ attempts[j].tab \in Tab
  BY DEF FlowInv, FlowTyped, Entry
<1>2. PICK x \in Entry : /\ x.status = "fetching" /\ x.tab = t /\ x.signed = {} /\ ~x.lost
                         /\ attempts' = [attempts EXCEPT ![i] = x]
  <2>1. "fetching" \in {"unused", "fetching"} \union Over
    OBVIOUS
  <2>2. DEFINE x == Click(t, "fetching")
  <2>3. x \in Entry /\ x.status = "fetching" /\ x.tab = t /\ x.signed = {} /\ ~x.lost
    BY ONLY <2>1, t \in Tab, ClickTyped
  <2>4. attempts' = [attempts EXCEPT ![i] = x]
    BY <1>0
  <2>5. QED
    BY ONLY <2>3, <2>4
<1>3. PICK m \in Button : /\ m.auth = i /\ m.tx = mint[t].tx /\ m.receipt = mint[t].receipt
                          /\ m.step = mint[t].step /\ mint' = [mint EXCEPT ![t] = m]
  <2> DEFINE m == [mint[t] EXCEPT !.auth = i]
  <2>1. m \in Button /\ m.auth = i /\ m.tx = mint[t].tx /\ m.receipt = mint[t].receipt
        /\ m.step = mint[t].step
    BY <1>1 DEF Button
  <2>2. mint' = [mint EXCEPT ![t] = m]
    BY <1>0, <1>1
  <2>3. QED
    BY <2>1, <2>2
<1>4. /\ mint'[t] = m /\ \A s \in Tab : s # t => mint'[s] = mint[s]
      /\ attempts'[i] = x /\ \A j \in Attempt : j # i => attempts'[j] = attempts[j]
  BY <1>1, <1>2, <1>3
<1>5. mint[t].auth = None /\ ~IsWritePending(t) /\ ~IsConfirming(t)
  BY DEF HandleConfirmMint, IsAuthorizing
<1>6. \A j \in Attempt : ~(Active(attempts[j]) /\ attempts[j].tab = t)
  <2> SUFFICES ASSUME NEW j \in Attempt, Active(attempts[j]), attempts[j].tab = t PROVE FALSE
    OBVIOUS
  <2>1. Waits(mint[t], j, attempts[j])
    BY DEF FlowInv, Waited
  <2>2. j # None
    BY NoneIsNone
  <2>3. attempts[j].status \notin Authorizing
    BY <1>5, <2>1, <2>2 DEF Waits
  <2>4. attempts[j].status \in InWallet
    BY <2>3 DEF Active
  <2>5. mint[t].tx = j
    BY <2>1, <2>4 DEF Waits
  <2>6. attempts[j].status = "asked" \/ mint[t].receipt = "waiting"
    BY <2>1, <2>4 DEF Waits, InWallet
  <2>7. QED
    BY <1>5, <2>2, <2>5, <2>6 DEF IsWritePending, IsConfirming
<1>7. TypeOK' /\ accepted' = accepted
  BY <1>0, ContractRests
<1>8. FlowTyped'
  <2>1. attempts' \in [Attempt -> Entry] /\ mint' \in [Tab -> Button]
    BY <1>1, <1>2, <1>3
  <2>2. QED
    BY <1>0, <2>1 DEF FlowInv, FlowTyped
<1>9. Canonical' /\ MintedIsCanonical'
  <2>1. Sound(x)
    BY <1>2 DEF Sound
  <2>2. \A j \in Attempt : Sound(attempts'[j])
    BY <1>4, <2>1 DEF FlowInv, Canonical
  <2>3. QED
    BY <1>0, <1>7, <2>2 DEF FlowInv, Canonical, Sound, MintedIsCanonical, IsKnown
<1>10. OwnAttempts'
  <2> SUFFICES ASSUME NEW s \in Tab
               PROVE  /\ mint'[s].auth # None =>
                           /\ attempts'[mint'[s].auth].tab = s
                           /\ attempts'[mint'[s].auth].status \in Authorizing
                           /\ ~attempts'[mint'[s].auth].lost
                      /\ mint'[s].tx # None => /\ attempts'[mint'[s].tx].tab = s
                                               /\ attempts'[mint'[s].tx].status \in Sent
                      /\ mint'[s].receipt # "none" => mint'[s].tx # None
    BY DEF OwnAttempts
  <2>1. /\ mint[s].auth # None =>
             /\ attempts[mint[s].auth].tab = s
             /\ attempts[mint[s].auth].status \in Authorizing
             /\ ~attempts[mint[s].auth].lost
        /\ mint[s].tx # None => /\ attempts[mint[s].tx].tab = s
                                /\ attempts[mint[s].tx].status \in Sent
        /\ mint[s].receipt # "none" => mint[s].tx # None
    BY DEF FlowInv, OwnAttempts
  <2>2. /\ mint[s].auth # None => mint[s].auth \in Attempt /\ mint[s].auth # i
        /\ mint[s].tx # None => mint[s].tx \in Attempt /\ mint[s].tx # i
    BY <1>0, <1>1, <2>1 DEF Button, Authorizing, Sent, InWallet, Over
  <2>3. x.status \in Authorizing
    BY <1>2 DEF Authorizing
  <2>4. CASE s = t
    BY <1>2, <1>3, <1>4, <2>1, <2>2, <2>3, <2>4
  <2>5. CASE s # t
    BY <1>4, <2>1, <2>2, <2>5
  <2>6. QED
    BY <2>4, <2>5
<1>11. Waited'
  <2> SUFFICES ASSUME NEW j \in Attempt, Active(attempts'[j])
               PROVE  Waits(mint'[attempts'[j].tab], j, attempts'[j])
    BY DEF Waited, Active, Waits
  <2>1. CASE j = i
    BY <1>2, <1>3, <1>4, <2>1 DEF Waits, InWallet
  <2>2. CASE j # i
    <3>1. attempts'[j] = attempts[j] /\ attempts[j].tab # t
      BY <1>4, <1>6, <2>2
    <3>2. QED
      BY <1>1, <1>4, <3>1 DEF FlowInv, Waited
  <2>3. QED
    BY <2>1, <2>2
<1>12. OneTransactionPerTab'
  <2>1. \A j, k \in Attempt : Active(attempts[j]) /\ Active(attempts[k])
                              /\ attempts[j].tab = attempts[k].tab
                              => j = k
    BY OneActive DEF FlowInv
  <2>2. \A j, k \in Attempt : Active(attempts'[j]) /\ Active(attempts'[k])
                              /\ attempts'[j].tab = attempts'[k].tab
                              => j = k
    BY <1>2, <1>4, <1>6, <2>1
  <2>3. QED
    BY <2>2 DEF OneTransactionPerTab, UnderWay, Active
<1>13. MinedIsAccepted'
  <2>1. x.status # "mined"
    BY <1>2
  <2>2. QED
    BY <1>4, <1>7, <2>1 DEF FlowInv, MinedIsAccepted
<1>14. DoneIsMinted'
  <2>1. \A j \in Attempt : Succeeded(j) => j # i
    BY <1>0 DEF Succeeded
  <2>2. \A j \in Attempt : Succeeded(j) => attempts'[j] = attempts[j] /\ Succeeded(j)'
    BY <1>4, <1>7, <2>1 DEF Succeeded
  <2>3. \A s \in Tab : mint'[s].step = mint[s].step
    BY <1>3, <1>4
  <2>4. QED
    BY <2>2, <2>3 DEF FlowInv, DoneIsMinted
<1>15. QED
  BY <1>7, <1>8, <1>9, <1>10, <1>11, <1>12, <1>13, <1>14 DEF FlowInv

\* The buttons of a tab go, and all that is under way there is lost.
LEMMA Leaves ==
  ASSUME FlowInv, NEW t \in Tab, Leave(t)
  PROVE  FlowInv'
<1>0. /\ mint \in [Tab -> Button] /\ attempts \in [Attempt -> Entry]
      /\ \A j \in Attempt : attempts[j] \in Entry /\ attempts[j].tab \in Tab
      /\ FlowTyped
  BY DEF FlowInv, FlowTyped, Entry
<1>1. PICK reload \in BOOLEAN :
        attempts' = [i \in Attempt |->
            IF attempts[i].tab # t \/ ~UnderWay(i) THEN attempts[i]
            ELSE IF reload /\ attempts[i].status \in Authorizing
            THEN Ended(i, "failed")
            ELSE [attempts[i] EXCEPT !.lost = TRUE]]
  BY DEF Leave
<1>2. /\ mint' = [mint EXCEPT ![t] = Fresh]
      /\ attest' = [attest EXCEPT ![t] = [status |-> "idle", signed |-> FALSE]]
      /\ UNCHANGED <<contractVars, profile, known>>
  BY DEF Leave
<1>3. /\ Fresh \in Button /\ Fresh.auth = None /\ Fresh.tx = None
      /\ Fresh.receipt = "none" /\ Fresh.step = "options"
  BY DEF Fresh, Button
<1>4. mint'[t] = Fresh /\ \A s \in Tab : s # t => mint'[s] = mint[s]
  BY <1>0, <1>2
<1>5. \A i \in Attempt :
        /\ attempts'[i] \in Entry /\ attempts'[i].tab = attempts[i].tab
        /\ attempts'[i].signed = attempts[i].signed
        /\ attempts'[i] = attempts[i]
             \/ /\ attempts[i].tab = t /\ UnderWay(i) /\ ~Active(attempts'[i])
                /\ \/ attempts'[i].status = "failed"
                   \/ /\ attempts'[i].status = attempts[i].status
                      /\ attempts'[i].payload = attempts[i].payload
  <2> SUFFICES ASSUME NEW i \in Attempt
               PROVE  /\ attempts'[i] \in Entry /\ attempts'[i].tab = attempts[i].tab
                      /\ attempts'[i].signed = attempts[i].signed
                      /\ attempts'[i] = attempts[i]
                           \/ /\ attempts[i].tab = t /\ UnderWay(i) /\ ~Active(attempts'[i])
                              /\ \/ attempts'[i].status = "failed"
                                 \/ /\ attempts'[i].status = attempts[i].status
                                    /\ attempts'[i].payload = attempts[i].payload
    OBVIOUS
  <2>1. CASE attempts[i].tab # t \/ ~UnderWay(i)
    BY <1>0, <1>1, <2>1
  <2>2. CASE /\ attempts[i].tab = t /\ UnderWay(i)
             /\ reload /\ attempts[i].status \in Authorizing
    <3>1. attempts'[i] = Ended(i, "failed")
      BY <1>1, <2>2
    <3>2. "failed" \in Over /\ "failed" \notin Authorizing \union InWallet
      BY DEF Over, Authorizing, InWallet
    <3>3. QED
      BY <1>0, <2>2, <3>1, <3>2, EndedTyped DEF Active
  <2>3. CASE /\ attempts[i].tab = t /\ UnderWay(i)
             /\ ~(reload /\ attempts[i].status \in Authorizing)
    <3>1. attempts'[i] = [attempts[i] EXCEPT !.lost = TRUE]
      BY <1>1, <2>3
    <3>2. attempts[i] \in Entry
      BY <1>0
    <3>3. /\ attempts'[i] \in Entry /\ attempts'[i].lost
          /\ attempts'[i].tab = attempts[i].tab /\ attempts'[i].signed = attempts[i].signed
          /\ attempts'[i].status = attempts[i].status
          /\ attempts'[i].payload = attempts[i].payload
      BY <3>1, <3>2 DEF Entry
    <3>4. QED
      BY <2>3, <3>3 DEF Active
  <2>4. QED
    BY <2>1, <2>2, <2>3
<1>6. TypeOK' /\ accepted' = accepted
  BY <1>2, ContractRests
<1>7. FlowTyped'
  <2>1. attempts' \in [Attempt -> Entry]
    BY <1>1, <1>5
  <2>2. mint' \in [Tab -> Button] /\ attest' \in [Tab -> AttestButton]
    BY <1>0, <1>2, <1>3 DEF FlowTyped, AttestButton
  <2>3. QED
    BY <1>2, <2>1, <2>2 DEF FlowInv, FlowTyped
<1>8. Canonical' /\ MintedIsCanonical'
  <2>1. \A i \in Attempt : Sound(attempts[i])
    BY DEF FlowInv, Canonical
  <2>2. \A i \in Attempt : Sound(attempts'[i])
    BY <1>5, <2>1 DEF Sound
  <2>3. QED
    BY <1>2, <1>6, <2>2 DEF FlowInv, Canonical, Sound, MintedIsCanonical, IsKnown
<1>9. \A i \in Attempt : Active(attempts'[i]) => attempts'[i] = attempts[i] /\ attempts[i].tab # t
  <2> SUFFICES ASSUME NEW i \in Attempt, Active(attempts'[i])
               PROVE  attempts'[i] = attempts[i] /\ attempts[i].tab # t
    OBVIOUS
  <2>1. attempts'[i] = attempts[i]
    BY <1>5
  <2>2. UnderWay(i) /\ ~attempts[i].lost
    BY <2>1 DEF Active, UnderWay
  <2>3. ASSUME attempts[i].tab = t PROVE FALSE
    <3>1. \/ attempts'[i] = Ended(i, "failed")
          \/ attempts'[i] = [attempts[i] EXCEPT !.lost = TRUE]
      BY <1>1, <2>2, <2>3
    <3>2. attempts'[i] # Ended(i, "failed")
      <4>1. "failed" \in Over /\ "failed" \notin Authorizing \union InWallet
        BY DEF Over, Authorizing, InWallet
      <4>2. QED
        BY <1>0, <4>1, EndedTyped DEF Active
    <3>3. attempts[i] \in Entry
      BY <1>0
    <3>4. [attempts[i] EXCEPT !.lost = TRUE].lost
      BY <3>3 DEF Entry
    <3>5. QED
      BY <2>1, <2>2, <3>1, <3>2, <3>4
  <2>4. QED
    BY <2>1, <2>3
<1>10. OwnAttempts'
  <2> SUFFICES ASSUME NEW s \in Tab
               PROVE  /\ mint'[s].auth # None =>
                           /\ attempts'[mint'[s].auth].tab = s
                           /\ attempts'[mint'[s].auth].status \in Authorizing
                           /\ ~attempts'[mint'[s].auth].lost
                      /\ mint'[s].tx # None => /\ attempts'[mint'[s].tx].tab = s
                                               /\ attempts'[mint'[s].tx].status \in Sent
                      /\ mint'[s].receipt # "none" => mint'[s].tx # None
    BY DEF OwnAttempts
  <2>1. CASE s = t
    BY <1>3, <1>4, <2>1
  <2>2. CASE s # t
    <3>1. mint'[s] = mint[s]
      BY <1>4, <2>2
    <3>2. /\ mint[s].auth # None =>
               /\ attempts[mint[s].auth].tab = s
               /\ attempts[mint[s].auth].status \in Authorizing
               /\ ~attempts[mint[s].auth].lost
          /\ mint[s].tx # None => /\ attempts[mint[s].tx].tab = s
                                  /\ attempts[mint[s].tx].status \in Sent
          /\ mint[s].receipt # "none" => mint[s].tx # None
      BY DEF FlowInv, OwnAttempts
    <3>3. /\ mint[s].auth # None => mint[s].auth \in Attempt
          /\ mint[s].tx # None => mint[s].tx \in Attempt
      BY <1>0 DEF Button
    <3>4. \A i \in Attempt : attempts[i].tab = s => attempts'[i] = attempts[i]
      BY <1>5, <2>2
    <3>5. QED
      BY <3>1, <3>2, <3>3, <3>4
  <2>3. QED
    BY <2>1, <2>2
<1>11. Waited'
  <2> SUFFICES ASSUME NEW i \in Attempt, Active(attempts'[i])
               PROVE  Waits(mint'[attempts'[i].tab], i, attempts'[i])
    BY DEF Waited, Active, Waits
  <2>1. QED
    BY <1>0, <1>4, <1>9 DEF FlowInv, Waited
<1>12. OneTransactionPerTab'
  <2>1. \A i, j \in Attempt : Active(attempts[i]) /\ Active(attempts[j])
                              /\ attempts[i].tab = attempts[j].tab
                              => i = j
    BY OneActive DEF FlowInv
  <2>2. \A i, j \in Attempt : Active(attempts'[i]) /\ Active(attempts'[j])
                              /\ attempts'[i].tab = attempts'[j].tab
                              => i = j
    BY <1>9, <2>1
  <2>3. QED
    BY <2>2 DEF OneTransactionPerTab, UnderWay, Active
<1>13. \A i \in Attempt : attempts'[i].status = "mined" \/ Succeeded(i) => attempts'[i] = attempts[i]
  <2> SUFFICES ASSUME NEW i \in Attempt, attempts'[i] # attempts[i]
               PROVE  attempts'[i].status # "mined" /\ ~Succeeded(i)
    OBVIOUS
  <2>1. attempts[i].status \in {"fetching", "profiled", "asked", "pending"}
    BY <1>5 DEF UnderWay, Authorizing, InWallet
  <2>2. QED
    BY <1>5, <2>1 DEF Succeeded
<1>14. MinedIsAccepted'
  BY <1>6, <1>13 DEF FlowInv, MinedIsAccepted
<1>15. DoneIsMinted'
  <2>1. \A i \in Attempt : Succeeded(i) => attempts'[i] = attempts[i] /\ Succeeded(i)'
    BY <1>6, <1>13 DEF Succeeded
  <2>2. \A s \in Tab : mint'[s].step = "done" => mint[s].step = "done"
    BY <1>3, <1>4
  <2>3. QED
    BY <2>1, <2>2 DEF FlowInv, DoneIsMinted
<1>16. QED
  BY <1>6, <1>7, <1>8, <1>10, <1>11, <1>12, <1>14, <1>15 DEF FlowInv


\* The dialog, a receipt, and another query for it.
LEMMA ButtonSteps ==
  ASSUME FlowInv, NEW t \in Tab,
         Open(t) \/ Close(t) \/ Understand(t) \/ Receipt(t) \/ Refetch(t)
  PROVE  FlowInv'
<1>0. /\ mint \in [Tab -> Button] /\ mint[t] \in Button
      /\ mint[t].receipt # "none" => mint[t].tx # None
      /\ mint[t].tx # None => mint[t].tx \in Attempt /\ attempts[mint[t].tx].tab = t
  BY DEF FlowInv, FlowTyped, OwnAttempts, Button
<1>1. CASE Open(t)
  <2> DEFINE m == [mint[t] EXCEPT !.step = "confirm"]
  <2>1. /\ mint' = [mint EXCEPT ![t] = m]
        /\ UNCHANGED <<contractVars, profile, known, attest, attempts>>
    BY <1>0, <1>1 DEF Open
  <2>2. /\ m \in Button /\ m.step = "confirm"
        /\ m.auth = mint[t].auth /\ m.tx = mint[t].tx /\ m.receipt = mint[t].receipt
    BY <1>0 DEF Button
  <2> HIDE DEF m
  <2>3. QED
    BY <1>0, <2>1, <2>2, ButtonMoves
<1>2. CASE Close(t)
  <2> DEFINE m == [mint[t] EXCEPT !.step = "options", !.understood = FALSE]
  <2>1. /\ mint' = [mint EXCEPT ![t] = m]
        /\ UNCHANGED <<contractVars, profile, known, attest, attempts>>
    BY <1>0, <1>2 DEF Close
  <2>2. /\ m \in Button /\ m.step = "options"
        /\ m.auth = mint[t].auth /\ m.tx = mint[t].tx /\ m.receipt = mint[t].receipt
    BY <1>0 DEF Button
  <2> HIDE DEF m
  <2>3. QED
    BY <1>0, <2>1, <2>2, ButtonMoves
<1>3. CASE Understand(t)
  <2> DEFINE m == [mint[t] EXCEPT !.understood = ~@]
  <2>1. /\ mint' = [mint EXCEPT ![t] = m]
        /\ UNCHANGED <<contractVars, profile, known, attest, attempts>>
    BY <1>0, <1>3 DEF Understand
  <2>2. /\ m \in Button /\ m.step = mint[t].step
        /\ m.auth = mint[t].auth /\ m.tx = mint[t].tx /\ m.receipt = mint[t].receipt
    BY <1>0 DEF Button
  <2> HIDE DEF m
  <2>3. QED
    BY <1>0, <2>1, <2>2, ButtonMoves
<1>4. CASE Receipt(t)
  <2> DEFINE m == [mint[t] EXCEPT !.step = "done", !.receipt = "success"]
             i == mint[t].tx
  <2>1. /\ mint' = [mint EXCEPT ![t] = m]
        /\ UNCHANGED <<contractVars, profile, known, attest, attempts>>
        /\ mint[t].receipt = "waiting" /\ attempts[i].status \in {"mined", "replaced"}
    BY <1>0, <1>4 DEF Receipt, IsConfirming
  <2>2. /\ m \in Button /\ m.receipt = "success"
        /\ m.auth = mint[t].auth /\ m.tx = mint[t].tx
    BY <1>0 DEF Button
  <2>3. i \in Attempt /\ attempts[i].tab = t /\ i # None
    BY <1>0, <2>1
  <2>4. Succeeded(i)
    <3>1. attempts[i] \in Entry
      BY <2>3 DEF FlowInv, FlowTyped
    <3>2. attempts[i].net \in Network
      BY <3>1 DEF Entry
    <3>3. QED
      BY <2>1, <2>3, <3>2 DEF Succeeded, Network, FlowInv, MinedIsAccepted
  <2>5. attempts[m.tx].status # "pending"
    BY <2>1, <2>2
  <2> HIDE DEF m
  <2>6. QED
    BY <2>1, <2>2, <2>3, <2>4, <2>5, ButtonMoves
<1>5. CASE Refetch(t)
  <2> DEFINE m == [mint[t] EXCEPT !.receipt = "waiting"]
  <2>1. /\ mint' = [mint EXCEPT ![t] = m] /\ mint[t].receipt = "error"
        /\ UNCHANGED <<contractVars, profile, known, attest, attempts>>
    BY <1>0, <1>5 DEF Refetch
  <2>2. /\ m \in Button /\ m.step = mint[t].step /\ m.receipt = "waiting"
        /\ m.auth = mint[t].auth /\ m.tx = mint[t].tx
    BY <1>0 DEF Button
  <2> HIDE DEF m
  <2>3. QED
    BY <1>0, <2>1, <2>2, ButtonMoves
<1>6. QED
  BY <1>1, <1>2, <1>3, <1>4, <1>5

\* The query fails, and the button loses sight of the transaction.
LEMMA ReceiptErrors ==
  ASSUME FlowInv, NEW t \in Tab, ReceiptError(t)
  PROVE  FlowInv'
<1> DEFINE i == mint[t].tx
           x == [attempts[i] EXCEPT !.lost = @ \/ UnderWay(i)]
           m == [mint[t] EXCEPT !.receipt = "error"]
<1>1. /\ mint \in [Tab -> Button] /\ mint[t] \in Button
      /\ attempts \in [Attempt -> Entry] /\ mint[t].receipt = "waiting"
  BY DEF FlowInv, FlowTyped, ReceiptError, IsConfirming
<1>2. /\ i # None /\ attempts[i].tab = t /\ attempts[i].status \in Sent
  BY <1>1 DEF FlowInv, OwnAttempts
<1>3. i \in Attempt /\ attempts[i] \in Entry
  BY <1>1, <1>2 DEF Button
<1>4. /\ attempts' = [attempts EXCEPT ![i] = x]
      /\ UNCHANGED <<contractVars, profile, known, attest>>
  BY <1>1, <1>3 DEF ReceiptError
<1>5. /\ x \in Entry /\ x.tab = t /\ x.status = attempts[i].status /\ x.net = attempts[i].net
      /\ x.signed = attempts[i].signed /\ x.payload = attempts[i].payload
      /\ x.lost <=> attempts[i].lost \/ UnderWay(i)
  BY <1>2, <1>3 DEF Entry, UnderWay
<1>6. attempts[i].status \in Over => x = attempts[i]
  <2> SUFFICES ASSUME attempts[i].status \in Over PROVE x = attempts[i]
    OBVIOUS
  <2>1. ~UnderWay(i)
    BY DEF UnderWay, Over, Authorizing, InWallet
  <2>2. QED
    BY <1>3, <2>1 DEF Entry
<1>7. /\ mint' = [mint EXCEPT ![x.tab] = m]
      /\ m \in Button /\ m.step = mint[x.tab].step /\ m.auth = mint[x.tab].auth
      /\ m.tx = mint[x.tab].tx /\ m.tx = i /\ m.receipt = "error"
  BY <1>1, <1>5 DEF Button, ReceiptError
<1>8. ~Active(x)
  BY <1>5 DEF Active, UnderWay
<1>9. Sound(x)
  BY <1>3, <1>5 DEF FlowInv, Canonical, Sound, Sent, InWallet, Over
<1>10. m.auth # i
  BY <1>2, <1>7, <1>5 DEF FlowInv, OwnAttempts, Sent, Authorizing, InWallet, Over
<1>11. x.status \in Sent /\ x.status # "unused"
  BY <1>2, <1>5 DEF Sent, InWallet, Over
<1>12. x.status = "mined" /\ x.net = HomeChain => \E e \in accepted : e.att \in x.signed
  BY <1>3, <1>5 DEF FlowInv, MinedIsAccepted
<1>13. TypeOK' /\ accepted' = accepted
  BY <1>4, ContractRests
<1> HIDE DEF x, m
<1>14. QED
  BY <1>2, <1>3, <1>4, <1>5, <1>6, <1>7, <1>8, <1>9, <1>10, <1>11, <1>12, <1>13, AttemptMoves

\* The attempt that a server answers is not lost unless its button has let go of it.
LEMMA Authorized ==
  ASSUME FlowInv, NEW i \in Attempt, attempts[i].status \in Authorizing
  PROVE  LET t == attempts[i].tab
         IN  /\ t \in Tab /\ mint[t].tx # i
             /\ Active(attempts[i]) <=> mint[t].auth = i
             /\ \A s \in Tab : mint[s].auth = i => s = t
<1>1. attempts[i] \in Entry
  BY DEF FlowInv, FlowTyped
<1>2. attempts[i].tab \in Tab
  BY <1>1 DEF Entry
<1>3. i # None
  BY NoneIsNone
<1>4. \A s \in Tab : mint[s].auth = i => attempts[i].tab = s /\ ~attempts[i].lost
  BY <1>3 DEF FlowInv, OwnAttempts
<1>5. \A s \in Tab : mint[s].tx # i
  BY <1>3 DEF FlowInv, OwnAttempts, Sent, Authorizing, InWallet, Over
<1>6. Active(attempts[i]) => mint[attempts[i].tab].auth = i
  BY DEF FlowInv, Waited, Waits
<1>7. QED
  BY <1>2, <1>4, <1>5, <1>6 DEF Active

\* A request that fails.
LEMMA Fails ==
  ASSUME FlowInv, NEW i \in Attempt, attempts[i].status \in Authorizing, Fail(i),
         UNCHANGED <<contractVars, profile, known, attest>>
  PROVE  FlowInv'
<1> DEFINE t == attempts[i].tab
           x == Ended(i, "failed")
           m == IF mint[t].auth = i THEN [mint[t] EXCEPT !.auth = None] ELSE mint[t]
<1>1. /\ mint \in [Tab -> Button] /\ t \in Tab /\ mint[t] \in Button
      /\ \A s \in Tab : mint[s].auth = i => s = t
      /\ mint[t].receipt # "none" => mint[t].tx # None
      /\ mint[t].tx # i /\ i # None
  BY Authorized, NoneIsNone DEF FlowInv, FlowTyped, OwnAttempts
<1>2. /\ x \in Entry /\ x.tab = t /\ x.status = "failed"
      /\ x.signed = attempts[i].signed /\ ~x.lost
  <2>1. "failed" \in Over /\ FlowTyped
    BY DEF Over, FlowInv
  <2>2. QED
    BY ONLY <2>1, EndedTyped, i \in Attempt
<1>3. attempts' = [attempts EXCEPT ![i] = x]
  BY DEF Fail
<1>4. mint' = [mint EXCEPT ![t] = m]
  <2>1. mint' = [s \in Tab |-> IF mint[s].auth = i THEN [mint[s] EXCEPT !.auth = None] ELSE mint[s]]
    BY DEF Fail
  <2>2. QED
    BY <1>1, <2>1
<1>5. /\ m \in Button /\ m.step = mint[t].step /\ m.tx = mint[t].tx
      /\ m.receipt = mint[t].receipt /\ m.auth # i
      /\ m.auth = mint[t].auth \/ (m.auth = None /\ mint[t].auth = i)
  <2>1. CASE mint[t].auth = i
    BY <1>1, <2>1 DEF Button
  <2>2. CASE mint[t].auth # i
    BY <1>1, <2>2
  <2>3. QED
    BY <2>1, <2>2
<1>6. Sound(x) /\ ~Active(x)
  BY <1>2 DEF FlowInv, Canonical, Sound, Active, Authorizing, InWallet
<1>7. attempts[i].status \notin Over
  BY DEF Over, Authorizing
<1>8. TypeOK' /\ accepted' = accepted
  BY ContractRests
<1> HIDE DEF x, m
<1>9. QED
  BY <1>1, <1>2, <1>3, <1>4, <1>5, <1>6, <1>7, <1>8, AttemptMoves

\* The server reads the profile.
LEMMA Fetches ==
  ASSUME FlowInv, NEW i \in Attempt, FetchCanonicalProfile(i)
  PROVE  FlowInv'
<1>0. /\ attempts[i].status = "fetching" /\ attempts[i].status \in Authorizing
      /\ UNCHANGED <<contractVars, profile, known, attest>>
  BY DEF FetchCanonicalProfile, Authorizing
<1>1. CASE Fail(i)
  BY <1>0, <1>1, Fails
<1>2. CASE ~Fail(i)
  <2> DEFINE t == attempts[i].tab
             data == profile[AddressOf[t]]
             x == [attempts[i] EXCEPT !.status = "profiled",
                     !.payload = [data |-> data, deadline |-> now + TTL]]
  <2>1. /\ data # NoProfile /\ now + TTL \in Time
        /\ attempts' = [attempts EXCEPT ![i].status = "profiled",
                          ![i].payload = [data |-> data, deadline |-> now + TTL]]
        /\ mint' = mint
    BY <1>2 DEF FetchCanonicalProfile
  <2>2. /\ mint \in [Tab -> Button] /\ t \in Tab /\ mint[t] \in Button
        /\ attempts \in [Attempt -> Entry] /\ attempts[i] \in Entry
        /\ Active(attempts[i]) <=> mint[t].auth = i
        /\ mint[t].receipt # "none" => mint[t].tx # None
        /\ mint[t].tx # i
    BY <1>0, Authorized DEF FlowInv, FlowTyped, OwnAttempts
  <2>3. AddressOf[t] \in User /\ data \in Data /\ <<AddressOf[t], data>> \in known
    BY <2>1, <2>2 DEF FlowInv, FlowTyped, Canonical
  <2>4. attempts' = [attempts EXCEPT ![i] = x] /\ mint' = [mint EXCEPT ![t] = mint[t]]
    BY <2>1, <2>2
  <2>5. /\ x \in Entry /\ x.tab = t /\ x.status = "profiled" /\ x.payload.data = data
        /\ x.signed = attempts[i].signed /\ x.lost = attempts[i].lost
    BY <2>1, <2>2, <2>3 DEF Entry, Authorizing
  <2> HIDE DEF x
  <2>6. Sound(x)
    BY <2>3, <2>5 DEF FlowInv, Canonical, Sound
  <2>7. /\ Active(x) => Active(attempts[i]) /\ Waits(mint[t], i, x)
        /\ mint[t].auth = i => x.status \in Authorizing /\ ~x.lost
    BY <1>0, <2>2, <2>5 DEF Active, Waits, Authorizing, InWallet
  <2>8. attempts[i].status \notin Over
    BY <1>0 DEF Over
  <2>9. TypeOK' /\ accepted' = accepted
    BY <1>0, ContractRests
  <2>10. QED
    BY <1>0, <2>2, <2>4, <2>5, <2>6, <2>7, <2>8, <2>9, AttemptMoves
<1>3. QED
  BY <1>1, <1>2

\* What the server signs is an attestation of the stored profile.
LEMMA AttestationTyped ==
  ASSUME FlowInv, NEW i \in Attempt, attempts[i].status = "profiled"
  PROVE  LET att == MintAttestation(attempts[i].tab, attempts[i].payload)
         IN  att \in Attestation /\ IsKnown(att)
<1> DEFINE t == attempts[i].tab
           payload == attempts[i].payload
<1>1. /\ t \in Tab /\ payload \in [data : Data \union {NoProfile}, deadline : Time]
      /\ <<AddressOf[t], payload.data>> \in known
  <2>1. attempts[i] \in Entry /\ Sound(attempts[i])
    BY DEF FlowInv, FlowTyped, Canonical
  <2>2. QED
    BY <2>1 DEF Entry, Sound
<1>2. payload.data \in Data /\ payload.deadline \in Time
  BY <1>1 DEF FlowInv, FlowTyped
<1>3. AddressOf[t] \in Address /\ nonces[AddressOf[t]] \in 0 .. MaxNonce
  BY <1>1 DEF FlowInv, TypeOK
<1> HIDE DEF t, payload
<1>4. QED
  <2> DEFINE digest == [domain |-> HomeChain, kind |-> "MINT", to |-> AddressOf[t],
                        data |-> payload.data, nonce |-> nonces[AddressOf[t]],
                        deadline |-> payload.deadline]
  <2>1. digest \in Digest /\ digest.to = AddressOf[t] /\ digest.data = payload.data
    BY <1>2, <1>3 DEF Digest, Kind
  <2>2. MintAttestation(t, payload) = [digest |-> digest, key |-> ServerKey]
    BY DEF MintAttestation
  <2> HIDE DEF digest
  <2>3. MintAttestation(t, payload) \in Attestation
    BY <2>1, <2>2 DEF Attestation
  <2>4. IsKnown(MintAttestation(t, payload))
    BY <1>1, <2>1, <2>2 DEF IsKnown
  <2>5. QED
    BY <2>3, <2>4 DEF t, payload

\* The server signs, and the wallet has a transaction.
LEMMA Signs ==
  ASSUME FlowInv, NEW i \in Attempt, CreateMintAuthorization(i)
  PROVE  FlowInv'
<1>0. /\ attempts[i].status = "profiled" /\ attempts[i].status \in Authorizing
      /\ UNCHANGED <<contractVars, profile, known, attest>>
  BY DEF CreateMintAuthorization, Authorizing
<1>1. CASE Fail(i)
  BY <1>0, <1>1, Fails
<1>2. CASE ~Fail(i)
  <2> DEFINE t == attempts[i].tab
             att == MintAttestation(t, attempts[i].payload)
             x == [attempts[i] EXCEPT !.status = "asked", !.payload = NoPayload,
                     !.signed = {att}, !.held = tokens[AddressOf[t]] # 0,
                     !.ours = signer = ServerKey]
             m == IF mint[t].auth # i THEN mint[t]
                  ELSE [mint[t] EXCEPT !.auth = None, !.tx = i, !.receipt = "none"]
  <2>1. /\ attempts' = [attempts EXCEPT ![i].status = "asked", ![i].payload = NoPayload,
                          ![i].signed = {att}, ![i].held = tokens[AddressOf[t]] # 0,
                          ![i].ours = signer = ServerKey]
        /\ mint' = IF mint[t].auth # i THEN mint
                   ELSE [mint EXCEPT ![t].auth = None, ![t].tx = i, ![t].receipt = "none"]
    BY <1>2 DEF CreateMintAuthorization
  <2>2. /\ mint \in [Tab -> Button] /\ t \in Tab /\ mint[t] \in Button
        /\ attempts \in [Attempt -> Entry] /\ attempts[i] \in Entry
        /\ Active(attempts[i]) <=> mint[t].auth = i
        /\ mint[t].receipt # "none" => mint[t].tx # None
        /\ mint[t].tx # i /\ i # None
    BY <1>0, Authorized, NoneIsNone DEF FlowInv, FlowTyped, OwnAttempts
  <2>3. att \in Attestation /\ IsKnown(att)
    BY <1>0, AttestationTyped
  <2> HIDE DEF att
  <2>4. attempts' = [attempts EXCEPT ![i] = x] /\ mint' = [mint EXCEPT ![t] = m]
    BY <2>1, <2>2
  <2>5. /\ x \in Entry /\ x.tab = t /\ x.status = "asked" /\ x.signed = {att}
        /\ x.lost = attempts[i].lost
    <3>1. NoPayload \in [data : Data \union {NoProfile}, deadline : Time]
      BY NetworksTyped DEF NoPayload
    <3>2. "asked" \in InWallet
      BY DEF InWallet
    <3>3. {att} \in SUBSET Attestation
      BY <2>3
    <3>4. QED
      BY <2>2, <3>1, <3>2, <3>3 DEF Entry
  <2>6. /\ m \in Button /\ m.step = mint[t].step /\ m.auth # i
        /\ m.auth = mint[t].auth \/ (m.auth = None /\ mint[t].auth = i)
        /\ m.tx = i \/ m.tx = mint[t].tx
        /\ m.receipt # "none" => m.tx # None
        /\ mint[t].auth = i => m.tx = i
        /\ mint[t].auth # i => m = mint[t]
    <3>1. CASE mint[t].auth = i
      BY <2>2, <3>1 DEF Button
    <3>2. CASE mint[t].auth # i
      BY <2>2, <3>2
    <3>3. QED
      BY <3>1, <3>2
  <2> HIDE DEF x, m
  <2>7. Sound(x)
    BY <2>3, <2>5 DEF Sound
  <2>8. /\ Active(x) => Active(attempts[i]) /\ Waits(m, i, x)
        /\ x.status \in Sent
    BY <1>0, <2>2, <2>5, <2>6 DEF Active, Waits, Authorizing, InWallet, Sent
  <2>9. attempts[i].status \notin Over
    BY <1>0 DEF Over
  <2>10. TypeOK' /\ accepted' = accepted
    BY <1>0, ContractRests
  <2>11. QED
    BY <1>0, <2>2, <2>4, <2>5, <2>6, <2>7, <2>8, <2>9, <2>10, AttemptMoves
<1>3. QED
  BY <1>1, <1>2

\* The transaction is sent.
LEMMA Sends ==
  ASSUME FlowInv, NEW i \in Attempt, NEW u \in User, NEW n \in Network, ApproveInWallet(i, u, n)
  PROVE  FlowInv'
<1> DEFINE t == attempts[i].tab
           x == [attempts[i] EXCEPT !.status = "pending", !.from = u, !.net = n]
           m == IF mint[t].tx = i THEN [mint[t] EXCEPT !.receipt = "waiting"] ELSE mint[t]
<1>0. /\ attempts[i].status = "asked" /\ attempts[i].status \in InWallet
      /\ UNCHANGED <<contractVars, profile, known, attest>>
  BY DEF ApproveInWallet, InWallet
<1>1. /\ mint \in [Tab -> Button] /\ attempts \in [Attempt -> Entry] /\ attempts[i] \in Entry
      /\ t \in Tab /\ mint[t] \in Button /\ i # None
      /\ \A s \in Tab : mint[s].tx = i => s = t
      /\ mint[t].receipt # "none" => mint[t].tx # None
      /\ mint[t].auth # i
      /\ Active(attempts[i]) => mint[t].tx = i
  <2>1. attempts[i] \in Entry /\ mint \in [Tab -> Button] /\ attempts \in [Attempt -> Entry]
    BY DEF FlowInv, FlowTyped
  <2>2. t \in Tab /\ i # None
    BY <2>1, NoneIsNone DEF Entry
  <2>3. /\ \A s \in Tab : mint[s].tx = i => attempts[i].tab = s
        /\ mint[t].auth # i
        /\ mint[t].receipt # "none" => mint[t].tx # None
    BY <1>0, <2>2 DEF FlowInv, OwnAttempts, Authorizing
  <2>4. Active(attempts[i]) => mint[t].tx = i
    BY <1>0 DEF FlowInv, Waited, Waits
  <2>5. QED
    BY <2>1, <2>2, <2>3, <2>4
<1>2. attempts' = [attempts EXCEPT ![i] = x]
  BY <1>1 DEF ApproveInWallet
<1>3. mint' = [mint EXCEPT ![t] = m]
  <2>1. mint' = [s \in Tab |-> IF mint[s].tx = i THEN [mint[s] EXCEPT !.receipt = "waiting"]
                               ELSE mint[s]]
    BY DEF ApproveInWallet
  <2>2. QED
    BY <1>1, <2>1
<1>4. /\ x \in Entry /\ x.tab = t /\ x.status = "pending" /\ x.payload = attempts[i].payload
      /\ x.signed = attempts[i].signed /\ x.lost = attempts[i].lost
  <2>1. "pending" \in InWallet
    BY DEF InWallet
  <2>2. QED
    BY <1>1, <2>1 DEF Entry
<1>5. /\ m \in Button /\ m.step = mint[t].step /\ m.tx = mint[t].tx /\ m.auth = mint[t].auth
      /\ m.receipt = mint[t].receipt \/ mint[t].tx = i
      /\ mint[t].tx = i => m.receipt = "waiting"
      /\ m.receipt # "none" => m.tx # None
  <2>1. CASE mint[t].tx = i
    BY <1>1, <2>1 DEF Button
  <2>2. CASE mint[t].tx # i
    BY <1>1, <2>2
  <2>3. QED
    BY <2>1, <2>2
<1> HIDE DEF x, m
<1>6. Sound(x) /\ x.status \in Sent
  BY <1>4 DEF FlowInv, Canonical, Sound, Sent, InWallet
<1>7. Active(x) => Active(attempts[i]) /\ Waits(m, i, x)
  BY <1>0, <1>1, <1>4, <1>5 DEF Active, Waits, Authorizing, InWallet
<1>8. attempts[i].status \notin Over
  BY <1>0 DEF Over
<1>9. TypeOK' /\ accepted' = accepted
  BY <1>0, ContractRests
<1>10. QED
  BY <1>0, <1>1, <1>2, <1>3, <1>4, <1>5, <1>6, <1>7, <1>8, <1>9, AttemptMoves

\* What the wallet has ends; its button has yet to hear of it.
LEMMA Ends ==
  ASSUME FlowInv, TypeOK', NEW i \in Attempt, attempts[i].status \in InWallet,
         NEW x \in Entry, attempts' = [attempts EXCEPT ![i] = x],
         x.tab = attempts[i].tab, x.status \in Over, ~x.lost,
         x.signed \subseteq attempts[i].signed,
         accepted \subseteq accepted', \A e \in accepted' \ accepted : IsKnown(e.att),
         x.status = "mined" /\ x.net = HomeChain => \E e \in accepted' : e.att \in x.signed,
         UNCHANGED <<profile, known, mint, attest>>
  PROVE  FlowInv'
<1> DEFINE t == x.tab
<1>1. /\ mint \in [Tab -> Button] /\ t \in Tab /\ mint[t] \in Button
  BY DEF FlowInv, FlowTyped, Entry
<1>2. /\ mint[t].receipt # "none" => mint[t].tx # None
      /\ mint[t].auth # i
  BY <1>1, NoneIsNone DEF FlowInv, OwnAttempts, Authorizing, InWallet
<1>3. mint' = [mint EXCEPT ![t] = mint[t]]
  BY <1>1
<1>4. Sound(x) /\ x.status \in Sent /\ ~Active(x) /\ x.status # "unused"
  BY DEF FlowInv, Canonical, Sound, Sent, Active, Authorizing, InWallet, Over
<1>5. attempts[i].status \notin Over
  BY DEF Over, InWallet
<1>6. QED
  BY <1>1, <1>2, <1>3, <1>4, <1>5, AttemptMoves

LEMMA WalletSteps ==
  ASSUME FlowInv, NEW i \in Attempt,
         RejectInWallet(i) \/ ReplaceInWallet(i) \/ RevertMint(i) \/ MineElsewhere(i)
  PROVE  FlowInv'
<1>0. /\ attempts[i].status \in InWallet
      /\ UNCHANGED <<contractVars, profile, known, mint, attest>>
  BY DEF RejectInWallet, ReplaceInWallet, RevertMint, MineElsewhere, InWallet
<1>1. FlowTyped /\ TypeOK' /\ accepted' = accepted
  BY <1>0, ContractRests DEF FlowInv
<1>2. ASSUME NEW status \in Over, attempts' = [attempts EXCEPT ![i] = Ended(i, status)],
             status = "mined" => attempts[i].net # HomeChain
      PROVE  FlowInv'
  <2> DEFINE x == Ended(i, status)
  <2>1. /\ x \in Entry /\ x.status = status /\ x.tab = attempts[i].tab
        /\ x.signed = attempts[i].signed /\ ~x.lost /\ x.net = attempts[i].net
    BY <1>1, EndedTyped
  <2>2. attempts' = [attempts EXCEPT ![i] = x]
    BY <1>2
  <2> HIDE DEF x
  <2>3. QED
    BY <1>0, <1>1, <1>2, <2>1, <2>2, Ends
<1>3. CASE RejectInWallet(i)
  <2> DEFINE e == Ended(i, "failed")
             x == [e EXCEPT !.signed = {}]
  <2>1. e \in Entry /\ e.status = "failed" /\ e.tab = attempts[i].tab /\ ~e.lost
    <3>1. "failed" \in Over
      BY DEF Over
    <3>2. QED
      BY <1>1, <3>1, EndedTyped
  <2>2. attempts' = [attempts EXCEPT ![i] = x]
    BY <1>3 DEF RejectInWallet
  <2> HIDE DEF e
  <2>3. /\ x \in Entry /\ x.status = "failed" /\ x.tab = attempts[i].tab
        /\ x.signed = {} /\ ~x.lost
    BY <2>1 DEF Entry
  <2>4. x.status \in Over
    BY <2>3 DEF Over
  <2> HIDE DEF x
  <2>5. QED
    BY <1>0, <1>1, <2>2, <2>3, <2>4, Ends
<1>4. CASE ReplaceInWallet(i)
  BY <1>2, <1>4 DEF ReplaceInWallet, Over
<1>5. CASE RevertMint(i)
  BY <1>2, <1>5 DEF RevertMint, Over
<1>6. CASE MineElsewhere(i)
  BY <1>2, <1>6 DEF MineElsewhere, Over
<1>7. QED
  BY <1>3, <1>4, <1>5, <1>6

\* The contract accepts what the server has signed.
LEMMA Mines ==
  ASSUME FlowInv, TypeOK', NEW i \in Attempt, MineMint(i)
  PROVE  FlowInv'
<1> DEFINE x == Ended(i, "mined")
<1>0. /\ attempts[i].status \in InWallet /\ FlowTyped
      /\ attempts' = [attempts EXCEPT ![i] = x]
      /\ UNCHANGED <<profile, known, mint, attest>>
  BY DEF MineMint, InWallet, FlowInv
<1>1. PICK att \in attempts[i].signed : Mint(attempts[i].from, att)
  BY DEF MineMint
<1>2. accepted' = accepted \union {[att |-> att, at |-> now, chain |-> chain]}
  BY <1>1 DEF Mint, Authorize
<1>3. /\ x \in Entry /\ x.status = "mined" /\ x.tab = attempts[i].tab
      /\ x.signed = attempts[i].signed /\ ~x.lost
  <2>1. "mined" \in Over
    BY DEF Over
  <2>2. QED
    BY <1>0, <2>1, EndedTyped
<1> HIDE DEF x
<1>4. IsKnown(att)
  BY DEF FlowInv, Canonical, Sound
<1>5. \E e \in accepted' : e.att \in x.signed
  <2>1. [att |-> att, at |-> now, chain |-> chain] \in accepted'
    BY <1>2
  <2>2. QED
    BY <1>3, <2>1
<1>6. /\ accepted \subseteq accepted'
      /\ \A e \in accepted' \ accepted : IsKnown(e.att)
  BY <1>2, <1>4
<1>7. x.status \in Over
  BY <1>3 DEF Over
<1>8. QED
  BY <1>0, <1>3, <1>5, <1>6, <1>7, Ends

LEMMA FlowInductive == FlowInv /\ [NextFlow]_allVars => FlowInv'
<1> SUFFICES ASSUME FlowInv, [NextFlow]_allVars PROVE FlowInv'
  OBVIOUS
<1>1. TypeOK'
  BY FlowStepIsContractStep, StepType DEF FlowInv
<1>2. attest \in [Tab -> AttestButton]
  BY DEF FlowInv, FlowTyped
<1>3. ASSUME NEW t \in Tab, HandleAttest(t) \/ AnswerAttest(t) PROVE FlowInv'
  <2>1. attest' \in [Tab -> AttestButton]
    <3>1. CASE HandleAttest(t)
      BY <1>2, <3>1 DEF HandleAttest, AttestButton
    <3>2. CASE AnswerAttest(t)
      <4>1. PICK signed \in CreateDelegatedAttestation(t) :
              attest' = [attest EXCEPT ![t] =
                [status |-> IF signed /\ Serializable(DelegatedAttestationPayload)
                            THEN "pending" ELSE "error",
                 signed |-> signed]]
        BY <3>2 DEF AnswerAttest
      <4>2. signed \in BOOLEAN
        BY DEF CreateDelegatedAttestation
      <4>3. \/ attest' = [attest EXCEPT ![t] = [status |-> "pending", signed |-> signed]]
            \/ attest' = [attest EXCEPT ![t] = [status |-> "error", signed |-> signed]]
        BY <4>1
      <4>4. QED
        BY <1>2, <4>2, <4>3 DEF AttestButton
    <3>3. QED
      BY <1>3, <3>1, <3>2
  <2>2. UNCHANGED <<profile, known, mint, attempts, accepted>>
    BY <1>3 DEF HandleAttest, AnswerAttest, contractVars, authVars
  <2>3. QED
    BY <1>1, <2>1, <2>2, Around
<1>4. ASSUME \/ \E u \in User : BurnToken(u)
             \/ \E key \in {ServerKey, Deployer} : RotateSigner(key)
             \/ Advance
      PROVE  FlowInv'
  <2>1. UNCHANGED <<profile, known, mint, attempts, attest>>
    BY <1>4 DEF BurnToken, RotateSigner, Advance, flowVars
  <2>2. accepted' = accepted
    BY <1>4 DEF BurnToken, RotateSigner, Advance, Burn, SetSigner, NextBlock, authVars
  <2>3. QED
    BY <1>1, <1>2, <2>1, <2>2, Around
<1>5. ASSUME NEW t \in Tab, NEW data \in Result, Analyze(AddressOf[t], data) PROVE FlowInv'
  <2>1. /\ profile' = [profile EXCEPT ![AddressOf[t]] = data]
        /\ known' = known \union {<<AddressOf[t], data>>}
        /\ UNCHANGED <<contractVars, mint, attest, attempts>>
    BY <1>5 DEF Analyze
  <2>2. AddressOf[t] \in User /\ data \in Data
    OBVIOUS
  <2>3. FlowTyped'
    BY <2>1, <2>2 DEF FlowInv, FlowTyped
  <2>4. known \subseteq known' /\ accepted' = accepted
    BY <2>1 DEF contractVars, authVars
  <2>5. Canonical' /\ MintedIsCanonical'
    <3>1. \A u \in User : profile'[u] # NoProfile => <<u, profile'[u]>> \in known'
      BY <2>1, <2>2 DEF FlowInv, FlowTyped, Canonical
    <3>2. \A i \in Attempt : Sound(attempts[i])'
      BY <2>1, <2>4 DEF FlowInv, Canonical, Sound, IsKnown
    <3>3. MintedIsCanonical'
      BY <2>4 DEF FlowInv, MintedIsCanonical
    <3>4. QED
      BY <3>1, <3>2, <3>3 DEF Canonical
  <2>6. OwnAttempts' /\ Waited' /\ OneTransactionPerTab'
    BY <2>1 DEF FlowInv, OwnAttempts, Waited, Active, Waits, OneTransactionPerTab, UnderWay
  <2>7. MinedIsAccepted' /\ DoneIsMinted'
    BY <2>1, <2>4 DEF FlowInv, MinedIsAccepted, DoneIsMinted, Succeeded
  <2>8. QED
    BY <1>1, <2>3, <2>5, <2>6, <2>7 DEF FlowInv
<1>6. CASE UNCHANGED allVars
  <2>1. UNCHANGED <<profile, known, mint, attempts, accepted, attest>>
    BY <1>6 DEF allVars, flowVars, contractVars, authVars
  <2>2. QED
    BY <1>1, <1>2, <2>1, Around
<1>7. QED
  BY <1>1, <1>3, <1>4, <1>5, <1>6, ButtonSteps, Begins, ReceiptErrors, Leaves, Fetches, Signs,
     Sends, WalletSteps, Mines DEF NextFlow

-----------------------------------------------------------------------------
(* What the server signs                                                   *)

\* What an attempt carries matches the contract: the service's key, the chain and the
\* type of a mint, and a nonce that is not ahead of the contract's.
ServerSigned(att) ==
  /\ att.key = ServerKey
  /\ att.digest.domain = HomeChain
  /\ att.digest.kind = "MINT"
  /\ att.digest.nonce <= nonces[att.digest.to]

SignedInv ==
  /\ chain = HomeChain
  /\ \A i \in Attempt : \A att \in attempts[i].signed : ServerSigned(att)

\* Nonces only grow, so what was signed stays so.
LEMMA StillSigned ==
  ASSUME FlowInv, SignedInv, FlowInv', UNCHANGED chain,
         \A a \in Address : nonces[a] <= nonces'[a],
         \A i \in Attempt : \A att \in attempts'[i].signed :
             att \in attempts[i].signed \/ ServerSigned(att)
  PROVE  SignedInv'
<1> SUFFICES ASSUME NEW i \in Attempt, NEW att \in attempts'[i].signed
             PROVE  ServerSigned(att)'
  BY DEF SignedInv
<1>1. ServerSigned(att)
  BY DEF SignedInv
<1>2. att \in Attestation
  <2>1. attempts'[i] \in Entry
    BY DEF FlowInv, FlowTyped
  <2>2. QED
    BY <2>1 DEF Entry
<1>3. att.digest.to \in Address /\ att.digest.nonce \in Nat
  BY <1>2 DEF Attestation, Digest
<1>4. nonces[att.digest.to] \in Nat /\ nonces'[att.digest.to] \in Nat
  BY <1>3 DEF FlowInv, TypeOK
<1>5. att.digest.nonce <= nonces'[att.digest.to]
  BY <1>1, <1>3, <1>4 DEF ServerSigned
<1>6. QED
  BY <1>1, <1>5 DEF ServerSigned

LEMMA SignedInductive ==
  ASSUME FlowInv, SignedInv, FlowInv', [NextFlow]_allVars
  PROVE  SignedInv'
<1> DEFINE Grow == UNCHANGED chain /\ \A a \in Address : nonces[a] <= nonces'[a]
           Carried == \A j \in Attempt : \A att \in attempts'[j].signed :
                       att \in attempts[j].signed \/ ServerSigned(att)
<1>0. /\ attempts \in [Attempt -> Entry] /\ nonces \in [Address -> 0 .. MaxNonce]
      /\ FlowTyped
      /\ \A j \in Attempt : attempts[j] \in Entry /\ attempts[j].tab \in Tab
      /\ \A a \in Address : nonces[a] \in Nat
  BY DEF FlowInv, FlowTyped, TypeOK, Entry
<1>1. UNCHANGED <<chain, nonces>> => Grow
  BY <1>0
<1>2. UNCHANGED contractVars => Grow
  BY <1>1 DEF contractVars, authVars, envVars
<1>3. UNCHANGED attempts => Carried
  OBVIOUS
\* An attempt ends, with what it carried or without.
<1>4. ASSUME NEW i \in Attempt, NEW status \in Over,
             \/ attempts' = [attempts EXCEPT ![i] = Ended(i, status)]
             \/ attempts' = [attempts EXCEPT ![i] = [Ended(i, status) EXCEPT !.signed = {}]]
      PROVE  Carried
  <2>1. Ended(i, status) \in Entry /\ Ended(i, status).signed = attempts[i].signed
    BY <1>0, EndedTyped
  <2>2. [Ended(i, status) EXCEPT !.signed = {}].signed = {}
    BY <2>1 DEF Entry
  <2>3. attempts'[i].signed \subseteq attempts[i].signed
    BY <1>0, <1>4, <2>1, <2>2
  <2>4. \A j \in Attempt : j # i => attempts'[j] = attempts[j]
    BY <1>0, <1>4
  <2>5. QED
    BY <2>3, <2>4
<1>5. ASSUME NEW t \in Tab,
             \/ Open(t) \/ Close(t) \/ Understand(t) \/ Receipt(t) \/ Refetch(t)
             \/ HandleAttest(t) \/ AnswerAttest(t)
      PROVE  Grow /\ Carried
  <2>1. UNCHANGED <<contractVars, attempts>>
    BY <1>5 DEF Open, Close, Understand, Receipt, Refetch, HandleAttest, AnswerAttest
  <2>2. QED
    BY <1>2, <1>3, <2>1
<1>6. ASSUME NEW t \in Tab, HandleConfirmMint(t) PROVE Grow /\ Carried
  <2>1. PICK i \in Attempt : attempts' = [attempts EXCEPT ![i] = Click(t, "fetching")]
    BY <1>6 DEF HandleConfirmMint, Begin
  <2>2. Click(t, "fetching").signed = {}
    BY DEF Click
  <2>3. \A j \in Attempt : attempts'[j] = attempts[j] \/ attempts'[j].signed = {}
    BY <1>0, <2>1, <2>2
  <2>4. Carried
    BY <2>3
  <2>5. Grow
    BY <1>2, <1>6 DEF HandleConfirmMint, Begin
  <2>6. QED
    BY <2>4, <2>5
<1>7. ASSUME NEW t \in Tab, ReceiptError(t) PROVE Grow /\ Carried
  <2> DEFINE i == mint[t].tx
  <2>1. attempts' = [attempts EXCEPT ![i].lost = @ \/ UnderWay(i)]
    BY <1>7 DEF ReceiptError
  <2>2. \A j \in Attempt : attempts'[j].signed = attempts[j].signed
    BY <1>0, <2>1 DEF Entry
  <2>3. Carried
    BY <2>2
  <2>4. Grow
    BY <1>2, <1>7 DEF ReceiptError
  <2>5. QED
    BY <2>3, <2>4
<1>8. ASSUME NEW t \in Tab, Leave(t) PROVE Grow /\ Carried
  <2>1. PICK reload \in BOOLEAN :
          attempts' = [i \in Attempt |->
              IF attempts[i].tab # t \/ ~UnderWay(i) THEN attempts[i]
              ELSE IF reload /\ attempts[i].status \in Authorizing
              THEN Ended(i, "failed")
              ELSE [attempts[i] EXCEPT !.lost = TRUE]]
    BY <1>8 DEF Leave
  <2>2. ASSUME NEW j \in Attempt PROVE attempts'[j].signed = attempts[j].signed
    <3>1. "failed" \in Over
      BY DEF Over
    <3>2. Ended(j, "failed").signed = attempts[j].signed
      BY <1>0, <3>1, EndedTyped
    <3>3. [attempts[j] EXCEPT !.lost = TRUE].signed = attempts[j].signed
      BY <1>0 DEF Entry
    <3>4. QED
      BY <2>1, <3>2, <3>3
  <2>3. Carried
    BY <2>2
  <2>4. Grow
    BY <1>2, <1>8 DEF Leave
  <2>5. QED
    BY <2>3, <2>4
<1>9. ASSUME NEW i \in Attempt, FetchCanonicalProfile(i) PROVE Grow /\ Carried
  <2>1. Grow
    BY <1>2, <1>9 DEF FetchCanonicalProfile
  <2>2. CASE Fail(i)
    BY <1>4, <2>1, <2>2 DEF Fail, Over
  <2>3. CASE ~Fail(i)
    <3>1. attempts' = [attempts EXCEPT ![i].status = "profiled",
                         ![i].payload = [data |-> profile[AddressOf[attempts[i].tab]],
                                         deadline |-> now + TTL]]
      BY <1>9, <2>3 DEF FetchCanonicalProfile
    <3>2. \A j \in Attempt : attempts'[j].signed = attempts[j].signed
      BY <1>0, <3>1 DEF Entry
    <3>3. QED
      BY <2>1, <3>2
  <2>4. QED
    BY <2>2, <2>3
<1>10. ASSUME NEW i \in Attempt, CreateMintAuthorization(i) PROVE Grow /\ Carried
  <2>1. Grow
    BY <1>2, <1>10 DEF CreateMintAuthorization
  <2>2. CASE Fail(i)
    BY <1>4, <2>1, <2>2 DEF Fail, Over
  <2>3. CASE ~Fail(i)
    <3> DEFINE t == attempts[i].tab
               att == MintAttestation(t, attempts[i].payload)
    <3>1. attempts' = [attempts EXCEPT ![i].status = "asked", ![i].payload = NoPayload,
                         ![i].signed = {att}, ![i].held = tokens[AddressOf[t]] # 0,
                         ![i].ours = signer = ServerKey]
      BY <1>10, <2>3 DEF CreateMintAuthorization
    <3>2. ServerSigned(att)
      BY <1>0 DEF MintAttestation, ServerSigned
    <3> HIDE DEF att
    <3>3. attempts'[i].signed = {att} /\ \A j \in Attempt : j # i => attempts'[j] = attempts[j]
      BY <1>0, <3>1 DEF Entry
    <3>4. QED
      BY <2>1, <3>2, <3>3
  <2>4. QED
    BY <2>2, <2>3
<1>11. ASSUME NEW i \in Attempt, NEW u \in User, NEW n \in Network, ApproveInWallet(i, u, n)
       PROVE  Grow /\ Carried
  <2>1. attempts' = [attempts EXCEPT ![i].status = "pending", ![i].from = u, ![i].net = n]
    BY <1>11 DEF ApproveInWallet
  <2>2. \A j \in Attempt : attempts'[j].signed = attempts[j].signed
    BY <1>0, <2>1 DEF Entry
  <2>3. Grow
    BY <1>2, <1>11 DEF ApproveInWallet
  <2>4. QED
    BY <2>2, <2>3
<1>12. ASSUME NEW i \in Attempt,
              RejectInWallet(i) \/ ReplaceInWallet(i) \/ RevertMint(i) \/ MineElsewhere(i)
       PROVE  Grow /\ Carried
  <2>1. Grow
    BY <1>2, <1>12 DEF RejectInWallet, ReplaceInWallet, RevertMint, MineElsewhere
  <2>2. QED
    BY <1>4, <1>12, <2>1 DEF RejectInWallet, ReplaceInWallet, RevertMint, MineElsewhere, Over
<1>13. ASSUME NEW i \in Attempt, MineMint(i) PROVE Grow /\ Carried
  <2>1. PICK att \in attempts[i].signed : Mint(attempts[i].from, att)
    BY <1>13 DEF MineMint
  <2>2. /\ nonces' = [nonces EXCEPT ![attempts[i].from] = @ + 1] /\ UNCHANGED chain
    BY <2>1 DEF Mint, Authorize, envVars
  <2>3. Grow
    BY <1>0, <2>2
  <2>4. Carried
    BY <1>4, <1>13 DEF MineMint, Over
  <2>5. QED
    BY <2>3, <2>4
<1>14. ASSUME \/ \E u \in User : BurnToken(u)
              \/ \E key \in {ServerKey, Deployer} : RotateSigner(key)
              \/ Advance
              \/ \E t \in Tab, data \in Result : Analyze(AddressOf[t], data)
       PROVE  Grow /\ Carried
  BY <1>1, <1>2, <1>3, <1>14 DEF BurnToken, RotateSigner, Advance, Analyze, flowVars, Burn,
     SetSigner, NextBlock, authVars, envVars
<1>15. UNCHANGED allVars => Grow /\ Carried
  BY <1>2, <1>3 DEF allVars, flowVars
<1>16. Grow /\ Carried
  <2> HIDE DEF Grow, Carried
  <2>1. QED
    BY <1>5, <1>6, <1>7, <1>8, <1>9, <1>10, <1>11, <1>12, <1>13, <1>14, <1>15 DEF NextFlow
<1>17. QED
  BY <1>16, StillSigned

\* Only the contract's own refusal makes an attempt that is pending a reverted one.
LEMMA OnlyRevertsRevert ==
  ASSUME FlowInv, [NextFlow]_allVars, NEW i \in Attempt,
         attempts[i].status = "pending", attempts'[i].status = "reverted"
  PROVE  RevertMint(i)
<1> DEFINE Else == attempts'[i].status # "reverted"
<1>0. /\ attempts \in [Attempt -> Entry] /\ FlowTyped
      /\ \A j \in Attempt : attempts[j] \in Entry
  BY DEF FlowInv, FlowTyped
<1>1. ASSUME NEW j \in Attempt, NEW x, attempts' = [attempts EXCEPT ![j] = x],
             j = i => x.status # "reverted"
      PROVE  Else
  BY <1>0, <1>1
<1>2. UNCHANGED attempts => Else
  OBVIOUS
<1>3. ASSUME NEW j \in Attempt, NEW status \in Over, status # "reverted"
      PROVE  Ended(j, status) \in Entry /\ Ended(j, status).status # "reverted"
  BY <1>0, <1>3, EndedTyped
<1>4. ASSUME NEW t \in Tab,
             \/ Open(t) \/ Close(t) \/ Understand(t) \/ Receipt(t) \/ Refetch(t)
             \/ HandleAttest(t) \/ AnswerAttest(t)
      PROVE  Else
  BY <1>2, <1>4 DEF Open, Close, Understand, Receipt, Refetch, HandleAttest, AnswerAttest
<1>5. ASSUME NEW t \in Tab, HandleConfirmMint(t) PROVE Else
  <2>1. PICK j \in Attempt : attempts' = [attempts EXCEPT ![j] = Click(t, "fetching")]
    BY <1>5 DEF HandleConfirmMint, Begin
  <2>2. Click(t, "fetching").status = "fetching"
    BY DEF Click
  <2>3. QED
    BY <1>1, <2>1, <2>2
<1>6. ASSUME NEW t \in Tab, ReceiptError(t) PROVE Else
  <2>1. attempts' = [attempts EXCEPT ![mint[t].tx].lost = @ \/ UnderWay(mint[t].tx)]
    BY <1>6 DEF ReceiptError
  <2>2. attempts'[i].status = attempts[i].status
    BY <1>0, <2>1 DEF Entry
  <2>3. QED
    BY <2>2
<1>7. ASSUME NEW t \in Tab, Leave(t) PROVE Else
  <2>1. \/ attempts'[i] = attempts[i]
        \/ attempts'[i] = Ended(i, "failed")
        \/ attempts'[i] = [attempts[i] EXCEPT !.lost = TRUE]
    BY <1>7 DEF Leave
  <2>2. [attempts[i] EXCEPT !.lost = TRUE].status = attempts[i].status
    BY <1>0 DEF Entry
  <2>3. Ended(i, "failed").status # "reverted"
    BY <1>3 DEF Over
  <2>4. QED
    BY <2>1, <2>2, <2>3
<1>8. ASSUME NEW j \in Attempt, FetchCanonicalProfile(j) \/ CreateMintAuthorization(j) PROVE Else
  <2>1. j # i
    BY <1>8 DEF FetchCanonicalProfile, CreateMintAuthorization
  <2>2. attempts'[i] = attempts[i]
    BY <1>0, <1>8, <2>1 DEF FetchCanonicalProfile, CreateMintAuthorization, Fail
  <2>3. QED
    BY <2>2
<1>9. ASSUME NEW j \in Attempt, NEW u \in User, NEW n \in Network, ApproveInWallet(j, u, n)
      PROVE  Else
  <2>1. attempts'[i] = attempts[i]
    BY <1>0, <1>9 DEF ApproveInWallet
  <2>2. QED
    BY <2>1
<1>10. ASSUME NEW j \in Attempt, RejectInWallet(j) PROVE Else
  <2>1. attempts'[i] = attempts[i]
    BY <1>0, <1>10 DEF RejectInWallet
  <2>2. QED
    BY <2>1
<1>11. ASSUME NEW j \in Attempt, ReplaceInWallet(j) PROVE Else
  BY <1>1, <1>3, <1>11 DEF ReplaceInWallet, Over
<1>12. ASSUME NEW j \in Attempt, MineMint(j) \/ MineElsewhere(j) PROVE Else
  BY <1>1, <1>3, <1>12 DEF MineMint, MineElsewhere, Over
<1>13. ASSUME NEW j \in Attempt, j # i, RevertMint(j) PROVE Else
  <2>1. attempts'[i] = attempts[i]
    BY <1>0, <1>13 DEF RevertMint
  <2>2. QED
    BY <2>1
<1>14. ASSUME \/ \E u \in User : BurnToken(u)
              \/ \E key \in {ServerKey, Deployer} : RotateSigner(key)
              \/ Advance
              \/ \E t \in Tab, data \in Result : Analyze(AddressOf[t], data)
              \/ UNCHANGED allVars
       PROVE  Else
  BY <1>2, <1>14 DEF BurnToken, RotateSigner, Advance, Analyze, flowVars, allVars
<1>15. QED
  <2>1. ~Else
    OBVIOUS
  <2> HIDE DEF Else
  <2>2. QED
    BY <1>4, <1>5, <1>6, <1>7, <1>8, <1>9, <1>10, <1>11, <1>12, <1>13, <1>14, <2>1 DEF NextFlow

\* A mint of what the server signed reverts for what happened since, or for a token or
\* a signer that was there when it was signed.
LEMMA RevertsHaveCause ==
  ASSUME FlowInv, SignedInv, NEW i \in Attempt, RevertMint(i),
         NEW att \in attempts[i].signed
  PROVE  VoidedSince(i, att) \/ VoidWhenSigned(i)
<1> DEFINE a == attempts[i].from
<1>0. /\ a \in Address /\ att \in Attestation /\ ServerSigned(att) /\ chain = HomeChain
      /\ \A other \in attempts[i].signed : other = att
  <2>1. attempts[i] \in Entry /\ Sound(attempts[i])
    BY DEF FlowInv, FlowTyped, Canonical
  <2>2. a \in User /\ att \in Attestation
    BY <2>1 DEF Entry
  <2>3. \A other \in attempts[i].signed : other = att
    BY <2>1 DEF Sound
  <2>4. QED
    BY <2>2, <2>3 DEF SignedInv
<1>1. Reverts(a, att)
  BY <1>0 DEF RevertMint
<1>2. nonces[a] \in Nat /\ att.digest \in Digest /\ att.digest.nonce \in Nat
  BY <1>0 DEF FlowInv, TypeOK, Attestation, Digest
<1>3. ASSUME a = att.digest.to, ~(nonces[a] > att.digest.nonce), signer = ServerKey
      PROVE  Recover(StructHash("MINT", a, att), att) = signer
  <2>1. att.digest.nonce = nonces[a]
    BY <1>0, <1>2, <1>3 DEF ServerSigned
  <2>2. DomainSeparator = att.digest.domain /\ att.digest.kind = "MINT"
    BY <1>0 DEF DomainSeparator, ServerSigned
  <2>3. att.digest = StructHash("MINT", a, att)
    BY <1>2, <1>3, <2>1, <2>2 DEF StructHash, Digest
  <2>4. QED
    BY <1>0, <1>3, <2>3 DEF Recover, ServerSigned
<1>4. CASE tokens[a] # 0
  BY <1>4 DEF VoidedSince, VoidWhenSigned
<1>5. CASE now > att.digest.deadline
  BY <1>5 DEF VoidedSince
<1>6. CASE Recover(StructHash("MINT", a, att), att) # signer
  BY <1>3, <1>6 DEF VoidedSince, VoidWhenSigned
<1>7. QED
  BY <1>1, <1>4, <1>5, <1>6 DEF Reverts

-----------------------------------------------------------------------------
(* The theorems                                                            *)

\* The inductive invariant holds throughout.
THEOREM FlowInvariant == SpecFlow => []FlowInv
<1>1. QED
  BY FlowInit, FlowInductive, PTL DEF SpecFlow

\* The variables of the buttons, the wallet and the services are well typed
\* (MintButton.tsx, AttestButton.tsx).
THEOREM FlowTypeCorrect == SpecFlow => []TypeOKFlow
<1>1. FlowInv => TypeOKFlow
  <2> SUFFICES ASSUME FlowInv PROVE TypeOKFlow
    OBVIOUS
  <2>1. ASSUME NEW t \in Tab
        PROVE  /\ mint[t].step \in {"options", "confirm", "done"}
               /\ {mint[t].auth, mint[t].tx} \subseteq Attempt \union {None}
               /\ mint[t].receipt \in {"none", "waiting", "error", "success"}
               /\ attest[t].status \in {"idle", "signing", "pending", "error"}
    <3>1. mint[t] \in Button /\ attest[t] \in AttestButton
      BY DEF FlowInv, FlowTyped
    <3>2. QED
      BY <3>1 DEF Button, AttestButton
  <2>2. ASSUME NEW i \in Attempt
        PROVE  /\ attempts[i].status \in {"unused"} \union Authorizing \union InWallet \union Over
               /\ attempts[i].tab \in Tab /\ attempts[i].from \in User
               /\ attempts[i].signed \subseteq Attestation
               /\ \A a, b \in attempts[i].signed : a = b
    <3>1. attempts[i] \in Entry /\ Sound(attempts[i])
      BY DEF FlowInv, FlowTyped, Canonical
    <3>2. QED
      BY <3>1 DEF Entry, Sound
  <2>3. profile \in [User -> Data \union {NoProfile}] /\ known \subseteq User \X Data
    BY DEF FlowInv, FlowTyped
  <2>4. QED
    BY <2>1, <2>2, <2>3 DEF TypeOKFlow
<1>2. QED
  BY <1>1, FlowInvariant, PTL

\* Whatever users, buttons and services do, the contract behaves as ProofOfDev says:
\* what is proved of Spec holds of the whole.
THEOREM FlowImplementsContract == SpecFlow => Spec
<1>1. InitFlow => Init
  BY DEF InitFlow
<1>2. FlowInv /\ [NextFlow]_allVars => [Next]_vars
  BY FlowStepIsContractStep DEF FlowInv
<1>3. QED
  BY <1>1, <1>2, FlowInvariant, PTL DEF SpecFlow, Spec

\* canonicalProfile.ts: whatever a browser shows or asks for, only results of the
\* worker reach the contract.
THEOREM MintedAlwaysCanonical == SpecFlow => []MintedIsCanonical
<1>1. FlowInv => MintedIsCanonical
  BY DEF FlowInv
<1>2. QED
  BY <1>1, FlowInvariant, PTL

\* MintButton.tsx: of the mints under way in a tab the button has lost sight of all but
\* one, by going away or by a failed query for the receipt.
THEOREM AlwaysOneTransactionPerTab == SpecFlow => []OneTransactionPerTab
<1>1. FlowInv => OneTransactionPerTab
  BY DEF FlowInv
<1>2. QED
  BY <1>1, FlowInvariant, PTL

\* MintButton.tsx: "Minted!" means that an authorization of that tab was accepted, or its
\* transaction went to another network or was replaced in the wallet.
THEOREM DoneAlwaysMinted == SpecFlow => []DoneIsMinted
<1>1. FlowInv => DoneIsMinted
  BY DEF FlowInv
<1>2. QED
  BY <1>1, FlowInvariant, PTL

\* mintAuthorizationService.ts: what it signs matches the contract, so a mint of it is
\* refused for what happened since, or for a token the wallet held or a signer the
\* contract had already when it was signed.
THEOREM RevertsAlwaysHaveCause == SpecFlow => RevertHasCause
<1>1. InitFlow => SignedInv
  BY DEF InitFlow, Init, SignedInv, Unused, Click
<1>2. FlowInv /\ SignedInv /\ FlowInv' /\ [NextFlow]_allVars => SignedInv'
  BY SignedInductive
<1>3. FlowInv /\ SignedInv /\ [NextFlow]_allVars =>
        [\A i \in Attempt :
            attempts[i].status = "pending" /\ attempts'[i].status = "reverted" =>
                \A att \in attempts[i].signed : VoidedSince(i, att) \/ VoidWhenSigned(i)]_allVars
  BY OnlyRevertsRevert, RevertsHaveCause
<1>4. QED
  BY <1>1, <1>2, <1>3, FlowInvariant, PTL DEF SpecFlow, RevertHasCause
=============================================================================
