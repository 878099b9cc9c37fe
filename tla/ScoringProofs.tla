--------------------------- MODULE ScoringProofs ---------------------------
(***************************************************************************)
(* What the scoring functions compute, proved for every list, clock and    *)
(* rule.                                                                   *)
(***************************************************************************)
EXTENDS Scoring, FiniteSetTheorems, TLAPS

(* What holds of 0 and goes from each number to the next holds up to N: of *)
(* the numbers it did not hold of, one would be the smallest.              *)
LEMMA Induction ==
  ASSUME NEW N \in Nat, NEW P, 0 \in P,
         \A n \in 0 .. N - 1 : n \in P => n + 1 \in P
  PROVE  \A n \in 0 .. N : n \in P
<1> DEFINE Missing == {n \in 0 .. N : n \notin P}
           Smaller == OpToRel(<, Nat)
<1> SUFFICES ASSUME Missing # {} PROVE FALSE
  OBVIOUS
<1>1. IsWellFoundedOn(Smaller, Nat)
  BY NatLessThanWellFounded
<1>2. Missing \subseteq Nat
  OBVIOUS
<1>3. PICK n \in Missing : \A m \in Missing : ~ (<<m, n>> \in Smaller)
  <2> HIDE DEF Missing, Smaller
  <2> QED BY <1>1, <1>2, WFMin
<1>4. \A m \in Nat : m < n => <<m, n>> \in Smaller
  BY DEF OpToRel
<1>5. n # 0
  OBVIOUS
<1>6. n - 1 \in 0 .. N - 1 /\ n - 1 \notin P
  BY <1>5
<1>7. n - 1 \in Missing /\ n - 1 < n
  BY <1>6
<1>8. <<n - 1, n>> \in Smaller
  BY <1>2, <1>4, <1>7
<1> QED
  BY <1>3, <1>7, <1>8

(* A function of a finite domain takes finitely many values.               *)
LEMMA ImageIsFinite ==
  ASSUME NEW f, IsFiniteSet(DOMAIN f)
  PROVE  IsFiniteSet({f[x] : x \in DOMAIN f})
<1> DEFINE g == [x \in DOMAIN f |-> f[x]]
<1>1. PICK D : D = DOMAIN f
  OBVIOUS
<1>2. PICK image : image = {f[x] : x \in D}
  OBVIOUS
<1>3. g \in Surjection(D, image)
  BY <1>1, <1>2 DEF Surjection
<1>4. IsFiniteSet(image)
  <2> HIDE DEF g
  <2> QED BY <1>1, <1>3, FS_Surjection
<1> QED
  BY <1>1, <1>2, <1>4

(* What every step of a loop keeps holds of all its values.                *)
LEMMA LoopStays ==
  ASSUME NEW N \in Nat, NEW S, NEW f, f[0] \in S,
         \A n \in 1 .. N : f[n - 1] \in S => f[n] \in S
  PROVE  \A n \in 0 .. N : f[n] \in S
<1> DEFINE P == {n \in 0 .. N : f[n] \in S}
<1>1. 0 \in P
  OBVIOUS
<1>2. ASSUME NEW n \in 0 .. N - 1, n \in P PROVE n + 1 \in P
  <2>1. n + 1 \in 1 .. N /\ (n + 1) - 1 = n /\ n + 1 \in 0 .. N
    OBVIOUS
  <2>2. f[n] \in S
    BY <1>2
  <2>3. f[n + 1] \in S
    BY <2>1, <2>2
  <2>4. QED
    BY <2>1, <2>3
<1>3. \A n \in 0 .. N : n \in P
  <2> HIDE DEF P
  <2> QED BY <1>1, <1>2, Induction
<1> QED
  BY <1>3

(* The values of a loop of N steps, before the first and after each.       *)
IsRun(f, N, S, base, step) ==
  /\ f \in [0 .. N -> S]
  /\ f[0] = base
  /\ \A n \in 1 .. N : f[n] = step[n][f[n - 1]]

(* Every loop has a run, whatever its steps do.                            *)
LEMMA LoopRuns ==
  ASSUME NEW N \in Nat, NEW S, NEW base \in S, NEW step \in [1 .. N -> [S -> S]]
  PROVE  \E f : IsRun(f, N, S, base, step)
<1> DEFINE Run(f, n) == /\ f \in [0 .. n -> S]
                        /\ f[0] = base
                        /\ \A m \in 1 .. n : f[m] = step[m][f[m - 1]]
           P == {n \in 0 .. N : \E f : Run(f, n)}
<1>1. 0 \in P
  <2>1. Run([m \in 0 .. 0 |-> base], 0)
    OBVIOUS
  <2>2. QED
    <3> HIDE DEF Run
    <3> QED BY <2>1
<1>2. ASSUME NEW n \in 0 .. N - 1, n \in P PROVE n + 1 \in P
  <2>1. PICK f : Run(f, n)
    BY <1>2
  <2> DEFINE g == [m \in 0 .. n + 1 |-> IF m = n + 1 THEN step[n + 1][f[n]] ELSE f[m]]
  <2>2. n + 1 \in 1 .. N /\ f[n] \in S
    BY <2>1
  <2>3. g \in [0 .. n + 1 -> S]
    BY <2>1, <2>2
  <2>4. g[0] = base
    BY <2>1
  <2>5. \A m \in 1 .. n + 1 : g[m] = step[m][g[m - 1]]
    BY <2>1, <2>2
  <2>6. Run(g, n + 1)
    BY <2>3, <2>4, <2>5
  <2>7. QED
    <3> HIDE DEF Run, g
    <3> QED BY <2>2, <2>6
<1>3. \A n \in 0 .. N : n \in P
  <2> HIDE DEF P
  <2> QED BY <1>1, <1>2, Induction
<1>4. N \in P
  BY <1>3
<1> QED
  BY <1>4 DEF IsRun

------------------------------------------------------------------------------
(* normalize.js                                                            *)

(* An address that is not malformed normalises to a contract.               *)
LEMMA NormalizeType ==
  ASSUME NEW raw \in ContractDeployment, raw.address # Malformed
  PROVE  NormalizeContract(raw) \in NormalizedContract
BY DEF NormalizeContract, NormalizedContract, ContractDeployment

(* The loop of NormalizeContracts, step by step.                           *)
LEMMA NormalizedSteps ==
  ASSUME NEW list \in Seq(ContractDeployment)
  PROVE  LET kept == Normalized(list)
         IN  /\ kept[0] = <<>>
             /\ \A n \in 1 .. Len(list) :
                    kept[n] = IF list[n].address = Malformed THEN kept[n - 1]
                              ELSE Append(kept[n - 1], NormalizeContract(list[n]))
             /\ \A n \in 0 .. Len(list) : kept[n] \in Seq(NormalizedContract)
<1> DEFINE N == Len(list)
           S == Seq(NormalizedContract)
           Step(n, s) == IF list[n].address = Malformed THEN s
                         ELSE Append(s, NormalizeContract(list[n]))
           Loop(g) == [n \in 0 .. N |-> IF n = 0 THEN <<>> ELSE Step(n, g[n - 1])]
           step == [n \in 1 .. N |-> [s \in S |-> Step(n, s)]]
           base == <<>>
<1>1. N \in Nat /\ base \in S
  OBVIOUS
<1>2. \A n \in 1 .. N, s \in S : Step(n, s) \in S
  BY NormalizeType
<1>3. step \in [1 .. N -> [S -> S]]
  BY <1>2
<1>4. PICK f : IsRun(f, N, S, base, step)
  <2> HIDE DEF step, S, N, base
  <2> QED BY <1>1, <1>3, LoopRuns
<1>5. f = Loop(f)
  <2> USE <1>4 DEF IsRun
  <2>1. \A n \in 1 .. N : f[n - 1] \in S
    OBVIOUS
  <2>2. \A n \in 1 .. N : f[n] = Step(n, f[n - 1])
    <3> HIDE DEF Step, S
    <3> QED BY <1>4, <2>1
  <2>3. \A n \in 0 .. N : n # 0 => n \in 1 .. N
    OBVIOUS
  <2>4. QED
    <3> HIDE DEF Step, S
    <3> QED BY <1>4, <2>2, <2>3
<1>6. Normalized(list) = CHOOSE g : g = Loop(g)
  BY DEF Normalized
<1>7. PICK kept : kept = Normalized(list) /\ kept = Loop(kept)
  <2> HIDE DEF Loop
  <2> QED BY <1>5, <1>6
<1>8. kept[0] = base /\ \A n \in 1 .. N : kept[n] = Step(n, kept[n - 1])
  <2>1. \A n \in 0 .. N : kept[n] = IF n = 0 THEN <<>> ELSE Step(n, kept[n - 1])
    <3> HIDE DEF Step
    <3> QED BY <1>7
  <2>2. \A n \in 1 .. N : n \in 0 .. N /\ n # 0
    OBVIOUS
  <2>3. QED
    <3> HIDE DEF Step
    <3> QED BY <1>1, <2>1, <2>2
<1>9. \A n \in 0 .. N : kept[n] \in S
  BY <1>1, <1>2, <1>8, LoopStays
<1> QED
  BY <1>7, <1>8, <1>9

(* Normalization keeps exactly the well-formed contracts.                  *)
LEMMA NormalizeContractsKeeps ==
  ASSUME NEW list \in Seq(ContractDeployment)
  PROVE  LET norm == NormalizeContracts(list)
         IN  /\ norm \in Seq(NormalizedContract)
             /\ \A j \in DOMAIN norm : \E i \in DOMAIN list :
                    list[i].address # Malformed /\ norm[j] = NormalizeContract(list[i])
             /\ \A i \in DOMAIN list : list[i].address # Malformed =>
                    \E j \in DOMAIN norm : norm[j] = NormalizeContract(list[i])
<1> DEFINE N == Len(list)
           Well(i) == list[i].address # Malformed
           new(i) == NormalizeContract(list[i])
           Kept(s, n) == /\ \A j \in DOMAIN s : \E i \in 1 .. n : Well(i) /\ s[j] = new(i)
                         /\ \A i \in 1 .. n : Well(i) => \E j \in DOMAIN s : s[j] = new(i)
<1>1. PICK kept :
         /\ kept = Normalized(list)
         /\ kept[0] = <<>>
         /\ \A n \in 1 .. N : kept[n] = IF Well(n) THEN Append(kept[n - 1], new(n))
                                      ELSE kept[n - 1]
         /\ \A n \in 0 .. N : kept[n] \in Seq(NormalizedContract)
  BY NormalizedSteps
<1> DEFINE P == {n \in 0 .. N : Kept(kept[n], n)}
<1>2. 0 \in P
  <2>1. Kept(<<>>, 0)
    OBVIOUS
  <2>2. QED
    <3> HIDE DEF Kept
    <3> QED BY <1>1, <2>1
<1>3. ASSUME NEW n \in 0 .. N - 1, n \in P PROVE n + 1 \in P
  <2>1. PICK s \in Seq(NormalizedContract) : s = kept[n] /\ Kept(s, n)
    BY <1>1, <1>3
  <2>2. n + 1 \in 1 .. N /\ n + 1 \in 0 .. N /\ (n + 1) - 1 = n /\ n \in Nat
    OBVIOUS
  <2>3. CASE ~ Well(n + 1)
    <3>1. kept[n + 1] = s
      BY <1>1, <2>1, <2>2, <2>3
    <3>2. Kept(s, n + 1)
      <4> HIDE DEF Well, new
      <4> QED BY <2>1, <2>2, <2>3
    <3>3. QED
      <4> HIDE DEF Kept
      <4> QED BY <2>2, <3>1, <3>2
  <2>4. CASE Well(n + 1)
    <3>1. kept[n + 1] = Append(s, new(n + 1))
      <4> HIDE DEF Well, new
      <4> QED BY <1>1, <2>1, <2>2, <2>4
    <3>2. list[n + 1] \in ContractDeployment
      BY <2>2
    <3>3. new(n + 1) \in NormalizedContract
      BY <2>4, <3>2, NormalizeType
    <3> DEFINE t == Append(s, new(n + 1))
    <3>4. /\ DOMAIN t = 1 .. Len(s) + 1 /\ DOMAIN s = 1 .. Len(s) /\ Len(s) \in Nat
          /\ t[Len(s) + 1] = new(n + 1)
          /\ \A j \in DOMAIN s : t[j] = s[j]
      <4> HIDE DEF new
      <4> QED BY <3>3
    <3>5. Kept(t, n + 1)
      <4> HIDE DEF Well, new, t
      <4>1. \A j \in DOMAIN t : \E i \in 1 .. n + 1 : Well(i) /\ t[j] = new(i)
        <5>1. \A j \in DOMAIN t : j \in DOMAIN s \/ j = Len(s) + 1
          BY <3>4
        <5>2. \A i \in 1 .. n : i \in 1 .. n + 1
          BY <2>2
        <5>3. n + 1 \in 1 .. n + 1
          BY <2>2
        <5> QED
          BY <2>1, <2>4, <3>4, <5>1, <5>2, <5>3
      <4>2. \A i \in 1 .. n + 1 : Well(i) => \E j \in DOMAIN t : t[j] = new(i)
        <5>1. \A i \in 1 .. n + 1 : i \in 1 .. n \/ i = n + 1
          BY <2>2
        <5>2. \A j \in DOMAIN s : j \in DOMAIN t
          BY <3>4
        <5>3. Len(s) + 1 \in DOMAIN t
          BY <3>4
        <5> QED
          BY <2>1, <3>4, <5>1, <5>2, <5>3
      <4>3. QED
        BY <4>1, <4>2
    <3>6. QED
      <4> HIDE DEF Kept, t
      <4> QED BY <2>2, <3>1, <3>5 DEF t
  <2>5. QED
    BY <2>3, <2>4
<1>4. N \in Nat /\ N \in 0 .. N
  OBVIOUS
<1>5. \A n \in 0 .. N : n \in P
  <2> HIDE DEF P, N
  <2> QED BY <1>2, <1>3, <1>4, Induction
<1>6. Kept(kept[N], N)
  BY <1>4, <1>5
<1>7. NormalizeContracts(list) = kept[N] /\ N \in 0 .. N /\ DOMAIN list = 1 .. N
  BY <1>1 DEF NormalizeContracts
<1>8. kept[N] \in Seq(NormalizedContract)
  BY <1>1, <1>4
<1> QED
  <2> HIDE DEF new
  <2> QED BY <1>6, <1>7, <1>8 DEF new

(* A list of contracts, entry by entry.                                    *)
LEMMA EntriesAreContracts ==
  ASSUME NEW list \in Seq(NormalizedContract)
  PROVE  \A i \in DOMAIN list : /\ list[i] \in NormalizedContract
                                /\ list[i].timestamp \in Nat
<1>1. \A i \in DOMAIN list : list[i] \in NormalizedContract
  OBVIOUS
<1> QED
  BY <1>1 DEF NormalizedContract

(* The record of an address that the map is left with.                     *)
AsOldAs(c, d) ==
  /\ c.address = d.address
  /\ d.timestamp = 0 \/ (c.timestamp > 0 /\ c.timestamp <= d.timestamp)

Distinct(list) ==
  \A i, j \in DOMAIN list : list[i].address = list[j].address => i = j

(* Inserting a contract into a list of contracts gives one.                *)
LEMMA InsertType ==
  ASSUME NEW s \in Seq(NormalizedContract), NEW c \in NormalizedContract
  PROVE  Insert(s, c) \in Seq(NormalizedContract)
<1>1. /\ Len(s) \in Nat /\ DOMAIN s = 1 .. Len(s)
      /\ \A k \in DOMAIN s : s[k] \in NormalizedContract
  OBVIOUS
<1>2. Append(s, c) \in Seq(NormalizedContract)
  OBVIOUS
<1>3. [i \in DOMAIN s |-> IF s[i].address # c.address \/ KeepExisting(s[i], c)
                          THEN s[i] ELSE c] \in Seq(NormalizedContract)
  BY <1>1
<1> QED
  BY <1>2, <1>3, Zenon DEF Insert

(* A contract that is inserted is there or an older one of its address is, *)
(* and so it is with what was there before.                                *)
LEMMA InsertKeepsOldest ==
  ASSUME NEW s \in Seq(NormalizedContract), NEW c \in NormalizedContract, Distinct(s)
  PROVE  LET t == Insert(s, c)
         IN  /\ t \in Seq(NormalizedContract)
             /\ Distinct(t)
             /\ \A j \in DOMAIN t : t[j] = c \/ \E k \in DOMAIN s : t[j] = s[k]
             /\ \A k \in DOMAIN s : \E j \in DOMAIN t : AsOldAs(t[j], s[k])
             /\ \E j \in DOMAIN t : AsOldAs(t[j], c)
<1> DEFINE t == Insert(s, c)
<1>1. /\ Len(s) \in Nat /\ DOMAIN s = 1 .. Len(s)
      /\ \A k \in DOMAIN s : s[k] \in NormalizedContract
  OBVIOUS
<1>2. \A d \in NormalizedContract : d.timestamp \in Nat /\ AsOldAs(d, d)
  BY DEF NormalizedContract, AsOldAs
<1>3. CASE \A i \in DOMAIN s : s[i].address # c.address
  <2>1. t = Append(s, c)
    BY <1>3 DEF Insert
  <2>2. /\ t \in Seq(NormalizedContract) /\ DOMAIN t = 1 .. Len(s) + 1
        /\ t[Len(s) + 1] = c
        /\ \A k \in DOMAIN s : t[k] = s[k] /\ k \in DOMAIN t
    BY <1>1, <2>1
  <2>3. Distinct(t)
    BY <1>1, <1>3, <2>2 DEF Distinct
  <2>4. QED
    BY <1>1, <1>2, <2>2, <2>3
<1>4. CASE ~ \A i \in DOMAIN s : s[i].address # c.address
  <2>1. t = [i \in DOMAIN s |->
               IF s[i].address # c.address \/ KeepExisting(s[i], c) THEN s[i] ELSE c]
    BY <1>4, Zenon DEF Insert
  <2>2. /\ DOMAIN t = DOMAIN s
        /\ \A k \in DOMAIN s : t[k] = s[k] \/ (s[k].address = c.address /\ t[k] = c
                                              /\ ~ KeepExisting(s[k], c))
        /\ \A k \in DOMAIN s : s[k].address = c.address /\ KeepExisting(s[k], c)
                               => t[k] = s[k]
        /\ \A k \in DOMAIN s : s[k].address = c.address /\ ~ KeepExisting(s[k], c)
                               => t[k] = c
    BY <2>1
  <2>3. t \in Seq(NormalizedContract)
    BY <1>1, <2>1
  <2>4. \A k \in DOMAIN s : t[k].address = s[k].address
    BY <2>2
  <2>5. Distinct(t)
    BY <2>2, <2>4 DEF Distinct
  <2>6. \A k \in DOMAIN s : AsOldAs(t[k], s[k])
    <3> SUFFICES ASSUME NEW k \in DOMAIN s, t[k] # s[k] PROVE AsOldAs(t[k], s[k])
      BY <1>1, <1>2
    <3>1. s[k].address = c.address /\ t[k] = c /\ ~ KeepExisting(s[k], c)
      BY <2>2
    <3>2. s[k].timestamp \in Nat /\ c.timestamp \in Nat
      BY <1>1, <1>2
    <3>3. QED
      BY <3>1, <3>2 DEF AsOldAs, KeepExisting
  <2>7. PICK k \in DOMAIN s : s[k].address = c.address
    BY <1>4
  <2>8. AsOldAs(t[k], c)
    <3>1. CASE KeepExisting(s[k], c)
      BY <2>2, <2>7, <3>1, <1>1, <1>2 DEF AsOldAs, KeepExisting
    <3>2. CASE ~ KeepExisting(s[k], c)
      BY <2>2, <2>7, <3>2, <1>2
    <3>3. QED
      BY <3>1, <3>2
  <2>9. QED
    BY <2>2, <2>3, <2>5, <2>6, <2>8
<1> QED
  BY <1>3, <1>4

(* The loop of Deduplicate, step by step.                                  *)
LEMMA DeduplicatedSteps ==
  ASSUME NEW list \in Seq(NormalizedContract)
  PROVE  LET seen == Deduplicated(list)
         IN  /\ seen[0] = <<>>
             /\ \A n \in 1 .. Len(list) : seen[n] = Insert(seen[n - 1], list[n])
<1> DEFINE N == Len(list)
           S == Seq(NormalizedContract)
           Step(n, s) == Insert(s, list[n])
           Loop(g) == [n \in 0 .. N |-> IF n = 0 THEN <<>> ELSE Step(n, g[n - 1])]
           step == [n \in 1 .. N |-> [s \in S |-> Step(n, s)]]
           base == <<>>
<1>1. N \in Nat /\ base \in S
  OBVIOUS
<1>2. \A n \in 1 .. N, s \in S : Step(n, s) \in S
  <2> SUFFICES ASSUME NEW n \in 1 .. N, NEW s \in S PROVE Step(n, s) \in S
    OBVIOUS
  <2>1. list[n] \in NormalizedContract
    OBVIOUS
  <2>2. QED
    BY <2>1, InsertType
<1>3. step \in [1 .. N -> [S -> S]]
  BY <1>2
<1>4. PICK f : IsRun(f, N, S, base, step)
  <2> HIDE DEF step, S, N, base
  <2> QED BY <1>1, <1>3, LoopRuns
<1>5. f = Loop(f)
  <2> USE <1>4 DEF IsRun
  <2>1. \A n \in 1 .. N : f[n - 1] \in S
    OBVIOUS
  <2>2. \A n \in 1 .. N : f[n] = Step(n, f[n - 1])
    <3> HIDE DEF Step, S
    <3> QED BY <1>4, <2>1
  <2>3. \A n \in 0 .. N : n # 0 => n \in 1 .. N
    OBVIOUS
  <2>4. QED
    <3> HIDE DEF Step, S
    <3> QED BY <1>4, <2>2, <2>3
<1>6. Deduplicated(list) = CHOOSE g : g = Loop(g)
  BY DEF Deduplicated
<1>7. PICK seen : seen = Deduplicated(list) /\ seen = Loop(seen)
  <2> HIDE DEF Loop
  <2> QED BY <1>5, <1>6
<1>8. seen[0] = base /\ \A n \in 1 .. N : seen[n] = Step(n, seen[n - 1])
  <2>1. \A n \in 0 .. N : seen[n] = IF n = 0 THEN <<>> ELSE Step(n, seen[n - 1])
    <3> HIDE DEF Step
    <3> QED BY <1>7
  <2>2. \A n \in 1 .. N : n \in 0 .. N /\ n # 0
    OBVIOUS
  <2>3. QED
    <3> HIDE DEF Step
    <3> QED BY <1>1, <2>1, <2>2
<1> QED
  BY <1>7, <1>8

(* Of every address deduplication leaves one contract, none older of which *)
(* was on the list.                                                        *)
LEMMA DeduplicateKeepsOldest ==
  ASSUME NEW list \in Seq(NormalizedContract)
  PROVE  LET left == DeduplicateContracts(list)
         IN  /\ left \in Seq(NormalizedContract)
             /\ Distinct(left)
             /\ \A j \in DOMAIN left : \E i \in DOMAIN list : left[j] = list[i]
             /\ \A i \in DOMAIN list :
                    \E j \in DOMAIN left : AsOldAs(left[j], list[i])
<1> DEFINE N == Len(list)
           Left(s, n) == /\ s \in Seq(NormalizedContract)
                         /\ Distinct(s)
                         /\ \A j \in DOMAIN s : \E i \in 1 .. n : s[j] = list[i]
                         /\ \A i \in 1 .. n : \E j \in DOMAIN s : AsOldAs(s[j], list[i])
<1>1. PICK seen : /\ seen = Deduplicated(list)
                  /\ seen[0] = <<>>
                  /\ \A n \in 1 .. N : seen[n] = Insert(seen[n - 1], list[n])
  BY DeduplicatedSteps
<1> DEFINE P == {n \in 0 .. N : Left(seen[n], n)}
<1>2. 0 \in P
  <2>1. Left(<<>>, 0)
    BY DEF Distinct
  <2>2. QED
    <3> HIDE DEF Left
    <3> QED BY <1>1, <2>1
<1>3. ASSUME NEW n \in 0 .. N - 1, n \in P PROVE n + 1 \in P
  <2>1. PICK s : s = seen[n] /\ Left(s, n)
    BY <1>3
  <2>2. n + 1 \in 1 .. N /\ n + 1 \in 0 .. N /\ (n + 1) - 1 = n /\ n \in Nat
    OBVIOUS
  <2>3. PICK c \in NormalizedContract : c = list[n + 1]
    BY <2>2
  <2>4. PICK t : t = Insert(s, c)
    OBVIOUS
  <2>5. seen[n + 1] = t
    BY <1>1, <2>1, <2>2, <2>3, <2>4
  <2>6. /\ t \in Seq(NormalizedContract)
        /\ Distinct(t)
        /\ \A j \in DOMAIN t : t[j] = c \/ \E k \in DOMAIN s : t[j] = s[k]
        /\ \A k \in DOMAIN s : \E j \in DOMAIN t : AsOldAs(t[j], s[k])
        /\ \E j \in DOMAIN t : AsOldAs(t[j], c)
    <3>1. s \in Seq(NormalizedContract) /\ Distinct(s)
      BY <2>1
    <3> HIDE DEF Left, P
    <3> QED BY ONLY <2>4, <3>1, InsertKeepsOldest
  <2>7. /\ \A i \in 1 .. n : i \in 1 .. n + 1
        /\ \A i \in 1 .. n + 1 : i \in 1 .. n \/ i = n + 1
        /\ n + 1 \in 1 .. n + 1
    BY <2>2
  <2>8. \A j \in DOMAIN t : \E i \in 1 .. n + 1 : t[j] = list[i]
    <3>1. \A k \in DOMAIN s : \E i \in 1 .. n : s[k] = list[i]
      BY <2>1
    <3> HIDE DEF Left, P
    <3> QED BY <2>3, <2>6, <2>7, <3>1
  <2>9. \A k \in DOMAIN s : s[k].timestamp \in Nat
    <3>1. s \in Seq(NormalizedContract)
      BY <2>1
    <3> QED BY ONLY <3>1, EntriesAreContracts
  <2>10. \A j \in DOMAIN t : t[j].timestamp \in Nat
    BY ONLY <2>6, EntriesAreContracts
  <2>11. \A i \in 1 .. n + 1 : list[i].timestamp \in Nat
    <3>1. \A i \in 1 .. n + 1 : i \in DOMAIN list
      BY <2>2
    <3> QED BY <3>1, EntriesAreContracts
  <2>12. ASSUME NEW i \in 1 .. n PROVE \E j \in DOMAIN t : AsOldAs(t[j], list[i])
    <3>1. PICK k \in DOMAIN s : AsOldAs(s[k], list[i])
      BY <2>1
    <3>2. PICK j \in DOMAIN t : AsOldAs(t[j], s[k])
      BY <2>6
    <3>3. AsOldAs(t[j], list[i])
      BY <2>7, <2>9, <2>10, <2>11, <3>1, <3>2 DEF AsOldAs
    <3>4. QED
      BY <3>3
  <2>13. Left(t, n + 1)
    BY <2>3, <2>6, <2>7, <2>8, <2>12
  <2>14. QED
    <3> HIDE DEF Left
    <3> QED BY <2>2, <2>5, <2>13
<1>4. N \in Nat /\ N \in 0 .. N
  OBVIOUS
<1>5. \A n \in 0 .. N : n \in P
  <2> HIDE DEF P, N
  <2> QED BY <1>2, <1>3, <1>4, Induction
<1>6. Left(seen[N], N)
  BY <1>4, <1>5
<1>7. DeduplicateContracts(list) = seen[N] /\ DOMAIN list = 1 .. N
  BY <1>1 DEF DeduplicateContracts
<1> QED
  BY <1>6, <1>7

(* Normalization changes nothing but a timestamp that is none.             *)
LEMMA NormalizeValue ==
  ASSUME NEW raw \in ContractDeployment
  PROVE  LET c == NormalizeContract(raw)
         IN  /\ c.address = raw.address
             /\ c.isVerified = raw.isVerified
             /\ c.timestamp = IF raw.timestamp > 0 THEN raw.timestamp ELSE 0
BY DEF NormalizeContract, ContractDeployment

------------------------------------------------------------------------------
(* Windows over the contracts in the order of their timestamps.            *)

(* at lists the places in which the contracts with a timestamp stand, each *)
(* once and the oldest first.                                              *)
IsOrder(list, at) ==
  LET n == Cardinality(Known(list))
      t == Timestamped(list)
  IN  /\ n \in Nat
      /\ at \in [1 .. n -> Known(list)]
      /\ \A i \in Known(list) : \E k \in 1 .. n : at[k] = i
      /\ \A j, k \in 1 .. n : at[j] = at[k] => j = k
      /\ t = [k \in 1 .. n |-> list[at[k]]]
      /\ \A j, k \in 1 .. n : j <= k => list[at[j]].timestamp <= list[at[k]].timestamp

(* Counting the contracts that do not come after each puts them in order.  *)
LEMMA RanksOrder ==
  ASSUME NEW list \in Seq(NormalizedContract)
  PROVE  \E at : IsOrder(list, at)
<1> DEFINE K == Known(list)
           n == Cardinality(K)
           Rank(i) == Cardinality(NotAfter(list, i))
           time(i) == list[i].timestamp
           Before(i, j) == time(i) < time(j) \/ (time(i) = time(j) /\ i <= j)
           at == [k \in 1 .. n |-> CHOOSE i \in K : Rank(i) = k]
           rank == [i \in K |-> Rank(i)]
<1>1. K \subseteq Nat /\ IsFiniteSet(K) /\ n \in Nat /\ K \subseteq DOMAIN list
  <2>1. Len(list) \in Nat /\ DOMAIN list = 1 .. Len(list)
    OBVIOUS
  <2>2. K \subseteq 1 .. Len(list)
    BY <2>1 DEF Known
  <2>3. IsFiniteSet(1 .. Len(list))
    BY <2>1, FS_Interval
  <2> HIDE DEF K
  <2>4. IsFiniteSet(K)
    BY <2>2, <2>3, FS_Subset
  <2>5. QED
    BY <2>1, <2>2, <2>4, FS_CardinalityType
<1>2. \A i \in K : time(i) \in Nat
  BY <1>1, EntriesAreContracts
<1>3. \A i \in K : NotAfter(list, i) = {j \in K : Before(j, i)}
  BY DEF NotAfter
<1>4. \A i \in K : IsFiniteSet(NotAfter(list, i)) /\ Rank(i) \in 1 .. n
  <2> SUFFICES ASSUME NEW i \in K
               PROVE  IsFiniteSet(NotAfter(list, i)) /\ Rank(i) \in 1 .. n
    OBVIOUS
  <2>1. NotAfter(list, i) \in SUBSET K /\ i \in NotAfter(list, i)
    BY <1>1, <1>2, <1>3
  <2> HIDE DEF K
  <2>2. IsFiniteSet(NotAfter(list, i)) /\ Rank(i) <= n
    BY <1>1, <2>1, FS_Subset
  <2>3. Rank(i) \in Nat /\ Rank(i) # 0
    BY <2>1, <2>2, FS_CardinalityType, FS_EmptySet
  <2>4. QED
    BY <1>1, <2>2, <2>3
<1>5. \A i, j \in K : i # j /\ Before(i, j) => Rank(i) < Rank(j)
  <2> SUFFICES ASSUME NEW i \in K, NEW j \in K, i # j, Before(i, j)
               PROVE  Rank(i) < Rank(j)
    OBVIOUS
  <2>1. NotAfter(list, i) \subseteq NotAfter(list, j)
    BY <1>1, <1>2, <1>3
  <2>2. j \in NotAfter(list, j) /\ j \notin NotAfter(list, i)
    BY <1>1, <1>2, <1>3
  <2>3. PICK A : A = NotAfter(list, i) /\ IsFiniteSet(A)
    BY <1>4
  <2>4. PICK B : B = NotAfter(list, j) /\ IsFiniteSet(B)
    BY <1>4
  <2>5. A \in SUBSET B /\ A # B
    BY <2>1, <2>2, <2>3, <2>4
  <2>6. Cardinality(A) <= Cardinality(B) /\ Cardinality(A) # Cardinality(B)
    BY <2>4, <2>5, FS_Subset
  <2>7. Cardinality(A) \in Nat /\ Cardinality(B) \in Nat
    BY <2>3, <2>4, FS_CardinalityType
  <2>8. QED
    BY <2>3, <2>4, <2>6, <2>7
<1>6. \A i, j \in K : i = j \/ Before(i, j) \/ Before(j, i)
  BY <1>1, <1>2
<1>7. \A i, j \in K : Rank(i) = Rank(j) => i = j
  <2> HIDE DEF K, Before, Rank, n
  <2>1. \A i \in K : Rank(i) \in Int
    BY <1>4
  <2>2. QED
    BY <1>5, <1>6, <2>1
<1>8. \A k \in 1 .. n : \E i \in K : Rank(i) = k
  <2>1. rank \in Injection(K, 1 .. n)
    <3> HIDE DEF K, n, Rank
    <3> QED BY <1>4, <1>7 DEF Injection, IsInjective
  <2>2. IsFiniteSet(1 .. n) /\ Cardinality(1 .. n) = n
    <3> HIDE DEF n
    <3> QED BY <1>1, FS_Interval
  <2>3. rank \in Surjection(K, 1 .. n)
    <3>1. PICK T : T = 1 .. n
      OBVIOUS
    <3>2. Cardinality(K) = Cardinality(T) /\ IsFiniteSet(T) /\ rank \in Injection(K, T)
      BY <2>1, <2>2, <3>1
    <3>3. rank \in Surjection(K, T)
      <4> HIDE DEF K, n, rank
      <4> QED BY <3>2, FS_Injection
    <3>4. QED
      BY <3>1, <3>3
  <2>4. QED
    <3> HIDE DEF K, n, Rank
    <3> QED BY <2>3 DEF Surjection
<1>9. \A k \in 1 .. n : at[k] \in K /\ Rank(at[k]) = k
  <2> HIDE DEF K, n, Rank
  <2> QED BY <1>8
<1>10. \A i \in K : Rank(i) \in 1 .. n /\ at[Rank(i)] = i
  <2> HIDE DEF K, n, Rank, at
  <2> QED BY <1>4, <1>7, <1>9
<1>11. \A j, k \in 1 .. n : j <= k => time(at[j]) <= time(at[k])
  <2> SUFFICES ASSUME NEW j \in 1 .. n, NEW k \in 1 .. n, j <= k,
                      time(at[k]) < time(at[j])
               PROVE  FALSE
    <3>1. \A k \in 1 .. n : time(at[k]) \in Nat
      <4> HIDE DEF time, at, K, n
      <4> QED BY <1>2, <1>9
    <3> HIDE DEF time, at
    <3> QED BY <3>1
  <2>1. PICK x \in K : x = at[j] /\ Rank(x) = j
    BY <1>9
  <2>2. PICK y \in K : y = at[k] /\ Rank(y) = k
    BY <1>9
  <2>3. Before(y, x) /\ y # x
    <3>1. time(y) < time(x)
      <4> HIDE DEF time, at
      <4> QED BY <2>1, <2>2
    <3>2. QED
      <4>1. time(x) \in Nat /\ time(y) \in Nat
        BY <1>2, <2>1, <2>2
      <4> QED BY <3>1, <4>1
  <2>4. k < j
    <3> HIDE DEF Before, Rank, at, K, n
    <3> QED BY <1>5, <2>1, <2>2, <2>3
  <2>5. QED
    <3> HIDE DEF n
    <3> QED BY <1>1, <2>4
<1>12. Timestamped(list) = [k \in 1 .. n |-> list[at[k]]]
  BY DEF Timestamped
<1>13. IsOrder(list, at)
  <2> HIDE DEF at, Rank, time
  <2>1. \A i \in K : \E k \in 1 .. n : at[k] = i
    BY <1>10
  <2>2. \A j, k \in 1 .. n : at[j] = at[k] => j = k
    <3> HIDE DEF n, K
    <3> QED BY <1>9
  <2>3. at \in [1 .. n -> K]
    <3>1. at = [k \in 1 .. n |-> at[k]]
      BY DEF at
    <3> QED BY <1>9, <3>1
  <2>4. QED
    BY <1>1, <1>11, <1>12, <2>1, <2>2, <2>3 DEF IsOrder, time
<1> QED
  BY <1>13

(* Of three moments that are close to each other, every one is in a window *)
(* of three that follow each other.                                        *)
LEMMA CloseInWindow ==
  ASSUME NEW n \in Nat, NEW time \in [1 .. n -> Nat], NEW W \in Nat,
         \A j, k \in 1 .. n : j <= k => time[j] <= time[k],
         NEW p \in 1 .. n, NEW q \in 1 .. n, NEW r \in 1 .. n,
         p # q, q # r, p # r,
         time[p] - time[q] \in -W .. W, time[q] - time[r] \in -W .. W,
         time[p] - time[r] \in -W .. W
  PROVE  \E i \in 1 .. n - 2 : p \in i .. i + 2 /\ time[i + 2] - time[i] <= W
<1>1. ASSUME NEW lo \in {p, q, r}, NEW hi \in {p, q, r}, p \in lo .. hi, hi >= lo + 2
      PROVE  \E i \in 1 .. n - 2 : p \in i .. i + 2 /\ time[i + 2] - time[i] <= W
  <2>1. lo \in 1 .. n /\ hi \in 1 .. n
    OBVIOUS
  <2>2. time[hi] - time[lo] <= W /\ time[hi] - time[p] <= W /\ time[p] - time[lo] <= W
    <3>1. time[p] \in Nat /\ time[q] \in Nat /\ time[r] \in Nat
      OBVIOUS
    <3>2. /\ time[p] - time[q] <= W /\ time[q] - time[p] <= W
          /\ time[q] - time[r] <= W /\ time[r] - time[q] <= W
          /\ time[p] - time[r] <= W /\ time[r] - time[p] <= W
      <4>1. \A x, y \in Nat : x - y \in -W .. W => x - y <= W /\ y - x <= W
        BY ONLY W \in Nat
      <4>2. QED
        BY <3>1, <4>1
    <3>3. /\ time[p] - time[p] <= W /\ time[q] - time[q] <= W
          /\ time[r] - time[r] <= W
      BY <3>1
    <3>4. QED
      BY <3>2, <3>3
  <2>3. CASE p + 2 <= hi
    <3>1. p + 2 \in 1 .. n /\ p \in 1 .. n - 2
      BY <1>1, <2>1, <2>3
    <3>2. time[p + 2] <= time[hi]
      BY <2>1, <2>3, <3>1
    <3>3. time[p + 2] - time[p] <= W
      <4>1. time[p + 2] \in Nat /\ time[p] \in Nat /\ time[hi] \in Nat
        BY <2>1, <3>1
      <4>2. QED
        BY ONLY <2>2, <3>2, <4>1, W \in Nat
    <3>4. p \in p .. p + 2
      OBVIOUS
    <3>5. QED
      BY <3>1, <3>3, <3>4
  <2>4. CASE p >= lo + 2
    <3>1. p - 2 \in 1 .. n - 2 /\ p - 2 \in 1 .. n /\ (p - 2) + 2 = p /\ p \in p - 2 .. p
      BY <1>1, <2>1, <2>4
    <3>2. time[lo] <= time[p - 2]
      BY <1>1, <2>1, <2>4, <3>1
    <3>3. time[p] - time[p - 2] <= W
      <4>1. time[p - 2] \in Nat /\ time[p] \in Nat /\ time[lo] \in Nat
        BY <2>1, <3>1
      <4>2. QED
        BY ONLY <2>2, <3>2, <4>1, W \in Nat
    <3>4. QED
      BY <3>1, <3>3
  <2>5. CASE p + 2 > hi /\ p < lo + 2
    <3>1. hi = lo + 2 /\ lo \in 1 .. n - 2 /\ p \in lo .. lo + 2
      BY <1>1, <2>1, <2>5
    <3>2. QED
      BY <2>2, <3>1
  <2>6. QED
    BY <1>1, <2>1, <2>3, <2>4, <2>5
<1>2. \E lo, hi \in {p, q, r} : p \in lo .. hi /\ hi >= lo + 2
  <2> DEFINE lo == IF p <= q /\ p <= r THEN p ELSE IF q <= r THEN q ELSE r
             hi == IF p >= q /\ p >= r THEN p ELSE IF q >= r THEN q ELSE r
  <2>1. p \in Int /\ q \in Int /\ r \in Int
    OBVIOUS
  <2>2. lo \in {p, q, r} /\ hi \in {p, q, r} /\ p \in lo .. hi /\ hi >= lo + 2
    BY <2>1
  <2> HIDE DEF lo, hi
  <2>3. QED
    BY <2>2
<1> QED
  BY <1>1, <1>2

(* In terms of the order, a burst is a window of three.                    *)
LEMMA BurstWindows ==
  ASSUME NEW list \in Seq(NormalizedContract), NEW at, IsOrder(list, at)
  PROVE  LET n == Cardinality(Known(list))
             Start(i) == list[at[i + 2]].timestamp - list[at[i]].timestamp <= BurstWindow
         IN  /\ DetectBurstContracts(list) =
                    {a \in {list[at[j]].address : j \in 1 .. n} :
                        \E i \in 1 .. n - 2, j \in 1 .. n :
                            Start(i) /\ j \in i .. i + 2 /\ a = list[at[j]].address}
             /\ DetectBurst(list) <=> \E i \in 1 .. n - 2 : Start(i)
<1> DEFINE n == Cardinality(Known(list))
           t == Timestamped(list)
           Start(i) == list[at[i + 2]].timestamp - list[at[i]].timestamp <= BurstWindow
           Starts == {i \in 1 .. Len(t) - BurstThreshold + 1 :
                        t[i + BurstThreshold - 1].timestamp - t[i].timestamp <= BurstWindow}
<1>1. /\ n \in Nat /\ Len(t) = n
      /\ \A k \in 1 .. n : t[k] = list[at[k]]
  BY DEF IsOrder
<1>2. BurstThreshold = 3
  BY DEF BurstThreshold
<1>3. \A i : i \in 1 .. Len(t) - BurstThreshold + 1 <=> i \in 1 .. n - 2
  BY <1>1, <1>2
<1>4. \A i \in 1 .. n - 2 : /\ i + BurstThreshold - 1 = i + 2
                            /\ i \in 1 .. n /\ i + 2 \in 1 .. n
                            /\ \A j \in i .. i + 2 : j \in 1 .. n
  BY <1>1, <1>2
<1>5. \A i \in 1 .. n - 2 :
        t[i + BurstThreshold - 1].timestamp - t[i].timestamp <= BurstWindow <=> Start(i)
  BY <1>1, <1>4
<1>6. DetectBurstContracts(list) =
        UNION {{t[j].address : j \in i .. i + BurstThreshold - 1} : i \in Starts}
  BY DEF DetectBurstContracts
<1>7. Starts = {i \in 1 .. n - 2 : Start(i)}
  <2> HIDE DEF t, n, Start
  <2> QED BY <1>3, <1>5
<1>8. \A i \in 1 .. n - 2 : {t[j].address : j \in i .. i + BurstThreshold - 1}
                             = {list[at[j]].address : j \in i .. i + 2}
  <2> HIDE DEF t, n
  <2> QED BY <1>1, <1>4
<1>9. DetectBurstContracts(list) =
        UNION {{list[at[j]].address : j \in i .. i + 2} : i \in {i \in 1 .. n - 2 : Start(i)}}
  <2> HIDE DEF Starts, t, n, Start
  <2> QED BY <1>6, <1>7, <1>8
<1>10. DetectBurst(list) <=> \E i \in 1 .. n - 2 : Start(i)
  <2> HIDE DEF t, n, Start
  <2> QED BY <1>3, <1>5 DEF DetectBurst, t
<1>11. DetectBurstContracts(list) =
          {a \in {list[at[j]].address : j \in 1 .. n} :
              \E i \in 1 .. n - 2, j \in 1 .. n :
                  Start(i) /\ j \in i .. i + 2 /\ a = list[at[j]].address}
  <2> HIDE DEF t, n, Start, Starts
  <2>1. ASSUME NEW a \in DetectBurstContracts(list)
        PROVE  \E i \in 1 .. n - 2, j \in 1 .. n :
                  Start(i) /\ j \in i .. i + 2 /\ a = list[at[j]].address
    <3>1. PICK i \in 1 .. n - 2 :
            Start(i) /\ a \in {list[at[j]].address : j \in i .. i + 2}
      BY <1>9
    <3>2. QED
      BY <1>4, <3>1
  <2>2. ASSUME NEW i \in 1 .. n - 2, NEW j \in 1 .. n, Start(i), j \in i .. i + 2
        PROVE  list[at[j]].address \in DetectBurstContracts(list)
    BY <1>9, <2>2
  <2>3. QED
    BY <2>1, <2>2
<1> QED
  BY <1>10, <1>11

(* x is one of three contracts deployed within a window.                   *)
Near(list, x, y) ==
  /\ x # y
  /\ list[x].timestamp - list[y].timestamp \in -BurstWindow .. BurstWindow

InTriple(list, x) ==
  \E y, z \in Known(list) : Near(list, x, y) /\ Near(list, y, z) /\ Near(list, x, z)

(* The detectors do not depend on how ties are sorted: a burst is three    *)
(* contracts close to each other, wherever they are on the list.           *)
LEMMA BurstsAreNear ==
  ASSUME NEW list \in Seq(NormalizedContract)
  PROVE  /\ DetectBurstContracts(list) =
                {list[x].address : x \in {x \in Known(list) : InTriple(list, x)}}
         /\ DetectBurst(list) <=> \E x \in Known(list) : InTriple(list, x)
<1>1. PICK at : IsOrder(list, at)
  BY RanksOrder
<1> DEFINE n == Cardinality(Known(list))
           time == [k \in 1 .. n |-> list[at[k]].timestamp]
           Start(i) == list[at[i + 2]].timestamp - list[at[i]].timestamp <= BurstWindow
           InWindow(j) == \E i \in 1 .. n - 2 : Start(i) /\ j \in i .. i + 2
<1>2. /\ n \in Nat /\ at \in [1 .. n -> Known(list)]
      /\ \A x \in Known(list) : \E k \in 1 .. n : at[k] = x
      /\ \A j, k \in 1 .. n : at[j] = at[k] => j = k
      /\ \A j, k \in 1 .. n : j <= k => time[j] <= time[k]
  BY <1>1 DEF IsOrder
<1>3. time \in [1 .. n -> Nat]
  <2>1. \A x \in Known(list) : list[x].timestamp \in Nat
    BY EntriesAreContracts DEF Known
  <2>2. QED
    BY <1>2, <2>1
<1>4. \A i \in 1 .. n - 2 : /\ i \in 1 .. n /\ i + 2 \in 1 .. n
                            /\ Start(i) <=> time[i + 2] - time[i] <= BurstWindow
                            /\ \A j \in i .. i + 2 : j \in 1 .. n
  BY <1>2
<1>5. ASSUME NEW j \in 1 .. n, InWindow(j) PROVE InTriple(list, at[j])
  <2>1. PICK i \in 1 .. n - 2 : Start(i) /\ j \in i .. i + 2
    BY <1>5
  <2>2. ASSUME NEW u \in i .. i + 2, NEW v \in i .. i + 2, u # v
        PROVE  Near(list, at[u], at[v])
    <3>1. u \in 1 .. n /\ v \in 1 .. n /\ i \in 1 .. n /\ i + 2 \in 1 .. n
      BY <1>4
    <3>2. at[u] # at[v]
      BY <1>2, <2>2, <3>1
    <3>3. /\ time[i] <= time[u] /\ time[u] <= time[i + 2]
          /\ time[i] <= time[v] /\ time[v] <= time[i + 2]
      BY <1>2, <3>1
    <3>4. time[i + 2] - time[i] <= BurstWindow
      BY <1>4, <2>1
    <3>5. time[u] - time[v] \in -BurstWindow .. BurstWindow
      <4>1. /\ time[u] \in Nat /\ time[v] \in Nat
            /\ time[i] \in Nat /\ time[i + 2] \in Nat
        BY <1>3, <3>1
      <4>2. \A a, b, u1, v1 \in Nat :
              /\ a <= u1 /\ u1 <= b /\ a <= v1 /\ v1 <= b /\ b - a <= BurstWindow
              => u1 - v1 \in -BurstWindow .. BurstWindow
        BY ONLY ScoringAssumption
      <4>3. QED
        <5> HIDE DEF time
        <5> QED BY <3>3, <3>4, <4>1, <4>2
    <3>6. time[u] = list[at[u]].timestamp /\ time[v] = list[at[v]].timestamp
      BY <3>1
    <3>7. QED
      BY <3>2, <3>5, <3>6 DEF Near
  <2>3. PICK u, v \in i .. i + 2 : u # v /\ u # j /\ v # j
    <3>1. i \in i .. i + 2 /\ i + 1 \in i .. i + 2 /\ i + 2 \in i .. i + 2
      BY <1>2
    <3>2. i # i + 1 /\ i + 1 # i + 2 /\ i # i + 2
      BY <1>2
    <3>3. j = i \/ j = i + 1 \/ j = i + 2
      BY <1>2, <2>1
    <3>4. QED
      BY <3>1, <3>2, <3>3
  <2>4. at[u] \in Known(list) /\ at[v] \in Known(list)
    BY <1>2, <1>4
  <2>5. QED
    BY <2>1, <2>2, <2>3, <2>4 DEF InTriple
<1>6. ASSUME NEW j \in 1 .. n, InTriple(list, at[j]) PROVE InWindow(j)
  <2>1. PICK y, z \in Known(list) :
          Near(list, at[j], y) /\ Near(list, y, z) /\ Near(list, at[j], z)
    BY <1>6 DEF InTriple
  <2>2. PICK q \in 1 .. n : at[q] = y
    BY <1>2
  <2>3. PICK r \in 1 .. n : at[r] = z
    BY <1>2
  <2>4. j # q /\ q # r /\ j # r
    BY <2>1, <2>2, <2>3 DEF Near
  <2>5. /\ time[j] - time[q] \in -BurstWindow .. BurstWindow
        /\ time[q] - time[r] \in -BurstWindow .. BurstWindow
        /\ time[j] - time[r] \in -BurstWindow .. BurstWindow
    BY <2>1, <2>2, <2>3 DEF Near
  <2>6. \E i \in 1 .. n - 2 : j \in i .. i + 2 /\ time[i + 2] - time[i] <= BurstWindow
    <3> HIDE DEF time, n
    <3> QED BY <1>2, <1>3, <2>4, <2>5, ScoringAssumption, CloseInWindow
  <2>7. QED
    BY <1>4, <2>6
<1>7. /\ DetectBurstContracts(list) =
            {a \in {list[at[j]].address : j \in 1 .. n} :
                \E i \in 1 .. n - 2, j \in 1 .. n :
                    Start(i) /\ j \in i .. i + 2 /\ a = list[at[j]].address}
      /\ DetectBurst(list) <=> \E i \in 1 .. n - 2 : Start(i)
  BY <1>1, BurstWindows
<1>8. DetectBurstContracts(list) =
        {list[x].address : x \in {x \in Known(list) : InTriple(list, x)}}
  <2> HIDE DEF n, time, Start
  <2>1. ASSUME NEW a \in DetectBurstContracts(list)
        PROVE  \E x \in Known(list) : InTriple(list, x) /\ a = list[x].address
    <3>1. PICK j \in 1 .. n : InWindow(j) /\ a = list[at[j]].address
      BY <1>7
    <3>2. QED
      BY <1>2, <1>5, <3>1
  <2>2. ASSUME NEW x \in Known(list), InTriple(list, x)
        PROVE  list[x].address \in DetectBurstContracts(list)
    <3>1. PICK j \in 1 .. n : at[j] = x
      BY <1>2
    <3>2. InWindow(j)
      BY <1>6, <2>2, <3>1
    <3>3. QED
      BY <1>7, <3>1, <3>2
  <2>3. QED
    BY <2>1, <2>2
<1>9. DetectBurst(list) <=> \E x \in Known(list) : InTriple(list, x)
  <2> HIDE DEF n, time, Start
  <2>1. ASSUME DetectBurst(list) PROVE \E x \in Known(list) : InTriple(list, x)
    <3>1. PICK i \in 1 .. n - 2 : Start(i)
      BY <1>7, <2>1
    <3>2. i \in 1 .. n /\ i \in i .. i + 2
      BY <1>4
    <3>3. QED
      BY <1>2, <1>5, <3>1, <3>2
  <2>2. ASSUME NEW x \in Known(list), InTriple(list, x) PROVE DetectBurst(list)
    <3>1. PICK j \in 1 .. n : at[j] = x
      BY <1>2
    <3>2. InWindow(j)
      BY <1>6, <2>2, <3>1
    <3>3. QED
      BY <1>7, <3>2
  <2>3. QED
    BY <2>1, <2>2
<1> QED
  BY <1>8, <1>9

(* The detector of the web application finds what the worker's does.       *)
LEMMA BurstParity ==
  ASSUME NEW list \in Seq(NormalizedContract)
  PROVE  WebBurstContracts(list) = DetectBurstContracts(list)
<1>1. PICK at : IsOrder(list, at)
  BY RanksOrder
<1> DEFINE n == Cardinality(Known(list))
           t == Timestamped(list)
           Start(i) == list[at[i + 2]].timestamp - list[at[i]].timestamp <= BurstWindow
<1>2. /\ n \in Nat /\ at \in [1 .. n -> Known(list)]
      /\ DOMAIN t = 1 .. n
      /\ \A k \in 1 .. n : t[k] = list[at[k]]
  BY <1>1 DEF IsOrder
<1>3. DetectBurstContracts(list) =
        {a \in {list[at[j]].address : j \in 1 .. n} :
            \E i \in 1 .. n - 2, j \in 1 .. n :
                Start(i) /\ j \in i .. i + 2 /\ a = list[at[j]].address}
  BY <1>1, BurstWindows
<1>4. Known(list) \subseteq DOMAIN list
  BY DEF Known
<1>5. WebBurstContracts(list) =
        {a \in {list[k].address : k \in DOMAIN list} :
            \E i, j \in 1 .. n :
                /\ i + 2 \in 1 .. n
                /\ t[i + 2].timestamp - t[i].timestamp <= BurstWindow
                /\ j - i \in 0 .. 2
                /\ t[j].address = a}
  <2>1. \A i \in 1 .. n : i + BurstThreshold - 1 = i + 2 /\ BurstThreshold - 1 = 2
    BY DEF BurstThreshold
  <2> HIDE DEF n, t
  <2>2. QED
    BY <1>2, <2>1 DEF WebBurstContracts, t
<1> HIDE DEF n, t
<1>6. ASSUME NEW a \in WebBurstContracts(list) PROVE a \in DetectBurstContracts(list)
  <2>1. PICK i, j \in 1 .. n :
          /\ i + 2 \in 1 .. n
          /\ t[i + 2].timestamp - t[i].timestamp <= BurstWindow
          /\ j - i \in 0 .. 2
          /\ t[j].address = a
    BY <1>5
  <2>2. i \in 1 .. n - 2 /\ j \in i .. i + 2
    BY <1>2, <2>1
  <2>3. Start(i) /\ a = list[at[j]].address
    BY <1>2, <2>1
  <2> HIDE DEF Start
  <2>4. QED
    BY <1>3, <2>2, <2>3
<1>7. ASSUME NEW a \in DetectBurstContracts(list) PROVE a \in WebBurstContracts(list)
  <2>1. PICK i \in 1 .. n - 2, j \in 1 .. n :
          Start(i) /\ j \in i .. i + 2 /\ a = list[at[j]].address
    BY <1>3
  <2>2. i \in 1 .. n /\ i + 2 \in 1 .. n /\ j - i \in 0 .. 2
    BY <1>2, <2>1
  <2>3. t[i + 2].timestamp - t[i].timestamp <= BurstWindow /\ t[j].address = a
    BY <1>2, <2>1, <2>2
  <2>4. at[j] \in DOMAIN list
    BY <1>2, <1>4
  <2> HIDE DEF Start
  <2>5. QED
    BY <1>5, <2>1, <2>2, <2>3, <2>4
<1> QED
  BY <1>6, <1>7

------------------------------------------------------------------------------
(* Points.                                                                 *)

(* The multipliers there are, in hundredths.                               *)
Multipliers == {64, 80, 96, 100, 120}

(* There are five multipliers, and both engines see the same age.          *)
LEMMA MultiplierType ==
  ASSUME NEW c \in NormalizedContract, NEW burst, NEW now \in Int
  PROVE  /\ Multiplier(c, burst, now) \in Multipliers
         /\ WebTimeMultiplier(c.timestamp, now) = GetTimeMultiplier(c.timestamp, now)
<1>1. c.timestamp \in Nat
  BY DEF NormalizedContract
<1>2. GetTimeMultiplier(c.timestamp, now) \in {80, 100, 120}
  BY DEF GetTimeMultiplier
<1>3. WebTimeMultiplier(c.timestamp, now) = GetTimeMultiplier(c.timestamp, now)
  BY <1>1, ScoringAssumption DEF GetTimeMultiplier, WebTimeMultiplier
<1>4. \A t \in {80, 100, 120}, b \in {80, 100} : (t * b) \div 100 \in Multipliers
  <2>1. (80 * 80) \div 100 = 64 /\ (80 * 100) \div 100 = 80
    OBVIOUS
  <2>2. (100 * 80) \div 100 = 80 /\ (100 * 100) \div 100 = 100
    OBVIOUS
  <2>3. (120 * 80) \div 100 = 96 /\ (120 * 100) \div 100 = 120
    OBVIOUS
  <2>4. QED
    BY <2>1, <2>2, <2>3 DEF Multipliers
<1>5. Multiplier(c, burst, now) \in Multipliers
  BY <1>2, <1>4 DEF Multiplier
<1> QED
  BY <1>3, <1>5

(* What a multiplier makes of the 5 points of a deployment and of the 10   *)
(* of a verified one: the more the higher it is.                           *)
LEMMA RoundedPoints ==
  /\ \A m \in Multipliers : Round(5 * m) \in Nat /\ Round(10 * m) \in Nat
  /\ \A l, m \in Multipliers :
        l <= m => Round(5 * l) <= Round(5 * m) /\ Round(10 * l) <= Round(10 * m)
<1>1. /\ Round(5 * 64) = 3 /\ Round(5 * 80) = 4 /\ Round(5 * 96) = 5
      /\ Round(5 * 100) = 5 /\ Round(5 * 120) = 6
  BY DEF Round
<1>2. /\ Round(10 * 64) = 6 /\ Round(10 * 80) = 8 /\ Round(10 * 96) = 10
      /\ Round(10 * 100) = 10 /\ Round(10 * 120) = 12
  BY DEF Round
<1> QED
  BY <1>1, <1>2 DEF Multipliers

PointsType == [deploy : Nat, verified : Nat, bonus : Int, count : Nat]

(* Points stay points when a contract is added.                            *)
LEMMA AddContractType ==
  ASSUME NEW sum \in PointsType, NEW c \in NormalizedContract, NEW m \in Multipliers
  PROVE  AddContract(sum, c, m) \in PointsType
<1>1. Round(5 * m) \in Nat /\ Round(10 * m) \in Nat
  BY RoundedPoints
<1> QED
  BY <1>1 DEF AddContract, PointsType

(* The loop of the worker's engine, step by step.                          *)
LEMMA PointsSteps ==
  ASSUME NEW list \in Seq(NormalizedContract), NEW burst, NEW now \in Int
  PROVE  LET sum == Points(list, burst, now)
         IN  /\ sum[0] = NoPoints
             /\ \A n \in 1 .. Len(list) : sum[n] =
                    AddContract(sum[n - 1], list[n], Multiplier(list[n], burst, now))
             /\ \A n \in 0 .. Len(list) : sum[n] \in PointsType
<1> DEFINE N == Len(list)
           S == PointsType
           Step(n, s) == AddContract(s, list[n], Multiplier(list[n], burst, now))
           Loop(g) == [n \in 0 .. N |-> IF n = 0 THEN NoPoints ELSE Step(n, g[n - 1])]
           step == [n \in 1 .. N |-> [s \in S |-> Step(n, s)]]
           base == NoPoints
<1>1. N \in Nat /\ base \in S
  BY DEF NoPoints, PointsType
<1>2. \A n \in 1 .. N, s \in S : Step(n, s) \in S
  <2> SUFFICES ASSUME NEW n \in 1 .. N, NEW s \in S PROVE Step(n, s) \in S
    OBVIOUS
  <2>1. list[n] \in NormalizedContract
    OBVIOUS
  <2>2. QED
    BY <2>1, MultiplierType, AddContractType
<1>3. step \in [1 .. N -> [S -> S]]
  BY <1>2
<1>4. PICK f : IsRun(f, N, S, base, step)
  <2> HIDE DEF step, S, N, base
  <2> QED BY <1>1, <1>3, LoopRuns
<1>5. f = Loop(f)
  <2> USE <1>4 DEF IsRun
  <2>1. \A n \in 1 .. N : f[n - 1] \in S
    OBVIOUS
  <2>2. \A n \in 1 .. N : f[n] = Step(n, f[n - 1])
    <3> HIDE DEF Step, S
    <3> QED BY <1>4, <2>1
  <2>3. \A n \in 0 .. N : n # 0 => n \in 1 .. N
    OBVIOUS
  <2>4. QED
    <3> HIDE DEF Step, S
    <3> QED BY <1>4, <2>2, <2>3
<1>6. Points(list, burst, now) = CHOOSE g : g = Loop(g)
  BY DEF Points
<1>7. PICK sum : sum = Points(list, burst, now) /\ sum = Loop(sum)
  <2> HIDE DEF Loop
  <2> QED BY <1>5, <1>6
<1>8. sum[0] = base /\ \A n \in 1 .. N : sum[n] = Step(n, sum[n - 1])
  <2>1. \A n \in 0 .. N : sum[n] = IF n = 0 THEN NoPoints ELSE Step(n, sum[n - 1])
    <3> HIDE DEF Step
    <3> QED BY <1>7
  <2>2. \A n \in 1 .. N : n \in 0 .. N /\ n # 0
    OBVIOUS
  <2>3. QED
    <3> HIDE DEF Step
    <3> QED BY <1>1, <2>1, <2>2
<1>9. \A n \in 0 .. N : sum[n] \in S
  <2> HIDE DEF S, Step
  <2> QED BY <1>1, <1>2, <1>8, LoopStays
<1> QED
  BY <1>7, <1>8, <1>9

(* The reduce of the web's engine, step by step.                           *)
LEMMA SumSteps ==
  ASSUME NEW numbers \in Seq(Int)
  PROVE  LET sum == Sum(numbers)
         IN  /\ sum[0] = 0
             /\ \A n \in 1 .. Len(numbers) : sum[n] = sum[n - 1] + numbers[n]
<1> DEFINE N == Len(numbers)
           Step(n, s) == s + numbers[n]
           Loop(g) == [n \in 0 .. N |-> IF n = 0 THEN 0 ELSE Step(n, g[n - 1])]
           step == [n \in 1 .. N |-> [s \in Int |-> Step(n, s)]]
<1>1. N \in Nat /\ 0 \in Int
  OBVIOUS
<1>2. \A n \in 1 .. N, s \in Int : Step(n, s) \in Int
  OBVIOUS
<1>3. step \in [1 .. N -> [Int -> Int]]
  BY <1>2
<1>4. PICK f : IsRun(f, N, Int, 0, step)
  <2> HIDE DEF step, N
  <2> QED BY <1>1, <1>3, LoopRuns
<1>5. f = Loop(f)
  <2> USE <1>4 DEF IsRun
  <2>1. \A n \in 1 .. N : f[n - 1] \in Int
    <3>1. \A n \in 1 .. N : n - 1 \in 0 .. N
      BY <1>1
    <3> HIDE DEF N, step
    <3> QED BY <1>4, <3>1
  <2>2. \A n \in 1 .. N : f[n] = Step(n, f[n - 1])
    <3> HIDE DEF Step
    <3> QED BY <1>4, <2>1
  <2>3. \A n \in 0 .. N : n # 0 => n \in 1 .. N
    OBVIOUS
  <2>4. QED
    <3> HIDE DEF Step
    <3> QED BY <1>4, <2>2, <2>3
<1>6. Sum(numbers) = CHOOSE g : g = Loop(g)
  BY DEF Sum
<1>7. PICK sum : sum = Sum(numbers) /\ sum = Loop(sum)
  <2> HIDE DEF Loop
  <2> QED BY <1>5, <1>6
<1>8. sum[0] = 0 /\ \A n \in 1 .. N : sum[n] = Step(n, sum[n - 1])
  <2>1. \A n \in 0 .. N : sum[n] = IF n = 0 THEN 0 ELSE Step(n, sum[n - 1])
    <3> HIDE DEF Step
    <3> QED BY <1>7
  <2>2. \A n \in 1 .. N : n \in 0 .. N /\ n # 0
    OBVIOUS
  <2>3. QED
    <3> HIDE DEF Step
    <3> QED BY <1>1, <2>1, <2>2
<1> QED
  BY <1>7, <1>8

(* What one contract adds as long as the cap on verified ones has not been *)
(* reached, which it never is as there is the same cap on all of them.     *)
LEMMA PointsOfOne ==
  ASSUME NEW list \in Seq(NormalizedContract), Len(list) <= MaxScored,
         NEW burst, NEW now \in Int
  PROVE  LET sum == Points(list, burst, now)
             m(n) == Multiplier(list[n], burst, now)
         IN  \A n \in 1 .. Len(list) :
                /\ sum[n - 1] \in PointsType
                /\ sum[n].deploy = sum[n - 1].deploy + Round(5 * m(n))
                /\ sum[n].verified = sum[n - 1].verified
                        + (IF list[n].isVerified THEN Round(10 * m(n)) ELSE 0)
                /\ sum[n].bonus = sum[n - 1].bonus + (Round(5 * m(n)) - 5)
                        + (IF list[n].isVerified THEN Round(10 * m(n)) - 10 ELSE 0)
                /\ sum[n].count = sum[n - 1].count + (IF list[n].isVerified THEN 1 ELSE 0)
<1> DEFINE N == Len(list)
           m(n) == Multiplier(list[n], burst, now)
<1>1. PICK sum : /\ sum = Points(list, burst, now)
                 /\ sum[0] = NoPoints
                 /\ \A n \in 1 .. N : sum[n] = AddContract(sum[n - 1], list[n], m(n))
                 /\ \A n \in 0 .. N : sum[n] \in PointsType
  BY PointsSteps
<1> DEFINE P == {n \in 0 .. N : sum[n].count <= n}
<1>2. N \in Nat /\ N <= MaxScored
  OBVIOUS
<1> HIDE DEF N, m
<1>3. \A n \in 1 .. N : n - 1 \in 0 .. N /\ sum[n - 1] \in PointsType
                       /\ sum[n - 1].count \in Nat
  <2>1. \A n \in 1 .. N : n - 1 \in 0 .. N
    BY <1>2
  <2>2. \A n \in 1 .. N : sum[n - 1] \in PointsType
    BY <1>1, <2>1
  <2>3. QED
    BY <2>1, <2>2 DEF PointsType
<1>4. \A n \in 1 .. N : \/ sum[n].count = sum[n - 1].count
                        \/ sum[n].count = sum[n - 1].count + 1
  <2> SUFFICES ASSUME NEW n \in 1 .. N
               PROVE  \/ sum[n].count = sum[n - 1].count
                      \/ sum[n].count = sum[n - 1].count + 1
    OBVIOUS
  <2>1. sum[n].count = sum[n - 1].count
            + (IF list[n].isVerified /\ sum[n - 1].count < MaxScored THEN 1 ELSE 0)
    <3>1. sum[n] = AddContract(sum[n - 1], list[n], m(n))
      BY <1>1
    <3>2. QED
      BY ONLY <3>1 DEF AddContract
  <2>2. sum[n - 1].count \in Nat
    BY <1>3
  <2>3. QED
    BY <2>1, <2>2
<1>5. 0 \in P
  BY <1>1, <1>2 DEF NoPoints
<1>6. ASSUME NEW n \in 0 .. N - 1, n \in P PROVE n + 1 \in P
  <2>1. n + 1 \in 1 .. N /\ (n + 1) - 1 = n /\ n + 1 \in 0 .. N
    BY <1>2
  <2>2. sum[n].count \in Nat /\ sum[n].count <= n
    BY <1>3, <1>6, <2>1
  <2>3. sum[n + 1].count = sum[n].count \/ sum[n + 1].count = sum[n].count + 1
    BY <1>4, <2>1
  <2>4. sum[n + 1].count <= n + 1
    BY <1>2, <2>2, <2>3
  <2>5. QED
    BY <2>1, <2>4
<1>7. \A n \in 0 .. N : n \in P
  <2> HIDE DEF P
  <2> QED BY <1>2, <1>5, <1>6, Induction
<1>8. ASSUME NEW n \in 1 .. N
      PROVE  /\ sum[n - 1] \in PointsType
             /\ sum[n].deploy = sum[n - 1].deploy + Round(5 * m(n))
             /\ sum[n].verified = sum[n - 1].verified
                     + (IF list[n].isVerified THEN Round(10 * m(n)) ELSE 0)
             /\ sum[n].bonus = sum[n - 1].bonus + (Round(5 * m(n)) - 5)
                     + (IF list[n].isVerified THEN Round(10 * m(n)) - 10 ELSE 0)
             /\ sum[n].count = sum[n - 1].count + (IF list[n].isVerified THEN 1 ELSE 0)
  <2>1. sum[n - 1].count \in Nat /\ sum[n - 1].count <= n - 1 /\ sum[n - 1].count < MaxScored
    BY <1>2, <1>3, <1>7, ScoringAssumption
  <2>2. sum[n] = AddContract(sum[n - 1], list[n], m(n))
    BY <1>1
  <2> DEFINE a == Round(5 * m(n))
             b == Round(10 * m(n))
  <2>3. /\ sum[n].deploy = sum[n - 1].deploy + a
        /\ sum[n].verified = sum[n - 1].verified + (IF list[n].isVerified THEN b ELSE 0)
        /\ sum[n].bonus = sum[n - 1].bonus + (a - 5)
                + (IF list[n].isVerified THEN b - 10 ELSE 0)
        /\ sum[n].count = sum[n - 1].count + (IF list[n].isVerified THEN 1 ELSE 0)
    <3>1. (list[n].isVerified /\ sum[n - 1].count < MaxScored) <=> list[n].isVerified
      BY <2>1
    <3> HIDE DEF a, b
    <3>2. QED
      BY <2>2, <3>1 DEF AddContract, a, b
  <2>4. QED
    BY <1>3, <2>3
<1> QED
  BY <1>1, <1>8 DEF N, m

(* The cap on verified contracts never bites after the one on deployments. *)
LEMMA VerifiedCapSpare ==
  ASSUME NEW list \in Seq(NormalizedContract), Len(list) <= MaxScored, NEW n \in 1 .. Len(list)
  PROVE  WebScoresVerified(list, n) <=> list[n].isVerified
<1> DEFINE before == {j \in 1 .. n - 1 : list[j].isVerified}
<1>1. n \in Nat /\ n - 1 \in Nat /\ n - 1 < MaxScored /\ MaxScored \in Nat
  BY ScoringAssumption
<1>2. IsFiniteSet(1 .. n - 1) /\ Cardinality(1 .. n - 1) = n - 1
  BY <1>1, FS_Interval
<1>3. before \subseteq 1 .. n - 1
  OBVIOUS
<1>4. IsFiniteSet(before) /\ Cardinality(before) <= n - 1
  BY <1>2, <1>3, FS_Subset
<1>5. Cardinality(before) \in Nat
  BY <1>4, FS_CardinalityType
<1> HIDE DEF before
<1>6. Cardinality(before) < MaxScored
  BY ONLY <1>1, <1>4, <1>5
<1>7. QED
  BY <1>6 DEF WebScoresVerified, before

(* Both engines make the same points of every contract.                    *)
LEMMA EnginesAgree ==
  ASSUME NEW list \in Seq(NormalizedContract), Len(list) <= MaxScored,
         NEW burst, NEW now \in Int
  PROVE  LET Deploy(i) == WebPoints(5, list[i], burst, now)
             Verified(i) == IF WebScoresVerified(list, i)
                            THEN WebPoints(10, list[i], burst, now) ELSE 0
             Bonus(i) == (Deploy(i) - 5)
                         + (IF WebScoresVerified(list, i) THEN Verified(i) - 10 ELSE 0)
             sum == Points(list, burst, now)
             N == Len(list)
         IN  /\ sum[N].deploy = Sum([i \in DOMAIN list |-> Deploy(i)])[N]
             /\ sum[N].verified = Sum([i \in DOMAIN list |-> Verified(i)])[N]
             /\ sum[N].bonus = Sum([i \in DOMAIN list |-> Bonus(i)])[N]
<1> DEFINE Deploy(i) == WebPoints(5, list[i], burst, now)
           Verified(i) == IF WebScoresVerified(list, i)
                            THEN WebPoints(10, list[i], burst, now) ELSE 0
           Bonus(i) == (Deploy(i) - 5)
                         + (IF WebScoresVerified(list, i) THEN Verified(i) - 10 ELSE 0)
           N == Len(list)
           D == [i \in DOMAIN list |-> Deploy(i)]
           V == [i \in DOMAIN list |-> Verified(i)]
           B == [i \in DOMAIN list |-> Bonus(i)]
           m(n) == Multiplier(list[n], burst, now)
<1>1. N \in Nat /\ DOMAIN list = 1 .. N
  OBVIOUS
<1>v. \A n \in 1 .. N : WebScoresVerified(list, n) <=> list[n].isVerified
  BY VerifiedCapSpare
<1>2. \A n \in 1 .. N :
        /\ Deploy(n) = Round(5 * m(n)) /\ Round(5 * m(n)) \in Int
        /\ WebPoints(10, list[n], burst, now) = Round(10 * m(n)) /\ Round(10 * m(n)) \in Int
  <2> SUFFICES ASSUME NEW n \in 1 .. N
               PROVE  /\ Deploy(n) = Round(5 * m(n)) /\ Round(5 * m(n)) \in Int
                      /\ WebPoints(10, list[n], burst, now) = Round(10 * m(n))
                      /\ Round(10 * m(n)) \in Int
    OBVIOUS
  <2>1. PICK c \in NormalizedContract : c = list[n]
    BY <1>1
  <2>2. /\ Multiplier(c, burst, now) \in Multipliers
        /\ WebTimeMultiplier(c.timestamp, now) = GetTimeMultiplier(c.timestamp, now)
    BY MultiplierType
  <2>3. /\ WebPoints(5, c, burst, now) = Round(5 * Multiplier(c, burst, now))
        /\ WebPoints(10, c, burst, now) = Round(10 * Multiplier(c, burst, now))
    BY <2>2, Zenon DEF WebPoints, Multiplier
  <2>4. /\ Round(5 * Multiplier(c, burst, now)) \in Int
        /\ Round(10 * Multiplier(c, burst, now)) \in Int
    BY <2>2, RoundedPoints
  <2>5. QED
    BY <2>1, <2>3, <2>4
<1>3. /\ D \in Seq(Int) /\ V \in Seq(Int) /\ B \in Seq(Int)
      /\ Len(D) = N /\ Len(V) = N /\ Len(B) = N
  <2> HIDE DEF m
  <2>1. \A n \in 1 .. N : Deploy(n) \in Int /\ Verified(n) \in Int
    BY <1>2
  <2>2. \A n \in 1 .. N : Bonus(n) \in Int
    <3> HIDE DEF Deploy, Verified
    <3> QED BY <2>1
  <2> HIDE DEF Deploy, Verified, Bonus
  <2>3. QED
    BY <1>1, <2>1, <2>2
<1>4. PICK d : d = Sum(D) /\ d[0] = 0 /\ \A n \in 1 .. N : d[n] = d[n - 1] + D[n]
  <2> HIDE DEF D, N
  <2>1. D \in Seq(Int) /\ Len(D) = N
    BY <1>3
  <2>2. QED
    BY ONLY <2>1, SumSteps
<1>5. PICK v : v = Sum(V) /\ v[0] = 0 /\ \A n \in 1 .. N : v[n] = v[n - 1] + V[n]
  <2> HIDE DEF V, N
  <2>1. V \in Seq(Int) /\ Len(V) = N
    BY <1>3
  <2>2. QED
    BY ONLY <2>1, SumSteps
<1>6. PICK b : b = Sum(B) /\ b[0] = 0 /\ \A n \in 1 .. N : b[n] = b[n - 1] + B[n]
  <2> HIDE DEF B, N
  <2>1. B \in Seq(Int) /\ Len(B) = N
    BY <1>3
  <2>2. QED
    BY ONLY <2>1, SumSteps
<1>7. PICK sum :
        /\ sum = Points(list, burst, now)
        /\ sum[0] = NoPoints
        /\ \A n \in 1 .. N :
              /\ sum[n - 1] \in PointsType
              /\ sum[n].deploy = sum[n - 1].deploy + Round(5 * m(n))
              /\ sum[n].verified = sum[n - 1].verified
                      + (IF list[n].isVerified THEN Round(10 * m(n)) ELSE 0)
              /\ sum[n].bonus = sum[n - 1].bonus + (Round(5 * m(n)) - 5)
                      + (IF list[n].isVerified THEN Round(10 * m(n)) - 10 ELSE 0)
  BY PointsSteps, PointsOfOne
<1>8. \A n \in 1 .. N :
        /\ D[n] = Round(5 * m(n))
        /\ V[n] = IF list[n].isVerified THEN Round(10 * m(n)) ELSE 0
        /\ B[n] = (Round(5 * m(n)) - 5)
                    + (IF list[n].isVerified THEN Round(10 * m(n)) - 10 ELSE 0)
  <2> HIDE DEF m
  <2> QED BY <1>1, <1>v, <1>2
<1> HIDE DEF D, V, B, N, m
<1> DEFINE P == {n \in 0 .. N : /\ sum[n].deploy = d[n]
                               /\ sum[n].verified = v[n]
                               /\ sum[n].bonus = b[n]}
<1>9. 0 \in P
  BY <1>1, <1>4, <1>5, <1>6, <1>7 DEF NoPoints
<1>10. ASSUME NEW n \in 0 .. N - 1, n \in P PROVE n + 1 \in P
  <2>1. n + 1 \in 1 .. N /\ (n + 1) - 1 = n /\ n + 1 \in 0 .. N
    BY <1>1
  <2>2. PICK k \in 1 .. N : k = n + 1 /\ k - 1 = n
    BY <2>1
  <2>3. PICK x \in Int : x = Round(5 * m(k))
    BY <1>2
  <2>4. PICK y \in Int : y = Round(10 * m(k))
    BY <1>2
  <2>5. sum[n].deploy \in Int /\ sum[n].verified \in Int /\ sum[n].bonus \in Int
    <3>1. PICK s \in PointsType : s = sum[n]
      BY <1>7, <2>2
    <3>2. QED
      BY ONLY <3>1 DEF PointsType
  <2>6. d[k] = d[n] + x /\ sum[k].deploy = sum[n].deploy + x
    BY <1>4, <1>7, <1>8, <2>2, <2>3
  <2>7. /\ v[k] = v[n] + (IF list[k].isVerified THEN y ELSE 0)
        /\ sum[k].verified = sum[n].verified + (IF list[k].isVerified THEN y ELSE 0)
    BY <1>5, <1>7, <1>8, <2>2, <2>4
  <2>8. /\ b[k] = b[n] + ((x - 5) + (IF list[k].isVerified THEN y - 10 ELSE 0))
        /\ sum[k].bonus = sum[n].bonus + (x - 5)
                + (IF list[k].isVerified THEN y - 10 ELSE 0)
    BY <1>6, <1>7, <1>8, <2>2, <2>3, <2>4
  <2>9. sum[n].deploy = d[n] /\ sum[n].verified = v[n] /\ sum[n].bonus = b[n]
    BY <1>10
  <2>10. sum[k].deploy = d[k] /\ sum[k].verified = v[k]
    BY <2>6, <2>7, <2>9
  <2>11. sum[k].bonus = b[k]
    BY ONLY <2>5, <2>8, <2>9, x \in Int, y \in Int
  <2>12. QED
    BY <2>1, <2>2, <2>10, <2>11
<1>11. \A n \in 0 .. N : n \in P
  <2> HIDE DEF P
  <2> QED BY <1>1, <1>9, <1>10, Induction
<1>12. sum[N].deploy = d[N] /\ sum[N].verified = v[N] /\ sum[N].bonus = b[N]
  BY <1>1, <1>11
<1> QED
  BY <1>4, <1>5, <1>6, <1>7, <1>12 DEF D, V, B, N

------------------------------------------------------------------------------
(* The wallet of a state.                                                  *)

(* What the sources list are contracts at any time.                        *)
THEOREM ContractsAreTyped == Spec => []TypeOK
<1>1. Init => TypeOK
  BY ScoringAssumption DEF Init, TypeOK, Latest
<1>2. TypeOK /\ [Next]_vars => TypeOK'
  <2> SUFFICES ASSUME TypeOK, [Next]_vars PROVE TypeOK'
    OBVIOUS
  <2>1. CASE List
    <3> DEFINE known == {listed[i].address : i \in DOMAIN listed} \ {Malformed}
               Well == [address : known \union {Cardinality(known) + 1},
                        timestamp : Timestamp, isVerified : BOOLEAN]
               Bad == [address : {Malformed}, timestamp : Latest, isVerified : {TRUE}]
               address == [i \in DOMAIN listed |-> listed[i].address]
    <3>1. Cardinality(known) \in Nat
      <4>1. DOMAIN listed = 1 .. Len(listed) /\ Len(listed) \in Nat
        BY DEF TypeOK
      <4>2. IsFiniteSet(DOMAIN listed)
        BY <4>1, FS_Interval
      <4>3. IsFiniteSet({listed[i].address : i \in DOMAIN listed})
        <5>1. IsFiniteSet({address[i] : i \in DOMAIN address})
          BY <4>2, ImageIsFinite
        <5>2. QED
          BY <5>1
      <4>4. IsFiniteSet(known)
        BY <4>3, FS_Subset
      <4>5. QED
        BY <4>4, FS_CardinalityType
    <3>2. known \subseteq Nat
      <4>1. \A i \in DOMAIN listed : listed[i] \in ContractDeployment
        BY DEF TypeOK
      <4>2. QED
        BY <4>1 DEF ContractDeployment
    <3>3. Well \subseteq ContractDeployment
      <4> HIDE DEF known
      <4>1. known \union {Cardinality(known) + 1} \subseteq Nat
        <5>1. Cardinality(known) + 1 \in Nat
          BY <3>1
        <5>2. QED
          BY <3>2, <5>1
      <4>2. QED
        BY <4>1, ScoringAssumption DEF ContractDeployment
    <3>4. Bad \subseteq ContractDeployment
      <4>1. Latest \subseteq Int
        BY ScoringAssumption DEF Latest
      <4>2. QED
        <5>1. {Malformed} \subseteq Nat
          BY DEF Malformed
        <5>2. QED
          BY <4>1, <5>1 DEF ContractDeployment
    <3>5. PICK contract \in Well \union Bad : listed' = Append(listed, contract)
      BY <2>1 DEF List
    <3>6. contract \in ContractDeployment
      BY <3>3, <3>4, <3>5
    <3>7. clock' = clock
      BY <2>1 DEF List
    <3>8. QED
      BY <3>5, <3>6, <3>7 DEF TypeOK
  <2>2. CASE Tick
    BY <2>2 DEF Tick, TypeOK
  <2>3. CASE UNCHANGED vars
    BY <2>3 DEF vars, TypeOK
  <2>4. QED
    BY <2>1, <2>2, <2>3 DEF Next
<1>3. QED
  BY <1>1, <1>2, PTL DEF Spec

(* What is scored is a list of contracts with different addresses.         *)
LEMMA ContractsType ==
  ASSUME TypeOK
  PROVE  Contracts \in Seq(NormalizedContract) /\ Distinct(Contracts)
BY NormalizeContractsKeeps, DeduplicateKeepsOldest DEF Contracts, TypeOK

(* DedupeKeepsOldest: whatever the list, its order and its duplicates,     *)
(* normalize.js leaves every address once, with its oldest known timestamp. *)
THEOREM OldestIsKept == Spec => []DedupeKeepsOldest
<1>1. ASSUME TypeOK PROVE DedupeKeepsOldest
  <2> DEFINE list == Contracts
             norm == NormalizeContracts(listed)
             KnownOf(a) == {listed[i].timestamp :
                             i \in {j \in DOMAIN listed : listed[j].address = a
                                                         /\ listed[j].timestamp > 0}}
  <2>1. listed \in Seq(ContractDeployment)
    BY <1>1 DEF TypeOK
  <2>2. \A k \in DOMAIN listed : /\ listed[k] \in ContractDeployment
                                 /\ listed[k].timestamp \in Int
    <3>1. \A k \in DOMAIN listed : listed[k] \in ContractDeployment
      BY <2>1
    <3>2. QED
      BY <3>1 DEF ContractDeployment
  <2>3. \A k \in DOMAIN listed :
          LET c == NormalizeContract(listed[k])
          IN  /\ c.address = listed[k].address
              /\ c.timestamp = IF listed[k].timestamp > 0 THEN listed[k].timestamp ELSE 0
    BY <2>2, NormalizeValue
  <2>4. /\ norm \in Seq(NormalizedContract)
        /\ \A j \in DOMAIN norm : \E k \in DOMAIN listed :
              listed[k].address # Malformed /\ norm[j] = NormalizeContract(listed[k])
        /\ \A k \in DOMAIN listed : listed[k].address # Malformed =>
              \E j \in DOMAIN norm : norm[j] = NormalizeContract(listed[k])
    BY <2>1, NormalizeContractsKeeps
  <2>5. /\ list \in Seq(NormalizedContract)
        /\ Distinct(list)
        /\ \A j \in DOMAIN list : \E i \in DOMAIN norm : list[j] = norm[i]
        /\ \A i \in DOMAIN norm : \E j \in DOMAIN list : AsOldAs(list[j], norm[i])
    BY <2>4, DeduplicateKeepsOldest DEF Contracts
  <2> HIDE DEF list, norm
  <2>6. \A j \in DOMAIN list : \E k \in DOMAIN listed :
          listed[k].address # Malformed /\ list[j] = NormalizeContract(listed[k])
    BY <2>4, <2>5
  <2>7. \A k \in DOMAIN listed : listed[k].address # Malformed =>
          \E j \in DOMAIN list : AsOldAs(list[j], NormalizeContract(listed[k]))
    BY <2>4, <2>5
  <2>8. {list[i].address : i \in DOMAIN list}
            = {listed[i].address : i \in DOMAIN listed} \ {Malformed}
    <3>1. ASSUME NEW j \in DOMAIN list
          PROVE  list[j].address \in {listed[i].address : i \in DOMAIN listed} \ {Malformed}
      BY <2>3, <2>6
    <3>2. ASSUME NEW k \in DOMAIN listed, listed[k].address # Malformed
          PROVE  listed[k].address \in {list[i].address : i \in DOMAIN list}
      BY <2>3, <2>7, <3>2 DEF AsOldAs
    <3>3. QED
      BY <3>1, <3>2
  <2>9. ASSUME NEW j \in DOMAIN list
        PROVE  LET known == KnownOf(list[j].address)
               IN  IF known = {} THEN list[j].timestamp = 0
                   ELSE /\ list[j].timestamp \in known
                        /\ \A t \in known : list[j].timestamp <= t
    <3> DEFINE known == KnownOf(list[j].address)
    <3>1. PICK k \in DOMAIN listed :
            listed[k].address # Malformed /\ list[j] = NormalizeContract(listed[k])
      BY <2>6
    <3>2. list[j].address = listed[k].address /\ list[j].address # Malformed
      BY <2>3, <3>1
    <3>3. list[j].timestamp = 0 \/ list[j].timestamp \in known
      BY <2>3, <3>1, <3>2
    <3>4. ASSUME NEW t \in known PROVE list[j].timestamp > 0 /\ list[j].timestamp <= t
      <4>1. PICK m \in DOMAIN listed :
              /\ listed[m].address = list[j].address /\ listed[m].timestamp > 0
              /\ t = listed[m].timestamp
        OBVIOUS
      <4>2. PICK i \in DOMAIN list : AsOldAs(list[i], NormalizeContract(listed[m]))
        BY <2>7, <3>2, <4>1
      <4>3. list[i].address = list[j].address
        BY <2>3, <4>1, <4>2 DEF AsOldAs
      <4>4. i = j
        BY <2>5, <4>3 DEF Distinct
      <4>5. NormalizeContract(listed[m]).timestamp = t
        BY <2>3, <4>1
      <4>6. t > 0 /\ t \in Int
        BY <2>2, <4>1
      <4>7. QED
        BY <4>2, <4>4, <4>5, <4>6 DEF AsOldAs
    <3> HIDE DEF known
    <3>5. QED
      BY <3>3, <3>4 DEF known
  <2>10. QED
    <3> HIDE DEF KnownOf
    <3> QED BY <2>5, <2>8, <2>9 DEF DedupeKeepsOldest, Distinct, list, KnownOf
<1>2. QED
  BY <1>1, ContractsAreTyped, PTL

(* BurstsAreTriples: the sliding window finds exactly the contracts that    *)
(* are one of three close to each other, whatever the order and the ties.  *)
THEOREM BurstsAreFound == Spec => []BurstsAreTriples
<1>1. ASSUME TypeOK PROVE BurstsAreTriples
  <2>1. PICK list \in Seq(NormalizedContract) : list = Contracts /\ Distinct(list)
    BY <1>1, ContractsType
  <2> DEFINE known == {list[i] : i \in Known(list)}
             Close(c, d) == /\ c # d
                            /\ c.timestamp - d.timestamp \in -BurstWindow .. BurstWindow
  <2>2. \A x, y \in Known(list) : list[x] = list[y] => x = y
    BY <2>1 DEF Distinct, Known
  <2>3. \A x, y \in Known(list) : Near(list, x, y) <=> Close(list[x], list[y])
    BY <2>2 DEF Near
  <2>4. \A x \in Known(list) : InTriple(list, x) <=>
          \E d, e \in known : Close(list[x], d) /\ Close(d, e) /\ Close(list[x], e)
    <3> HIDE DEF Close
    <3>1. ASSUME NEW x \in Known(list), InTriple(list, x)
          PROVE  \E d, e \in known : Close(list[x], d) /\ Close(d, e) /\ Close(list[x], e)
      BY <2>3, <3>1 DEF InTriple
    <3>2. ASSUME NEW x \in Known(list), NEW d \in known, NEW e \in known,
                 Close(list[x], d), Close(d, e), Close(list[x], e)
          PROVE  InTriple(list, x)
      <4>1. PICK y \in Known(list) : d = list[y]
        OBVIOUS
      <4>2. PICK z \in Known(list) : e = list[z]
        OBVIOUS
      <4>3. QED
        BY <2>3, <3>2, <4>1, <4>2 DEF InTriple
    <3>3. QED
      BY <3>1, <3>2
  <2>5. DetectBurstContracts(list) =
          {list[x].address : x \in {x \in Known(list) : InTriple(list, x)}}
    BY BurstsAreNear
  <2>6. DetectBurstContracts(list) =
          {c.address : c \in {c \in known : \E d, e \in known :
                                  Close(c, d) /\ Close(d, e) /\ Close(c, e)}}
    <3> HIDE DEF Close, known
    <3>1. \A x \in Known(list) : list[x] \in known
      BY DEF known
    <3>2. \A c \in known : \E x \in Known(list) : c = list[x]
      BY DEF known
    <3>3. ASSUME NEW a \in DetectBurstContracts(list)
          PROVE  \E c \in known : /\ a = c.address
                                  /\ \E d, e \in known :
                                        Close(c, d) /\ Close(d, e) /\ Close(c, e)
      <4>1. PICK x \in Known(list) : InTriple(list, x) /\ a = list[x].address
        BY <2>5
      <4>2. QED
        BY <2>4, <3>1, <4>1
    <3>4. ASSUME NEW c \in known,
                 \E d, e \in known : Close(c, d) /\ Close(d, e) /\ Close(c, e)
          PROVE  c.address \in DetectBurstContracts(list)
      BY <2>4, <2>5, <3>2, <3>4
    <3>5. QED
      BY <3>3, <3>4
  <2>7. QED
    <3> HIDE DEF Close
    <3> QED BY <2>1, <2>6 DEF BurstsAreTriples, Close
<1>2. QED
  BY <1>1, ContractsAreTyped, PTL

(* What is scored is the first contracts of the list.                      *)
LEMMA CappedIsPrefix ==
  ASSUME NEW list \in Seq(NormalizedContract)
  PROVE  /\ Capped(list) \in Seq(NormalizedContract)
         /\ DOMAIN Capped(list) \subseteq DOMAIN list
         /\ \A i \in DOMAIN Capped(list) : Capped(list)[i] = list[i]
         /\ Len(Capped(list)) <= MaxScored
<1> DEFINE m == IF Len(list) <= MaxScored THEN Len(list) ELSE MaxScored
<1>1. Len(list) \in Nat /\ DOMAIN list = 1 .. Len(list)
  OBVIOUS
<1>2. m \in Nat /\ m <= MaxScored /\ 1 .. m \subseteq DOMAIN list
  BY <1>1, ScoringAssumption
<1>3. Capped(list) = [i \in 1 .. m |-> list[i]]
  BY DEF Capped
<1> HIDE DEF m
<1>4. Capped(list) \in Seq(NormalizedContract) /\ Len(Capped(list)) = m
  BY <1>2, <1>3
<1> QED
  BY <1>2, <1>3, <1>4

(* PenaltyIsAnnounced: whoever loses points to a burst is warned of one,   *)
(* as three contracts that are close stay so among more contracts.         *)
THEOREM PenaltiesAreAnnounced == Spec => []PenaltyIsAnnounced
<1>1. ASSUME TypeOK PROVE PenaltyIsAnnounced
  <2>1. PICK list \in Seq(NormalizedContract) : list = Contracts
    BY <1>1, ContractsType
  <2>2. PICK scored \in Seq(NormalizedContract) :
          /\ scored = Capped(list)
          /\ DOMAIN scored \subseteq DOMAIN list
          /\ \A i \in DOMAIN scored : scored[i] = list[i]
    BY CappedIsPrefix
  <2>3. ASSUME DetectBurstContracts(scored) # {} PROVE DetectBurst(list)
    <3>1. PICK x \in Known(scored) : InTriple(scored, x)
      BY <2>3, BurstsAreNear
    <3>2. Known(scored) \subseteq Known(list)
      BY <2>2 DEF Known
    <3>3. \A y, z \in Known(scored) : Near(scored, y, z) <=> Near(list, y, z)
      BY <2>2 DEF Known, Near
    <3>4. InTriple(list, x)
      BY <3>1, <3>2, <3>3 DEF InTriple
    <3>5. QED
      BY <3>1, <3>2, <3>4, BurstsAreNear
  <2>4. DetectBurst(list) => "burst" \in BuildReputationProfile(list, NoEns, clock).warnings
    BY DEF BuildReputationProfile
  <2>5. QED
    BY <2>1, <2>2, <2>3, <2>4 DEF PenaltyIsAnnounced
<1>2. QED
  BY <1>1, ContractsAreTyped, PTL

(* What the loop over the contracts has counted after each of them.        *)
LEMMA PointsAddUp ==
  ASSUME NEW list \in Seq(NormalizedContract), Len(list) <= MaxScored,
         NEW burst, NEW now \in Int
  PROVE  LET sum == Points(list, burst, now)[Len(list)]
             verified == {i \in DOMAIN list : list[i].isVerified}
         IN  /\ sum \in PointsType
             /\ sum.deploy + sum.verified =
                    5 * Len(list) + 10 * Cardinality(verified) + sum.bonus
<1> DEFINE N == Len(list)
           m(n) == Multiplier(list[n], burst, now)
           Verified(n) == {i \in 1 .. n : list[i].isVerified}
<1>1. N \in Nat /\ DOMAIN list = 1 .. N
  OBVIOUS
<1>2. PICK sum :
        /\ sum = Points(list, burst, now)
        /\ sum[0] = NoPoints
        /\ \A n \in 0 .. N : sum[n] \in PointsType
        /\ \A n \in 1 .. N :
              /\ sum[n].deploy = sum[n - 1].deploy + Round(5 * m(n))
              /\ sum[n].verified = sum[n - 1].verified
                      + (IF list[n].isVerified THEN Round(10 * m(n)) ELSE 0)
              /\ sum[n].bonus = sum[n - 1].bonus + (Round(5 * m(n)) - 5)
                      + (IF list[n].isVerified THEN Round(10 * m(n)) - 10 ELSE 0)
              /\ sum[n].count = sum[n - 1].count + (IF list[n].isVerified THEN 1 ELSE 0)
  BY PointsSteps, PointsOfOne
<1>3. \A n \in 1 .. N : Round(5 * m(n)) \in Int /\ Round(10 * m(n)) \in Int
  <2> SUFFICES ASSUME NEW n \in 1 .. N
               PROVE  Round(5 * m(n)) \in Int /\ Round(10 * m(n)) \in Int
    OBVIOUS
  <2>1. list[n] \in NormalizedContract
    BY <1>1
  <2>2. m(n) \in Multipliers
    BY <2>1, MultiplierType
  <2> HIDE DEF m
  <2>3. QED
    BY <2>2, RoundedPoints
<1>4. \A n \in 0 .. N :
        /\ sum[n].deploy \in Int /\ sum[n].verified \in Int
        /\ sum[n].bonus \in Int /\ sum[n].count \in Int
  BY <1>2 DEF PointsType
<1> HIDE DEF m, N
<1> DEFINE Adds(n) ==
             /\ IsFiniteSet(Verified(n))
             /\ sum[n].count = Cardinality(Verified(n))
             /\ sum[n].deploy + sum[n].verified = 5 * n + 10 * sum[n].count + sum[n].bonus
           P == {n \in 0 .. N : Adds(n)}
<1>5. 0 \in P
  <2>1. Verified(0) = {}
    OBVIOUS
  <2>2. IsFiniteSet({}) /\ Cardinality({}) = 0
    BY FS_EmptySet
  <2>3. 0 \in 0 .. N
    BY <1>1
  <2>4. /\ sum[0].deploy = 0 /\ sum[0].verified = 0
        /\ sum[0].bonus = 0 /\ sum[0].count = 0
    BY <1>2 DEF NoPoints
  <2> HIDE DEF Verified
  <2>5. Adds(0)
    BY <2>1, <2>2, <2>4
  <2> HIDE DEF Adds
  <2>6. QED
    BY <2>3, <2>5
<1>6. ASSUME NEW n \in 0 .. N - 1, n \in P PROVE n + 1 \in P
  <2>1. n + 1 \in 1 .. N /\ (n + 1) - 1 = n /\ n + 1 \in 0 .. N /\ n \in Nat
    BY <1>1
  <2>2. PICK k \in 1 .. N : k = n + 1 /\ k - 1 = n /\ k \in 0 .. N
    BY <2>1
  <2>3. PICK old : old = Verified(n) /\ IsFiniteSet(old) /\ sum[n].count = Cardinality(old)
    BY <1>6
  <2>4. k \notin old
    BY <2>1, <2>2, <2>3
  <2>5. Verified(k) = IF list[k].isVerified THEN old \union {k} ELSE old
    <3>1. 1 .. k = (1 .. n) \union {k}
      BY <2>1, <2>2
    <3>2. QED
      BY <2>3, <3>1
  <2> HIDE DEF Verified
  <2>6. IsFiniteSet(Verified(k)) /\ Cardinality(Verified(k)) =
            Cardinality(old) + (IF list[k].isVerified THEN 1 ELSE 0)
    <3>1. CASE list[k].isVerified
      <4>1. /\ IsFiniteSet(old \cup {k})
            /\ Cardinality(old \cup {k}) = Cardinality(old) + 1
        BY <2>3, <2>4, FS_AddElement
      <4>2. Verified(k) = old \cup {k}
        BY <2>5, <3>1
      <4>3. QED
        BY <3>1, <4>1, <4>2
    <3>2. CASE ~ list[k].isVerified
      <4>1. Cardinality(old) \in Nat
        BY <2>3, FS_CardinalityType
      <4>2. QED
        BY <2>3, <2>5, <3>2, <4>1
    <3>3. QED
      BY <3>1, <3>2
  <2>7. sum[k].count = sum[n].count + (IF list[k].isVerified THEN 1 ELSE 0)
    BY <1>2, <2>2
  <2>8. PICK x \in Int : x = Round(5 * m(k))
    BY <1>3
  <2>9. PICK y \in Int : y = Round(10 * m(k))
    BY <1>3
  <2>10. /\ sum[k].deploy = sum[n].deploy + x
         /\ sum[k].verified = sum[n].verified + (IF list[k].isVerified THEN y ELSE 0)
         /\ sum[k].bonus = sum[n].bonus + (x - 5)
                 + (IF list[k].isVerified THEN y - 10 ELSE 0)
    BY <1>2, <2>2, <2>8, <2>9
  <2>11. sum[n].deploy + sum[n].verified = 5 * n + 10 * sum[n].count + sum[n].bonus
    BY <1>6
  <2>12. /\ sum[n].deploy \in Int /\ sum[n].verified \in Int
         /\ sum[n].bonus \in Int /\ sum[n].count \in Int
    <3>1. n \in 0 .. N
      BY <1>1
    <3>2. QED
      BY <1>4, <3>1
  <2>13. sum[k].deploy + sum[k].verified = 5 * k + 10 * sum[k].count + sum[k].bonus
    <3>1. PICK d \in Int, v \in Int, b \in Int, c \in Int :
            /\ d = sum[n].deploy /\ v = sum[n].verified
            /\ b = sum[n].bonus /\ c = sum[n].count
      BY <2>12
    <3>2. d + v = 5 * n + 10 * c + b
      BY <2>11, <3>1
    <3>3. CASE list[k].isVerified
      <4>1. /\ sum[k].deploy = d + x /\ sum[k].verified = v + y
            /\ sum[k].bonus = b + (x - 5) + (y - 10) /\ sum[k].count = c + 1
        BY <2>7, <2>10, <3>1, <3>3
      <4>2. (d + x) + (v + y) = 5 * k + 10 * (c + 1) + (b + (x - 5) + (y - 10))
        BY ONLY <2>2, <3>2, k \in 1 .. N, n \in Nat
      <4>3. QED
        BY <4>1, <4>2
    <3>4. CASE ~ list[k].isVerified
      <4>1. /\ sum[k].deploy = d + x /\ sum[k].verified = v
            /\ sum[k].bonus = b + (x - 5) /\ sum[k].count = c
        BY <2>7, <2>10, <3>1, <3>4
      <4>2. (d + x) + v = 5 * k + 10 * c + (b + (x - 5))
        BY ONLY <2>2, <3>2, k \in 1 .. N, n \in Nat
      <4>3. QED
        BY <4>1, <4>2
    <3>5. QED
      BY <3>3, <3>4
  <2>14. Adds(k)
    BY <2>3, <2>6, <2>7, <2>13
  <2>15. QED
    <3> HIDE DEF Adds
    <3> QED BY <2>2, <2>14
<1>7. \A n \in 0 .. N : n \in P
  <2> HIDE DEF P
  <2> QED BY <1>1, <1>5, <1>6, Induction
<1>8. N \in 0 .. N /\ Adds(N)
  BY <1>1, <1>7
<1> QED
  BY <1>1, <1>2, <1>8 DEF N

(* No contract is worth less later.                                        *)
LEMMA MultiplierRises ==
  ASSUME NEW c \in NormalizedContract, NEW burst,
         NEW now \in Int, NEW later \in Int, now <= later
  PROVE  /\ Round(5 * Multiplier(c, burst, now)) <= Round(5 * Multiplier(c, burst, later))
         /\ Round(10 * Multiplier(c, burst, now)) <= Round(10 * Multiplier(c, burst, later))
<1>1. c.timestamp \in Nat
  BY DEF NormalizedContract
<1>2. PICK s \in {80, 100, 120} : s = GetTimeMultiplier(c.timestamp, now)
  BY DEF GetTimeMultiplier
<1>3. PICK t \in {80, 100, 120} : t = GetTimeMultiplier(c.timestamp, later)
  BY DEF GetTimeMultiplier
<1>4. s <= t
  BY <1>1, <1>2, <1>3, ScoringAssumption DEF GetTimeMultiplier
<1>5. PICK b \in {80, 100} : b = IF c.address \in burst THEN 80 ELSE 100
  OBVIOUS
<1>6. (s * b) \div 100 <= (t * b) \div 100
  <2>1. (80 * 80) \div 100 = 64 /\ (80 * 100) \div 100 = 80
    OBVIOUS
  <2>2. (100 * 80) \div 100 = 80 /\ (100 * 100) \div 100 = 100
    OBVIOUS
  <2>3. (120 * 80) \div 100 = 96 /\ (120 * 100) \div 100 = 120
    OBVIOUS
  <2>4. QED
    BY <1>4, <2>1, <2>2, <2>3
<1>7. Multiplier(c, burst, now) <= Multiplier(c, burst, later)
  BY <1>2, <1>3, <1>5, <1>6 DEF Multiplier
<1>8. Multiplier(c, burst, now) \in Multipliers /\ Multiplier(c, burst, later) \in Multipliers
  BY MultiplierType
<1> QED
  BY <1>7, <1>8, RoundedPoints

(* No sum of points is less at a later time.                               *)
LEMMA PointsRise ==
  ASSUME NEW list \in Seq(NormalizedContract), Len(list) <= MaxScored, NEW burst,
         NEW now \in Int, NEW later \in Int, now <= later
  PROVE  LET before == Points(list, burst, now)[Len(list)]
             after == Points(list, burst, later)[Len(list)]
         IN  /\ before \in PointsType /\ after \in PointsType
             /\ before.deploy <= after.deploy
             /\ before.verified <= after.verified
<1> DEFINE N == Len(list)
           m(n, time) == Multiplier(list[n], burst, time)
           Adds(sum, time) ==
             /\ sum[0] = NoPoints
             /\ \A n \in 0 .. N : sum[n] \in PointsType
             /\ \A n \in 1 .. N :
                  /\ sum[n].deploy = sum[n - 1].deploy + Round(5 * m(n, time))
                  /\ sum[n].verified = sum[n - 1].verified
                        + (IF list[n].isVerified THEN Round(10 * m(n, time)) ELSE 0)
<1>1. N \in Nat /\ DOMAIN list = 1 .. N
  OBVIOUS
<1>2. PICK before : before = Points(list, burst, now) /\ Adds(before, now)
  BY PointsSteps, PointsOfOne
<1>3. PICK after : after = Points(list, burst, later) /\ Adds(after, later)
  BY PointsSteps, PointsOfOne
<1>4. \A n \in 1 .. N :
        /\ Round(5 * m(n, now)) <= Round(5 * m(n, later))
        /\ Round(10 * m(n, now)) <= Round(10 * m(n, later))
        /\ Round(5 * m(n, now)) \in Int /\ Round(5 * m(n, later)) \in Int
        /\ Round(10 * m(n, now)) \in Int /\ Round(10 * m(n, later)) \in Int
  <2> SUFFICES ASSUME NEW n \in 1 .. N
               PROVE  /\ Round(5 * m(n, now)) <= Round(5 * m(n, later))
                      /\ Round(10 * m(n, now)) <= Round(10 * m(n, later))
                      /\ Round(5 * m(n, now)) \in Int /\ Round(5 * m(n, later)) \in Int
                      /\ Round(10 * m(n, now)) \in Int /\ Round(10 * m(n, later)) \in Int
    OBVIOUS
  <2>1. list[n] \in NormalizedContract
    BY <1>1
  <2>2. m(n, now) \in Multipliers /\ m(n, later) \in Multipliers
    BY <2>1, MultiplierType
  <2>3. /\ Round(5 * m(n, now)) <= Round(5 * m(n, later))
        /\ Round(10 * m(n, now)) <= Round(10 * m(n, later))
    BY <2>1, MultiplierRises
  <2> HIDE DEF m
  <2>4. QED
    BY <2>2, <2>3, RoundedPoints
<1> HIDE DEF N, m
<1> DEFINE P == {n \in 0 .. N : /\ before[n].deploy <= after[n].deploy
                               /\ before[n].verified <= after[n].verified}
<1>5. 0 \in P
  BY <1>1, <1>2, <1>3 DEF NoPoints
<1>6. ASSUME NEW n \in 0 .. N - 1, n \in P PROVE n + 1 \in P
  <2>1. PICK k \in 1 .. N : k = n + 1 /\ k - 1 = n /\ k \in 0 .. N /\ n \in 0 .. N
    BY <1>1
  <2>2. /\ before[n].deploy \in Int /\ before[n].verified \in Int
        /\ after[n].deploy \in Int /\ after[n].verified \in Int
    BY <1>2, <1>3, <2>1 DEF PointsType
  <2>3. PICK x \in Int, y \in Int :
          /\ x = Round(5 * m(k, now)) /\ y = Round(5 * m(k, later)) /\ x <= y
    BY <1>4
  <2>4. PICK v \in Int, w \in Int :
          /\ v = Round(10 * m(k, now)) /\ w = Round(10 * m(k, later)) /\ v <= w
    BY <1>4
  <2>5. before[n].deploy <= after[n].deploy /\ before[n].verified <= after[n].verified
    BY <1>6
  <2>6. before[k].deploy = before[n].deploy + x /\ after[k].deploy = after[n].deploy + y
    BY <1>2, <1>3, <2>1, <2>3
  <2>7. /\ before[k].verified = before[n].verified + (IF list[k].isVerified THEN v ELSE 0)
        /\ after[k].verified = after[n].verified + (IF list[k].isVerified THEN w ELSE 0)
    BY <1>2, <1>3, <2>1, <2>4
  <2>8. before[k].deploy <= after[k].deploy
    BY <2>2, <2>3, <2>5, <2>6
  <2>9. before[k].verified <= after[k].verified
    BY <2>2, <2>4, <2>5, <2>7
  <2>10. QED
    BY <2>1, <2>8, <2>9
<1>7. \A n \in 0 .. N : n \in P
  <2> HIDE DEF P
  <2> QED BY <1>1, <1>5, <1>6, Induction
<1>8. N \in 0 .. N /\ N \in P
  BY <1>1, <1>7
<1> QED
  BY <1>2, <1>3, <1>8 DEF N

(* The tiers of both engines are the last in the table that is reached.    *)
LEMMA TiersAgree ==
  ASSUME NEW total \in Nat
  PROVE  /\ GetScoreTier(total) = WebTier(total)
         /\ \E i \in DOMAIN Tiers :
                /\ Tiers[i].min <= total
                /\ \A j \in DOMAIN Tiers : Tiers[j].min <= total => j <= i
                /\ GetScoreTier(total) = Tiers[i].label
<1>1. /\ Tiers[1].min = 0 /\ Tiers[2].min = 1 /\ Tiers[3].min = 10
      /\ Tiers[4].min = 30 /\ Tiers[5].min = 60 /\ Tiers[6].min = 100
  BY DEF Tiers
<1>2. /\ Tiers[1].label = "No Activity" /\ Tiers[2].label = "Early Activity"
      /\ Tiers[3].label = "Active Builder" /\ Tiers[4].label = "Established"
      /\ Tiers[5].label = "Prolific" /\ Tiers[6].label = "Extensive"
  BY DEF Tiers
<1>3. DOMAIN Tiers = 1 .. 6
  BY DEF Tiers
<1> DEFINE Reached(i) == /\ Tiers[i].min <= total
                         /\ \A j \in DOMAIN Tiers : Tiers[j].min <= total => j <= i
<1>4. \A j \in 1 .. 6 : j = 1 \/ j = 2 \/ j = 3 \/ j = 4 \/ j = 5 \/ j = 6
  OBVIOUS
<1>5. CASE total = 0
  <2>1. Reached(1)
    BY <1>1, <1>4, <1>3, <1>5
  <2>2. GetScoreTier(total) = "No Activity"
    BY <1>5 DEF GetScoreTier
  <2>3. total < 1
    BY <1>5
  <2>4. WebTier(total) = "No Activity"
    BY <1>5, <2>3 DEF WebTier
  <2>5. 1 \in DOMAIN Tiers
    BY <1>3
  <2>6. Tiers[1].label = "No Activity"
    BY <1>2
  <2> HIDE DEF Reached
  <2>7. QED
    BY <2>1, <2>2, <2>4, <2>5, <2>6 DEF Reached
<1>6. CASE total \in 1 .. 9
  <2>1. Reached(2)
    BY <1>1, <1>4, <1>3, <1>6
  <2>2. GetScoreTier(total) = "Early Activity"
    BY <1>6 DEF GetScoreTier
  <2>3. /\ total # 0 /\ total > 0 /\ total < 10
        /\ ~ (total >= 10) /\ ~ (total >= 30) /\ ~ (total >= 60) /\ ~ (total >= 100)
    BY <1>6
  <2>4. WebTier(total) = "Early Activity"
    BY <1>6, <2>3 DEF WebTier
  <2>5. 2 \in DOMAIN Tiers
    BY <1>3
  <2>6. Tiers[2].label = "Early Activity"
    BY <1>2
  <2> HIDE DEF Reached
  <2>7. QED
    BY <2>1, <2>2, <2>4, <2>5, <2>6 DEF Reached
<1>7. CASE total \in 10 .. 29
  <2>1. Reached(3)
    BY <1>1, <1>4, <1>3, <1>7
  <2>2. GetScoreTier(total) = "Active Builder"
    BY <1>7 DEF GetScoreTier
  <2>3. /\ total # 0 /\ ~ (total < 10) /\ total >= 10 /\ total < 30
        /\ ~ (total >= 30) /\ ~ (total >= 60) /\ ~ (total >= 100)
    BY <1>7
  <2>4. WebTier(total) = "Active Builder"
    BY <1>7, <2>3 DEF WebTier
  <2>5. 3 \in DOMAIN Tiers
    BY <1>3
  <2>6. Tiers[3].label = "Active Builder"
    BY <1>2
  <2> HIDE DEF Reached
  <2>7. QED
    BY <2>1, <2>2, <2>4, <2>5, <2>6 DEF Reached
<1>8. CASE total \in 30 .. 59
  <2>1. Reached(4)
    BY <1>1, <1>4, <1>3, <1>8
  <2>2. GetScoreTier(total) = "Established"
    BY <1>8 DEF GetScoreTier
  <2>3. total >= 30 /\ total < 60
    BY <1>8
  <2>4. WebTier(total) = "Established"
    BY <1>8, <2>3 DEF WebTier
  <2>5. 4 \in DOMAIN Tiers
    BY <1>3
  <2>6. Tiers[4].label = "Established"
    BY <1>2
  <2> HIDE DEF Reached
  <2>7. QED
    BY <2>1, <2>2, <2>4, <2>5, <2>6 DEF Reached
<1>9. CASE total \in 60 .. 99
  <2>1. Reached(5)
    BY <1>1, <1>4, <1>3, <1>9
  <2>2. GetScoreTier(total) = "Prolific"
    BY <1>9 DEF GetScoreTier
  <2>3. total >= 60 /\ total < 100
    BY <1>9
  <2>4. WebTier(total) = "Prolific"
    BY <1>9, <2>3 DEF WebTier
  <2>5. 5 \in DOMAIN Tiers
    BY <1>3
  <2>6. Tiers[5].label = "Prolific"
    BY <1>2
  <2> HIDE DEF Reached
  <2>7. QED
    BY <2>1, <2>2, <2>4, <2>5, <2>6 DEF Reached
<1>10. CASE total >= 100
  <2>1. Reached(6)
    BY <1>1, <1>4, <1>3, <1>10
  <2>2. GetScoreTier(total) = "Extensive"
    BY <1>10 DEF GetScoreTier
  <2>3. total >= 100
    BY <1>10
  <2>4. WebTier(total) = "Extensive"
    BY <1>10, <2>3 DEF WebTier
  <2>5. 6 \in DOMAIN Tiers
    BY <1>3
  <2>6. Tiers[6].label = "Extensive"
    BY <1>2
  <2> HIDE DEF Reached
  <2>7. QED
    BY <2>1, <2>2, <2>4, <2>5, <2>6 DEF Reached
<1>11. QED
  BY <1>5, <1>6, <1>7, <1>8, <1>9, <1>10

(* Parity: of every list both engines make the same score, and of every    *)
(* score the same tier, the last one that it reaches.                      *)
THEOREM EnginesAreAtParity == Spec => []Parity
<1>1. ASSUME TypeOK PROVE Parity
  <2>1. PICK list \in Seq(NormalizedContract) : list = Contracts
    BY <1>1, ContractsType
  <2>2. PICK capped \in Seq(NormalizedContract) :
          capped = Capped(list) /\ Len(capped) <= MaxScored
    BY CappedIsPrefix
  <2>3. PICK burst : burst = DetectBurstContracts(capped)
                     /\ burst = WebBurstContracts(capped)
    BY BurstParity
  <2>4. clock \in Int
    BY <1>1 DEF TypeOK
  <2> DEFINE N == Len(capped)
             sum == Points(capped, burst, clock)[N]
             Deploy(i) == WebPoints(5, capped[i], burst, clock)
             Verified(i) == IF WebScoresVerified(capped, i)
                            THEN WebPoints(10, capped[i], burst, clock) ELSE 0
             Bonus(i) == (Deploy(i) - 5)
                         + (IF WebScoresVerified(capped, i) THEN Verified(i) - 10 ELSE 0)
  <2>5. /\ sum.deploy = Sum([i \in DOMAIN capped |-> Deploy(i)])[N]
        /\ sum.verified = Sum([i \in DOMAIN capped |-> Verified(i)])[N]
        /\ sum.bonus = Sum([i \in DOMAIN capped |-> Bonus(i)])[N]
    BY <2>2, <2>4, EnginesAgree
  <2>6. sum.deploy \in Nat /\ sum.verified \in Nat
    <3>1. sum \in PointsType
      <4>1. N \in 0 .. Len(capped)
        OBVIOUS
      <4> HIDE DEF N
      <4>2. QED
        BY <2>4, <4>1, PointsSteps
    <3> HIDE DEF sum
    <3>2. QED
      BY <3>1 DEF PointsType
  <2>7. ASSUME NEW ens \in Ens
        PROVE  LET worker == ComputeReputationScore(list, ens, clock)
               IN  worker = WebScore(list, ens, clock) /\ worker.total \in Nat
    <3>1. EnsPoints(ens) \in Nat
      <4>1. CASE ens = NoEns
        BY <4>1 DEF EnsPoints, NoEns
      <4>2. CASE ens \in [name : {TRUE}, metadata : 0 .. 3]
        <5>1. ens.name = TRUE /\ ens.metadata \in 0 .. 3
          BY <4>2
        <5>2. QED
          BY <5>1 DEF EnsPoints
      <4>3. QED
        BY <4>1, <4>2 DEF Ens
    <3>2. ComputeReputationScore(list, ens, clock) =
            [total |-> sum.deploy + sum.verified + EnsPoints(ens),
             deployments |-> sum.deploy, verified |-> sum.verified,
             bonus |-> sum.bonus, capped |-> Len(list) > MaxScored]
      BY <2>2, <2>3, Zenon DEF ComputeReputationScore, Score
    <3>3. WebScore(list, ens, clock) =
            [total |-> sum.deploy + sum.verified + EnsPoints(ens),
             deployments |-> sum.deploy, verified |-> sum.verified,
             bonus |-> sum.bonus, capped |-> Len(list) > MaxScored]
      BY <2>2, <2>3, <2>5, Zenon DEF WebScore, EnsPoints
    <3> HIDE DEF sum
    <3>4. ComputeReputationScore(list, ens, clock).total \in Nat
      BY <2>6, <3>1, <3>2
    <3>5. QED
      BY <3>2, <3>3, <3>4
  <2> HIDE DEF sum
  <2>8. QED
    BY <2>1, <2>7, TiersAgree DEF Parity
<1>2. QED
  BY <1>1, ContractsAreTyped, PTL

(* BreakdownAddsUp: the points of a breakdown are the base points of what  *)
(* was scored and the effect of time that the profile states.              *)
THEOREM BreakdownsAddUp == Spec => []BreakdownAddsUp
<1>1. ASSUME TypeOK PROVE BreakdownAddsUp
  <2>1. PICK list \in Seq(NormalizedContract) : list = Contracts
    BY <1>1, ContractsType
  <2>2. PICK capped \in Seq(NormalizedContract) :
          capped = Capped(list) /\ Len(capped) <= MaxScored
    BY CappedIsPrefix
  <2>3. clock \in Int
    BY <1>1 DEF TypeOK
  <2> DEFINE burst == DetectBurstContracts(capped)
             verified == Cardinality({i \in DOMAIN capped : capped[i].isVerified})
  <2>4. PICK sum : /\ sum = Points(capped, burst, clock)[Len(capped)]
                   /\ sum \in PointsType
                   /\ sum.deploy + sum.verified = 5 * Len(capped) + 10 * verified + sum.bonus
    <3> HIDE DEF burst
    <3>1. /\ Points(capped, burst, clock)[Len(capped)] \in PointsType
          /\ Points(capped, burst, clock)[Len(capped)].deploy
               + Points(capped, burst, clock)[Len(capped)].verified
             = 5 * Len(capped) + 10 * verified
               + Points(capped, burst, clock)[Len(capped)].bonus
      <4> HIDE DEF verified
      <4>1. verified = Cardinality({i \in DOMAIN capped : capped[i].isVerified})
        BY DEF verified
      <4>2. QED
        BY ONLY <2>2, <2>3, <4>1, PointsAddUp, capped \in Seq(NormalizedContract)
    <3>2. QED
      BY ONLY <3>1
  <2>5. EnsPoints(NoEns) = 0
    BY DEF EnsPoints, NoEns
  <2>6. /\ ComputeReputationScore(list, NoEns, clock).total = sum.deploy + sum.verified
        /\ ComputeReputationScore(list, NoEns, clock).bonus = sum.bonus
    BY <2>2, <2>4, <2>5 DEF ComputeReputationScore, Score, PointsType
  <2>7. QED
    BY <2>1, <2>2, <2>4, <2>6, Zenon DEF BreakdownAddsUp
<1>2. QED
  BY <1>1, ContractsAreTyped, PTL

(* What the multipliers make of the points at most.                        *)
LEMMA RoundedPointsBounds ==
  \A m \in Multipliers : Round(5 * m) <= 6 /\ Round(10 * m) <= 12
<1>1. /\ Round(5 * 64) = 3 /\ Round(5 * 80) = 4 /\ Round(5 * 96) = 5
      /\ Round(5 * 100) = 5 /\ Round(5 * 120) = 6
  BY DEF Round
<1>2. /\ Round(10 * 64) = 6 /\ Round(10 * 80) = 8 /\ Round(10 * 96) = 10
      /\ Round(10 * 100) = 10 /\ Round(10 * 120) = 12
  BY DEF Round
<1> QED
  BY <1>1, <1>2 DEF Multipliers

(* A list earns 6 points for every contract and 12 more for every verified *)
(* one at most.                                                            *)
LEMMA PointsAreBounded ==
  ASSUME NEW list \in Seq(NormalizedContract), Len(list) <= MaxScored,
         NEW burst, NEW now \in Int
  PROVE  LET sum == Points(list, burst, now)[Len(list)]
         IN  /\ sum \in PointsType
             /\ sum.deploy <= 6 * Len(list)
             /\ sum.verified <= 12 * Len(list)
<1> DEFINE N == Len(list)
           m(n) == Multiplier(list[n], burst, now)
<1>1. N \in Nat /\ DOMAIN list = 1 .. N
  OBVIOUS
<1>2. PICK sum :
        /\ sum = Points(list, burst, now)
        /\ sum[0] = NoPoints
        /\ \A n \in 0 .. N : sum[n] \in PointsType
        /\ \A n \in 1 .. N :
              /\ sum[n].deploy = sum[n - 1].deploy + Round(5 * m(n))
              /\ sum[n].verified = sum[n - 1].verified
                      + (IF list[n].isVerified THEN Round(10 * m(n)) ELSE 0)
  BY PointsSteps, PointsOfOne
<1>3. \A n \in 1 .. N : /\ Round(5 * m(n)) \in Nat /\ Round(5 * m(n)) <= 6
                       /\ Round(10 * m(n)) \in Nat /\ Round(10 * m(n)) <= 12
  <2> SUFFICES ASSUME NEW n \in 1 .. N
               PROVE  /\ Round(5 * m(n)) \in Nat /\ Round(5 * m(n)) <= 6
                      /\ Round(10 * m(n)) \in Nat /\ Round(10 * m(n)) <= 12
    OBVIOUS
  <2>1. list[n] \in NormalizedContract
    BY <1>1
  <2>2. m(n) \in Multipliers
    BY <2>1, MultiplierType
  <2> HIDE DEF m
  <2>3. QED
    BY <2>2, RoundedPoints, RoundedPointsBounds
<1>4. \A n \in 0 .. N : sum[n].deploy \in Nat /\ sum[n].verified \in Nat
  BY <1>2 DEF PointsType
<1> HIDE DEF m, N
<1> DEFINE P == {n \in 0 .. N : sum[n].deploy <= 6 * n /\ sum[n].verified <= 12 * n}
<1>5. 0 \in P
  BY <1>1, <1>2 DEF NoPoints
<1>6. ASSUME NEW n \in 0 .. N - 1, n \in P PROVE n + 1 \in P
  <2>1. PICK k \in 1 .. N : k = n + 1 /\ k - 1 = n /\ k \in 0 .. N /\ n \in 0 .. N
    BY <1>1
  <2>2. PICK x \in 0 .. 6 : x = Round(5 * m(k))
    BY <1>3
  <2>3. PICK y \in 0 .. 12 : y = IF list[k].isVerified THEN Round(10 * m(k)) ELSE 0
    BY <1>3
  <2>4. PICK d \in Nat, v \in Nat : d = sum[n].deploy /\ v = sum[n].verified
    BY <1>4, <2>1
  <2>5. sum[k].deploy = d + x /\ sum[k].verified = v + y
    BY <1>2, <2>1, <2>2, <2>3, <2>4
  <2>6. d <= 6 * n /\ v <= 12 * n
    BY <1>6, <2>4
  <2>7. d + x <= 6 * k /\ v + y <= 12 * k
    <3>1. k \in Nat /\ n \in Nat
      BY <1>1
    <3>2. QED
      BY ONLY <2>1, <2>6, <3>1, x \in 0 .. 6, y \in 0 .. 12, d \in Nat, v \in Nat
  <2>8. QED
    BY <2>1, <2>5, <2>7
<1>7. \A n \in 0 .. N : n \in P
  <2> HIDE DEF P
  <2> QED BY <1>1, <1>5, <1>6, Induction
<1>8. N \in 0 .. N /\ N \in P
  BY <1>1, <1>7
<1> QED
  BY <1>1, <1>2, <1>8 DEF N

(* Both engines' scores have the type that lib/types.ts declares.          *)
LEMMA ScoreType ==
  ASSUME NEW list \in Seq(NormalizedContract), NEW ens \in Ens, NEW now \in Int
  PROVE  LET score == ComputeReputationScore(list, ens, now)
         IN  /\ score \in ReputationScore
             /\ score.total = score.deployments + score.verified + EnsPoints(ens)
             /\ score.deployments <= 6 * MaxScored
             /\ score.verified <= 12 * MaxScored
             /\ EnsPoints(ens) \in 0 .. 11
<1>1. PICK capped \in Seq(NormalizedContract) :
        capped = Capped(list) /\ Len(capped) <= MaxScored
  BY CappedIsPrefix
<1> DEFINE burst == DetectBurstContracts(capped)
<1>2. PICK sum \in PointsType : /\ sum = Points(capped, burst, now)[Len(capped)]
                                /\ sum.deploy <= 6 * Len(capped)
                                /\ sum.verified <= 12 * Len(capped)
  <2> HIDE DEF burst
  <2>1. QED
    BY <1>1, PointsAreBounded
<1>3. EnsPoints(ens) \in 0 .. 11
  <2>1. EnsPoints(NoEns) = 0
    BY DEF EnsPoints, NoEns
  <2>2. \A e \in [name : {TRUE}, metadata : 0 .. 3] : EnsPoints(e) \in 0 .. 11
    BY DEF EnsPoints
  <2>3. ens = NoEns \/ ens \in [name : {TRUE}, metadata : 0 .. 3]
    BY DEF Ens
  <2>4. 0 \in 0 .. 11
    OBVIOUS
  <2>5. QED
    BY <2>1, <2>2, <2>3, <2>4, Zenon
<1>4. PICK d \in Nat, v \in Nat, b \in Int : d = sum.deploy /\ v = sum.verified /\ b = sum.bonus
  BY DEF PointsType
<1>5. PICK e \in 0 .. 11 : e = EnsPoints(ens)
  BY <1>3
<1>6. ComputeReputationScore(list, ens, now) =
        [total |-> d + v + e, deployments |-> d, verified |-> v, bonus |-> b,
         capped |-> Len(list) > MaxScored]
  BY <1>1, <1>2, <1>4, <1>5 DEF ComputeReputationScore, Score
<1>7. d <= 6 * MaxScored /\ v <= 12 * MaxScored
  <2>1. Len(capped) \in Nat /\ MaxScored \in Nat /\ d <= 6 * Len(capped) /\ v <= 12 * Len(capped)
    BY <1>1, <1>2, <1>4, ScoringAssumption
  <2>2. QED
    BY <1>1, <2>1
<1>8. d + v + e \in Nat /\ (Len(list) > MaxScored) \in BOOLEAN
  OBVIOUS
<1> QED
  BY <1>5, <1>6, <1>7, <1>8 DEF ReputationScore

(* A bar is scaled by the maximum of its points, and never cut off.        *)
LEMMA BarIsPercentage ==
  ASSUME NEW max \in Nat, NEW points \in 0 .. max
  PROVE  BarRow(points, max) \in 0 .. 100
<1>1. CASE max = 0
  BY <1>1 DEF BarRow
<1>2. CASE max > 0
  <2>1. /\ 200 * points + max \in Nat /\ 2 * max \in Nat /\ 2 * max > 0
        /\ 200 * points + max < 101 * (2 * max)
    BY <1>2
  <2>2. \A x, d \in Nat : d > 0 /\ x < 101 * d => x \div d \in 0 .. 100
    OBVIOUS
  <2>3. (200 * points + max) \div (2 * max) \in 0 .. 100
    BY <2>1, <2>2
  <2>4. QED
    BY <1>2, <2>3 DEF BarRow
<1> QED
  BY <1>1, <1>2

(* BarsFit: no profile has more points in a category than the maximum the  *)
(* score card scales its bar by, so that no bar is cut off; and the ring   *)
(* is full for "Extensive" alone.                                          *)
THEOREM BarsAreScaled == Spec => []BarsFit
<1>1. ASSUME TypeOK PROVE BarsFit
  <2>1. PICK list \in Seq(NormalizedContract) : list = Contracts
    BY <1>1, ContractsType
  <2>2. clock \in Int
    BY <1>1 DEF TypeOK
  <2> SUFFICES ASSUME NEW ens \in Ens
               PROVE  LET score == BuildReputationProfile(list, ens, clock)
                      IN  /\ score.breakdown.deployments <= MaxDeployPts
                          /\ score.breakdown.verified <= MaxVerifyPts
                          /\ EnsPoints(ens) <= MaxEnsPts
                          /\ \A bar \in {BarRow(score.breakdown.deployments, MaxDeployPts),
                                         BarRow(score.breakdown.verified, MaxVerifyPts),
                                         BarRow(EnsPoints(ens), MaxEnsPts)} :
                                ProgressBar(bar) = bar
                          /\ ScoreRing(score.score) = 100 <=> score.tier = "Extensive"
    BY <2>1, Zenon DEF BarsFit
  <2>3. PICK score \in ReputationScore :
          /\ score = ComputeReputationScore(list, ens, clock)
          /\ score.deployments <= 6 * MaxScored
          /\ score.verified <= 12 * MaxScored
          /\ EnsPoints(ens) \in 0 .. 11
    BY <2>2, ScoreType
  <2>4. PICK profile : profile = BuildReputationProfile(list, ens, clock)
    OBVIOUS
  <2>5. /\ profile.breakdown = score
        /\ profile.score = score.total
        /\ profile.tier = GetScoreTier(score.total)
    BY <2>3, <2>4, Zenon DEF BuildReputationProfile
  <2>6. /\ MaxDeployPts = 6 * MaxScored /\ MaxVerifyPts = 12 * MaxScored /\ MaxEnsPts = 11
        /\ MaxDeployPts \in Nat /\ MaxVerifyPts \in Nat
    <3>1. MaxScored \in Nat
      BY ScoringAssumption
    <3>2. \A m \in Nat : (m * 5 * 120) \div 100 = 6 * m /\ (m * 10 * 120) \div 100 = 12 * m
      OBVIOUS
    <3>3. QED
      BY <3>1, <3>2 DEF MaxDeployPts, MaxVerifyPts, MaxEnsPts
  <2>7. /\ score.deployments \in 0 .. MaxDeployPts
        /\ score.verified \in 0 .. MaxVerifyPts
        /\ EnsPoints(ens) \in 0 .. MaxEnsPts
    BY <2>3, <2>6 DEF ReputationScore
  <2>8. /\ BarRow(score.deployments, MaxDeployPts) \in 0 .. 100
        /\ BarRow(score.verified, MaxVerifyPts) \in 0 .. 100
        /\ BarRow(EnsPoints(ens), MaxEnsPts) \in 0 .. 100
    BY <2>6, <2>7, BarIsPercentage
  <2>9. \A bar \in 0 .. 100 : ProgressBar(bar) = bar
    BY DEF ProgressBar
  <2>10. ScoreRing(score.total) = 100 <=> GetScoreTier(score.total) = "Extensive"
    <3>1. PICK total \in Nat : total = score.total
      BY DEF ReputationScore
    <3>2. PICK i \in DOMAIN Tiers :
            /\ Tiers[i].min <= total
            /\ \A j \in DOMAIN Tiers : Tiers[j].min <= total => j <= i
            /\ GetScoreTier(total) = Tiers[i].label
      BY TiersAgree
    <3>3. /\ DOMAIN Tiers = 1 .. 6 /\ Tiers[6].min = 100 /\ Tiers[6].label = "Extensive"
          /\ \A j \in 1 .. 5 : Tiers[j].label # "Extensive"
      <4>1. DOMAIN Tiers = 1 .. 6 /\ Tiers[6].min = 100
        BY DEF Tiers
      <4>2. /\ Tiers[1].label = "No Activity" /\ Tiers[2].label = "Early Activity"
            /\ Tiers[3].label = "Active Builder" /\ Tiers[4].label = "Established"
            /\ Tiers[5].label = "Prolific" /\ Tiers[6].label = "Extensive"
        BY DEF Tiers
      <4>3. \A j \in 1 .. 5 : j = 1 \/ j = 2 \/ j = 3 \/ j = 4 \/ j = 5
        OBVIOUS
      <4>4. QED
        BY <4>1, <4>2, <4>3
    <3>4. i = 6 <=> total >= 100
      <4>1. i \in 1 .. 6
        BY <3>3
      <4>2. total >= 100 => 6 <= i
        BY <3>2, <3>3
      <4>3. i = 6 => 100 <= total
        BY <3>2, <3>3
      <4>4. QED
        BY <4>1, <4>2, <4>3
    <3>5. GetScoreTier(total) = "Extensive" <=> i = 6
      <4>1. i # 6 => i \in 1 .. 5
        BY <3>3
      <4>2. QED
        BY <3>2, <3>3, <4>1
    <3>6. ScoreRing(total) = 100 <=> total >= 100
      BY DEF ScoreRing
    <3>7. QED
      BY <3>1, <3>4, <3>5, <3>6
  <2>11. /\ profile.breakdown.deployments <= MaxDeployPts
         /\ profile.breakdown.verified <= MaxVerifyPts
         /\ EnsPoints(ens) <= MaxEnsPts
    BY <2>3, <2>5, <2>6
  <2>12. QED
    BY <2>4, <2>5, <2>8, <2>9, <2>10, <2>11
<1>2. QED
  BY <1>1, ContractsAreTyped, PTL

(* AgingNeverHurts: the same contracts never score less at a later time,   *)
(* as no burst depends on the time of the analysis.                        *)
THEOREM TimeNeverHurts == Spec => AgingNeverHurts
<1> DEFINE Total(time) == ComputeReputationScore(Contracts, NoEns, time).total
<1>1. ASSUME TypeOK, NEW now \in Int, NEW later \in Int, now <= later
      PROVE  Total(now) <= Total(later)
  <2>1. PICK list \in Seq(NormalizedContract) : list = Contracts
    BY <1>1, ContractsType
  <2>2. PICK capped \in Seq(NormalizedContract) :
          capped = Capped(list) /\ Len(capped) <= MaxScored
    BY CappedIsPrefix
  <2> DEFINE burst == DetectBurstContracts(capped)
  <2>3. PICK before, after \in PointsType :
          /\ before = Points(capped, burst, now)[Len(capped)]
          /\ after = Points(capped, burst, later)[Len(capped)]
          /\ before.deploy <= after.deploy
          /\ before.verified <= after.verified
    <3> HIDE DEF burst
    <3>1. QED
      BY <1>1, <2>2, PointsRise
  <2>4. EnsPoints(NoEns) = 0
    BY DEF EnsPoints, NoEns
  <2>5. /\ Total(now) = before.deploy + before.verified
        /\ Total(later) = after.deploy + after.verified
    BY <2>1, <2>2, <2>3, <2>4 DEF ComputeReputationScore, Score, PointsType
  <2>6. /\ before.deploy \in Nat /\ before.verified \in Nat
        /\ after.deploy \in Nat /\ after.verified \in Nat
    BY DEF PointsType
  <2>7. before.deploy + before.verified <= after.deploy + after.verified
    BY <2>3, <2>6
  <2> HIDE DEF Total
  <2>8. QED
    BY <2>5, <2>7
<1>2. ASSUME TypeOK, [Next]_vars, listed' = listed
      PROVE  Total(clock) <= Total(clock')
  <2>1. clock \in Int /\ (clock' = clock \/ clock' = clock + 1)
    <3>1. CASE List
      BY <1>2, <3>1 DEF List, TypeOK
    <3>2. CASE Tick
      BY <1>2, <3>2 DEF Tick, TypeOK
    <3>3. CASE UNCHANGED vars
      BY <1>2, <3>3 DEF vars, TypeOK
    <3>4. QED
      BY <1>2, <3>1, <3>2, <3>3 DEF Next
  <2>2. PICK now \in Int, later \in Int : now = clock /\ later = clock' /\ now <= later
    BY <2>1
  <2> HIDE DEF Total
  <2>3. QED
    BY <1>1, <1>2, <2>2
<1>3. TypeOK /\ [Next]_vars =>
        [LET list == Contracts
             ScoredAt(time) == ComputeReputationScore(list, NoEns, time).total
         IN  listed' = listed => ScoredAt(clock) <= ScoredAt(clock')]_vars
  BY <1>2
<1>4. QED
  BY <1>3, ContractsAreTyped, PTL DEF Spec, AgingNeverHurts
=============================================================================
