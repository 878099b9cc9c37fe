------------------------------ MODULE Scoring ------------------------------
(***************************************************************************)
(* How a wallet's contracts become a score: normalisation (normalize.js),  *)
(* the worker's scoring engine (scoring.generated.js), the profile built   *)
(* around it (profile.js), the second engine the web application uses for  *)
(* what it displays (lib/core/scoring.ts), and the bars of ScoreCard.tsx.  *)
(*                                                                         *)
(* Multipliers are in hundredths; Math.round is Round.  The rules are      *)
(* those of scoring.json but for the cap on scored contracts and the two   *)
(* lengths of time, which are constants.                                   *)
(*                                                                         *)
(* A loop over a list is a function of the number of elements it has       *)
(* passed, its value after the last one being the result.                  *)
(***************************************************************************)
EXTENDS Integers, Sequences, FiniteSets

CONSTANTS
    MaxScored,         \* maxDeploymentsScored and maxVerifiedScored
    BurstWindow,       \* burstWindowSeconds
    EstablishedAfter,  \* establishedThresholdSeconds
    Timestamp,         \* what the sources give for a timestamp; junk is not positive
    MaxRaw,            \* bound on the contracts the sources list
    MaxNow             \* bound on the clock

ASSUME ScoringAssumption ==
    /\ MaxScored \in Nat /\ BurstWindow \in Nat /\ EstablishedAfter \in Nat
    /\ Timestamp \subseteq Int /\ MaxRaw \in Nat /\ MaxNow \in Nat

BurstThreshold == 3
Malformed == 0

\* What the sources list, and what is left of it for scoring: an unknown timestamp is 0.
ContractDeployment == [address : Nat, timestamp : Int, isVerified : BOOLEAN]
NormalizedContract == [address : Nat \ {Malformed}, timestamp : Nat, isVerified : BOOLEAN]

\* What either engine makes of them.
ReputationScore ==
    [total : Nat, deployments : Nat, verified : Nat, bonus : Int, capped : BOOLEAN]

\* TIERS: minimal score and label. The functions do not use it.
Tiers == <<[min |-> 0, label |-> "No Activity"],
           [min |-> 1, label |-> "Early Activity"],
           [min |-> 10, label |-> "Active Builder"],
           [min |-> 30, label |-> "Established"],
           [min |-> 60, label |-> "Prolific"],
           [min |-> 100, label |-> "Extensive"]>>

\* What ens.js can find: a name, and with it any of the avatar, the url and the
\* github account, of which the points only tell how many there are.
NoEns == [name |-> FALSE, metadata |-> 0]
Ens == {NoEns} \union [name : {TRUE}, metadata : 0 .. 3]

Round(hundredths) == (hundredths + 50) \div 100

\* contracts.slice(0, MAX_DEPLOYMENTS_SCORED)
Capped(list) ==
    [i \in 1 .. (IF Len(list) <= MaxScored THEN Len(list) ELSE MaxScored) |-> list[i]]

------------------------------------------------------------------------------
(* normalize.js                                                            *)

NormalizeContract(raw) ==
    [raw EXCEPT !.timestamp = IF @ > 0 THEN @ ELSE 0]

\* The well-formed ones of the first n contracts, normalized.
Normalized(list) ==
    LET kept[n \in 0 .. Len(list)] ==
            IF n = 0 THEN <<>>
            ELSE IF list[n].address = Malformed THEN kept[n - 1]
            ELSE Append(kept[n - 1], NormalizeContract(list[n]))
    IN  kept

NormalizeContracts(list) == Normalized(list)[Len(list)]

\* Mutant: an unknown timestamp, 0, counts as the oldest.
KeepExistingZero(existing, contract) ==
    existing.timestamp <= contract.timestamp

\* The entry of an address that was seen first gives way to one with an older
\* timestamp, but an unknown timestamp to any.
KeepExisting(existing, contract) ==
    /\ existing.timestamp > 0
    /\ contract.timestamp = 0 \/ existing.timestamp <= contract.timestamp

\* The map keeps the order in which addresses came first.
Insert(seen, contract) ==
    IF \A i \in DOMAIN seen : seen[i].address # contract.address
    THEN Append(seen, contract)
    ELSE [i \in DOMAIN seen |->
            IF seen[i].address # contract.address \/ KeepExisting(seen[i], contract)
            THEN seen[i] ELSE contract]

Deduplicated(list) ==
    LET seen[n \in 0 .. Len(list)] ==
            IF n = 0 THEN <<>> ELSE Insert(seen[n - 1], list[n])
    IN  seen

DeduplicateContracts(list) == Deduplicated(list)[Len(list)]

------------------------------------------------------------------------------
(* scoring.generated.js, the engine of the worker                          *)

\* Mutant: multipliers swapped.
GetTimeMultiplierSwapped(timestamp, now) ==
    IF timestamp = 0 THEN 100
    ELSE IF now - timestamp > EstablishedAfter THEN 80
    ELSE 120

GetTimeMultiplier(timestamp, now) ==
    IF timestamp = 0 THEN 100
    ELSE IF now - timestamp > EstablishedAfter THEN 120
    ELSE 80

\* filter and sort of the contracts with a known timestamp.  The sort is stable:
\* a contract comes in the place that as many contracts do not come after.
Known(list) == {i \in DOMAIN list : list[i].timestamp > 0}

NotAfter(list, i) ==
    {j \in Known(list) :
        \/ list[j].timestamp < list[i].timestamp
        \/ list[j].timestamp = list[i].timestamp /\ j <= i}

Timestamped(list) ==
    [k \in 1 .. Cardinality(Known(list)) |->
        list[CHOOSE i \in Known(list) : Cardinality(NotAfter(list, i)) = k]]

\* Mutant: the window moves on by a whole window.
DetectBurstContractsJumping(list) ==
    LET t == Timestamped(list)
        Starts == {i \in 1 .. Len(t) - BurstThreshold + 1 :
                    /\ i % BurstThreshold = 1
                    /\ t[i + BurstThreshold - 1].timestamp - t[i].timestamp
                            <= BurstWindow}
    IN  UNION {{t[j].address : j \in i .. i + BurstThreshold - 1} : i \in Starts}

DetectBurstContracts(list) ==
    LET t == Timestamped(list)
        Starts == {i \in 1 .. Len(t) - BurstThreshold + 1 :
                    t[i + BurstThreshold - 1].timestamp - t[i].timestamp
                        <= BurstWindow}
    IN  UNION {{t[j].address : j \in i .. i + BurstThreshold - 1} : i \in Starts}

\* The thresholds are written out in the code, not taken from Tiers.
GetScoreTier(score) ==
    CASE score = 0 -> "No Activity"
      [] score \in 1 .. 9 -> "Early Activity"
      [] score \in 10 .. 29 -> "Active Builder"
      [] score \in 30 .. 59 -> "Established"
      [] score \in 60 .. 99 -> "Prolific"
      [] OTHER -> "Extensive"

NoPoints == [deploy |-> 0, verified |-> 0, bonus |-> 0, count |-> 0]

\* The body of the loop.
AddContract(sum, contract, multiplier) ==
    LET deploy == Round(5 * multiplier)
        verified == Round(10 * multiplier)
        scored == contract.isVerified /\ sum.count < MaxScored
    IN  [deploy |-> sum.deploy + deploy,
         verified |-> sum.verified + (IF scored THEN verified ELSE 0),
         bonus |-> sum.bonus + (deploy - 5) + (IF scored THEN verified - 10 ELSE 0),
         count |-> sum.count + (IF scored THEN 1 ELSE 0)]

Multiplier(contract, burst, now) ==
    (GetTimeMultiplier(contract.timestamp, now)
        * (IF contract.address \in burst THEN 80 ELSE 100)) \div 100

\* The loop.
Points(list, burst, now) ==
    LET sum[n \in 0 .. Len(list)] ==
            IF n = 0 THEN NoPoints
            ELSE AddContract(sum[n - 1], list[n], Multiplier(list[n], burst, now))
    IN  sum

EnsPoints(ens) == IF ens.name THEN 2 + 3 * ens.metadata ELSE 0

Score(contracts, burst, ens, now) ==
    LET capped == Capped(contracts)
        sum == Points(capped, burst, now)[Len(capped)]
    IN  [total |-> sum.deploy + sum.verified + EnsPoints(ens),
         deployments |-> sum.deploy, verified |-> sum.verified,
         bonus |-> sum.bonus, capped |-> Len(contracts) > MaxScored]

\* Mutant: bursts are looked for in contracts that are not scored, too.
ComputeReputationScoreAllBursts(contracts, ens, now) ==
    Score(contracts, DetectBurstContracts(contracts), ens, now)

ComputeReputationScore(contracts, ens, now) ==
    Score(contracts, DetectBurstContracts(Capped(contracts)), ens, now)

------------------------------------------------------------------------------
(* lib/core/scoring.ts, the engine of the web application                  *)

WebTimeMultiplier(timestamp, now) ==
    CASE timestamp = 0 -> 100
      [] timestamp # 0 /\ now - timestamp > EstablishedAfter -> 120
      [] OTHER -> 80

\* Every window of BurstThreshold contracts in the order of their timestamps.
WebBurstContracts(list) ==
    LET t == Timestamped(list)
    IN  {c \in {list[k].address : k \in DOMAIN list} :
            \E first, k \in DOMAIN t :
                /\ first + BurstThreshold - 1 \in DOMAIN t
                /\ t[first + BurstThreshold - 1].timestamp - t[first].timestamp
                        <= BurstWindow
                /\ k - first \in 0 .. BurstThreshold - 1
                /\ t[k].address = c}

\* The sum of the first n numbers.
Sum(numbers) ==
    LET sum[n \in 0 .. Len(numbers)] ==
            IF n = 0 THEN 0 ELSE sum[n - 1] + numbers[n]
    IN  sum

WebPoints(base, contract, burst, now) ==
    Round(base * ((WebTimeMultiplier(contract.timestamp, now)
        * (IF contract.address \in burst THEN 80 ELSE 100)) \div 100))

\* The check of verifiedCount, which counts the verified contracts scored before.
WebScoresVerified(list, i) ==
    /\ list[i].isVerified
    /\ Cardinality({j \in 1 .. i - 1 : list[j].isVerified}) < MaxScored

WebScore(contracts, ens, now) ==
    LET capped == Capped(contracts)
        burst == WebBurstContracts(capped)
        Deploy(i) == WebPoints(5, capped[i], burst, now)
        Verified(i) == IF WebScoresVerified(capped, i)
                       THEN WebPoints(10, capped[i], burst, now) ELSE 0
        Bonus(i) == (Deploy(i) - 5)
                    + (IF WebScoresVerified(capped, i) THEN Verified(i) - 10 ELSE 0)
        deployments == Sum([i \in DOMAIN capped |-> Deploy(i)])[Len(capped)]
        verified == Sum([i \in DOMAIN capped |-> Verified(i)])[Len(capped)]
    IN  [total |-> deployments + verified
                    + (IF ens.name THEN 2 + 3 * ens.metadata ELSE 0),
         deployments |-> deployments,
         verified |-> verified,
         bonus |-> Sum([i \in DOMAIN capped |-> Bonus(i)])[Len(capped)],
         capped |-> Len(contracts) > MaxScored]

WebTier(score) ==
    CASE score = 0 -> "No Activity"
      [] score > 0 /\ score < 10 -> "Early Activity"
      [] score >= 10 /\ score < 30 -> "Active Builder"
      [] score >= 30 /\ score < 60 -> "Established"
      [] score >= 60 /\ score < 100 -> "Prolific"
      [] score >= 100 -> "Extensive"

------------------------------------------------------------------------------
(* profile.js                                                              *)

\* Mutant: three contracts exactly one window apart are no burst.
DetectBurstStrict(contracts) ==
    LET t == Timestamped(contracts)
    IN  \E i \in 1 .. Len(t) - BurstThreshold + 1 :
            t[i + BurstThreshold - 1].timestamp - t[i].timestamp < BurstWindow

\* On all contracts, scored or not.
DetectBurst(contracts) ==
    LET t == Timestamped(contracts)
    IN  \E i \in 1 .. Len(t) - BurstThreshold + 1 :
            t[i + BurstThreshold - 1].timestamp - t[i].timestamp <= BurstWindow

\* The parts of the profile that depend on more than one contract: what it warns
\* of, and the direction in which it says time has moved the score.
BuildReputationProfile(contracts, ens, now) ==
    LET score == ComputeReputationScore(contracts, ens, now)
    IN  [score |-> score.total, breakdown |-> score,
         tier |-> GetScoreTier(score.total),
         warnings |-> (IF DetectBurst(contracts) THEN {"burst"} ELSE {})
                        \union (IF score.capped THEN {"capped"} ELSE {}),
         weighting |-> IF score.bonus > 0 THEN "bonus"
                       ELSE IF score.bonus < 0 THEN "penalty" ELSE "none"]

------------------------------------------------------------------------------
(* ScoreCard.tsx: the three bars of the breakdown                          *)

\* "Max possible points per category": every base point at the highest multiplier.
MaxDeployPts == (MaxScored * 5 * 120) \div 100
MaxVerifyPts == (MaxScored * 10 * 120) \div 100
MaxEnsPts == 2 + 3 * 3

\* The percentage, rounded.
BarRow(points, max) ==
    IF max > 0 THEN (200 * points + max) \div (2 * max) ELSE 0

ProgressBar(value) ==
    IF value < 0 THEN 0 ELSE IF value > 100 THEN 100 ELSE value

ScoreRing(score) == IF score > 100 THEN 100 ELSE score

------------------------------------------------------------------------------
(* The sources list contracts one by one, in any order and some more than  *)
(* once, and the clock goes on.                                            *)

VARIABLES
    listed,  \* what the sources listed
    clock   \* the time of the analysis

vars == <<listed, clock>>

Contracts == DeduplicateContracts(NormalizeContracts(listed))

Latest == {t \in Timestamp : \A u \in Timestamp : u <= t}

\* No contract is younger than the analysis.
Init == listed = <<>> /\ clock \in Latest

\* Addresses are taken in order, which is no restriction but on their names.
List ==
    /\ Len(listed) < MaxRaw
    /\ LET known == {listed[i].address : i \in DOMAIN listed} \ {Malformed}
           Well == [address : known \union {Cardinality(known) + 1},
                    timestamp : Timestamp, isVerified : BOOLEAN]
           Bad == [address : {Malformed}, timestamp : Latest, isVerified : {TRUE}]
       IN  \E contract \in Well \union Bad : listed' = Append(listed, contract)
    /\ UNCHANGED clock

Tick ==
    /\ clock < MaxNow
    /\ clock' = clock + 1
    /\ UNCHANGED listed

Next == List \/ Tick

Spec == Init /\ [][Next]_vars

------------------------------------------------------------------------------
\* What the sources list is contracts, and the clock shows a time.
TypeOK ==
    /\ listed \in Seq(ContractDeployment)
    /\ clock \in Int

\* normalize.js: whatever the order in which duplicates come, each address is left
\* once, with the oldest of its known timestamps.
DedupeKeepsOldest ==
    LET list == Contracts
        KnownOf(a) == {listed[i].timestamp :
                        i \in {j \in DOMAIN listed : listed[j].address = a
                                                    /\ listed[j].timestamp > 0}}
    IN  /\ {list[i].address : i \in DOMAIN list}
                = {listed[i].address : i \in DOMAIN listed} \ {Malformed}
        /\ \A i, j \in DOMAIN list : list[i].address = list[j].address => i = j
        /\ \A i \in DOMAIN list :
            LET known == KnownOf(list[i].address)
            IN  IF known = {} THEN list[i].timestamp = 0
                ELSE /\ list[i].timestamp \in known
                     /\ \A t \in known : list[i].timestamp <= t

\* The sliding window finds exactly the contracts that are one of three deployed
\* within a window, whatever the order and the ties.
BurstsAreTriples ==
    LET list == Contracts
        known == {list[i] : i \in Known(list)}
        Close(c, d) == c # d /\ c.timestamp - d.timestamp \in -BurstWindow .. BurstWindow
    IN  DetectBurstContracts(list) =
            {c.address : c \in {c \in known : \E d, e \in known :
                                    Close(c, d) /\ Close(d, e) /\ Close(c, e)}}

\* scoring-parity.test.js: both engines give every wallet the same points and the
\* same tier, which is the last in the table that the score reaches.
Parity ==
    LET list == Contracts
    IN  \A ens \in Ens :
            LET worker == ComputeReputationScore(list, ens, clock)
            IN  /\ worker = WebScore(list, ens, clock)
                /\ GetScoreTier(worker.total) = WebTier(worker.total)
                /\ \E i \in DOMAIN Tiers :
                    /\ Tiers[i].min <= worker.total
                    /\ \A j \in DOMAIN Tiers : Tiers[j].min <= worker.total => j <= i
                    /\ GetScoreTier(worker.total) = Tiers[i].label

\* profile.js: the breakdown a user is shown adds up. The points are the base
\* points of what was scored and the stated effect of time.
BreakdownAddsUp ==
    LET list == Contracts
        score == ComputeReputationScore(list, NoEns, clock)
        scored == Capped(list)
        verified == {i \in DOMAIN scored : scored[i].isVerified}
    IN  score.total = 5 * Len(scored) + 10 * Cardinality(verified) + score.bonus

\* ScoreCard.tsx: the maxima by which the bars are scaled are ones that no profile
\* exceeds, so that no bar is cut off; and the ring is full for the "Extensive" only.
BarsFit ==
    \A ens \in Ens :
        LET score == BuildReputationProfile(Contracts, ens, clock)
        IN  /\ score.breakdown.deployments <= MaxDeployPts
            /\ score.breakdown.verified <= MaxVerifyPts
            /\ EnsPoints(ens) <= MaxEnsPts
            /\ \A bar \in {BarRow(score.breakdown.deployments, MaxDeployPts),
                           BarRow(score.breakdown.verified, MaxVerifyPts),
                           BarRow(EnsPoints(ens), MaxEnsPts)} : ProgressBar(bar) = bar
            /\ ScoreRing(score.score) = 100 <=> score.tier = "Extensive"

\* Nobody loses points to a burst without being warned of it, though the warning
\* comes from a second detector on a longer list.
PenaltyIsAnnounced ==
    LET list == Contracts
    IN  DetectBurstContracts(Capped(list)) # {}
            => "burst" \in BuildReputationProfile(list, NoEns, clock).warnings

\* The same contracts never score less at a later time.
AgingNeverHurts ==
    [][LET list == Contracts
           Total(time) == ComputeReputationScore(list, NoEns, time).total
       IN  listed' = listed => Total(clock) <= Total(clock')]_vars

==============================================================================
