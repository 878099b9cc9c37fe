------------------------------ MODULE JobLedger ------------------------------
(***************************************************************************)
(* What a store of job records promises, whoever writes to it and in       *)
(* whatever order: a record starts as PENDING, becomes final once, with    *)
(* the outcome the analysis really had, and never changes afterwards.      *)
(* A volatile store (the memory of a process) may forget everything.       *)
(***************************************************************************)
CONSTANTS Job,       \* the jobs
          Volatile   \* may the store lose its records? a Boolean

VARIABLES ledger,    \* status of the record of each job
          verdict    \* how the analysis of each job ended

vars == <<ledger, verdict>>

Outcome == {"SUCCESS", "FAILURE"}
Status  == {"ABSENT", "PENDING"} \cup Outcome

Init ==
  /\ ledger = [j \in Job |-> "ABSENT"]
  /\ verdict = [j \in Job |-> "none"]

Decide(j, o) ==
  /\ verdict[j] = "none"
  /\ verdict' = [verdict EXCEPT ![j] = o]

Note(j) ==
  /\ ledger[j] = "ABSENT"
  /\ ledger' = [ledger EXCEPT ![j] = "PENDING"]
  /\ UNCHANGED verdict

(* The outcome is filed, possibly in the step in which it is decided.      *)
Publish(j) ==
  /\ ledger[j] \in {"ABSENT", "PENDING"}
  /\ verdict'[j] \in Outcome
  /\ ledger' = [ledger EXCEPT ![j] = verdict'[j]]
  /\ UNCHANGED verdict \/ \E o \in Outcome : Decide(j, o)

Forget ==
  /\ Volatile
  /\ ledger' = [j \in Job |-> "ABSENT"]
  /\ UNCHANGED verdict

Next ==
  \/ \E j \in Job : Note(j) \/ Publish(j)
  \/ \E j \in Job, o \in Outcome : Decide(j, o) /\ UNCHANGED ledger
  \/ Forget

Spec == Init /\ [][Next]_vars
=============================================================================
