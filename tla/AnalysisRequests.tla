-------------------------- MODULE AnalysisRequests --------------------------
(***************************************************************************)
(* What the page promises whoever asks it for an analysis: one request at  *)
(* a time; each is answered once, by an error or by the result of this     *)
(* very request if its analysis succeeded; the answer stays until the next *)
(* request or until the page is left, and nothing that arrives late        *)
(* changes it.  A request that is not waited for is never answered.        *)
(***************************************************************************)
EXTENDS Naturals

CONSTANT MaxRequests  \* bound: requests that are made

VARIABLES asked,  \* the number of the last request, 0 before the first
          shown,  \* what the page shows: a status, and the request it belongs to
          truth   \* how the analysis of each request ended, "none" before it does

vars == <<asked, shown, truth>>

Request == 1 .. MaxRequests
Nothing == 0

Show(status, request) == shown' = [status |-> status, data |-> request]

Init ==
  /\ asked = 0
  /\ shown = [status |-> "idle", data |-> Nothing]
  /\ truth = [q \in Request |-> "none"]

Ask ==
  /\ shown.status # "loading"
  /\ asked + 1 \in Request
  /\ asked' = asked + 1
  /\ Show("loading", Nothing)
  /\ UNCHANGED truth

Refuse ==
  /\ shown.status = "loading"
  /\ Show("error", Nothing)
  /\ UNCHANGED <<asked, truth>>

Tell(status) ==
  /\ shown.status = "loading"
  /\ truth[asked] = "SUCCESS"
  /\ Show(status, asked)
  /\ UNCHANGED <<asked, truth>>

Leave ==
  /\ Show("idle", Nothing)
  /\ UNCHANGED <<asked, truth>>

(* An analysis ends, whether its request is still waited for or not.       *)
Settle(q, outcome) ==
  /\ q <= asked
  /\ truth[q] = "none"
  /\ truth' = [truth EXCEPT ![q] = outcome]
  /\ UNCHANGED <<asked, shown>>

Next ==
  \/ Ask \/ Refuse \/ Leave
  \/ \E status \in {"success", "partial"} : Tell(status)
  \/ \E q \in Request, outcome \in {"SUCCESS", "FAILURE"} : Settle(q, outcome)

Spec == Init /\ [][Next]_vars
=============================================================================
