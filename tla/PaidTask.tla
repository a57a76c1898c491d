------------------------------ MODULE PaidTask ------------------------------
(***************************************************************************)
(* What the platform promises of every task that costs money (an L3 model  *)
(* call, an ASR submission), however its workers crash, race or are run    *)
(* again:                                                                  *)
(*                                                                         *)
(*   - the external service is called only after the task has reserved its *)
(*     budget, and at most once;                                           *)
(*   - an outcome is recorded only for a task that was called, once, and   *)
(*     is never replaced by another one;                                   *)
(*   - a task is closed only with a recorded outcome, as what that outcome *)
(*     says, and stays closed.                                             *)
(*                                                                         *)
(* L3Execution implements this specification; it says nothing of workers,  *)
(* locks, transactions or money.                                           *)
(***************************************************************************)
EXTENDS Naturals

CONSTANT Tasks

VARIABLES
  reserved,   \* the tasks whose budget is reserved
  calls,      \* calls[k]: paid calls made for task k
  outcome,    \* outcome[k]: "none", or the recorded "completed" / "failed"
  closed      \* closed[k]: "open", or the final status of task k

paidVars == <<reserved, calls, outcome, closed>>

Outcomes == {"completed", "failed"}

PaidTypeOK ==
  /\ reserved \subseteq Tasks
  /\ calls \in [Tasks -> {0, 1}]
  /\ outcome \in [Tasks -> {"none"} \cup Outcomes]
  /\ closed \in [Tasks -> {"open"} \cup Outcomes]

Init ==
  /\ reserved = {}
  /\ calls = [k \in Tasks |-> 0]
  /\ outcome = [k \in Tasks |-> "none"]
  /\ closed = [k \in Tasks |-> "open"]

Reserve(k) ==
  /\ k \notin reserved
  /\ reserved' = reserved \cup {k}
  /\ UNCHANGED <<calls, outcome, closed>>

Call(k) ==
  /\ k \in reserved
  /\ calls[k] = 0
  /\ outcome[k] = "none"
  /\ calls' = [calls EXCEPT ![k] = 1]
  /\ UNCHANGED <<reserved, outcome, closed>>

Record(k, r) ==
  /\ calls[k] = 1
  /\ outcome[k] = "none"
  /\ outcome' = [outcome EXCEPT ![k] = r]
  /\ UNCHANGED <<reserved, calls, closed>>

Close(k) ==
  /\ outcome[k] # "none"
  /\ closed[k] = "open"
  /\ closed' = [closed EXCEPT ![k] = outcome[k]]
  /\ UNCHANGED <<reserved, calls, outcome>>

(* A transaction may record the outcome and close the task together. *)
RecordAndClose(k, r) ==
  /\ calls[k] = 1
  /\ outcome[k] = "none"
  /\ closed[k] = "open"
  /\ outcome' = [outcome EXCEPT ![k] = r]
  /\ closed' = [closed EXCEPT ![k] = r]
  /\ UNCHANGED <<reserved, calls>>

Next ==
  \E k \in Tasks :
    \/ Reserve(k)
    \/ Call(k)
    \/ \E r \in Outcomes : Record(k, r) \/ RecordAndClose(k, r)
    \/ Close(k)

Spec == Init /\ [][Next]_paidVars
=============================================================================
