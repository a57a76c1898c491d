---------------------- MODULE AnalysisScheduleLiveness ----------------------
(***************************************************************************)
(* What the schedules promise to approved inputs and to pending jobs, once *)
(* the environment is calm: nothing fails by itself and reviewers and      *)
(* operators change nothing.                                               *)
(***************************************************************************)
EXTENDS AnalysisSchedule

(* Schedules fire for ever and workers take what is queued. The ticks of   *)
(* the parents are not aligned for ever: each has ticks that find the slot *)
(* free, and the others are not always first to take it.                   *)
Fairness ==
  /\ \A p \in Parents :
       /\ WF_poolVars(Fire(p)) /\ WF_poolVars(ParentStep(p))
       /\ SF_poolVars(Fire(p) /\ slot = NoParent) /\ SF_poolVars(StartParent(p))
  /\ \A c \in Children : SF_poolVars(StartChild(c)) /\ WF_poolVars(ChildStep(c))

LiveSpec == PoolSpec /\ Fairness

System ==
  \/ \E p \in Parents : Fire(p) \/ ParentStep(p)
  \/ \E c \in Children : ChildStep(c)

Calm == <>[][System]_poolVars

(* Inputs that fail in every dispatch, oldest approvals first, leave room: *)
(* without it they fill each batch (reviewed_dispatch.py _dispatch_rows).  *)
Unpreparable(stage) == stage \cap approved \cap Broken
DispatchHasRoom ==
  /\ Cardinality(Unpreparable(AsrItems)) < SubmissionBatch
  /\ Cardinality(Unpreparable(L3Items)) < SubmissionBatch

(* As do pending jobs that no poll touches, their review being withdrawn   *)
(* or their object lost (poll_pending_asr.py _pending).                    *)
Untouched == {i \in AsrItems : job[i][AsrKey] = "pending" /\ Eligible(i)
                                /\ i \notin approved \ Broken}
PollHasRoom == Cardinality(Untouched) < PollBatch

(* An approved input that can be prepared is submitted, and a pending job  *)
(* polled until it has a result or its polls are spent, while the review   *)
(* stands: as long as what fails in every run leaves room in a batch, no   *)
(* input that is older or polled longer ago holds this one back for ever,  *)
(* and the parents take turns at the slot.                                 *)
ApprovedIsAnalysed ==
  Calm => \A i \in Items \ Broken :
    /\ <>[]DispatchHasRoom => (i \in approved ~> (i \notin approved \/ Jobs(i) # {}))
    /\ <>[]PollHasRoom =>
         ((i \in AsrItems /\ job[i][AsrKey] = "pending" /\ i \in approved)
            ~> (job[i][AsrKey] # "pending" \/ ~Eligible(i) \/ i \notin approved))
=============================================================================
