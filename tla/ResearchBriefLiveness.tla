----------------------- MODULE ResearchBriefLiveness -----------------------
(***************************************************************************)
(* What the schedule of the dispatcher and a live flow worker promise to   *)
(* due briefs, once the environment is calm: no process dies, no session   *)
(* is lost, users and operators change nothing and the other intake takes  *)
(* no new run.                                                             *)
(***************************************************************************)
EXTENDS ResearchBrief

OtherEnds == lock = OtherJob /\ OtherIntake

Start(b) == \E w \in Workers : StartFlow(w, b)

(* The schedule fires every hour; Windmill takes queued flows in turn, so  *)
(* none is passed over for ever; a worker that lives goes on; the other    *)
(* intake ends.                                                            *)
Fairness ==
  /\ WF_vars(Dispatch) /\ WF_vars(OtherEnds)
  /\ \A b \in Briefs : SF_vars(Start(b))
  /\ \A w \in Workers : WF_vars(Proceed(w))

LiveSpec == Spec /\ Fairness

System ==
  \/ Dispatch \/ OtherEnds \/ Tick \/ Midnight
  \/ \E b \in Briefs : Start(b)
  \/ \E w \in Workers : Proceed(w)

Calm == <>[][System]_vars

(* A claim refuses a due brief of an inactive subject and leaves it due,   *)
(* so that it comes back in every batch, before all that are due later.    *)
Refused(b) == b \in DueNow /\ ~Claimable(b) /\ ~Unbound(b)
BatchHasRoom == Cardinality({b \in Briefs : Refused(b)}) < Batch

(* A brief that is due and may be claimed is claimed, or may no longer be: *)
(* however many others are due before it, in batches that do not hold them *)
(* all, as long as those that every claim refuses leave room in a batch.   *)
DueBriefRuns ==
  Calm /\ <>[]BatchHasRoom => \A b \in Briefs : Claimable(b) ~> ~Claimable(b)
=============================================================================
