-------------------------- MODULE MCResearchBrief --------------------------
(***************************************************************************)
(* An instance of ResearchBrief for TLC with two project briefs, of which  *)
(* a behaviour moves one: a brief from before subjects, active at the      *)
(* start, whose runs make no calls; or a brief that a user makes, with     *)
(* paid calls, over two days. Bounds says which states are looked into.    *)
(***************************************************************************)
EXTENDS ResearchBrief, TLC

(* Bounds of the first: one day, three instants, one-time or every hour.   *)
Slots ==
  /\ today = 0 /\ now <= 3
  /\ brief[2] = Absent /\ brief[1].cadence < 2
  /\ 2 \in subjects
  /\ \A w \in Workers : pc[w] # "guarded"

(* Of the second: two user actions, every second hour, no other intake.    *)
Calls ==
  /\ lock # OtherJob
  /\ brief[1] = ActiveAtStart(1)
  /\ 1 \in subjects
  /\ \A w \in Workers : at[w].brief # 1
  /\ Cardinality({k \in Keys : log[k] # NoAction}) <= 2
  /\ brief[2].status # "absent" => brief[2].cadence = 2

(* One unused key is like another: they are taken in order.                *)
KeysInOrder == \A k, l \in Keys : k < l /\ log[l] # NoAction => log[k] # NoAction

Bounds == KeysInOrder /\ (Slots \/ Calls)

Symmetry == Permutations(Workers)
=============================================================================
