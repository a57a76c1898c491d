--------------------- MODULE MCAnalysisScheduleLiveness ---------------------
(* Instances of AnalysisScheduleLiveness for TLC.                          *)
EXTENDS AnalysisScheduleLiveness

None == {}
First == {1}
ThreeItems == {1, 2, 3}

(* Bound: only the review of the second input is withdrawn and given back. *)
MCInit == PoolInit /\ Items \ {2} \subseteq approved
MCNext == System \/ Fault \/ Review(2)
MCSpec == MCInit /\ [][MCNext]_poolVars /\ Fairness
=============================================================================
