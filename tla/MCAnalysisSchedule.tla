------------------------- MODULE MCAnalysisSchedule -------------------------
(* Instances of AnalysisSchedule for TLC.                                  *)
EXTENDS AnalysisSchedule, TLC

None == {}
First == {1}
Second == {2}

Symmetry == Permutations(Children)
=============================================================================
