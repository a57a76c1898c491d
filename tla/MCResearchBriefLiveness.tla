---------------------- MODULE MCResearchBriefLiveness ----------------------
(* Instances of ResearchBriefLiveness for TLC.                             *)
EXTENDS ResearchBriefLiveness

ThreeBriefs == {1, 2, 3}
OfProject == {1, 2}
NoBriefs == {}
OneTime == {0}

(* Bounds: what becomes of a run once it is claimed matters to no other    *)
(* brief. It succeeds, or fails for its scope before it is opened.         *)
Bounds ==
  /\ \A w \in Workers :
       /\ pc[w] # "guarded"
       /\ pc[w] = "fail" => Mine(w).pipeline = "none" /\ ~InScope(Owner(w))
  /\ \A i \in 1 .. Len(runs) :
       runs[i].status = "running" => \E w \in Workers : at[w].run = i

MCSpec == Init /\ [][Next /\ Bounds']_vars /\ Fairness
=============================================================================
