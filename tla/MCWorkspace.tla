------------------------------ MODULE MCWorkspace ------------------------------
(***************************************************************************)
(* Instances for TLC of a project's workspace: its members and what it     *)
(* shares, its decision cards, the relevance of its videos and the         *)
(* accounts it may use. The four write different tables and read none of   *)
(* each other's, so one run checks them side by side: part says which one  *)
(* moves.                                                                  *)
(***************************************************************************)
EXTENDS ProjectAccess, DecisionLoop, SubjectRelevance, AccountAuthorization, TLC

VARIABLE part

CONSTANTS o1, o2, s1, s2, r1, r2, w1, w2, a1, a2

(* One project has two owners, the other one of them.                      *)
Provisioned(p, a) == [project |-> p, actor |-> a, role |-> "owner", status |-> "active", from |-> 0]
MCFirstMembers == {Provisioned(1, o1), Provisioned(1, o2), Provisioned(2, o2)}

(* Two profiles of one subject, so that only one may be approved.          *)
MCSubjectOf == "p1" :> "s1" @@ "p2" :> "s1"

(* A text that one set of terms finds relevant and the other excludes.     *)
Terms(aliases, places, exclusions) ==
  [aliases |-> aliases, places |-> places, exclusions |-> exclusions]
MCTermSets == {Terms({"name"}, {}, {}), Terms({"name"}, {"place"}, {"bad"})}
MCTexts == {{"name"}, {"name", "bad"}}

(* A window that ends, and one that begins later and has no end.           *)
MCWindows == {[from |-> 0, until |-> 2], [from |-> 1, until |-> 9]}

MCInit ==
  /\ AccessInit /\ LoopInit /\ RelevanceInit /\ AuthorizationInit
  /\ part \in {"access", "loop", "relevance", "authorization"}
  /\ part # "loop" => accepted
  /\ part # "relevance" => terms = Terms({"name"}, {}, {}) /\ \A v \in Videos : text[v] = {"name"}
  /\ part # "authorization" => \A r \in Relations : relations[r] = [verification |-> "proposed", window |-> [from |-> 0, until |-> 2]]

MCNext ==
  /\ UNCHANGED part
  /\ \/ part = "access" /\ AccessNext /\ UNCHANGED <<loopVars, relevanceVars, authorizationVars>>
     \/ part = "loop" /\ LoopNext /\ UNCHANGED <<accessVars, relevanceVars, authorizationVars>>
     \/ part = "relevance" /\ RelevanceNext /\ UNCHANGED <<accessVars, loopVars, authorizationVars>>
     \/ part = "authorization" /\ AuthorizationNext /\ UNCHANGED <<accessVars, loopVars, relevanceVars>>

MCSpec ==
  MCInit /\ [][MCNext]_<<part, accessVars, loopVars, relevanceVars, authorizationVars>>
=============================================================================
