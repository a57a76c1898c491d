--------------------------- MODULE MCL3Execution ---------------------------
(* Instances of L3Execution for TLC. *)
EXTENDS L3Execution, TLC

CONSTANTS w1, w2, k1, k2, d1, d2

MCWorkers == {w1, w2}
MCTasks == {k1, k2}
MCDays == {d1, d2}

(* Day d1 allows one request at any price, day d2 any number of requests   *)
(* for a total of 1.                                                       *)
MCMaxRequests == d1 :> 1 @@ d2 :> Unlimited
MCMaxCost == d1 :> Unlimited @@ d2 :> 1

MCPrices == {0, 1, 3}
PricedOrNot == {1, Unknown}

Symmetry == Permutations(MCWorkers) \cup Permutations(MCTasks)
=============================================================================
