--------------------------- MODULE MCASRExecution ---------------------------
(* Instances of ASRExecution for TLC. *)
EXTENDS ASRExecution, TLC

CONSTANTS w1, w2, k1, k2, d1, d2

MCWorkers == {w1, w2}
MCTasks == {k1, k2}
OneTask == {k1}
NoTasks == {}
MCDays == {d1, d2}

(* Day d1 allows three requests, day d2 two for a total of 1. *)
MCMaxRequests == d1 :> 3 @@ d2 :> 2
MCMaxCost == d1 :> Unlimited @@ d2 :> 1

PartQuotes == {[known |-> 1, whole |-> TRUE], [known |-> 1, whole |-> FALSE]}
PollOrNot == {0, 1}
LiveAnswers == {"submitted", "failed"}

Symmetry == Permutations(MCWorkers)
=============================================================================
