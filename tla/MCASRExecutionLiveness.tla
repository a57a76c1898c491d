----------------------- MODULE MCASRExecutionLiveness -----------------------
(* The instance of ASRExecutionLiveness for TLC. *)
EXTENDS ASRExecutionLiveness

CONSTANTS w1, w2, k1, k2, d1

MCWorkers == {w1, w2}
MCTasks == {k1, k2}
OneTask == {k1}
LastTask == {k2}
OneDay == {d1}
NoLimit == [d \in OneDay |-> Unlimited]
WholeQuote == {[known |-> 1, whole |-> TRUE]}
OnePoll == {1}
NowOrLater == {"submitted", "completed"}
=============================================================================
