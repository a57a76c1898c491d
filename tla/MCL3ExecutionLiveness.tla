----------------------- MODULE MCL3ExecutionLiveness -----------------------
(* The instance of L3ExecutionLiveness for TLC. *)
EXTENDS L3ExecutionLiveness

CONSTANTS w1, w2, k1, d1

MCWorkers == {w1, w2}
OneTask == {k1}
OneDay == {d1}
MCPrices == 0..2
Priced == {1}
NoLimit == [d \in OneDay |-> Unlimited]
=============================================================================
