------------------------------ MODULE Ordering ------------------------------
(***************************************************************************)
(* An "order by" over numbers, without recursion.                          *)
(***************************************************************************)
EXTENDS Integers, FiniteSets

(* The n-th of the numbers of S, the least first; all of them in order; and*)
(* what a sequence has at the places of S.                                 *)
Nth(S, n) == CHOOSE m \in S : Cardinality({x \in S : x < m}) = n - 1
InOrder(S) == [n \in 1 .. Cardinality(S) |-> Nth(S, n)]
Pick(s, S) == [n \in 1 .. Cardinality(S) |-> s[Nth(S, n)]]
=============================================================================
