----------------------------- MODULE VideoFetchPlan -----------------------------
(***************************************************************************)
(* plan_video_fetches of providers/video_fetch_plan.py: how the requests   *)
(* for the details or the statistics of so many distinct videos are chosen.*)
(* A request is its size and its endpoint's capacity; prices are           *)
(* thousandths of a dollar.                                                *)
(***************************************************************************)
EXTENDS Integers, Sequences, Functions

CONSTANT MaxAsked   \* bound: distinct videos asked for

VARIABLES
  asked,     \* the number of distinct videos
  purpose    \* what for, and the strategy

planVars == <<asked, purpose>>

Purposes == {"statistics", "batch50", "cost_aware"}

Option(capacity, price) == [capacity |-> capacity, price |-> price]

(* The endpoints of a purpose, in the order they are considered.           *)
Options(p) ==
  CASE p = "statistics" -> <<Option(50, 25), Option(2, 1)>>
    [] p = "batch50" -> <<Option(50, 50)>>
    [] p = "cost_aware" -> <<Option(50, 50), Option(10, 10), Option(1, 1)>>

Smaller(a, b) == IF a < b THEN a ELSE b

Nothing == [cost |-> 0, calls |-> <<>>]

Better(a, b) == a.cost < b.cost \/ (a.cost = b.cost /\ Len(a.calls) < Len(b.calls))

(* Mutant: of what costs the same the last is taken, whatever its calls. *)
FirstOfCheapest(candidates) ==
  LET i == CHOOSE k \in DOMAIN candidates :
             /\ \A m \in DOMAIN candidates : candidates[k].cost <= candidates[m].cost
             /\ \A m \in k + 1..Len(candidates) : candidates[k].cost < candidates[m].cost
  IN candidates[i]

(* min by cost, then by calls: of equals the first.                        *)
MinBy(candidates) ==
  LET i == CHOOSE k \in DOMAIN candidates :
             /\ \A m \in DOMAIN candidates : ~Better(candidates[m], candidates[k])
             /\ \A m \in 1..k - 1 : Better(candidates[k], candidates[m])
  IN candidates[i]

(* best[k + 1]: what is planned for k videos, of fewer than are asked for. *)
Candidate(o, best) ==
  LET count == Len(best)
      taken == Smaller(count, o.capacity)
      previous == best[count - taken + 1]
  IN [cost |-> previous.cost + o.price,
      calls |-> Append(previous.calls, [size |-> taken, capacity |-> o.capacity])]

NextBest(p, best) == MinBy([i \in DOMAIN Options(p) |-> Candidate(Options(p)[i], best)])

(* What is planned for no video, for one, for two and so on up to n.       *)
BestUpTo(p, n) ==
  LET best[k \in 0..n] ==
        IF k = 0 THEN <<Nothing>>
        ELSE LET earlier == best[k - 1] IN Append(earlier, NextBest(p, earlier))
  IN best[n]

(* The last, at most 50, videos.                                           *)
Best(p, n) == BestUpTo(p, n)[n + 1]

(* Whole groups of the largest endpoint, then the best of the rest.        *)
Groups(n) == IF n = 0 THEN 0 ELSE (n - 1) \div 50
PlanFetches(p, n) ==
  LET full == Groups(n)
      tail == Best(p, n - 50 * full) IN
  [cost |-> full * Options(p)[1].price + tail.cost,
   calls |-> [i \in 1..full |-> [size |-> 50, capacity |-> 50]] \o tail.calls]

(* GOLDEN_MAX_ITEMS and _call_limit_for_strategy of l0l1/real_data.py.     *)
MaxItems == 5
CallLimit(strategy) == IF strategy = "batch50" THEN 2 ELSE MaxItems + 1

PlanInit == asked = 0 /\ purpose \in Purposes

AskOneMore ==
  /\ asked < MaxAsked
  /\ asked' = asked + 1
  /\ UNCHANGED purpose

PlanNext == AskOneMore

PlanSpec == PlanInit /\ [][PlanNext]_planVars

-----------------------------------------------------------------------------
(* ----------------------------- properties ------------------------------ *)

(* Another choice of requests: b[i] of each endpoint but the last of the   *)
(* options, and as many of the last as are still needed.                   *)
CeilDiv(n, d) == (n + d - 1) \div d
Choice(p, n, b) ==
  LET o == Options(p)
      last == Len(o)
      left == n - SumFunction([i \in 1..last - 1 |-> b[i] * o[i].capacity])
      rest == IF left > 0 THEN CeilDiv(left, o[last].capacity) ELSE 0 IN
  [cost |-> rest * o[last].price + SumFunction([i \in 1..last - 1 |-> b[i] * o[i].price]),
   calls |-> rest + SumFunction(b)]

Alternatives(p, n) ==
  {Choice(p, n, b) : b \in [1..Len(Options(p)) - 1 -> 0..CeilDiv(n, 10)]}

Sizes(calls) == [i \in DOMAIN calls |-> calls[i].size]

(* The plan asks for every video once, in requests that fit; no other      *)
(* choice of requests costs less, or as little with fewer calls, whole     *)
(* groups of fifty included; and a golden run's videos fit its call limit. *)
CheapestPlan ==
  LET plan == PlanFetches(purpose, asked) IN
  /\ SumFunction(Sizes(plan.calls)) = asked
  /\ \A i \in DOMAIN plan.calls : plan.calls[i].size \in 1..plan.calls[i].capacity
  /\ \A other \in Alternatives(purpose, asked) :
       \/ plan.cost < other.cost
       \/ plan.cost = other.cost /\ Len(plan.calls) <= other.calls
  /\ asked <= MaxItems /\ purpose # "statistics" => 1 + Len(plan.calls) <= CallLimit(purpose)
=============================================================================
