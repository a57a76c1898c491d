----------------------- MODULE AnalysisScheduleProofs -----------------------
(***************************************************************************)
(* Proofs about AnalysisSchedule, for any items, parents, children, keys   *)
(* and faults. The invariant holds whatever is lost; what rests on the     *)
(* slot it says while the session that holds it lasts (SlotKept), for      *)
(* without it two dispatchers can find the same input unknown at once.     *)
(*                                                                         *)
(* The slot makes the parents take turns, so that a child that is waited   *)
(* for is the only one; what it runs for has no job, until it makes one.   *)
(***************************************************************************)
EXTENDS AnalysisSchedule, SetLemmas, SequenceTheorems

(* What the slot gives while its session lasts.                            *)
SlotKept == "drop" \notin Faults

SlotInv == SlotKept => \A p \in Parents : OnWorker(p) => slot = p

(* Two children for L3 inputs do not run while their parents wait: one run *)
(* of the L3 dispatcher at a time, or too few workers for another.         *)
OneBuyer ==
  \/ SlotKept
  \/ \A p, q \in L3Dispatchers : p = q
  \/ PoolSize <= 2

(* A parent whose rows are ASR inputs.                                     *)
AsrOnly(p) == p \in Pollers \/ p \notin L3Dispatchers

RowsInv(p) ==
  /\ parent[p].at = "waiting" => parent[p].rows # << >>
  /\ AsrOnly(p) => parent[p].rows \in Seq(AsrItems)

(* What a child is for, and who waits for it.                              *)
ChildInv(c) ==
  /\ child[c].at = "free" => child[c].owner = NoParent
  /\ child[c].at # "free" => child[c].item \in Items
  /\ child[c].at = "ready" => /\ child[c].key \in TaskKeys
                              /\ child[c].item \in AsrItems => child[c].key = AsrKey
  /\ child[c].owner # NoParent => parent[child[c].owner].at = "waiting"
  /\ child[c].at # "free" /\ child[c].owner = NoParent =>
       child[c].at = "ready" /\ child[c].item \in abandoned
  /\ child[c].owner # NoParent /\ child[c].item \in L3Items => child[c].owner \in L3Dispatchers
  /\ OneBuyer => (child[c].at \in {"queued", "ready"} /\ child[c].item \in L3Items \ abandoned =>
                     Jobs(child[c].item) = {})

(* Nobody waits for two children.                                          *)
Alone ==
  \A c, d \in Children : child[c].owner # NoParent /\ child[c].owner = child[d].owner => c = d

JobsInv(i) ==
  /\ i \in AsrItems => Jobs(i) \subseteq {AsrKey}
  /\ i \in L3Items => \A k \in TaskKeys : job[i][k] # "pending"
  /\ OneBuyer /\ i \notin abandoned => \A k, l \in Jobs(i) : k = l

PoolInv ==
  /\ PoolTypeOK
  /\ SlotInv
  /\ \A p \in Parents : RowsInv(p)
  /\ \A c \in Children : ChildInv(c)
  /\ Alone
  /\ \A i \in Items : JobsInv(i)

(* The workers in use are those of the pool.                               *)
Busy == {p \in Parents : OnWorker(p)}
Running == {c \in Children : child[c].at = "ready"}
UsedInv == Cardinality(Busy) + Cardinality(Running) <= PoolSize

-----------------------------------------------------------------------------
(* What a sequence has at some of its places.                              *)
LEMMA PickIs ==
  ASSUME NEW T, NEW s \in Seq(T), NEW S \in SUBSET (1 .. Len(s))
  PROVE  /\ Pick(s, S) \in Seq(T)
         /\ Range(Pick(s, S)) = {s[m] : m \in S}
         /\ IsInjective(s) => IsInjective(Pick(s, S))
<1>1. Len(s) \in Nat /\ DOMAIN s = 1 .. Len(s) /\ \A m \in 1 .. Len(s) : s[m] \in T
  BY ElementOfSeq
<1>2. S \subseteq Nat /\ IsFiniteSet(S) /\ Cardinality(S) \in Nat
  <2>1. S \subseteq Nat
    BY <1>1
  <2>2. IsFiniteSet(1 .. Len(s))
    BY <1>1, FS_Interval
  <2> QED
    BY <2>1, <2>2, FS_Subset, FS_CardinalityType
<1> DEFINE n == Cardinality(S)
           q == Pick(s, S)
<1>3. \A j \in 1 .. n : Nth(S, j) \in S /\ Cardinality(Below(S, Nth(S, j))) = j - 1
  BY <1>2, NthIs
<1>4. q = [j \in 1 .. n |-> s[Nth(S, j)]]
  BY DEF Pick
<1>5. DOMAIN q = 1 .. n /\ \A j \in 1 .. n : q[j] = s[Nth(S, j)] /\ q[j] \in T
  BY <1>1, <1>3, <1>4
<1>6. q \in Seq(T)
  <2> HIDE DEF q
  <2>1. q \in [1 .. n -> T]
    BY <1>4, <1>5
  <2> QED
    BY <1>2, <2>1
<1>7. Range(q) = {s[m] : m \in S}
  <2>1. \A m \in S : \E j \in 1 .. n : Nth(S, j) = m
    BY <1>2, NthOf
  <2> HIDE DEF q, n
  <2>2. Range(q) = {q[j] : j \in 1 .. n}
    BY <1>5 DEF Range
  <2> QED
    <3>1. \A j \in 1 .. n : \E m \in S : q[j] = s[m]
      BY <1>3, <1>5
    <3>2. \A m \in S : \E j \in 1 .. n : q[j] = s[m]
      BY <1>5, <2>1
    <3>3. {q[j] : j \in 1 .. n} = {s[m] : m \in S}
      <4> DEFINE A == {q[j] : j \in 1 .. n}
                 B == {s[m] : m \in S}
      <4>1. \A y \in A : y \in B
        BY <3>1
      <4>2. \A y \in B : y \in A
        BY <3>2
      <4> HIDE DEF A, B
      <4>3. A = B
        BY <4>1, <4>2
      <4> QED
        BY <4>3 DEF A, B
    <3> QED
      BY <2>2, <3>3
<1>8. ASSUME IsInjective(s), NEW a \in 1 .. n, NEW b \in 1 .. n, q[a] = q[b]
      PROVE  a = b
  <2>1. Nth(S, a) = Nth(S, b)
    BY <1>1, <1>3, <1>5, <1>8 DEF IsInjective
  <2>2. a - 1 = b - 1
    BY <1>3, <2>1
  <2> QED
    BY <1>2, <2>2
<1>9. IsInjective(s) => IsInjective(q)
  BY <1>5, <1>8 DEF IsInjective
<1> QED
  BY <1>6, <1>7, <1>9

-----------------------------------------------------------------------------
(* The parts of the invariant, and what leaves each alone.                 *)

ParentRec == [at : {"off", "queued", "running", "waiting"}, rows : Seq(Items),
              tries : Nat]
ChildRec == [at : {"free", "queued", "ready", "ended"}, item : Items \cup {NoItem},
             key : TaskKeys \cup {NoKey}, owner : Parents \cup {NoParent}]
PendingItems == {i \in Items : \E k \in TaskKeys : job[i][k] = "pending"}

PaidTypes ==
  /\ job \in [Items -> [TaskKeys -> JobState]] /\ polls \in [Items -> 0 .. PollLimit]
  /\ aged \in Seq(AsrItems) /\ IsInjective(aged) /\ Range(aged) = PendingItems

ChildrenInv == (\A c \in Children : ChildInv(c)) /\ Alone
ParentsInv == SlotInv /\ \A p \in Parents : RowsInv(p)

LEMMA PoolParts ==
  PoolInv <=> /\ approved \subseteq Items /\ cfg \in TaskKeys /\ abandoned \subseteq Items
              /\ PaidTypes /\ slot \in Parents \cup {NoParent}
              /\ parent \in [Parents -> ParentRec] /\ child \in [Children -> ChildRec]
              /\ ParentsInv /\ ChildrenInv /\ \A i \in Items : JobsInv(i)
  BY DEF PoolInv, PoolTypeOK, PaidTypes, PendingItems, ParentRec, ChildRec, ParentsInv, ChildrenInv

LEMMA PoolPartsNext ==
  ASSUME approved' \subseteq Items, cfg' \in TaskKeys, abandoned' \subseteq Items,
         PaidTypes', slot' \in Parents \cup {NoParent},
         parent' \in [Parents -> ParentRec], child' \in [Children -> ChildRec],
         ParentsInv', ChildrenInv', \A i \in Items : JobsInv(i)'
  PROVE  PoolInv'
  BY DEF PoolInv, PoolTypeOK, PaidTypes, PendingItems, ParentRec, ChildRec, ParentsInv, ChildrenInv

(* A parent that waits for nobody takes a step of its own.                 *)
LEMMA ParentAlone ==
  ASSUME PoolInv, NEW p \in Parents, NEW r \in ParentRec, parent' = [parent EXCEPT ![p] = r],
         UNCHANGED <<approved, cfg, paid, child, abandoned>>,
         parent[p].at # "waiting", r.at # "waiting",
         AsrOnly(p) => r.rows \in Seq(AsrItems),
         slot' \in Parents \cup {NoParent},
         SlotKept => (\A q \in Parents : q # p /\ OnWorker(q) => slot' = q),
         SlotKept /\ r.at = "running" => slot' = p
  PROVE  PoolInv'
<1> USE DEF paid
<1>1. parent \in [Parents -> ParentRec] /\ ParentsInv /\ ChildrenInv
  BY PoolParts
<1>2. /\ parent' \in [Parents -> ParentRec] /\ parent'[p] = r
      /\ \A q \in Parents : q # p => parent'[q] = parent[q]
  BY <1>1
<1>3. ParentsInv'
  BY <1>1, <1>2 DEF ParentsInv, SlotInv, OnWorker, RowsInv
<1>4. ChildrenInv'
  <2>1. \A c \in Children : child[c].owner # p
    BY <1>1, PoolParts, JobAssumption DEF ChildrenInv, ChildInv, ChildRec
  <2>2. \A c \in Children : child[c].owner \in Parents \cup {NoParent}
    BY PoolParts DEF ChildRec
  <2>3. Alone'
    BY <1>1 DEF ChildrenInv, Alone
  <2>4. \A c \in Children : ChildInv(c)'
    BY <1>1, <1>2, <2>1, <2>2 DEF ChildrenInv, ChildInv, Jobs
  <2> QED
    BY <2>3, <2>4 DEF ChildrenInv
<1>5. PaidTypes' /\ \A i \in Items : JobsInv(i)'
  <2>1. PaidTypes'
    BY PoolParts DEF PaidTypes, PendingItems
  <2> QED
    BY <2>1, PoolParts DEF JobsInv, Jobs
<1> QED
  BY <1>2, <1>3, <1>4, <1>5, PoolParts, PoolPartsNext

LEMMA IdleRec ==
  /\ Idle \in ParentRec /\ Idle.at = "off"
  /\ [Idle EXCEPT !.at = "queued"] \in ParentRec /\ [Idle EXCEPT !.at = "queued"].at = "queued"
  /\ Idle.rows \in Seq(AsrItems) /\ [Idle EXCEPT !.at = "queued"].rows \in Seq(AsrItems)
<1>1. 0 \in Nat
  OBVIOUS
<1>2. << >> \in Seq(Items) /\ << >> \in Seq(AsrItems)
  OBVIOUS
<1>3. Idle \in ParentRec /\ Idle.at = "off" /\ Idle.rows \in Seq(AsrItems)
  BY <1>1, <1>2 DEF Idle, ParentRec
<1>4. [Idle EXCEPT !.at = "queued"] \in ParentRec
  BY <1>3 DEF ParentRec
<1>5. [Idle EXCEPT !.at = "queued"].at = "queued" /\ [Idle EXCEPT !.at = "queued"].rows = Idle.rows
  BY DEF Idle
<1> QED
  BY <1>3, <1>4, <1>5

LEMMA FireKeeps ==
  ASSUME PoolInv, NEW p \in Parents, Fire(p)
  PROVE  PoolInv'
<1> DEFINE r == [Idle EXCEPT !.at = "queued"]
<1>1. r \in ParentRec /\ r.at = "queued" /\ r.rows \in Seq(AsrItems)
  BY IdleRec
<1> HIDE DEF r
<1>2. /\ parent[p].at = "off" /\ parent' = [parent EXCEPT ![p] = r]
      /\ UNCHANGED <<approved, cfg, paid, child, abandoned>> /\ slot' = slot
  BY DEF Fire, SetParent, r
<1>3. slot \in Parents \cup {NoParent} /\ (SlotKept => \A q \in Parents : OnWorker(q) => slot = q)
  BY PoolParts DEF ParentsInv, SlotInv
<1> QED
  BY <1>1, <1>2, <1>3, ParentAlone

LEMMA DeferKeeps ==
  ASSUME PoolInv, NEW p \in Parents, Defer(p)
  PROVE  PoolInv'
<1>1. slot \in Parents \cup {NoParent} /\ (SlotKept => \A q \in Parents : OnWorker(q) => slot = q)
  BY PoolParts DEF ParentsInv, SlotInv
<1>2. /\ parent[p].at = "queued" /\ parent' = [parent EXCEPT ![p] = Idle]
      /\ UNCHANGED <<approved, cfg, paid, child, abandoned>> /\ slot' = slot
  BY DEF Defer, SetParent
<1> QED
  BY <1>1, <1>2, IdleRec, ParentAlone

LEMMA FinishKeeps ==
  ASSUME PoolInv, NEW p \in Parents, Finish(p)
  PROVE  PoolInv'
<1>1. slot \in Parents \cup {NoParent} /\ (SlotKept => \A q \in Parents : OnWorker(q) => slot = q)
  BY PoolParts DEF ParentsInv, SlotInv
<1>2. /\ parent[p].at = "running" /\ parent' = [parent EXCEPT ![p] = Idle]
      /\ UNCHANGED <<approved, cfg, paid, child, abandoned>>
      /\ slot' = IF slot = p THEN NoParent ELSE slot
  BY DEF Finish, SetParent, ReleaseSlot
<1>3. SlotKept => slot = p /\ \A q \in Parents : q # p => ~OnWorker(q)
  BY <1>1, <1>2 DEF OnWorker
<1> QED
  BY <1>1, <1>2, <1>3, IdleRec, ParentAlone

(* What a parent reads: the items of its stage, or the pending jobs.       *)
LEMMA ReadRows ==
  ASSUME PoolInv, NEW p \in Parents
  PROVE  /\ Candidates(p) \in Seq(Items)
         /\ p \notin L3Dispatchers => Candidates(p) \in Seq(AsrItems)
         /\ Pending \in Seq(AsrItems) /\ Pending \in Seq(Items)
<1>1. /\ Candidates(p) \in Seq(Items)
      /\ p \notin L3Dispatchers => Candidates(p) \in Seq(AsrItems)
  <2> DEFINE S == approved \cap (IF p \in L3Dispatchers THEN L3Items ELSE AsrItems)
  <2>1. /\ S \subseteq Nat /\ S \subseteq Items /\ IsFiniteSet(S)
        /\ p \notin L3Dispatchers => S \subseteq AsrItems
    BY PoolParts, ItemAssumption, FS_Subset
  <2> HIDE DEF S
  <2>2. /\ InOrder(S) \in Seq(Items)
        /\ p \notin L3Dispatchers => InOrder(S) \in Seq(AsrItems)
    BY <2>1, InOrderIs
  <2> QED
    BY <2>2 DEF Candidates, S
<1>2. Pending \in Seq(AsrItems)
  <2> DEFINE S == {n \in 1 .. Len(aged) : Eligible(aged[n])}
             due == Pick(aged, S)
             n == IF Len(due) < PollBatch THEN Len(due) ELSE PollBatch
  <2>1. aged \in Seq(AsrItems) /\ S \in SUBSET (1 .. Len(aged))
    BY PoolParts DEF PaidTypes
  <2> HIDE DEF S
  <2>2. due \in Seq(AsrItems)
    BY <2>1, PickIs
  <2> HIDE DEF due
  <2>3. n \in 0 .. Len(due)
    BY <2>2, PoolAssumption
  <2> HIDE DEF n
  <2>4. \A i \in 1 .. n : due[i] \in AsrItems
    BY <2>2, <2>3, ElementOfSeq
  <2>5. SubSeq(due, 1, n) \in Seq(AsrItems)
    BY <2>2, <2>3, <2>4, SubSeqProperties
  <2> QED
    BY <2>5 DEF Pending, S, due, n
<1>3. Pending \in Seq(Items)
  <2>1. AsrItems \subseteq Items
    BY DEF Items
  <2> QED
    BY <1>2, <2>1
<1> QED
  BY <1>1, <1>2, <1>3

LEMMA StartParentKeeps ==
  ASSUME PoolInv, NEW p \in Parents, StartParent(p)
  PROVE  PoolInv'
<1>1. slot \in Parents \cup {NoParent} /\ (SlotKept => \A q \in Parents : OnWorker(q) => slot = q)
  BY PoolParts DEF ParentsInv, SlotInv
<1> DEFINE rows == IF p \in Pollers THEN Pending ELSE Candidates(p)
           r == [at |-> "running", tries |-> 0, rows |-> rows]
<1>2. rows \in Seq(Items) /\ (AsrOnly(p) => rows \in Seq(AsrItems))
  BY ReadRows DEF AsrOnly
<1>3. /\ parent[p].at = "queued" /\ slot = NoParent /\ slot' = p
      /\ parent' = [parent EXCEPT ![p] = r]
      /\ UNCHANGED <<approved, cfg, paid, child, abandoned>>
  BY DEF StartParent, TakeSlot, SetParent
<1> HIDE DEF rows
<1>4. r \in ParentRec /\ r.at = "running" /\ r.rows = rows
  BY <1>2, PoolAssumption DEF ParentRec
<1> HIDE DEF r
<1>5. SlotKept => \A q \in Parents : ~OnWorker(q)
  BY <1>1, <1>3, JobAssumption
<1> QED
  BY <1>2, <1>3, <1>4, <1>5, ParentAlone

LEMMA SkipKeeps ==
  ASSUME PoolInv, NEW p \in Parents, Skip(p)
  PROVE  PoolInv'
<1>1. slot \in Parents \cup {NoParent} /\ (SlotKept => \A q \in Parents : OnWorker(q) => slot = q)
  BY PoolParts DEF ParentsInv, SlotInv
<1>2. parent[p] \in ParentRec /\ RowsInv(p)
  BY PoolParts DEF ParentsInv
<1> DEFINE rows == Tail(parent[p].rows)
           r == [parent[p] EXCEPT !.rows = rows]
<1>3. /\ parent[p].at = "running" /\ parent[p].rows # << >>
      /\ parent' = [parent EXCEPT ![p] = r]
      /\ UNCHANGED <<approved, cfg, paid, child, abandoned>> /\ slot' = slot
  BY DEF Skip, HasRow, SetParent
<1>4. parent[p].rows \in Seq(Items) /\ (AsrOnly(p) => parent[p].rows \in Seq(AsrItems))
  BY <1>2 DEF ParentRec, RowsInv
<1>5. rows \in Seq(Items) /\ (AsrOnly(p) => rows \in Seq(AsrItems))
  BY <1>3, <1>4, HeadTailProperties
<1> HIDE DEF rows
<1>6. r \in ParentRec /\ r.at = "running" /\ r.rows = rows
  BY <1>2, <1>3, <1>5 DEF ParentRec
<1> HIDE DEF r
<1>7. SlotKept => slot = p
  BY <1>1, <1>3 DEF OnWorker
<1> QED
  BY <1>1, <1>3, <1>5, <1>6, <1>7, ParentAlone

(* A parent gets a child for its row.                                      *)
LEMMA CallChildKeeps ==
  ASSUME PoolInv, NEW p \in Parents, CallChild(p)
  PROVE  PoolInv'
<1> USE DEF paid
<1>0. NoParent \notin Parents /\ NoParent # p
  BY JobAssumption
<1>1. /\ parent \in [Parents -> ParentRec] /\ child \in [Children -> ChildRec]
      /\ ParentsInv /\ ChildrenInv /\ slot \in Parents \cup {NoParent}
  BY PoolParts
<1> DEFINE i == Row(p)
           q == [Free EXCEPT !.at = "queued", !.item = i, !.owner = p]
           r == [parent[p] EXCEPT !.at = "waiting"]
<1>2. PICK c \in Children : child[c].at = "free" /\ child' = [child EXCEPT ![c] = q]
  BY DEF CallChild, SetChild
<1>3. /\ parent[p].at = "running" /\ parent[p].rows # << >>
      /\ parent' = [parent EXCEPT ![p] = r]
      /\ UNCHANGED <<approved, cfg, paid, slot, abandoned>>
      /\ p \in Dispatchers => Jobs(i) = {}
  BY DEF CallChild, HasRow, Known, SetParent
<1>4. parent[p] \in ParentRec /\ RowsInv(p)
  BY <1>1 DEF ParentsInv
<1>5. i \in Items /\ (AsrOnly(p) => i \in AsrItems)
  <2>1. parent[p].rows \in Seq(Items) /\ (AsrOnly(p) => parent[p].rows \in Seq(AsrItems))
    BY <1>4 DEF ParentRec, RowsInv
  <2> QED
    BY <1>3, <2>1, HeadTailProperties DEF Row
<1> HIDE DEF i
<1>6. /\ q \in ChildRec /\ q.at = "queued" /\ q.item = i /\ q.owner = p
  BY <1>5 DEF Free, ChildRec
<1>7. r \in ParentRec /\ r.at = "waiting" /\ r.rows = parent[p].rows /\ r.tries = parent[p].tries
  BY <1>4 DEF ParentRec
<1> HIDE DEF q, r
<1>8. /\ parent' \in [Parents -> ParentRec] /\ parent'[p] = r
      /\ \A x \in Parents : x # p => parent'[x] = parent[x]
  BY <1>1, <1>3, <1>7
<1>9. /\ child' \in [Children -> ChildRec] /\ child'[c] = q
      /\ \A d \in Children : d # c => child'[d] = child[d]
  BY <1>1, <1>2, <1>6
<1>10. ParentsInv'
  <2>1. SlotInv'
    BY <1>1, <1>3, <1>7, <1>8 DEF ParentsInv, SlotInv, OnWorker
  <2>2. \A x \in Parents : RowsInv(x)'
    BY <1>1, <1>3, <1>4, <1>7, <1>8 DEF ParentsInv, RowsInv
  <2> QED
    BY <2>1, <2>2 DEF ParentsInv
<1>11. \A d \in Children : child[d].owner # p /\ child[d].owner \in Parents \cup {NoParent}
  BY <1>0, <1>1, <1>3 DEF ChildrenInv, ChildInv, ChildRec
<1>12. \A x : Jobs(x)' = Jobs(x)
  BY <1>3 DEF Jobs
<1>13. Alone'
  BY <1>0, <1>1, <1>6, <1>9, <1>11 DEF ChildrenInv, Alone
<1>14. ChildInv(c)'
  <2>1. i \in L3Items => Jobs(i) = {}
    <3>1. CASE p \in Dispatchers
      BY <1>3, <3>1
    <3>2. CASE p \notin Dispatchers
      BY <1>5, <3>2, ItemAssumption DEF Parents, AsrOnly
    <3> QED
      BY <3>1, <3>2
  <2>2. i \in L3Items => p \in L3Dispatchers
    BY <1>5, ItemAssumption DEF AsrOnly
  <2> QED
    BY <1>0, <1>5, <1>6, <1>7, <1>8, <1>9, <1>12, <2>1, <2>2 DEF ChildInv
<1>15. ASSUME NEW d \in Children, d # c PROVE ChildInv(d)'
  <2>1. ChildInv(d) /\ child'[d] = child[d]
    BY <1>1, <1>9, <1>15 DEF ChildrenInv
  <2> QED
    BY <1>3, <1>8, <1>11, <1>12, <2>1 DEF ChildInv
<1>16. ChildrenInv'
  BY <1>13, <1>14, <1>15 DEF ChildrenInv
<1>17. PaidTypes' /\ \A x \in Items : JobsInv(x)'
  <2>1. PaidTypes'
    BY <1>3, PoolParts DEF PaidTypes, PendingItems
  <2> QED
    BY <1>3, <2>1, PoolParts DEF JobsInv, Jobs
<1> QED
  BY <1>1, <1>3, <1>8, <1>9, <1>10, <1>16, <1>17, PoolParts, PoolPartsNext

(* A parent stops waiting, or stops: a child it waited for is gone, or     *)
(* runs on for an item that counts as abandoned.                           *)
Leaves(p, r) ==
  /\ parent' = [parent EXCEPT ![p] = r] /\ UNCHANGED <<approved, cfg, paid>>
  /\ r.at # "waiting" /\ (AsrOnly(p) => r.rows \in Seq(AsrItems))
  /\ slot' \in Parents \cup {NoParent} /\ (SlotKept /\ r.at = "running" => slot' = p)
  /\ SlotKept => \A q \in Parents : q # p /\ OnWorker(q) => slot' = q
  /\ abandoned \subseteq abandoned' /\ abandoned' \subseteq Items
  /\ child' \in [Children -> ChildRec]
  /\ \A c \in Children : child[c].owner # p => child'[c] = child[c]
  /\ \A c \in Children : child[c].owner = p =>
       \/ child'[c] = Free
       \/ /\ child[c].at = "ready" /\ child'[c] = [child[c] EXCEPT !.owner = NoParent]
          /\ child[c].item \in abandoned'

LEMMA ParentLeaves ==
  ASSUME PoolInv, NEW p \in Parents, NEW r \in ParentRec, Leaves(p, r)
  PROVE  PoolInv'
<1> USE DEF paid, Leaves
<1>0. NoParent \notin Parents /\ NoParent # p
  BY JobAssumption
<1>1. /\ parent \in [Parents -> ParentRec] /\ child \in [Children -> ChildRec]
      /\ ParentsInv /\ ChildrenInv
  BY PoolParts
<1>2. /\ parent' \in [Parents -> ParentRec] /\ parent'[p] = r
      /\ \A q \in Parents : q # p => parent'[q] = parent[q]
  BY <1>1
<1>3. ParentsInv'
  BY <1>1, <1>2 DEF ParentsInv, SlotInv, OnWorker, RowsInv
<1>4. \A x : Jobs(x)' = Jobs(x)
  BY DEF Jobs
<1>5. ASSUME NEW c \in Children
      PROVE  ChildInv(c)' /\ (child'[c].owner # NoParent => child'[c] = child[c])
  <2>1. ChildInv(c) /\ child[c] \in ChildRec
    BY <1>1 DEF ChildrenInv
  <2>2. CASE child[c].owner # p
    <3>1. child'[c] = child[c] /\ child[c].owner \in Parents \cup {NoParent}
      BY <2>1, <2>2 DEF ChildRec
    <3> QED
      BY <1>2, <1>4, <2>1, <2>2, <3>1 DEF ChildInv
  <2>3. CASE child[c].owner = p /\ child'[c] = Free
    BY <2>3 DEF Free, ChildInv
  <2>4. CASE /\ child[c].owner = p /\ child[c].at = "ready"
             /\ child'[c] = [child[c] EXCEPT !.owner = NoParent]
             /\ child[c].item \in abandoned'
    <3>1. /\ child'[c].owner = NoParent /\ child'[c].at = "ready"
          /\ child'[c].item = child[c].item /\ child'[c].key = child[c].key
      BY <2>1, <2>4 DEF ChildRec
    <3> QED
      BY <2>1, <2>4, <3>1 DEF ChildInv
  <2> QED
    BY <2>2, <2>3, <2>4
<1>6. Alone'
  BY <1>1, <1>5 DEF ChildrenInv, Alone
<1>7. ChildrenInv'
  BY <1>5, <1>6 DEF ChildrenInv
<1>8. PaidTypes' /\ \A i \in Items : JobsInv(i)'
  <2>1. PaidTypes'
    BY PoolParts DEF PaidTypes, PendingItems
  <2>2. \A i \in Items : JobsInv(i)
    BY PoolParts
  <2> QED
    BY <2>1, <2>2 DEF JobsInv, Jobs
<1> QED
  BY <1>2, <1>3, <1>7, <1>8, PoolParts, PoolPartsNext

LEMMA AnsweredIs ==
  ASSUME PoolInv, NEW p \in Parents, parent[p].at = "waiting"
  PROVE  /\ Answered(p) \in ParentRec /\ Answered(p).at = "running"
         /\ AsrOnly(p) => Answered(p).rows \in Seq(AsrItems)
         /\ SlotKept => slot = p
<1>1. parent[p] \in ParentRec /\ RowsInv(p) /\ SlotInv
  BY PoolParts DEF ParentsInv
<1>2. /\ parent[p].rows # << >>
      /\ parent[p].rows \in Seq(Items) /\ parent[p].tries \in Nat
      /\ AsrOnly(p) => parent[p].rows \in Seq(AsrItems)
  BY <1>1 DEF RowsInv, ParentRec
<1>3. PICK rows \in Seq(Items) :
        rows = Tail(parent[p].rows) /\ (AsrOnly(p) => rows \in Seq(AsrItems))
  BY <1>2, HeadTailProperties
<1>4. PICK n \in Nat : n = parent[p].tries + 1
  <2>1. parent[p].tries + 1 \in Nat
    BY <1>2
  <2> QED
    BY <2>1
<1>5. Answered(p) = [parent[p] EXCEPT !.at = "running", !.rows = rows, !.tries = n]
  BY <1>3, <1>4 DEF Answered
<1>6. /\ [parent[p] EXCEPT !.at = "running", !.rows = rows, !.tries = n] \in ParentRec
      /\ [parent[p] EXCEPT !.at = "running", !.rows = rows, !.tries = n].at = "running"
      /\ [parent[p] EXCEPT !.at = "running", !.rows = rows, !.tries = n].rows = rows
  BY <1>1 DEF ParentRec
<1>7. SlotKept => slot = p
  BY <1>1 DEF SlotInv, OnWorker
<1> QED
  BY <1>3, <1>5, <1>6, <1>7

LEMMA FreeRec == Free \in ChildRec /\ Free.at = "free" /\ Free.owner = NoParent
  BY DEF Free, ChildRec

LEMMA OrphanIs ==
  ASSUME PoolInv, NEW c \in Children, child[c].owner # NoParent
  PROVE  /\ Orphan(c) \in ChildRec /\ child[c].item \in Items
         /\ Orphan(c) = Free \/ (child[c].at = "ready" /\ Orphan(c) = [child[c] EXCEPT !.owner = NoParent])
<1>1. child[c] \in ChildRec /\ ChildInv(c)
  BY PoolParts DEF ChildrenInv
<1>2. [child[c] EXCEPT !.owner = NoParent] \in ChildRec
  BY <1>1 DEF ChildRec
<1>3. child[c].item \in Items
  BY <1>1 DEF ChildInv
<1> QED
  BY <1>2, <1>3, FreeRec DEF Orphan

LEMMA ReturnKeeps ==
  ASSUME PoolInv, NEW p \in Parents, Return(p)
  PROVE  PoolInv'
<1>1. PICK c \in Children :
        child[c].at = "ended" /\ child[c].owner = p /\ child' = [child EXCEPT ![c] = Free]
  BY DEF Return, SetChild
<1>2. /\ parent[p].at = "waiting" /\ parent' = [parent EXCEPT ![p] = Answered(p)]
      /\ UNCHANGED <<approved, cfg, paid, slot, abandoned>>
  BY DEF Return, SetParent
<1>3. /\ Answered(p) \in ParentRec /\ Answered(p).at = "running"
      /\ AsrOnly(p) => Answered(p).rows \in Seq(AsrItems)
      /\ SlotKept => slot = p
  BY <1>2, AnsweredIs
<1>4. /\ child \in [Children -> ChildRec] /\ Alone /\ SlotInv /\ abandoned \subseteq Items
      /\ slot \in Parents \cup {NoParent}
  BY PoolParts DEF ChildrenInv, ParentsInv
<1>5. child' \in [Children -> ChildRec]
  BY <1>1, <1>4, FreeRec
<1>6. \A d \in Children : (child[d].owner # p => child'[d] = child[d])
                          /\ (child[d].owner = p => child'[d] = Free)
  BY <1>1, <1>4, JobAssumption DEF Alone
<1>7. SlotKept => \A q \in Parents : q # p /\ OnWorker(q) => slot' = q
  BY <1>2, <1>4 DEF SlotInv
<1>8. /\ slot' \in Parents \cup {NoParent} /\ (SlotKept => slot' = p)
      /\ abandoned \subseteq abandoned' /\ abandoned' \subseteq Items
  BY <1>2, <1>3, <1>4
<1>9. Leaves(p, Answered(p))
  BY <1>2, <1>3, <1>5, <1>6, <1>7, <1>8 DEF Leaves
<1> QED
  BY <1>3, <1>9, ParentLeaves

(* The items of the children a parent leaves behind.                       *)
LEMMA AbandonIs ==
  ASSUME PoolInv, NEW p \in Parents, Abandon(p)
  PROVE  /\ abandoned \subseteq abandoned' /\ abandoned' \subseteq Items
         /\ \A c \in Children : child[c].owner = p /\ child[c].at = "ready" =>
                                  child[c].item \in abandoned'
<1>1. abandoned \subseteq Items
  BY PoolParts
<1>2. \A c \in Children : child[c].owner = p /\ child[c].at = "ready" => child[c].item \in Items
  BY PoolParts DEF ChildrenInv, ChildInv
<1> QED
  BY <1>1, <1>2 DEF Abandon

LEMMA GiveUpKeeps ==
  ASSUME PoolInv, NEW p \in Parents, GiveUp(p)
  PROVE  PoolInv'
<1>1. PICK c \in Children : child[c].owner = p /\ child' = [child EXCEPT ![c] = Orphan(c)]
  BY DEF GiveUp, SetChild
<1>2. /\ parent[p].at = "waiting" /\ parent' = [parent EXCEPT ![p] = Answered(p)]
      /\ UNCHANGED <<approved, cfg, paid, slot>> /\ Abandon(p)
  BY DEF GiveUp, SetParent
<1>3. /\ Answered(p) \in ParentRec /\ Answered(p).at = "running"
      /\ AsrOnly(p) => Answered(p).rows \in Seq(AsrItems)
      /\ SlotKept => slot = p
  BY <1>2, AnsweredIs
<1>4. /\ child \in [Children -> ChildRec] /\ Alone /\ SlotInv /\ NoParent # p
      /\ slot \in Parents \cup {NoParent}
  BY PoolParts, JobAssumption DEF ChildrenInv, ParentsInv
<1>5. /\ Orphan(c) \in ChildRec
      /\ Orphan(c) = Free \/ (child[c].at = "ready" /\ Orphan(c) = [child[c] EXCEPT !.owner = NoParent])
  BY <1>1, <1>4, OrphanIs
<1>6. child' \in [Children -> ChildRec] /\ child'[c] = Orphan(c)
      /\ \A d \in Children : d # c => child'[d] = child[d]
  BY <1>1, <1>4, <1>5
<1>7. \A d \in Children : child[d].owner = p => d = c
  BY <1>1, <1>4 DEF Alone
<1>8. /\ abandoned \subseteq abandoned' /\ abandoned' \subseteq Items
      /\ \A d \in Children : child[d].owner = p /\ child[d].at = "ready" =>
                               child[d].item \in abandoned'
  BY <1>2, AbandonIs
<1>9. \A d \in Children : child[d].owner = p =>
        \/ child'[d] = Free
        \/ /\ child[d].at = "ready" /\ child'[d] = [child[d] EXCEPT !.owner = NoParent]
           /\ child[d].item \in abandoned'
  BY <1>1, <1>5, <1>6, <1>7, <1>8
<1>10. \A d \in Children : child[d].owner # p => child'[d] = child[d]
  BY <1>1, <1>6
<1>11. SlotKept => \A q \in Parents : q # p /\ OnWorker(q) => slot' = q
  BY <1>2, <1>4 DEF SlotInv
<1>12. Leaves(p, Answered(p))
  BY <1>2, <1>3, <1>4, <1>6, <1>8, <1>9, <1>10, <1>11 DEF Leaves
<1> QED
  BY <1>3, <1>12, ParentLeaves

LEMMA DieKeeps ==
  ASSUME PoolInv, NEW p \in Parents, Die(p)
  PROVE  PoolInv'
<1>1. /\ OnWorker(p) /\ parent' = [parent EXCEPT ![p] = Idle] /\ Abandon(p)
      /\ slot' = IF slot = p THEN NoParent ELSE slot
      /\ child' = [c \in Children |-> IF child[c].owner = p THEN Orphan(c) ELSE child[c]]
      /\ UNCHANGED <<approved, cfg, paid>>
  BY DEF Die, SetParent, ReleaseSlot
<1>2. child \in [Children -> ChildRec] /\ SlotInv /\ NoParent # p /\ slot \in Parents \cup {NoParent}
  BY PoolParts, JobAssumption DEF ParentsInv
<1>3. SlotKept => slot = p /\ \A q \in Parents : q # p => ~OnWorker(q)
  BY <1>1, <1>2 DEF SlotInv
<1>4. \A c \in Children : child[c].owner = p =>
        /\ Orphan(c) \in ChildRec
        /\ Orphan(c) = Free \/ (child[c].at = "ready" /\ Orphan(c) = [child[c] EXCEPT !.owner = NoParent])
  BY <1>2, OrphanIs
<1>5. /\ child' \in [Children -> ChildRec]
      /\ \A c \in Children : child[c].owner # p => child'[c] = child[c]
      /\ \A c \in Children : child[c].owner = p => child'[c] = Orphan(c)
  BY <1>1, <1>2, <1>4
<1>6. /\ abandoned \subseteq abandoned' /\ abandoned' \subseteq Items
      /\ \A c \in Children : child[c].owner = p /\ child[c].at = "ready" =>
                               child[c].item \in abandoned'
  BY <1>1, AbandonIs
<1>7. \A c \in Children : child[c].owner = p =>
        \/ child'[c] = Free
        \/ /\ child[c].at = "ready" /\ child'[c] = [child[c] EXCEPT !.owner = NoParent]
           /\ child[c].item \in abandoned'
  BY <1>4, <1>5, <1>6
<1>8. Leaves(p, Idle)
  BY <1>1, <1>2, <1>3, <1>5, <1>6, <1>7, IdleRec DEF Leaves
<1> QED
  BY <1>8, IdleRec, ParentLeaves

(* A child takes a step: it keeps its owner, or ends.                      *)
LEMMA ChildGoes ==
  ASSUME PoolInv, NEW c \in Children, NEW r \in ChildRec, child' = [child EXCEPT ![c] = r],
         UNCHANGED <<approved, cfg, slot, parent, abandoned>>,
         r.owner = child[c].owner, ChildInv(c)',
         OneBuyer => \A i \in L3Items \ abandoned :
           (\E d \in Children : d # c /\ child[d].at \in {"queued", "ready"} /\ child[d].item = i) =>
             Jobs(i)' = Jobs(i),
         PaidTypes', \A i \in Items : JobsInv(i)'
  PROVE  PoolInv'
<1>1. /\ child \in [Children -> ChildRec] /\ ParentsInv /\ ChildrenInv
  BY PoolParts
<1>2. /\ child' \in [Children -> ChildRec] /\ child'[c] = r
      /\ \A d \in Children : d # c => child'[d] = child[d]
  BY <1>1
<1>3. ParentsInv'
  BY <1>1 DEF ParentsInv, SlotInv, OnWorker, RowsInv
<1>4. Alone'
  BY <1>1, <1>2 DEF ChildrenInv, Alone
<1>5. ASSUME NEW d \in Children, d # c PROVE ChildInv(d)'
  <2>1. ChildInv(d) /\ child'[d] = child[d]
    BY <1>1, <1>2, <1>5 DEF ChildrenInv
  <2>2. PICK i : i = child[d].item
    OBVIOUS
  <2>3. OneBuyer /\ child[d].at \in {"queued", "ready"} /\ i \in L3Items \ abandoned => Jobs(i)' = {}
    BY <1>5, <2>1, <2>2 DEF ChildInv
  <2> QED
    BY <2>1, <2>2, <2>3 DEF ChildInv
<1>6. ChildrenInv'
  BY <1>4, <1>5 DEF ChildrenInv
<1> QED
  BY <1>2, <1>3, <1>6, PoolParts, PoolPartsNext

LEMMA EndIs ==
  ASSUME PoolInv, NEW c \in Children, child[c].at \in {"queued", "ready"}
  PROVE  /\ End(c) \in ChildRec /\ End(c).owner = child[c].owner
         /\ IF child[c].owner = NoParent THEN End(c).at = "free"
            ELSE End(c).at = "ended" /\ End(c).item = child[c].item
         /\ child[c].item \in Items
<1>1. child[c] \in ChildRec /\ child[c].item \in Items
  BY PoolParts DEF ChildrenInv, ChildInv
<1>2. [Free EXCEPT !.at = "ended", !.item = child[c].item, !.owner = child[c].owner] \in ChildRec
  BY <1>1 DEF Free, ChildRec
<1> QED
  BY <1>1, <1>2, FreeRec DEF End, Free

LEMMA EndKeeps ==
  ASSUME PoolInv, NEW c \in Children, child[c].at \in {"queued", "ready"}, SetChild(c, End(c)),
         UNCHANGED <<approved, cfg, slot, parent, abandoned>>,
         OneBuyer => \A i \in L3Items \ abandoned :
           (\E d \in Children : d # c /\ child[d].at \in {"queued", "ready"} /\ child[d].item = i) =>
             Jobs(i)' = Jobs(i),
         PaidTypes', \A i \in Items : JobsInv(i)'
  PROVE  PoolInv'
<1>1. /\ child \in [Children -> ChildRec] /\ ChildInv(c)
  BY PoolParts DEF ChildrenInv
<1>2. PICK r \in ChildRec :
        /\ r = End(c) /\ r.owner = child[c].owner
        /\ IF child[c].owner = NoParent THEN r.at = "free"
           ELSE r.at = "ended" /\ r.item = child[c].item
        /\ child[c].item \in Items
  BY EndIs
<1>3. child' = [child EXCEPT ![c] = r]
  BY <1>2 DEF SetChild
<1>4. child'[c] = r
  BY <1>1, <1>3
<1>5. ChildInv(c)'
  BY <1>1, <1>2, <1>4 DEF ChildInv
<1> QED
  BY <1>2, <1>3, <1>5, ChildGoes

LEMMA PaidStays ==
  ASSUME PoolInv, UNCHANGED <<paid, abandoned>>
  PROVE  /\ PaidTypes' /\ \A i \in Items : JobsInv(i)'
         /\ \A x : Jobs(x)' = Jobs(x)
<1>1. UNCHANGED <<job, polls, aged>>
  BY DEF paid
<1>2. PaidTypes /\ \A i \in Items : JobsInv(i)
  BY PoolParts
<1> QED
  BY <1>1, <1>2 DEF PaidTypes, PendingItems, JobsInv, Jobs

LEMMA StartChildKeeps ==
  ASSUME PoolInv, NEW c \in Children, StartChild(c)
  PROVE  PoolInv'
<1>1. child[c].at = "queued" /\ UNCHANGED <<approved, cfg, paid, slot, parent, abandoned>>
  BY DEF StartChild
<1>2. PaidTypes' /\ (\A i \in Items : JobsInv(i)') /\ \A x : Jobs(x)' = Jobs(x)
  BY <1>1, PaidStays
<1>3. CASE SetChild(c, End(c))
  BY <1>1, <1>2, <1>3, EndKeeps
<1>4. CASE SetChild(c, [child[c] EXCEPT !.at = "ready", !.key = KeyOf(child[c].item)])
  <2>1. /\ child \in [Children -> ChildRec] /\ ChildInv(c) /\ cfg \in TaskKeys
    BY PoolParts DEF ChildrenInv
  <2>2. child[c].item \in Items /\ child[c].owner # NoParent
    BY <1>1, <2>1 DEF ChildInv
  <2>3. PICK k \in TaskKeys :
          k = KeyOf(child[c].item) /\ (child[c].item \in AsrItems => k = AsrKey)
    BY <2>1, <2>2, ItemAssumption, JobAssumption DEF KeyOf
  <2> DEFINE r == [child[c] EXCEPT !.at = "ready", !.key = k]
  <2>4. /\ r \in ChildRec /\ r.at = "ready" /\ r.key = k
        /\ r.item = child[c].item /\ r.owner = child[c].owner
    BY <2>1 DEF ChildRec
  <2>5. child' = [child EXCEPT ![c] = r]
    BY <1>4, <2>3 DEF SetChild
  <2> HIDE DEF r
  <2>6. child'[c] = r
    BY <2>1, <2>5
  <2>7. ChildInv(c)'
    BY <1>1, <1>2, <2>1, <2>2, <2>3, <2>4, <2>6 DEF ChildInv
  <2> QED
    BY <1>1, <1>2, <2>4, <2>5, <2>7, ChildGoes
<1> QED
  BY <1>3, <1>4 DEF StartChild

LEMMA RepeatKeeps ==
  ASSUME PoolInv, NEW c \in Children, Repeat(c) \/ Fail(c)
  PROVE  PoolInv'
<1>1. /\ child[c].at = "ready" /\ UNCHANGED <<approved, cfg, paid, slot, parent, abandoned>>
      /\ SetChild(c, End(c))
  BY DEF Repeat, Fail
<1>2. PaidTypes' /\ (\A i \in Items : JobsInv(i)') /\ \A x : Jobs(x)' = Jobs(x)
  BY <1>1, PaidStays
<1> QED
  BY <1>1, <1>2, EndKeeps

(* The order by age loses an item, and gains it at its end.                *)
LEMMA WithoutIs ==
  ASSUME PoolInv, NEW i
  PROVE  /\ Without(i) \in Seq(AsrItems) /\ IsInjective(Without(i))
         /\ Range(Without(i)) = PendingItems \ {i}
<1> DEFINE S == {n \in 1 .. Len(aged) : aged[n] # i}
<1>1. aged \in Seq(AsrItems) /\ IsInjective(aged) /\ Range(aged) = PendingItems
  BY PoolParts DEF PaidTypes
<1>2. S \in SUBSET (1 .. Len(aged)) /\ DOMAIN aged = 1 .. Len(aged)
  BY <1>1
<1>3. {aged[m] : m \in S} = Range(aged) \ {i}
  BY <1>2 DEF Range
<1> HIDE DEF S
<1>4. /\ Pick(aged, S) \in Seq(AsrItems) /\ Range(Pick(aged, S)) = {aged[m] : m \in S}
      /\ IsInjective(Pick(aged, S))
  BY <1>1, <1>2, PickIs
<1> QED
  BY <1>1, <1>3, <1>4 DEF Without, S

LEMMA AppendIs ==
  ASSUME NEW T, NEW s \in Seq(T), NEW x \in T, IsInjective(s), x \notin Range(s)
  PROVE  /\ Append(s, x) \in Seq(T) /\ IsInjective(Append(s, x))
         /\ Range(Append(s, x)) = Range(s) \cup {x}
<1> DEFINE q == Append(s, x)
<1>1. Len(s) \in Nat /\ DOMAIN s = 1 .. Len(s)
  OBVIOUS
<1>2. /\ q \in Seq(T) /\ Len(q) = Len(s) + 1
      /\ \A i \in 1 .. Len(s) : q[i] = s[i]
      /\ q[Len(s) + 1] = x
  BY AppendProperties
<1>3. DOMAIN q = (1 .. Len(s)) \cup {Len(s) + 1}
  <2>1. DOMAIN q = 1 .. Len(q)
    BY <1>2
  <2> QED
    BY <1>1, <1>2, <2>1
<1> HIDE DEF q
<1>4. IsInjective(q)
  BY <1>1, <1>2, <1>3 DEF IsInjective, Range
<1>5. Range(q) = Range(s) \cup {x}
  <2>1. \A y \in Range(q) : y \in Range(s) \cup {x}
    BY <1>1, <1>2, <1>3 DEF Range
  <2>2. \A y \in Range(s) \cup {x} : y \in Range(q)
    BY <1>1, <1>2, <1>3 DEF Range
  <2> QED
    BY <2>1, <2>2
<1> QED
  BY <1>2, <1>4, <1>5 DEF q

(* An outcome is recorded for the only key the item may have.              *)
LEMMA RecordIs ==
  ASSUME PoolInv, NEW i \in Items, NEW k \in TaskKeys, NEW s \in JobState \ {"none"},
         Record(i, k, s), polls' \in [Items -> 0 .. PollLimit], abandoned' = abandoned,
         i \in AsrItems => k = AsrKey, OneBuyer /\ i \notin abandoned => Jobs(i) \subseteq {k}
  PROVE  /\ PaidTypes' /\ \A x \in Items : JobsInv(x)'
         /\ \A x \in Items : x # i => Jobs(x)' = Jobs(x)
<1>1. /\ job \in [Items -> [TaskKeys -> JobState]] /\ \A x \in Items : JobsInv(x)
      /\ AsrItems \cap L3Items = {} /\ Items = AsrItems \cup L3Items
  BY PoolParts, ItemAssumption DEF PaidTypes, Items
<1>2. s = "pending" => i \in AsrItems
  BY DEF Record
<1>3. job[i] \in [TaskKeys -> JobState] /\ job' = [job EXCEPT ![i] = [job[i] EXCEPT ![k] = s]]
  BY <1>1 DEF Record
<1>4. /\ job' \in [Items -> [TaskKeys -> JobState]]
      /\ job'[i][k] = s /\ \A l \in TaskKeys : l # k => job'[i][l] = job[i][l]
      /\ \A x \in Items : x # i => job'[x] = job[x]
  <2>1. [job[i] EXCEPT ![k] = s] \in [TaskKeys -> JobState]
    BY <1>3
  <2>2. job' \in [Items -> [TaskKeys -> JobState]] /\ job'[i] = [job[i] EXCEPT ![k] = s]
    BY <1>1, <1>3, <2>1
  <2> QED
    BY <1>1, <1>3, <2>2
<1>5. Jobs(i)' = Jobs(i) \cup {k} /\ \A x \in Items : x # i => Jobs(x)' = Jobs(x)
  <2>1. s # "none"
    OBVIOUS
  <2> QED
    BY <1>4, <2>1 DEF Jobs
<1>6. ASSUME NEW x \in Items PROVE JobsInv(x)'
  <2>1. CASE x # i
    BY <1>1, <1>4, <1>5, <2>1 DEF JobsInv
  <2>2. CASE x = i
    <3>1. i \in AsrItems => Jobs(i)' \subseteq {AsrKey}
      BY <1>1, <1>5 DEF JobsInv
    <3>2. i \in L3Items => \A l \in TaskKeys : job'[i][l] # "pending"
      BY <1>1, <1>2, <1>4 DEF JobsInv
    <3>3. OneBuyer /\ i \notin abandoned => \A l, m \in Jobs(i)' : l = m
      BY <1>5
    <3> QED
      BY <2>2, <3>1, <3>2, <3>3 DEF JobsInv
  <2> QED
    BY <2>1, <2>2
<1>7. PendingItems' = IF s = "pending" THEN (PendingItems \ {i}) \cup {i} ELSE PendingItems \ {i}
  <2>1. \A x \in Items : x # i => (x \in PendingItems' <=> x \in PendingItems)
    BY <1>4 DEF PendingItems
  <2>2. s = "pending" => i \in PendingItems'
    BY <1>4 DEF PendingItems
  <2>3. s # "pending" => i \notin PendingItems'
    <3>1. \A l \in TaskKeys : l # k => job[i][l] # "pending"
      <4>1. CASE i \in L3Items
        BY <1>1, <4>1 DEF JobsInv
      <4>2. CASE i \in AsrItems
        BY <1>1, <4>2 DEF JobsInv, Jobs
      <4> QED
        BY <1>1, <4>1, <4>2
    <3> QED
      BY <1>4, <3>1 DEF PendingItems
  <2>4. PendingItems' \subseteq Items /\ PendingItems \subseteq Items
    BY DEF PendingItems
  <2> QED
    BY <2>1, <2>2, <2>3, <2>4
<1>8. /\ Without(i) \in Seq(AsrItems) /\ IsInjective(Without(i))
      /\ Range(Without(i)) = PendingItems \ {i}
  BY WithoutIs
<1>9. aged' \in Seq(AsrItems) /\ IsInjective(aged') /\ Range(aged') = PendingItems'
  <2>1. CASE s = "pending"
    <3>1. aged' = Append(Without(i), i) /\ i \in AsrItems
      BY <1>2, <2>1 DEF Record
    <3> QED
      BY <1>7, <1>8, <2>1, <3>1, AppendIs
  <2>2. CASE s # "pending"
    <3>1. aged' = Without(i)
      BY <2>2 DEF Record
    <3> QED
      BY <1>7, <1>8, <2>2, <3>1
  <2> QED
    BY <2>1, <2>2
<1> QED
  BY <1>4, <1>5, <1>6, <1>9 DEF PaidTypes

(* A child that runs and another, for L3 inputs and waited for, are one.   *)
LEMMA Sole ==
  ASSUME PoolInv, UsedInv, OneBuyer, NEW c \in Children, NEW d \in Children,
         child[c].owner # NoParent, child[d].owner # NoParent,
         child[c].item \in L3Items, child[d].item \in L3Items, child[c].at = "ready"
  PROVE  c = d
<1>1. /\ ChildInv(c) /\ ChildInv(d) /\ Alone /\ SlotInv
      /\ child[c] \in ChildRec /\ child[d] \in ChildRec
  BY PoolParts DEF ChildrenInv, ParentsInv
<1>2. PICK p \in Parents : p = child[c].owner
  BY <1>1 DEF ChildRec
<1>3. PICK q \in Parents : q = child[d].owner
  BY <1>1 DEF ChildRec
<1>4. /\ OnWorker(p) /\ OnWorker(q)
      /\ p \in L3Dispatchers /\ q \in L3Dispatchers
  BY <1>1, <1>2, <1>3 DEF ChildInv, OnWorker
<1>5. p = q
  <2>1. CASE SlotKept
    BY <1>1, <1>4, <2>1 DEF SlotInv
  <2>2. CASE \A x, y \in L3Dispatchers : x = y
    BY <1>4, <2>2
  <2>3. CASE PoolSize <= 2
    <3>1. IsFiniteSet(Busy) /\ IsFiniteSet(Running) /\ {p, q} \subseteq Busy /\ {c} \subseteq Running
      BY <1>4, JobAssumption, FS_Subset DEF Busy, Running
    <3>2. Cardinality({p, q}) <= Cardinality(Busy) /\ Cardinality({c}) <= Cardinality(Running)
      BY <3>1, FS_Subset
    <3>3. Cardinality({c}) = 1 /\ Cardinality(Busy) \in Nat /\ Cardinality(Running) \in Nat
      BY <3>1, FS_Singleton, FS_CardinalityType
    <3>4. p # q => Cardinality({p, q}) = 2
      <4>1. IsFiniteSet({p}) /\ Cardinality({p}) = 1 /\ {p, q} = {p} \cup {q}
        BY FS_Singleton
      <4>2. p # q => Cardinality({p} \cup {q}) = Cardinality({p}) + 1
        BY <4>1, FS_AddElement
      <4> QED
        BY <4>1, <4>2
    <3> QED
      BY <2>3, <3>2, <3>3, <3>4, PoolAssumption DEF UsedInv
  <2> QED
    BY <2>1, <2>2, <2>3 DEF OneBuyer
<1> QED
  BY <1>1, <1>2, <1>3, <1>5 DEF Alone

LEMMA SubmitKeeps ==
  ASSUME PoolInv, UsedInv, NEW c \in Children, Submit(c)
  PROVE  PoolInv'
<1>1. /\ child \in [Children -> ChildRec] /\ child[c].at = "ready" /\ ChildInv(c)
      /\ PaidTypes /\ (\A x \in Items : JobsInv(x))
      /\ AsrItems \cap L3Items = {} /\ Items = AsrItems \cup L3Items
  BY PoolParts, ItemAssumption DEF ChildrenInv, Submit, Items
<1>2. PICK i \in Items : i = child[c].item
  BY <1>1 DEF ChildInv
<1>3. PICK k \in TaskKeys : k = child[c].key
  BY <1>1 DEF ChildInv
<1>4. /\ UNCHANGED <<approved, cfg, polls, slot, parent, abandoned>> /\ SetChild(c, End(c))
      /\ \E s \in JobState \ {"none"} : Record(i, k, s)
  BY <1>2, <1>3 DEF Submit
<1>5. i \in AsrItems => k = AsrKey
  BY <1>1, <1>2, <1>3 DEF ChildInv
<1>6. i \in L3Items \ abandoned =>
        child[c].owner # NoParent /\ (OneBuyer => Jobs(i) = {})
  BY <1>1, <1>2 DEF ChildInv
<1>7. OneBuyer /\ i \notin abandoned => Jobs(i) \subseteq {k}
  BY <1>1, <1>5, <1>6 DEF JobsInv
<1>8. polls' \in [Items -> 0 .. PollLimit] /\ abandoned' = abandoned
  BY <1>1, <1>4 DEF PaidTypes
<1>9. /\ PaidTypes' /\ \A x \in Items : JobsInv(x)'
      /\ \A x \in Items : x # i => Jobs(x)' = Jobs(x)
  BY <1>4, <1>5, <1>7, <1>8, RecordIs
<1>10. ASSUME OneBuyer, NEW j \in L3Items \ abandoned, NEW d \in Children, d # c,
              child[d].at \in {"queued", "ready"}, child[d].item = j
       PROVE  Jobs(j)' = Jobs(j)
  <2>1. child[d].owner # NoParent
    BY <1>10, PoolParts DEF ChildrenInv, ChildInv
  <2>2. j # i
    BY <1>1, <1>2, <1>6, <1>10, <2>1, Sole
  <2> QED
    BY <1>1, <1>9, <2>2
<1> QED
  BY <1>1, <1>4, <1>9, <1>10, EndKeeps

LEMMA ResumeKeeps ==
  ASSUME PoolInv, NEW c \in Children, Resume(c)
  PROVE  PoolInv'
<1>1. /\ child \in [Children -> ChildRec] /\ child[c].at = "ready" /\ ChildInv(c)
      /\ PaidTypes /\ (\A x \in Items : JobsInv(x))
      /\ AsrItems \cap L3Items = {} /\ Items = AsrItems \cup L3Items
  BY PoolParts, ItemAssumption DEF ChildrenInv, Resume, Items
<1>2. PICK i \in Items : i = child[c].item
  BY <1>1 DEF ChildInv
<1>3. PICK k \in TaskKeys : k = child[c].key
  BY <1>1 DEF ChildInv
<1>4. /\ UNCHANGED <<approved, cfg, slot, parent, abandoned>> /\ SetChild(c, End(c))
      /\ job[i][k] = "pending" /\ Eligible(i) /\ polls' = [polls EXCEPT ![i] = @ + 1]
      /\ \E s \in JobState \ {"none"} : Record(i, k, s)
  BY <1>2, <1>3 DEF Resume
<1>5. i \in AsrItems
  BY <1>1, <1>4 DEF JobsInv
<1>6. k = AsrKey /\ Jobs(i) \subseteq {k}
  BY <1>1, <1>2, <1>3, <1>5 DEF ChildInv, JobsInv
<1>7. polls' \in [Items -> 0 .. PollLimit] /\ abandoned' = abandoned
  <2>1. polls \in [Items -> 0 .. PollLimit] /\ polls[i] + 1 \in 0 .. PollLimit
    BY <1>1, <1>4, PoolAssumption DEF PaidTypes, Eligible
  <2> QED
    BY <1>4, <2>1
<1>8. /\ PaidTypes' /\ \A x \in Items : JobsInv(x)'
      /\ \A x \in Items : x # i => Jobs(x)' = Jobs(x)
  BY <1>4, <1>6, <1>7, RecordIs
<1>9. \A j \in L3Items \ abandoned : Jobs(j)' = Jobs(j)
  BY <1>1, <1>5, <1>8
<1> QED
  BY <1>1, <1>4, <1>8, <1>9, EndKeeps

LEMMA OperatorKeeps ==
  ASSUME PoolInv, Operator
  PROVE  PoolInv'
<1>1. /\ UNCHANGED <<paid, pool, abandoned>>
      /\ approved' \subseteq Items /\ cfg' \in TaskKeys
  BY PoolParts DEF Operator, Review, Configure
<1>2. PaidTypes' /\ \A i \in Items : JobsInv(i)'
  BY <1>1, PaidStays
<1>3. UNCHANGED <<job, slot, parent, child>>
  BY <1>1 DEF pool, paid
<1>4. ParentsInv' /\ ChildrenInv'
  BY <1>1, <1>3, PoolParts DEF ParentsInv, SlotInv, OnWorker, RowsInv, ChildrenInv, ChildInv, Alone, Jobs
<1> QED
  BY <1>1, <1>2, <1>3, <1>4, PoolParts, PoolPartsNext

LEMMA PoolStarts == PoolInit => PoolInv
<1> SUFFICES ASSUME PoolInit PROVE PoolInv
  OBVIOUS
<1>1. approved \subseteq Items /\ cfg \in TaskKeys /\ abandoned \subseteq Items
  BY DEF PoolInit
<1>2. PaidTypes
  <2>1. job \in [Items -> [TaskKeys -> JobState]] /\ polls \in [Items -> 0 .. PollLimit]
    BY PoolAssumption DEF PoolInit, JobState
  <2>2. PendingItems = {}
    BY DEF PendingItems, PoolInit
  <2>3. aged = << >>
    BY DEF PoolInit
  <2>4. << >> \in Seq(AsrItems) /\ IsInjective(<< >>) /\ Range(<< >>) = {}
    BY DEF IsInjective, Range
  <2> QED
    BY <2>1, <2>2, <2>3, <2>4 DEF PaidTypes
<1>3. slot \in Parents \cup {NoParent} /\ parent \in [Parents -> ParentRec]
  BY IdleRec DEF PoolInit
<1>4. child \in [Children -> ChildRec]
  BY FreeRec DEF PoolInit
<1>5. ParentsInv
  <2>1. \A p \in Parents : parent[p] = Idle
    BY DEF PoolInit
  <2>2. << >> \in Seq(AsrItems)
    OBVIOUS
  <2>3. Idle.at = "off" /\ Idle.rows = << >>
    BY DEF Idle
  <2>4. \A p \in Parents : parent[p].at = "off" /\ parent[p].rows = << >>
    BY <2>1, <2>3
  <2> QED
    BY <2>2, <2>4 DEF ParentsInv, SlotInv, RowsInv, OnWorker
<1>6. ChildrenInv
  <2>1. \A c \in Children : child[c] = Free
    BY DEF PoolInit
  <2> QED
    BY <2>1, FreeRec DEF ChildrenInv, ChildInv, Alone
<1>7. \A i \in Items : JobsInv(i)
  BY DEF PoolInit, JobsInv, Jobs
<1> QED
  BY <1>1, <1>2, <1>3, <1>4, <1>5, <1>6, <1>7, PoolParts

LEMMA PoolStutters ==
  ASSUME PoolInv, UNCHANGED poolVars
  PROVE  PoolInv'
<1>1. UNCHANGED <<approved, cfg, paid, pool, abandoned, job, slot, parent, child>>
  BY DEF poolVars, pool, paid
<1>2. PaidTypes' /\ \A i \in Items : JobsInv(i)'
  BY <1>1, PaidStays
<1>3. ParentsInv' /\ ChildrenInv'
  BY <1>1, PoolParts DEF ParentsInv, SlotInv, OnWorker, RowsInv, ChildrenInv, ChildInv, Alone, Jobs
<1> QED
  BY <1>1, <1>2, <1>3, PoolParts, PoolPartsNext

(* The slot is lost with its session: then nothing rests on it.            *)
LEMMA DropSlotKeeps ==
  ASSUME PoolInv, NEW p \in Parents, DropSlot(p)
  PROVE  PoolInv'
<1>1. /\ ~SlotKept /\ slot' = NoParent
      /\ UNCHANGED <<approved, cfg, paid, parent, child, abandoned, job>>
  BY DEF DropSlot, SlotKept, paid
<1>2. PaidTypes' /\ \A i \in Items : JobsInv(i)'
  BY <1>1, PaidStays
<1>3. ParentsInv' /\ ChildrenInv'
  BY <1>1, PoolParts DEF ParentsInv, SlotInv, RowsInv, ChildrenInv, ChildInv, Alone, Jobs
<1> QED
  BY <1>1, <1>2, <1>3, PoolParts, PoolPartsNext

LEMMA PoolSteps ==
  ASSUME PoolInv, UsedInv, PoolNext
  PROVE  PoolInv'
<1>1. ASSUME NEW p \in Parents, Fire(p) \/ ParentStep(p) \/ GiveUp(p) \/ Die(p)
      PROVE  PoolInv'
  BY <1>1, FireKeeps, StartParentKeeps, DeferKeeps, SkipKeeps, CallChildKeeps, ReturnKeeps,
     FinishKeeps, GiveUpKeeps, DieKeeps DEF ParentStep
<1>2. ASSUME NEW c \in Children, ChildStep(c) \/ Fail(c)
      PROVE  PoolInv'
  BY <1>2, StartChildKeeps, SubmitKeeps, ResumeKeeps, RepeatKeeps DEF ChildStep
<1>3. ASSUME NEW p \in Parents, DropSlot(p) PROVE PoolInv'
  BY <1>3, DropSlotKeeps
<1> QED
  BY <1>1, <1>2, <1>3, OperatorKeeps DEF PoolNext, Fault

-----------------------------------------------------------------------------
(* The workers in use.                                                     *)

LEMMA UsesNoMore ==
  ASSUME UsedInv, Busy' \subseteq Busy, Running' \subseteq Running
  PROVE  UsedInv'
<1>1. IsFiniteSet(Busy) /\ IsFiniteSet(Running)
  BY JobAssumption, FS_Subset DEF Busy, Running
<1>2. /\ Cardinality(Busy') <= Cardinality(Busy) /\ Cardinality(Running') <= Cardinality(Running)
      /\ IsFiniteSet(Busy') /\ IsFiniteSet(Running')
  BY <1>1, FS_Subset
<1>3. /\ Cardinality(Busy) \in Nat /\ Cardinality(Running) \in Nat
      /\ Cardinality(Busy') \in Nat /\ Cardinality(Running') \in Nat
  BY <1>1, <1>2, FS_CardinalityType
<1> QED
  BY <1>2, <1>3, PoolAssumption DEF UsedInv

LEMMA UsesOneMore ==
  ASSUME WorkerFree,
         \/ Busy' \subseteq Busy /\ \E c \in Children : Running' \subseteq Running \cup {c}
         \/ Running' \subseteq Running /\ \E p \in Parents : Busy' \subseteq Busy \cup {p}
  PROVE  UsedInv'
<1>1. IsFiniteSet(Busy) /\ IsFiniteSet(Running)
  BY JobAssumption, FS_Subset DEF Busy, Running
<1>2. ASSUME NEW S, NEW T, IsFiniteSet(S), NEW x, T \subseteq S \cup {x}
      PROVE  Cardinality(T) \in Nat /\ Cardinality(T) <= Cardinality(S) + 1
  <2>1. /\ IsFiniteSet(S \cup {x}) /\ Cardinality(S) \in Nat
        /\ Cardinality(S \cup {x}) = IF x \in S THEN Cardinality(S) ELSE Cardinality(S) + 1
    BY <1>2, FS_AddElement, FS_CardinalityType
  <2>2. IsFiniteSet(T) /\ Cardinality(T) <= Cardinality(S \cup {x})
    BY <1>2, <2>1, FS_Subset
  <2> QED
    BY <2>1, <2>2, FS_CardinalityType
<1>3. ASSUME NEW S, NEW T, IsFiniteSet(S), T \subseteq S
      PROVE  Cardinality(T) \in Nat /\ Cardinality(T) <= Cardinality(S)
  BY <1>3, FS_Subset, FS_CardinalityType
<1>4. Cardinality(Busy) \in Nat /\ Cardinality(Running) \in Nat
  BY <1>1, FS_CardinalityType
<1>5. Cardinality(Busy) + Cardinality(Running) < PoolSize
  BY DEF WorkerFree, Busy, Running
<1>6. CASE Busy' \subseteq Busy /\ \E c \in Children : Running' \subseteq Running \cup {c}
  <2>1. Cardinality(Busy') \in Nat /\ Cardinality(Busy') <= Cardinality(Busy)
    BY <1>1, <1>3, <1>6
  <2>2. Cardinality(Running') \in Nat /\ Cardinality(Running') <= Cardinality(Running) + 1
    BY <1>1, <1>2, <1>6
  <2> QED
    BY <1>4, <1>5, <2>1, <2>2, PoolAssumption DEF UsedInv
<1>7. CASE Running' \subseteq Running /\ \E p \in Parents : Busy' \subseteq Busy \cup {p}
  <2>1. Cardinality(Running') \in Nat /\ Cardinality(Running') <= Cardinality(Running)
    BY <1>1, <1>3, <1>7
  <2>2. Cardinality(Busy') \in Nat /\ Cardinality(Busy') <= Cardinality(Busy) + 1
    BY <1>1, <1>2, <1>7
  <2> QED
    BY <1>4, <1>5, <2>1, <2>2, PoolAssumption DEF UsedInv
<1> QED
  BY <1>6, <1>7

(* No step of a parent but its start takes a worker.                       *)
LEMMA ParentUses ==
  ASSUME PoolInv, NEW p \in Parents,
         \/ Fire(p) \/ Defer(p) \/ Skip(p) \/ CallChild(p) \/ Return(p) \/ Finish(p)
         \/ GiveUp(p) \/ Die(p) \/ DropSlot(p)
  PROVE  Busy' \subseteq Busy /\ Running' \subseteq Running
<1>1. parent \in [Parents -> ParentRec] /\ child \in [Children -> ChildRec]
  BY PoolParts
<1>2. Busy' \subseteq Busy
  <2>1. CASE OnWorker(p) \/ DropSlot(p)
    <3>1. \A q \in Parents : q # p => parent'[q] = parent[q]
      BY <1>1, SMTT(30) DEF Fire, Defer, Skip, CallChild, Return, Finish, GiveUp, Die, DropSlot, SetParent
    <3> QED
      BY <2>1, <3>1 DEF Busy, OnWorker, DropSlot
  <2>2. CASE Fire(p) \/ Defer(p)
    <3>1. PICK r \in {Idle, [Idle EXCEPT !.at = "queued"]} : parent' = [parent EXCEPT ![p] = r]
      BY <2>2 DEF Fire, Defer, SetParent
    <3>2. parent'[p].at \in {"off", "queued"} /\ \A q \in Parents : q # p => parent'[q] = parent[q]
      BY <1>1, <3>1, IdleRec
    <3> QED
      BY <3>2 DEF Busy, OnWorker
  <2> QED
    BY <2>1, <2>2 DEF Skip, CallChild, HasRow, Return, Finish, GiveUp, Die, OnWorker
<1>3. Running' \subseteq Running
  <2>1. CASE UNCHANGED child
    BY <2>1 DEF Running
  <2>2. ASSUME NEW c \in Children, NEW q, child' = [child EXCEPT ![c] = q],
               q.at = "ready" => child[c].at = "ready"
        PROVE  Running' \subseteq Running
    BY <1>1, <2>2 DEF Running
  <2>3. CASE CallChild(p)
    <3>1. PICK c \in Children :
            \E q : child' = [child EXCEPT ![c] = q] /\ q.at = "queued"
      <4>1. PICK c \in Children :
              child' = [child EXCEPT ![c] = [Free EXCEPT !.at = "queued", !.item = Row(p), !.owner = p]]
        BY <2>3 DEF CallChild, SetChild
      <4>2. [Free EXCEPT !.at = "queued", !.item = Row(p), !.owner = p].at = "queued"
        BY DEF Free
      <4> QED
        BY <4>1, <4>2
    <3> QED
      BY <2>2, <3>1
  <2>4. CASE Return(p)
    BY <2>2, <2>4, FreeRec DEF Return, SetChild
  <2>5. \A c \in Children : Orphan(c).at = "ready" => child[c].at = "ready"
    BY FreeRec DEF Orphan
  <2>6. CASE GiveUp(p)
    BY <2>2, <2>5, <2>6 DEF GiveUp, SetChild
  <2>7. CASE Die(p)
    <3>1. \A c \in Children : child'[c] = child[c] \/ child'[c] = Orphan(c)
      BY <1>1, <2>7 DEF Die
    <3> QED
      BY <2>5, <3>1 DEF Running
  <2> QED
    BY <2>1, <2>3, <2>4, <2>6, <2>7 DEF Fire, Defer, Skip, Finish, DropSlot
<1> QED
  BY <1>2, <1>3

LEMMA UsedSteps ==
  ASSUME PoolInv, UsedInv, PoolNext
  PROVE  UsedInv'
<1>0. parent \in [Parents -> ParentRec] /\ child \in [Children -> ChildRec]
  BY PoolParts
<1>1. ASSUME NEW p \in Parents, StartParent(p) PROVE UsedInv'
  <2>1. WorkerFree /\ UNCHANGED child /\ \A q \in Parents : q # p => parent'[q] = parent[q]
    BY <1>0, <1>1 DEF StartParent, SetParent
  <2>2. Running' \subseteq Running /\ Busy' \subseteq Busy \cup {p}
    BY <2>1 DEF Running, Busy, OnWorker
  <2> QED
    BY <2>1, <2>2, UsesOneMore
<1>2. ASSUME NEW c \in Children, ChildStep(c) \/ Fail(c) PROVE UsedInv'
  <2>1. UNCHANGED parent /\ \A d \in Children : d # c => child'[d] = child[d]
    BY <1>0, <1>2 DEF ChildStep, Fail, StartChild, Submit, Resume, Repeat, SetChild
  <2>2. Busy' \subseteq Busy /\ Running' \subseteq Running \cup {c}
    BY <2>1 DEF Busy, Running, OnWorker
  <2>3. CASE StartChild(c)
    BY <2>2, <2>3, UsesOneMore DEF StartChild
  <2>4. CASE ~StartChild(c)
    <3>1. child[c].at = "ready"
      BY <1>2, <2>4 DEF ChildStep, Fail, Submit, Resume, Repeat
    <3>2. Running' \subseteq Running
      BY <2>2, <3>1 DEF Running
    <3> QED
      BY <2>2, <3>2, UsesNoMore
  <2> QED
    BY <2>3, <2>4
<1>3. CASE Operator
  <2>1. UNCHANGED <<parent, child>>
    BY <1>3 DEF Operator, Review, Configure, pool
  <2> QED
    BY <2>1, UsesNoMore DEF Busy, Running, OnWorker
<1>4. ASSUME NEW p \in Parents,
             Fire(p) \/ ParentStep(p) \/ GiveUp(p) \/ Die(p) \/ DropSlot(p)
      PROVE  UsedInv'
  BY <1>1, <1>4, ParentUses, UsesNoMore DEF ParentStep
<1> QED
  BY <1>2, <1>3, <1>4 DEF PoolNext, Fault

LEMMA UsedStarts == PoolInit => UsedInv
<1> SUFFICES ASSUME PoolInit PROVE UsedInv
  OBVIOUS
<1>1. Busy = {} /\ Running = {}
  BY IdleRec, FreeRec DEF PoolInit, Busy, Running, OnWorker
<1> QED
  BY <1>1, FS_EmptySet, PoolAssumption DEF UsedInv

-----------------------------------------------------------------------------
(* The inductive invariant holds in every reachable state, whatever the    *)
(* parents, children, items and faults. What the slot gives it says only   *)
(* while its session holds (reviewed_dispatch.py scheduler_slot).          *)
THEOREM Invariance == PoolSpec => [](PoolInv /\ UsedInv)
<1>1. PoolInit => PoolInv /\ UsedInv
  BY PoolStarts, UsedStarts
<1>2. PoolInv /\ UsedInv /\ [PoolNext]_poolVars => PoolInv' /\ UsedInv'
  <2>1. ASSUME UsedInv, UNCHANGED poolVars PROVE UsedInv'
    BY <2>1, UsesNoMore DEF poolVars, pool, Busy, Running, OnWorker
  <2> QED
    BY <2>1, PoolSteps, UsedSteps, PoolStutters
<1> QED
  BY <1>1, <1>2, PTL DEF PoolSpec

(* One reviewed input is bought under one configuration, however the       *)
(* operator changes model and prompt, unless a parent left its child       *)
(* running (reviewed_dispatch.py _existing). The slot is needed only where *)
(* two runs of the L3 dispatcher can overlap and a third worker takes a    *)
(* child: with one run at a time, as concurrent_limit of its script asks,  *)
(* or with the two workers of production, a lost slot buys nothing twice.  *)
THEOREM InputsAreBoughtOnce ==
  ASSUME "drop" \notin Faults \/ (\A p, q \in L3Dispatchers : p = q) \/ PoolSize <= 2
  PROVE  PoolSpec => []BoughtOnce
<1>1. PoolInv => BoughtOnce
  <2> SUFFICES ASSUME PoolInv PROVE BoughtOnce
    OBVIOUS
  <2>1. PoolTypeOK
    BY DEF PoolInv
  <2>2. ASSUME NEW i \in Items \ abandoned PROVE Cardinality(Jobs(i)) <= 1
    <3>1. \A k, l \in Jobs(i) : k = l
      BY DEF PoolInv, JobsInv, OneBuyer, SlotKept
    <3>2. CASE Jobs(i) = {}
      BY <3>2, FS_EmptySet
    <3>3. CASE Jobs(i) # {}
      <4>1. PICK k : Jobs(i) = {k}
        BY <3>1, <3>3
      <4>2. Cardinality(Jobs(i)) = 1
        BY <4>1, FS_Singleton
      <4> QED
        BY <4>2
    <3> QED
      BY <3>2, <3>3
  <2> QED
    BY <2>1, <2>2 DEF BoughtOnce
<1> QED
  BY <1>1, Invariance, PTL

(* With any faults, a lost slot among them: a child that is waited for has *)
(* a parent that waits for it alone, one that nobody waits for is running  *)
(* and abandoned, and an ASR input has no job but under its one key.       *)
THEOREM ChildrenAreAccounted == PoolSpec => []ChildrenAccounted
<1>1. PoolInv => ChildrenAccounted
  <2> SUFFICES ASSUME PoolInv PROVE ChildrenAccounted
    OBVIOUS
  <2>1. Alone /\ (\A c \in Children : ChildInv(c)) /\ \A i \in AsrItems : Jobs(i) \subseteq {AsrKey}
    BY DEF PoolInv, JobsInv, Items
  <2>2. ASSUME NEW c \in Children, child[c].owner # NoParent
        PROVE  /\ parent[child[c].owner].at = "waiting"
               /\ \A d \in Children : child[d].owner = child[c].owner => d = c
    BY <2>1, <2>2 DEF ChildInv, Alone
  <2>3. ASSUME NEW c \in Children, child[c].owner = NoParent, child[c].at # "free"
        PROVE  child[c].at = "ready" /\ child[c].item \in abandoned
    BY <2>1, <2>3 DEF ChildInv
  <2> QED
    BY <2>1, <2>2, <2>3 DEF ChildrenAccounted
<1> QED
  BY <1>1, Invariance, PTL

(* On a pool of two workers or more, a queued child is never kept out by   *)
(* parents that wait: at most one waits, the holder of the slot.           *)
THEOREM ChildrenCanRun ==
  ASSUME "drop" \notin Faults, PoolSize > 1
  PROVE  PoolSpec => []ChildCanRun
<1>1. PoolInv => ChildCanRun
  <2> SUFFICES ASSUME PoolInv PROVE ChildCanRun
    OBVIOUS
  <2> DEFINE W == {p \in Parents : parent[p].at = "waiting"}
  <2>1. W \subseteq {slot}
    BY DEF PoolInv, SlotInv, SlotKept, OnWorker
  <2>2. Cardinality({slot}) = 1 /\ IsFiniteSet({slot})
    BY FS_Singleton
  <2> HIDE DEF W
  <2>3. Cardinality(W) <= 1 /\ Cardinality(W) \in Nat
    BY <2>1, <2>2, FS_Subset, FS_CardinalityType
  <2> QED
    BY <2>3, PoolAssumption DEF ChildCanRun, W
<1> QED
  BY <1>1, Invariance, PTL
=============================================================================
