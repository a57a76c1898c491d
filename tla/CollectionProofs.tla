---------------------------- MODULE CollectionProofs ----------------------------
(***************************************************************************)
(* Proofs about the collection, for any videos, batches, workers, jobs,    *)
(* days, keys and scores. First CommentPipeline and L3Promotion: what the  *)
(* gate decides, then an inductive invariant and a lemma for each kind of  *)
(* step, and a second that counts who may do what. Then GoldenIntake: what *)
(* calls and rows add up to, what a step keeps of one job and of one day,  *)
(* an inductive invariant of the two, and a lemma for each action. Then    *)
(* BriefPlan: what is first of what is in order, and what a brief and its  *)
(* run have been found to be at each stage.                                *)
(* At last VideoFetchPlan: what plans of requests cost, and any others.    *)
(***************************************************************************)
EXTENDS CommentPipeline, GoldenIntake, BriefPlan, VideoFetchPlan, SetLemmas, SequenceTheorems

-----------------------------------------------------------------------------
(* The decision. Videos of the same candidates are ranked one below the    *)
(* other, so that as many ranks as videos are taken.                       *)

Scored(C) == \A v \in DOMAIN C : C[v].score # NoScore => C[v].score \in Nat

(* The videos that are not ranked below v. *)
Above(C, min, v) ==
  {u \in EligibleIn(C, min) : C[u].score > C[v].score \/ (C[u].score = C[v].score /\ u <= v)}

LEMMA MinOfTwo ==
  ASSUME NEW m \in Nat, NEW n \in Nat
  PROVE  Min({m, n}) \in Nat /\ Min({m, n}) <= n
<1>1. CASE m <= n
  <2>1. \A x \in {m, n} : m <= x
    BY <1>1
  <2>2. Min({m, n}) = m
    BY <1>1, <2>1 DEF Min
  <2> QED
    BY <1>1, <2>2
<1>2. CASE n < m
  <2>1. Min({m, n}) = n
    BY <1>2 DEF Min
  <2> QED
    BY <2>1
<1> QED
  BY <1>1, <1>2

LEMMA RanksDiffer ==
  ASSUME NEW C, DOMAIN C \subseteq Nat, IsFiniteSet(DOMAIN C), Scored(C), NEW min,
         NEW u \in EligibleIn(C, min), NEW v \in EligibleIn(C, min), u # v
  PROVE  RankIn(C, min, u) # RankIn(C, min, v) /\ RankIn(C, min, v) \in Nat \ {0}
<1> DEFINE E == EligibleIn(C, min)
<1>1. E \subseteq DOMAIN C /\ \A x \in E : C[x].score \in Nat /\ x \in Nat
  BY DEF EligibleIn, Scored
<1>2. \A x \in E : RankIn(C, min, x) = Cardinality(Above(C, min, x)) /\ Above(C, min, x) \subseteq E
  BY DEF RankIn, Above
<1>3. IsFiniteSet(E)
  BY <1>1, FS_Subset
<1>4. \A x \in E : IsFiniteSet(Above(C, min, x)) /\ x \in Above(C, min, x)
  BY <1>1, <1>2, <1>3, FS_Subset DEF Above
<1>5. ASSUME NEW x \in E, NEW y \in E, x \in Above(C, min, y), x # y
      PROVE  Cardinality(Above(C, min, x)) # Cardinality(Above(C, min, y))
  <2>1. Above(C, min, x) \subseteq Above(C, min, y)
    BY <1>1, <1>5 DEF Above
  <2>2. y \notin Above(C, min, x)
    BY <1>1, <1>5 DEF Above
  <2> QED
    BY <1>4, <2>1, <2>2, FS_Subset
<1>6. u \in Above(C, min, v) \/ v \in Above(C, min, u)
  BY <1>1 DEF Above
<1>7. Cardinality(Above(C, min, v)) \in Nat \ {0}
  BY <1>4, FS_CardinalityType, FS_EmptySet
<1> QED
  BY <1>2, <1>5, <1>6, <1>7

(* A promotion selects no more than the quota has left.                    *)
LEMMA DecideFits ==
  ASSUME NEW C, DOMAIN C \subseteq Nat, IsFiniteSet(DOMAIN C), Scored(C), NEW min,
         NEW topN \in Nat, NEW remaining \in Nat
  PROVE  /\ Decide(C, topN, min, remaining) \subseteq DOMAIN C
         /\ Cardinality(Decide(C, topN, min, remaining)) <= remaining
<1> DEFINE D == Decide(C, topN, min, remaining)
           n == Min({topN, remaining})
           rank == [v \in D |-> RankIn(C, min, v)]
<1>1. n \in Nat /\ n <= remaining
  BY MinOfTwo
<1>2. D \subseteq EligibleIn(C, min) /\ \A v \in D : RankIn(C, min, v) <= n
  BY DEF Decide
<1>3. EligibleIn(C, min) \subseteq DOMAIN C
  BY DEF EligibleIn
<1>4. IsFiniteSet(D)
  BY <1>2, <1>3, FS_Subset
<1> HIDE DEF n
<1>5. CASE \E v \in D : D = {v}
  <2>1. PICK v \in D : D = {v}
    BY <1>5
  <2>2. v \in Above(C, min, v) /\ Above(C, min, v) \subseteq DOMAIN C
    BY <1>2, <1>3 DEF Above, EligibleIn, Scored
  <2>3. RankIn(C, min, v) = Cardinality(Above(C, min, v))
    BY DEF RankIn, Above
  <2>4. Cardinality(Above(C, min, v)) \in Nat \ {0}
    BY <2>2, FS_Subset, FS_CardinalityType, FS_EmptySet
  <2>5. Cardinality(D) = 1
    BY <2>1, FS_Singleton
  <2> QED
    BY <1>1, <1>2, <1>3, <2>3, <2>4, <2>5
<1>6. CASE ~\E v \in D : D = {v}
  <2> HIDE DEF D
  <2>1. \A v \in D : \E u \in D : u # v
    BY <1>6
  <2>2. \A v \in D : rank[v] \in 1 .. n
    BY <1>1, <1>2, <2>1, RanksDiffer
  <2>3. \A u, v \in D : rank[u] = rank[v] => u = v
    BY <1>2, RanksDiffer
  <2>4. rank \in Injection(D, 1 .. n)
    BY <2>2, <2>3 DEF Injection, IsInjective
  <2>5. IsFiniteSet(1 .. n) /\ Cardinality(1 .. n) = n
    BY <1>1, FS_Interval
  <2>6. Cardinality(D) <= n
    BY <2>4, <2>5, FS_Injection
  <2>7. Cardinality(D) \in Nat
    BY <1>4, FS_CardinalityType
  <2>8. Cardinality(D) <= remaining
    BY <1>1, <2>6, <2>7
  <2>9. D \subseteq DOMAIN C
    BY <1>2, <1>3
  <2> QED
    BY <2>8, <2>9 DEF D
<1> QED
  BY <1>5, <1>6

-----------------------------------------------------------------------------
(* The first inductive invariant. What is stored of a run is told in two   *)
(* ways: what holds of it whoever writes it, and what holds while no       *)
(* session of its discovery run was lost, when a worker past the lock is   *)
(* alone with it and what it does next tells how its item reads.           *)

AtItem == {"reconcile", "begin", "fetch", "ingest", "unknown", "collected", "extract", "featured"}
AtEnd == {"insert", "promote", "commit", "finish"}
Before == {"idle", "lock", "open", "create"}
Steps == Before \cup {"visit"} \cup AtItem \cup AtEnd

Alone(r) == losses[SourceOf[r[1]]] = 0

PipelineTypes ==
  /\ sourceLock \in [SourceRuns -> Workers \cup {NoWorker}]
  /\ losses \in [SourceRuns -> Nat]
  /\ pc \in [Workers -> Steps]
  /\ DOMAIN call = Workers /\ \A w \in Workers : DOMAIN call[w] = DOMAIN Idle
  /\ DOMAIN runs = Runs
  /\ DOMAIN batchItems = Runs /\ \A r \in Runs : DOMAIN batchItems[r] = VideosOf[r[1]]
  /\ DOMAIN requests = Runs /\ \A r \in Runs : DOMAIN requests[r] = VideosOf[r[1]]
  /\ score \in [SourceVideos -> Nat \cup {NoScore}]

Stored(v, features, stored) == features # {} => <<v, features>> \in stored

(* The item i of the video v, for which n requests were made.              *)
ItemFits(alone, i, n, v, stored) ==
  /\ DOMAIN i = DOMAIN NoBatchItem
  /\ n \in Nat /\ (i.collection = "none" => n = 0)
  /\ Stored(v, i.features, stored)
  /\ alone =>
       /\ i.outcome = "success" <=> i.extract = "success"
       /\ i.outcome = "success" => i.collection = "success" /\ i.features # {}

ItemInv(r, v) == ItemFits(Alone(r), batchItems[r][v], requests[r][v], v, snapshots)

(* What a step at the item i may rely on.                                  *)
StepFits(alone, step, i, v, read, features, stored) ==
  /\ step # "begin" => i.collection # "none"
  /\ Stored(v, read, stored)
  /\ step = "featured" => features # {} /\ <<v, features>> \in stored
  /\ alone =>
       /\ step = "begin" => i.collection = "none"
       /\ step \in {"reconcile", "fetch", "ingest", "unknown", "collected"} => i.collection = "collecting"
       /\ step \in {"extract", "featured"} => i.collection = "success" /\ i.extract # "success"

Succeeded(r, v) == v \in VideosOf[r[1]] /\ (Alone(r) => batchItems[r][v].outcome = "success")

(* A source of candidates holds stored features, of items that succeeded.  *)
SourceFits(src) ==
  /\ src.run \in Runs
  /\ \A v \in DOMAIN src.features :
       /\ Succeeded(src.run, v)
       /\ src.features[v] # {} /\ <<v, src.features[v]>> \in snapshots
       /\ Alone(src.run) => src.features[v] = batchItems[src.run][v].features

WorkerInv(w) ==
  /\ pc[w] # "idle" =>
       /\ Batch(w) \in Batches /\ call[w].day \in Days /\ call[w].topN \in Nat
       /\ call[w].todo \subseteq VideosOf[Batch(w)]
  /\ pc[w] \notin {"idle", "lock"} /\ losses[SourceOf[Batch(w)]] = 0 => sourceLock[SourceOf[Batch(w)]] = w
  /\ pc[w] \notin {"idle", "lock", "open"} => VideosOf[Batch(w)] # {}
  /\ pc[w] \in Before \cup {"visit"} => call[w].read = {}
  /\ pc[w] \in Before => call[w].ok = {}
  /\ pc[w] \notin Before => Run(w) \in Runs /\ \A v \in call[w].ok : Succeeded(Run(w), v)
  /\ pc[w] \in AtItem =>
       /\ call[w].todo # {}
       /\ StepFits(Alone(Run(w)), pc[w], Item(w), Current(w), call[w].read, call[w].features, snapshots)
  /\ pc[w] \in AtEnd =>
       SourceFits(Source(w)) /\ Source(w).run = Run(w) /\ DOMAIN Source(w).features = call[w].ok
  /\ pc[w] = "finish" => \E p \in batches : p.source = Source(w)

(* What a successful run stands for.                                       *)
Whole(r) ==
  /\ Alone(r) => \A v \in VideosOf[r[1]] : batchItems[r][v].outcome = "success"
  /\ \E p \in batches : p.source.run = r /\ DOMAIN p.source.features = VideosOf[r[1]]

(* The rows of the gate, and a plan while its quota row is locked.         *)
UsedBy(d, k) == {p \in batches : p.day = d /\ p.key = k}
SelectedSizes == [p \in batches |-> Cardinality(p.selected)]

StoredInv(p) ==
  /\ p.day \in Days /\ p.key \in Keys /\ quota[p.day][p.key] # NoQuota
  /\ SourceFits(p.source) /\ p.selected \subseteq DOMAIN p.source.features

QuotaInv ==
  /\ quota \in [Days -> [Keys -> QuotaRows \cup {NoQuota}]]
  /\ IsFiniteSet(batches)
  /\ \A d \in Days, k \in Keys : quota[d][k] # NoQuota =>
       /\ quota[d][k].used <= quota[d][k].max
       /\ quota[d][k].used = SumFunctionOnSet(SelectedSizes, UsedBy(d, k))
  /\ \A p, q \in batches : p # q /\ p.day = q.day => p.selected \cap q.selected = {}

PlanOf(w) == call[w].plan[1]
QuotaRow(w) == <<PlanOf(w).day, PlanOf(w).key>>

PlanInv(w) ==
  pc[w] = "commit" =>
    /\ PlanOf(w) \notin batches
    /\ PlanOf(w).source = Source(w) /\ PlanOf(w).day = call[w].day /\ PlanOf(w).key = KeyOf[Batch(w)]
    /\ PlanOf(w).selected \subseteq DOMAIN Source(w).features
    /\ QuotaRow(w) \in held
    /\ LET q == quota[PlanOf(w).day][PlanOf(w).key] IN
         q # NoQuota /\ q.used + Cardinality(PlanOf(w).selected) <= q.max

(* Two workers hold different rows.                                        *)
Separate(w, z) == w # z /\ pc[w] = "commit" /\ pc[z] = "commit" => QuotaRow(w) # QuotaRow(z)

CollectionInv ==
  /\ PipelineTypes
  /\ \A r \in Runs : \A v \in VideosOf[r[1]] : ItemInv(r, v)
  /\ \A w \in Workers : WorkerInv(w) /\ PlanInv(w)
  /\ \A p \in batches : StoredInv(p)
  /\ \A r \in Runs : runs[r] = "success" => Whole(r)
  /\ QuotaInv
  /\ \A w, z \in Workers : Separate(w, z)

LEMMA SourcesAre ==
  ASSUME NEW r \in Runs
  PROVE  r[1] \in Batches /\ r[2] \in Rows /\ r = <<r[1], r[2]>> /\ SourceOf[r[1]] \in SourceRuns
  BY DEF Runs, SourceRuns

LEMMA CollectionInitInv == Init => CollectionInv
<1> SUFFICES ASSUME Init PROVE CollectionInv
  OBVIOUS
<1> USE DEF Init, PromotionInit
<1>1. PipelineTypes
  BY ScoreAssumption DEF PipelineTypes, Steps, Before
<1>2. \A r \in Runs : \A v \in VideosOf[r[1]] : ItemInv(r, v)
  BY DEF ItemInv, ItemFits, NoBatchItem, Stored
<1>3. \A w \in Workers : WorkerInv(w) /\ PlanInv(w)
  BY DEF WorkerInv, PlanInv, AtItem, AtEnd, Before, Idle
<1>4. QuotaInv
  BY FS_EmptySet DEF QuotaInv
<1>5. \A w, z \in Workers : Separate(w, z)
  BY DEF Separate
<1> QED
  BY <1>1, <1>2, <1>3, <1>4, <1>5 DEF CollectionInv

(* While no session is lost what succeeded stays as it is. Whatever is     *)
(* lost, a collection that was begun is never forgotten, and sessions that *)
(* were lost stay lost.                                                    *)
LossesKept == \A r \in Runs : Alone(r)' => Alone(r)

ItemsKept ==
  \A r \in Runs : \A v \in VideosOf[r[1]] :
    Alone(r)' /\ batchItems[r][v].outcome = "success" => batchItems'[r][v] = batchItems[r][v]

CollectionsKept ==
  \A r \in Runs : \A v \in VideosOf[r[1]] :
    batchItems[r][v].collection # "none" => batchItems'[r][v].collection # "none"

Kept == LossesKept /\ ItemsKept /\ CollectionsKept /\ snapshots \subseteq snapshots'

LEMMA NothingWritten ==
  ASSUME LossesKept, UNCHANGED <<batchItems, snapshots>>
  PROVE  Kept
  BY DEF Kept, ItemsKept, CollectionsKept

LEMMA SucceededKept ==
  ASSUME Kept, NEW r \in Runs, NEW v, Succeeded(r, v)
  PROVE  Succeeded(r, v)' /\ (Alone(r)' => batchItems'[r][v] = batchItems[r][v])
<1>1. Alone(r)' => Alone(r)
  BY DEF Kept, LossesKept
<1> QED
  BY <1>1 DEF Kept, ItemsKept, Succeeded

LEMMA SourceKept ==
  ASSUME Kept, NEW src, SourceFits(src)
  PROVE  SourceFits(src)'
<1>1. src.run \in Runs /\ (Alone(src.run)' => Alone(src.run)) /\ snapshots \subseteq snapshots'
  BY DEF Kept, LossesKept, SourceFits
<1> SUFFICES ASSUME NEW v \in DOMAIN src.features
             PROVE  /\ Succeeded(src.run, v)'
                    /\ src.features[v] # {} /\ <<v, src.features[v]>> \in snapshots'
                    /\ Alone(src.run)' => src.features[v] = batchItems'[src.run][v].features
  BY <1>1 DEF SourceFits
<1>2. /\ Succeeded(src.run, v) /\ src.features[v] # {} /\ <<v, src.features[v]>> \in snapshots
      /\ Alone(src.run) => src.features[v] = batchItems[src.run][v].features
  BY DEF SourceFits
<1>3. Succeeded(src.run, v)' /\ (Alone(src.run)' => batchItems'[src.run][v] = batchItems[src.run][v])
  BY <1>1, <1>2, SucceededKept
<1> QED
  BY <1>1, <1>2, <1>3

LEMMA WholeKept ==
  ASSUME Kept, batches \subseteq batches', NEW r \in Runs, Whole(r)
  PROVE  Whole(r)'
<1>1. Alone(r)' => Alone(r)
  BY DEF Kept, LossesKept
<1>2. Alone(r)' => \A v \in VideosOf[r[1]] : batchItems'[r][v].outcome = "success"
  BY <1>1 DEF Whole, Kept, ItemsKept
<1>3. \E p \in batches' : p.source.run = r /\ DOMAIN p.source.features = VideosOf[r[1]]
  BY DEF Whole
<1> QED
  BY <1>2, <1>3 DEF Whole

LEMMA StoredKept ==
  ASSUME Kept, NEW p, StoredInv(p), quota'[p.day][p.key] # NoQuota
  PROVE  StoredInv(p)'
<1>1. SourceFits(p.source) /\ p.day \in Days /\ p.key \in Keys /\ p.selected \subseteq DOMAIN p.source.features
  BY DEF StoredInv
<1>2. SourceFits(p.source)'
  BY <1>1, SourceKept
<1> QED
  BY <1>1, <1>2 DEF StoredInv

(* While no session is lost, two workers past their locks are at different *)
(* discovery runs.                                                         *)
LEMMA WorkersApart ==
  ASSUME CollectionInv, NEW w \in Workers, NEW z \in Workers, w # z,
         pc[w] \notin {"idle", "lock"}, pc[z] \notin {"idle", "lock"},
         losses[SourceOf[Batch(z)]] = 0
  PROVE  SourceOf[Batch(w)] # SourceOf[Batch(z)]
<1> SUFFICES ASSUME SourceOf[Batch(w)] = SourceOf[Batch(z)] PROVE FALSE
  OBVIOUS
<1>1. sourceLock[SourceOf[Batch(w)]] = w /\ sourceLock[SourceOf[Batch(z)]] = z
  BY DEF CollectionInv, WorkerInv
<1> QED
  BY <1>1

(* A worker that does not move. While it is alone nobody writes its items. *)
LEMMA OtherWorker ==
  ASSUME CollectionInv, NEW z \in Workers, Kept, batches \subseteq batches',
         pc'[z] = pc[z], call'[z] = call[z],
         pc[z] \notin {"idle", "lock"} /\ losses'[SourceOf[Batch(z)]] = 0 =>
           /\ losses[SourceOf[Batch(z)]] = 0
           /\ sourceLock'[SourceOf[Batch(z)]] = sourceLock[SourceOf[Batch(z)]]
           /\ \A r \in Runs : r[1] = Batch(z) => batchItems'[r] = batchItems[r]
  PROVE  WorkerInv(z)'
<1>1. Batch(z)' = Batch(z) /\ Current(z)' = Current(z) /\ Source(z)' = Source(z) /\ Run(z)' = Run(z)
  BY DEF Batch, Current, Source, Run
<1>2. WorkerInv(z)
  BY DEF CollectionInv
<1>3. pc[z] \notin Before => Run(z) \in Runs /\ \A v \in call[z].ok : Succeeded(Run(z), v)'
  <2> SUFFICES ASSUME pc[z] \notin Before PROVE Run(z) \in Runs /\ \A v \in call[z].ok : Succeeded(Run(z), v)'
    OBVIOUS
  <2>1. PICK r : r = Run(z)
    OBVIOUS
  <2>2. r \in Runs /\ \A v \in call[z].ok : Succeeded(r, v)
    BY <1>2, <2>1 DEF WorkerInv
  <2>3. \A v \in call[z].ok : Succeeded(r, v)'
    BY <2>2, SucceededKept
  <2> QED
    BY <1>1, <2>1, <2>2, <2>3
<1>4. ASSUME pc[z] \in AtItem
      PROVE  StepFits(Alone(Run(z))', pc[z], Item(z)', Current(z), call[z].read, call[z].features, snapshots')
  <2>1. PICK r \in Runs : r = Run(z) /\ r[1] = Batch(z)
    BY <1>2, <1>4 DEF WorkerInv, AtItem, Before, Run
  <2>2. PICK v \in VideosOf[r[1]] : v = Current(z)
    <3>1. call[z].todo \subseteq VideosOf[r[1]] /\ call[z].todo # {} /\ call[z].todo \subseteq Nat
      BY <1>2, <1>4, <2>1, SourcesAre, BatchAssumption, VideoAssumption DEF WorkerInv, AtItem
    <3>2. PICK m \in call[z].todo : \A u \in call[z].todo : m <= u
      BY <3>1, LeastElement
    <3> QED
      BY <3>1, <3>2 DEF Current, Min
  <2>3. Item(z) = batchItems[r][v] /\ Item(z)' = batchItems'[r][v]
    BY <1>1, <2>1, <2>2 DEF Item
  <2>4. StepFits(Alone(r), pc[z], batchItems[r][v], v, call[z].read, call[z].features, snapshots)
    BY <1>2, <1>4, <2>1, <2>2, <2>3 DEF WorkerInv
  <2>5. batchItems[r][v].collection # "none" => batchItems'[r][v].collection # "none"
    BY DEF Kept, CollectionsKept
  <2>6. Alone(r)' => Alone(r) /\ batchItems'[r] = batchItems[r]
    BY <1>4, <2>1 DEF Alone, AtItem
  <2>7. snapshots \subseteq snapshots'
    BY DEF Kept
  <2>8. StepFits(Alone(r)', pc[z], batchItems'[r][v], v, call[z].read, call[z].features, snapshots')
    BY <2>4, <2>5, <2>6, <2>7 DEF StepFits, Stored
  <2> QED
    BY <1>1, <2>1, <2>2, <2>3, <2>8
<1>5. pc[z] \in AtEnd => SourceFits(Source(z))'
  <2> SUFFICES ASSUME pc[z] \in AtEnd PROVE SourceFits(Source(z))'
    OBVIOUS
  <2>1. PICK src : src = Source(z)
    OBVIOUS
  <2>2. SourceFits(src)'
    BY <1>2, <2>1, SourceKept DEF WorkerInv
  <2> QED
    BY <1>1, <2>1, <2>2 DEF SourceFits
<1>6. (pc[z] # "idle" =>
         /\ Batch(z) \in Batches /\ call[z].day \in Days /\ call[z].topN \in Nat
         /\ call[z].todo \subseteq VideosOf[Batch(z)])'
  BY <1>1, <1>2 DEF WorkerInv
<1>7. (pc[z] \notin {"idle", "lock"} /\ losses[SourceOf[Batch(z)]] = 0 => sourceLock[SourceOf[Batch(z)]] = z)'
  BY <1>1, <1>2 DEF WorkerInv
<1>8. /\ (pc[z] \notin {"idle", "lock", "open"} => VideosOf[Batch(z)] # {})'
      /\ (pc[z] \in Before \cup {"visit"} => call[z].read = {})'
      /\ (pc[z] \in Before => call[z].ok = {})'
  BY <1>1, <1>2 DEF WorkerInv
<1>9. (pc[z] \notin Before => Run(z) \in Runs /\ \A v \in call[z].ok : Succeeded(Run(z), v))'
  BY <1>1, <1>3 DEF Succeeded, Alone
<1>10. (pc[z] \in AtItem =>
         /\ call[z].todo # {}
         /\ StepFits(Alone(Run(z)), pc[z], Item(z), Current(z), call[z].read, call[z].features, snapshots))'
  <2> SUFFICES ASSUME pc[z] \in AtItem
               PROVE  (/\ call[z].todo # {}
                       /\ StepFits(Alone(Run(z)), pc[z], Item(z), Current(z), call[z].read,
                                   call[z].features, snapshots))'
    OBVIOUS
  <2>1. StepFits(Alone(Run(z))', pc[z], Item(z)', Current(z), call[z].read, call[z].features, snapshots')
    BY <1>4
  <2>2. call[z].todo # {}
    BY <1>2 DEF WorkerInv
  <2> QED
    BY <1>1, <2>1, <2>2 DEF StepFits
<1>11. (pc[z] \in AtEnd =>
         SourceFits(Source(z)) /\ Source(z).run = Run(z) /\ DOMAIN Source(z).features = call[z].ok)'
  BY <1>1, <1>2, <1>5 DEF WorkerInv
<1>12. (pc[z] = "finish" => \E p \in batches : p.source = Source(z))'
  BY <1>1, <1>2 DEF WorkerInv
<1> QED
  BY <1>6, <1>7, <1>8, <1>9, <1>10, <1>11, <1>12 DEF WorkerInv

LEMMA OtherPlan ==
  ASSUME NEW z, PlanInv(z), pc'[z] = pc[z], call'[z] = call[z],
         pc[z] = "commit" =>
           /\ QuotaRow(z) \in held' /\ PlanOf(z) \notin batches'
           /\ quota'[PlanOf(z).day][PlanOf(z).key] = quota[PlanOf(z).day][PlanOf(z).key]
  PROVE  PlanInv(z)'
<1>1. PlanOf(z)' = PlanOf(z) /\ QuotaRow(z)' = QuotaRow(z) /\ Source(z)' = Source(z) /\ Batch(z)' = Batch(z)
  BY DEF PlanOf, QuotaRow, Source, Batch
<1> QED
  BY <1>1 DEF PlanInv

(* The locks of others, and whether anything was lost under them.          *)
LocksKept(w) ==
  \A s \in SourceRuns :
    /\ sourceLock[s] \in Workers \ {w} => sourceLock'[s] = sourceLock[s]
    /\ losses'[s] = 0 => losses[s] = 0

(* One worker moves and plans nothing; quotas may be added.                *)
LEMMA WorkerStep ==
  ASSUME CollectionInv, NEW w \in Workers, PipelineTypes', Kept, LocksKept(w),
         \A z \in Workers \ {w} : pc'[z] = pc[z] /\ call'[z] = call[z],
         \A r \in Runs : pc[w] \in {"idle", "lock"} \/ r[1] # Batch(w) => batchItems'[r] = batchItems[r],
         \A r \in Runs : \A v \in VideosOf[r[1]] : ItemInv(r, v)',
         \A r \in Runs : runs'[r] = "success" => runs[r] = "success" \/ Whole(r),
         batches' = batches,
         QuotaInv', \A d \in Days, k \in Keys : quota[d][k] # NoQuota => quota'[d][k] = quota[d][k],
         held' = held \/ (pc[w] = "commit" /\ held' = held \ {QuotaRow(w)}),
         pc'[w] # "commit", WorkerInv(w)'
  PROVE  CollectionInv'
<1>1. ASSUME NEW z \in Workers, z # w PROVE WorkerInv(z)' /\ PlanInv(z)'
  <2>0. pc'[z] = pc[z] /\ call'[z] = call[z] /\ WorkerInv(z) /\ PlanInv(z) /\ Separate(w, z)
    BY <1>1 DEF CollectionInv
  <2>1. ASSUME pc[z] \notin {"idle", "lock"}, losses'[SourceOf[Batch(z)]] = 0
        PROVE  /\ losses[SourceOf[Batch(z)]] = 0
               /\ sourceLock'[SourceOf[Batch(z)]] = sourceLock[SourceOf[Batch(z)]]
               /\ \A r \in Runs : r[1] = Batch(z) => batchItems'[r] = batchItems[r]
    <3>1. PICK s \in SourceRuns : s = SourceOf[Batch(z)]
      BY <2>0, <2>1 DEF WorkerInv, SourceRuns
    <3>2. losses[s] = 0 /\ sourceLock[s] = z
      BY <2>0, <2>1, <3>1 DEF WorkerInv, LocksKept
    <3>3. sourceLock'[s] = sourceLock[s]
      BY <1>1, <3>2 DEF LocksKept
    <3>4. pc[w] \in {"idle", "lock"} \/ Batch(z) # Batch(w)
      BY <1>1, <2>1, <3>1, <3>2, WorkersApart
    <3> QED
      BY <3>1, <3>2, <3>3, <3>4
  <2>2. WorkerInv(z)'
    BY <2>0, <2>1, OtherWorker
  <2>3. PlanInv(z)'
    <3>1. pc[z] = "commit" =>
            /\ QuotaRow(z) \in held' /\ PlanOf(z) \notin batches'
            /\ quota'[PlanOf(z).day][PlanOf(z).key] = quota[PlanOf(z).day][PlanOf(z).key]
      <4> SUFFICES ASSUME pc[z] = "commit"
                   PROVE  /\ QuotaRow(z) \in held' /\ PlanOf(z) \notin batches'
                          /\ quota'[PlanOf(z).day][PlanOf(z).key] = quota[PlanOf(z).day][PlanOf(z).key]
        OBVIOUS
      <4>1. PlanOf(z).day \in Days /\ PlanOf(z).key \in Keys
        BY <2>0, BatchAssumption DEF PlanInv, WorkerInv
      <4>2. QuotaRow(z) \in held'
        BY <1>1, <2>0 DEF PlanInv, Separate
      <4> QED
        BY <2>0, <4>1, <4>2 DEF PlanInv
    <3> QED
      BY <2>0, <3>1, OtherPlan
  <2> QED
    BY <2>2, <2>3
<1>2. PlanInv(w)'
  BY DEF PlanInv
<1>3. ASSUME NEW p \in batches' PROVE StoredInv(p)'
  <2>1. StoredInv(p)
    BY <1>3 DEF CollectionInv
  <2>2. quota'[p.day][p.key] # NoQuota
    BY <2>1 DEF StoredInv
  <2> QED
    BY <2>1, <2>2, StoredKept
<1>4. ASSUME NEW r \in Runs, runs'[r] = "success" PROVE Whole(r)'
  BY <1>4, WholeKept DEF CollectionInv
<1>5. ASSUME NEW y \in Workers, NEW z \in Workers PROVE Separate(y, z)'
  <2>1. Separate(y, z)
    BY DEF CollectionInv
  <2>2. CASE y = w \/ z = w
    BY <2>2 DEF Separate
  <2>3. CASE y # w /\ z # w
    BY <2>1, <2>3 DEF Separate, QuotaRow, PlanOf
  <2> QED
    BY <2>2, <2>3
<1> QED
  BY <1>1, <1>2, <1>3, <1>4, <1>5 DEF CollectionInv

(* Nothing of the gate changes.                                            *)
LEMMA GateKept ==
  ASSUME QuotaInv, UNCHANGED <<quota, batches>>
  PROVE  QuotaInv'
<1>1. SelectedSizes' = SelectedSizes /\ \A d, k : UsedBy(d, k)' = UsedBy(d, k)
  BY DEF SelectedSizes, UsedBy
<1> QED
  BY <1>1 DEF QuotaInv

(* A worker at an item writes that item and no other.                      *)
ItemBecomes(w, fresh, n) ==
  /\ DOMAIN batchItems' = Runs /\ DOMAIN requests' = Runs
  /\ \A r \in Runs :
       /\ DOMAIN batchItems'[r] = VideosOf[r[1]] /\ DOMAIN requests'[r] = VideosOf[r[1]]
       /\ r # Run(w) => batchItems'[r] = batchItems[r] /\ requests'[r] = requests[r]
  /\ \A v \in VideosOf[Batch(w)] \ {Current(w)} :
       batchItems'[Run(w)][v] = batchItems[Run(w)][v] /\ requests'[Run(w)][v] = requests[Run(w)][v]
  /\ batchItems'[Run(w)][Current(w)] = fresh /\ requests'[Run(w)][Current(w)] = n

CallBecomes(w, c) ==
  DOMAIN call' = Workers /\ call'[w] = c /\ \A z \in Workers \ {w} : call'[z] = call[z]

(* Where a worker with a video left is, and that its item fits.            *)
LEMMA AtVideo ==
  ASSUME CollectionInv, NEW w \in Workers, pc[w] \in {"visit"} \cup AtItem, call[w].todo # {}
  PROVE  /\ Batch(w) \in Batches /\ Current(w) \in VideosOf[Batch(w)] /\ Current(w) \in call[w].todo
         /\ Run(w) \in Runs /\ Run(w)[1] = Batch(w)
         /\ ItemFits(Alone(Run(w)), Item(w), requests[Run(w)][Current(w)], Current(w), snapshots)
         /\ pc[w] \in AtItem =>
              StepFits(Alone(Run(w)), pc[w], Item(w), Current(w), call[w].read, call[w].features, snapshots)
         /\ DOMAIN call[w] = DOMAIN Idle
<1>1. WorkerInv(w)
  BY DEF CollectionInv
<1>2. Batch(w) \in Batches /\ call[w].todo \subseteq VideosOf[Batch(w)] /\ pc[w] \notin Before
  BY <1>1 DEF WorkerInv, AtItem, Before
<1>3. call[w].todo \subseteq Nat
  BY <1>2, BatchAssumption, VideoAssumption
<1>4. PICK m \in call[w].todo : \A u \in call[w].todo : m <= u
  BY <1>3, LeastElement
<1>5. Current(w) \in call[w].todo
  BY <1>4 DEF Current, Min
<1>6. pc[w] \in AtItem =>
        StepFits(Alone(Run(w)), pc[w], Item(w), Current(w), call[w].read, call[w].features, snapshots)
  BY <1>1 DEF WorkerInv
<1>7. PICK r \in Runs : r = Run(w) /\ r[1] = Batch(w)
  BY <1>1, <1>2 DEF WorkerInv, Run
<1>8. PICK v \in VideosOf[r[1]] : v = Current(w)
  BY <1>2, <1>5, <1>7
<1>9. ItemFits(Alone(r), batchItems[r][v], requests[r][v], v, snapshots)
  BY DEF CollectionInv, ItemInv
<1> QED
  BY <1>2, <1>5, <1>6, <1>7, <1>8, <1>9 DEF CollectionInv, Item, PipelineTypes

LEMMA ItemStep ==
  ASSUME CollectionInv, NEW w \in Workers, pc[w] \in {"visit"} \cup AtItem, call[w].todo # {},
         NEW fresh, NEW n, ItemBecomes(w, fresh, n),
         ItemFits(Alone(Run(w)), fresh, n, Current(w), snapshots'),
         Item(w).collection # "none" => fresh.collection # "none",
         Alone(Run(w)) /\ Item(w).outcome = "success" => fresh = Item(w),
         NEW step \in {"visit"} \cup AtItem, pc' = [pc EXCEPT ![w] = step],
         NEW c, CallBecomes(w, c), DOMAIN c = DOMAIN Idle,
         c.batch = Batch(w), c.row = call[w].row, c.day = call[w].day, c.topN = call[w].topN,
         c.todo \subseteq call[w].todo,
         c.ok \subseteq call[w].ok \cup
                          (IF Alone(Run(w)) => fresh.outcome = "success" THEN {Current(w)} ELSE {}),
         step = "visit" => c.read = {},
         step \in AtItem =>
           /\ c.todo = call[w].todo
           /\ StepFits(Alone(Run(w)), step, fresh, Current(w), c.read, c.features, snapshots'),
         snapshots \subseteq snapshots',
         UNCHANGED <<sourceLock, losses, runs, score, quota, held, batches>>
  PROVE  CollectionInv'
<1>0. PipelineTypes /\ WorkerInv(w)
  BY DEF CollectionInv
<1>1. PICK r \in Runs, b \in Batches : r = Run(w) /\ b = Batch(w) /\ r[1] = b
  BY AtVideo
<1>2. PICK v \in call[w].todo : v = Current(w) /\ v \in VideosOf[b]
  BY <1>1, AtVideo
<1>3. pc'[w] = step /\ call'[w] = c /\ \A z \in Workers \ {w} : pc'[z] = pc[z] /\ call'[z] = call[z]
  BY <1>0 DEF PipelineTypes, CallBecomes
<1>4. PipelineTypes'
  <2>1. pc' \in [Workers -> Steps]
    BY <1>0 DEF PipelineTypes, Steps
  <2>2. DOMAIN call' = Workers /\ \A z \in Workers : DOMAIN call'[z] = DOMAIN Idle
    BY <1>0, <1>3 DEF PipelineTypes, CallBecomes
  <2> QED
    BY <1>0, <2>1, <2>2 DEF PipelineTypes, ItemBecomes
<1>5. /\ batchItems[r][v] = Item(w) /\ batchItems'[r][v] = fresh /\ requests'[r][v] = n
      /\ \A e \in Runs : \A u \in VideosOf[e[1]] : ~(e = r /\ u = v) =>
           batchItems'[e][u] = batchItems[e][u] /\ requests'[e][u] = requests[e][u]
  BY <1>1, <1>2 DEF ItemBecomes, Item
<1>6. \A e \in Runs : Alone(e)' = Alone(e)
  BY DEF Alone
<1>7. Kept
  <2>1. ASSUME NEW e \in Runs, NEW u \in VideosOf[e[1]]
        PROVE  /\ Alone(e)' /\ batchItems[e][u].outcome = "success" => batchItems'[e][u] = batchItems[e][u]
               /\ batchItems[e][u].collection # "none" => batchItems'[e][u].collection # "none"
    <3>1. CASE e = r /\ u = v
      BY <1>1, <1>5, <1>6, <3>1
    <3>2. CASE ~(e = r /\ u = v)
      BY <1>5, <3>2
    <3> QED
      BY <3>1, <3>2
  <2> QED
    BY <1>6, <2>1 DEF Kept, LossesKept, ItemsKept, CollectionsKept
<1>8. ASSUME NEW e \in Runs, NEW u \in VideosOf[e[1]] PROVE ItemInv(e, u)'
  <2>1. CASE e = r /\ u = v
    BY <1>1, <1>2, <1>5, <1>6, <2>1 DEF ItemInv
  <2>2. CASE ~(e = r /\ u = v)
    <3>1. batchItems'[e][u] = batchItems[e][u] /\ requests'[e][u] = requests[e][u]
      BY <1>5, <2>2
    <3>2. ItemInv(e, u)
      BY DEF CollectionInv
    <3> QED
      BY <1>6, <3>1, <3>2 DEF ItemInv, ItemFits, Stored
  <2> QED
    BY <2>1, <2>2
<1>9. WorkerInv(w)'
  <2>1. Batch(w)' = b /\ Run(w)' = r /\ pc[w] \notin Before /\ step \notin Before /\ step \notin AtEnd
    BY <1>1, <1>3 DEF Batch, Run, AtItem, Before, AtEnd
  <2>2. \A u \in c.ok : Succeeded(r, u)'
    <3> SUFFICES ASSUME NEW u \in c.ok PROVE Succeeded(r, u)'
      OBVIOUS
    <3>1. CASE u \in call[w].ok
      BY <1>0, <1>1, <1>7, <2>1, <3>1, SucceededKept DEF WorkerInv
    <3>2. CASE u \notin call[w].ok
      BY <1>1, <1>2, <1>5, <1>6, <3>2 DEF Succeeded
    <3> QED
      BY <3>1, <3>2
  <2>3. (pc[w] \in AtItem =>
           /\ call[w].todo # {}
           /\ StepFits(Alone(Run(w)), pc[w], Item(w), Current(w), call[w].read, call[w].features, snapshots))'
    <3> SUFFICES ASSUME step \in AtItem
                 PROVE  (/\ call[w].todo # {}
                         /\ StepFits(Alone(Run(w)), pc[w], Item(w), Current(w), call[w].read,
                                     call[w].features, snapshots))'
      BY <1>3
    <3>1. Current(w)' = v
      BY <1>2, <1>3 DEF Current
    <3>2. Item(w)' = fresh
      BY <1>5, <2>1, <3>1 DEF Item
    <3>3. StepFits(Alone(r), step, fresh, v, c.read, c.features, snapshots')
      BY <1>1, <1>2
    <3>4. Alone(Run(w))' = Alone(r)
      BY <1>6, <2>1 DEF Alone
    <3> QED
      BY <1>2, <1>3, <3>1, <3>2, <3>3, <3>4
  <2>4. (pc[w] # "idle" =>
           /\ Batch(w) \in Batches /\ call[w].day \in Days /\ call[w].topN \in Nat
           /\ call[w].todo \subseteq VideosOf[Batch(w)])'
    BY <1>0, <1>1, <1>3, <2>1 DEF WorkerInv, Before
  <2>5. (pc[w] \notin {"idle", "lock"} /\ losses[SourceOf[Batch(w)]] = 0 => sourceLock[SourceOf[Batch(w)]] = w)'
    BY <1>0, <1>1, <1>3, <2>1 DEF WorkerInv, Before
  <2>6. /\ (pc[w] \notin {"idle", "lock", "open"} => VideosOf[Batch(w)] # {})'
        /\ (pc[w] \in Before \cup {"visit"} => call[w].read = {})'
        /\ (pc[w] \in Before => call[w].ok = {})'
    BY <1>2, <1>3, <2>1
  <2>7. (pc[w] \notin Before => Run(w) \in Runs /\ \A u \in call[w].ok : Succeeded(Run(w), u))'
    <3>1. Run(w)' = r /\ call'[w].ok = c.ok
      BY <1>3, <2>1
    <3> QED
      BY <2>2, <3>1 DEF Succeeded, Alone
  <2>8. /\ (pc[w] \in AtEnd =>
              SourceFits(Source(w)) /\ Source(w).run = Run(w) /\ DOMAIN Source(w).features = call[w].ok)'
        /\ (pc[w] = "finish" => \E p \in batches : p.source = Source(w))'
    BY <1>3, <2>1 DEF AtEnd
  <2> QED
    BY <2>3, <2>4, <2>5, <2>6, <2>7, <2>8 DEF WorkerInv
<1>10. QuotaInv'
  BY GateKept DEF CollectionInv
<1>11. LocksKept(w) /\ \A e \in Runs : e[1] # Batch(w) => batchItems'[e] = batchItems[e]
  BY <1>1 DEF LocksKept, ItemBecomes
<1>12. pc[w] \notin {"idle", "lock"} /\ pc'[w] # "commit"
  BY <1>3 DEF AtItem
<1> QED
  BY <1>3, <1>4, <1>7, <1>8, <1>9, <1>10, <1>11, <1>12, WorkerStep

LEMMA SameItem ==
  ASSUME CollectionInv, NEW w \in Workers, Run(w) \in Runs, UNCHANGED <<batchItems, requests>>
  PROVE  ItemBecomes(w, Item(w), requests[Run(w)][Current(w)])
  BY DEF CollectionInv, PipelineTypes, ItemBecomes, Item

LEMMA UpsertItem ==
  ASSUME CollectionInv, NEW w \in Workers, Run(w) \in Runs, Current(w) \in VideosOf[Run(w)[1]],
         NEW changes, Upsert(w, changes), UNCHANGED requests
  PROVE  ItemBecomes(w, Merge(changes, Item(w)), requests[Run(w)][Current(w)])
  BY DEF CollectionInv, PipelineTypes, ItemBecomes, Item, Upsert

(* The fields that are changed, and those that are left.                   *)
LEMMA Merged ==
  ASSUME NEW changes, NEW item, DOMAIN changes \subseteq DOMAIN item
  PROVE  /\ DOMAIN Merge(changes, item) = DOMAIN item
         /\ \A f \in DOMAIN changes : Merge(changes, item)[f] = changes[f]
         /\ \A f \in DOMAIN item \ DOMAIN changes : Merge(changes, item)[f] = item[f]
  BY DEF Merge

(* Done with an item that now reads fresh.                                 *)
LEMMA DoneStep ==
  ASSUME CollectionInv, NEW w \in Workers, pc[w] \in {"visit"} \cup AtItem, call[w].todo # {},
         NEW fresh, NEW n, ItemBecomes(w, fresh, n),
         ItemFits(Alone(Run(w)), fresh, n, Current(w), snapshots),
         Item(w).collection # "none" => fresh.collection # "none",
         Alone(Run(w)) /\ Item(w).outcome = "success" => fresh = Item(w),
         NEW success \in BOOLEAN, success /\ Alone(Run(w)) => fresh.outcome = "success", Done(w, success),
         UNCHANGED <<sourceLock, losses, runs, score, quota, held, batches, snapshots>>
  PROVE  CollectionInv'
<1> DEFINE c == [call[w] EXCEPT !.todo = @ \ {Current(w)}, !.page = NoComments, !.read = {},
                                !.features = {}, !.ok = IF success THEN @ \cup {Current(w)} ELSE @]
<1>1. DOMAIN call[w] = DOMAIN Idle /\ DOMAIN call = Workers
  BY AtVideo DEF CollectionInv, PipelineTypes
<1>2. CallBecomes(w, c) /\ pc' = [pc EXCEPT ![w] = "visit"]
  BY <1>1 DEF Done, Continue, CallBecomes
<1>3. /\ DOMAIN c = DOMAIN Idle /\ c.batch = Batch(w) /\ c.row = call[w].row /\ c.day = call[w].day
      /\ c.topN = call[w].topN /\ c.todo = call[w].todo \ {Current(w)} /\ c.read = {}
      /\ c.ok = IF success THEN call[w].ok \cup {Current(w)} ELSE call[w].ok
  BY <1>1 DEF Idle, Batch
<1> HIDE DEF c
<1>4. "visit" \notin AtItem
  BY DEF AtItem
<1>5. c.ok \subseteq call[w].ok \cup
                       (IF Alone(Run(w)) => fresh.outcome = "success" THEN {Current(w)} ELSE {})
  BY <1>3
<1> QED
  BY <1>2, <1>3, <1>4, <1>5, ItemStep

(* A worker goes on with its video, and may note something of it.          *)
LEMMA GoOnStep ==
  ASSUME CollectionInv, NEW w \in Workers, pc[w] \in {"visit"} \cup AtItem, call[w].todo # {},
         NEW fresh, NEW n, ItemBecomes(w, fresh, n),
         ItemFits(Alone(Run(w)), fresh, n, Current(w), snapshots'),
         Item(w).collection # "none" => fresh.collection # "none",
         Alone(Run(w)) /\ Item(w).outcome = "success" => fresh = Item(w),
         NEW step \in AtItem, Continue(w, step),
         \/ call' = call
         \/ \E page : call' = [call EXCEPT ![w].page = page]
         \/ \E features : call' = [call EXCEPT ![w].features = features]
         \/ \E read : call' = [call EXCEPT ![w].read = read],
         StepFits(Alone(Run(w)), step, fresh, Current(w), call'[w].read, call'[w].features, snapshots'),
         snapshots \subseteq snapshots',
         UNCHANGED <<sourceLock, losses, runs, score, quota, held, batches>>
  PROVE  CollectionInv'
<1>1. DOMAIN call[w] = DOMAIN Idle /\ DOMAIN call = Workers
  BY AtVideo DEF CollectionInv, PipelineTypes
<1>2. PICK c : c = call'[w]
  OBVIOUS
<1> DEFINE Same == /\ CallBecomes(w, c) /\ DOMAIN c = DOMAIN Idle
                   /\ c.batch = Batch(w) /\ c.row = call[w].row /\ c.day = call[w].day
                   /\ c.topN = call[w].topN /\ c.todo = call[w].todo /\ c.ok = call[w].ok
<1>3. Same /\ pc' = [pc EXCEPT ![w] = step]
  <2>1. CASE call' = call
    BY <1>1, <1>2, <2>1 DEF CallBecomes, Continue, Batch
  <2>2. ASSUME NEW page, call' = [call EXCEPT ![w].page = page] PROVE Same
    BY <1>1, <1>2, <2>2 DEF CallBecomes, Batch, Idle
  <2>3. ASSUME NEW features, call' = [call EXCEPT ![w].features = features] PROVE Same
    BY <1>1, <1>2, <2>3 DEF CallBecomes, Batch, Idle
  <2>4. ASSUME NEW read, call' = [call EXCEPT ![w].read = read] PROVE Same
    BY <1>1, <1>2, <2>4 DEF CallBecomes, Batch, Idle
  <2> QED
    BY <2>1, <2>2, <2>3, <2>4 DEF Continue
<1>4. step \in {"visit"} \cup AtItem /\ step # "visit"
  BY DEF AtItem
<1>5. c.ok \subseteq call[w].ok \cup
                       (IF Alone(Run(w)) => fresh.outcome = "success" THEN {Current(w)} ELSE {})
  BY <1>3
<1>6. /\ c.todo = call[w].todo
      /\ StepFits(Alone(Run(w)), step, fresh, Current(w), c.read, c.features, snapshots')
  BY <1>2, <1>3
<1>7. DOMAIN c = DOMAIN Idle /\ c.batch = Batch(w) /\ c.row = call[w].row /\ c.day = call[w].day
      /\ c.topN = call[w].topN /\ c.todo \subseteq call[w].todo
  BY <1>3
<1> QED
  BY <1>3, <1>4, <1>5, <1>6, <1>7, ItemStep

(* What is written of an item, by the step that writes it: the changes,    *)
(* and where the worker is. A collection is never written back to none.    *)
Writes(w, changes) ==
  \/ /\ pc[w] \in {"reconcile", "unknown", "ingest"} /\ changes = [outcome |-> "reconciliation_required"]
  \/ /\ pc[w] = "begin" /\ changes = [outcome |-> "collecting", collection |-> "collecting"]
  \/ /\ pc[w] = "collected" /\ changes = [outcome |-> "collected", collection |-> "success"]
  \/ /\ pc[w] = "extract"
     /\ changes = [outcome |-> "failed", collection |-> "success", extract |-> "failed",
                   features |-> IF call[w].read = {} THEN Item(w).features ELSE call[w].read]
  \/ /\ pc[w] = "featured"
     /\ changes = [outcome |-> "success", collection |-> "success", extract |-> "success",
                   features |-> call[w].features]

LEMMA WriteFits ==
  ASSUME NEW w, NEW alone, NEW i, NEW n, NEW v, i = Item(w), NEW changes, Writes(w, changes),
         ItemFits(alone, i, n, v, snapshots),
         StepFits(alone, pc[w], i, v, call[w].read, call[w].features, snapshots)
  PROVE  LET fresh == Merge(changes, i) IN
         /\ ItemFits(alone, fresh, n, v, snapshots)
         /\ fresh.collection # "none"
         /\ alone => i.outcome # "success"
         /\ alone /\ i.collection = "success" => fresh.collection = "success"
         /\ pc[w] = "begin" => fresh.collection = "collecting"
         /\ pc[w] = "collected" => fresh.collection = "success" /\ fresh.extract = i.extract
         /\ pc[w] = "featured" => fresh.outcome = "success"
<1>1. DOMAIN i = {"outcome", "collection", "extract", "features"}
  BY DEF ItemFits, NoBatchItem
<1>2. PICK fresh : fresh = Merge(changes, i)
  OBVIOUS
<1>3. alone => i.outcome # "success"
  BY DEF ItemFits, StepFits, Writes
<1>4. CASE pc[w] \in {"reconcile", "unknown", "ingest"}
  <2>1. changes = [outcome |-> "reconciliation_required"]
    BY <1>4 DEF Writes
  <2>2. DOMAIN changes = {"outcome"} /\ changes.outcome = "reconciliation_required"
    BY <2>1
  <2>3. DOMAIN fresh = DOMAIN i /\ fresh.outcome = "reconciliation_required" /\ fresh.collection = i.collection
        /\ fresh.extract = i.extract /\ fresh.features = i.features
    BY <1>1, <1>2, <2>2, Merged
  <2> QED
    BY <1>2, <1>3, <1>4, <2>3 DEF ItemFits, StepFits
<1>5. CASE pc[w] = "begin"
  <2>1. changes = [outcome |-> "collecting", collection |-> "collecting"]
    BY <1>5 DEF Writes
  <2>2. DOMAIN fresh = DOMAIN i /\ fresh.outcome = "collecting" /\ fresh.collection = "collecting"
        /\ fresh.extract = i.extract /\ fresh.features = i.features
    BY <1>1, <1>2, <2>1, Merged
  <2> QED
    BY <1>2, <1>3, <1>5, <2>2 DEF ItemFits, StepFits
<1>6. CASE pc[w] = "collected"
  <2>1. changes = [outcome |-> "collected", collection |-> "success"]
    BY <1>6 DEF Writes
  <2>2. DOMAIN fresh = DOMAIN i /\ fresh.outcome = "collected" /\ fresh.collection = "success"
        /\ fresh.extract = i.extract /\ fresh.features = i.features
    BY <1>1, <1>2, <2>1, Merged
  <2> QED
    BY <1>2, <1>3, <1>6, <2>2 DEF ItemFits, StepFits
<1>7. CASE pc[w] = "extract"
  <2>1. PICK features : features = IF call[w].read = {} THEN i.features ELSE call[w].read
    OBVIOUS
  <2>2. changes = [outcome |-> "failed", collection |-> "success", extract |-> "failed", features |-> features]
    BY <1>7, <2>1 DEF Writes
  <2>3. DOMAIN fresh = DOMAIN i /\ fresh.outcome = "failed" /\ fresh.collection = "success"
        /\ fresh.extract = "failed" /\ fresh.features = features
    BY <1>1, <1>2, <2>2, Merged
  <2>4. Stored(v, features, snapshots)
    BY <2>1 DEF ItemFits, StepFits, Stored
  <2> QED
    BY <1>2, <1>3, <1>7, <2>3, <2>4 DEF ItemFits, StepFits
<1>8. CASE pc[w] = "featured"
  <2>1. PICK features : features = call[w].features
    OBVIOUS
  <2>2. changes = [outcome |-> "success", collection |-> "success", extract |-> "success", features |-> features]
    BY <1>8, <2>1 DEF Writes
  <2>3. DOMAIN fresh = DOMAIN i /\ fresh.outcome = "success" /\ fresh.collection = "success"
        /\ fresh.extract = "success" /\ fresh.features = features
    BY <1>1, <1>2, <2>2, Merged
  <2>4. features # {} /\ <<v, features>> \in snapshots
    BY <1>8, <2>1 DEF StepFits
  <2> QED
    BY <1>2, <1>3, <1>8, <2>3, <2>4 DEF ItemFits, StepFits, Stored
<1> QED
  BY <1>4, <1>5, <1>6, <1>7, <1>8 DEF Writes

(* The steps that write an item, and what they write.                      *)
WritesItem(w) ==
  Reconcile(w) \/ Begin(w) \/ Unknown(w) \/ Collected(w) \/ Unfeatured(w) \/ Featured(w)

LEMMA ItemIsWritten ==
  ASSUME NEW w, WritesItem(w)
  PROVE  /\ \E changes : Writes(w, changes) /\ Upsert(w, changes)
         /\ pc[w] \in AtItem
         /\ UNCHANGED requests
<1>1. ASSUME Reconcile(w) \/ Unknown(w) PROVE \E changes : Writes(w, changes) /\ Upsert(w, changes)
  BY <1>1 DEF Reconcile, Unknown, Writes
<1>2. ASSUME Begin(w) PROVE \E changes : Writes(w, changes) /\ Upsert(w, changes)
  BY <1>2 DEF Begin, Writes
<1>3. ASSUME Collected(w) PROVE \E changes : Writes(w, changes) /\ Upsert(w, changes)
  BY <1>3 DEF Collected, Writes
<1>4. ASSUME Unfeatured(w) PROVE \E changes : Writes(w, changes) /\ Upsert(w, changes)
  BY <1>4 DEF Unfeatured, Writes
<1>5. ASSUME Featured(w) PROVE \E changes : Writes(w, changes) /\ Upsert(w, changes)
  BY <1>5 DEF Featured, Writes
<1>6. pc[w] \in AtItem /\ UNCHANGED requests
  BY DEF WritesItem, Reconcile, Begin, Unknown, Collected, Unfeatured, Featured, AtItem
<1> QED
  BY <1>1, <1>2, <1>3, <1>4, <1>5, <1>6 DEF WritesItem

(* Every step of a worker at a video.                                      *)
LEMMA WritesInv ==
  ASSUME CollectionInv, NEW w \in Workers, WritesItem(w)
  PROVE  CollectionInv'
<1>1. PICK changes : Writes(w, changes) /\ Upsert(w, changes)
  BY ItemIsWritten
<1>2. pc[w] \in AtItem /\ call[w].todo # {} /\ UNCHANGED requests /\ UNCHANGED <<sourceLock, losses, runs>>
      /\ UNCHANGED <<score, quota, held, batches, snapshots>>
  <2>1. pc[w] \in AtItem /\ UNCHANGED requests
    BY ItemIsWritten
  <2>2. call[w].todo # {}
    BY <2>1 DEF CollectionInv, WorkerInv
  <2>3. UNCHANGED <<sourceLock, losses, runs, score, quota, held, batches, snapshots>>
    BY DEF WritesItem, Reconcile, Begin, Unknown, Collected, Unfeatured, Featured, promotionVars, lockVars
  <2> QED
    BY <2>1, <2>2, <2>3
<1>3. PICK i, n, v : i = Item(w) /\ n = requests[Run(w)][Current(w)] /\ v = Current(w)
  OBVIOUS
<1>4. PICK alone \in BOOLEAN : alone = Alone(Run(w))
  BY DEF Alone
<1>5. PICK fresh : fresh = Merge(changes, i)
  OBVIOUS
<1>6. /\ ItemFits(alone, i, n, v, snapshots) /\ Run(w) \in Runs /\ Current(w) \in VideosOf[Run(w)[1]]
      /\ StepFits(alone, pc[w], i, v, call[w].read, call[w].features, snapshots)
  BY <1>2, <1>3, <1>4, AtVideo
<1>7. /\ ItemFits(alone, fresh, n, v, snapshots) /\ fresh.collection # "none"
      /\ alone => i.outcome # "success"
      /\ pc[w] = "begin" => fresh.collection = "collecting"
      /\ pc[w] = "collected" => fresh.collection = "success" /\ fresh.extract = i.extract
      /\ pc[w] = "featured" => fresh.outcome = "success"
  BY <1>1, <1>3, <1>5, <1>6, WriteFits
<1>8. ItemBecomes(w, fresh, n)
  BY <1>1, <1>2, <1>3, <1>5, <1>6, UpsertItem
<1>9. CASE Reconcile(w) \/ Unknown(w) \/ Unfeatured(w) \/ Featured(w)
  <2>1. PICK success \in BOOLEAN : Done(w, success) /\ (success => pc[w] = "featured")
    BY <1>9 DEF Reconcile, Unknown, Unfeatured, Featured
  <2> QED
    BY <1>2, <1>3, <1>4, <1>7, <1>8, <2>1, DoneStep
<1>10. CASE Begin(w) \/ Collected(w)
  <2>1. PICK step \in {"fetch", "extract"} :
          /\ Continue(w, step) /\ call' = call
          /\ \/ pc[w] = "begin" /\ step = "fetch"
             \/ pc[w] = "collected" /\ step = "extract"
    BY <1>10 DEF Begin, Collected
  <2>2. StepFits(alone, step, fresh, v, call[w].read, call[w].features, snapshots)
    BY <1>6, <1>7, <2>1 DEF StepFits, ItemFits
  <2>3. step \in AtItem
    BY <2>1 DEF AtItem
  <2>4. ItemFits(Alone(Run(w)), fresh, n, Current(w), snapshots') /\ snapshots \subseteq snapshots'
    BY <1>2, <1>3, <1>4, <1>7
  <2>5. StepFits(Alone(Run(w)), step, fresh, Current(w), call'[w].read, call'[w].features, snapshots')
    BY <1>2, <1>3, <1>4, <2>1, <2>2
  <2> QED
    BY <1>2, <1>3, <1>4, <1>7, <1>8, <2>1, <2>3, <2>4, <2>5, GoOnStep
<1> QED
  BY <1>9, <1>10 DEF WritesItem

LEMMA ReadsInv ==
  ASSUME CollectionInv, NEW w \in Workers,
         \/ Reuse(w) \/ Suspect(w) \/ SkipCollection(w) \/ Intend(w) \/ Fetch(w) \/ IngestPage(w) \/ Extract(w)
  PROVE  CollectionInv'
<1>1. pc[w] \in {"visit"} \cup AtItem /\ call[w].todo # {}
  <2>1. pc[w] \in AtItem => call[w].todo # {}
    BY DEF CollectionInv, WorkerInv
  <2> QED
    BY <2>1 DEF Reuse, Suspect, SkipCollection, Intend, Look, Fetch, IngestPage, Extract, AtItem
<1>2. /\ Run(w) \in Runs /\ Current(w) \in VideosOf[Run(w)[1]]
      /\ DOMAIN call[w] = DOMAIN Idle /\ DOMAIN call = Workers
  BY <1>1, AtVideo DEF CollectionInv, PipelineTypes
<1>3. PICK i, n, v : i = Item(w) /\ n = requests[Run(w)][Current(w)] /\ v = Current(w)
  OBVIOUS
<1>4. PICK alone \in BOOLEAN : alone = Alone(Run(w))
  BY DEF Alone
<1>5. /\ ItemFits(alone, i, n, v, snapshots)
      /\ pc[w] = "visit" => call[w].read = {}
      /\ pc[w] \in AtItem => StepFits(alone, pc[w], i, v, call[w].read, call[w].features, snapshots)
  BY <1>1, <1>3, <1>4, AtVideo DEF CollectionInv, WorkerInv
<1>6. UNCHANGED <<batchItems, requests>> => ItemBecomes(w, i, n)
  BY <1>2, <1>3, SameItem
<1>7. ASSUME Reuse(w) PROVE CollectionInv'
  <2>1. i.outcome = "success" /\ Done(w, TRUE) /\ UNCHANGED <<batchItems, requests>>
        /\ UNCHANGED <<sourceLock, losses, runs, score, quota, held, batches, snapshots>>
    BY <1>3, <1>7 DEF Reuse, Finished, promotionVars, lockVars
  <2> QED
    BY <1>1, <1>3, <1>4, <1>5, <1>6, <2>1, DoneStep
(* The item as it is, and the worker goes on.                              *)
<1>8. ASSUME NEW step \in AtItem, Continue(w, step), UNCHANGED <<batchItems, requests>>,
             \/ call' = call
             \/ \E page : call' = [call EXCEPT ![w].page = page]
             \/ \E features : call' = [call EXCEPT ![w].features = features]
             \/ \E read : call' = [call EXCEPT ![w].read = read],
             StepFits(alone, step, i, v, call'[w].read, call'[w].features, snapshots'),
             snapshots \subseteq snapshots',
             UNCHANGED <<sourceLock, losses, runs, score, quota, held, batches>>
      PROVE  CollectionInv'
  <2>1. ItemFits(Alone(Run(w)), i, n, Current(w), snapshots')
    BY <1>3, <1>4, <1>5, <1>8 DEF ItemFits, Stored
  <2>2. StepFits(Alone(Run(w)), step, i, Current(w), call'[w].read, call'[w].features, snapshots')
    BY <1>3, <1>4, <1>8
  <2>3. ItemBecomes(w, i, n)
    BY <1>6, <1>8
  <2> QED
    BY <1>1, <1>3, <1>8, <2>1, <2>2, <2>3, GoOnStep
<1>9. ASSUME Suspect(w) \/ Intend(w) PROVE CollectionInv'
  <2>1. PICK step \in {"reconcile", "begin"} :
          /\ Continue(w, step) /\ call' = call /\ pc[w] = "visit"
          /\ step = "reconcile" => i.collection = "collecting"
          /\ step = "begin" => i.collection = "none"
    BY <1>3, <1>9 DEF Suspect, Intend, Look
  <2>2. /\ UNCHANGED <<batchItems, requests, snapshots>>
        /\ UNCHANGED <<sourceLock, losses, runs, score, quota, held, batches>>
    BY <1>9 DEF Suspect, Intend, Look, promotionVars, lockVars
  <2>3. StepFits(alone, step, i, v, call'[w].read, call'[w].features, snapshots')
    BY <1>5, <2>1, <2>2 DEF StepFits, Stored
  <2>4. step \in AtItem
    BY <2>1 DEF AtItem
  <2> QED
    BY <1>8, <2>1, <2>2, <2>3, <2>4
<1>10. ASSUME SkipCollection(w) PROVE CollectionInv'
  <2>1. /\ Continue(w, "extract") /\ UNCHANGED <<batchItems, requests, snapshots>>
        /\ UNCHANGED <<sourceLock, losses, runs, score, quota, held, batches>>
        /\ call' = [call EXCEPT ![w].read = i.features]
        /\ ~Finished(i) /\ i.collection = "success"
    BY <1>3, <1>10 DEF SkipCollection, Look, promotionVars, lockVars
  <2>2. call'[w].read = i.features
    BY <1>2, <2>1 DEF Idle
  <2>3. StepFits(alone, "extract", i, v, call'[w].read, call'[w].features, snapshots')
    BY <1>5, <2>1, <2>2 DEF StepFits, ItemFits, Finished
  <2>4. "extract" \in AtItem
    BY DEF AtItem
  <2> QED
    BY <1>8, <2>1, <2>3, <2>4
<1>11. ASSUME Fetch(w) PROVE CollectionInv'
  <2>1. /\ requests' = [requests EXCEPT ![Run(w)][Current(w)] = @ + 1] /\ pc[w] = "fetch"
        /\ UNCHANGED <<batchItems, snapshots>>
        /\ UNCHANGED <<sourceLock, losses, runs, score, quota, held, batches>>
    BY <1>11 DEF Fetch, promotionVars, lockVars
  <2>2. StepFits(alone, "fetch", i, v, call[w].read, call[w].features, snapshots)
    BY <1>5, <2>1 DEF AtItem
  <2>3. PICK m : m = n + 1
    OBVIOUS
  <2>4. ItemBecomes(w, i, m)
    BY <1>2, <1>3, <2>1, <2>3 DEF CollectionInv, PipelineTypes, ItemBecomes, Item
  <2>5. ItemFits(alone, i, m, v, snapshots)
    BY <1>5, <2>2, <2>3 DEF ItemFits, StepFits
  <2>6. PICK step \in {"ingest", "unknown"} :
          /\ Continue(w, step)
          /\ call' = call \/ \E page : call' = [call EXCEPT ![w].page = page]
    BY <1>11 DEF Fetch
  <2>7. call'[w].read = call[w].read /\ call'[w].features = call[w].features
    BY <1>2, <2>6 DEF Idle
  <2>8. StepFits(alone, step, i, v, call'[w].read, call'[w].features, snapshots)
    BY <2>2, <2>6, <2>7 DEF StepFits
  <2>9. step \in AtItem
    BY <2>6 DEF AtItem
  <2>10. /\ ItemFits(Alone(Run(w)), i, m, Current(w), snapshots') /\ snapshots \subseteq snapshots'
         /\ StepFits(Alone(Run(w)), step, i, Current(w), call'[w].read, call'[w].features, snapshots')
    BY <1>3, <1>4, <2>1, <2>5, <2>8
  <2> QED
    BY <1>1, <1>3, <2>1, <2>4, <2>6, <2>9, <2>10, GoOnStep
<1>12. ASSUME IngestPage(w) PROVE CollectionInv'
  <2>1. /\ UNCHANGED <<call, batchItems, requests, snapshots>> /\ pc[w] = "ingest"
        /\ UNCHANGED <<sourceLock, losses, runs, score, quota, held, batches>>
    BY <1>12 DEF IngestPage, promotionVars, lockVars
  <2>2. PICK step \in {"collected", "unknown"} : Continue(w, step)
    BY <1>12 DEF IngestPage
  <2>3. StepFits(alone, "ingest", i, v, call[w].read, call[w].features, snapshots)
    BY <1>5, <2>1 DEF AtItem
  <2>4. StepFits(alone, step, i, v, call'[w].read, call'[w].features, snapshots')
    BY <2>1, <2>2, <2>3 DEF StepFits
  <2>5. step \in AtItem
    BY <2>2 DEF AtItem
  <2> QED
    BY <1>8, <2>1, <2>2, <2>4, <2>5
<1>13. ASSUME Extract(w) PROVE CollectionInv'
  <2>1. /\ Continue(w, "featured") /\ UNCHANGED <<batchItems, requests>> /\ pc[w] = "extract"
        /\ UNCHANGED <<sourceLock, losses, runs, score, quota, held, batches>>
        /\ call' = [call EXCEPT ![w].features = evidence[v]]
        /\ evidence[v] # {} /\ snapshots' = snapshots \cup {<<v, evidence[v]>>}
    BY <1>3, <1>13 DEF Extract, lockVars
  <2>2. call'[w].features = evidence[v] /\ call'[w].read = call[w].read
    BY <1>2, <2>1 DEF Idle
  <2>3. StepFits(alone, "extract", i, v, call[w].read, call[w].features, snapshots)
    BY <1>5, <2>1 DEF AtItem
  <2>4. StepFits(alone, "featured", i, v, call'[w].read, call'[w].features, snapshots')
    BY <2>1, <2>2, <2>3 DEF StepFits, Stored
  <2>5. "featured" \in AtItem
    BY DEF AtItem
  <2>6. (\E features : call' = [call EXCEPT ![w].features = features]) /\ snapshots \subseteq snapshots'
    BY <2>1
  <2> QED
    BY <1>8, <2>1, <2>4, <2>5, <2>6
<1> QED
  BY <1>7, <1>9, <1>10, <1>11, <1>12, <1>13

(* A worker while all items stay as they are; its new call and step.       *)
LEMMA QuietStep ==
  ASSUME CollectionInv, NEW w \in Workers, UNCHANGED <<batchItems, requests, snapshots, batches, score>>,
         NEW step \in Steps \ {"commit"}, pc' = [pc EXCEPT ![w] = step],
         NEW c, CallBecomes(w, c), DOMAIN c = DOMAIN Idle,
         sourceLock' \in [SourceRuns -> Workers \cup {NoWorker}], losses' = losses,
         \A s \in SourceRuns : sourceLock[s] \in Workers \ {w} => sourceLock'[s] = sourceLock[s],
         DOMAIN runs' = Runs,
         \A r \in Runs : runs'[r] = "success" => runs[r] = "success" \/ Whole(r),
         QuotaInv', \A d \in Days, k \in Keys : quota[d][k] # NoQuota => quota'[d][k] = quota[d][k],
         held' = held \/ (pc[w] = "commit" /\ held' = held \ {QuotaRow(w)}),
         WorkerInv(w)'
  PROVE  CollectionInv'
<1>0. PipelineTypes
  BY DEF CollectionInv
<1>1. pc'[w] # "commit" /\ \A z \in Workers \ {w} : pc'[z] = pc[z] /\ call'[z] = call[z]
  BY <1>0 DEF PipelineTypes, CallBecomes
<1>2. PipelineTypes'
  BY <1>0, <1>1 DEF PipelineTypes, CallBecomes
<1>3. LocksKept(w) /\ LossesKept
  BY DEF LocksKept, LossesKept, Alone
<1>4. Kept
  BY <1>3, NothingWritten
<1>5. \A r \in Runs : \A v \in VideosOf[r[1]] : ItemInv(r, v)'
  BY DEF CollectionInv, ItemInv, ItemFits, Stored, Alone
<1>6. batches' = batches /\ \A r \in Runs : batchItems'[r] = batchItems[r]
  OBVIOUS
<1> QED
  BY <1>1, <1>2, <1>3, <1>4, <1>5, <1>6, WorkerStep

(* What holds of a worker before it has a run, and after.                  *)
LEMMA EarlyWorker ==
  ASSUME NEW w, NEW b \in Batches, pc'[w] \in Before,
         call'[w].batch = b, call'[w].day \in Days, call'[w].topN \in Nat, call'[w].todo = {},
         call'[w].read = {}, call'[w].ok = {},
         pc'[w] \notin {"idle", "lock"} /\ losses'[SourceOf[b]] = 0 => sourceLock'[SourceOf[b]] = w,
         pc'[w] = "create" => VideosOf[b] # {}
  PROVE  WorkerInv(w)'
<1>1. Batch(w)' = b
  BY DEF Batch
<1>2. pc'[w] \notin AtItem /\ pc'[w] \notin AtEnd /\ pc'[w] # "finish"
      /\ (pc'[w] \notin {"idle", "lock", "open"} => pc'[w] = "create")
  BY DEF Before, AtItem, AtEnd
<1> QED
  BY <1>1, <1>2 DEF WorkerInv

LEMMA StartInv ==
  ASSUME CollectionInv, NEW w \in Workers, NEW b \in Batches, NEW d \in Days, NEW n \in TopNs,
         Start(w, b, d, n)
  PROVE  CollectionInv'
<1>0. PipelineTypes /\ QuotaInv
  BY DEF CollectionInv
<1> DEFINE c == [Idle EXCEPT !.batch = b, !.day = d, !.topN = n]
<1>1. /\ c.batch = b /\ c.day = d /\ c.topN = n /\ c.todo = {} /\ c.ok = {} /\ c.read = {}
      /\ DOMAIN c = DOMAIN Idle
  BY DEF Idle
<1> HIDE DEF c
<1>2. /\ pc' = [pc EXCEPT ![w] = "lock"] /\ CallBecomes(w, c)
      /\ UNCHANGED <<sourceLock, losses, runs, batchItems, snapshots, requests, score, held, batches>>
  BY <1>0 DEF Start, Continue, CallBecomes, PipelineTypes, c, lockVars
<1>3. PICK m \in QuotaSizes :
        quota' = IF quota[d][KeyOf[b]] # NoQuota THEN quota
                 ELSE [quota EXCEPT ![d][KeyOf[b]] = [max |-> m, used |-> 0]]
  BY DEF Start
<1>4. PICK k \in Keys : k = KeyOf[b]
  BY BatchAssumption
<1>5. [max |-> m, used |-> 0] \in QuotaRows
  BY QuotaAssumption DEF QuotaRows
<1>6. /\ quota' \in [Days -> [Keys -> QuotaRows \cup {NoQuota}]]
      /\ \A e \in Days, l \in Keys :
           \/ quota'[e][l] = quota[e][l]
           \/ e = d /\ l = k /\ quota[d][k] = NoQuota /\ quota'[d][k] = [max |-> m, used |-> 0]
  BY <1>0, <1>3, <1>4, <1>5 DEF QuotaInv
<1>7. QuotaInv'
  <2>1. SelectedSizes' = SelectedSizes /\ \A e, l : UsedBy(e, l)' = UsedBy(e, l)
    BY <1>2 DEF SelectedSizes, UsedBy
  <2>2. quota[d][k] = NoQuota => UsedBy(d, k) = {}
    BY DEF CollectionInv, StoredInv, UsedBy
  <2>3. ASSUME NEW e \in Days, NEW l \in Keys, quota'[e][l] # NoQuota
        PROVE  /\ quota'[e][l].used <= quota'[e][l].max
               /\ quota'[e][l].used = SumFunctionOnSet(SelectedSizes, UsedBy(e, l))
    <3>1. CASE quota'[e][l] = quota[e][l]
      BY <1>0, <2>3, <3>1 DEF QuotaInv
    <3>2. CASE e = d /\ l = k /\ quota[d][k] = NoQuota /\ quota'[d][k] = [max |-> m, used |-> 0]
      BY <2>2, <3>2, SumOfNone, QuotaAssumption
    <3> QED
      BY <1>6, <3>1, <3>2
  <2> QED
    BY <1>0, <1>2, <1>6, <2>1, <2>3 DEF QuotaInv
<1>8. WorkerInv(w)'
  <2>1. pc'[w] = "lock" /\ call'[w] = c
    BY <1>0, <1>2 DEF PipelineTypes, CallBecomes
  <2>2. n \in Nat
    BY BatchAssumption
  <2>3. pc'[w] \in Before
    BY <2>1 DEF Before
  <2> QED
    BY <1>1, <2>1, <2>2, <2>3, EarlyWorker
<1>9. /\ \A e \in Days, l \in Keys : quota[e][l] # NoQuota => quota'[e][l] = quota[e][l]
      /\ sourceLock' \in [SourceRuns -> Workers \cup {NoWorker}] /\ DOMAIN runs' = Runs
      /\ "lock" \in Steps \ {"commit"}
  BY <1>0, <1>2, <1>6 DEF PipelineTypes, Steps, Before
<1>10. /\ UNCHANGED <<batchItems, requests, snapshots, batches, score, losses>>
       /\ \A s \in SourceRuns : sourceLock[s] \in Workers \ {w} => sourceLock'[s] = sourceLock[s]
       /\ \A r \in Runs : runs'[r] = "success" => runs[r] = "success" \/ Whole(r)
       /\ held' = held
  BY <1>2
<1> QED
  BY <1>1, <1>2, <1>7, <1>8, <1>9, <1>10, QuietStep

LEMMA LockInv ==
  ASSUME CollectionInv, NEW w \in Workers, Lock(w)
  PROVE  CollectionInv'
<1>0. PipelineTypes /\ QuotaInv /\ WorkerInv(w) /\ pc[w] = "lock"
  BY DEF CollectionInv, Lock
<1>1. PICK b \in Batches, s \in SourceRuns : b = Batch(w) /\ s = SourceOf[b]
  BY <1>0 DEF WorkerInv, SourceRuns
<1>2. /\ sourceLock[s] = NoWorker /\ sourceLock' = [sourceLock EXCEPT ![s] = w]
      /\ pc' = [pc EXCEPT ![w] = "open"] /\ call' = call
      /\ UNCHANGED <<losses, runs, batchItems, snapshots, requests, score, quota, held, batches>>
  BY <1>1 DEF Lock, Continue, promotionVars
<1>3. CallBecomes(w, call[w]) /\ DOMAIN call[w] = DOMAIN Idle
  BY <1>0, <1>2 DEF CallBecomes, PipelineTypes
<1>4. /\ sourceLock' \in [SourceRuns -> Workers \cup {NoWorker}]
      /\ \A t \in SourceRuns : sourceLock[t] \in Workers \ {w} => sourceLock'[t] = sourceLock[t]
  BY <1>0, <1>2, BatchAssumption DEF PipelineTypes
<1>5. WorkerInv(w)'
  <2>1. pc'[w] = "open" /\ sourceLock'[s] = w /\ call'[w].batch = b
    BY <1>0, <1>1, <1>2 DEF PipelineTypes, Batch
  <2>2. /\ call[w].day \in Days /\ call[w].topN \in Nat /\ call[w].read = {} /\ call[w].ok = {}
        /\ call[w].todo \subseteq VideosOf[b]
    BY <1>0, <1>1 DEF WorkerInv, Before
  <2>3. Batch(w)' = b
    BY <2>1 DEF Batch
  <2> QED
    BY <1>1, <1>2, <2>1, <2>2, <2>3 DEF WorkerInv, AtItem, AtEnd, Before
<1>6. QuotaInv'
  BY <1>0, <1>2, GateKept
<1>7. "open" \in Steps \ {"commit"} /\ DOMAIN runs' = Runs
  BY <1>0, <1>2 DEF Steps, Before, PipelineTypes
<1>8. /\ UNCHANGED <<batchItems, requests, snapshots, batches, score, losses>>
      /\ \A r \in Runs : runs'[r] = "success" => runs[r] = "success" \/ Whole(r)
      /\ held' = held
      /\ \A d \in Days, k \in Keys : quota[d][k] # NoQuota => quota'[d][k] = quota[d][k]
  BY <1>2
<1> QED
  BY <1>2, <1>3, <1>4, <1>5, <1>6, <1>7, <1>8, QuietStep

LEMMA LatestMade ==
  ASSUME NEW b \in Batches, Made(b) # {}
  PROVE  Max(Made(b)) \in Made(b) /\ Made(b) \subseteq Rows
<1>1. Made(b) \subseteq Rows /\ IsFiniteSet(Rows) /\ Rows \subseteq Nat
  BY BatchAssumption, FS_Interval DEF Made, Rows
<1>2. PICK m \in Made(b) : \A x \in Made(b) : x <= m
  <2> DEFINE S == Made(b)
  <2>1. S \subseteq Nat /\ S # {} /\ IsFiniteSet(S)
    BY <1>1, FS_Subset
  <2> HIDE DEF S
  <2>2. \E m \in S : \A x \in S : x <= m
    BY <2>1, Largest
  <2> QED
    BY <2>2 DEF S
<1>3. \A x \in Made(b) : m >= x
  BY <1>1, <1>2
<1>4. Max(Made(b)) \in Made(b)
  BY <1>3 DEF Max
<1> QED
  BY <1>1, <1>4

(* A worker has a run, and its videos are before it.                       *)
LEMMA VisitInv ==
  ASSUME CollectionInv, NEW w \in Workers, pc[w] \in {"open", "create"}, VideosOf[Batch(w)] # {},
         NEW row \in Rows, Continue(w, "visit"),
         call' = [call EXCEPT ![w].todo = VideosOf[Batch(w)], ![w].row = row],
         UNCHANGED <<sourceLock, losses, batchItems, snapshots, requests, score, quota, held, batches>>,
         DOMAIN runs' = Runs, \A r \in Runs : runs'[r] = "success" => runs[r] = "success"
  PROVE  CollectionInv'
<1>0. PipelineTypes /\ QuotaInv /\ WorkerInv(w)
  BY DEF CollectionInv
<1>1. PICK b \in Batches : b = Batch(w)
  BY <1>0 DEF WorkerInv
<1> DEFINE c == [call[w] EXCEPT !.todo = VideosOf[b], !.row = row]
<1>2. pc' = [pc EXCEPT ![w] = "visit"] /\ CallBecomes(w, c)
  BY <1>0, <1>1 DEF Continue, CallBecomes, PipelineTypes
<1>3. /\ DOMAIN c = DOMAIN Idle /\ c.batch = b /\ c.row = row /\ c.day = call[w].day
      /\ c.topN = call[w].topN /\ c.todo = VideosOf[b] /\ c.ok = call[w].ok /\ c.read = call[w].read
  BY <1>0, <1>1 DEF PipelineTypes, Idle, Batch
<1> HIDE DEF c
<1>4. WorkerInv(w)'
  <2>1. pc'[w] = "visit" /\ call'[w] = c /\ Batch(w)' = b /\ Run(w)' = <<b, row>>
    BY <1>0, <1>2, <1>3 DEF PipelineTypes, CallBecomes, Batch, Run
  <2>2. <<b, row>> \in Runs
    BY DEF Runs
  <2>3. c.ok = {} /\ c.read = {}
    BY <1>0, <1>3 DEF WorkerInv, Before
  <2>4. "visit" \notin Before /\ "visit" \notin AtItem /\ "visit" \notin AtEnd
    BY DEF Before, AtItem, AtEnd
  <2>5. losses[SourceOf[b]] = 0 => sourceLock[SourceOf[b]] = w
    BY <1>0, <1>1 DEF WorkerInv
  <2>6. c.day \in Days /\ c.topN \in Nat
    BY <1>0, <1>3 DEF WorkerInv
  <2> QED
    BY <1>1, <1>3, <2>1, <2>2, <2>3, <2>4, <2>5, <2>6 DEF WorkerInv
<1>5. QuotaInv'
  BY <1>0, GateKept
<1>6. "visit" \in Steps \ {"commit"} /\ sourceLock' \in [SourceRuns -> Workers \cup {NoWorker}]
  BY <1>0 DEF Steps, PipelineTypes
<1> QED
  BY <1>2, <1>3, <1>4, <1>5, <1>6, QuietStep

LEMMA OpenInv ==
  ASSUME CollectionInv, NEW w \in Workers, Open(w) \/ InsertRun(w)
  PROVE  CollectionInv'
<1>0. PipelineTypes /\ QuotaInv /\ WorkerInv(w)
  BY DEF CollectionInv
<1>1. PICK b \in Batches : b = Batch(w) /\ VideosOf[b] # {} /\ pc[w] \in {"open", "create"}
  BY <1>0 DEF WorkerInv, Open, InsertRun
<1>2. UNCHANGED <<sourceLock, losses, batchItems, snapshots, requests, score, quota, held, batches>>
  BY DEF Open, InsertRun, promotionVars, lockVars
<1>3. CASE Open(w) /\ Made(b) = {}
  <2>1. pc' = [pc EXCEPT ![w] = "create"] /\ call' = call /\ runs' = runs /\ pc[w] = "open"
    BY <1>1, <1>3 DEF Open, Continue
  <2>2. CallBecomes(w, call[w]) /\ DOMAIN call[w] = DOMAIN Idle
    BY <1>0, <2>1 DEF CallBecomes, PipelineTypes
  <2>3. WorkerInv(w)'
    <3>1. pc'[w] = "create" /\ Batch(w)' = b /\ call'[w] = call[w]
      BY <1>0, <1>1, <2>1 DEF PipelineTypes, Batch
    <3>2. /\ call[w].day \in Days /\ call[w].topN \in Nat /\ call[w].read = {} /\ call[w].ok = {}
          /\ call[w].todo \subseteq VideosOf[b]
          /\ losses[SourceOf[b]] = 0 => sourceLock[SourceOf[b]] = w
      BY <1>0, <1>1, <2>1 DEF WorkerInv, Before
    <3> QED
      BY <1>1, <1>2, <3>1, <3>2 DEF WorkerInv, AtItem, AtEnd, Before
  <2>4. QuotaInv' /\ "create" \in Steps \ {"commit"} /\ DOMAIN runs' = Runs
        /\ sourceLock' \in [SourceRuns -> Workers \cup {NoWorker}]
    BY <1>0, <1>2, <2>1, GateKept DEF Steps, Before, PipelineTypes
  <2> QED
    BY <1>2, <2>1, <2>2, <2>3, <2>4, QuietStep
<1>4. CASE Open(w) /\ Made(b) # {}
  <2>1. Continue(w, "visit") /\ runs' = runs
        /\ call' = [call EXCEPT ![w].todo = VideosOf[Batch(w)], ![w].row = Max(Made(b))]
    BY <1>1, <1>4 DEF Open
  <2>2. PICK row \in Rows : row = Max(Made(b))
    BY <1>4, LatestMade
  <2>3. DOMAIN runs' = Runs
    BY <1>0, <2>1 DEF PipelineTypes
  <2> QED
    BY <1>1, <1>2, <2>1, <2>2, <2>3, VisitInv
<1>5. CASE InsertRun(w)
  <2>1. PICK n \in Rows : /\ runs' = [runs EXCEPT ![<<b, n>>] = "running"]
                          /\ call' = [call EXCEPT ![w].todo = VideosOf[Batch(w)], ![w].row = n]
    BY <1>1, <1>5 DEF InsertRun
  <2>2. Continue(w, "visit")
    BY <1>5 DEF InsertRun
  <2>3. DOMAIN runs' = Runs /\ \A r \in Runs : runs'[r] = "success" => runs[r] = "success"
    BY <1>0, <2>1 DEF PipelineTypes
  <2> QED
    BY <1>1, <1>2, <2>1, <2>2, <2>3, VisitInv
<1> QED
  BY <1>3, <1>4, <1>5, <1>1

(* A worker notes the source of its candidates.                            *)
LEMMA SourceInv ==
  ASSUME CollectionInv, NEW w \in Workers, pc[w] \notin Before,
         NEW src, src.run = Run(w), DOMAIN src.features = call[w].ok, SourceFits(src),
         NEW step \in {"insert", "promote"}, Continue(w, step),
         call' = [call EXCEPT ![w].source = <<src>>],
         UNCHANGED <<sourceLock, losses, runs, batchItems, snapshots, requests, score, quota, held, batches>>
  PROVE  CollectionInv'
<1>0. PipelineTypes /\ QuotaInv /\ WorkerInv(w)
  BY DEF CollectionInv
<1>1. PICK b \in Batches, r \in Runs : b = Batch(w) /\ r = Run(w) /\ r[1] = b
  BY <1>0 DEF WorkerInv, Before, Run
<1> DEFINE c == [call[w] EXCEPT !.source = <<src>>]
<1>2. pc' = [pc EXCEPT ![w] = step] /\ CallBecomes(w, c)
  BY <1>0 DEF Continue, CallBecomes, PipelineTypes
<1>3. /\ DOMAIN c = DOMAIN Idle /\ c.batch = b /\ c.row = call[w].row /\ c.day = call[w].day
      /\ c.topN = call[w].topN /\ c.todo = call[w].todo /\ c.ok = call[w].ok /\ c.source[1] = src
  BY <1>0, <1>1 DEF PipelineTypes, Idle, Batch
<1> HIDE DEF c
<1>4. Kept
  BY NothingWritten DEF LossesKept, Alone
<1>5. WorkerInv(w)'
  <2>1. pc'[w] = step /\ call'[w] = c /\ Batch(w)' = b /\ Run(w)' = r /\ Source(w)' = src
    BY <1>0, <1>1, <1>2, <1>3 DEF PipelineTypes, CallBecomes, Batch, Run, Source
  <2>2. \A v \in c.ok : Succeeded(r, v)'
    BY <1>0, <1>1, <1>3, <1>4, SucceededKept DEF WorkerInv
  <2>3. SourceFits(src)'
    BY <1>4, SourceKept
  <2>4. SourceFits(Source(w))'
    BY <2>1, <2>3 DEF SourceFits, Succeeded, Alone
  <2>5. step \notin Before /\ step \notin AtItem /\ step # "visit" /\ step # "finish"
    BY DEF Before, AtItem
  <2>6. (pc[w] \notin Before => Run(w) \in Runs /\ \A v \in call[w].ok : Succeeded(Run(w), v))'
    BY <2>1, <2>2 DEF Succeeded, Alone
  <2>7. c.day \in Days /\ c.topN \in Nat /\ c.todo \subseteq VideosOf[b] /\ VideosOf[b] # {}
        /\ (losses[SourceOf[b]] = 0 => sourceLock[SourceOf[b]] = w)
    BY <1>0, <1>1, <1>3 DEF WorkerInv, Before
  <2> QED
    BY <1>1, <1>3, <2>1, <2>4, <2>5, <2>6, <2>7 DEF WorkerInv
<1>6. QuotaInv'
  BY <1>0, GateKept
<1>7. step \in Steps \ {"commit"} /\ sourceLock' \in [SourceRuns -> Workers \cup {NoWorker}]
      /\ DOMAIN runs' = Runs
  BY <1>0 DEF Steps, AtEnd, PipelineTypes
<1> QED
  BY <1>2, <1>3, <1>5, <1>6, <1>7, QuietStep

LEMMA EligibleInv ==
  ASSUME CollectionInv, NEW w \in Workers, MakeEligible(w) \/ InsertEligible(w)
  PROVE  CollectionInv'
<1>0. WorkerInv(w) /\ PipelineTypes
  BY DEF CollectionInv
<1>1. UNCHANGED <<sourceLock, losses, runs, batchItems, snapshots, requests, score, quota, held, batches>>
  BY DEF MakeEligible, InsertEligible, promotionVars, lockVars
<1>2. CASE MakeEligible(w)
  <2>1. pc[w] = "visit" /\ pc[w] \notin Before
    BY <1>2 DEF MakeEligible, Before
  <2>2. PICK r \in Runs : r = Run(w) /\ \A v \in call[w].ok : Succeeded(r, v)
    BY <1>0, <2>1 DEF WorkerInv
  <2>3. PICK features : features = FeaturesOf(w)
    OBVIOUS
  <2>4. PICK src : /\ src.run = r /\ src.features = features
                   /\ call' = [call EXCEPT ![w].source = <<src>>]
                   /\ \E step \in {"insert", "promote"} : Continue(w, step)
    <3> DEFINE e == [run |-> r, features |-> features, row |-> 0]
               o == [e EXCEPT !.row = Max({x.row : x \in Alike(e)})]
    <3>1. e.run = r /\ e.features = features /\ o.run = r /\ o.features = features
      OBVIOUS
    <3>2. \/ Continue(w, "insert") /\ call' = [call EXCEPT ![w].source = <<e>>]
          \/ Continue(w, "promote") /\ call' = [call EXCEPT ![w].source = <<o>>]
      BY <1>2, <2>2, <2>3 DEF MakeEligible
    <3> HIDE DEF e, o
    <3> QED
      BY <3>1, <3>2
  <2>5. /\ DOMAIN features = call[w].ok
        /\ \A v \in call[w].ok : /\ features[v] = batchItems[r][v].features
                                 /\ batchItems[r][v].features # {}
    BY <1>2, <2>2, <2>3 DEF FeaturesOf, MakeEligible
  <2>6. ASSUME NEW v \in call[w].ok PROVE <<v, features[v]>> \in snapshots
    <3>1. v \in VideosOf[r[1]]
      BY <2>2 DEF Succeeded
    <3>2. ItemInv(r, v)
      BY <3>1 DEF CollectionInv
    <3> QED
      BY <2>5, <3>2 DEF ItemInv, ItemFits, Stored
  <2>7. SourceFits(src)
    BY <2>2, <2>4, <2>5, <2>6 DEF SourceFits
  <2> QED
    BY <1>1, <2>1, <2>2, <2>4, <2>5, <2>7, SourceInv
<1>3. CASE InsertEligible(w)
  <2>1. pc[w] = "insert" /\ pc[w] \notin Before /\ pc[w] \in AtEnd
    BY <1>3 DEF InsertEligible, Before, AtEnd
  <2>2. PICK old : old = Source(w) /\ SourceFits(old) /\ old.run = Run(w) /\ DOMAIN old.features = call[w].ok
    BY <1>0, <2>1 DEF WorkerInv
  <2>3. PICK n \in Rows : Continue(w, "promote") /\ call' = [call EXCEPT ![w].source = <<[old EXCEPT !.row = n]>>]
    BY <1>3, <2>2 DEF InsertEligible
  <2>4. PICK src : src = [old EXCEPT !.row = n]
    OBVIOUS
  <2>5. src.run = old.run /\ src.features = old.features
    BY <2>4
  <2>6. SourceFits(src)
    BY <2>2, <2>5 DEF SourceFits
  <2> QED
    BY <1>1, <2>1, <2>2, <2>3, <2>4, <2>5, <2>6, SourceInv
<1> QED
  BY <1>2, <1>3

(* The ways a worker ends: with the status of its run, or with none.       *)
LEMMA ReleaseInv ==
  ASSUME CollectionInv, NEW w \in Workers, Release(w), DOMAIN runs' = Runs,
         \A r \in Runs : runs'[r] = "success" => runs[r] = "success" \/ Whole(r),
         held' = held \/ (pc[w] = "commit" /\ held' = held \ {QuotaRow(w)}),
         UNCHANGED <<batchItems, snapshots, requests, score, quota, batches>>
  PROVE  CollectionInv'
<1>0. PipelineTypes /\ QuotaInv
  BY DEF CollectionInv
<1>1. pc' = [pc EXCEPT ![w] = "idle"] /\ CallBecomes(w, Idle) /\ losses' = losses
  BY <1>0 DEF Release, Continue, CallBecomes, PipelineTypes
<1>2. /\ sourceLock' \in [SourceRuns -> Workers \cup {NoWorker}]
      /\ \A s \in SourceRuns : sourceLock[s] \in Workers \ {w} => sourceLock'[s] = sourceLock[s]
  BY <1>0 DEF PipelineTypes, Release
<1>3. WorkerInv(w)'
  <2>1. pc'[w] = "idle" /\ call'[w] = Idle
    BY <1>0, <1>1 DEF PipelineTypes, CallBecomes
  <2>2. Idle.read = {} /\ Idle.ok = {}
    BY DEF Idle
  <2> QED
    BY <2>1, <2>2 DEF WorkerInv, AtItem, AtEnd, Before
<1>4. QuotaInv'
  BY <1>0, GateKept
<1>5. "idle" \in Steps \ {"commit"}
  BY DEF Steps, Before
<1> QED
  BY <1>1, <1>2, <1>3, <1>4, <1>5, QuietStep

LEMMA EndingsInv ==
  ASSUME CollectionInv, NEW w \in Workers, FinishBatch(w) \/ Raise(w) \/ Crash(w)
  PROVE  CollectionInv'
<1>0. PipelineTypes /\ WorkerInv(w) /\ PlanInv(w)
  BY DEF CollectionInv
<1>1. ASSUME FinishBatch(w) PROVE CollectionInv'
  <2>1. PICK r \in Runs : r = Run(w) /\ r[1] = Batch(w) /\ VideosOf[r[1]] # {}
    BY <1>0, <1>1 DEF WorkerInv, FinishBatch, Before, Run
  <2>2. /\ runs' = [runs EXCEPT ![r] = StatusOf(w)] /\ Release(w)
        /\ pc[w] = "finish" \/ call[w].ok = {}
        /\ UNCHANGED <<batchItems, snapshots, requests, score, quota, held, batches>>
    BY <1>1, <2>1 DEF FinishBatch, promotionVars
  <2>3. StatusOf(w) = "success" => Whole(r)
    <3> SUFFICES ASSUME StatusOf(w) = "success" PROVE Whole(r)
      OBVIOUS
    <3>1. call[w].ok = VideosOf[r[1]] /\ pc[w] = "finish"
      BY <2>1, <2>2 DEF StatusOf
    <3>2. /\ \A v \in VideosOf[r[1]] : Succeeded(r, v)
          /\ Source(w).run = r /\ DOMAIN Source(w).features = VideosOf[r[1]]
          /\ \E p \in batches : p.source = Source(w)
      BY <1>0, <2>1, <3>1 DEF WorkerInv, AtEnd, Before
    <3> QED
      BY <3>2 DEF Whole, Succeeded
  <2>4. DOMAIN runs' = Runs
        /\ \A e \in Runs : runs'[e] = "success" => runs[e] = "success" \/ Whole(e)
    BY <1>0, <2>1, <2>2, <2>3 DEF PipelineTypes
  <2> QED
    BY <2>2, <2>4, ReleaseInv
<1>2. ASSUME Raise(w) \/ Crash(w) PROVE CollectionInv'
  <2>1. /\ Release(w) /\ UNCHANGED <<batchItems, snapshots, requests, score, quota, batches>>
        /\ held' = IF pc[w] = "commit" THEN held \ {<<call[w].day, KeyOf[Batch(w)]>>} ELSE held
    BY <1>2 DEF Raise, Crash
  <2>2. pc[w] = "commit" => QuotaRow(w) = <<call[w].day, KeyOf[Batch(w)]>>
    BY <1>0 DEF PlanInv, QuotaRow
  <2>3. DOMAIN runs' = Runs
        /\ \A r \in Runs : runs'[r] = "success" => runs[r] = "success"
    BY <1>0, <1>2 DEF PipelineTypes, Raise, Crash
  <2>4. held' = held \/ (pc[w] = "commit" /\ held' = held \ {QuotaRow(w)})
    BY <2>1, <2>2
  <2> QED
    BY <2>1, <2>3, <2>4, ReleaseInv
<1> QED
  BY <1>1, <1>2

LEMMA PlanPromotionInv ==
  ASSUME CollectionInv, NEW w \in Workers, PlanPromotion(w)
  PROVE  CollectionInv'
<1>0. PipelineTypes /\ QuotaInv /\ WorkerInv(w) /\ pc[w] = "promote"
  BY DEF CollectionInv, PlanPromotion
<1>1. PICK b \in Batches, r \in Runs : b = Batch(w) /\ r = Run(w) /\ r[1] = b
  BY <1>0 DEF WorkerInv, Before, Run
<1>2. PICK d \in Days, k \in Keys : d = call[w].day /\ k = KeyOf[b]
  BY <1>0, <1>1, BatchAssumption DEF WorkerInv
<1>3. PICK src : src = Source(w)
  OBVIOUS
<1>4. src.run = r /\ SourceFits(src) /\ DOMAIN src.features = call[w].ok
  BY <1>0, <1>1, <1>3 DEF WorkerInv, AtEnd
<1> DEFINE C == Candidates(DOMAIN src.features, d)
           plan == BatchOf(src, d, k, call[w].topN, MinScore, C)
<1>5. /\ quota[d][k] # NoQuota /\ <<d, k>> \notin held
      /\ IF Replayed(src, d, k, call[w].topN, MinScore, C) # {}
           THEN Continue(w, "finish") /\ UNCHANGED <<call, held>>
           ELSE /\ LockQuota(d, k)
                /\ call' = [call EXCEPT ![w].plan = <<plan>>]
                /\ Continue(w, "commit")
      /\ UNCHANGED <<sourceLock, losses, runs, batchItems, snapshots, requests, score, quota, batches>>
  BY <1>1, <1>2, <1>3 DEF PlanPromotion, lockVars
<1>6. Kept
  BY <1>5, NothingWritten DEF LossesKept, Alone
<1>7. SourceFits(src)' /\ \A v \in call[w].ok : Succeeded(r, v)'
  <2>1. \A v \in call[w].ok : Succeeded(r, v)
    BY <1>0, <1>1 DEF WorkerInv, Before
  <2> QED
    BY <1>4, <1>6, <2>1, SourceKept, SucceededKept
<1>8. CASE Replayed(src, d, k, call[w].topN, MinScore, C) # {}
  <2>1. pc' = [pc EXCEPT ![w] = "finish"] /\ UNCHANGED <<call, held>>
    BY <1>5, <1>8 DEF Continue
  <2>2. PICK p \in batches : p.source = src
    BY <1>8 DEF Replayed
  <2>3. CallBecomes(w, call[w]) /\ DOMAIN call[w] = DOMAIN Idle
    BY <1>0, <2>1 DEF CallBecomes, PipelineTypes
  <2>4. WorkerInv(w)'
    <3>1. pc'[w] = "finish" /\ Batch(w)' = b /\ Run(w)' = r /\ Source(w)' = src /\ call' = call
      BY <1>0, <1>1, <1>3, <2>1 DEF PipelineTypes, Batch, Run, Source
    <3>2. SourceFits(Source(w))'
      BY <1>7, <3>1 DEF SourceFits, Succeeded, Alone
    <3>3. (pc[w] \notin Before => Run(w) \in Runs /\ \A v \in call[w].ok : Succeeded(Run(w), v))'
      BY <1>7, <3>1 DEF Succeeded, Alone
    <3>4. b \in Batches /\ call[w].day \in Days /\ call[w].topN \in Nat /\ call[w].todo \subseteq VideosOf[b]
          /\ VideosOf[b] # {} /\ (losses[SourceOf[b]] = 0 => sourceLock[SourceOf[b]] = w)
      BY <1>0, <1>1 DEF WorkerInv
    <3>5. \E q \in batches' : q.source = Source(w)'
      BY <1>5, <2>2, <3>1
    <3>6. "finish" \notin Before /\ "finish" \notin AtItem /\ "finish" # "visit"
      BY DEF Before, AtItem
    <3> QED
      BY <1>4, <1>5, <3>1, <3>2, <3>3, <3>4, <3>5, <3>6 DEF WorkerInv
  <2>5. QuotaInv'
    BY <1>0, <1>5, GateKept
  <2>6. "finish" \in Steps \ {"commit"} /\ DOMAIN runs' = Runs
        /\ sourceLock' \in [SourceRuns -> Workers \cup {NoWorker}]
    BY <1>0, <1>5 DEF Steps, AtEnd, PipelineTypes
  <2>7. /\ UNCHANGED <<batchItems, requests, snapshots, batches, score, losses>>
        /\ \A s \in SourceRuns : sourceLock[s] \in Workers \ {w} => sourceLock'[s] = sourceLock[s]
        /\ \A e \in Runs : runs'[e] = "success" => runs[e] = "success" \/ Whole(e)
        /\ \A e \in Days, l \in Keys : quota[e][l] # NoQuota => quota'[e][l] = quota[e][l]
    BY <1>5
  <2> QED
    BY <2>1, <2>3, <2>4, <2>5, <2>6, <2>7, QuietStep
<1>9. CASE Replayed(src, d, k, call[w].topN, MinScore, C) = {}
  <2>1. PICK p : p = plan
    OBVIOUS
  <2>2. /\ p.source = src /\ p.day = d /\ p.key = k /\ p.topN = call[w].topN /\ p.min = MinScore
        /\ p.candidates = Fingerprint(C)
        /\ p.selected = Decide(C, call[w].topN, MinScore, Remaining(d, k))
    BY <2>1 DEF BatchOf
  <2> DEFINE c == [call[w] EXCEPT !.plan = <<p>>]
  <2>3. /\ pc' = [pc EXCEPT ![w] = "commit"] /\ CallBecomes(w, c) /\ held' = held \cup {<<d, k>>}
    <3> HIDE DEF C
    <3> QED
      BY <1>0, <1>5, <1>9, <2>1 DEF Continue, LockQuota, CallBecomes, PipelineTypes
  <2>4. /\ DOMAIN c = DOMAIN Idle /\ c.batch = b /\ c.row = call[w].row /\ c.day = d
        /\ c.topN = call[w].topN /\ c.todo = call[w].todo /\ c.ok = call[w].ok
        /\ c.source = call[w].source /\ c.plan[1] = p
    BY <1>0, <1>1, <1>2 DEF PipelineTypes, Idle, Batch
  <2> HIDE DEF c
  <2>5. p \notin batches
    <3> HIDE DEF C
    <3> QED
      BY <1>9, <2>2 DEF Replayed
  <2>6. quota[d][k] \in QuotaRows /\ Remaining(d, k) \in Nat
        /\ quota[d][k].used + Remaining(d, k) = quota[d][k].max
    BY <1>0, <1>5 DEF QuotaInv, QuotaRows, Remaining
  <2>7. p.selected \subseteq DOMAIN src.features /\ Cardinality(p.selected) <= Remaining(d, k)
    <3>1. DOMAIN C = DOMAIN src.features /\ DOMAIN src.features \subseteq SourceVideos
      BY <1>4, SourcesAre, BatchAssumption DEF Candidates, SourceFits, Succeeded
    <3>2. Scored(C)
      BY <1>0, <3>1 DEF Scored, Candidates, PipelineTypes
    <3>3. DOMAIN C \subseteq Nat /\ IsFiniteSet(DOMAIN C)
      BY <3>1, VideoAssumption, FS_Subset
    <3>4. call[w].topN \in Nat
      BY <1>0 DEF WorkerInv
    <3> DEFINE D == Decide(C, call[w].topN, MinScore, Remaining(d, k))
    <3>5. p.selected = D
      BY <2>2
    <3> HIDE DEF C
    <3>6. D \subseteq DOMAIN C /\ Cardinality(D) <= Remaining(d, k)
      BY <2>6, <3>2, <3>3, <3>4, DecideFits
    <3> HIDE DEF D
    <3> QED
      BY <3>1, <3>5, <3>6
  <2>8. Cardinality(p.selected) \in Nat
    <3>1. IsFiniteSet(p.selected)
      BY <1>4, <2>7, SourcesAre, BatchAssumption, VideoAssumption, FS_Subset DEF SourceFits, Succeeded
    <3> QED
      BY <3>1, FS_CardinalityType
  <2>9. /\ pc'[w] = "commit" /\ call'[w] = c /\ Batch(w)' = b /\ Run(w)' = r /\ Source(w)' = src
        /\ PlanOf(w)' = p /\ QuotaRow(w)' = <<d, k>>
        /\ \A z \in Workers \ {w} : pc'[z] = pc[z] /\ call'[z] = call[z]
    BY <1>0, <1>1, <1>3, <2>2, <2>3, <2>4 DEF PipelineTypes, CallBecomes, Batch, Run, Source, PlanOf, QuotaRow
  <2>10. PipelineTypes'
    BY <1>0, <1>5, <2>3, <2>4, <2>9 DEF PipelineTypes, CallBecomes, Steps, AtEnd
  <2>11. WorkerInv(w)'
    <3>1. SourceFits(Source(w))'
      BY <1>7, <2>9 DEF SourceFits, Succeeded, Alone
    <3>2. (pc[w] \notin Before => Run(w) \in Runs /\ \A v \in call[w].ok : Succeeded(Run(w), v))'
      BY <1>7, <2>4, <2>9 DEF Succeeded, Alone
    <3>3. c.day \in Days /\ c.topN \in Nat /\ c.todo \subseteq VideosOf[b]
          /\ VideosOf[b] # {} /\ (losses'[SourceOf[b]] = 0 => sourceLock'[SourceOf[b]] = w)
      BY <1>0, <1>1, <1>5, <2>4 DEF WorkerInv
    <3>4. "commit" \notin Before /\ "commit" \notin AtItem /\ "commit" # "visit" /\ "commit" # "finish"
      BY DEF Before, AtItem
    <3> QED
      BY <1>4, <2>4, <2>9, <3>1, <3>2, <3>3, <3>4 DEF WorkerInv
  <2>12. PlanInv(w)'
    <3>1. quota[d][k].used + Cardinality(p.selected) <= quota[d][k].max
      BY <2>6, <2>7, <2>8 DEF QuotaRows
    <3>2. quota' = quota /\ batches' = batches /\ call'[w].day = d
      BY <1>5, <2>4, <2>9
    <3> QED
      BY <1>2, <1>5, <2>2, <2>3, <2>5, <2>7, <2>9, <3>1, <3>2 DEF PlanInv
  <2>13. ASSUME NEW z \in Workers, z # w PROVE WorkerInv(z)' /\ PlanInv(z)' /\ QuotaRow(z)' = QuotaRow(z)
    <3>1. pc'[z] = pc[z] /\ call'[z] = call[z] /\ WorkerInv(z) /\ PlanInv(z)
      BY <2>9, <2>13 DEF CollectionInv
    <3>2. WorkerInv(z)'
      BY <1>5, <1>6, <3>1, OtherWorker
    <3>3. PlanInv(z)'
      BY <1>5, <2>3, <3>1, OtherPlan DEF PlanInv
    <3> QED
      BY <3>1, <3>2, <3>3 DEF QuotaRow, PlanOf
  <2>14. ASSUME NEW p2 \in batches' PROVE StoredInv(p2)'
    BY <1>5, <1>6, <2>14, StoredKept DEF CollectionInv, StoredInv
  <2>15. \A e \in Runs : runs'[e] = "success" => Whole(e)'
    BY <1>5, <1>6, WholeKept DEF CollectionInv
  <2>16. \A e \in Runs : \A v \in VideosOf[e[1]] : ItemInv(e, v)'
    BY <1>5 DEF CollectionInv, ItemInv, ItemFits, Stored, Alone
  <2>17. QuotaInv'
    BY <1>0, <1>5, GateKept
  <2>18. ASSUME NEW y \in Workers, NEW z \in Workers PROVE Separate(y, z)'
    <3>1. Separate(y, z) /\ PlanInv(y) /\ PlanInv(z)
      BY DEF CollectionInv
    <3> QED
      BY <1>5, <2>9, <2>13, <3>1 DEF Separate, PlanInv
  <2> QED
    BY <2>10, <2>11, <2>12, <2>13, <2>14, <2>15, <2>16, <2>17, <2>18 DEF CollectionInv
<1> QED
  BY <1>8, <1>9

LEMMA PromoteInv ==
  ASSUME CollectionInv, NEW w \in Workers, Promote(w)
  PROVE  CollectionInv'
<1>0. PipelineTypes /\ QuotaInv /\ WorkerInv(w) /\ PlanInv(w) /\ pc[w] = "commit"
  BY DEF CollectionInv, Promote
<1>1. PICK b \in Batches, r \in Runs : b = Batch(w) /\ r = Run(w) /\ r[1] = b
  BY <1>0 DEF WorkerInv, Before, Run
<1>2. PICK p : p = PlanOf(w)
  OBVIOUS
<1>3. PICK d \in Days, k \in Keys : d = p.day /\ k = p.key /\ <<d, k>> = QuotaRow(w)
  BY <1>0, <1>1, <1>2, BatchAssumption DEF PlanInv, WorkerInv, QuotaRow
<1>4. /\ p \notin batches /\ p.source = Source(w) /\ p.selected \subseteq DOMAIN p.source.features
      /\ SourceFits(p.source) /\ p.source.run = r
      /\ quota[d][k] # NoQuota /\ quota[d][k].used + Cardinality(p.selected) <= quota[d][k].max
  BY <1>0, <1>1, <1>2, <1>3 DEF PlanInv, WorkerInv, AtEnd
<1>5. /\ \A q \in batches : q.day = d => q.selected \cap p.selected = {}
      /\ batches' = batches \cup {p}
      /\ quota' = [quota EXCEPT ![d][k].used = @ + Cardinality(p.selected)]
      /\ held' = held \ {<<d, k>>}
      /\ pc' = [pc EXCEPT ![w] = "finish"]
      /\ UNCHANGED <<sourceLock, losses, call, runs, batchItems, snapshots, requests, score>>
  BY <1>2, <1>3 DEF Promote, CommitBatch, Insertable, Continue, PlanOf, lockVars
<1>6. quota[d][k] \in QuotaRows /\ Cardinality(p.selected) \in Nat
  <2>1. IsFiniteSet(p.selected)
    BY <1>4, SourcesAre, BatchAssumption, VideoAssumption, FS_Subset DEF SourceFits, Succeeded
  <2> QED
    BY <1>0, <1>4, <2>1, FS_CardinalityType DEF QuotaInv
<1>7. PICK row \in QuotaRows :
        row.max = quota[d][k].max /\ row.used = quota[d][k].used + Cardinality(p.selected)
        /\ quota' = [quota EXCEPT ![d][k] = row]
  <2>1. [quota[d][k] EXCEPT !.used = @ + Cardinality(p.selected)] \in QuotaRows
    BY <1>6 DEF QuotaRows
  <2>2. quota' = [quota EXCEPT ![d][k] = [quota[d][k] EXCEPT !.used = @ + Cardinality(p.selected)]]
    BY <1>5
  <2>3. /\ [quota[d][k] EXCEPT !.used = @ + Cardinality(p.selected)].max = quota[d][k].max
        /\ [quota[d][k] EXCEPT !.used = @ + Cardinality(p.selected)].used
             = quota[d][k].used + Cardinality(p.selected)
    BY <1>6 DEF QuotaRows
  <2> QED
    BY <2>1, <2>2, <2>3
<1>8. /\ quota' \in [Days -> [Keys -> QuotaRows \cup {NoQuota}]]
      /\ quota'[d][k] = row /\ row # NoQuota
      /\ \A e \in Days, l \in Keys : ~(e = d /\ l = k) => quota'[e][l] = quota[e][l]
  BY <1>0, <1>7, QuotaAssumption DEF QuotaInv
<1>9. QuotaInv'
  <2>1. IsFiniteSet(batches')
    BY <1>0, <1>5, FS_AddElement DEF QuotaInv
  <2>2. \A q, o \in batches' : q # o /\ q.day = o.day => q.selected \cap o.selected = {}
    BY <1>0, <1>3, <1>5 DEF QuotaInv
  <2>3. ASSUME NEW q \in batches' PROVE SelectedSizes'[q] \in Int /\ (q \in batches => SelectedSizes'[q] = SelectedSizes[q])
    <3>1. SelectedSizes'[q] = Cardinality(q.selected)
      BY <2>3 DEF SelectedSizes
    <3>2. q \in batches => SelectedSizes[q] = Cardinality(q.selected)
      BY DEF SelectedSizes
    <3>3. q \in batches => IsFiniteSet(q.selected)
      BY SourcesAre, BatchAssumption, VideoAssumption, FS_Subset
         DEF CollectionInv, StoredInv, SourceFits, Succeeded
    <3> QED
      BY <1>5, <1>6, <2>3, <3>1, <3>2, <3>3, FS_CardinalityType
  <2>4. ASSUME NEW e \in Days, NEW l \in Keys, quota'[e][l] # NoQuota
        PROVE  /\ quota'[e][l].used <= quota'[e][l].max
               /\ quota'[e][l].used = SumFunctionOnSet(SelectedSizes', UsedBy(e, l)')
    <3> DEFINE U == UsedBy(e, l)
    <3>1. U \subseteq batches /\ IsFiniteSet(U)
      BY <1>0, FS_Subset DEF UsedBy, QuotaInv
    <3>2. SumFunctionOnSet(SelectedSizes', U) = SumFunctionOnSet(SelectedSizes, U)
      <4>1. \A q \in U : SelectedSizes'[q] = SelectedSizes[q]
        BY <1>5, <2>3, <3>1
      <4> HIDE DEF U
      <4> QED
        BY <3>1, <4>1, SumSame
    <3>3. CASE ~(e = d /\ l = k)
      <4>1. UsedBy(e, l)' = U
        BY <1>3, <1>5, <3>3 DEF UsedBy
      <4> QED
        BY <1>0, <1>8, <2>4, <3>2, <3>3, <4>1 DEF QuotaInv
    <3>4. CASE e = d /\ l = k
      <4>1. UsedBy(e, l)' = U \cup {p} /\ p \notin U
        BY <1>3, <1>4, <1>5, <3>4 DEF UsedBy
      <4>2. \A q \in U \cup {p} : SelectedSizes'[q] \in Int
        BY <1>5, <2>3, <3>1
      <4>3. SelectedSizes'[p] = Cardinality(p.selected)
        BY <1>5 DEF SelectedSizes
      <4>4. SumFunctionOnSet(SelectedSizes', U \cup {p}) = SumFunctionOnSet(SelectedSizes', U) + SelectedSizes'[p]
        <5> HIDE DEF U
        <5> QED
          BY <3>1, <4>1, <4>2, SumAdd
      <4>5. quota[d][k].used = SumFunctionOnSet(SelectedSizes, U)
        BY <1>0, <1>4, <3>4 DEF QuotaInv
      <4>6. quota'[e][l].used <= quota'[e][l].max
        BY <1>4, <1>6, <1>7, <1>8, <3>4 DEF QuotaRows
      <4> HIDE DEF U
      <4> QED
        BY <1>7, <1>8, <3>2, <3>4, <4>1, <4>3, <4>4, <4>5, <4>6
    <3> QED
      BY <3>3, <3>4
  <2> QED
    BY <1>8, <2>1, <2>2, <2>4 DEF QuotaInv
<1>10. PipelineTypes'
  BY <1>0, <1>5 DEF PipelineTypes, Steps, AtEnd
<1>11. pc'[w] = "finish" /\ \A z \in Workers \ {w} : pc'[z] = pc[z]
  BY <1>0, <1>5 DEF PipelineTypes
<1>12. Kept /\ batches \subseteq batches'
  BY <1>5, NothingWritten DEF LossesKept, Alone
<1>13. WorkerInv(w)'
  <2>1. Batch(w)' = b /\ Run(w)' = r /\ Source(w)' = p.source /\ Source(w) = p.source
    BY <1>1, <1>4, <1>5 DEF Batch, Run, Source
  <2>2. SourceFits(p.source)' /\ \A v \in call[w].ok : Succeeded(r, v)'
    <3>1. \A v \in call[w].ok : Succeeded(r, v)
      BY <1>0, <1>1 DEF WorkerInv, Before
    <3> QED
      BY <1>4, <1>12, <3>1, SourceKept, SucceededKept
  <2>3. SourceFits(Source(w))'
    BY <2>1, <2>2 DEF SourceFits, Succeeded, Alone
  <2>4. (pc[w] \notin Before => Run(w) \in Runs /\ \A v \in call[w].ok : Succeeded(Run(w), v))'
    BY <1>5, <2>1, <2>2 DEF Succeeded, Alone
  <2>5. b \in Batches /\ call[w].day \in Days /\ call[w].topN \in Nat /\ call[w].todo \subseteq VideosOf[b]
        /\ VideosOf[b] # {} /\ (losses[SourceOf[b]] = 0 => sourceLock[SourceOf[b]] = w)
    BY <1>0, <1>1 DEF WorkerInv
  <2>6. p.source.run = r /\ DOMAIN p.source.features = call[w].ok
    BY <1>0, <1>4, <2>1 DEF WorkerInv, AtEnd
  <2>7. "finish" \notin Before /\ "finish" \notin AtItem /\ "finish" # "visit"
    BY DEF Before, AtItem
  <2> QED
    BY <1>5, <1>11, <2>1, <2>3, <2>4, <2>5, <2>6, <2>7 DEF WorkerInv
<1>14. ASSUME NEW z \in Workers, z # w PROVE WorkerInv(z)' /\ PlanInv(z)'
  <2>1. pc'[z] = pc[z] /\ call'[z] = call[z] /\ WorkerInv(z) /\ PlanInv(z) /\ Separate(w, z)
    BY <1>5, <1>11, <1>14 DEF CollectionInv
  <2>2. WorkerInv(z)'
    BY <1>5, <1>12, <2>1, OtherWorker
  <2>3. ASSUME pc[z] = "commit"
        PROVE  /\ QuotaRow(z) \in held' /\ PlanOf(z) \notin batches'
               /\ quota'[PlanOf(z).day][PlanOf(z).key] = quota[PlanOf(z).day][PlanOf(z).key]
    <3>1. QuotaRow(z) # <<d, k>> /\ QuotaRow(z) = <<PlanOf(z).day, PlanOf(z).key>>
      BY <1>0, <1>3, <1>14, <2>1, <2>3 DEF Separate, QuotaRow
    <3>2. PlanOf(z).day \in Days /\ PlanOf(z).key \in Keys /\ PlanOf(z) # p
      BY <1>3, <2>1, <2>3, <3>1, BatchAssumption DEF PlanInv, WorkerInv
    <3> QED
      BY <1>5, <1>8, <2>1, <2>3, <3>1, <3>2 DEF PlanInv
  <2>4. PlanInv(z)'
    BY <2>1, <2>3, OtherPlan
  <2> QED
    BY <2>2, <2>4
<1>15. ASSUME NEW q \in batches' PROVE StoredInv(q)'
  <2>1. CASE q = p
    <3>1. SourceFits(p.source)'
      BY <1>4, <1>12, SourceKept
    <3>2. SourceFits(q.source)'
      BY <2>1, <3>1
    <3> QED
      BY <1>3, <1>4, <1>8, <2>1, <3>2 DEF StoredInv
  <2>2. CASE q \in batches
    <3>1. StoredInv(q)
      BY <2>2 DEF CollectionInv
    <3>2. quota'[q.day][q.key] # NoQuota
      BY <1>8, <3>1 DEF StoredInv
    <3> QED
      BY <1>12, <3>1, <3>2, StoredKept
  <2> QED
    BY <1>5, <2>1, <2>2
<1>16. \A e \in Runs : runs'[e] = "success" => Whole(e)'
  BY <1>5, <1>12, WholeKept DEF CollectionInv
<1>17. \A e \in Runs : \A v \in VideosOf[e[1]] : ItemInv(e, v)'
  BY <1>5 DEF CollectionInv, ItemInv, ItemFits, Stored, Alone
<1>18. ASSUME NEW y \in Workers, NEW z \in Workers PROVE Separate(y, z)'
  BY <1>5, <1>11 DEF CollectionInv, Separate, QuotaRow, PlanOf
<1>19. PlanInv(w)'
  BY <1>11 DEF PlanInv
<1> QED
  BY <1>9, <1>10, <1>13, <1>14, <1>15, <1>16, <1>17, <1>18, <1>19 DEF CollectionInv

(* Steps of nobody's batch, or of a session that drops.                    *)
LEMMA OutsideStep ==
  ASSUME CollectionInv, UNCHANGED <<pc, call, runs, batchItems, requests, snapshots, batches, held>>,
         sourceLock' \in [SourceRuns -> Workers \cup {NoWorker}], losses' \in [SourceRuns -> Nat],
         \A s \in SourceRuns : losses'[s] = 0 => losses[s] = 0 /\ sourceLock'[s] = sourceLock[s],
         score' \in [SourceVideos -> Nat \cup {NoScore}], QuotaInv',
         \A d \in Days, k \in Keys : quota[d][k] # NoQuota =>
           quota'[d][k] # NoQuota /\ (<<d, k>> \in held => quota'[d][k] = quota[d][k])
  PROVE  CollectionInv'
<1>1. PipelineTypes'
  BY DEF CollectionInv, PipelineTypes
<1>2. \A r \in Runs : Alone(r)' => Alone(r)
  BY SourcesAre DEF Alone
<1>3. Kept
  BY <1>2, NothingWritten DEF LossesKept
<1>4. \A r \in Runs : \A v \in VideosOf[r[1]] : ItemInv(r, v)'
  BY <1>2 DEF CollectionInv, ItemInv, ItemFits, Stored
<1>5. ASSUME NEW z \in Workers PROVE WorkerInv(z)' /\ PlanInv(z)'
  <2>1. WorkerInv(z) /\ PlanInv(z)
    BY DEF CollectionInv
  <2>2. pc[z] \notin {"idle", "lock"} => SourceOf[Batch(z)] \in SourceRuns
    BY <2>1 DEF WorkerInv, SourceRuns
  <2>3. WorkerInv(z)'
    BY <1>3, <2>2, OtherWorker
  <2>4. ASSUME pc[z] = "commit"
        PROVE  /\ QuotaRow(z) \in held' /\ PlanOf(z) \notin batches'
               /\ quota'[PlanOf(z).day][PlanOf(z).key] = quota[PlanOf(z).day][PlanOf(z).key]
    BY <2>1, <2>4, BatchAssumption DEF PlanInv, WorkerInv, QuotaRow
  <2> QED
    BY <2>1, <2>3, <2>4, OtherPlan
<1>6. ASSUME NEW p \in batches' PROVE StoredInv(p)'
  BY <1>3, <1>6, StoredKept DEF CollectionInv, StoredInv
<1>7. \A r \in Runs : runs'[r] = "success" => Whole(r)'
  BY <1>3, WholeKept DEF CollectionInv
<1>8. \A y, z \in Workers : Separate(y, z)'
  BY DEF CollectionInv, Separate, QuotaRow, PlanOf
<1> QED
  BY <1>1, <1>4, <1>5, <1>6, <1>7, <1>8 DEF CollectionInv

LEMMA OutsideInv ==
  ASSUME CollectionInv, Outside
  PROVE  CollectionInv'
<1>0. /\ PipelineTypes /\ QuotaInv
      /\ sourceLock \in [SourceRuns -> Workers \cup {NoWorker}] /\ losses \in [SourceRuns -> Nat]
  BY DEF CollectionInv, PipelineTypes
<1>1. ASSUME NEW d \in Days, NEW k \in Keys, NEW m \in QuotaSizes,
             ConfigureQuota(d, k, m), UNCHANGED pipelineVars
      PROVE  CollectionInv'
  <2>1. /\ <<d, k>> \notin held /\ (quota[d][k] # NoQuota => quota[d][k].used <= m)
        /\ UNCHANGED <<sourceLock, losses, pc, call, runs, batchItems, requests, snapshots, batches, held, score>>
    BY <1>1 DEF ConfigureQuota, pipelineVars, lockVars
  <2>2. m \in Nat /\ (quota[d][k] # NoQuota => quota[d][k] \in QuotaRows)
    BY <1>0, QuotaAssumption DEF QuotaInv
  <2>3. PICK used \in Nat : used = IF quota[d][k] = NoQuota THEN 0 ELSE quota[d][k].used
    BY <2>2 DEF QuotaRows
  <2>4. PICK row \in QuotaRows : row = [max |-> m, used |-> used] /\ row.max = m /\ row.used = used
    <3>1. [max |-> m, used |-> used] \in QuotaRows
      BY <2>2 DEF QuotaRows
    <3> QED
      BY <3>1
  <2>5. quota' = [quota EXCEPT ![d][k] = row]
    BY <1>1, <2>3, <2>4 DEF ConfigureQuota
  <2>6. /\ quota' \in [Days -> [Keys -> QuotaRows \cup {NoQuota}]] /\ quota'[d][k] = row
        /\ \A e \in Days, l \in Keys : ~(e = d /\ l = k) => quota'[e][l] = quota[e][l]
    BY <1>0, <2>5 DEF QuotaInv
  <2>7. SelectedSizes' = SelectedSizes /\ \A e, l : UsedBy(e, l)' = UsedBy(e, l)
    BY <2>1 DEF SelectedSizes, UsedBy
  <2>8. quota[d][k] = NoQuota => UsedBy(d, k) = {}
    BY DEF CollectionInv, StoredInv, UsedBy
  <2>9. row.used <= row.max /\ row.used = SumFunctionOnSet(SelectedSizes, UsedBy(d, k))
    <3>1. CASE quota[d][k] = NoQuota
      BY <2>2, <2>3, <2>4, <2>8, <3>1, SumOfNone
    <3>2. CASE quota[d][k] # NoQuota
      BY <1>0, <2>1, <2>3, <2>4, <3>2 DEF QuotaInv
    <3> QED
      BY <3>1, <3>2
  <2>10. QuotaInv'
    <3>1. ASSUME NEW e \in Days, NEW l \in Keys, quota'[e][l] # NoQuota
          PROVE  /\ quota'[e][l].used <= quota'[e][l].max
                 /\ quota'[e][l].used = SumFunctionOnSet(SelectedSizes, UsedBy(e, l))
      <4>1. CASE e = d /\ l = k
        BY <2>6, <2>9, <4>1
      <4>2. CASE ~(e = d /\ l = k)
        BY <1>0, <2>6, <3>1, <4>2 DEF QuotaInv
      <4> QED
        BY <4>1, <4>2
    <3> QED
      BY <1>0, <2>1, <2>6, <2>7, <3>1 DEF QuotaInv
  <2>11. \A e \in Days, l \in Keys : quota[e][l] # NoQuota =>
           quota'[e][l] # NoQuota /\ (<<e, l>> \in held => quota'[e][l] = quota[e][l])
    BY <2>1, <2>6, QuotaAssumption
  <2>12. score' \in [SourceVideos -> Nat \cup {NoScore}]
    BY <1>0, <2>1 DEF PipelineTypes
  <2> QED
    BY <1>0, <2>1, <2>10, <2>11, <2>12, OutsideStep
<1>2. ASSUME NEW v \in SourceVideos, NEW s \in Scores, Rescore(v, s), UNCHANGED pipelineVars
      PROVE  CollectionInv'
  <2>1. /\ UNCHANGED <<sourceLock, losses, pc, call, runs, batchItems, requests, snapshots, batches, held, quota>>
        /\ score' = [score EXCEPT ![v] = s]
    BY <1>2 DEF Rescore, pipelineVars, lockVars
  <2>2. score' \in [SourceVideos -> Nat \cup {NoScore}]
    BY <1>0, <2>1, ScoreAssumption DEF PipelineTypes
  <2>3. QuotaInv'
    BY <1>0, <2>1, GateKept
  <2> QED
    BY <1>0, <2>1, <2>2, <2>3, OutsideStep
<1>3. ASSUME NEW v \in SourceVideos, NEW page \in Responses, CollectManually(v, page)
      PROVE  CollectionInv'
  <2>1. UNCHANGED <<sourceLock, losses, pc, call, runs, batchItems, requests, snapshots, batches, held, quota, score>>
    BY <1>3 DEF CollectManually, promotionVars, lockVars
  <2>2. score' \in [SourceVideos -> Nat \cup {NoScore}]
    BY <1>0, <2>1 DEF PipelineTypes
  <2>3. QuotaInv'
    BY <1>0, <2>1, GateKept
  <2> QED
    BY <1>0, <2>1, <2>2, <2>3, OutsideStep
<1> QED
  BY <1>1, <1>2, <1>3 DEF Outside

LEMMA LoseLockInv ==
  ASSUME CollectionInv, NEW w \in Workers, LoseLock(w)
  PROVE  CollectionInv'
<1>0. PipelineTypes /\ QuotaInv /\ WorkerInv(w)
  BY DEF CollectionInv
<1>1. PICK s \in SourceRuns : s = SourceOf[Batch(w)]
  BY <1>0 DEF LoseLock, WorkerInv, SourceRuns
<1>2. /\ sourceLock' = [sourceLock EXCEPT ![s] = NoWorker] /\ losses' = [losses EXCEPT ![s] = @ + 1]
      /\ UNCHANGED <<pc, call, runs, batchItems, requests, snapshots, batches, held, quota, score>>
  BY <1>1 DEF LoseLock, promotionVars
<1>3. losses[s] \in Nat /\ losses[s] + 1 \in Nat /\ losses[s] + 1 # 0
  BY <1>0 DEF PipelineTypes
<1>4. /\ sourceLock' \in [SourceRuns -> Workers \cup {NoWorker}] /\ losses' \in [SourceRuns -> Nat]
      /\ \A t \in SourceRuns : losses'[t] = 0 => losses[t] = 0 /\ sourceLock'[t] = sourceLock[t]
      /\ score' \in [SourceVideos -> Nat \cup {NoScore}]
  BY <1>0, <1>2, <1>3 DEF PipelineTypes
<1>5. QuotaInv'
  BY <1>0, <1>2, GateKept
<1> QED
  BY <1>2, <1>4, <1>5, OutsideStep

LEMMA CollectionNextInv == CollectionInv /\ [Next]_vars => CollectionInv'
<1> SUFFICES ASSUME CollectionInv, [Next]_vars PROVE CollectionInv'
  OBVIOUS
<1>1. CASE UNCHANGED vars
  <2>1. UNCHANGED <<sourceLock, losses, pc, call, runs, batchItems, requests, snapshots, batches, held, quota, score>>
    BY <1>1 DEF vars, pipelineVars, promotionVars, lockVars
  <2>2. score' \in [SourceVideos -> Nat \cup {NoScore}] /\ QuotaInv'
        /\ sourceLock' \in [SourceRuns -> Workers \cup {NoWorker}] /\ losses' \in [SourceRuns -> Nat]
    BY <2>1, GateKept DEF CollectionInv, PipelineTypes
  <2> QED
    BY <2>1, <2>2, OutsideStep
<1>2. ASSUME NEW w \in Workers, Work(w) PROVE CollectionInv'
  <2>1. CASE WritesItem(w)
    BY <2>1, WritesInv
  <2>2. CASE Reuse(w) \/ Suspect(w) \/ SkipCollection(w) \/ Intend(w) \/ Fetch(w) \/ IngestPage(w) \/ Extract(w)
    BY <2>2, ReadsInv
  <2>3. CASE Lock(w) \/ Open(w) \/ InsertRun(w) \/ MakeEligible(w) \/ InsertEligible(w)
    BY <2>3, LockInv, OpenInv, EligibleInv
  <2>4. CASE PlanPromotion(w) \/ Promote(w) \/ FinishBatch(w)
    BY <2>4, PlanPromotionInv, PromoteInv, EndingsInv
  <2> QED
    BY <1>2, <2>1, <2>2, <2>3, <2>4 DEF Work, WritesItem
<1>3. ASSUME NEW w \in Workers, LoseLock(w) \/ Raise(w) \/ Crash(w) PROVE CollectionInv'
  BY <1>3, LoseLockInv, EndingsInv
<1>4. CASE Outside
  BY <1>4, OutsideInv
<1> QED
  BY <1>1, <1>2, <1>3, <1>4, StartInv DEF Next

(* The invariant holds in every state the batches can reach.               *)
LEMMA CollectionInvariance == Spec => []CollectionInv
  BY CollectionInitInv, CollectionNextInv, PTL DEF Spec

-----------------------------------------------------------------------------
(* The second invariant counts. A worker past the lock without holding it  *)
(* has lost a session of its own, so that with the holder at most one more *)
(* than were lost are past it. Of these are those about to make a run, and *)
(* those about to ask for a video.                                         *)

(* Past the lock of a discovery run that another, or nobody, holds.        *)
Astray(s) ==
  {w \in Workers : pc[w] \notin {"idle", "lock"} /\ SourceOf[Batch(w)] = s /\ sourceLock[s] # w}
Creating(b) == {w \in Workers : pc[w] = "create" /\ Batch(w) = b}
Asking(r, v) == {w \in Workers : pc[w] \in {"begin", "fetch"} /\ Run(w) = r /\ Current(w) = v}

CountInv ==
  /\ \A s \in SourceRuns : Cardinality(Astray(s)) <= losses[s]
  /\ \A w \in Workers : pc[w] \notin Before => runs[Run(w)] # "none"
  /\ \A b \in Batches : Made(b) # {} => Cardinality(Made(b)) + Cardinality(Creating(b)) <= 1 + Lost(b)
  /\ \A r \in Runs : \A v \in VideosOf[r[1]] : batchItems[r][v].collection # "none" =>
       requests[r][v] + Cardinality(Asking(r, v)) <= 1 + Lost(r[1])

LEMMA CountInitInv == Init => CountInv
<1> SUFFICES ASSUME Init PROVE CountInv
  OBVIOUS
<1> USE DEF Init
<1>1. \A s \in SourceRuns : Astray(s) = {} /\ losses[s] = 0
  BY DEF Astray
<1>2. \A b \in Batches : Made(b) = {}
  BY DEF Made, Runs
<1>3. \A r \in Runs : \A v \in VideosOf[r[1]] : batchItems[r][v].collection = "none"
  BY DEF NoBatchItem
<1>4. \A w \in Workers : pc[w] \in Before
  BY DEF Before
<1>5. \A s \in SourceRuns : Cardinality(Astray(s)) <= losses[s]
  <2> SUFFICES ASSUME NEW s \in SourceRuns PROVE Cardinality(Astray(s)) <= losses[s]
    OBVIOUS
  <2>1. Astray(s) = {} /\ losses[s] = 0
    BY <1>1
  <2> QED
    BY <2>1, FS_EmptySet
<1> QED
  BY <1>2, <1>3, <1>4, <1>5 DEF CountInv

(* How many of the workers past a lock there are.                          *)
LEMMA PastBound ==
  ASSUME CollectionInv, CountInv, NEW s \in SourceRuns, NEW S \in SUBSET Workers,
         \A w \in S : pc[w] \notin {"idle", "lock"} /\ SourceOf[Batch(w)] = s
  PROVE  Cardinality(S) <= 1 + losses[s]
<1>1. S \subseteq Astray(s) \cup {sourceLock[s]}
  BY DEF Astray
<1>2. IsFiniteSet(Astray(s)) /\ Cardinality(Astray(s)) \in Nat
  BY BatchAssumption, FS_Subset, FS_CardinalityType DEF Astray
<1>3. /\ IsFiniteSet(Astray(s) \cup {sourceLock[s]})
      /\ Cardinality(Astray(s) \cup {sourceLock[s]}) <= Cardinality(Astray(s)) + 1
  BY <1>2, FS_AddElement
<1>4. Cardinality(S) <= Cardinality(Astray(s) \cup {sourceLock[s]})
  BY <1>1, <1>3, FS_Subset
<1>5. Cardinality(S) \in Nat /\ Cardinality(Astray(s) \cup {sourceLock[s]}) \in Nat
  BY <1>3, BatchAssumption, FS_Subset, FS_CardinalityType
<1>6. Cardinality(Astray(s)) <= losses[s] /\ losses[s] \in Nat
  BY DEF CountInv, CollectionInv, PipelineTypes
<1> QED
  BY <1>2, <1>3, <1>4, <1>5, <1>6

LEMMA FewerWorkers ==
  ASSUME NEW S \in SUBSET Workers, NEW T \in SUBSET Workers, S \subseteq T
  PROVE  Cardinality(S) \in Nat /\ Cardinality(T) \in Nat /\ Cardinality(S) <= Cardinality(T)
<1>1. IsFiniteSet(T)
  BY BatchAssumption, FS_Subset
<1>2. IsFiniteSet(S) /\ Cardinality(S) <= Cardinality(T)
  BY <1>1, FS_Subset
<1> QED
  BY <1>1, <1>2, FS_CardinalityType

MovesAlone(w) == \A z \in Workers \ {w} : pc'[z] = pc[z] /\ call'[z] = call[z]

LEMMA AstrayStep ==
  ASSUME CollectionInv, CountInv, NEW w \in Workers, MovesAlone(w), LocksKept(w), losses' = losses,
         \/ pc'[w] \in {"idle", "lock"}
         \/ sourceLock'[SourceOf[call'[w].batch]] = w
         \/ /\ pc[w] \notin {"idle", "lock"} /\ call'[w].batch = call[w].batch
            /\ sourceLock' = sourceLock
  PROVE  \A s \in SourceRuns : (Cardinality(Astray(s)) <= losses[s])'
<1> SUFFICES ASSUME NEW s \in SourceRuns PROVE Cardinality(Astray(s)') <= losses'[s]
  OBVIOUS
<1>1. ASSUME NEW z \in Astray(s)' PROVE z \in Astray(s)
  <2>1. /\ z \in Workers /\ pc'[z] \notin {"idle", "lock"}
        /\ SourceOf[call'[z].batch] = s /\ sourceLock'[s] # z
    BY DEF Astray, Batch
  <2>2. CASE z = w
    BY <2>1, <2>2 DEF Astray, Batch
  <2>3. CASE z # w
    BY <2>1, <2>3 DEF Astray, Batch, MovesAlone, LocksKept
  <2> QED
    BY <2>2, <2>3
<1>2. Astray(s)' \subseteq Astray(s) /\ Astray(s) \subseteq Workers
  BY <1>1 DEF Astray
<1> HIDE DEF Astray
<1>3. Cardinality(Astray(s)') <= Cardinality(Astray(s))
  BY <1>2, BatchAssumption, FS_Subset
<1>4. Cardinality(Astray(s)') \in Nat /\ Cardinality(Astray(s)) \in Nat
  BY <1>2, BatchAssumption, FS_Subset, FS_CardinalityType
<1>5. Cardinality(Astray(s)) <= losses[s] /\ losses[s] \in Nat
  BY DEF CountInv, CollectionInv, PipelineTypes
<1> QED
  BY <1>3, <1>4, <1>5

LossesGrow == \A s \in SourceRuns : losses[s] \in Nat /\ losses'[s] \in Nat /\ losses[s] <= losses'[s]

(* No run is made.                                                         *)
LEMMA RowsStep ==
  ASSUME CountInv, NEW w \in Workers, MovesAlone(w), LossesGrow,
         \A r \in Runs : runs'[r] = "none" <=> runs[r] = "none",
         \A z \in Workers : pc[z] \notin Before => Run(z) \in Runs,
         pc'[w] \notin Before =>
           LET r == <<call'[w].batch, call'[w].row>> IN r \in Runs /\ runs[r] # "none",
         pc'[w] = "create" => \/ pc[w] = "create" /\ call'[w].batch = call[w].batch
                              \/ Made(call'[w].batch) = {}
  PROVE  /\ \A z \in Workers : (pc[z] \notin Before => runs[Run(z)] # "none")'
         /\ \A b \in Batches :
              (Made(b) # {} => Cardinality(Made(b)) + Cardinality(Creating(b)) <= 1 + Lost(b))'
<1>1. ASSUME NEW z \in Workers, pc'[z] \notin Before PROVE runs'[Run(z)'] # "none"
  <2>1. Run(z)' = <<call'[z].batch, call'[z].row>>
    BY DEF Run, Batch
  <2>2. CASE z = w
    BY <1>1, <2>1, <2>2
  <2>3. CASE z # w
    BY <1>1, <2>1, <2>3 DEF MovesAlone, CountInv, Run, Batch
  <2> QED
    BY <2>2, <2>3
<1>2. ASSUME NEW b \in Batches, Made(b)' # {}
      PROVE  Cardinality(Made(b)') + Cardinality(Creating(b)') <= 1 + Lost(b)'
  <2>1. Made(b)' = Made(b)
    BY DEF Made, Runs
  <2>2. Creating(b)' \subseteq Creating(b) /\ Creating(b) \subseteq Workers
    BY <1>2, <2>1 DEF Creating, Batch, MovesAlone
  <2>3. Cardinality(Creating(b)') <= Cardinality(Creating(b))
        /\ Cardinality(Creating(b)') \in Nat /\ Cardinality(Creating(b)) \in Nat
    <3>1. PICK S \in SUBSET Workers, T \in SUBSET Workers :
            S = Creating(b)' /\ T = Creating(b) /\ S \subseteq T
      BY <2>2
    <3>2. Cardinality(S) <= Cardinality(T) /\ Cardinality(S) \in Nat /\ Cardinality(T) \in Nat
      BY <3>1, FewerWorkers
    <3> QED
      BY <3>1, <3>2
  <2>4. Cardinality(Made(b)) \in Nat
    <3>1. IsFiniteSet(Rows) /\ Made(b) \subseteq Rows
      BY BatchAssumption, FS_Interval DEF Rows, Made
    <3> QED
      BY <3>1, FS_Subset, FS_CardinalityType
  <2>5. PICK s \in SourceRuns : s = SourceOf[b]
    BY DEF SourceRuns
  <2>6. Cardinality(Made(b)) + Cardinality(Creating(b)) <= 1 + losses[s]
    BY <1>2, <2>1, <2>5 DEF CountInv, Lost
  <2>7. losses[s] \in Nat /\ losses'[s] \in Nat /\ losses[s] <= losses'[s] /\ Lost(b)' = losses'[s]
    BY <2>5 DEF LossesGrow, Lost
  <2> QED
    BY <2>1, <2>3, <2>4, <2>6, <2>7
<1> QED
  BY <1>1, <1>2

(* Nobody asks, and nobody is about to whose item was begun before.        *)
LEMMA AskingStep ==
  ASSUME CollectionInv, CountInv, NEW w \in Workers, MovesAlone(w), LossesGrow, requests' = requests,
         \/ pc'[w] \notin {"begin", "fetch"}
         \/ pc[w] \in {"begin", "fetch"} /\ Run(w)' = Run(w) /\ Current(w)' = Current(w)
         \/ batchItems'[Run(w)'][Current(w)'].collection = "none"
  PROVE  \A r \in Runs : \A v \in VideosOf[r[1]] :
           (batchItems[r][v].collection # "none" => requests[r][v] + Cardinality(Asking(r, v)) <= 1 + Lost(r[1]))'
<1> SUFFICES ASSUME NEW r \in Runs, NEW v \in VideosOf[r[1]], batchItems'[r][v].collection # "none"
             PROVE  requests[r][v] + Cardinality(Asking(r, v)') <= 1 + Lost(r[1])'
  OBVIOUS
<1>1. Asking(r, v)' \subseteq Asking(r, v) /\ Asking(r, v) \subseteq Workers
  <2> SUFFICES ASSUME NEW z \in Asking(r, v)' PROVE z \in Asking(r, v)
    BY DEF Asking
  <2>1. z \in Workers /\ pc'[z] \in {"begin", "fetch"} /\ Run(z)' = r /\ Current(z)' = v
    BY DEF Asking
  <2>2. CASE z = w
    BY <2>1, <2>2 DEF Asking
  <2>3. CASE z # w
    BY <2>1, <2>3 DEF Asking, MovesAlone, Run, Batch, Current
  <2> QED
    BY <2>2, <2>3
<1>2. PICK n \in Nat, m \in Nat : /\ n = Cardinality(Asking(r, v)) /\ m = Cardinality(Asking(r, v)') /\ m <= n
  <2>1. PICK S \in SUBSET Workers, T \in SUBSET Workers :
          S = Asking(r, v)' /\ T = Asking(r, v) /\ S \subseteq T
    BY <1>1
  <2>2. Cardinality(S) <= Cardinality(T) /\ Cardinality(S) \in Nat /\ Cardinality(T) \in Nat
    BY <2>1, FewerWorkers
  <2> QED
    BY <2>1, <2>2
<1>3. PICK s \in SourceRuns : s = SourceOf[r[1]]
  BY SourcesAre
<1>4. losses[s] \in Nat /\ losses'[s] \in Nat /\ losses[s] <= losses'[s] /\ Lost(r[1])' = losses'[s]
  BY <1>3 DEF LossesGrow, Lost
<1>5. requests[r][v] \in Nat /\ (batchItems[r][v].collection = "none" => requests[r][v] = 0)
  BY DEF CollectionInv, ItemInv, ItemFits
<1>6. requests[r][v] + n <= 1 + losses[s]
  <2>1. CASE batchItems[r][v].collection # "none"
    BY <1>2, <1>3, <2>1 DEF CountInv, Lost
  <2>2. CASE batchItems[r][v].collection = "none"
    <3>1. \A z \in Asking(r, v) : pc[z] \notin {"idle", "lock"} /\ SourceOf[Batch(z)] = s
      BY <1>3, SourcesAre DEF Asking, Run
    <3>2. n <= 1 + losses[s]
      BY <1>1, <1>2, <3>1, PastBound
    <3> QED
      BY <1>2, <1>4, <1>5, <2>2, <3>2
  <2> QED
    BY <2>1, <2>2
<1> QED
  BY <1>2, <1>4, <1>5, <1>6

(* The steps of a worker between its lock and its end.                     *)
Inside(w) ==
  \/ WritesItem(w)
  \/ Reuse(w) \/ Suspect(w) \/ SkipCollection(w) \/ Intend(w) \/ IngestPage(w) \/ Extract(w)
  \/ MakeEligible(w) \/ InsertEligible(w) \/ PlanPromotion(w) \/ Promote(w)

LEMMA InsideMoves ==
  ASSUME CollectionInv, NEW w \in Workers, Inside(w)
  PROVE  /\ MovesAlone(w) /\ UNCHANGED <<sourceLock, losses, runs, requests>>
         /\ call'[w].batch = call[w].batch /\ call'[w].row = call[w].row
         /\ pc[w] \notin Before /\ pc'[w] \notin Before
         /\ \/ pc'[w] \notin {"begin", "fetch"}
            \/ call'[w].todo = call[w].todo
               /\ (pc[w] = "begin" \/ (batchItems' = batchItems /\ Item(w).collection = "none"))
<1>0. /\ pc \in [Workers -> Steps] /\ DOMAIN call = Workers
      /\ {"batch", "row", "todo", "ok", "page", "read", "features", "source", "plan"} \subseteq DOMAIN call[w]
  BY DEF CollectionInv, PipelineTypes, Idle
<1> USE DEF MovesAlone, lockVars, Continue, Before
<1>1. ASSUME NEW success \in BOOLEAN, Done(w, success)
      PROVE  /\ MovesAlone(w) /\ call'[w].batch = call[w].batch /\ call'[w].row = call[w].row
             /\ pc'[w] = "visit"
  BY <1>0, <1>1 DEF Done
<1>2. CASE Reconcile(w) \/ Unknown(w) \/ Unfeatured(w)
  <2>1. Done(w, FALSE) /\ UNCHANGED <<sourceLock, losses, runs, requests>> /\ pc[w] \notin Before
    BY <1>2 DEF Reconcile, Unknown, Unfeatured
  <2> QED
    BY <1>1, <2>1
<1>3. CASE Featured(w) \/ Reuse(w)
  <2>1. Done(w, TRUE) /\ UNCHANGED <<sourceLock, losses, runs, requests>> /\ pc[w] \notin Before
    BY <1>3 DEF Featured, Reuse
  <2> QED
    BY <1>1, <2>1
<1>4. CASE Begin(w) \/ Collected(w)
  BY <1>0, <1>4 DEF Begin, Collected
<1>5. CASE Suspect(w) \/ SkipCollection(w)
  BY <1>0, <1>5 DEF Suspect, SkipCollection, Look
<1>6. CASE Intend(w)
  BY <1>0, <1>6 DEF Intend, Look
<1>7. CASE IngestPage(w) \/ Extract(w)
  BY <1>0, <1>7 DEF IngestPage, Extract
<1>8. CASE MakeEligible(w)
  <2>1. PICK src : call' = [call EXCEPT ![w].source = src]
    BY <1>8 DEF MakeEligible
  <2>2. PICK step \in {"insert", "promote"} : pc' = [pc EXCEPT ![w] = step]
    BY <1>8 DEF MakeEligible
  <2>3. UNCHANGED <<sourceLock, losses, runs, requests>> /\ pc[w] = "visit"
    BY <1>8 DEF MakeEligible
  <2> QED
    BY <1>0, <2>1, <2>2, <2>3
<1>9. CASE InsertEligible(w)
  BY <1>0, <1>9 DEF InsertEligible
<1>10. CASE PlanPromotion(w)
  <2>1. \/ call' = call
        \/ \E plan : call' = [call EXCEPT ![w].plan = plan]
    BY <1>10 DEF PlanPromotion
  <2>2. PICK step \in {"finish", "commit"} : pc' = [pc EXCEPT ![w] = step]
    BY <1>10 DEF PlanPromotion
  <2>3. UNCHANGED <<sourceLock, losses, runs, requests>> /\ pc[w] = "promote"
    BY <1>10 DEF PlanPromotion
  <2> QED
    BY <1>0, <2>1, <2>2, <2>3
<1>11. CASE Promote(w)
  BY <1>0, <1>11 DEF Promote
<1> QED
  BY <1>2, <1>3, <1>4, <1>5, <1>6, <1>7, <1>8, <1>9, <1>10, <1>11 DEF Inside, WritesItem

LEMMA LossesSame == CollectionInv /\ losses' = losses => LossesGrow
  BY DEF CollectionInv, PipelineTypes, LossesGrow

LEMMA WithRun ==
  ASSUME CollectionInv, NEW z \in Workers, pc[z] \notin Before
  PROVE  Run(z) \in Runs
  BY DEF CollectionInv, WorkerInv

LEMMA InsideCount ==
  ASSUME CollectionInv, CountInv, NEW w \in Workers, Inside(w)
  PROVE  CountInv'
<1>1. /\ MovesAlone(w) /\ UNCHANGED <<sourceLock, losses, runs, requests>>
      /\ call'[w].batch = call[w].batch /\ call'[w].row = call[w].row
      /\ pc[w] \notin Before /\ pc'[w] \notin Before
  BY InsideMoves
<1>2. LocksKept(w) /\ LossesGrow
  BY <1>1, LossesSame DEF LocksKept
<1>3. Run(w)' = Run(w) /\ Run(w) = <<call'[w].batch, call'[w].row>>
  BY <1>1 DEF Run, Batch
<1>4. \/ pc'[w] \notin {"begin", "fetch"}
      \/ pc[w] \in {"begin", "fetch"} /\ Run(w)' = Run(w) /\ Current(w)' = Current(w)
      \/ batchItems'[Run(w)'][Current(w)'].collection = "none"
  <2>1. SUFFICES ASSUME pc'[w] \in {"begin", "fetch"}
                 PROVE  \/ pc[w] \in {"begin", "fetch"} /\ Run(w)' = Run(w) /\ Current(w)' = Current(w)
                        \/ batchItems'[Run(w)'][Current(w)'].collection = "none"
    OBVIOUS
  <2>2. Current(w)' = Current(w) /\ (pc[w] = "begin" \/ (batchItems' = batchItems /\ Item(w).collection = "none"))
    BY <2>1, InsideMoves DEF Current
  <2> QED
    BY <1>3, <2>2 DEF Item
<1>5. \A s \in SourceRuns : (Cardinality(Astray(s)) <= losses[s])'
  BY <1>1, <1>2, AstrayStep DEF Before
<1>6. /\ \A z \in Workers : (pc[z] \notin Before => runs[Run(z)] # "none")'
      /\ \A b \in Batches :
           (Made(b) # {} => Cardinality(Made(b)) + Cardinality(Creating(b)) <= 1 + Lost(b))'
  <2>1. Run(w) \in Runs /\ runs[Run(w)] # "none" /\ \A z \in Workers : pc[z] \notin Before => Run(z) \in Runs
    BY <1>1, WithRun DEF CountInv
  <2>2. pc'[w] # "create"
    BY <1>1 DEF Before
  <2> QED
    BY <1>1, <1>2, <1>3, <2>1, <2>2, RowsStep
<1>7. \A r \in Runs : \A v \in VideosOf[r[1]] :
        (batchItems[r][v].collection # "none" => requests[r][v] + Cardinality(Asking(r, v)) <= 1 + Lost(r[1]))'
  BY <1>1, <1>2, <1>4, AskingStep
<1> QED
  BY <1>5, <1>6, <1>7 DEF CountInv

(* A step of a worker before it has a run, or its end.                     *)
LEMMA EdgeCount ==
  ASSUME CollectionInv, CountInv, NEW w \in Workers, MovesAlone(w), LocksKept(w),
         UNCHANGED <<losses, requests>>,
         \A r \in Runs : runs'[r] = "none" <=> runs[r] = "none",
         pc'[w] \in {"idle", "lock", "open"},
         pc'[w] = "open" => sourceLock'[SourceOf[call'[w].batch]] = w
  PROVE  CountInv'
<1>1. LossesGrow /\ \A z \in Workers : pc[z] \notin Before => Run(z) \in Runs
  BY LossesSame, WithRun
<1>2. pc'[w] \in Before
  BY DEF Before
<1>3. \A s \in SourceRuns : (Cardinality(Astray(s)) <= losses[s])'
  BY AstrayStep
<1>4. /\ \A z \in Workers : (pc[z] \notin Before => runs[Run(z)] # "none")'
      /\ \A b \in Batches :
           (Made(b) # {} => Cardinality(Made(b)) + Cardinality(Creating(b)) <= 1 + Lost(b))'
  BY <1>1, <1>2, RowsStep
<1>5. \A r \in Runs : \A v \in VideosOf[r[1]] :
        (batchItems[r][v].collection # "none" => requests[r][v] + Cardinality(Asking(r, v)) <= 1 + Lost(r[1]))'
  BY <1>1, AskingStep
<1> QED
  BY <1>3, <1>4, <1>5 DEF CountInv

LEMMA EdgesCount ==
  ASSUME CollectionInv, CountInv, NEW w \in Workers,
         \/ Lock(w) \/ FinishBatch(w) \/ Raise(w) \/ Crash(w)
         \/ \E b \in Batches, d \in Days, n \in TopNs : Start(w, b, d, n)
  PROVE  CountInv'
<1>0. PipelineTypes /\ WorkerInv(w)
  BY DEF CollectionInv
<1>1. CASE \E b \in Batches, d \in Days, n \in TopNs : Start(w, b, d, n)
  <2>1. MovesAlone(w) /\ UNCHANGED <<sourceLock, losses, requests, runs>> /\ pc'[w] = "lock"
    BY <1>0, <1>1 DEF Start, Continue, MovesAlone, PipelineTypes, lockVars
  <2> QED
    BY <2>1, EdgeCount DEF LocksKept
<1>2. CASE Lock(w)
  <2>1. PICK s \in SourceRuns : s = SourceOf[Batch(w)]
    BY <1>0, <1>2 DEF WorkerInv, Lock, SourceRuns
  <2>2. /\ MovesAlone(w) /\ UNCHANGED <<losses, requests, runs, call>> /\ pc'[w] = "open"
        /\ sourceLock[s] = NoWorker /\ sourceLock' = [sourceLock EXCEPT ![s] = w]
    BY <1>0, <1>2, <2>1 DEF Lock, Continue, MovesAlone, PipelineTypes
  <2>3. sourceLock'[SourceOf[call'[w].batch]] = w
    BY <1>0, <2>1, <2>2 DEF PipelineTypes, Batch
  <2>4. LocksKept(w)
    BY <1>0, <2>2, BatchAssumption DEF LocksKept, PipelineTypes
  <2> QED
    BY <2>2, <2>3, <2>4, EdgeCount
<1>3. CASE FinishBatch(w) \/ Raise(w) \/ Crash(w)
  <2>1. Release(w) /\ requests' = requests
    BY <1>3 DEF FinishBatch, Raise, Crash
  <2>2. MovesAlone(w) /\ losses' = losses /\ pc'[w] = "idle" /\ LocksKept(w)
    BY <1>0, <2>1 DEF Release, Continue, MovesAlone, PipelineTypes, LocksKept
  <2>3. \A r \in Runs : runs'[r] = "none" <=> runs[r] = "none"
    <3>1. CASE Crash(w)
      BY <3>1 DEF Crash
    <3>2. CASE FinishBatch(w) \/ Raise(w)
      <4>1. pc[w] \notin Before
        BY <3>2 DEF FinishBatch, Raise, Before
      <4>2. PICK r \in Runs : r = Run(w) /\ runs[r] # "none"
        BY <4>1, WithRun DEF CountInv
      <4>3. PICK status : runs' = [runs EXCEPT ![r] = status] /\ status # "none"
        BY <3>2, <4>2 DEF FinishBatch, Raise, StatusOf
      <4> QED
        BY <1>0, <4>2, <4>3 DEF PipelineTypes
    <3> QED
      BY <1>3, <3>1, <3>2
  <2> QED
    BY <2>1, <2>2, <2>3, EdgeCount
<1> QED
  BY <1>1, <1>2, <1>3

LEMMA OpenCount ==
  ASSUME CollectionInv, CountInv, NEW w \in Workers, Open(w)
  PROVE  CountInv'
<1>0. PipelineTypes /\ WorkerInv(w)
  BY DEF CollectionInv
<1>1. PICK b \in Batches : b = Batch(w) /\ pc[w] = "open"
  BY <1>0 DEF WorkerInv, Open
<1>2. UNCHANGED <<sourceLock, losses, requests, runs>> /\ LocksKept(w) /\ LossesGrow
  BY LossesSame DEF Open, lockVars, LocksKept
<1>3. \/ pc' = [pc EXCEPT ![w] = "create"] /\ Made(b) = {} /\ call' = call
      \/ /\ pc' = [pc EXCEPT ![w] = "visit"] /\ Made(b) # {}
         /\ call' = [call EXCEPT ![w].todo = VideosOf[b], ![w].row = Max(Made(b))]
  BY <1>1 DEF Open, Continue
<1>4. /\ MovesAlone(w) /\ call'[w].batch = b /\ pc'[w] \in {"create", "visit"}
      /\ pc'[w] = "create" => Made(b) = {}
      /\ pc'[w] = "visit" => Made(b) # {} /\ call'[w].row = Max(Made(b))
  BY <1>0, <1>1, <1>3 DEF MovesAlone, PipelineTypes, Batch, Idle
<1>5. \A s \in SourceRuns : (Cardinality(Astray(s)) <= losses[s])'
  BY <1>1, <1>2, <1>4, AstrayStep DEF Batch
<1>6. /\ \A z \in Workers : (pc[z] \notin Before => runs[Run(z)] # "none")'
      /\ \A a \in Batches :
           (Made(a) # {} => Cardinality(Made(a)) + Cardinality(Creating(a)) <= 1 + Lost(a))'
  <2>1. ASSUME pc'[w] \notin Before PROVE <<b, call'[w].row>> \in Runs /\ runs[<<b, call'[w].row>>] # "none"
    <3>1. Made(b) # {} /\ call'[w].row = Max(Made(b))
      BY <1>4, <2>1 DEF Before
    <3>2. call'[w].row \in Made(b) /\ Made(b) \subseteq Rows
      BY <3>1, LatestMade
    <3> QED
      BY <3>2 DEF Made, Runs
  <2>2. \A z \in Workers : pc[z] \notin Before => Run(z) \in Runs
    BY WithRun
  <2> QED
    BY <1>1, <1>2, <1>4, <2>1, <2>2, RowsStep
<1>7. \A r \in Runs : \A v \in VideosOf[r[1]] :
        (batchItems[r][v].collection # "none" => requests[r][v] + Cardinality(Asking(r, v)) <= 1 + Lost(r[1]))'
  BY <1>2, <1>4, AskingStep
<1> QED
  BY <1>5, <1>6, <1>7 DEF CountInv

LEMMA InsertCount ==
  ASSUME CollectionInv, CountInv, NEW w \in Workers, InsertRun(w)
  PROVE  CountInv'
<1>0. PipelineTypes /\ WorkerInv(w)
  BY DEF CollectionInv
<1>1. PICK b \in Batches : b = Batch(w) /\ pc[w] = "create"
  BY <1>0 DEF WorkerInv, InsertRun
<1>2. PICK n \in Rows \ Made(b) : /\ runs' = [runs EXCEPT ![<<b, n>>] = "running"]
                                  /\ call' = [call EXCEPT ![w].todo = VideosOf[b], ![w].row = n]
  BY <1>1 DEF InsertRun
<1>3. UNCHANGED <<sourceLock, losses, requests>> /\ LocksKept(w) /\ LossesGrow
  BY LossesSame DEF InsertRun, lockVars, LocksKept
<1>4. MovesAlone(w) /\ call'[w].batch = b /\ call'[w].row = n /\ pc'[w] = "visit"
  BY <1>0, <1>1, <1>2 DEF InsertRun, Continue, MovesAlone, PipelineTypes, Batch, Idle
<1>5. \A s \in SourceRuns : (Cardinality(Astray(s)) <= losses[s])'
  BY <1>1, <1>3, <1>4, AstrayStep DEF Batch
<1>6. <<b, n>> \in Runs /\ runs'[<<b, n>>] = "running" /\ \A r \in Runs \ {<<b, n>>} : runs'[r] = runs[r]
  BY <1>0, <1>2 DEF PipelineTypes, Runs
<1>7. ASSUME NEW z \in Workers PROVE (pc[z] \notin Before => runs[Run(z)] # "none")'
  <2>1. CASE z = w
    BY <1>4, <1>6, <2>1 DEF Run, Batch
  <2>2. CASE z # w
    <3>1. pc'[z] = pc[z] /\ Run(z)' = Run(z)
      BY <1>4, <2>2 DEF MovesAlone, Run, Batch
    <3>2. pc[z] \notin Before => Run(z) \in Runs /\ runs[Run(z)] # "none"
      BY WithRun DEF CountInv
    <3> QED
      BY <1>6, <3>1, <3>2
  <2> QED
    BY <2>1, <2>2
<1>8. ASSUME NEW a \in Batches, Made(a)' # {}
      PROVE  Cardinality(Made(a)') + Cardinality(Creating(a)') <= 1 + Lost(a)'
  <2>1. PICK s \in SourceRuns : s = SourceOf[a] /\ losses[s] \in Nat /\ Lost(a)' = losses[s]
    BY <1>0, <1>3 DEF SourceRuns, Lost, PipelineTypes
  <2>2. PICK M : M = Made(a)
    OBVIOUS
  <2>3. IsFiniteSet(M) /\ Cardinality(M) \in Nat
    <3>1. IsFiniteSet(Rows) /\ M \subseteq Rows
      BY <2>2, BatchAssumption, FS_Interval DEF Rows, Made
    <3> QED
      BY <3>1, FS_Subset, FS_CardinalityType
  <2>4. PICK T : T = Creating(a)
    OBVIOUS
  <2>5. IsFiniteSet(T) /\ Cardinality(T) \in Nat
    <3>1. T \subseteq Workers
      BY <2>4 DEF Creating
    <3> QED
      BY <3>1, BatchAssumption, FS_Subset, FS_CardinalityType
  <2>6. M # {} => Cardinality(M) + Cardinality(T) <= 1 + losses[s]
    BY <2>1, <2>2, <2>4 DEF CountInv, Lost
  <2>7. CASE a # b
    <3>1. Made(a)' = M
      BY <1>6, <2>2, <2>7 DEF Made, Runs
    <3>2. Creating(a)' = T
      BY <1>1, <1>4, <2>4, <2>7 DEF Creating, Batch, MovesAlone
    <3> QED
      BY <1>8, <2>1, <2>6, <3>1, <3>2
  <2>8. CASE a = b
    <3>1. Made(a)' = M \cup {n} /\ n \notin M
      BY <1>2, <1>6, <2>2, <2>8 DEF Made, Runs
    <3>2. Creating(a)' = T \ {w} /\ w \in T
      BY <1>1, <1>4, <2>4, <2>8 DEF Creating, Batch, MovesAlone
    <3>3. Cardinality(Made(a)') = Cardinality(M) + 1
      BY <2>3, <3>1, FS_AddElement
    <3>4. Cardinality(Creating(a)') = Cardinality(T) - 1
      BY <2>5, <3>2, FS_RemoveElement
    <3>5. CASE M # {}
      BY <2>1, <2>3, <2>5, <2>6, <3>3, <3>4, <3>5
    <3>6. CASE M = {}
      <4>1. T \subseteq Workers /\ \A z \in T : pc[z] \notin {"idle", "lock"} /\ SourceOf[Batch(z)] = s
        BY <2>1, <2>4 DEF Creating
      <4>2. Cardinality(T) <= 1 + losses[s]
        BY <4>1, PastBound
      <4>3. Cardinality(M) = 0
        BY <3>6, FS_EmptySet
      <4> QED
        BY <2>1, <2>5, <3>3, <3>4, <4>2, <4>3
    <3> QED
      BY <3>5, <3>6
  <2> QED
    BY <2>7, <2>8
<1>9. \A r \in Runs : \A v \in VideosOf[r[1]] :
        (batchItems[r][v].collection # "none" => requests[r][v] + Cardinality(Asking(r, v)) <= 1 + Lost(r[1]))'
  BY <1>3, <1>4, AskingStep
<1> QED
  BY <1>5, <1>7, <1>8, <1>9 DEF CountInv

(* The request is made: one more, and one less is about to make it.        *)
LEMMA FetchCount ==
  ASSUME CollectionInv, CountInv, NEW w \in Workers, Fetch(w)
  PROVE  CountInv'
<1>0. PipelineTypes /\ pc[w] = "fetch" /\ call[w].todo # {}
  BY DEF CollectionInv, WorkerInv, Fetch, AtItem
<1>1. PICK e \in Runs, u \in VideosOf[Batch(w)] : e = Run(w) /\ u = Current(w) /\ e[1] = Batch(w)
  BY <1>0, AtVideo DEF AtItem
<1>2. /\ UNCHANGED <<sourceLock, losses, runs, batchItems>> /\ LocksKept(w) /\ LossesGrow
      /\ requests' = [requests EXCEPT ![e][u] = @ + 1]
  BY <1>1, LossesSame DEF Fetch, lockVars, LocksKept
<1>3. MovesAlone(w) /\ call'[w].batch = call[w].batch /\ call'[w].row = call[w].row
      /\ pc'[w] \in {"ingest", "unknown"}
  BY <1>0 DEF Fetch, Continue, MovesAlone, PipelineTypes, Idle
<1>4. \A s \in SourceRuns : (Cardinality(Astray(s)) <= losses[s])'
  BY <1>0, <1>2, <1>3, AstrayStep
<1>5. /\ \A z \in Workers : (pc[z] \notin Before => runs[Run(z)] # "none")'
      /\ \A a \in Batches :
           (Made(a) # {} => Cardinality(Made(a)) + Cardinality(Creating(a)) <= 1 + Lost(a))'
  <2>1. <<call'[w].batch, call'[w].row>> = e /\ runs[e] # "none" /\ pc'[w] # "create"
    BY <1>0, <1>1, <1>3 DEF Run, Batch, CountInv, Before
  <2>2. \A z \in Workers : pc[z] \notin Before => Run(z) \in Runs
    BY WithRun
  <2> QED
    BY <1>2, <1>3, <2>1, <2>2, RowsStep
<1>6. ASSUME NEW r \in Runs, NEW v \in VideosOf[r[1]], batchItems'[r][v].collection # "none"
      PROVE  requests'[r][v] + Cardinality(Asking(r, v)') <= 1 + Lost(r[1])'
  <2>1. PICK s \in SourceRuns : s = SourceOf[r[1]] /\ losses[s] \in Nat /\ Lost(r[1])' = losses[s]
    BY <1>0, <1>2, SourcesAre DEF Lost, PipelineTypes
  <2>2. PICK T : T = Asking(r, v) /\ T \subseteq Workers
    BY DEF Asking
  <2>3. IsFiniteSet(T) /\ Cardinality(T) \in Nat
    BY <2>2, BatchAssumption, FS_Subset, FS_CardinalityType
  <2>4. requests[r][v] \in Nat
    BY DEF CollectionInv, ItemInv, ItemFits
  <2>5. requests[r][v] + Cardinality(T) <= 1 + losses[s]
    BY <1>2, <1>6, <2>1, <2>2 DEF CountInv, Lost
  <2>6. ASSUME NEW z \in Workers PROVE z \in Asking(r, v)' <=> z # w /\ z \in T
    BY <1>3, <2>2 DEF Asking, MovesAlone, Run, Batch, Current
  <2>7. Asking(r, v)' = T \ {w}
    <3>1. Asking(r, v)' \subseteq Workers
      BY DEF Asking
    <3> QED
      BY <2>2, <2>6, <3>1
  <2>8. CASE r = e /\ v = u
    <3>1. requests'[r][v] = requests[r][v] + 1
      BY <1>0, <1>1, <1>2, <2>8 DEF PipelineTypes
    <3>2. w \in T
      BY <1>0, <1>1, <2>2, <2>8 DEF Asking
    <3>3. Cardinality(Asking(r, v)') = Cardinality(T) - 1
      BY <2>3, <2>7, <3>2, FS_RemoveElement
    <3> QED
      BY <2>1, <2>3, <2>4, <2>5, <3>1, <3>3
  <2>9. CASE ~(r = e /\ v = u)
    <3>1. requests'[r][v] = requests[r][v]
      BY <1>0, <1>1, <1>2, <2>9 DEF PipelineTypes
    <3>2. w \notin T
      BY <1>1, <2>2, <2>9 DEF Asking
    <3>3. T \ {w} = T
      BY <3>2
    <3> QED
      BY <2>1, <2>5, <2>7, <3>1, <3>3
  <2> QED
    BY <2>8, <2>9
<1> QED
  BY <1>4, <1>5, <1>6 DEF CountInv

LEMMA LoseLockCount ==
  ASSUME CollectionInv, CountInv, NEW w \in Workers, LoseLock(w)
  PROVE  CountInv'
<1>0. PipelineTypes /\ WorkerInv(w)
  BY DEF CollectionInv
<1>1. PICK s \in SourceRuns : s = SourceOf[Batch(w)]
  BY <1>0 DEF LoseLock, WorkerInv, SourceRuns
<1>2. /\ sourceLock' = [sourceLock EXCEPT ![s] = NoWorker] /\ losses' = [losses EXCEPT ![s] = @ + 1]
      /\ UNCHANGED <<pc, call, runs, batchItems, requests>> /\ sourceLock[s] = w
  BY <1>1 DEF LoseLock
<1>3. /\ losses[s] \in Nat /\ losses'[s] = losses[s] + 1
      /\ \A t \in SourceRuns \ {s} : losses'[t] = losses[t] /\ sourceLock'[t] = sourceLock[t]
      /\ \A t \in SourceRuns : losses[t] \in Nat
  BY <1>0, <1>2 DEF PipelineTypes
<1>4. LossesGrow /\ MovesAlone(w)
  BY <1>2, <1>3 DEF LossesGrow, MovesAlone
<1>5. ASSUME NEW t \in SourceRuns PROVE Cardinality(Astray(t)') <= losses'[t]
  <2>1. PICK T : T = Astray(t)
    OBVIOUS
  <2>2. IsFiniteSet(T) /\ Cardinality(T) \in Nat /\ Cardinality(T) <= losses[t]
    <3>1. T \subseteq Workers /\ Cardinality(T) <= losses[t]
      BY <2>1 DEF Astray, CountInv
    <3> QED
      BY <3>1, BatchAssumption, FS_Subset, FS_CardinalityType
  <2>3. CASE t # s
    <3>1. Astray(t)' = T
      BY <1>2, <1>3, <2>1, <2>3 DEF Astray, Batch
    <3> QED
      BY <1>3, <2>2, <2>3, <3>1
  <2>4. CASE t = s
    <3>1. Astray(t)' \subseteq T \cup {w}
      BY <1>2, <2>1, <2>4 DEF Astray, Batch
    <3>2. IsFiniteSet(T \cup {w}) /\ Cardinality(T \cup {w}) <= Cardinality(T) + 1
      <4>1. IsFiniteSet(T) /\ Cardinality(T) \in Nat
        BY <2>2
      <4>2. /\ IsFiniteSet(T \cup {w})
            /\ Cardinality(T \cup {w}) = IF w \in T THEN Cardinality(T) ELSE Cardinality(T) + 1
        BY <4>1, FS_AddElement
      <4> QED
        BY <4>1, <4>2
    <3>3. Cardinality(Astray(t)') <= Cardinality(T \cup {w})
      BY <3>1, <3>2, FS_Subset
    <3>4. IsFiniteSet(Astray(t)')
      BY <3>1, <3>2, FS_Subset
    <3>5. Cardinality(T \cup {w}) \in Nat /\ Cardinality(Astray(t)') \in Nat
      BY <3>2, <3>4, FS_CardinalityType
    <3> QED
      BY <1>3, <2>2, <2>4, <3>2, <3>3, <3>5
  <2> QED
    BY <2>3, <2>4
<1>6. /\ \A z \in Workers : (pc[z] \notin Before => runs[Run(z)] # "none")'
      /\ \A b \in Batches :
           (Made(b) # {} => Cardinality(Made(b)) + Cardinality(Creating(b)) <= 1 + Lost(b))'
  <2>1. \A z \in Workers : pc[z] \notin Before => Run(z) \in Runs
    BY WithRun
  <2>2. pc[w] \notin Before => runs[Run(w)] # "none" /\ Run(w) = <<call[w].batch, call[w].row>>
    BY DEF CountInv, Run, Batch
  <2> QED
    BY <1>2, <1>4, <2>1, <2>2, RowsStep
<1>7. \A r \in Runs : \A v \in VideosOf[r[1]] :
        (batchItems[r][v].collection # "none" => requests[r][v] + Cardinality(Asking(r, v)) <= 1 + Lost(r[1]))'
  <2>1. pc'[w] \in {"begin", "fetch"} => pc[w] \in {"begin", "fetch"} /\ Run(w)' = Run(w) /\ Current(w)' = Current(w)
    BY <1>2 DEF Run, Batch, Current
  <2> QED
    BY <1>2, <1>4, <2>1, AskingStep
<1> QED
  BY <1>5, <1>6, <1>7 DEF CountInv

LEMMA CountKept ==
  ASSUME CountInv, UNCHANGED <<sourceLock, losses, pc, call, runs, batchItems, requests>>
  PROVE  CountInv'
<1>1. /\ \A s : Astray(s)' = Astray(s)
      /\ \A b : Made(b)' = Made(b) /\ Creating(b)' = Creating(b) /\ Lost(b)' = Lost(b)
      /\ \A r, v : Asking(r, v)' = Asking(r, v)
      /\ \A w : Run(w)' = Run(w)
  BY DEF Astray, Made, Creating, Lost, Asking, Run, Batch, Current
<1> QED
  BY <1>1 DEF CountInv

LEMMA CountNextInv == CollectionInv /\ CountInv /\ [Next]_vars => CountInv'
<1> SUFFICES ASSUME CollectionInv, CountInv, [Next]_vars PROVE CountInv'
  OBVIOUS
<1>1. CASE UNCHANGED vars
  BY <1>1, CountKept DEF vars, pipelineVars, lockVars
<1>2. ASSUME NEW w \in Workers, Work(w) PROVE CountInv'
  <2>1. CASE Inside(w)
    BY <2>1, InsideCount
  <2>2. CASE Lock(w) \/ FinishBatch(w)
    BY <2>2, EdgesCount
  <2>3. CASE Open(w) \/ InsertRun(w) \/ Fetch(w)
    BY <2>3, OpenCount, InsertCount, FetchCount
  <2> QED
    BY <1>2, <2>1, <2>2, <2>3 DEF Work, Inside, WritesItem
<1>3. ASSUME NEW w \in Workers, LoseLock(w) \/ Raise(w) \/ Crash(w) PROVE CountInv'
  BY <1>3, LoseLockCount, EdgesCount
<1>4. ASSUME NEW w \in Workers, NEW b \in Batches, NEW d \in Days, NEW n \in TopNs, Start(w, b, d, n)
      PROVE  CountInv'
  BY <1>4, EdgesCount
<1>5. CASE Outside
  BY <1>5, CountKept DEF Outside, CollectManually, pipelineVars, lockVars
<1> QED
  BY <1>1, <1>2, <1>3, <1>4, <1>5 DEF Next

(* Both invariants hold in every state the batches can reach.              *)
LEMMA CountInvariance == Spec => [](CollectionInv /\ CountInv)
<1>1. Init => CollectionInv /\ CountInv
  BY CollectionInitInv, CountInitInv
<1>2. CollectionInv /\ CountInv /\ [Next]_vars => (CollectionInv /\ CountInv)'
  BY CollectionNextInv, CountNextInv
<1> QED
  BY <1>1, <1>2, PTL DEF Spec

(* A fingerprint gets one run, and the comments of a video are requested   *)
(* for it at most once; each session of the lock that was lost lets        *)
(* through one more of either.                                             *)
THEOREM CommentsRequestedOnce == Spec => []RequestedOnce
<1>1. CollectionInv /\ CountInv => RequestedOnce
  <2> SUFFICES ASSUME CollectionInv, CountInv, NEW b \in Batches
               PROVE  /\ Cardinality(Made(b)) <= 1 + Lost(b)
                      /\ \A n \in Rows, v \in VideosOf[b] : requests[<<b, n>>][v] <= 1 + Lost(b)
    BY DEF RequestedOnce
  <2>1. Lost(b) \in Nat
    BY DEF CollectionInv, PipelineTypes, Lost, SourceRuns
  <2>2. Cardinality(Made(b)) <= 1 + Lost(b)
    <3>1. IsFiniteSet(Rows) /\ Made(b) \subseteq Rows /\ Creating(b) \subseteq Workers
      BY BatchAssumption, FS_Interval DEF Rows, Made, Creating
    <3>2. Cardinality(Made(b)) \in Nat /\ Cardinality(Creating(b)) \in Nat
      BY <3>1, BatchAssumption, FS_Subset, FS_CardinalityType
    <3>3. CASE Made(b) = {}
      BY <2>1, <3>3, FS_EmptySet
    <3>4. CASE Made(b) # {}
      BY <2>1, <3>2, <3>4 DEF CountInv
    <3> QED
      BY <3>3, <3>4
  <2>3. ASSUME NEW n \in Rows, NEW v \in VideosOf[b] PROVE requests[<<b, n>>][v] <= 1 + Lost(b)
    <3>1. PICK r \in Runs : r = <<b, n>> /\ r[1] = b
      <4>1. <<b, n>> \in Runs /\ <<b, n>>[1] = b
        BY <2>3 DEF Runs
      <4> QED
        BY <4>1
    <3>2. requests[r][v] \in Nat /\ (batchItems[r][v].collection = "none" => requests[r][v] = 0)
      BY <3>1 DEF CollectionInv, ItemInv, ItemFits
    <3>3. Cardinality(Asking(r, v)) \in Nat
      BY BatchAssumption, FS_Subset, FS_CardinalityType DEF Asking
    <3>4. batchItems[r][v].collection # "none" => requests[r][v] + Cardinality(Asking(r, v)) <= 1 + Lost(b)
      BY <3>1 DEF CountInv
    <3> QED
      BY <2>1, <3>1, <3>2, <3>3, <3>4
  <2> QED
    BY <2>2, <2>3
<1> QED
  BY <1>1, CountInvariance, PTL

(* What a batch selected and what a run calls success is all there, and    *)
(* while no session of the lock is lost stays so.                          *)
THEOREM SelectionIsWhole == Spec => []SelectedIsWhole
<1>1. CollectionInv => SelectedIsWhole
  <2> SUFFICES ASSUME CollectionInv PROVE SelectedIsWhole
    OBVIOUS
  <2>1. ASSUME NEW p \in batches, NEW v \in p.selected
        PROVE  LET item == batchItems[p.source.run][v]
                   features == p.source.features[v]
               IN /\ features # {} /\ <<v, features>> \in snapshots
                  /\ Lost(p.source.run[1]) = 0 =>
                       Finished(item) /\ item.collection = "success" /\ item.features = features
    <3>1. SourceFits(p.source) /\ v \in DOMAIN p.source.features
      BY <2>1 DEF CollectionInv, StoredInv
    <3>2. PICK r \in Runs : r = p.source.run /\ Succeeded(r, v)
      BY <3>1 DEF SourceFits
    <3>3. /\ p.source.features[v] # {} /\ <<v, p.source.features[v]>> \in snapshots
          /\ Alone(r) => p.source.features[v] = batchItems[r][v].features
      BY <3>1, <3>2 DEF SourceFits
    <3>4. ItemInv(r, v)
      BY <3>2 DEF CollectionInv, Succeeded
    <3>5. Lost(r[1]) = 0 <=> Alone(r)
      BY DEF Lost, Alone
    <3>6. Alone(r) => /\ batchItems[r][v].outcome = "success" /\ batchItems[r][v].extract = "success"
                      /\ batchItems[r][v].collection = "success"
      BY <3>2, <3>4 DEF ItemInv, ItemFits, Succeeded
    <3> QED
      BY <3>2, <3>3, <3>5, <3>6 DEF Finished
  <2>2. ASSUME NEW r \in Runs, runs[r] = "success"
        PROVE  /\ \E p \in batches : p.source.run = r /\ DOMAIN p.source.features = VideosOf[r[1]]
               /\ Lost(r[1]) = 0 => \A v \in VideosOf[r[1]] : Finished(batchItems[r][v])
    <3>1. Whole(r) /\ (Lost(r[1]) = 0 <=> Alone(r)) /\ \A v \in VideosOf[r[1]] : ItemInv(r, v)
      BY <2>2 DEF CollectionInv, Lost, Alone
    <3> QED
      BY <3>1 DEF Whole, ItemInv, ItemFits, Finished
  <2> QED
    BY <2>1, <2>2 DEF SelectedIsWhole
<1> QED
  BY <1>1, CollectionInvariance, PTL

(* A quota row is charged with what its batches selected, within its       *)
(* maximum, and a video is selected once a day.                            *)
THEOREM QuotasAreKept == Spec => []QuotaKept
<1>1. CollectionInv => QuotaKept
  BY DEF CollectionInv, QuotaInv, QuotaKept, SelectedSizes, UsedBy
<1> QED
  BY <1>1, CollectionInvariance, PTL

(* A collection that was begun is never forgotten, even with the lock      *)
(* lost. Without that what was collected stays so, and what succeeded is   *)
(* never written again.                                                    *)
THEOREM ProgressStays == Spec => ProgressIsKept
<1> DEFINE ItemKept(r, v) ==
             LET item == batchItems[r][v] IN
               /\ item.collection # "none" => batchItems'[r][v].collection # "none"
               /\ Lost(r[1]) = 0 /\ item.collection = "success" =>
                    batchItems'[r][v].collection = "success"
               /\ Lost(r[1]) = 0 /\ item.outcome = "success" => batchItems'[r][v] = item
           Progress == \A r \in Runs : \A v \in VideosOf[r[1]] : ItemKept(r, v)
<1>1. ASSUME CollectionInv, Next PROVE Progress
  <2>1. CASE UNCHANGED batchItems
    BY <2>1
  <2>2. ASSUME NEW w \in Workers, WritesItem(w)
        PROVE  Progress
    <3>1. PICK changes : Writes(w, changes) /\ Upsert(w, changes)
      BY <2>2, ItemIsWritten
    <3>2. pc[w] \in AtItem /\ call[w].todo # {} /\ UNCHANGED requests
      BY <1>1, <2>2, ItemIsWritten DEF CollectionInv, WorkerInv
    <3>3. PICK e \in Runs, u \in VideosOf[Batch(w)] : e = Run(w) /\ u = Current(w) /\ e[1] = Batch(w)
      BY <1>1, <3>2, AtVideo
    <3>4. PICK i, fresh : i = Item(w) /\ fresh = Merge(changes, i)
      OBVIOUS
    <3>5. /\ ItemFits(Alone(e), i, requests[e][u], u, snapshots)
          /\ StepFits(Alone(e), pc[w], i, u, call[w].read, call[w].features, snapshots)
      BY <1>1, <3>2, <3>3, <3>4, AtVideo
    <3>6. PICK alone \in BOOLEAN : alone = Alone(e) /\ alone = (Lost(e[1]) = 0)
      BY DEF Alone, Lost
    <3>7. /\ fresh.collection # "none"
          /\ alone => i.outcome # "success"
          /\ alone /\ i.collection = "success" => fresh.collection = "success"
      <4>1. PICK n : n = requests[e][u]
        OBVIOUS
      <4> QED
        <5>1. ItemFits(alone, i, n, u, snapshots)
              /\ StepFits(alone, pc[w], i, u, call[w].read, call[w].features, snapshots)
          BY <3>5, <3>6, <4>1
        <5> QED
          BY <3>1, <3>4, <5>1, WriteFits
    <3>8. ItemBecomes(w, fresh, requests[e][u])
      BY <1>1, <3>1, <3>2, <3>3, <3>4, UpsertItem
    <3> SUFFICES ASSUME NEW r \in Runs, NEW v \in VideosOf[r[1]] PROVE ItemKept(r, v)
      OBVIOUS
    <3>9. CASE r = e /\ v = u
      <4>1. batchItems'[r][v] = fresh /\ batchItems[r][v] = i
        BY <3>3, <3>4, <3>8, <3>9 DEF ItemBecomes, Item
      <4> QED
        BY <3>6, <3>7, <3>9, <4>1
    <3>10. CASE ~(r = e /\ v = u)
      <4>1. e[1] = Batch(w)
        BY <3>3 DEF Run
      <4>2. batchItems'[r][v] = batchItems[r][v]
        BY <3>3, <3>8, <3>10, <4>1 DEF ItemBecomes
      <4> QED
        BY <4>2
    <3> QED
      BY <3>9, <3>10
  <2>3. ASSUME NEW w \in Workers, Work(w) PROVE Progress
    <3>1. CASE WritesItem(w)
      BY <2>2, <3>1
    <3>2. CASE ~WritesItem(w)
      <4>1. UNCHANGED batchItems
        BY <2>3, <3>2 DEF Work, WritesItem, Lock, Open, InsertRun, Reuse, Suspect, SkipCollection, Intend, Look,
           Fetch, IngestPage, Extract, MakeEligible, InsertEligible, PlanPromotion, Promote, FinishBatch
      <4> QED
        BY <2>1, <4>1
    <3> QED
      BY <3>1, <3>2
  <2>4. (\E w \in Workers, b \in Batches, d \in Days, n \in TopNs : Start(w, b, d, n)) => UNCHANGED batchItems
    BY DEF Start
  <2>5. (\E w \in Workers : LoseLock(w) \/ Raise(w) \/ Crash(w)) => UNCHANGED batchItems
    BY DEF LoseLock, Raise, Crash
  <2>6. Outside => UNCHANGED batchItems
    BY DEF Outside, CollectManually, pipelineVars
  <2> QED
    BY <1>1, <2>1, <2>3, <2>4, <2>5, <2>6 DEF Next
<1>2. CollectionInv /\ [Next]_vars => [Progress]_vars
  BY <1>1
<1> QED
  BY <1>2, CollectionInvariance, PTL DEF Spec, ProgressIsKept

-----------------------------------------------------------------------------
(* GoldenIntake: what calls are charged and what rows say of it.           *)

Due(calls) == PriceOf({a \in calls : a.charged})
Unpriced(recorded) == {r \in recorded : r.billing = "unknown"}
Paid(recorded) == SumOfCosts(recorded) + PriceOf(Unpriced(recorded))
Own(j, calls) == {a \in calls : a.job = j}

LEMMA UnitCostIsNat == \A phase : UnitCost(phase) \in Nat
  BY DEF UnitCost

LEMMA PriceIsNat ==
  ASSUME NEW calls, IsFiniteSet(calls)
  PROVE  PriceOf(calls) \in Nat
<1> DEFINE f == [a \in calls |-> UnitCost(a.stage)]
<1>1. \A a \in calls : f[a] \in Nat
  BY UnitCostIsNat
<1> HIDE DEF f
<1>2. SumFunctionOnSet(f, calls) \in Nat
  BY <1>1, SumType
<1> QED
  BY <1>2 DEF PriceOf, f

LEMMA PriceAdd ==
  ASSUME NEW calls, IsFiniteSet(calls), NEW c, c \notin calls
  PROVE  PriceOf(calls \cup {c}) = PriceOf(calls) + UnitCost(c.stage)
<1> DEFINE f == [a \in calls |-> UnitCost(a.stage)]
           g == [a \in calls \cup {c} |-> UnitCost(a.stage)]
<1>1. /\ \A a \in calls \cup {c} : g[a] \in Int
      /\ \A a \in calls : f[a] = g[a]
      /\ g[c] = UnitCost(c.stage)
  BY UnitCostIsNat
<1>2. PriceOf(calls) = SumFunctionOnSet(f, calls) /\ PriceOf(calls \cup {c}) = SumFunctionOnSet(g, calls \cup {c})
  BY DEF PriceOf
<1> HIDE DEF f, g
<1>3. SumFunctionOnSet(g, calls \cup {c}) = SumFunctionOnSet(g, calls) + g[c]
  BY <1>1, SumAdd
<1>4. SumFunctionOnSet(f, calls) = SumFunctionOnSet(g, calls)
  BY <1>1, SumSame
<1> QED
  BY <1>1, <1>2, <1>3, <1>4

LEMMA PriceOfNone == PriceOf({}) = 0
  BY SumOfNone DEF PriceOf

LEMMA CostIsNat ==
  ASSUME NEW recorded, IsFiniteSet(recorded), \A r \in recorded : r.cost \in Nat
  PROVE  SumOfCosts(recorded) \in Nat
<1> DEFINE f == [r \in recorded |-> r.cost]
<1>1. \A r \in recorded : f[r] \in Nat
  OBVIOUS
<1> HIDE DEF f
<1>2. SumFunctionOnSet(f, recorded) \in Nat
  BY <1>1, SumType
<1> QED
  BY <1>2 DEF SumOfCosts, f

LEMMA CostAdd ==
  ASSUME NEW recorded, IsFiniteSet(recorded), NEW c, c \notin recorded,
         \A r \in recorded \cup {c} : r.cost \in Nat
  PROVE  SumOfCosts(recorded \cup {c}) = SumOfCosts(recorded) + c.cost
<1> DEFINE f == [a \in recorded |-> a.cost]
           g == [a \in recorded \cup {c} |-> a.cost]
<1>1. /\ \A a \in recorded \cup {c} : g[a] \in Int
      /\ \A a \in recorded : f[a] = g[a]
      /\ g[c] = c.cost
  OBVIOUS
<1>2. /\ SumOfCosts(recorded) = SumFunctionOnSet(f, recorded)
      /\ SumOfCosts(recorded \cup {c}) = SumFunctionOnSet(g, recorded \cup {c})
  BY DEF SumOfCosts
<1> HIDE DEF f, g
<1>3. SumFunctionOnSet(g, recorded \cup {c}) = SumFunctionOnSet(g, recorded) + g[c]
  BY <1>1, SumAdd
<1>4. SumFunctionOnSet(f, recorded) = SumFunctionOnSet(g, recorded)
  BY <1>1, SumSame
<1> QED
  BY <1>1, <1>2, <1>3, <1>4

LEMMA CostOfNone == SumOfCosts({}) = 0
  BY SumOfNone DEF SumOfCosts

(* One more call is one more at most, and due if it is charged.            *)
LEMMA DueAdd ==
  ASSUME NEW calls, IsFiniteSet(calls), NEW c
  PROVE  /\ IsFiniteSet(calls \cup {c})
         /\ Cardinality(calls \cup {c}) \in Nat /\ Cardinality(calls) \in Nat
         /\ Cardinality(calls \cup {c}) <= Cardinality(calls) + 1
         /\ Due(calls) \in Nat /\ Due(calls \cup {c}) \in Nat
         /\ Due(calls \cup {c}) <= Due(calls) + UnitCost(c.stage)
<1> DEFINE charged == {a \in calls : a.charged}
           more == {a \in calls \cup {c} : a.charged}
<1>1. /\ IsFiniteSet(calls \cup {c})
      /\ Cardinality(calls \cup {c}) \in Nat /\ Cardinality(calls) \in Nat
      /\ Cardinality(calls \cup {c}) <= Cardinality(calls) + 1
  <2>1. CASE c \in calls
    <3>1. calls \cup {c} = calls
      BY <2>1
    <3>2. Cardinality(calls) \in Nat
      BY FS_CardinalityType
    <3>3. Cardinality(calls \cup {c}) = Cardinality(calls) /\ IsFiniteSet(calls \cup {c})
      BY <3>1
    <3> QED
      BY <3>2, <3>3
  <2>2. CASE c \notin calls
    <3>1. IsFiniteSet(calls \cup {c}) /\ Cardinality(calls \cup {c}) = Cardinality(calls) + 1
      BY <2>2, FS_AddElement
    <3>2. Cardinality(calls) \in Nat
      BY FS_CardinalityType
    <3> QED
      BY <3>1, <3>2
  <2> QED
    BY <2>1, <2>2
<1>2. IsFiniteSet(charged) /\ IsFiniteSet(more)
  BY <1>1, FS_Subset
<1>3. Due(calls) \in Nat /\ Due(calls \cup {c}) \in Nat
  BY <1>2, PriceIsNat DEF Due
<1>4. UnitCost(c.stage) \in Nat
  BY UnitCostIsNat
<1>5. CASE more = charged
  <2>1. Due(calls \cup {c}) = Due(calls)
    BY <1>5 DEF Due
  <2> QED
    BY <1>1, <1>3, <1>4, <2>1
<1>6. CASE more # charged
  <2>1. more = charged \cup {c} /\ c \notin charged
    BY <1>6
  <2>2. PriceOf(more) = PriceOf(charged) + UnitCost(c.stage)
    <3> HIDE DEF more, charged
    <3> QED
      BY <1>2, <2>1, PriceAdd
  <2> QED
    BY <1>1, <1>3, <1>4, <2>2 DEF Due
<1> QED
  BY <1>5, <1>6

(* A row is paid for with its cost, and an unknown one with its price.     *)
LEMMA PaidAdd ==
  ASSUME NEW recorded, IsFiniteSet(recorded), NEW c, c \notin recorded,
         \A r \in recorded \cup {c} : r.cost \in Nat
  PROVE  /\ IsFiniteSet(recorded \cup {c})
         /\ Paid(recorded) \in Nat /\ Paid(recorded \cup {c}) \in Nat
         /\ Paid(recorded \cup {c}) =
              Paid(recorded) + c.cost + (IF c.billing = "unknown" THEN UnitCost(c.stage) ELSE 0)
<1> DEFINE old == Unpriced(recorded)
           fresh == Unpriced(recorded \cup {c})
<1>1. IsFiniteSet(recorded \cup {c})
  BY FS_AddElement
<1>2. IsFiniteSet(old) /\ IsFiniteSet(fresh)
  BY <1>1, FS_Subset DEF Unpriced
<1>3. /\ PriceOf(old) \in Nat /\ PriceOf(fresh) \in Nat
      /\ SumOfCosts(recorded) \in Nat /\ SumOfCosts(recorded \cup {c}) \in Nat
  BY <1>1, <1>2, PriceIsNat, CostIsNat
<1>4. SumOfCosts(recorded \cup {c}) = SumOfCosts(recorded) + c.cost
  BY CostAdd
<1>5. c.cost \in Nat /\ UnitCost(c.stage) \in Nat
  BY UnitCostIsNat
<1>6. CASE c.billing = "unknown"
  <2>1. fresh = old \cup {c} /\ c \notin old
    BY <1>6 DEF Unpriced
  <2>2. PriceOf(fresh) = PriceOf(old) + UnitCost(c.stage)
    <3> HIDE DEF fresh, old
    <3> QED
      BY <1>2, <2>1, PriceAdd
  <2> QED
    BY <1>1, <1>3, <1>4, <1>5, <1>6, <2>2 DEF Paid
<1>7. CASE c.billing # "unknown"
  <2>1. fresh = old
    BY <1>7 DEF Unpriced
  <2> QED
    BY <1>1, <1>3, <1>4, <1>5, <1>7, <2>1 DEF Paid
<1> QED
  BY <1>6, <1>7

-----------------------------------------------------------------------------
(* The invariant of one job: x its process, calls and rows its own, run    *)
(* and found its row and its items, by who inserted a video, and lost and  *)
(* twice the stages of its calls without a record and with a doubtful one. *)

Stages == {"discovery", "details"}
PlanRecs ==
  [entry : {"scheduled", "manual", "dashboard"}, enrich : BOOLEAN, novel : BOOLEAN, force : BOOLEAN, calls : 1..2,
   ceiling : Nat \cup {NoCeiling}]
Billings == {"known_zero", "estimated", "unknown"}
CallRecs ==
  [job : Jobs, stage : Stages, day : 0..MaxDay, ids : SUBSET Videos, charged : BOOLEAN]
RowRecs ==
  [job : Jobs, stage : Stages, status : {"success", "error"}, cached : BOOLEAN, billing : Billings, cost : Nat]
Places ==
  {"start", "check", "configure", "create", "lookup", "send", "save", "record", "error", "ingest",
   "score", "flag", "finish", "cost", "summary", "fail", "unlock", "done", "dead"}
Results == {"none", "deferred", "refused", "failed", "completed"}
JobRecs ==
  [plan : PlanRecs, pc : Places, result : Results, stage : Stages, reserved : Nat,
   day : 0..MaxDay, ids : SUBSET Videos, page : (SUBSET Videos) \cup {NoPage}, answer : Answers \cup {"none", "cached"},
   new : SUBSET Videos, recorded : SUBSET RowRecs]

Early == {"start", "check", "configure", "create"}
Over == {"done", "dead"}
Calling == {"save", "record"}
Sound ==
  Early \cup Calling \cup {"lookup", "send", "ingest", "score", "flag", "finish", "cost"}

(* No more requests left than were reserved.                               *)
Counted(x, calls) ==
  /\ IsFiniteSet(calls)
  /\ Cardinality(calls) <= x.plan.calls
  /\ x.pc \notin Over =>
       /\ x.reserved <= x.plan.calls
       /\ Cardinality(calls) <= x.reserved
       /\ x.pc = "send" => Cardinality(calls) + 1 <= x.reserved
  /\ x.pc \in Early => x.reserved = 0

Placed(x) ==
  /\ x.pc \notin Over => [stage |-> x.stage, ids |-> x.ids] \in Requests
  /\ x.pc \in Calling \cup {"ingest"} => x.page \in SUBSET Videos

(* An answer that is being recorded is one of a request that left.         *)
Answered(x, calls) ==
  /\ x.pc \in Calling \cup {"error"} =>
       /\ x.answer \in Answers
       /\ \E a \in calls : a.stage = x.stage /\ a.charged \in Charges(x.answer)
  /\ x.pc \in Calling => Readable(x.answer)

Novel(j, x, calls, found, by) ==
  /\ \A v \in x.new : by[v] = j
  /\ x.plan.novel /\ x.stage = "details" => \A v \in x.ids : by[v] = j
  /\ \A a \in calls : a.stage = "details" /\ x.plan.novel => \A v \in a.ids : by[v] = j
  /\ \A v \in Videos : found[v] = "new" => by[v] = j

RowOf(row, a) ==
  /\ row.stage = a.stage
  /\ row.billing = "known_zero" => ~a.charged
  /\ row.billing = "estimated" => a.charged

Written(x, calls, own, lost, twice) ==
  /\ \A row \in own : ~row.cached => \E a \in calls : RowOf(row, a)
  /\ \A a \in calls :
       \/ x.stage = a.stage /\ x.pc \in Calling \cup {"error", "dead"}
       \/ a.stage \in lost
       \/ \E row \in own : row.stage = a.stage /\ ~row.cached
  /\ \A r1, r2 \in own : r1.stage = r2.stage /\ r1 # r2 => r1.stage \in twice
  /\ x.pc \in Early \cup Calling \cup {"lookup", "send"} => \A row \in own : row.stage # x.stage
  /\ x.pc = "error" => \A row \in own : row.stage = x.stage => x.stage \in twice
  /\ x.stage = "discovery" => \A row \in own : row.stage = "discovery"

(* What a run was charged is paid, but for the call that it is in.         *)
Balanced(x, calls, own, run) ==
  /\ IsFiniteSet(own)
  /\ x.pc \in Sound =>
       /\ x.recorded = own /\ run.cost = NoCost
       /\ x.pc \notin Calling => Due(calls) <= Paid(own)
       /\ x.pc \in Calling => Due(calls) <= Paid(own) + UnitCost(x.stage)
  /\ run.cost # NoCost =>
       /\ run.cost = SumOfCosts(own)
       /\ Due(calls) <= Paid(own)
       /\ x.pc \in {"summary", "unlock"} \cup Over

Settled(x, calls, run) ==
  /\ x.result = "completed" =>
       run.status = "success" /\ run.cost # NoCost /\ x.pc \in {"unlock"} \cup Over
  /\ x.result \in {"deferred", "refused"} => calls = {} /\ x.pc \in {"unlock"} \cup Over
  /\ x.pc = "summary" => run.status = "success" /\ run.cost # NoCost

IntakeFits(j, x, calls, own, run, found, by, lost, twice) ==
  /\ Counted(x, calls)
  /\ Placed(x)
  /\ Answered(x, calls)
  /\ Novel(j, x, calls, found, by)
  /\ Written(x, calls, own, lost, twice)
  /\ Balanced(x, calls, own, run)
  /\ Settled(x, calls, run)

(* A process that only moves on, and what its items may become.            *)
SameBut(x, y) ==
  /\ y.plan = x.plan /\ y.stage = x.stage /\ y.reserved = x.reserved /\ y.day = x.day
  /\ y.ids = x.ids /\ y.page = x.page /\ y.answer = x.answer /\ y.new = x.new
  /\ y.recorded = x.recorded

Walks(x, y, run) ==
  \/ /\ y.result = x.result
     /\ <<x.pc, y.pc>> \in
          {<<"start", "check">>, <<"check", "configure">>, <<"configure", "create">>,
           <<"create", "lookup">>, <<"save", "record">>, <<"save", "error">>,
           <<"lookup", "fail">>, <<"ingest", "fail">>, <<"score", "fail">>, <<"flag", "fail">>,
           <<"finish", "fail">>, <<"score", "flag">>, <<"flag", "finish">>, <<"finish", "cost">>}
  \/ y.result \in {"deferred", "refused"} /\ <<x.pc, y.pc>> \in {<<"start", "done">>, <<"check", "unlock">>}
  \/ y.result = "failed" /\ x.pc \in {"fail", "cost", "summary"} /\ y.pc = "unlock"
  \/ y.result = "completed" /\ x.pc = "summary" /\ y.pc = "unlock" /\ run.status = "success"

LEMMA NoCalls ==
  ASSUME NEW x \in JobRecs, NEW calls, Counted(x, calls), x.pc \in Early
  PROVE  calls = {}
<1>1. IsFiniteSet(calls) /\ Cardinality(calls) <= 0
  BY DEF Counted, Early, Over
<1>2. Cardinality(calls) \in Nat
  BY <1>1, FS_CardinalityType
<1>3. Cardinality(calls) = 0
  BY <1>1, <1>2
<1> QED
  BY <1>1, <1>3, FS_EmptySet

LEMMA Walked ==
  ASSUME NEW j, NEW x \in JobRecs, NEW y \in JobRecs, NEW calls, NEW own, NEW run, NEW next,
         NEW found, NEW now, NEW by, NEW lost, NEW twice,
         IntakeFits(j, x, calls, own, run, found, by, lost, twice),
         SameBut(x, y), Walks(x, y, next), next.cost = run.cost,
         x.pc = "summary" => next = run,
         \A v \in Videos : now[v] = "new" => found[v] = "new" \/ v \in x.new
  PROVE  IntakeFits(j, y, calls, own, next, now, by, lost, twice)
<1>0. /\ Counted(x, calls) /\ Placed(x) /\ Answered(x, calls) /\ Novel(j, x, calls, found, by)
      /\ Written(x, calls, own, lost, twice) /\ Balanced(x, calls, own, run) /\ Settled(x, calls, run)
  BY DEF IntakeFits
<1>1. Counted(y, calls)
  BY <1>0 DEF Counted, SameBut, Walks, Early, Over
<1>2. Placed(y)
  BY <1>0 DEF Placed, SameBut, Walks, Calling, Over
<1>3. Answered(y, calls)
  BY <1>0 DEF Answered, SameBut, Walks, Calling
<1>4. Novel(j, y, calls, now, by)
  BY <1>0 DEF Novel, SameBut
<1>5. Written(y, calls, own, lost, twice)
  BY <1>0 DEF Written, SameBut, Walks, Early, Calling
<1>6. Balanced(y, calls, own, next)
  BY <1>0 DEF Balanced, SameBut, Walks, Early, Sound, Calling, Over
<1>7. Settled(y, calls, next)
  <2>1. CASE y.result \in {"deferred", "refused"}
    <3>1. x.pc \in Early
      BY <1>0, <2>1 DEF Settled, Walks, Early, Over
    <3>2. calls = {}
      BY <1>0, <3>1, NoCalls
    <3> QED
      BY <1>0, <2>1, <3>2 DEF Settled, Walks, Early, Over
  <2>2. CASE y.result \notin {"deferred", "refused"}
    BY <1>0, <2>2 DEF Settled, Walks, Over
  <2> QED
    BY <2>1, <2>2
<1> QED
  BY <1>1, <1>2, <1>3, <1>4, <1>5, <1>6, <1>7 DEF IntakeFits

(* A process that ends forgets what it knew.                               *)
LEMMA EndedFits ==
  ASSUME NEW j, NEW x \in JobRecs, NEW y \in JobRecs, NEW calls, NEW own, NEW run,
         NEW found, NEW by, NEW lost, NEW twice,
         IntakeFits(j, x, calls, own, run, found, by, lost, twice),
         y.plan = x.plan, y.stage = x.stage, y.result = x.result, y.new = {}, y.ids = {},
         (y.pc = "done" /\ x.pc = "unlock") \/ y.pc = "dead"
  PROVE  IntakeFits(j, y, calls, own, run, found, by, lost, twice)
<1>0. /\ Counted(x, calls) /\ Placed(x) /\ Answered(x, calls) /\ Novel(j, x, calls, found, by)
      /\ Written(x, calls, own, lost, twice) /\ Balanced(x, calls, own, run) /\ Settled(x, calls, run)
  BY DEF IntakeFits
<1>1. Counted(y, calls)
  BY <1>0 DEF Counted, Early, Over
<1>2. Placed(y) /\ Answered(y, calls)
  BY DEF Placed, Answered, Calling, Over
<1>3. Novel(j, y, calls, found, by)
  BY <1>0 DEF Novel
<1>4. Written(y, calls, own, lost, twice)
  BY <1>0 DEF Written, Early, Calling
<1>5. Balanced(y, calls, own, run)
  BY <1>0 DEF Balanced, Early, Sound, Calling, Over
<1>6. Settled(y, calls, run)
  BY <1>0 DEF Settled, Over
<1> QED
  BY <1>1, <1>2, <1>3, <1>4, <1>5, <1>6 DEF IntakeFits

(* A reservation that was granted.                                         *)
LEMMA ReservedFits ==
  ASSUME NEW j, NEW x \in JobRecs, NEW y \in JobRecs, NEW calls, NEW own, NEW run,
         NEW found, NEW by, NEW lost, NEW twice,
         IntakeFits(j, x, calls, own, run, found, by, lost, twice),
         x.pc = "lookup", x.reserved < x.plan.calls,
         y.plan = x.plan, y.stage = x.stage, y.result = x.result, y.new = x.new, y.ids = x.ids,
         y.recorded = x.recorded, y.pc = "send", y.reserved = x.reserved + 1
  PROVE  IntakeFits(j, y, calls, own, run, found, by, lost, twice)
<1>0. /\ Counted(x, calls) /\ Placed(x) /\ Answered(x, calls) /\ Novel(j, x, calls, found, by)
      /\ Written(x, calls, own, lost, twice) /\ Balanced(x, calls, own, run) /\ Settled(x, calls, run)
  BY DEF IntakeFits
<1>1. Counted(y, calls)
  <2>1. x.plan.calls \in Nat /\ x.reserved \in Nat
    BY DEF JobRecs, PlanRecs
  <2>2. IsFiniteSet(calls) /\ Cardinality(calls) <= x.reserved /\ Cardinality(calls) <= x.plan.calls
    BY <1>0 DEF Counted, Over
  <2>3. Cardinality(calls) \in Nat
    BY <2>2, FS_CardinalityType
  <2> QED
    BY <2>1, <2>2, <2>3 DEF Counted, Early, Over
<1>2. Placed(y) /\ Answered(y, calls)
  BY <1>0 DEF Placed, Answered, Calling, Over
<1>3. Novel(j, y, calls, found, by)
  BY <1>0 DEF Novel
<1>4. Written(y, calls, own, lost, twice)
  BY <1>0 DEF Written, Early, Calling
<1>5. Balanced(y, calls, own, run)
  BY <1>0 DEF Balanced, Early, Sound, Calling, Over
<1>6. Settled(y, calls, run)
  BY <1>0 DEF Settled, Over
<1> QED
  BY <1>1, <1>2, <1>3, <1>4, <1>5, <1>6 DEF IntakeFits

(* A request that left, and what came back.                                *)
LEMMA SentFits ==
  ASSUME NEW j \in Jobs, NEW x \in JobRecs, NEW y \in JobRecs, NEW calls, NEW own, NEW run,
         NEW found, NEW by, NEW lost, NEW twice,
         IntakeFits(j, x, calls, own, run, found, by, lost, twice),
         \A r \in own : r.cost \in Nat,
         x.pc = "send", NEW answer \in Answers, NEW c \in CallRecs,
         c.stage = x.stage, c.ids = x.ids, c.charged \in Charges(answer),
         y.plan = x.plan, y.stage = x.stage, y.result = x.result, y.new = x.new, y.ids = x.ids,
         y.recorded = x.recorded, y.reserved = x.reserved, y.answer = answer,
         \/ y.pc = "save" /\ Readable(answer) /\ y.page \in SUBSET Videos
         \/ y.pc = "error"
  PROVE  IntakeFits(j, y, calls \cup {c}, own, run, found, by, lost, twice)
<1>0. /\ Counted(x, calls) /\ Placed(x) /\ Answered(x, calls) /\ Novel(j, x, calls, found, by)
      /\ Written(x, calls, own, lost, twice) /\ Balanced(x, calls, own, run) /\ Settled(x, calls, run)
  BY DEF IntakeFits
<1> DEFINE more == calls \cup {c}
<1>1. /\ IsFiniteSet(calls) /\ Cardinality(calls) + 1 <= x.reserved /\ x.reserved <= x.plan.calls
  BY <1>0 DEF Counted, Over
<1>2. /\ IsFiniteSet(more)
      /\ Cardinality(more) \in Nat /\ Cardinality(calls) \in Nat
      /\ Cardinality(more) <= Cardinality(calls) + 1
      /\ Due(calls) \in Nat /\ Due(more) \in Nat
      /\ Due(more) <= Due(calls) + UnitCost(x.stage)
  BY <1>1, DueAdd
<1>3. Counted(y, more)
  <2>1. x.plan.calls \in Nat /\ x.reserved \in Nat
    BY DEF JobRecs, PlanRecs
  <2> HIDE DEF more
  <2>2. Cardinality(more) <= x.reserved /\ Cardinality(more) <= x.plan.calls
    BY <1>1, <1>2, <2>1
  <2>3. y.pc \notin Early \cup {"send"}
    BY DEF Early
  <2> QED
    BY <1>1, <1>2, <2>1, <2>2, <2>3 DEF Counted
<1>4. Placed(y)
  BY <1>0 DEF Placed, Calling, Over
<1>5. Answered(y, more)
  BY DEF Answered, Calling
<1>6. Novel(j, y, more, found, by)
  BY <1>0 DEF Novel
<1>7. Written(y, more, own, lost, twice)
  BY <1>0 DEF Written, Early, Calling
<1>8. Balanced(y, more, own, run)
  <2>1. IsFiniteSet(own) /\ x.recorded = own /\ run.cost = NoCost /\ Due(calls) <= Paid(own)
    BY <1>0 DEF Balanced, Sound, Calling, Over
  <2>2. Paid(own) \in Nat /\ UnitCost(x.stage) \in Nat
    <3>1. IsFiniteSet(Unpriced(own))
      BY <2>1, FS_Subset DEF Unpriced
    <3>2. PriceOf(Unpriced(own)) \in Nat /\ SumOfCosts(own) \in Nat
      BY <2>1, <3>1, PriceIsNat, CostIsNat
    <3> QED
      BY <3>2, UnitCostIsNat DEF Paid
  <2> HIDE DEF more
  <2>3. Due(more) <= Paid(own) + UnitCost(x.stage)
    BY <1>2, <2>1, <2>2
  <2>4. y.pc = "error" => y.pc \notin Sound
    BY DEF Sound, Early, Calling
  <2> QED
    BY <2>1, <2>3, <2>4 DEF Balanced, Calling
<1>9. Settled(y, more, run)
  BY <1>0 DEF Settled, Over
<1> QED
  BY <1>3, <1>4, <1>5, <1>6, <1>7, <1>8, <1>9 DEF IntakeFits

(* What a call is quoted at is due and unknown, or paid for.               *)
LEMMA Quoted ==
  ASSUME NEW phase \in Stages, NEW answer \in Answers
  PROVE  /\ QuoteCall(phase, answer).billing \in Billings /\ QuoteCall(phase, answer).cost \in Nat
         /\ \A charged \in Charges(answer) :
              /\ QuoteCall(phase, answer).billing = "known_zero" => ~charged
              /\ QuoteCall(phase, answer).billing = "estimated" => charged
         /\ Readable(answer) =>
              QuoteCall(phase, answer).cost
                + (IF QuoteCall(phase, answer).billing = "unknown" THEN UnitCost(phase) ELSE 0)
                = UnitCost(phase)
<1>1. UnitCost(phase) \in Nat
  BY UnitCostIsNat
<1>2. CASE answer = "ok"
  <2>1. QuoteCall(phase, answer) = [billing |-> "estimated", cost |-> UnitCost(phase)]
    BY <1>2 DEF QuoteCall
  <2>2. Charges(answer) = {TRUE}
    BY <1>2 DEF Charges
  <2>3. \A charged \in Charges(answer) : charged
    BY <2>2
  <2>4. QuoteCall(phase, answer).billing = "estimated" /\ QuoteCall(phase, answer).cost = UnitCost(phase)
    BY <2>1
  <2> QED
    BY <1>1, <2>3, <2>4 DEF Billings
<1>3. CASE answer = "refused"
  <2>1. QuoteCall(phase, answer) = [billing |-> "known_zero", cost |-> 0]
    BY <1>3 DEF QuoteCall
  <2>2. Charges(answer) = {FALSE} /\ ~Readable(answer)
    BY <1>3 DEF Charges, Readable
  <2>3. \A charged \in Charges(answer) : ~charged
    BY <2>2
  <2>4. QuoteCall(phase, answer).billing = "known_zero" /\ QuoteCall(phase, answer).cost = 0
    BY <2>1
  <2> QED
    BY <2>2, <2>3, <2>4 DEF Billings
<1>4. CASE answer \in {"odd", "lost"}
  <2>1. QuoteCall(phase, answer) = [billing |-> "unknown", cost |-> 0]
    BY <1>4 DEF QuoteCall
  <2>2. QuoteCall(phase, answer).billing = "unknown" /\ QuoteCall(phase, answer).cost = 0
    BY <2>1
  <2> QED
    BY <1>1, <2>2 DEF Billings
<1> QED
  BY <1>2, <1>3, <1>4 DEF Answers

(* The page was cached: its row costs nothing.                             *)
LEMMA CachedFits ==
  ASSUME NEW j, NEW x \in JobRecs, NEW y \in JobRecs, NEW calls, NEW own, NEW fresh, NEW run,
         NEW found, NEW by, NEW lost, NEW twice, NEW doubtful, NEW row \in RowRecs,
         IntakeFits(j, x, calls, own, run, found, by, lost, twice),
         \A r \in own : r.cost \in Nat, twice \subseteq doubtful,
         x.pc = "lookup", row.stage = x.stage, row.cached, row.billing = "known_zero", row.cost = 0,
         y.plan = x.plan, y.stage = x.stage, y.result = x.result, y.new = x.new, y.ids = x.ids,
         y.recorded = x.recorded \cup {row}, y.reserved = x.reserved, y.page \in SUBSET Videos,
         \/ y.pc = "ingest" /\ fresh = own \cup {row}
         \/ y.pc = "fail" /\ fresh \in {own, own \cup {row}}
  PROVE  IntakeFits(j, y, calls, fresh, run, found, by, lost, doubtful)
<1>0. /\ Counted(x, calls) /\ Placed(x) /\ Answered(x, calls) /\ Novel(j, x, calls, found, by)
      /\ Written(x, calls, own, lost, twice) /\ Balanced(x, calls, own, run) /\ Settled(x, calls, run)
  BY DEF IntakeFits
<1>1. Counted(y, calls)
  BY <1>0 DEF Counted, Early, Over
<1>2. Placed(y) /\ Answered(y, calls)
  BY <1>0 DEF Placed, Answered, Calling, Over
<1>3. Novel(j, y, calls, found, by)
  BY <1>0 DEF Novel
<1>4. /\ \A r \in own : r.stage # x.stage
      /\ row \notin own
  BY <1>0 DEF Written
<1>5. Written(y, calls, fresh, lost, doubtful)
  <2>1. fresh \in {own, own \cup {row}}
    OBVIOUS
  <2>2. \A r1, r2 \in fresh : r1.stage = r2.stage /\ r1 # r2 => r1.stage \in doubtful
    BY <1>0, <1>4, <2>1 DEF Written
  <2>3. \A r \in fresh : ~r.cached => \E a \in calls : RowOf(r, a)
    BY <1>0, <2>1 DEF Written
  <2>4. \A a \in calls : a.stage \in lost \/ \E r \in fresh : r.stage = a.stage /\ ~r.cached
    BY <1>0, <2>1 DEF Written, Calling
  <2>5. x.stage = "discovery" => \A r \in fresh : r.stage = "discovery"
    BY <1>0, <2>1 DEF Written
  <2> QED
    BY <2>2, <2>3, <2>4, <2>5 DEF Written, Early, Calling
<1>6. Balanced(y, calls, fresh, run)
  <2>1. IsFiniteSet(own) /\ x.recorded = own /\ run.cost = NoCost /\ Due(calls) <= Paid(own)
    BY <1>0 DEF Balanced, Sound, Calling, Over
  <2>2. IsFiniteSet(own \cup {row}) /\ Paid(own \cup {row}) = Paid(own) /\ Paid(own) \in Nat
    <3>1. \A r \in own \cup {row} : r.cost \in Nat
      OBVIOUS
    <3>2. /\ IsFiniteSet(own \cup {row}) /\ Paid(own) \in Nat
          /\ Paid(own \cup {row}) =
               Paid(own) + row.cost + (IF row.billing = "unknown" THEN UnitCost(row.stage) ELSE 0)
      BY <1>4, <2>1, <3>1, PaidAdd
    <3> QED
      BY <3>2
  <2>3. y.pc = "fail" => y.pc \notin Sound
    BY DEF Sound, Early, Calling
  <2> QED
    BY <2>1, <2>2, <2>3 DEF Balanced, Calling
<1>7. Settled(y, calls, run)
  BY <1>0 DEF Settled, Over
<1> QED
  BY <1>1, <1>2, <1>3, <1>5, <1>6, <1>7 DEF IntakeFits

(* The row of a call that left: written, written for all that was said, or *)
(* not.                                                                    *)
LEMMA RecordedFits ==
  ASSUME NEW j, NEW x \in JobRecs, NEW y \in JobRecs, NEW calls, NEW own, NEW fresh, NEW run,
         NEW found, NEW by, NEW lost, NEW missed, NEW twice, NEW doubtful, NEW row \in RowRecs,
         IntakeFits(j, x, calls, own, run, found, by, lost, twice),
         \A r \in own : r.cost \in Nat, twice \subseteq doubtful, lost \subseteq missed,
         x.pc \in {"record", "error"}, row.stage = x.stage, ~row.cached,
         row.billing = QuoteCall(x.stage, x.answer).billing,
         row.cost = QuoteCall(x.stage, x.answer).cost,
         y.plan = x.plan, y.stage = x.stage, y.result = x.result, y.new = x.new, y.ids = x.ids,
         y.recorded = x.recorded \cup {row}, y.reserved = x.reserved, y.page = x.page,
         y.answer = x.answer,
         \/ x.pc = "record" /\ y.pc = "ingest" /\ fresh = own \cup {row}
         \/ x.pc = "record" /\ y.pc = "error" /\ fresh = own \cup {row} /\ x.stage \in doubtful
         \/ x.pc = "record" /\ y.pc = "error" /\ fresh = own
         \/ x.pc = "error" /\ y.pc = "fail" /\ fresh = own \cup {row}
         \/ x.pc = "error" /\ y.pc = "fail" /\ fresh = own /\ x.stage \in missed
  PROVE  IntakeFits(j, y, calls, fresh, run, found, by, missed, doubtful)
<1>0. /\ Counted(x, calls) /\ Placed(x) /\ Answered(x, calls) /\ Novel(j, x, calls, found, by)
      /\ Written(x, calls, own, lost, twice) /\ Balanced(x, calls, own, run) /\ Settled(x, calls, run)
  BY DEF IntakeFits
<1>1. Counted(y, calls)
  BY <1>0 DEF Counted, Early, Over
<1>2. Placed(y) /\ Answered(y, calls)
  BY <1>0 DEF Placed, Answered, Calling, Over
<1>3. Novel(j, y, calls, found, by)
  BY <1>0 DEF Novel
<1>4. /\ x.answer \in Answers
      /\ \E a \in calls : a.stage = x.stage /\ a.charged \in Charges(x.answer)
      /\ x.pc = "record" => Readable(x.answer)
  BY <1>0 DEF Answered, Calling
<1>5. x.stage \in Stages
  BY DEF JobRecs
<1>6. /\ \A charged \in Charges(x.answer) :
           /\ row.billing = "known_zero" => ~charged
           /\ row.billing = "estimated" => charged
      /\ Readable(x.answer) =>
           row.cost + (IF row.billing = "unknown" THEN UnitCost(x.stage) ELSE 0) = UnitCost(x.stage)
  BY <1>4, <1>5, Quoted
<1>7. \E a \in calls : RowOf(row, a)
  BY <1>4, <1>6 DEF RowOf
<1>8. Written(y, calls, fresh, missed, doubtful)
  <2>1. fresh \in {own, own \cup {row}}
    OBVIOUS
  <2>2. \A r \in own : r.stage = x.stage => x.pc = "error" /\ x.stage \in twice
    BY <1>0 DEF Written, Calling
  <2>3. \A r1, r2 \in fresh : r1.stage = r2.stage /\ r1 # r2 => r1.stage \in doubtful
    <3>1. \A r1, r2 \in own : r1.stage = r2.stage /\ r1 # r2 => r1.stage \in doubtful
      BY <1>0 DEF Written
    <3> QED
      BY <2>1, <2>2, <3>1
  <2>4. \A r \in fresh : ~r.cached => \E a \in calls : RowOf(r, a)
    BY <1>0, <1>7, <2>1 DEF Written
  <2>5. ASSUME NEW a \in calls
        PROVE  \/ y.stage = a.stage /\ y.pc \in Calling \cup {"error", "dead"}
               \/ a.stage \in missed
               \/ \E r \in fresh : r.stage = a.stage /\ ~r.cached
    <3>1. CASE a.stage = x.stage
      BY <3>1
    <3>2. CASE a.stage # x.stage
      BY <1>0, <2>1, <3>2 DEF Written
    <3> QED
      BY <3>1, <3>2
  <2>6. x.stage = "discovery" => \A r \in fresh : r.stage = "discovery"
    BY <1>0, <2>1 DEF Written
  <2>7. y.pc = "error" => \A r \in fresh : r.stage = x.stage => x.stage \in doubtful
    BY <2>2
  <2>8. y.pc \notin Early \cup Calling \cup {"lookup", "send"}
    BY DEF Early, Calling
  <2> QED
    BY <2>3, <2>4, <2>5, <2>6, <2>7, <2>8 DEF Written
<1>9. Balanced(y, calls, fresh, run)
  <2>1. IsFiniteSet(own) /\ run.cost = NoCost
    BY <1>0 DEF Balanced, Sound, Calling, Over
  <2>2. IsFiniteSet(fresh)
    BY <2>1, FS_AddElement
  <2>3. CASE y.pc = "ingest"
    <3>1. x.recorded = own /\ Due(calls) <= Paid(own) + UnitCost(x.stage)
      BY <1>0, <2>3 DEF Balanced, Sound, Calling
    <3>2. row \notin own
      BY <1>0, <2>3 DEF Written, Calling
    <3>3. \A r \in own \cup {row} : r.cost \in Nat
      BY DEF RowRecs
    <3>4. /\ Paid(own) \in Nat
          /\ Paid(own \cup {row}) =
               Paid(own) + row.cost + (IF row.billing = "unknown" THEN UnitCost(row.stage) ELSE 0)
      BY <2>1, <3>2, <3>3, PaidAdd
    <3>5. row.cost \in Nat /\ UnitCost(x.stage) \in Nat
      BY <3>3, UnitCostIsNat
    <3>6. Paid(own \cup {row}) = Paid(own) + UnitCost(x.stage)
      BY <1>4, <1>6, <2>3, <3>4, <3>5
    <3>7. fresh = own \cup {row} /\ y.recorded = fresh
      BY <2>3, <3>1
    <3> QED
      BY <2>1, <2>2, <2>3, <3>1, <3>6, <3>7 DEF Balanced, Calling
  <2>4. CASE y.pc # "ingest"
    <3>1. y.pc \notin Sound
      BY <2>4 DEF Sound, Early, Calling
    <3> QED
      BY <2>1, <2>2, <3>1 DEF Balanced
  <2> QED
    BY <2>3, <2>4
<1>10. Settled(y, calls, run)
  BY <1>0 DEF Settled, Over
<1> QED
  BY <1>1, <1>2, <1>3, <1>8, <1>9, <1>10 DEF IntakeFits

(* A page that was ingested: y follows x, new and ids are what the page    *)
(* brings, and since says who inserted a video once it has been.           *)
IngestsTo(j, x, y, fresh, ids, by, since) ==
  /\ x.pc = "ingest"
  /\ x.stage = "discovery" => \A v : v \in fresh <=> (v \in x.page /\ by[v] = NoJob)
  /\ x.stage # "discovery" => fresh = x.new
  /\ ids = IF x.stage = "discovery" THEN DetailIds(x.plan, x.page, fresh) ELSE {}
  /\ \A v \in Videos : since[v] = IF v \in x.page /\ by[v] = NoJob THEN j ELSE by[v]
  /\ y.plan = x.plan /\ y.result = x.result /\ y.new = fresh /\ y.reserved = x.reserved
  /\ y.recorded = x.recorded
  /\ y.pc = IF ids = {} THEN "score" ELSE "lookup"
  /\ y.stage = IF ids = {} THEN x.stage ELSE "details"
  /\ y.ids = IF ids = {} THEN x.ids ELSE ids

LEMMA IngestedFits ==
  ASSUME NEW j, j # NoJob, NEW x \in JobRecs, NEW y \in JobRecs, NEW calls \in SUBSET CallRecs,
         NEW own, NEW run, NEW found, NEW now, NEW by, NEW lost, NEW twice, NEW fresh, NEW ids, NEW since,
         IntakeFits(j, x, calls, own, run, found, by, lost, twice),
         IngestsTo(j, x, y, fresh, ids, by, since),
         \A v \in Videos : now[v] = "new" => found[v] = "new"
  PROVE  IntakeFits(j, y, calls, own, run, now, since, lost, twice)
<1> USE DEF IngestsTo
<1>0. /\ Counted(x, calls) /\ Placed(x) /\ Answered(x, calls) /\ Novel(j, x, calls, found, by)
      /\ Written(x, calls, own, lost, twice) /\ Balanced(x, calls, own, run) /\ Settled(x, calls, run)
  BY DEF IntakeFits
<1>1. Counted(y, calls)
  BY <1>0 DEF Counted, Early, Over
<1>2. x.page \subseteq Videos /\ [stage |-> x.stage, ids |-> x.ids] \in Requests
  BY <1>0 DEF Placed, Calling, Over
<1>3. ids # {} => x.stage = "discovery" /\ ids \in SUBSET Videos
  BY <1>2 DEF DetailIds
<1>4. Placed(y)
  <2>1. [stage |-> y.stage, ids |-> y.ids] \in Requests
    <3>1. CASE ids = {}
      BY <1>2, <3>1
    <3>2. CASE ids # {}
      <4>1. y.stage = "details" /\ y.ids = ids /\ ids \in (SUBSET Videos) \ {{}}
        BY <1>3, <3>2
      <4>2. [stage |-> "details", ids |-> ids] \in Requests
        BY <4>1 DEF Requests
      <4> QED
        BY <4>1, <4>2
    <3> QED
      BY <3>1, <3>2
  <2>2. y.pc \notin Calling \cup {"ingest"}
    BY DEF Calling
  <2> QED
    BY <2>1, <2>2 DEF Placed
<1>5. Answered(y, calls)
  BY DEF Answered, Calling
<1>6. \A v \in Videos : by[v] = j => since[v] = j
  OBVIOUS
<1>7. \A v \in Videos : v \in x.page /\ by[v] = NoJob => since[v] = j
  OBVIOUS
<1>8. Novel(j, y, calls, now, since)
  <2>1. x.new \subseteq Videos /\ x.ids \subseteq Videos
    BY DEF JobRecs
  <2>2. \A v \in fresh : since[v] = j
    BY <1>0, <1>2, <1>6, <1>7, <2>1 DEF Novel
  <2>3. y.plan.novel /\ y.stage = "details" => \A v \in y.ids : since[v] = j
    <3>1. CASE ids = {}
      BY <1>0, <1>6, <2>1, <3>1 DEF Novel
    <3>2. CASE ids # {}
      BY <1>3, <2>2, <3>2 DEF DetailIds
    <3> QED
      BY <3>1, <3>2
  <2>4. \A a \in calls : a.stage = "details" /\ y.plan.novel => \A v \in a.ids : since[v] = j
    <3>1. \A a \in calls : a.ids \subseteq Videos
      BY DEF CallRecs
    <3> QED
      BY <1>0, <1>6, <3>1 DEF Novel
  <2>5. \A v \in Videos : now[v] = "new" => since[v] = j
    BY <1>0, <1>6 DEF Novel
  <2> QED
    BY <2>2, <2>3, <2>4, <2>5 DEF Novel
<1>9. Written(y, calls, own, lost, twice)
  BY <1>0, <1>3 DEF Written, Early, Calling
<1>10. Balanced(y, calls, own, run)
  BY <1>0 DEF Balanced, Early, Sound, Calling, Over
<1>11. Settled(y, calls, run)
  BY <1>0 DEF Settled, Over
<1> QED
  BY <1>1, <1>4, <1>5, <1>8, <1>9, <1>10, <1>11 DEF IntakeFits

(* Another job's step only inserts what nobody had inserted.               *)
LEMMA InsertedSince ==
  ASSUME NEW j, j # NoJob, NEW x \in JobRecs, NEW calls \in SUBSET CallRecs,
         NEW own, NEW run, NEW found, NEW by, NEW since, NEW lost, NEW twice,
         IntakeFits(j, x, calls, own, run, found, by, lost, twice),
         \A v \in Videos : by[v] # NoJob => since[v] = by[v]
  PROVE  IntakeFits(j, x, calls, own, run, found, since, lost, twice)
<1>1. x.new \subseteq Videos /\ x.ids \subseteq Videos /\ \A a \in calls : a.ids \subseteq Videos
  BY DEF JobRecs, CallRecs
<1>2. Novel(j, x, calls, found, by)
  BY DEF IntakeFits
<1>3. Novel(j, x, calls, found, since)
  BY <1>1, <1>2 DEF Novel
<1> QED
  BY <1>3 DEF IntakeFits

-----------------------------------------------------------------------------
(* The invariant of a day: the calls made on it, those about to leave, its *)
(* ledger and the highest ceiling that it has had.                         *)

LedgerRows == [ceiling : Nat \cup {NoCeiling}, used : Nat, spent : Nat]
OnDay(d, calls) == {a \in calls : a.day = d}
Sending(d) ==
  {c \in [job : Jobs, stage : Stages] :
     job[c.job].pc = "send" /\ job[c.job].day = d /\ job[c.job].stage = c.stage}

DayFits(made, out, book, top) ==
  /\ IsFiniteSet(made) /\ IsFiniteSet(out)
  /\ book = NoLedger => made = {} /\ out = {}
  /\ book # NoLedger =>
       /\ Cardinality(made) + Cardinality(out) <= book.used
       /\ Due(made) + PriceOf(out) <= book.spent
       /\ Within(book.spent, top)
       /\ top = NoCeiling \/ (book.ceiling # NoCeiling /\ book.ceiling <= top)

LEMMA DayNumbers ==
  ASSUME NEW made, IsFiniteSet(made), NEW out, IsFiniteSet(out)
  PROVE  /\ Cardinality(made) \in Nat /\ Cardinality(out) \in Nat
         /\ Due(made) \in Nat /\ PriceOf(out) \in Nat
<1>1. IsFiniteSet({a \in made : a.charged})
  BY FS_Subset
<1>2. Due(made) \in Nat /\ PriceOf(out) \in Nat
  BY <1>1, PriceIsNat DEF Due
<1> QED
  BY <1>2, FS_CardinalityType

LEMMA DayConfigured ==
  ASSUME NEW made, NEW out, NEW book \in LedgerRows \cup {NoLedger}, NEW top \in Nat \cup {NoCeiling},
         DayFits(made, out, book, top), NEW ceiling \in Nat \cup {NoCeiling}, NEW next, NEW above,
         next = IF book = NoLedger THEN [ceiling |-> ceiling, used |-> 0, spent |-> 0]
                                   ELSE [book EXCEPT !.ceiling = ceiling],
         above = IF ceiling = NoCeiling \/ top = NoCeiling THEN NoCeiling ELSE Max({top, ceiling})
  PROVE  /\ next \in LedgerRows /\ next.ceiling = ceiling /\ above \in Nat \cup {NoCeiling}
         /\ DayFits(made, out, next, above)
<1>1. next \in LedgerRows /\ next.ceiling = ceiling
  BY DEF LedgerRows
<1>2. above = NoCeiling \/ (above \in Nat /\ top \in Nat /\ ceiling \in Nat /\ top <= above /\ ceiling <= above)
  <2>1. CASE ceiling = NoCeiling \/ top = NoCeiling
    BY <2>1
  <2>2. CASE ceiling # NoCeiling /\ top # NoCeiling
    <3>1. above = Max({top, ceiling}) /\ top \in Nat /\ ceiling \in Nat
      BY <2>2
    <3>2. Max({top, ceiling}) \in Nat /\ top <= Max({top, ceiling}) /\ ceiling <= Max({top, ceiling})
      <4>1. CASE top <= ceiling
        <5>1. Max({top, ceiling}) = ceiling
          BY <3>1, <4>1 DEF Max
        <5> QED
          BY <3>1, <4>1, <5>1
      <4>2. CASE ~(top <= ceiling)
        <5>1. ceiling <= top
          BY <3>1, <4>2
        <5>2. Max({top, ceiling}) = top
          BY <3>1, <5>1 DEF Max
        <5> QED
          BY <3>1, <5>1, <5>2
      <4> QED
        BY <4>1, <4>2
    <3> QED
      BY <3>1, <3>2
  <2> QED
    BY <2>1, <2>2
<1>3. NoLedger \notin LedgerRows /\ NoCeiling \notin Nat
  BY IntakeAssumption DEF LedgerRows
<1>4. next # NoLedger
  BY <1>1, <1>3
<1>5. IsFiniteSet(made) /\ IsFiniteSet(out)
  BY DEF DayFits
<1>6. CASE book = NoLedger
  <2>1. made = {} /\ out = {}
    BY <1>6 DEF DayFits
  <2>2. Cardinality(made) = 0 /\ Cardinality(out) = 0
    BY <2>1, FS_EmptySet
  <2>3. Due(made) = 0 /\ PriceOf(out) = 0
    <3>1. {a \in made : a.charged} = {}
      BY <2>1
    <3> QED
      BY <2>1, <3>1, PriceOfNone DEF Due
  <2>4. next.used = 0 /\ next.spent = 0
    BY <1>6
  <2>5. above = NoCeiling \/ 0 <= above
    BY <1>2
  <2> QED
    BY <1>1, <1>2, <1>3, <1>4, <1>5, <2>2, <2>3, <2>4, <2>5 DEF DayFits, Within
<1>7. CASE book # NoLedger
  <2>1. book \in LedgerRows
    BY <1>7
  <2>2. next.used = book.used /\ next.spent = book.spent /\ book.spent \in Nat
    BY <1>7, <2>1 DEF LedgerRows
  <2>3. /\ Cardinality(made) + Cardinality(out) <= book.used
        /\ Due(made) + PriceOf(out) <= book.spent
        /\ top = NoCeiling \/ book.spent <= top
    BY <1>7 DEF DayFits, Within
  <2>4. above = NoCeiling \/ book.spent <= above
    BY <1>2, <1>3, <2>2, <2>3
  <2> QED
    BY <1>1, <1>2, <1>3, <1>4, <1>5, <2>2, <2>3, <2>4 DEF DayFits, Within
<1> QED
  BY <1>1, <1>2, <1>6, <1>7

(* A reservation books one call more.                                      *)
LEMMA DayReserved ==
  ASSUME NEW made, NEW out, NEW book \in LedgerRows, NEW top \in Nat \cup {NoCeiling},
         DayFits(made, out, book, top), NEW c, c \notin out, NEW next \in LedgerRows,
         Within(book.spent + UnitCost(c.stage), book.ceiling),
         next.ceiling = book.ceiling, next.used = book.used + 1,
         next.spent = book.spent + UnitCost(c.stage)
  PROVE  DayFits(made, out \cup {c}, next, top)
<1>1. NoLedger \notin LedgerRows /\ NoCeiling \notin Nat
  BY IntakeAssumption DEF LedgerRows
<1>2. /\ IsFiniteSet(made) /\ IsFiniteSet(out)
      /\ Cardinality(made) + Cardinality(out) <= book.used
      /\ Due(made) + PriceOf(out) <= book.spent
      /\ top = NoCeiling \/ (book.ceiling # NoCeiling /\ book.ceiling <= top)
  BY <1>1 DEF DayFits
<1>3. IsFiniteSet(out \cup {c}) /\ Cardinality(out \cup {c}) = Cardinality(out) + 1
  BY <1>2, FS_AddElement
<1>4. PriceOf(out \cup {c}) = PriceOf(out) + UnitCost(c.stage)
  BY <1>2, PriceAdd
<1>5. /\ Cardinality(made) \in Nat /\ Cardinality(out) \in Nat
      /\ Due(made) \in Nat /\ PriceOf(out) \in Nat
  BY <1>2, DayNumbers
<1>6. /\ book.used \in Nat /\ book.spent \in Nat /\ UnitCost(c.stage) \in Nat
      /\ book.ceiling \in Nat \cup {NoCeiling}
  BY UnitCostIsNat DEF LedgerRows
<1>7. Cardinality(made) + Cardinality(out \cup {c}) <= next.used
  BY <1>2, <1>3, <1>5, <1>6
<1>8. Due(made) + PriceOf(out \cup {c}) <= next.spent
  BY <1>2, <1>4, <1>5, <1>6
<1>9. top = NoCeiling \/ next.spent <= top
  <2>1. CASE top # NoCeiling
    <3>1. book.ceiling \in Nat /\ top \in Nat /\ book.ceiling <= top
      BY <1>2, <1>6, <2>1
    <3>2. next.spent <= book.ceiling /\ next.spent \in Nat
      BY <1>1, <1>6, <3>1 DEF Within
    <3> QED
      BY <3>1, <3>2
  <2> QED
    BY <2>1
<1> QED
  BY <1>1, <1>2, <1>3, <1>7, <1>8, <1>9 DEF DayFits, Within

(* One call less is about to leave.                                        *)
LEMMA DayDied ==
  ASSUME NEW made, NEW out, NEW book \in LedgerRows \cup {NoLedger}, NEW top,
         DayFits(made, out, book, top), NEW c \in out
  PROVE  /\ DayFits(made, out \ {c}, book, top) /\ book # NoLedger
         /\ Cardinality(out) = Cardinality(out \ {c}) + 1
         /\ PriceOf(out) = PriceOf(out \ {c}) + UnitCost(c.stage)
<1> DEFINE rest == out \ {c}
<1>1. IsFiniteSet(made) /\ IsFiniteSet(out) /\ book # NoLedger
  BY DEF DayFits
<1>2. /\ IsFiniteSet(rest) /\ out = rest \cup {c} /\ c \notin rest
  BY <1>1, FS_RemoveElement
<1>3. /\ Cardinality(made) + Cardinality(out) <= book.used
      /\ Due(made) + PriceOf(out) <= book.spent
  BY <1>1 DEF DayFits
<1> HIDE DEF rest
<1>4. Cardinality(out) = Cardinality(rest) + 1
  <2>1. Cardinality(rest \cup {c}) = Cardinality(rest) + 1
    BY <1>2, FS_AddElement
  <2> QED
    BY <1>2, <2>1
<1>5. PriceOf(out) = PriceOf(rest) + UnitCost(c.stage)
  <2>1. PriceOf(rest \cup {c}) = PriceOf(rest) + UnitCost(c.stage)
    BY <1>2, PriceAdd
  <2> QED
    BY <1>2, <2>1
<1>6. /\ Cardinality(made) \in Nat /\ Cardinality(rest) \in Nat
      /\ Due(made) \in Nat /\ PriceOf(rest) \in Nat /\ UnitCost(c.stage) \in Nat
  BY <1>1, <1>2, DayNumbers, UnitCostIsNat
<1>7. book.used \in Nat /\ book.spent \in Nat
  BY <1>1 DEF LedgerRows
<1>8. /\ Cardinality(made) + Cardinality(rest) <= book.used
      /\ Due(made) + PriceOf(rest) <= book.spent
  BY <1>3, <1>4, <1>5, <1>6, <1>7
<1>9. DayFits(made, rest, book, top)
  BY <1>1, <1>2, <1>8 DEF DayFits
<1> QED
  BY <1>1, <1>4, <1>5, <1>9 DEF rest

(* What was about to leave has left.                                       *)
LEMMA DaySent ==
  ASSUME NEW made, NEW out, NEW book \in LedgerRows \cup {NoLedger}, NEW top,
         DayFits(made, out, book, top), NEW c \in out, NEW a, a.stage = c.stage
  PROVE  DayFits(made \cup {a}, out \ {c}, book, top)
<1> DEFINE rest == out \ {c}
           more == made \cup {a}
<1>1. /\ DayFits(made, rest, book, top) /\ book # NoLedger
      /\ Cardinality(out) = Cardinality(rest) + 1
      /\ PriceOf(out) = PriceOf(rest) + UnitCost(c.stage)
  BY DayDied
<1>2. IsFiniteSet(made) /\ IsFiniteSet(rest)
  BY <1>1 DEF DayFits
<1>3. /\ IsFiniteSet(more)
      /\ Cardinality(more) \in Nat
      /\ Cardinality(more) <= Cardinality(made) + 1
      /\ Due(more) \in Nat
      /\ Due(more) <= Due(made) + UnitCost(c.stage)
  BY <1>2, DueAdd
<1>4. /\ Cardinality(made) + Cardinality(out) <= book.used
      /\ Due(made) + PriceOf(out) <= book.spent
      /\ Within(book.spent, top)
      /\ top = NoCeiling \/ (book.ceiling # NoCeiling /\ book.ceiling <= top)
  BY <1>1 DEF DayFits
<1>5. book.used \in Nat /\ book.spent \in Nat
  BY <1>1 DEF LedgerRows
<1> HIDE DEF rest, more
<1>6. /\ Cardinality(made) \in Nat /\ Cardinality(rest) \in Nat
      /\ Due(made) \in Nat /\ PriceOf(rest) \in Nat /\ UnitCost(c.stage) \in Nat
  BY <1>2, DayNumbers, UnitCostIsNat
<1>7. /\ Cardinality(more) + Cardinality(rest) <= book.used
      /\ Due(more) + PriceOf(rest) <= book.spent
  BY <1>1, <1>3, <1>4, <1>5, <1>6
<1>8. DayFits(more, rest, book, top)
  BY <1>1, <1>2, <1>3, <1>4, <1>7 DEF DayFits
<1> QED
  BY <1>8 DEF more, rest

-----------------------------------------------------------------------------
(* The invariant of the intake.                                            *)

Marks == {NoItem, "L0", "L1", "new", "known"}
Lapses ==
  [count : Nat, lock : BOOLEAN, unrecorded : SUBSET (Jobs \X Stages),
   ambiguous : SUBSET (Jobs \X Stages)]

JobRuns == [status : {"none", "running", "success", "failed"}, cost : Nat \cup {NoCost}]

IntakeType ==
  /\ day \in 0..MaxDay
  /\ lock \in Jobs \cup {NoJob}
  /\ ledger \in [0..MaxDay -> LedgerRows \cup {NoLedger}]
  /\ cache \in [Requests -> (SUBSET Videos) \cup {NoPage}]
  /\ rows \in SUBSET RowRecs /\ attempts \in SUBSET CallRecs
  /\ inserted \in [Videos -> Jobs \cup {NoJob, Elsewhere}]
  /\ items \in [Jobs -> [Videos -> Marks]]
  /\ pipeline \in [Jobs -> JobRuns]
  /\ job \in [Jobs -> JobRecs]
  /\ peak \in [0..MaxDay -> Nat \cup {NoCeiling}]
  /\ lapses \in Lapses

StagesOf(j, calls) == {s \in Stages : <<j, s>> \in calls}

JobFits(j) ==
  IntakeFits(j, job[j], Own(j, attempts), Own(j, rows), pipeline[j], items[j], inserted,
             StagesOf(j, lapses.unrecorded), StagesOf(j, lapses.ambiguous))

Funded(d) == DayFits(OnDay(d, attempts), Sending(d), ledger[d], peak[d])

(* What the holder of the lock may rely on.                                *)
Past == {"create", "lookup", "send", "ingest"} \cup Calling
HolderFits(x, books, today) ==
  /\ x.pc \in Past =>
       books[today] = NoLedger \/ books[today].ceiling = x.plan.ceiling
  /\ x.reserved > 0 => books[x.day] # NoLedger /\ Within(books[x.day].spent, x.plan.ceiling)

LockKept ==
  ~lapses.lock =>
    \A j \in Jobs :
      /\ Running(j) => lock = j
      /\ lock = j => HolderFits(job[j], ledger, day)

FutureFree == \A d \in 0..MaxDay : d > day => ledger[d] = NoLedger

IntakeInv ==
  /\ IntakeType
  /\ \A j \in Jobs : JobFits(j)
  /\ \A d \in 0..MaxDay : Funded(d)
  /\ LockKept
  /\ FutureFree

-----------------------------------------------------------------------------
(* What a step of one job leaves alone.                                    *)

OthersKept(j) ==
  /\ \A k \in Jobs \ {j} :
       /\ job'[k] = job[k] /\ pipeline'[k] = pipeline[k] /\ items'[k] = items[k]
       /\ Own(k, attempts') = Own(k, attempts) /\ Own(k, rows') = Own(k, rows)
       /\ StagesOf(k, lapses'.unrecorded) = StagesOf(k, lapses.unrecorded)
       /\ StagesOf(k, lapses'.ambiguous) = StagesOf(k, lapses.ambiguous)
  /\ \A v \in Videos : inserted[v] # NoJob => inserted'[v] = inserted[v]

LEMMA OwnCalls ==
  ASSUME IntakeType, NEW j \in Jobs
  PROVE  /\ Own(j, attempts) \in SUBSET CallRecs /\ Own(j, rows) \in SUBSET RowRecs
         /\ job[j] \in JobRecs /\ j # NoJob
         /\ \A r \in Own(j, rows) : r.cost \in Nat
  BY IntakeAssumption DEF IntakeType, Own, RowRecs

LEMMA OthersFit ==
  ASSUME IntakeInv, NEW j \in Jobs, OthersKept(j), JobFits(j)'
  PROVE  \A k \in Jobs : JobFits(k)'
<1> SUFFICES ASSUME NEW k \in Jobs \ {j} PROVE JobFits(k)'
  OBVIOUS
<1>1. k # NoJob /\ job[k] \in JobRecs /\ Own(k, attempts) \in SUBSET CallRecs
  BY OwnCalls DEF IntakeInv
<1>2. \A v \in Videos : inserted[v] # NoJob => inserted'[v] = inserted[v]
  BY DEF OthersKept
<1>3. IntakeFits(k, job[k], Own(k, attempts), Own(k, rows), pipeline[k], items[k], inserted,
                 StagesOf(k, lapses.unrecorded), StagesOf(k, lapses.ambiguous))
  BY DEF IntakeInv, JobFits
<1>4. IntakeFits(k, job[k], Own(k, attempts), Own(k, rows), pipeline[k], items[k], inserted',
                 StagesOf(k, lapses.unrecorded), StagesOf(k, lapses.ambiguous))
  BY <1>1, <1>2, <1>3, InsertedSince
<1> QED
  BY <1>4 DEF JobFits, OthersKept

LEMMA SendingSame ==
  ASSUME NEW j \in Jobs, \A k \in Jobs \ {j} : job'[k] = job[k],
         job[j].pc # "send", job'[j].pc # "send"
  PROVE  \A d : Sending(d)' = Sending(d)
  BY DEF Sending

LEMMA FundedKept ==
  ASSUME IntakeInv, UNCHANGED <<ledger, peak, attempts>>,
         \A d \in 0..MaxDay : Sending(d)' = Sending(d)
  PROVE  \A d \in 0..MaxDay : Funded(d)'
  BY DEF IntakeInv, Funded

(* A job that moves on without a request, a row or the lock.               *)
LEMMA JobMovesOn ==
  ASSUME IntakeInv, IntakeType', NEW j \in Jobs, UNCHANGED <<day, lock, ledger, rows, attempts, inserted, peak>>,
         \A k \in Jobs \ {j} : job'[k] = job[k] /\ pipeline'[k] = pipeline[k] /\ items'[k] = items[k],
         lapses'.lock = lapses.lock, lapses'.unrecorded = lapses.unrecorded,
         lapses'.ambiguous = lapses.ambiguous,
         SameBut(job[j], job'[j]), Walks(job[j], job'[j], pipeline'[j]),
         job[j].pc \notin {"start", "configure"},
         pipeline'[j].cost = pipeline[j].cost,
         job[j].pc = "summary" => pipeline'[j] = pipeline[j],
         \A v \in Videos : items'[j][v] = "new" => items[j][v] = "new" \/ v \in job[j].new
  PROVE  IntakeInv'
<1>1. OthersKept(j)
  BY DEF OthersKept
<1>2. JobFits(j)'
  <2>1. job[j] \in JobRecs /\ job'[j] \in JobRecs
    BY DEF IntakeInv, IntakeType
  <2>2. IntakeFits(j, job[j], Own(j, attempts), Own(j, rows), pipeline[j], items[j], inserted,
                   StagesOf(j, lapses.unrecorded), StagesOf(j, lapses.ambiguous))
    BY DEF IntakeInv, JobFits
  <2>3. IntakeFits(j, job'[j], Own(j, attempts), Own(j, rows), pipeline'[j], items'[j], inserted,
                   StagesOf(j, lapses.unrecorded), StagesOf(j, lapses.ambiguous))
    BY <2>1, <2>2, Walked
  <2> QED
    BY <2>3 DEF JobFits
<1>3. \A k \in Jobs : JobFits(k)'
  BY <1>1, <1>2, OthersFit
<1>4. \A d \in 0..MaxDay : Funded(d)'
  <2>1. job[j].pc # "send" /\ job'[j].pc # "send"
    BY DEF Walks
  <2>2. \A d : Sending(d)' = Sending(d)
    BY <2>1, SendingSame
  <2> QED
    BY <2>2, FundedKept
<1>5. LockKept'
  <2> SUFFICES ASSUME ~lapses.lock, NEW k \in Jobs
               PROVE  (Running(k) => lock = k)' /\ (lock = k => HolderFits(job'[k], ledger, day))
    BY DEF LockKept
  <2>1. (Running(k) => lock = k) /\ (lock = k => HolderFits(job[k], ledger, day))
    BY DEF IntakeInv, LockKept
  <2>2. CASE k # j
    BY <2>1, <2>2 DEF Running
  <2>3. CASE k = j
    <3>1. Running(j)' => Running(j)
      BY DEF Walks, Running
    <3>2. HolderFits(job[j], ledger, day) => HolderFits(job'[j], ledger, day)
      BY DEF HolderFits, Past, Walks, SameBut, Calling
    <3> QED
      BY <2>1, <2>3, <3>1, <3>2
  <2> QED
    BY <2>2, <2>3
<1>6. FutureFree'
  BY DEF IntakeInv, FutureFree
<1> QED
  BY <1>3, <1>4, <1>5, <1>6 DEF IntakeInv

(* A process's next place is a place.                                      *)
LEMMA GoTyped ==
  ASSUME IntakeType, NEW j \in Jobs, NEW place \in Places, job' = [job EXCEPT ![j].pc = place]
  PROVE  /\ job' \in [Jobs -> JobRecs]
         /\ SameBut(job[j], job'[j]) /\ job'[j].pc = place /\ job'[j].result = job[j].result
         /\ \A k \in Jobs \ {j} : job'[k] = job[k]
<1>1. job \in [Jobs -> JobRecs] /\ job[j] \in JobRecs
  BY DEF IntakeType
<1>2. [job[j] EXCEPT !.pc = place] \in JobRecs /\ "pc" \in DOMAIN job[j]
  BY <1>1 DEF JobRecs
<1> QED
  BY <1>1, <1>2 DEF SameBut

LEMMA ToldTyped ==
  ASSUME IntakeType, NEW j \in Jobs, NEW place \in Places, NEW result \in Results,
         job' = [job EXCEPT ![j].pc = place, ![j].result = result]
  PROVE  /\ job' \in [Jobs -> JobRecs]
         /\ SameBut(job[j], job'[j]) /\ job'[j].pc = place /\ job'[j].result = result
         /\ \A k \in Jobs \ {j} : job'[k] = job[k]
<1>1. job \in [Jobs -> JobRecs] /\ job[j] \in JobRecs
  BY DEF IntakeType
<1>2. /\ [job[j] EXCEPT !.pc = place, !.result = result] \in JobRecs
      /\ "pc" \in DOMAIN job[j] /\ "result" \in DOMAIN job[j]
  BY <1>1 DEF JobRecs
<1> QED
  BY <1>1, <1>2 DEF SameBut

LEMMA LapseTyped ==
  ASSUME IntakeType, UNCHANGED lapses \/ Lapse
  PROVE  /\ lapses' \in Lapses
         /\ lapses'.lock = lapses.lock /\ lapses'.unrecorded = lapses.unrecorded
         /\ lapses'.ambiguous = lapses.ambiguous
<1>1. lapses \in Lapses
  BY DEF IntakeType
<1>2. CASE UNCHANGED lapses
  BY <1>1, <1>2
<1>3. CASE Lapse
  <2>1. lapses' = [lapses EXCEPT !.count = lapses.count + 1]
    BY <1>3 DEF Lapse
  <2>2. lapses.count + 1 \in Nat
    BY <1>1 DEF Lapses
  <2> QED
    BY <1>1, <2>1, <2>2 DEF Lapses
<1> QED
  BY <1>2, <1>3

LEMMA StatusTyped ==
  ASSUME IntakeType, NEW j \in Jobs, NEW status \in {"running", "success", "failed"},
         pipeline' = [pipeline EXCEPT ![j].status = status]
  PROVE  /\ pipeline' \in [Jobs -> JobRuns]
         /\ pipeline'[j].cost = pipeline[j].cost /\ pipeline'[j].status = status
         /\ \A k \in Jobs \ {j} : pipeline'[k] = pipeline[k]
<1>1. pipeline \in [Jobs -> JobRuns] /\ pipeline[j] \in JobRuns
  BY DEF IntakeType
<1>2. [pipeline[j] EXCEPT !.status = status] \in JobRuns /\ "status" \in DOMAIN pipeline[j]
  BY <1>1 DEF JobRuns
<1> QED
  BY <1>1, <1>2

LEMMA CheckCallerInv ==
  ASSUME IntakeInv, NEW j \in Jobs, CheckCaller(j)
  PROVE  IntakeInv'
<1>1. IntakeType
  BY DEF IntakeInv
<1>2. /\ job' \in [Jobs -> JobRecs] /\ SameBut(job[j], job'[j])
      /\ \A k \in Jobs \ {j} : job'[k] = job[k]
      /\ \/ job'[j].pc = "configure" /\ job'[j].result = job[j].result
         \/ job'[j].pc = "unlock" /\ job'[j].result = "refused"
  BY <1>1, GoTyped, ToldTyped DEF CheckCaller, Goto, Told, Places, Results
<1>3. IntakeType'
  BY <1>1, <1>2 DEF IntakeType, CheckCaller
<1>4. Walks(job[j], job'[j], pipeline'[j]) /\ job[j].pc \notin {"start", "configure", "summary"}
  BY <1>2 DEF Walks, CheckCaller, At
<1> QED
  BY <1>2, <1>3, <1>4, JobMovesOn DEF CheckCaller

LEMMA CreateRunInv ==
  ASSUME IntakeInv, NEW j \in Jobs, CreateRun(j)
  PROVE  IntakeInv'
<1>1. IntakeType
  BY DEF IntakeInv
<1>2. /\ job' \in [Jobs -> JobRecs] /\ SameBut(job[j], job'[j])
      /\ \A k \in Jobs \ {j} : job'[k] = job[k]
      /\ job'[j].pc = "lookup" /\ job'[j].result = job[j].result
  BY <1>1, GoTyped DEF CreateRun, Goto, Places
<1>3. /\ pipeline' \in [Jobs -> JobRuns]
      /\ pipeline'[j].cost = pipeline[j].cost /\ \A k \in Jobs \ {j} : pipeline'[k] = pipeline[k]
  BY <1>1, StatusTyped DEF CreateRun
<1>4. IntakeType'
  BY <1>1, <1>2, <1>3 DEF IntakeType, CreateRun
<1>5. Walks(job[j], job'[j], pipeline'[j]) /\ job[j].pc \notin {"start", "configure", "summary"}
  BY <1>2 DEF Walks, CreateRun, At
<1> QED
  BY <1>2, <1>3, <1>4, <1>5, JobMovesOn DEF CreateRun

LEMMA SaveResponseInv ==
  ASSUME IntakeInv, NEW j \in Jobs, SaveResponse(j)
  PROVE  IntakeInv'
<1>1. IntakeType
  BY DEF IntakeInv
<1>2. /\ job' \in [Jobs -> JobRecs] /\ SameBut(job[j], job'[j])
      /\ \A k \in Jobs \ {j} : job'[k] = job[k]
      /\ job'[j].pc \in {"record", "error"} /\ job'[j].result = job[j].result
  BY <1>1, GoTyped DEF SaveResponse, Goto, Places
<1>3. cache' \in [Requests -> (SUBSET Videos) \cup {NoPage}]
  <2>1. job[j].page \in (SUBSET Videos) \cup {NoPage}
    BY <1>1 DEF IntakeType, JobRecs
  <2> QED
    BY <1>1, <2>1 DEF IntakeType, SaveResponse
<1>4. UNCHANGED lapses \/ Lapse
  BY DEF SaveResponse
<1>5. /\ lapses' \in Lapses
      /\ lapses'.lock = lapses.lock /\ lapses'.unrecorded = lapses.unrecorded
      /\ lapses'.ambiguous = lapses.ambiguous
  BY <1>1, <1>4, LapseTyped
<1>6. IntakeType'
  BY <1>1, <1>2, <1>3, <1>5 DEF IntakeType, SaveResponse
<1>7. Walks(job[j], job'[j], pipeline'[j]) /\ job[j].pc \notin {"start", "configure", "summary"}
  BY <1>2 DEF Walks, SaveResponse, At
<1> QED
  BY <1>2, <1>5, <1>6, <1>7, JobMovesOn DEF SaveResponse

LEMMA FailStep ==
  ASSUME IntakeInv, IntakeType', NEW j \in Jobs,
         UNCHANGED <<day, lock, ledger, rows, attempts, inserted, peak, pipeline, items>>,
         UNCHANGED lapses \/ Lapse, Goto(j, "fail"),
         job[j].pc \in {"lookup", "ingest", "score", "flag", "finish"}
  PROVE  IntakeInv'
<1>1. IntakeType
  BY DEF IntakeInv
<1>2. /\ SameBut(job[j], job'[j]) /\ \A k \in Jobs \ {j} : job'[k] = job[k]
      /\ job'[j].pc = "fail" /\ job'[j].result = job[j].result
  BY <1>1, GoTyped DEF Goto, Places
<1>3. /\ lapses'.lock = lapses.lock /\ lapses'.unrecorded = lapses.unrecorded
      /\ lapses'.ambiguous = lapses.ambiguous
  BY <1>1, LapseTyped
<1>4. Walks(job[j], job'[j], pipeline'[j]) /\ job[j].pc \notin {"start", "configure", "summary"}
  BY <1>2 DEF Walks
<1> QED
  BY <1>2, <1>3, <1>4, JobMovesOn

LEMMA ScoreInv ==
  ASSUME IntakeInv, NEW j \in Jobs, Score(j)
  PROVE  IntakeInv'
<1> DEFINE mine == [v \in Videos |-> IF items[j][v] = "L0" THEN "L1" ELSE items[j][v]]
<1>1. IntakeType /\ items[j] \in [Videos -> Marks] /\ items \in [Jobs -> [Videos -> Marks]]
  BY DEF IntakeInv, IntakeType
<1>2. CASE items' = [items EXCEPT ![j] = mine] /\ Goto(j, "flag") /\ UNCHANGED lapses
  <2>1. mine \in [Videos -> Marks]
    BY <1>1 DEF Marks
  <2>2. \A v \in Videos : mine[v] = "new" => items[j][v] = "new"
    OBVIOUS
  <2> HIDE DEF mine
  <2>3. /\ items' \in [Jobs -> [Videos -> Marks]] /\ items'[j] = mine
        /\ \A k \in Jobs \ {j} : items'[k] = items[k]
    BY <1>1, <1>2, <2>1
  <2>4. /\ job' \in [Jobs -> JobRecs] /\ SameBut(job[j], job'[j])
        /\ \A k \in Jobs \ {j} : job'[k] = job[k]
        /\ job'[j].pc = "flag" /\ job'[j].result = job[j].result
    BY <1>1, <1>2, GoTyped DEF Goto, Places
  <2>5. IntakeType'
    BY <1>1, <1>2, <2>3, <2>4 DEF IntakeType, Score
  <2>6. Walks(job[j], job'[j], pipeline'[j]) /\ job[j].pc \notin {"start", "configure", "summary"}
    BY <2>4 DEF Walks, Score, At
  <2> QED
    BY <1>2, <2>2, <2>3, <2>4, <2>5, <2>6, JobMovesOn DEF Score
<1>3. CASE Lapse /\ Goto(j, "fail") /\ UNCHANGED items
  <2>1. job' \in [Jobs -> JobRecs] /\ lapses' \in Lapses
    BY <1>1, <1>3, GoTyped, LapseTyped DEF Goto, Places
  <2>2. IntakeType'
    BY <1>1, <1>3, <2>1 DEF IntakeType, Score
  <2>3. job[j].pc = "score"
    BY DEF Score, At
  <2> QED
    BY <1>3, <2>2, <2>3, FailStep DEF Score
<1> QED
  BY <1>2, <1>3 DEF Score

LEMMA FlagNewInv ==
  ASSUME IntakeInv, NEW j \in Jobs, FlagNew(j)
  PROVE  IntakeInv'
<1> DEFINE mine == [v \in Videos |-> IF items[j][v] # "L1" THEN items[j][v]
                                     ELSE IF v \in job[j].new THEN "new" ELSE "known"]
<1>1. IntakeType /\ items[j] \in [Videos -> Marks] /\ items \in [Jobs -> [Videos -> Marks]]
  BY DEF IntakeInv, IntakeType
<1>2. CASE items' = [items EXCEPT ![j] = mine] /\ Goto(j, "finish") /\ UNCHANGED lapses
  <2>1. mine \in [Videos -> Marks]
    BY <1>1 DEF Marks
  <2>2. \A v \in Videos : mine[v] = "new" => items[j][v] = "new" \/ v \in job[j].new
    OBVIOUS
  <2> HIDE DEF mine
  <2>3. /\ items' \in [Jobs -> [Videos -> Marks]] /\ items'[j] = mine
        /\ \A k \in Jobs \ {j} : items'[k] = items[k]
    BY <1>1, <1>2, <2>1
  <2>4. /\ job' \in [Jobs -> JobRecs] /\ SameBut(job[j], job'[j])
        /\ \A k \in Jobs \ {j} : job'[k] = job[k]
        /\ job'[j].pc = "finish" /\ job'[j].result = job[j].result
    BY <1>1, <1>2, GoTyped DEF Goto, Places
  <2>5. IntakeType'
    BY <1>1, <1>2, <2>3, <2>4 DEF IntakeType, FlagNew
  <2>6. Walks(job[j], job'[j], pipeline'[j]) /\ job[j].pc \notin {"start", "configure", "summary"}
    BY <2>4 DEF Walks, FlagNew, At
  <2> QED
    BY <1>2, <2>2, <2>3, <2>4, <2>5, <2>6, JobMovesOn DEF FlagNew
<1>3. CASE Lapse /\ Goto(j, "fail") /\ UNCHANGED items
  <2>1. job' \in [Jobs -> JobRecs] /\ lapses' \in Lapses
    BY <1>1, <1>3, GoTyped, LapseTyped DEF Goto, Places
  <2>2. IntakeType'
    BY <1>1, <1>3, <2>1 DEF IntakeType, FlagNew
  <2>3. job[j].pc = "flag"
    BY DEF FlagNew, At
  <2> QED
    BY <1>3, <2>2, <2>3, FailStep DEF FlagNew
<1> QED
  BY <1>2, <1>3 DEF FlagNew

LEMMA FinishRunInv ==
  ASSUME IntakeInv, NEW j \in Jobs, FinishRun(j)
  PROVE  IntakeInv'
<1>1. IntakeType
  BY DEF IntakeInv
<1>2. /\ job' \in [Jobs -> JobRecs] /\ SameBut(job[j], job'[j])
      /\ \A k \in Jobs \ {j} : job'[k] = job[k]
      /\ job'[j].pc \in {"cost", "fail"} /\ job'[j].result = job[j].result
  BY <1>1, GoTyped DEF FinishRun, Goto, Places
<1>3. /\ pipeline' \in [Jobs -> JobRuns]
      /\ pipeline'[j].cost = pipeline[j].cost /\ \A k \in Jobs \ {j} : pipeline'[k] = pipeline[k]
  <2>1. CASE pipeline' = pipeline
    BY <1>1, <2>1 DEF IntakeType
  <2>2. CASE pipeline' = [pipeline EXCEPT ![j].status = "success"]
    BY <1>1, <2>2, StatusTyped
  <2> QED
    BY <2>1, <2>2 DEF FinishRun
<1>4. UNCHANGED lapses \/ Lapse
  BY DEF FinishRun
<1>5. /\ lapses' \in Lapses
      /\ lapses'.lock = lapses.lock /\ lapses'.unrecorded = lapses.unrecorded
      /\ lapses'.ambiguous = lapses.ambiguous
  BY <1>1, <1>4, LapseTyped
<1>6. IntakeType'
  BY <1>1, <1>2, <1>3, <1>5 DEF IntakeType, FinishRun
<1>7. Walks(job[j], job'[j], pipeline'[j]) /\ job[j].pc \notin {"start", "configure", "summary"}
  BY <1>2 DEF Walks, FinishRun, At
<1> QED
  BY <1>2, <1>3, <1>5, <1>6, <1>7, JobMovesOn DEF FinishRun

LEMMA FailRunInv ==
  ASSUME IntakeInv, NEW j \in Jobs, FailRun(j)
  PROVE  IntakeInv'
<1>1. IntakeType
  BY DEF IntakeInv
<1>2. /\ job' \in [Jobs -> JobRecs] /\ SameBut(job[j], job'[j])
      /\ \A k \in Jobs \ {j} : job'[k] = job[k]
      /\ job'[j].pc = "unlock" /\ job'[j].result = "failed"
  BY <1>1, ToldTyped DEF FailRun, Told, Places, Results
<1>3. /\ pipeline' \in [Jobs -> JobRuns]
      /\ pipeline'[j].cost = pipeline[j].cost /\ \A k \in Jobs \ {j} : pipeline'[k] = pipeline[k]
  <2>1. CASE pipeline' = pipeline
    BY <1>1, <2>1 DEF IntakeType
  <2>2. CASE pipeline' = [pipeline EXCEPT ![j].status = "failed"]
    BY <1>1, <2>2, StatusTyped
  <2> QED
    BY <2>1, <2>2 DEF FailRun
<1>4. UNCHANGED lapses \/ Lapse
  BY DEF FailRun
<1>5. /\ lapses' \in Lapses
      /\ lapses'.lock = lapses.lock /\ lapses'.unrecorded = lapses.unrecorded
      /\ lapses'.ambiguous = lapses.ambiguous
  BY <1>1, <1>4, LapseTyped
<1>6. IntakeType'
  BY <1>1, <1>2, <1>3, <1>5 DEF IntakeType, FailRun
<1>7. Walks(job[j], job'[j], pipeline'[j]) /\ job[j].pc \notin {"start", "configure", "summary"}
  BY <1>2 DEF Walks, FailRun, At
<1> QED
  BY <1>2, <1>3, <1>5, <1>6, <1>7, JobMovesOn DEF FailRun

LEMMA SummariseInv ==
  ASSUME IntakeInv, NEW j \in Jobs, Summarise(j)
  PROVE  IntakeInv'
<1>1. IntakeType
  BY DEF IntakeInv
<1>2. job[j].pc = "summary" /\ pipeline' = pipeline
  BY DEF Summarise, At
<1>3. pipeline[j].status = "success"
  BY <1>2 DEF IntakeInv, JobFits, IntakeFits, Settled
<1>4. /\ job' \in [Jobs -> JobRecs] /\ SameBut(job[j], job'[j])
      /\ \A k \in Jobs \ {j} : job'[k] = job[k]
      /\ job'[j].pc = "unlock" /\ job'[j].result \in {"failed", "completed"}
  <2>1. Told(j, "unlock", "failed") \/ Told(j, "unlock", "completed")
    BY DEF Summarise
  <2> QED
    BY <1>1, <2>1, ToldTyped DEF Told, Places, Results
<1>5. UNCHANGED lapses \/ Lapse
  BY DEF Summarise
<1>6. /\ lapses' \in Lapses
      /\ lapses'.lock = lapses.lock /\ lapses'.unrecorded = lapses.unrecorded
      /\ lapses'.ambiguous = lapses.ambiguous
  BY <1>1, <1>5, LapseTyped
<1>7. IntakeType'
  BY <1>1, <1>2, <1>4, <1>6 DEF IntakeType, Summarise
<1>8. Walks(job[j], job'[j], pipeline'[j])
  BY <1>2, <1>3, <1>4 DEF Walks
<1> QED
  BY <1>2, <1>4, <1>6, <1>7, <1>8, JobMovesOn DEF Summarise

(* The lock, when neither it nor the ledger moves.                         *)
LEMMA LockSame ==
  ASSUME IntakeInv, NEW j \in Jobs, UNCHANGED <<day, lock, ledger>>, lapses'.lock = lapses.lock,
         \A k \in Jobs \ {j} : job'[k] = job[k],
         job'[j].plan = job[j].plan, job'[j].reserved = job[j].reserved, job'[j].day = job[j].day,
         job[j].pc \notin {"start"} \cup Over,
         job'[j].pc \in Past => job[j].pc \in Past
  PROVE  LockKept'
<1> SUFFICES ASSUME ~lapses.lock, NEW k \in Jobs
             PROVE  (Running(k) => lock = k)' /\ (lock = k => HolderFits(job'[k], ledger, day))
  BY DEF LockKept
<1>1. (Running(k) => lock = k) /\ (lock = k => HolderFits(job[k], ledger, day))
  BY DEF IntakeInv, LockKept
<1>2. CASE k # j
  BY <1>1, <1>2 DEF Running
<1>3. CASE k = j
  <2>1. Running(j)
    BY DEF Running, Over
  <2>2. HolderFits(job[j], ledger, day) => HolderFits(job'[j], ledger, day)
    BY DEF HolderFits
  <2> QED
    BY <1>1, <1>3, <2>1, <2>2
<1> QED
  BY <1>2, <1>3

LEMMA CostedFits ==
  ASSUME NEW j, NEW x \in JobRecs, NEW y \in JobRecs, NEW calls, NEW own, NEW run, NEW next,
         NEW found, NEW by, NEW lost, NEW twice,
         IntakeFits(j, x, calls, own, run, found, by, lost, twice),
         \A r \in own : r.cost \in Nat,
         SameBut(x, y), x.pc = "cost", y.pc = "summary", y.result = x.result,
         next = [status |-> "success", cost |-> SumOfCosts(x.recorded)]
  PROVE  next \in JobRuns /\ IntakeFits(j, y, calls, own, next, found, by, lost, twice)
<1>0. /\ Counted(x, calls) /\ Placed(x) /\ Answered(x, calls) /\ Novel(j, x, calls, found, by)
      /\ Written(x, calls, own, lost, twice) /\ Balanced(x, calls, own, run) /\ Settled(x, calls, run)
  BY DEF IntakeFits
<1>1. IsFiniteSet(own) /\ x.recorded = own /\ Due(calls) <= Paid(own)
  BY <1>0 DEF Balanced, Sound, Calling
<1>2. SumOfCosts(own) \in Nat /\ NoCost \notin Nat
  BY <1>1, CostIsNat, IntakeAssumption
<1>3. next \in JobRuns /\ next.status = "success" /\ next.cost = SumOfCosts(own) /\ next.cost # NoCost
  BY <1>1, <1>2 DEF JobRuns
<1>4. Counted(y, calls)
  BY <1>0 DEF Counted, SameBut, Early, Over
<1>5. Placed(y) /\ Answered(y, calls)
  BY <1>0 DEF Placed, Answered, SameBut, Calling, Over
<1>6. Novel(j, y, calls, found, by)
  BY <1>0 DEF Novel, SameBut
<1>7. Written(y, calls, own, lost, twice)
  BY <1>0 DEF Written, SameBut, Early, Calling
<1>8. Balanced(y, calls, own, next)
  BY <1>1, <1>3 DEF Balanced, Early, Sound, Calling
<1>9. Settled(y, calls, next)
  BY <1>0, <1>3 DEF Settled, Over
<1> QED
  BY <1>3, <1>4, <1>5, <1>6, <1>7, <1>8, <1>9 DEF IntakeFits

LEMMA FinishCostInv ==
  ASSUME IntakeInv, NEW j \in Jobs, FinishCost(j)
  PROVE  IntakeInv'
<1>1. IntakeType /\ job[j].pc = "cost"
  BY DEF IntakeInv, FinishCost, At
<1>2. CASE Lapse /\ Told(j, "unlock", "failed") /\ UNCHANGED pipeline
  <2>1. /\ job' \in [Jobs -> JobRecs] /\ SameBut(job[j], job'[j])
        /\ \A k \in Jobs \ {j} : job'[k] = job[k]
        /\ job'[j].pc = "unlock" /\ job'[j].result = "failed"
    BY <1>1, <1>2, ToldTyped DEF Told, Places, Results
  <2>2. /\ lapses' \in Lapses
        /\ lapses'.lock = lapses.lock /\ lapses'.unrecorded = lapses.unrecorded
        /\ lapses'.ambiguous = lapses.ambiguous
    BY <1>1, <1>2, LapseTyped
  <2>3. IntakeType'
    BY <1>1, <1>2, <2>1, <2>2 DEF IntakeType, FinishCost
  <2>4. Walks(job[j], job'[j], pipeline'[j])
    BY <1>1, <2>1 DEF Walks
  <2> QED
    BY <1>1, <1>2, <2>1, <2>2, <2>3, <2>4, JobMovesOn DEF FinishCost
<1>3. CASE /\ pipeline' = [pipeline EXCEPT ![j] =
                             [status |-> "success", cost |-> SumOfCosts(job[j].recorded)]]
           /\ Goto(j, "summary") /\ UNCHANGED lapses
  <2>1. /\ job' \in [Jobs -> JobRecs] /\ SameBut(job[j], job'[j])
        /\ \A k \in Jobs \ {j} : job'[k] = job[k]
        /\ job'[j].pc = "summary" /\ job'[j].result = job[j].result
    BY <1>1, <1>3, GoTyped DEF Goto, Places
  <2> DEFINE next == [status |-> "success", cost |-> SumOfCosts(job[j].recorded)]
  <2>2. pipeline \in [Jobs -> JobRuns]
    BY <1>1 DEF IntakeType
  <2>3. /\ job[j] \in JobRecs /\ job'[j] \in JobRecs
        /\ \A r \in Own(j, rows) : r.cost \in Nat
    BY <1>1, <2>1, OwnCalls
  <2>4. IntakeFits(j, job[j], Own(j, attempts), Own(j, rows), pipeline[j], items[j], inserted,
                   StagesOf(j, lapses.unrecorded), StagesOf(j, lapses.ambiguous))
    BY DEF IntakeInv, JobFits
  <2>5. /\ next \in JobRuns
        /\ IntakeFits(j, job'[j], Own(j, attempts), Own(j, rows), next, items[j], inserted,
                      StagesOf(j, lapses.unrecorded), StagesOf(j, lapses.ambiguous))
    BY <1>1, <2>1, <2>3, <2>4, CostedFits
  <2> HIDE DEF next
  <2>6. /\ pipeline' \in [Jobs -> JobRuns] /\ pipeline'[j] = next
        /\ \A k \in Jobs \ {j} : pipeline'[k] = pipeline[k]
    BY <1>3, <2>2, <2>5 DEF next
  <2>7. IntakeType'
    BY <1>1, <1>3, <2>1, <2>6 DEF IntakeType, FinishCost
  <2>8. JobFits(j)'
    BY <1>3, <2>5, <2>6 DEF JobFits, FinishCost
  <2>9. OthersKept(j)
    BY <1>3, <2>1, <2>6 DEF OthersKept, FinishCost
  <2>10. \A k \in Jobs : JobFits(k)'
    BY <2>8, <2>9, OthersFit
  <2>11. \A d \in 0..MaxDay : Funded(d)'
    <3>1. \A d : Sending(d)' = Sending(d)
      BY <1>1, <2>1, SendingSame
    <3> QED
      BY <3>1, FundedKept DEF FinishCost
  <2>12. LockKept'
    BY <1>1, <1>3, <2>1, LockSame DEF FinishCost, SameBut, Past, Calling, Over
  <2>13. FutureFree'
    BY DEF IntakeInv, FutureFree, FinishCost
  <2> QED
    BY <2>7, <2>10, <2>11, <2>12, <2>13 DEF IntakeInv
<1> QED
  BY <1>2, <1>3 DEF FinishCost

LEMMA TakeLockInv ==
  ASSUME IntakeInv, NEW j \in Jobs, TakeLock(j)
  PROVE  IntakeInv'
<1>1. IntakeType /\ job[j].pc = "start" /\ NoJob \notin Jobs /\ lapses' = lapses
  BY IntakeAssumption DEF IntakeInv, TakeLock, At
<1>2. /\ job' \in [Jobs -> JobRecs] /\ SameBut(job[j], job'[j])
      /\ \A k \in Jobs \ {j} : job'[k] = job[k]
      /\ \/ lock = NoJob /\ lock' = j /\ job'[j].pc = "check" /\ job'[j].result = job[j].result
         \/ lock' = lock /\ job'[j].pc = "done" /\ job'[j].result \in {"deferred", "refused"}
  <2>1. CASE lock = NoJob
    BY <1>1, <2>1, GoTyped DEF TakeLock, Goto, Places
  <2>2. CASE lock # NoJob
    <3>1. lock' = lock /\ (Told(j, "done", "deferred") \/ Told(j, "done", "refused"))
      BY <2>2 DEF TakeLock
    <3> QED
      BY <1>1, <2>2, <3>1, ToldTyped DEF Told, Places, Results
  <2> QED
    BY <2>1, <2>2
<1>3. IntakeType'
  BY <1>1, <1>2 DEF IntakeType, TakeLock
<1>4. Walks(job[j], job'[j], pipeline[j])
  BY <1>1, <1>2 DEF Walks
<1>5. JobFits(j)'
  <2>1. job[j] \in JobRecs /\ job'[j] \in JobRecs
    BY <1>1, <1>2 DEF IntakeType
  <2>2. IntakeFits(j, job[j], Own(j, attempts), Own(j, rows), pipeline[j], items[j], inserted,
                   StagesOf(j, lapses.unrecorded), StagesOf(j, lapses.ambiguous))
    BY DEF IntakeInv, JobFits
  <2>3. IntakeFits(j, job'[j], Own(j, attempts), Own(j, rows), pipeline[j], items[j], inserted,
                   StagesOf(j, lapses.unrecorded), StagesOf(j, lapses.ambiguous))
    BY <1>1, <1>2, <1>4, <2>1, <2>2, Walked
  <2> QED
    BY <2>3 DEF JobFits, TakeLock
<1>6. OthersKept(j)
  BY <1>2 DEF OthersKept, TakeLock
<1>7. \A k \in Jobs : JobFits(k)'
  BY <1>5, <1>6, OthersFit
<1>8. \A d \in 0..MaxDay : Funded(d)'
  <2>1. \A d : Sending(d)' = Sending(d)
    BY <1>1, <1>2, SendingSame
  <2> QED
    BY <2>1, FundedKept DEF TakeLock
<1>9. LockKept'
  <2> SUFFICES ASSUME ~lapses.lock, NEW k \in Jobs
               PROVE  (Running(k) => lock = k)' /\ (lock' = k => HolderFits(job'[k], ledger, day))
    BY <1>1 DEF LockKept, TakeLock
  <2>1. (Running(k) => lock = k) /\ (lock = k => HolderFits(job[k], ledger, day))
    BY <1>1 DEF IntakeInv, LockKept
  <2>2. CASE k # j
    BY <1>1, <1>2, <2>1, <2>2 DEF Running
  <2>3. CASE k = j
    <3>1. Counted(job[j], Own(j, attempts))
      BY DEF IntakeInv, JobFits, IntakeFits
    <3>2. job'[j].reserved = 0
      BY <1>1, <1>2, <3>1 DEF Counted, Early, SameBut
    <3>3. HolderFits(job'[j], ledger, day)
      BY <1>2, <3>2 DEF HolderFits, Past, Calling
    <3> QED
      BY <1>2, <2>3, <3>3 DEF Running
  <2> QED
    BY <2>2, <2>3
<1>10. FutureFree'
  BY DEF IntakeInv, FutureFree, TakeLock
<1> QED
  BY <1>3, <1>7, <1>8, <1>9, <1>10 DEF IntakeInv

(* The end of a process, told or not.                                      *)
LEMMA EndedInv ==
  ASSUME IntakeInv, NEW j \in Jobs, NEW place \in Over, Ended(j, place), lock' = Unlocked(j), Running(j),
         place = "done" => job[j].pc = "unlock",
         UNCHANGED lapses \/ Lapse,
         UNCHANGED <<day, ledger, cache, rows, inserted, items, pipeline, attempts, peak>>
  PROVE  IntakeInv'
<1> DEFINE c == [job |-> j, stage |-> job[j].stage]
           over == [job[j] EXCEPT !.pc = place, !.page = NoPage, !.answer = "none", !.new = {},
                      !.recorded = {}, !.ids = {}, !.reserved = 0, !.day = 0]
<1>1. IntakeType /\ job \in [Jobs -> JobRecs] /\ job[j] \in JobRecs /\ MaxDay \in Nat /\ NoJob \notin Jobs
  BY IntakeAssumption DEF IntakeInv, IntakeType
<1>2. /\ over \in JobRecs /\ over.pc = place /\ over.plan = job[j].plan /\ over.stage = job[j].stage
      /\ over.result = job[j].result /\ over.new = {} /\ over.ids = {}
  <2>1. 0 \in 0..MaxDay /\ 0 \in Nat /\ place \in Places
    BY <1>1 DEF Places, Over
  <2>2. over \in JobRecs
    BY <1>1, <2>1 DEF JobRecs
  <2> QED
    BY <1>1, <2>2 DEF JobRecs
<1>3. job' = [job EXCEPT ![j] = over]
  BY DEF Ended
<1> HIDE DEF over
<1>4. job' \in [Jobs -> JobRecs] /\ job'[j] = over /\ \A k \in Jobs \ {j} : job'[k] = job[k]
  BY <1>1, <1>2, <1>3
<1>5. /\ lapses' \in Lapses
      /\ lapses'.lock = lapses.lock /\ lapses'.unrecorded = lapses.unrecorded
      /\ lapses'.ambiguous = lapses.ambiguous
  BY <1>1, LapseTyped
<1>6. IntakeType'
  BY <1>1, <1>4, <1>5 DEF IntakeType, Unlocked
<1>7. JobFits(j)'
  <2>1. IntakeFits(j, job[j], Own(j, attempts), Own(j, rows), pipeline[j], items[j], inserted,
                   StagesOf(j, lapses.unrecorded), StagesOf(j, lapses.ambiguous))
    BY DEF IntakeInv, JobFits
  <2>2. IntakeFits(j, over, Own(j, attempts), Own(j, rows), pipeline[j], items[j], inserted,
                   StagesOf(j, lapses.unrecorded), StagesOf(j, lapses.ambiguous))
    BY <1>1, <1>2, <2>1, EndedFits DEF Over
  <2> QED
    BY <1>4, <1>5, <2>2 DEF JobFits
<1>8. \A k \in Jobs : JobFits(k)'
  <2>1. OthersKept(j)
    BY <1>4, <1>5 DEF OthersKept
  <2> QED
    BY <1>7, <2>1, OthersFit
<1>9. \A d \in 0..MaxDay : Funded(d)'
  <2> SUFFICES ASSUME NEW d \in 0..MaxDay PROVE Funded(d)'
    OBVIOUS
  <2>1. /\ DayFits(OnDay(d, attempts), Sending(d), ledger[d], peak[d])
        /\ ledger[d] \in LedgerRows \cup {NoLedger}
    BY <1>1 DEF IntakeInv, Funded, IntakeType
  <2>2. Sending(d)' = Sending(d) \ {c}
    <3>1. \A x \in [job : Jobs, stage : Stages] : x = c <=> (x.job = j /\ x.stage = job[j].stage)
      OBVIOUS
    <3> HIDE DEF c
    <3>2. job'[j].pc # "send"
      BY <1>2, <1>4 DEF Over
    <3> QED
      BY <1>4, <3>1, <3>2 DEF Sending
  <2> HIDE DEF c
  <2>3. CASE c \in Sending(d)
    <3>1. DayFits(OnDay(d, attempts), Sending(d) \ {c}, ledger[d], peak[d])
      BY <2>1, <2>3, DayDied
    <3> QED
      BY <2>2, <3>1 DEF Funded
  <2>4. CASE c \notin Sending(d)
    <3>1. Sending(d)' = Sending(d)
      BY <2>2, <2>4
    <3> QED
      BY <2>1, <3>1 DEF Funded
  <2> QED
    BY <2>3, <2>4
<1>10. LockKept'
  <2> SUFFICES ASSUME ~lapses.lock, NEW k \in Jobs
               PROVE  (Running(k) => lock = k)' /\ (lock' = k => HolderFits(job'[k], ledger, day))
    BY <1>5 DEF LockKept
  <2>1. lock = j /\ lock' = NoJob
    BY DEF IntakeInv, LockKept, Unlocked
  <2>2. ~Running(k)'
    <3>1. CASE k # j
      <4>1. ~Running(k)
        BY <2>1, <3>1 DEF IntakeInv, LockKept
      <4> QED
        BY <1>4, <3>1, <4>1 DEF Running
    <3>2. CASE k = j
      BY <1>2, <1>4, <3>2 DEF Running, Over
    <3> QED
      BY <3>1, <3>2
  <2> QED
    BY <1>1, <2>1, <2>2
<1>11. FutureFree'
  BY DEF IntakeInv, FutureFree
<1> QED
  BY <1>6, <1>8, <1>9, <1>10, <1>11 DEF IntakeInv

LEMMA JobEndsInv ==
  ASSUME IntakeInv, NEW j \in Jobs, ReleaseLock(j) \/ Die(j) \/ DropSession(j)
  PROVE  IntakeInv'
<1>1. CASE ReleaseLock(j)
  <2>1. job[j].pc = "unlock" /\ Running(j) /\ "done" \in Over
    BY <1>1 DEF ReleaseLock, At, Running, Over
  <2> QED
    BY <1>1, <2>1, EndedInv DEF ReleaseLock
<1>2. CASE Die(j)
  <2>1. "dead" \in Over
    BY DEF Over
  <2> QED
    BY <1>2, <2>1, EndedInv DEF Die
<1>3. CASE DropSession(j)
  <2>1. IntakeType
    BY DEF IntakeInv
  <2>2. /\ lapses' \in Lapses /\ lapses'.lock /\ lapses'.unrecorded = lapses.unrecorded
        /\ lapses'.ambiguous = lapses.ambiguous
    <3>1. lapses \in Lapses
      BY <2>1 DEF IntakeType
    <3>2. lapses' = [lapses EXCEPT !.count = lapses.count + 1, !.lock = TRUE]
      BY <1>3 DEF DropSession
    <3>3. lapses.count + 1 \in Nat
      BY <3>1 DEF Lapses
    <3> QED
      BY <3>1, <3>2, <3>3 DEF Lapses
  <2>3. IntakeType'
    BY <1>3, <2>1, <2>2 DEF IntakeType, DropSession
  <2>4. \A k \in Jobs : JobFits(k)'
    BY <1>3, <2>2 DEF IntakeInv, JobFits, DropSession
  <2>5. \A d \in 0..MaxDay : Funded(d)'
    BY <1>3 DEF IntakeInv, Funded, Sending, DropSession
  <2>6. LockKept' /\ FutureFree'
    BY <1>3, <2>2 DEF IntakeInv, LockKept, FutureFree, DropSession
  <2> QED
    BY <2>3, <2>4, <2>5, <2>6 DEF IntakeInv
<1> QED
  BY <1>1, <1>2, <1>3

LEMMA ConfigureInv ==
  ASSUME IntakeInv, NEW j \in Jobs, Configure(j)
  PROVE  IntakeInv'
<1> DEFINE ceiling == job[j].plan.ceiling
           next == IF ledger[day] = NoLedger THEN [ceiling |-> ceiling, used |-> 0, spent |-> 0]
                   ELSE [ledger[day] EXCEPT !.ceiling = ceiling]
           above == IF ceiling = NoCeiling \/ peak[day] = NoCeiling THEN NoCeiling
                    ELSE Max({peak[day], ceiling})
<1>1. /\ IntakeType /\ job[j].pc = "configure" /\ day \in 0..MaxDay /\ job[j] \in JobRecs
      /\ ledger \in [0..MaxDay -> LedgerRows \cup {NoLedger}]
      /\ peak \in [0..MaxDay -> Nat \cup {NoCeiling}] /\ NoJob \notin Jobs
  BY IntakeAssumption DEF IntakeInv, IntakeType, Configure, At
<1>2. /\ job' \in [Jobs -> JobRecs] /\ SameBut(job[j], job'[j])
      /\ \A k \in Jobs \ {j} : job'[k] = job[k]
      /\ job'[j].pc = "create" /\ job'[j].result = job[j].result
  BY <1>1, GoTyped DEF Configure, Goto, Places
<1>3. ceiling \in Nat \cup {NoCeiling}
  BY <1>1 DEF JobRecs, PlanRecs
<1>4. /\ next \in LedgerRows /\ next.ceiling = ceiling /\ above \in Nat \cup {NoCeiling}
      /\ DayFits(OnDay(day, attempts), Sending(day), next, above)
  <2>1. DayFits(OnDay(day, attempts), Sending(day), ledger[day], peak[day])
    BY <1>1 DEF IntakeInv, Funded
  <2>2. ledger[day] \in LedgerRows \cup {NoLedger} /\ peak[day] \in Nat \cup {NoCeiling}
    BY <1>1
  <2>3. /\ next = IF ledger[day] = NoLedger THEN [ceiling |-> ceiling, used |-> 0, spent |-> 0]
                  ELSE [ledger[day] EXCEPT !.ceiling = ceiling]
        /\ above = IF ceiling = NoCeiling \/ peak[day] = NoCeiling THEN NoCeiling
                   ELSE Max({peak[day], ceiling})
    OBVIOUS
  <2> HIDE DEF ceiling, next, above
  <2> QED
    BY <1>3, <2>1, <2>2, <2>3, DayConfigured
<1>5. ledger' = [ledger EXCEPT ![day] = next] /\ peak' = [peak EXCEPT ![day] = above]
  BY DEF Configure
<1> HIDE DEF ceiling, next, above
<1>6. /\ ledger' \in [0..MaxDay -> LedgerRows \cup {NoLedger}] /\ ledger'[day] = next
      /\ peak' \in [0..MaxDay -> Nat \cup {NoCeiling}] /\ peak'[day] = above
      /\ \A d \in (0..MaxDay) \ {day} : ledger'[d] = ledger[d] /\ peak'[d] = peak[d]
  BY <1>1, <1>4, <1>5
<1>7. IntakeType'
  BY <1>1, <1>2, <1>6 DEF IntakeType, Configure
<1>8. JobFits(j)'
  <2>1. job'[j] \in JobRecs /\ Walks(job[j], job'[j], pipeline[j])
    BY <1>1, <1>2 DEF Walks
  <2>2. IntakeFits(j, job[j], Own(j, attempts), Own(j, rows), pipeline[j], items[j], inserted,
                   StagesOf(j, lapses.unrecorded), StagesOf(j, lapses.ambiguous))
    BY DEF IntakeInv, JobFits
  <2>3. IntakeFits(j, job'[j], Own(j, attempts), Own(j, rows), pipeline[j], items[j], inserted,
                   StagesOf(j, lapses.unrecorded), StagesOf(j, lapses.ambiguous))
    BY <1>1, <1>2, <2>1, <2>2, Walked
  <2> QED
    BY <2>3 DEF JobFits, Configure
<1>9. \A k \in Jobs : JobFits(k)'
  <2>1. OthersKept(j)
    BY <1>2 DEF OthersKept, Configure
  <2> QED
    BY <1>8, <2>1, OthersFit
<1>10. \A d \in 0..MaxDay : Funded(d)'
  <2>1. \A d : Sending(d)' = Sending(d)
    BY <1>1, <1>2, SendingSame
  <2>2. Funded(day)'
    BY <1>4, <1>6, <2>1 DEF Funded, Configure
  <2>3. \A d \in (0..MaxDay) \ {day} : Funded(d)'
    BY <1>6, <2>1 DEF IntakeInv, Funded, Configure
  <2> QED
    BY <2>2, <2>3 DEF Configure
<1>11. LockKept'
  <2> SUFFICES ASSUME ~lapses.lock, NEW k \in Jobs
               PROVE  (Running(k) => lock = k)' /\ (lock = k => HolderFits(job'[k], ledger', day))
    BY DEF LockKept, Configure
  <2>1. Running(k) => lock = k
    BY DEF IntakeInv, LockKept
  <2>2. lock = j
    BY <1>1 DEF IntakeInv, LockKept, Running
  <2>3. CASE k # j
    BY <1>1, <1>2, <2>1, <2>2, <2>3 DEF Running, Configure
  <2>4. CASE k = j
    <3>1. Counted(job[j], Own(j, attempts))
      BY DEF IntakeInv, JobFits, IntakeFits
    <3>2. job'[j].reserved = 0
      BY <1>1, <1>2, <3>1 DEF Counted, Early, SameBut
    <3>3. ledger'[day].ceiling = job'[j].plan.ceiling
      BY <1>2, <1>4, <1>6 DEF SameBut, ceiling
    <3>4. HolderFits(job'[j], ledger', day)
      BY <3>2, <3>3 DEF HolderFits
    <3> QED
      BY <2>2, <2>4, <3>4 DEF Configure
  <2> QED
    BY <2>3, <2>4
<1>12. FutureFree'
  BY <1>1, <1>6 DEF IntakeInv, FutureFree, Configure
<1> QED
  BY <1>7, <1>9, <1>10, <1>11, <1>12 DEF IntakeInv

LEMMA ReserveInv ==
  ASSUME IntakeInv, NEW j \in Jobs, Reserve(j)
  PROVE  IntakeInv'
<1> DEFINE c == [job |-> j, stage |-> job[j].stage]
           next == [ledger[day] EXCEPT !.used = ledger[day].used + 1,
                      !.spent = ledger[day].spent + UnitCost(job[j].stage)]
           sent == [job[j] EXCEPT !.pc = "send", !.reserved = job[j].reserved + 1, !.day = day]
<1>1. /\ IntakeType /\ job[j].pc = "lookup" /\ day \in 0..MaxDay /\ job[j] \in JobRecs
      /\ job \in [Jobs -> JobRecs] /\ ledger \in [0..MaxDay -> LedgerRows \cup {NoLedger}]
      /\ peak \in [0..MaxDay -> Nat \cup {NoCeiling}] /\ NoJob \notin Jobs
  BY IntakeAssumption DEF IntakeInv, IntakeType, Reserve, At
<1>2. CASE ledger' = ledger /\ Goto(j, "fail")
  <2>1. job' \in [Jobs -> JobRecs]
    BY <1>1, <1>2, GoTyped DEF Goto, Places
  <2>2. IntakeType'
    BY <1>1, <1>2, <2>1 DEF IntakeType, Reserve
  <2> QED
    BY <1>1, <1>2, <2>2, FailStep DEF Reserve
<1>3. CASE /\ MayReserve(j, ledger[day])
           /\ ledger' = [ledger EXCEPT ![day].used = @ + 1, ![day].spent = @ + UnitCost(job[j].stage)]
           /\ job' = [job EXCEPT ![j].pc = "send", ![j].reserved = @ + 1, ![j].day = day]
  <2>1. /\ ledger[day] \in LedgerRows /\ job[j].reserved < job[j].plan.calls
        /\ Within(ledger[day].spent + UnitCost(job[j].stage), ledger[day].ceiling)
    BY <1>1, <1>3 DEF MayReserve
  <2>2. ledger' = [ledger EXCEPT ![day] = next] /\ job' = [job EXCEPT ![j] = sent]
    BY <1>3
  <2>3. /\ next \in LedgerRows /\ next.ceiling = ledger[day].ceiling
        /\ next.used = ledger[day].used + 1
        /\ next.spent = ledger[day].spent + UnitCost(job[j].stage)
    <3>1. ledger[day].used + 1 \in Nat /\ ledger[day].spent + UnitCost(job[j].stage) \in Nat
      BY <2>1, UnitCostIsNat DEF LedgerRows
    <3> QED
      BY <2>1, <3>1 DEF LedgerRows
  <2>4. /\ sent \in JobRecs /\ sent.pc = "send" /\ sent.reserved = job[j].reserved + 1
        /\ sent.day = day /\ sent.plan = job[j].plan /\ sent.stage = job[j].stage
        /\ sent.result = job[j].result /\ sent.new = job[j].new /\ sent.ids = job[j].ids
        /\ sent.recorded = job[j].recorded
    <3>1. job[j].reserved + 1 \in Nat /\ "send" \in Places
      BY <1>1 DEF JobRecs, Places
    <3>2. sent \in JobRecs
      BY <1>1, <3>1 DEF JobRecs
    <3> QED
      BY <1>1, <3>2 DEF JobRecs
  <2> HIDE DEF next, sent
  <2>5. /\ job' \in [Jobs -> JobRecs] /\ job'[j] = sent /\ \A k \in Jobs \ {j} : job'[k] = job[k]
    BY <1>1, <2>2, <2>4
  <2>6. /\ ledger' \in [0..MaxDay -> LedgerRows \cup {NoLedger}] /\ ledger'[day] = next
        /\ \A d \in (0..MaxDay) \ {day} : ledger'[d] = ledger[d]
    BY <1>1, <2>2, <2>3
  <2>7. IntakeType'
    BY <1>1, <2>5, <2>6 DEF IntakeType, Reserve
  <2>8. JobFits(j)'
    <3>1. IntakeFits(j, job[j], Own(j, attempts), Own(j, rows), pipeline[j], items[j], inserted,
                     StagesOf(j, lapses.unrecorded), StagesOf(j, lapses.ambiguous))
      BY DEF IntakeInv, JobFits
    <3>2. IntakeFits(j, sent, Own(j, attempts), Own(j, rows), pipeline[j], items[j], inserted,
                     StagesOf(j, lapses.unrecorded), StagesOf(j, lapses.ambiguous))
      BY <1>1, <2>1, <2>4, <3>1, ReservedFits
    <3> QED
      BY <2>5, <3>2 DEF JobFits, Reserve
  <2>9. \A k \in Jobs : JobFits(k)'
    <3>1. OthersKept(j)
      BY <2>5 DEF OthersKept, Reserve
    <3> QED
      BY <2>8, <3>1, OthersFit
  <2>10. c.stage = job[j].stage /\ \A x \in [job : Jobs, stage : Stages] : x = c <=> (x.job = j /\ x.stage = job[j].stage)
    OBVIOUS
  <2>11. c \in [job : Jobs, stage : Stages]
    BY <1>1 DEF JobRecs
  <2> HIDE DEF c
  <2>12. \A d \in 0..MaxDay : Funded(d)'
    <3>1. c \notin Sending(day)
      BY <1>1, <2>10, <2>11 DEF Sending
    <3>2. Sending(day)' = Sending(day) \cup {c}
      BY <1>1, <2>4, <2>5, <2>10, <2>11 DEF Sending, Reserve
    <3>3. \A d \in (0..MaxDay) \ {day} : Sending(d)' = Sending(d)
      BY <1>1, <2>4, <2>5 DEF Sending
    <3>4. DayFits(OnDay(day, attempts), Sending(day), ledger[day], peak[day])
      BY <1>1 DEF IntakeInv, Funded
    <3>5. DayFits(OnDay(day, attempts), Sending(day) \cup {c}, next, peak[day])
      BY <1>1, <2>1, <2>3, <2>10, <3>1, <3>4, DayReserved
    <3>6. Funded(day)'
      BY <2>6, <3>2, <3>5 DEF Funded, Reserve
    <3>7. \A d \in (0..MaxDay) \ {day} : Funded(d)'
      BY <2>6, <3>3 DEF IntakeInv, Funded, Reserve
    <3> QED
      BY <3>6, <3>7 DEF Reserve
  <2>13. LockKept'
    <3> SUFFICES ASSUME ~lapses.lock, NEW k \in Jobs
                 PROVE  (Running(k) => lock = k)' /\ (lock = k => HolderFits(job'[k], ledger', day))
      BY DEF LockKept, Reserve
    <3>1. Running(k) => lock = k
      BY DEF IntakeInv, LockKept
    <3>2. lock = j /\ HolderFits(job[j], ledger, day)
      BY <1>1 DEF IntakeInv, LockKept, Running
    <3>3. CASE k # j
      BY <1>1, <2>5, <3>1, <3>2, <3>3 DEF Running, Reserve
    <3>4. CASE k = j
      <4>1. ledger[day].ceiling = job[j].plan.ceiling /\ ledger[day] # NoLedger
        BY <1>1, <1>3, <3>2 DEF HolderFits, Past, MayReserve
      <4>2. next # NoLedger
        BY <2>3, IntakeAssumption DEF LedgerRows
      <4>3. Within(next.spent, job[j].plan.ceiling) /\ next.ceiling = job[j].plan.ceiling
        BY <2>1, <2>3, <4>1
      <4>4. HolderFits(job'[j], ledger', day)
        BY <2>4, <2>5, <2>6, <4>2, <4>3 DEF HolderFits
      <4> QED
        BY <3>2, <3>4, <4>4 DEF Reserve
    <3> QED
      BY <3>3, <3>4
  <2>14. FutureFree'
    BY <1>1, <2>6 DEF IntakeInv, FutureFree, Reserve
  <2> QED
    BY <2>7, <2>9, <2>12, <2>13, <2>14 DEF IntakeInv
<1> QED
  BY <1>2, <1>3 DEF Reserve

(* What a job of this step wrote is its own.                               *)
LEMMA RowWritten ==
  ASSUME NEW j, NEW row, row.job = j
  PROVE  /\ Own(j, rows \cup {row}) = Own(j, rows) \cup {row}
         /\ \A k : k # j => Own(k, rows \cup {row}) = Own(k, rows)
  BY DEF Own

LEMMA UseCacheInv ==
  ASSUME IntakeInv, NEW j \in Jobs, UseCache(j)
  PROVE  IntakeInv'
<1> DEFINE quote == QuoteCall(job[j].stage, "cached")
           page == cache[Request(j)]
<1>1. /\ IntakeType /\ job[j].pc = "lookup" /\ job[j] \in JobRecs /\ job \in [Jobs -> JobRecs]
      /\ rows \in SUBSET RowRecs
  BY DEF IntakeInv, IntakeType, UseCache, At
<1>2. quote = [billing |-> "known_zero", cost |-> 0]
  BY DEF QuoteCall
<1>3. quote.billing = "known_zero" /\ quote.cost = 0 /\ quote.billing \in Billings /\ quote.cost \in Nat
  BY <1>2 DEF Billings
<1>4. page \in SUBSET Videos
  <2>1. Placed(job[j])
    BY DEF IntakeInv, JobFits, IntakeFits
  <2>2. Request(j) \in Requests
    BY <1>1, <2>1 DEF Placed, Request, Over
  <2> QED
    BY <1>1, <2>2 DEF IntakeType, UseCache, Cached
<1> HIDE DEF quote, page
<1>5. PICK row : row = Row(j, "success", TRUE, quote)
  OBVIOUS
<1>6. /\ row \in RowRecs /\ row.job = j /\ row.stage = job[j].stage /\ row.cached
      /\ row.billing = "known_zero" /\ row.cost = 0
  <2>1. row = [job |-> j, stage |-> job[j].stage, status |-> "success", cached |-> TRUE,
               billing |-> quote.billing, cost |-> quote.cost]
    BY <1>5 DEF Row
  <2>2. job[j].stage \in Stages
    BY <1>1 DEF JobRecs
  <2> QED
    BY <1>3, <2>1, <2>2 DEF RowRecs
<1> DEFINE found == [job EXCEPT ![j].page = page, ![j].answer = "cached"]
<1>7. /\ found \in [Jobs -> JobRecs] /\ \A k \in Jobs \ {j} : found[k] = job[k]
      /\ found[j].plan = job[j].plan /\ found[j].stage = job[j].stage
      /\ found[j].result = job[j].result /\ found[j].new = job[j].new /\ found[j].ids = job[j].ids
      /\ found[j].recorded = job[j].recorded /\ found[j].reserved = job[j].reserved
      /\ found[j].page = page /\ found[j].day = job[j].day
  <2> DEFINE x == [job[j] EXCEPT !.page = page, !.answer = "cached"]
  <2>1. x \in JobRecs
    BY <1>1, <1>4 DEF JobRecs
  <2>2. /\ x.plan = job[j].plan /\ x.stage = job[j].stage
        /\ x.result = job[j].result /\ x.new = job[j].new /\ x.ids = job[j].ids
        /\ x.recorded = job[j].recorded /\ x.reserved = job[j].reserved
        /\ x.page = page /\ x.day = job[j].day
    BY <1>1 DEF JobRecs
  <2>3. found = [job EXCEPT ![j] = x]
    OBVIOUS
  <2> HIDE DEF x, found
  <2> QED
    BY <1>1, <2>1, <2>2, <2>3
<1>8. PICK place \in {"ingest", "fail"} :
        /\ job' = [found EXCEPT ![j].pc = place, ![j].recorded = found[j].recorded \cup {row}]
        /\ rows' \in {rows, rows \cup {row}}
        /\ place = "ingest" => rows' = rows \cup {row}
        /\ UNCHANGED lapses \/ Lapse
  <2> HIDE DEF found
  <2>1. CASE /\ rows' = rows \cup {row}
             /\ job' = [found EXCEPT ![j].pc = "ingest", ![j].recorded = @ \cup {row}]
             /\ UNCHANGED lapses
    BY <2>1
  <2>2. CASE /\ Lapse
             /\ rows' \in {rows, rows \cup {row}}
             /\ job' = [found EXCEPT ![j].pc = "fail", ![j].recorded = @ \cup {row}]
    BY <2>2
  <2> QED
    BY <1>5, <2>1, <2>2 DEF UseCache, quote, page, found
<1> HIDE DEF found
<1>9. PICK y : y = [found[j] EXCEPT !.pc = place, !.recorded = found[j].recorded \cup {row}]
  OBVIOUS
<1>10. /\ y \in JobRecs /\ y.pc = place /\ y.plan = job[j].plan /\ y.stage = job[j].stage
       /\ y.result = job[j].result /\ y.new = job[j].new /\ y.ids = job[j].ids
       /\ y.recorded = job[j].recorded \cup {row} /\ y.reserved = job[j].reserved
       /\ y.page \in SUBSET Videos /\ y.day = job[j].day
       /\ job' \in [Jobs -> JobRecs] /\ job'[j] = y /\ \A k \in Jobs \ {j} : job'[k] = job[k]
  <2>1. place \in Places
    BY DEF Places
  <2>2. found[j] \in JobRecs
    BY <1>7
  <2>3. y \in JobRecs
    BY <1>6, <1>9, <2>1, <2>2 DEF JobRecs
  <2>4. /\ y.pc = place /\ y.recorded = found[j].recorded \cup {row}
        /\ y.plan = found[j].plan /\ y.stage = found[j].stage
        /\ y.result = found[j].result /\ y.new = found[j].new /\ y.ids = found[j].ids
        /\ y.reserved = found[j].reserved /\ y.page = found[j].page /\ y.day = found[j].day
    BY <1>9, <2>2 DEF JobRecs
  <2>5. job' = [found EXCEPT ![j] = y]
    BY <1>8, <1>9
  <2> QED
    BY <1>4, <1>7, <2>3, <2>4, <2>5
<1>11. /\ lapses' \in Lapses
       /\ lapses'.lock = lapses.lock /\ lapses'.unrecorded = lapses.unrecorded
       /\ lapses'.ambiguous = lapses.ambiguous
  BY <1>1, <1>8, LapseTyped
<1>12. rows' \in SUBSET RowRecs
  BY <1>1, <1>6, <1>8
<1>13. IntakeType'
  BY <1>1, <1>10, <1>11, <1>12 DEF IntakeType, UseCache
<1>14. /\ Own(j, rows') \in {Own(j, rows), Own(j, rows) \cup {row}}
       /\ place = "ingest" => Own(j, rows') = Own(j, rows) \cup {row}
       /\ \A k \in Jobs \ {j} : Own(k, rows') = Own(k, rows)
  <2>1. /\ Own(j, rows \cup {row}) = Own(j, rows) \cup {row}
        /\ \A k : k # j => Own(k, rows \cup {row}) = Own(k, rows)
    BY <1>6, RowWritten
  <2>2. CASE rows' = rows
    BY <1>8, <2>1, <2>2
  <2>3. CASE rows' = rows \cup {row}
    BY <2>1, <2>3
  <2> QED
    BY <1>8, <2>2, <2>3
<1>15. JobFits(j)'
  <2>1. IntakeFits(j, job[j], Own(j, attempts), Own(j, rows), pipeline[j], items[j], inserted,
                   StagesOf(j, lapses.unrecorded), StagesOf(j, lapses.ambiguous))
    BY DEF IntakeInv, JobFits
  <2>2. \A r \in Own(j, rows) : r.cost \in Nat
    BY <1>1, OwnCalls
  <2>3. PICK fresh : fresh = Own(j, rows')
    OBVIOUS
  <2>4. \/ y.pc = "ingest" /\ fresh = Own(j, rows) \cup {row}
        \/ y.pc = "fail" /\ fresh \in {Own(j, rows), Own(j, rows) \cup {row}}
    BY <1>8, <1>10, <1>14, <2>3
  <2>5. IntakeFits(j, y, Own(j, attempts), fresh, pipeline[j], items[j], inserted,
                   StagesOf(j, lapses.unrecorded), StagesOf(j, lapses.ambiguous))
    BY <1>1, <1>6, <1>10, <2>1, <2>2, <2>4, CachedFits
  <2> QED
    BY <1>10, <1>11, <2>3, <2>5 DEF JobFits, UseCache
<1>16. \A k \in Jobs : JobFits(k)'
  <2>1. OthersKept(j)
    BY <1>10, <1>11, <1>14 DEF OthersKept, UseCache
  <2> QED
    BY <1>15, <2>1, OthersFit
<1>17. \A d \in 0..MaxDay : Funded(d)'
  <2>1. \A d : Sending(d)' = Sending(d)
    BY <1>1, <1>8, <1>10, SendingSame
  <2> QED
    BY <2>1, FundedKept DEF UseCache
<1>18. LockKept'
  <2>1. UNCHANGED <<day, lock, ledger>> /\ lapses'.lock = lapses.lock
    BY <1>10, <1>11 DEF UseCache
  <2>2. \A k \in Jobs \ {j} : job'[k] = job[k]
    BY <1>10, <1>11
  <2>3. /\ job'[j].plan = job[j].plan /\ job'[j].reserved = job[j].reserved /\ job'[j].day = job[j].day
        /\ job[j].pc \notin {"start"} \cup Over
    BY <1>1, <1>8, <1>10, <1>11 DEF Over
  <2>4. job'[j].pc \in Past => job[j].pc \in Past
    BY <1>1, <1>8, <1>10, <1>11 DEF Past
  <2> QED
    BY <2>1, <2>2, <2>3, <2>4, LockSame
<1>19. FutureFree'
  BY DEF IntakeInv, FutureFree, UseCache
<1> QED
  BY <1>13, <1>16, <1>17, <1>18, <1>19 DEF IntakeInv

LEMMA SendInv ==
  ASSUME IntakeInv, NEW j \in Jobs, Send(j)
  PROVE  IntakeInv'
<1>1. /\ IntakeType /\ job[j].pc = "send" /\ job[j] \in JobRecs /\ job \in [Jobs -> JobRecs]
      /\ attempts \in SUBSET CallRecs
  BY DEF IntakeInv, IntakeType, Send, At
<1>2. PICK answer \in Answers : \E charged \in Charges(answer) :
        /\ attempts' = attempts \cup
             {[job |-> j, stage |-> job[j].stage, day |-> job[j].day, ids |-> job[j].ids,
               charged |-> charged]}
        /\ \/ /\ Readable(answer)
              /\ \E page \in IF job[j].stage = "discovery" THEN BillboardPages
                            ELSE DetailPages(job[j].ids) :
                   job' = [job EXCEPT ![j].pc = "save", ![j].answer = answer, ![j].page = page]
           \/ job' = [job EXCEPT ![j].pc = "error", ![j].answer = answer]
  BY DEF Send
<1>3. PICK charged \in Charges(answer) :
        /\ attempts' = attempts \cup
             {[job |-> j, stage |-> job[j].stage, day |-> job[j].day, ids |-> job[j].ids,
               charged |-> charged]}
        /\ \/ /\ Readable(answer)
              /\ \E page \in IF job[j].stage = "discovery" THEN BillboardPages
                            ELSE DetailPages(job[j].ids) :
                   job' = [job EXCEPT ![j].pc = "save", ![j].answer = answer, ![j].page = page]
           \/ job' = [job EXCEPT ![j].pc = "error", ![j].answer = answer]
  BY <1>2
<1>4. PICK a : a = [job |-> j, stage |-> job[j].stage, day |-> job[j].day, ids |-> job[j].ids,
                    charged |-> charged]
  OBVIOUS
<1>5. /\ a \in CallRecs /\ a.job = j /\ a.stage = job[j].stage /\ a.day = job[j].day
      /\ a.ids = job[j].ids /\ a.charged = charged /\ attempts' = attempts \cup {a}
  <2>1. charged \in BOOLEAN
    BY DEF Charges
  <2> QED
    BY <1>1, <1>3, <1>4, <2>1 DEF CallRecs, JobRecs
<1>6. PICK y \in JobRecs :
        /\ job' = [job EXCEPT ![j] = y]
        /\ y.plan = job[j].plan /\ y.stage = job[j].stage /\ y.result = job[j].result
        /\ y.new = job[j].new /\ y.ids = job[j].ids /\ y.recorded = job[j].recorded
        /\ y.reserved = job[j].reserved /\ y.day = job[j].day /\ y.answer = answer
        /\ \/ y.pc = "save" /\ Readable(answer) /\ y.page \in SUBSET Videos
           \/ y.pc = "error"
  <2>1. CASE job' = [job EXCEPT ![j].pc = "error", ![j].answer = answer]
    <3> DEFINE y == [job[j] EXCEPT !.pc = "error", !.answer = answer]
    <3>1. y \in JobRecs
      BY <1>1 DEF JobRecs, Places
    <3>2. /\ y.plan = job[j].plan /\ y.stage = job[j].stage /\ y.result = job[j].result
          /\ y.new = job[j].new /\ y.ids = job[j].ids /\ y.recorded = job[j].recorded
          /\ y.reserved = job[j].reserved /\ y.day = job[j].day /\ y.answer = answer
          /\ y.pc = "error"
      BY <1>1 DEF JobRecs
    <3>3. job' = [job EXCEPT ![j] = y]
      BY <2>1
    <3> HIDE DEF y
    <3> QED
      BY <3>1, <3>2, <3>3
  <2>2. CASE /\ Readable(answer)
             /\ \E page \in IF job[j].stage = "discovery" THEN BillboardPages
                           ELSE DetailPages(job[j].ids) :
                  job' = [job EXCEPT ![j].pc = "save", ![j].answer = answer, ![j].page = page]
    <3>1. PICK page \in IF job[j].stage = "discovery" THEN BillboardPages
                        ELSE DetailPages(job[j].ids) :
            job' = [job EXCEPT ![j].pc = "save", ![j].answer = answer, ![j].page = page]
      BY <2>2
    <3>2. page \in SUBSET Videos
      BY <1>1 DEF BillboardPages, DetailPages, JobRecs
    <3> DEFINE y == [job[j] EXCEPT !.pc = "save", !.answer = answer, !.page = page]
    <3>3. y \in JobRecs
      BY <1>1, <3>2 DEF JobRecs, Places
    <3>4. /\ y.plan = job[j].plan /\ y.stage = job[j].stage /\ y.result = job[j].result
          /\ y.new = job[j].new /\ y.ids = job[j].ids /\ y.recorded = job[j].recorded
          /\ y.reserved = job[j].reserved /\ y.day = job[j].day /\ y.answer = answer
          /\ y.pc = "save" /\ y.page = page
      BY <1>1 DEF JobRecs
    <3>5. job' = [job EXCEPT ![j] = y]
      BY <3>1
    <3> HIDE DEF y
    <3> QED
      BY <2>2, <3>2, <3>3, <3>4, <3>5
  <2> QED
    BY <1>3, <2>1, <2>2
<1>7. job' \in [Jobs -> JobRecs] /\ job'[j] = y /\ \A k \in Jobs \ {j} : job'[k] = job[k]
  BY <1>1, <1>6
<1>8. IntakeType'
  BY <1>1, <1>5, <1>7 DEF IntakeType, Send
<1>9. Own(j, attempts') = Own(j, attempts) \cup {a} /\ \A k \in Jobs \ {j} : Own(k, attempts') = Own(k, attempts)
  BY <1>5 DEF Own
<1>10. JobFits(j)'
  <2>1. IntakeFits(j, job[j], Own(j, attempts), Own(j, rows), pipeline[j], items[j], inserted,
                   StagesOf(j, lapses.unrecorded), StagesOf(j, lapses.ambiguous))
    BY DEF IntakeInv, JobFits
  <2>2. \A r \in Own(j, rows) : r.cost \in Nat
    BY <1>1, OwnCalls
  <2>3. a.charged \in Charges(answer)
    BY <1>3, <1>5
  <2>4. IntakeFits(j, y, Own(j, attempts) \cup {a}, Own(j, rows), pipeline[j], items[j], inserted,
                   StagesOf(j, lapses.unrecorded), StagesOf(j, lapses.ambiguous))
    BY <1>1, <1>5, <1>6, <2>1, <2>2, <2>3, SentFits
  <2> QED
    BY <1>7, <1>9, <2>4 DEF JobFits, Send
<1>11. \A k \in Jobs : JobFits(k)'
  <2>1. OthersKept(j)
    BY <1>7, <1>9 DEF OthersKept, Send
  <2> QED
    BY <1>10, <2>1, OthersFit
<1> DEFINE c == [job |-> j, stage |-> job[j].stage]
<1>12. /\ c.stage = job[j].stage /\ c \in [job : Jobs, stage : Stages]
       /\ \A x \in [job : Jobs, stage : Stages] : x = c <=> (x.job = j /\ x.stage = job[j].stage)
  BY <1>1 DEF JobRecs
<1> HIDE DEF c
<1>13. \A d \in 0..MaxDay : Funded(d)'
  <2> SUFFICES ASSUME NEW d \in 0..MaxDay PROVE Funded(d)'
    OBVIOUS
  <2>1. /\ DayFits(OnDay(d, attempts), Sending(d), ledger[d], peak[d])
        /\ ledger[d] \in LedgerRows \cup {NoLedger}
    BY <1>1 DEF IntakeInv, Funded, IntakeType
  <2>2. CASE d = job[j].day
    <3>1. c \in Sending(d) /\ Sending(d)' = Sending(d) \ {c}
      BY <1>1, <1>6, <1>7, <1>12, <2>2 DEF Sending
    <3>2. OnDay(d, attempts') = OnDay(d, attempts) \cup {a}
      BY <1>5, <2>2 DEF OnDay
    <3>3. DayFits(OnDay(d, attempts) \cup {a}, Sending(d) \ {c}, ledger[d], peak[d])
      BY <1>5, <1>12, <2>1, <3>1, DaySent
    <3> QED
      BY <3>1, <3>2, <3>3 DEF Funded, Send
  <2>3. CASE d # job[j].day
    <3>1. Sending(d)' = Sending(d)
      BY <1>6, <1>7, <2>3 DEF Sending
    <3>2. OnDay(d, attempts') = OnDay(d, attempts)
      BY <1>5, <2>3 DEF OnDay
    <3> QED
      BY <2>1, <3>1, <3>2 DEF Funded, Send
  <2> QED
    BY <2>2, <2>3
<1>14. LockKept'
  BY <1>1, <1>6, <1>7, LockSame DEF Send, Past, Over
<1>15. FutureFree'
  BY DEF IntakeInv, FutureFree, Send
<1> QED
  BY <1>8, <1>11, <1>13, <1>14, <1>15 DEF IntakeInv

LEMMA RowMade ==
  ASSUME NEW j \in Jobs, NEW phase \in Stages, NEW status \in {"success", "error"},
         NEW billing \in Billings, NEW cost \in Nat, NEW row,
         row = [job |-> j, stage |-> phase, status |-> status, cached |-> FALSE,
                billing |-> billing, cost |-> cost]
  PROVE  /\ row \in RowRecs /\ row.job = j /\ row.stage = phase /\ ~row.cached
         /\ row.status = status /\ row.billing = billing /\ row.cost = cost
<1>1. row \in RowRecs
  BY DEF RowRecs
<1>2. ~row.cached
  OBVIOUS
<1>3. row.job = j /\ row.stage = phase /\ row.status = status /\ row.billing = billing /\ row.cost = cost
  OBVIOUS
<1> QED
  BY <1>1, <1>2, <1>3

LEMMA RecordInv ==
  ASSUME IntakeInv, NEW j \in Jobs, NEW row, NEW status, NEW next, NEW fallback,
         \/ job[j].pc = "record" /\ status = "success" /\ next = "ingest" /\ fallback = "error"
         \/ job[j].pc = "error" /\ status = "error" /\ next = "fail" /\ fallback = "fail",
         row \in RowRecs, row.job = j, row.stage = job[j].stage, ~row.cached, row.status = status,
         row.billing = QuoteCall(job[j].stage, job[j].answer).billing,
         row.cost = QuoteCall(job[j].stage, job[j].answer).cost,
         Record(j, row, next, fallback),
         UNCHANGED <<day, lock, ledger, cache, inserted, items, pipeline, attempts, peak>>
  PROVE  IntakeInv'
<1>1. /\ IntakeType /\ job[j].pc \in {"record", "error"} /\ job[j] \in JobRecs
      /\ job \in [Jobs -> JobRecs] /\ rows \in SUBSET RowRecs /\ job[j].stage \in Stages
      /\ lapses \in Lapses
  BY DEF IntakeInv, IntakeType, JobRecs
<1>2. /\ row \in RowRecs /\ row.job = j /\ row.stage = job[j].stage /\ ~row.cached
      /\ row.status = status
      /\ row.billing = QuoteCall(job[j].stage, job[j].answer).billing
      /\ row.cost = QuoteCall(job[j].stage, job[j].answer).cost
  OBVIOUS
<1> DEFINE missed == lapses.unrecorded \cup {Call(j)}
           doubted == lapses.ambiguous \cup {Call(j)}
<1>3. PICK place \in {next, fallback} :
        /\ job' = [job EXCEPT ![j].pc = place, ![j].recorded = job[j].recorded \cup {row}]
        /\ rows' \in {rows, rows \cup {row}}
        /\ lapses' \in Lapses /\ lapses'.lock = lapses.lock
        /\ lapses'.unrecorded \in {lapses.unrecorded, missed}
        /\ lapses'.ambiguous \in {lapses.ambiguous, doubted}
        /\ \/ place = next /\ rows' = rows \cup {row}
           \/ place = fallback /\ rows' = rows \cup {row} /\ lapses'.ambiguous = doubted
           \/ place = fallback /\ rows' = rows /\ (status = "error" => lapses'.unrecorded = missed)
  <2>1. CASE /\ rows' = rows \cup {row}
             /\ job' = [job EXCEPT ![j].pc = next, ![j].recorded = @ \cup {row}]
             /\ UNCHANGED lapses
    BY <1>1, <2>1
  <2>2. ASSUME NEW committed \in BOOLEAN,
               lapses' = [lapses EXCEPT !.count = @ + 1,
                            !.unrecorded = IF row.status = "error" /\ ~committed THEN @ \cup {Call(j)} ELSE @,
                            !.ambiguous = IF committed THEN @ \cup {Call(j)} ELSE @],
               rows' = IF committed THEN rows \cup {row} ELSE rows,
               job' = [job EXCEPT ![j].pc = fallback, ![j].recorded = @ \cup {row}]
        PROVE  \E place \in {next, fallback} :
                 /\ job' = [job EXCEPT ![j].pc = place, ![j].recorded = job[j].recorded \cup {row}]
                 /\ rows' \in {rows, rows \cup {row}}
                 /\ lapses' \in Lapses /\ lapses'.lock = lapses.lock
                 /\ lapses'.unrecorded \in {lapses.unrecorded, missed}
                 /\ lapses'.ambiguous \in {lapses.ambiguous, doubted}
                 /\ \/ place = next /\ rows' = rows \cup {row}
                    \/ place = fallback /\ rows' = rows \cup {row} /\ lapses'.ambiguous = doubted
                    \/ place = fallback /\ rows' = rows /\ (status = "error" => lapses'.unrecorded = missed)
    <3>1. missed \in SUBSET (Jobs \X Stages) /\ doubted \in SUBSET (Jobs \X Stages)
      BY <1>1 DEF Call, Lapses
    <3>2. lapses.count + 1 \in Nat
      BY <1>1 DEF Lapses
    <3>3. /\ lapses'.unrecorded = (IF status = "error" /\ ~committed THEN missed ELSE lapses.unrecorded)
          /\ lapses'.ambiguous = (IF committed THEN doubted ELSE lapses.ambiguous)
          /\ lapses'.lock = lapses.lock
      BY <1>1, <1>2, <2>2 DEF Lapses
    <3> HIDE DEF missed, doubted
    <3>4. lapses' \in Lapses
      <4> DEFINE u == IF row.status = "error" /\ ~committed THEN lapses.unrecorded \cup {Call(j)} ELSE lapses.unrecorded
                 b == IF committed THEN lapses.ambiguous \cup {Call(j)} ELSE lapses.ambiguous
      <4>1. u \in SUBSET (Jobs \X Stages) /\ b \in SUBSET (Jobs \X Stages)
        BY <1>1, <3>1 DEF Lapses, missed, doubted
      <4>2. lapses' = [lapses EXCEPT !.count = lapses.count + 1, !.unrecorded = u, !.ambiguous = b]
        BY <2>2
      <4> HIDE DEF u, b
      <4> QED
        BY <1>1, <3>2, <4>1, <4>2 DEF Lapses
    <3> QED
      BY <2>2, <3>3, <3>4
  <2> QED
    BY <2>1, <2>2 DEF Record
<1> HIDE DEF missed, doubted
<1>4. PICK y : y = [job[j] EXCEPT !.pc = place, !.recorded = job[j].recorded \cup {row}]
  OBVIOUS
<1>5. /\ y \in JobRecs /\ y.pc = place /\ y.plan = job[j].plan /\ y.stage = job[j].stage
      /\ y.result = job[j].result /\ y.new = job[j].new /\ y.ids = job[j].ids
      /\ y.recorded = job[j].recorded \cup {row} /\ y.reserved = job[j].reserved
      /\ y.page = job[j].page /\ y.answer = job[j].answer /\ y.day = job[j].day
      /\ job' \in [Jobs -> JobRecs] /\ job'[j] = y /\ \A k \in Jobs \ {j} : job'[k] = job[k]
  <2>1. place \in Places
    BY DEF Places
  <2>2. y \in JobRecs
    BY <1>1, <1>2, <1>4, <2>1 DEF JobRecs
  <2>3. /\ y.pc = place /\ y.recorded = job[j].recorded \cup {row}
        /\ y.plan = job[j].plan /\ y.stage = job[j].stage
        /\ y.result = job[j].result /\ y.new = job[j].new /\ y.ids = job[j].ids
        /\ y.reserved = job[j].reserved /\ y.page = job[j].page /\ y.day = job[j].day
        /\ y.answer = job[j].answer
    BY <1>1, <1>4 DEF JobRecs
  <2>4. job' = [job EXCEPT ![j] = y]
    BY <1>3, <1>4
  <2> QED
    BY <1>1, <2>2, <2>3, <2>4
<1>6. IntakeType'
  BY <1>1, <1>2, <1>3, <1>5 DEF IntakeType
<1>7. /\ Own(j, rows \cup {row}) = Own(j, rows) \cup {row}
      /\ \A k : k # j => Own(k, rows \cup {row}) = Own(k, rows)
  BY <1>2, RowWritten
<1>8. PICK own : own = Own(j, rows')
  OBVIOUS
<1>9. PICK late : late = StagesOf(j, lapses'.unrecorded)
  OBVIOUS
<1>10. PICK twice : twice = StagesOf(j, lapses'.ambiguous)
  OBVIOUS
<1>11. /\ StagesOf(j, lapses.unrecorded) \subseteq StagesOf(j, missed)
       /\ job[j].stage \in StagesOf(j, missed)
       /\ \A k : k # j => StagesOf(k, missed) = StagesOf(k, lapses.unrecorded)
  <2>1. PICK calls, phase : calls = lapses.unrecorded /\ phase = job[j].stage
    OBVIOUS
  <2>2. /\ StagesOf(j, calls) \subseteq StagesOf(j, calls \cup {<<j, phase>>})
        /\ phase \in StagesOf(j, calls \cup {<<j, phase>>})
        /\ \A k : k # j => StagesOf(k, calls \cup {<<j, phase>>}) = StagesOf(k, calls)
    <3>1. phase \in Stages
      BY <1>1, <2>1
    <3> QED
      BY <3>1 DEF StagesOf
  <2>3. missed = calls \cup {<<j, phase>>}
    BY <2>1 DEF missed, Call
  <2> QED
    BY <2>1, <2>2, <2>3
<1>12. /\ StagesOf(j, lapses.ambiguous) \subseteq StagesOf(j, doubted)
       /\ job[j].stage \in StagesOf(j, doubted)
       /\ \A k : k # j => StagesOf(k, doubted) = StagesOf(k, lapses.ambiguous)
  <2>1. PICK calls, phase : calls = lapses.ambiguous /\ phase = job[j].stage
    OBVIOUS
  <2>2. /\ StagesOf(j, calls) \subseteq StagesOf(j, calls \cup {<<j, phase>>})
        /\ phase \in StagesOf(j, calls \cup {<<j, phase>>})
        /\ \A k : k # j => StagesOf(k, calls \cup {<<j, phase>>}) = StagesOf(k, calls)
    <3>1. phase \in Stages
      BY <1>1, <2>1
    <3> QED
      BY <3>1 DEF StagesOf
  <2>3. doubted = calls \cup {<<j, phase>>}
    BY <2>1 DEF doubted, Call
  <2> QED
    BY <2>1, <2>2, <2>3
<1>13. /\ StagesOf(j, lapses.unrecorded) \subseteq late
       /\ \A k \in Jobs \ {j} : StagesOf(k, lapses'.unrecorded) = StagesOf(k, lapses.unrecorded)
       /\ lapses'.unrecorded = missed => job[j].stage \in late
  <2>1. CASE lapses'.unrecorded = missed
    BY <1>9, <1>11, <2>1
  <2>2. CASE lapses'.unrecorded = lapses.unrecorded
    BY <1>9, <1>11, <2>2
  <2> QED
    BY <1>3, <2>1, <2>2
<1>14. /\ StagesOf(j, lapses.ambiguous) \subseteq twice
       /\ \A k \in Jobs \ {j} : StagesOf(k, lapses'.ambiguous) = StagesOf(k, lapses.ambiguous)
       /\ lapses'.ambiguous = doubted => job[j].stage \in twice
  <2>1. CASE lapses'.ambiguous = doubted
    BY <1>10, <1>12, <2>1
  <2>2. CASE lapses'.ambiguous = lapses.ambiguous
    BY <1>10, <1>12, <2>2
  <2> QED
    BY <1>3, <2>1, <2>2
<1>15. \A k \in Jobs \ {j} : Own(k, rows') = Own(k, rows)
  <2>1. CASE rows' = rows
    BY <2>1
  <2>2. CASE rows' = rows \cup {row}
    BY <1>7, <2>2
  <2> QED
    BY <1>3, <2>1, <2>2
<1>16. JobFits(j)'
  <2>1. IntakeFits(j, job[j], Own(j, attempts), Own(j, rows), pipeline[j], items[j], inserted,
                   StagesOf(j, lapses.unrecorded), StagesOf(j, lapses.ambiguous))
    BY DEF IntakeInv, JobFits
  <2>2. \A r \in Own(j, rows) : r.cost \in Nat
    BY <1>1, OwnCalls
  <2>3. \/ place = next /\ own = Own(j, rows) \cup {row}
        \/ place = fallback /\ own = Own(j, rows) \cup {row} /\ job[j].stage \in twice
        \/ place = fallback /\ own = Own(j, rows) /\ (status = "error" => job[j].stage \in late)
    BY <1>3, <1>7, <1>8, <1>13, <1>14
  <2>4. \/ job[j].pc = "record" /\ y.pc = "ingest" /\ own = Own(j, rows) \cup {row}
        \/ job[j].pc = "record" /\ y.pc = "error" /\ own = Own(j, rows) \cup {row} /\ job[j].stage \in twice
        \/ job[j].pc = "record" /\ y.pc = "error" /\ own = Own(j, rows)
        \/ job[j].pc = "error" /\ y.pc = "fail" /\ own = Own(j, rows) \cup {row}
        \/ job[j].pc = "error" /\ y.pc = "fail" /\ own = Own(j, rows) /\ job[j].stage \in late
    BY <1>5, <2>3
  <2>5. IntakeFits(j, y, Own(j, attempts), own, pipeline[j], items[j], inserted, late, twice)
    BY <1>1, <1>2, <1>5, <1>13, <1>14, <2>1, <2>2, <2>4, RecordedFits
  <2> QED
    BY <1>5, <1>8, <1>9, <1>10, <2>5 DEF JobFits
<1>17. \A k \in Jobs : JobFits(k)'
  <2>1. OthersKept(j)
    BY <1>5, <1>13, <1>14, <1>15 DEF OthersKept
  <2> QED
    BY <1>16, <2>1, OthersFit
<1>18. \A d \in 0..MaxDay : Funded(d)'
  <2>1. \A d : Sending(d)' = Sending(d)
    BY <1>1, <1>5, SendingSame
  <2> QED
    BY <2>1, FundedKept
<1>19. LockKept'
  <2>1. job'[j].pc \in Past => job[j].pc \in Past
    BY <1>5 DEF Past, Calling
  <2> QED
    BY <1>1, <1>3, <1>5, <2>1, LockSame DEF Over
<1>20. FutureFree'
  BY DEF IntakeInv, FutureFree
<1> QED
  BY <1>6, <1>17, <1>18, <1>19, <1>20 DEF IntakeInv

(* The row of a call that was answered.                                    *)
LEMMA CallRow ==
  ASSUME NEW j \in Jobs, NEW phase \in Stages, NEW answer \in Answers, NEW status \in {"success", "error"}
  PROVE  \E row \in RowRecs :
           /\ row = [job |-> j, stage |-> phase, status |-> status, cached |-> FALSE,
                     billing |-> QuoteCall(phase, answer).billing, cost |-> QuoteCall(phase, answer).cost]
           /\ row.job = j /\ row.stage = phase /\ ~row.cached /\ row.status = status
           /\ row.billing = QuoteCall(phase, answer).billing /\ row.cost = QuoteCall(phase, answer).cost
<1>1. QuoteCall(phase, answer).billing \in Billings /\ QuoteCall(phase, answer).cost \in Nat
  BY Quoted
<1>2. PICK billing, cost :
        billing = QuoteCall(phase, answer).billing /\ cost = QuoteCall(phase, answer).cost
  OBVIOUS
<1>3. billing \in Billings /\ cost \in Nat
  BY <1>1, <1>2
<1>4. PICK row : row = [job |-> j, stage |-> phase, status |-> status, cached |-> FALSE,
                        billing |-> billing, cost |-> cost]
  OBVIOUS
<1>5. /\ row \in RowRecs /\ row.job = j /\ row.stage = phase /\ ~row.cached
      /\ row.status = status /\ row.billing = billing /\ row.cost = cost
  BY <1>3, <1>4, RowMade
<1> QED
  BY <1>2, <1>4, <1>5

LEMMA RecordsInv ==
  ASSUME IntakeInv, NEW j \in Jobs, RecordSuccess(j) \/ RecordError(j)
  PROVE  IntakeInv'
<1>1. job[j].stage \in Stages /\ job[j].pc \in {"record", "error"}
  BY DEF IntakeInv, IntakeType, JobRecs, RecordSuccess, RecordError, At
<1>2. job[j].answer \in Answers
  BY <1>1 DEF IntakeInv, JobFits, IntakeFits, Answered, Calling
<1>3. PICK phase, answer : phase = job[j].stage /\ answer = job[j].answer
  OBVIOUS
<1>4. CASE RecordSuccess(j)
  <2>1. PICK row \in RowRecs :
          /\ row = [job |-> j, stage |-> phase, status |-> "success", cached |-> FALSE,
                    billing |-> QuoteCall(phase, answer).billing, cost |-> QuoteCall(phase, answer).cost]
          /\ row.job = j /\ row.stage = phase /\ ~row.cached /\ row.status = "success"
          /\ row.billing = QuoteCall(phase, answer).billing /\ row.cost = QuoteCall(phase, answer).cost
    BY <1>1, <1>2, <1>3, CallRow
  <2>2. Record(j, row, "ingest", "error")
    BY <1>3, <1>4, <2>1 DEF RecordSuccess, Row
  <2>3. /\ row.job = j /\ row.stage = job[j].stage /\ ~row.cached /\ row.status = "success"
        /\ row.billing = QuoteCall(job[j].stage, job[j].answer).billing
        /\ row.cost = QuoteCall(job[j].stage, job[j].answer).cost
    BY <1>3, <2>1
  <2>4. /\ job[j].pc = "record"
        /\ UNCHANGED <<day, lock, ledger, cache, inserted, items, pipeline, attempts, peak>>
    BY <1>4 DEF RecordSuccess, At
  <2> QED
    BY <2>2, <2>3, <2>4, RecordInv
<1>5. CASE RecordError(j)
  <2>1. PICK row \in RowRecs :
          /\ row = [job |-> j, stage |-> phase, status |-> "error", cached |-> FALSE,
                    billing |-> QuoteCall(phase, answer).billing, cost |-> QuoteCall(phase, answer).cost]
          /\ row.job = j /\ row.stage = phase /\ ~row.cached /\ row.status = "error"
          /\ row.billing = QuoteCall(phase, answer).billing /\ row.cost = QuoteCall(phase, answer).cost
    BY <1>1, <1>2, <1>3, CallRow
  <2>2. Record(j, row, "fail", "fail")
    BY <1>3, <1>5, <2>1 DEF RecordError, Row
  <2>3. /\ row.job = j /\ row.stage = job[j].stage /\ ~row.cached /\ row.status = "error"
        /\ row.billing = QuoteCall(job[j].stage, job[j].answer).billing
        /\ row.cost = QuoteCall(job[j].stage, job[j].answer).cost
    BY <1>3, <2>1
  <2>4. /\ job[j].pc = "error"
        /\ UNCHANGED <<day, lock, ledger, cache, inserted, items, pipeline, attempts, peak>>
    BY <1>5 DEF RecordError, At
  <2> QED
    BY <2>2, <2>3, <2>4, RecordInv
<1> QED
  BY <1>4, <1>5

(* A page that was ingested: what is new of it is this run's.              *)
LEMMA IngestInv ==
  ASSUME IntakeInv, NEW j \in Jobs, Ingest(j)
  PROVE  IntakeInv'
<1>1. /\ IntakeType /\ job[j].pc = "ingest" /\ job[j] \in JobRecs
      /\ job \in [Jobs -> JobRecs] /\ job[j].stage \in Stages
      /\ items \in [Jobs -> [Videos -> Marks]] /\ items[j] \in [Videos -> Marks]
  BY DEF IntakeInv, IntakeType, JobRecs, Ingest, At
<1>2. PICK page, fresh, ids, place, phase, toAsk :
        /\ page = job[j].page
        /\ fresh = IF job[j].stage = "discovery" THEN NewIn(page) ELSE job[j].new
        /\ ids = IF job[j].stage = "discovery" THEN DetailIds(job[j].plan, page, fresh) ELSE {}
        /\ place = IF ids = {} THEN "score" ELSE "lookup"
        /\ phase = IF ids = {} THEN job[j].stage ELSE "details"
        /\ toAsk = IF ids = {} THEN job[j].ids ELSE ids
  OBVIOUS
<1>3. /\ page \subseteq Videos /\ fresh \subseteq Videos /\ toAsk \subseteq Videos
      /\ phase \in Stages /\ place \in {"score", "lookup"}
  <2>1. page \subseteq Videos
    BY <1>1, <1>2 DEF IntakeInv, JobFits, IntakeFits, Placed
  <2>2. job[j].new \subseteq Videos /\ job[j].ids \subseteq Videos
    BY <1>1 DEF JobRecs
  <2>3. fresh \subseteq Videos
    BY <1>2, <2>1, <2>2 DEF NewIn
  <2>4. ids \subseteq Videos
    BY <1>2, <2>1, <2>3 DEF DetailIds
  <2> QED
    BY <1>1, <1>2, <2>1, <2>2, <2>3, <2>4 DEF Stages
<1> DEFINE since == [v \in Videos |-> IF v \in page /\ inserted[v] = NoJob THEN j ELSE inserted[v]]
           mine == [v \in Videos |-> IF v \in page /\ items[j][v] = NoItem THEN "L0" ELSE items[j][v]]
<1>4. \/ /\ inserted' = since
         /\ items' = [items EXCEPT ![j] = mine]
         /\ job' = [job EXCEPT ![j].new = fresh, ![j].page = NoPage, ![j].answer = "none",
                      ![j].pc = place, ![j].stage = phase, ![j].ids = toAsk]
         /\ UNCHANGED lapses
      \/ Lapse /\ Goto(j, "fail") /\ UNCHANGED <<inserted, items>>
  BY <1>2 DEF Ingest
<1>5. CASE Lapse /\ Goto(j, "fail") /\ UNCHANGED <<inserted, items>>
  <2>1. job' \in [Jobs -> JobRecs] /\ lapses' \in Lapses
    BY <1>1, <1>5, GoTyped, LapseTyped DEF Goto, Places
  <2>2. IntakeType'
    BY <1>1, <1>5, <2>1 DEF IntakeType, Ingest
  <2> QED
    BY <1>1, <1>5, <2>2, FailStep DEF Ingest
<1>6. CASE /\ inserted' = since
           /\ items' = [items EXCEPT ![j] = mine]
           /\ job' = [job EXCEPT ![j].new = fresh, ![j].page = NoPage, ![j].answer = "none",
                        ![j].pc = place, ![j].stage = phase, ![j].ids = toAsk]
           /\ UNCHANGED lapses
  <2>1. /\ since \in [Videos -> Jobs \cup {NoJob, Elsewhere}]
        /\ \A v \in Videos : inserted[v] # NoJob => since[v] = inserted[v]
    BY <1>1 DEF IntakeType
  <2>2. mine \in [Videos -> Marks] /\ \A v \in Videos : mine[v] = "new" => items[j][v] = "new"
    BY <1>1 DEF Marks
  <2> HIDE DEF since, mine
  <2>3. /\ items' \in [Jobs -> [Videos -> Marks]] /\ items'[j] = mine
        /\ \A k \in Jobs \ {j} : items'[k] = items[k]
    BY <1>1, <1>6, <2>2
  <2>4. PICK y : y = [job[j] EXCEPT !.new = fresh, !.page = NoPage, !.answer = "none",
                        !.pc = place, !.stage = phase, !.ids = toAsk]
    OBVIOUS
  <2>5. y \in JobRecs
    BY <1>1, <1>3, <2>4 DEF JobRecs, Places
  <2>6. /\ y.plan = job[j].plan /\ y.result = job[j].result /\ y.new = fresh
        /\ y.reserved = job[j].reserved /\ y.recorded = job[j].recorded /\ y.day = job[j].day
        /\ y.pc = place /\ y.stage = phase /\ y.ids = toAsk
    BY <1>1, <2>4 DEF JobRecs
  <2>7. job' = [job EXCEPT ![j] = y]
    BY <1>6, <2>4
  <2>8. job' \in [Jobs -> JobRecs] /\ job'[j] = y /\ \A k \in Jobs \ {j} : job'[k] = job[k]
    BY <1>1, <2>5, <2>7
  <2>9. IntakeType'
    BY <1>1, <1>6, <2>1, <2>3, <2>8 DEF IntakeType, Ingest
  <2>10. UNCHANGED <<day, lock, ledger, cache, rows, pipeline, attempts, peak, lapses>>
    BY <1>6 DEF Ingest
  <2>11. JobFits(j)'
    <3>1. IntakeFits(j, job[j], Own(j, attempts), Own(j, rows), pipeline[j], items[j], inserted,
                     StagesOf(j, lapses.unrecorded), StagesOf(j, lapses.ambiguous))
      BY DEF IntakeInv, JobFits
    <3>2. j # NoJob /\ Own(j, attempts) \in SUBSET CallRecs
      BY <1>1, OwnCalls
    <3>3. /\ fresh = IF job[j].stage = "discovery" THEN {v \in job[j].page : inserted[v] = NoJob} ELSE job[j].new
          /\ ids = IF job[j].stage = "discovery" THEN DetailIds(job[j].plan, job[j].page, fresh) ELSE {}
          /\ y.pc = IF ids = {} THEN "score" ELSE "lookup"
          /\ y.stage = IF ids = {} THEN job[j].stage ELSE "details"
          /\ y.ids = IF ids = {} THEN job[j].ids ELSE ids
          /\ \A v \in Videos :
               since[v] = IF v \in job[j].page /\ inserted[v] = NoJob THEN j ELSE inserted[v]
      BY <1>2, <2>6 DEF NewIn, since
    <3>4. IntakeFits(j, y, Own(j, attempts), Own(j, rows), pipeline[j], mine, since,
                     StagesOf(j, lapses.unrecorded), StagesOf(j, lapses.ambiguous))
      <4>1. PICK x, calls, own, run, found, by, lost, twice :
              /\ x = job[j] /\ calls = Own(j, attempts) /\ own = Own(j, rows) /\ run = pipeline[j]
              /\ found = items[j] /\ by = inserted
              /\ lost = StagesOf(j, lapses.unrecorded) /\ twice = StagesOf(j, lapses.ambiguous)
        OBVIOUS
      <4>2. x \in JobRecs /\ calls \in SUBSET CallRecs
        BY <1>1, <3>2, <4>1
      <4>3. IntakeFits(j, x, calls, own, run, found, by, lost, twice)
        BY <3>1, <4>1
      <4>4. /\ x.pc = "ingest" /\ y.plan = x.plan /\ y.result = x.result /\ y.new = fresh
            /\ y.reserved = x.reserved /\ y.recorded = x.recorded
        BY <1>1, <2>6, <4>1
      <4>5. /\ x.stage = "discovery" => \A v : v \in fresh <=> (v \in x.page /\ by[v] = NoJob)
            /\ x.stage # "discovery" => fresh = x.new
            /\ ids = IF x.stage = "discovery" THEN DetailIds(x.plan, x.page, fresh) ELSE {}
            /\ y.pc = IF ids = {} THEN "score" ELSE "lookup"
            /\ y.stage = IF ids = {} THEN x.stage ELSE "details"
            /\ y.ids = IF ids = {} THEN x.ids ELSE ids
            /\ \A v \in Videos : since[v] = IF v \in x.page /\ by[v] = NoJob THEN j ELSE by[v]
        BY <3>3, <4>1
      <4>6. IngestsTo(j, x, y, fresh, ids, by, since)
        BY <4>4, <4>5 DEF IngestsTo
      <4>7. \A v \in Videos : mine[v] = "new" => found[v] = "new"
        BY <2>2, <4>1
      <4>8. IntakeFits(j, y, calls, own, run, mine, since, lost, twice)
        BY <2>5, <3>2, <4>2, <4>3, <4>6, <4>7, IngestedFits
      <4> QED
        BY <4>1, <4>8
    <3> QED
      BY <1>6, <2>3, <2>8, <2>10, <3>3, <3>4 DEF JobFits
  <2>12. \A k \in Jobs : JobFits(k)'
    <3>1. OthersKept(j)
      BY <1>6, <2>1, <2>3, <2>8, <2>10 DEF OthersKept
    <3> QED
      BY <2>11, <3>1, OthersFit
  <2>13. \A d \in 0..MaxDay : Funded(d)'
    <3>1. job[j].pc # "send" /\ job'[j].pc # "send"
      BY <1>1, <1>3, <2>6, <2>8
    <3>2. \A d : Sending(d)' = Sending(d)
      BY <2>8, <3>1, SendingSame
    <3> QED
      BY <2>10, <3>2, FundedKept
  <2>14. LockKept'
    <3>1. job[j].pc \in Past /\ job[j].pc \notin {"start"} \cup Over
      BY <1>1 DEF Past, Over
    <3>2. /\ job'[j].plan = job[j].plan /\ job'[j].reserved = job[j].reserved
          /\ job'[j].day = job[j].day
      BY <2>6, <2>8
    <3> QED
      BY <2>8, <2>10, <3>1, <3>2, LockSame
  <2>15. FutureFree'
    BY <2>10 DEF IntakeInv, FutureFree
  <2> QED
    BY <2>9, <2>12, <2>13, <2>14, <2>15 DEF IntakeInv
<1> QED
  BY <1>4, <1>5, <1>6

-----------------------------------------------------------------------------
(* What happens around the jobs.                                           *)

LEMMA MidnightInv ==
  ASSUME IntakeInv, Midnight
  PROVE  IntakeInv'
<1>1. IntakeType'
  BY IntakeAssumption DEF IntakeInv, IntakeType, Midnight
<1>2. \A j \in Jobs : JobFits(j)'
  BY DEF IntakeInv, JobFits, Midnight
<1>3. \A d \in 0..MaxDay : Funded(d)'
  BY DEF IntakeInv, Funded, Sending, Midnight
<1>4. FutureFree' /\ ledger[day'] = NoLedger
  BY IntakeAssumption DEF IntakeInv, IntakeType, FutureFree, Midnight
<1>5. LockKept'
  BY <1>4 DEF IntakeInv, LockKept, HolderFits, Running, Midnight
<1> QED
  BY <1>1, <1>2, <1>3, <1>4, <1>5 DEF IntakeInv

LEMMA ExpireInv ==
  ASSUME IntakeInv, NEW q \in Requests, Expire(q)
  PROVE  IntakeInv'
<1>1. IntakeType'
  BY DEF IntakeInv, IntakeType, Expire
<1>2. \A j \in Jobs : JobFits(j)'
  BY DEF IntakeInv, JobFits, Expire
<1>3. \A d \in 0..MaxDay : Funded(d)'
  BY DEF IntakeInv, Funded, Sending, Expire
<1>4. FutureFree' /\ LockKept'
  BY DEF IntakeInv, FutureFree, LockKept, Running, Expire
<1> QED
  BY <1>1, <1>2, <1>3, <1>4 DEF IntakeInv

LEMMA OtherIngestInv ==
  ASSUME IntakeInv, NEW v \in Videos, OtherIngest(v)
  PROVE  IntakeInv'
<1>1. IntakeType'
  BY DEF IntakeInv, IntakeType, OtherIngest
<1>2. \A w \in Videos : inserted[w] # NoJob => inserted'[w] = inserted[w]
  BY DEF IntakeInv, IntakeType, OtherIngest
<1>3. \A j \in Jobs : JobFits(j)'
  <2> SUFFICES ASSUME NEW j \in Jobs PROVE JobFits(j)'
    OBVIOUS
  <2>1. j # NoJob /\ job[j] \in JobRecs /\ Own(j, attempts) \in SUBSET CallRecs
    BY OwnCalls DEF IntakeInv
  <2>2. IntakeFits(j, job[j], Own(j, attempts), Own(j, rows), pipeline[j], items[j], inserted,
                   StagesOf(j, lapses.unrecorded), StagesOf(j, lapses.ambiguous))
    BY DEF IntakeInv, JobFits
  <2>3. IntakeFits(j, job[j], Own(j, attempts), Own(j, rows), pipeline[j], items[j], inserted',
                   StagesOf(j, lapses.unrecorded), StagesOf(j, lapses.ambiguous))
    BY <1>2, <2>1, <2>2, InsertedSince
  <2> QED
    BY <2>3 DEF JobFits, OtherIngest
<1>4. \A d \in 0..MaxDay : Funded(d)'
  BY DEF IntakeInv, Funded, Sending, OtherIngest
<1>5. FutureFree' /\ LockKept'
  BY DEF IntakeInv, FutureFree, LockKept, Running, OtherIngest
<1> QED
  BY <1>1, <1>3, <1>4, <1>5 DEF IntakeInv

LEMMA StandStillInv ==
  ASSUME IntakeInv, UNCHANGED intakeVars
  PROVE  IntakeInv'
<1>1. \A j \in Jobs : JobFits(j)'
  BY DEF IntakeInv, JobFits, intakeVars
<1>2. \A d \in 0..MaxDay : Funded(d)'
  BY DEF IntakeInv, Funded, Sending, intakeVars
<1>3. IntakeType' /\ FutureFree' /\ LockKept'
  BY DEF IntakeInv, IntakeType, FutureFree, LockKept, Running, intakeVars
<1> QED
  BY <1>1, <1>2, <1>3 DEF IntakeInv

LEMMA PlansTyped == Plans \subseteq PlanRecs
<1>1. ScheduledPlan \in PlanRecs
  BY DEF ScheduledPlan, Plan, PlanRecs
<1>2. ManualPlans \subseteq PlanRecs
  <2>1. \A enrich \in BOOLEAN, force \in BOOLEAN, calls \in 1..2, ceiling \in Ceilings :
          [entry |-> "manual", enrich |-> enrich, novel |-> FALSE, force |-> force, calls |-> calls,
           ceiling |-> ceiling] \in PlanRecs
    BY IntakeAssumption DEF PlanRecs
  <2> QED
    BY <2>1 DEF ManualPlans, Plan
<1>3. \A p \in PlanRecs : [p EXCEPT !.entry = "dashboard"] \in PlanRecs
  BY DEF PlanRecs
<1>4. DashboardPlans \subseteq PlanRecs
  BY <1>2, <1>3 DEF DashboardPlans
<1> QED
  BY <1>1, <1>2, <1>4 DEF Plans

LEMMA IntakeStarts ==
  ASSUME IntakeInit
  PROVE  IntakeInv
<1>1. /\ job \in [Jobs -> JobRecs]
      /\ \A j \in Jobs :
           /\ job[j].pc = "start" /\ job[j].result = "none" /\ job[j].reserved = 0
           /\ job[j].stage = "discovery" /\ job[j].ids = {} /\ job[j].new = {}
           /\ job[j].recorded = {} /\ job[j].plan \in PlanRecs
  <2>1. \A p \in PlanRecs : Fresh(p) \in JobRecs
    BY IntakeAssumption DEF Fresh, JobRecs, Places, Results, Stages
  <2>2. \A j \in Jobs : \E p \in PlanRecs : job[j] = Fresh(p)
    BY PlansTyped DEF IntakeInit
  <2>3. job \in [Jobs -> JobRecs]
    BY <2>1, PlansTyped DEF IntakeInit
  <2> QED
    BY <2>2, <2>3 DEF Fresh
<1>2. IntakeType
  BY <1>1, IntakeAssumption DEF IntakeInit, IntakeType, LedgerRows, Marks, JobRuns, Lapses
<1>3. \A j \in Jobs : JobFits(j)
  <2> SUFFICES ASSUME NEW j \in Jobs PROVE JobFits(j)
    OBVIOUS
  <2>1. /\ Own(j, attempts) = {} /\ Own(j, rows) = {}
        /\ StagesOf(j, lapses.unrecorded) = {} /\ StagesOf(j, lapses.ambiguous) = {}
        /\ pipeline[j].cost = NoCost /\ \A v \in Videos : items[j][v] # "new"
    BY DEF IntakeInit, Own, StagesOf, NoItem
  <2>2. IsFiniteSet({}) /\ Cardinality({}) = 0
    BY FS_EmptySet
  <2>3. job[j].plan.calls \in Nat
    BY <1>1 DEF PlanRecs
  <2>4. Counted(job[j], {})
    BY <1>1, <2>2, <2>3 DEF Counted, Over
  <2>5. Placed(job[j]) /\ Answered(job[j], {})
    BY <1>1 DEF Placed, Answered, Calling, Requests
  <2>6. Novel(j, job[j], {}, items[j], inserted)
    BY <1>1, <2>1 DEF Novel
  <2>7. Written(job[j], {}, {}, {}, {})
    BY <1>1 DEF Written, Calling
  <2>8. Balanced(job[j], {}, {}, pipeline[j])
    <3>1. Unpriced({}) = {} /\ {a \in {} : a.charged} = {}
      BY DEF Unpriced
    <3>2. Due({}) <= Paid({})
      BY <3>1, PriceOfNone, CostOfNone DEF Due, Paid
    <3> QED
      BY <1>1, <2>1, <2>2, <3>2 DEF Balanced, Calling
  <2>9. Settled(job[j], {}, pipeline[j])
    BY <1>1 DEF Settled
  <2> QED
    BY <2>1, <2>4, <2>5, <2>6, <2>7, <2>8, <2>9 DEF JobFits, IntakeFits
<1>4. \A d \in 0..MaxDay : Funded(d)
  <2> SUFFICES ASSUME NEW d \in 0..MaxDay PROVE Funded(d)
    OBVIOUS
  <2>1. OnDay(d, attempts) = {} /\ Sending(d) = {} /\ ledger[d] = NoLedger /\ peak[d] = 0
    BY <1>1 DEF IntakeInit, OnDay, Sending
  <2>2. IsFiniteSet({})
    BY FS_EmptySet
  <2> QED
    BY <2>1, <2>2 DEF Funded, DayFits
<1>5. LockKept
  BY <1>1 DEF LockKept, Running, HolderFits, Past, Calling, IntakeInit, IntakeAssumption
<1>6. FutureFree
  BY DEF FutureFree, IntakeInit
<1> QED
  BY <1>2, <1>3, <1>4, <1>5, <1>6 DEF IntakeInv

LEMMA IntakeNextInv ==
  ASSUME IntakeInv, IntakeNext
  PROVE  IntakeInv'
<1>1. ASSUME NEW j \in Jobs,
             \/ TakeLock(j) \/ ReleaseLock(j) \/ CheckCaller(j) \/ Configure(j) \/ CreateRun(j)
             \/ UseCache(j) \/ Reserve(j) \/ Send(j) \/ SaveResponse(j)
             \/ RecordSuccess(j) \/ RecordError(j)
             \/ Ingest(j) \/ Score(j) \/ FlagNew(j) \/ FinishRun(j) \/ FailRun(j) \/ FinishCost(j)
             \/ Summarise(j)
             \/ Die(j) \/ DropSession(j)
      PROVE  IntakeInv'
  <2>1. CASE TakeLock(j) \/ CheckCaller(j) \/ Configure(j) \/ CreateRun(j)
    BY <2>1, TakeLockInv, CheckCallerInv, ConfigureInv, CreateRunInv
  <2>2. CASE ReleaseLock(j) \/ Die(j) \/ DropSession(j)
    BY <2>2, JobEndsInv
  <2>3. CASE UseCache(j) \/ Reserve(j) \/ Send(j) \/ SaveResponse(j)
    BY <2>3, UseCacheInv, ReserveInv, SendInv, SaveResponseInv
  <2>4. CASE RecordSuccess(j) \/ RecordError(j)
    BY <2>4, RecordsInv
  <2>5. CASE Ingest(j) \/ Score(j) \/ FlagNew(j)
    BY <2>5, IngestInv, ScoreInv, FlagNewInv
  <2>6. CASE FinishRun(j) \/ FailRun(j) \/ FinishCost(j) \/ Summarise(j)
    BY <2>6, FinishRunInv, FailRunInv, FinishCostInv, SummariseInv
  <2> QED
    BY <1>1, <2>1, <2>2, <2>3, <2>4, <2>5, <2>6
<1>2. CASE Midnight
  BY <1>2, MidnightInv
<1>3. ASSUME NEW q \in Requests, Expire(q)
      PROVE  IntakeInv'
  BY <1>3, ExpireInv
<1>4. ASSUME NEW v \in Videos, OtherIngest(v)
      PROVE  IntakeInv'
  BY <1>4, OtherIngestInv
<1> QED
  BY <1>1, <1>2, <1>3, <1>4 DEF IntakeNext

LEMMA IntakeInvariance == IntakeSpec => []IntakeInv
<1>1. IntakeInit => IntakeInv
  BY IntakeStarts
<1>2. IntakeInv /\ [IntakeNext]_intakeVars => IntakeInv'
  BY IntakeNextInv, StandStillInv
<1> QED
  BY <1>1, <1>2, PTL DEF IntakeSpec

(* What the provider may charge is booked on the day it was reserved on,   *)
(* within a ceiling that the day has had: no fault, midnight or race of    *)
(* two jobs of run_live and acquire lets a request out that is not.        *)
THEOREM ChargesAreCovered == IntakeSpec => []ChargesCovered
<1>1. IntakeInv => ChargesCovered
  <2> SUFFICES ASSUME IntakeInv PROVE ChargesCovered
    OBVIOUS
  <2>1. ASSUME NEW d \in 0..MaxDay
        PROVE  /\ OnDay(d, attempts) # {} => ledger[d] # NoLedger
               /\ ledger[d] # NoLedger =>
                    /\ Cardinality(OnDay(d, attempts)) <= ledger[d].used
                    /\ Due(OnDay(d, attempts)) <= ledger[d].spent
                    /\ Within(ledger[d].spent, peak[d])
    <3>1. DayFits(OnDay(d, attempts), Sending(d), ledger[d], peak[d])
      BY <2>1 DEF IntakeInv, Funded
    <3>2. /\ Cardinality(OnDay(d, attempts)) \in Nat /\ Cardinality(Sending(d)) \in Nat
          /\ Due(OnDay(d, attempts)) \in Nat /\ PriceOf(Sending(d)) \in Nat
      BY <3>1, DayNumbers DEF DayFits
    <3>3. ledger[d] # NoLedger => ledger[d].used \in Nat /\ ledger[d].spent \in Nat
      BY <2>1 DEF IntakeInv, IntakeType, LedgerRows
    <3> QED
      BY <3>1, <3>2, <3>3 DEF DayFits
  <2>2. ASSUME NEW j \in Jobs
        PROVE  /\ Cardinality(Own(j, attempts)) <= job[j].plan.calls
               /\ ~lapses.lock /\ lock = j /\ job[j].reserved > 0 =>
                    Within(ledger[job[j].day].spent, job[j].plan.ceiling)
    <3>1. Cardinality(Own(j, attempts)) <= job[j].plan.calls
      BY <2>2 DEF IntakeInv, JobFits, IntakeFits, Counted
    <3>2. ~lapses.lock /\ lock = j => HolderFits(job[j], ledger, day)
      BY <2>2 DEF IntakeInv, LockKept
    <3> QED
      BY <3>1, <3>2 DEF HolderFits
  <2> QED
    BY <2>1, <2>2 DEF ChargesCovered, OnDay, Due, Own
<1> QED
  BY <1>1, IntakeInvariance, PTL

(* The rows of external_api_call and the cost of a run say what was sent   *)
(* and charged: whatever statement of a job of run_live failed, and        *)
(* whether or not it had been committed.                                   *)
THEOREM RecordsAreTrue == IntakeSpec => []RecordsTrue
<1>1. IntakeInv => RecordsTrue
  <2> SUFFICES ASSUME IntakeInv PROVE RecordsTrue
    OBVIOUS
  <2>1. /\ \A row \in rows : row.job \in Jobs /\ row.stage \in Stages
        /\ \A a \in attempts : a.job \in Jobs /\ a.stage \in Stages
    BY DEF IntakeInv, IntakeType, RowRecs, CallRecs
  <2>2. \A j \in Jobs :
          /\ Written(job[j], Own(j, attempts), Own(j, rows), StagesOf(j, lapses.unrecorded),
                     StagesOf(j, lapses.ambiguous))
          /\ Balanced(job[j], Own(j, attempts), Own(j, rows), pipeline[j])
          /\ Settled(job[j], Own(j, attempts), pipeline[j])
    BY DEF IntakeInv, JobFits, IntakeFits
  <2>3. ASSUME NEW row \in rows, ~row.cached
        PROVE  \E a \in attempts :
                 /\ SameCall(a, row)
                 /\ row.billing = "known_zero" => ~a.charged
                 /\ row.billing = "estimated" => a.charged
    <3>1. row \in Own(row.job, rows) /\ row.job \in Jobs
      BY <2>1, <2>3 DEF Own
    <3>2. \E a \in Own(row.job, attempts) : RowOf(row, a)
      BY <2>2, <2>3, <3>1 DEF Written
    <3> QED
      BY <3>2 DEF Own, RowOf, SameCall
  <2>4. ASSUME NEW a \in attempts
        PROVE  \/ InCall(a)
               \/ <<a.job, a.stage>> \in lapses.unrecorded
               \/ \E row \in rows : SameCall(a, row) /\ ~row.cached
    <3>1. a \in Own(a.job, attempts) /\ a.job \in Jobs
      BY <2>1, <2>4 DEF Own
    <3>2. \/ job[a.job].stage = a.stage /\ job[a.job].pc \in Calling \cup {"error", "dead"}
          \/ a.stage \in StagesOf(a.job, lapses.unrecorded)
          \/ \E row \in Own(a.job, rows) : row.stage = a.stage /\ ~row.cached
      BY <2>2, <3>1 DEF Written
    <3> QED
      BY <3>2 DEF InCall, Calling, StagesOf, Own, SameCall
  <2>5. ASSUME NEW r1 \in rows, NEW r2 \in rows, r1.job = r2.job, r1.stage = r2.stage, r1 # r2
        PROVE  <<r1.job, r1.stage>> \in lapses.ambiguous
    <3>1. r1 \in Own(r1.job, rows) /\ r2 \in Own(r1.job, rows) /\ r1.job \in Jobs
      BY <2>1, <2>5 DEF Own
    <3>2. r1.stage \in StagesOf(r1.job, lapses.ambiguous)
      BY <2>2, <2>5, <3>1 DEF Written
    <3> QED
      BY <3>2 DEF StagesOf
  <2>6. ASSUME NEW j \in Jobs, pipeline[j].cost # NoCost
        PROVE  /\ pipeline[j].cost = SumOfCosts(Own(j, rows))
               /\ Due(Own(j, attempts)) <= Paid(Own(j, rows))
    BY <2>2, <2>6 DEF Balanced
  <2>7. ASSUME NEW j \in Jobs
        PROVE  /\ job[j].result = "completed" => pipeline[j].status = "success" /\ pipeline[j].cost # NoCost
               /\ job[j].result \in {"deferred", "refused"} => Own(j, attempts) = {}
    BY <2>2, <2>7 DEF Settled
  <2>8. \A j \in Jobs : pipeline[j].cost # NoCost =>
          LET mine == {row \in rows : row.job = j}
              unknown == {row \in mine : row.billing = "unknown"} IN
          /\ pipeline[j].cost = SumOfCosts(mine)
          /\ PriceOf({a \in attempts : a.job = j /\ a.charged}) <= pipeline[j].cost + PriceOf(unknown)
    <3> SUFFICES ASSUME NEW j \in Jobs, pipeline[j].cost # NoCost
                 PROVE  LET mine == {row \in rows : row.job = j}
                            unknown == {row \in mine : row.billing = "unknown"} IN
                        /\ pipeline[j].cost = SumOfCosts(mine)
                        /\ PriceOf({a \in attempts : a.job = j /\ a.charged})
                             <= pipeline[j].cost + PriceOf(unknown)
      OBVIOUS
    <3>1. {a \in attempts : a.job = j /\ a.charged} = {a \in Own(j, attempts) : a.charged}
      BY DEF Own
    <3>2. {row \in rows : row.job = j} = Own(j, rows)
      BY DEF Own
    <3>3. {row \in {r \in rows : r.job = j} : row.billing = "unknown"} = Unpriced(Own(j, rows))
      BY DEF Own, Unpriced
    <3> QED
      BY <2>6, <3>1, <3>2, <3>3 DEF Due, Paid
  <2>9. \A j \in Jobs :
          /\ job[j].result = "completed" => pipeline[j].status = "success" /\ pipeline[j].cost # NoCost
          /\ job[j].result \in {"deferred", "refused"} => \A a \in attempts : a.job # j
    BY <2>7 DEF Own
  <2> QED
    BY <2>3, <2>4, <2>5, <2>8, <2>9 DEF RecordsTrue
<1> QED
  BY <1>1, IntakeInvariance, PTL

(* xmax = 0 makes a video new to one run alone, so that scheduled jobs     *)
(* that run at the same time do not pay twice for its details.             *)
THEOREM NoveltyHappensOnce == IntakeSpec => []NoveltyIsOnce
<1>1. IntakeInv => NoveltyIsOnce
  <2> SUFFICES ASSUME IntakeInv PROVE NoveltyIsOnce
    OBVIOUS
  <2>1. \A j \in Jobs : Novel(j, job[j], Own(j, attempts), items[j], inserted)
    BY DEF IntakeInv, JobFits, IntakeFits
  <2>2. \A a \in attempts : a.job \in Jobs /\ a \in Own(a.job, attempts)
    BY DEF IntakeInv, IntakeType, CallRecs, Own
  <2> QED
    BY <2>1, <2>2 DEF NoveltyIsOnce, Novel
<1> QED
  BY <1>1, IntakeInvariance, PTL

-----------------------------------------------------------------------------
(* BriefPlan: the first of the numbers in order are those of any part of   *)
(* them that leaves out larger ones only.                                  *)

LEMMA FirstOfPart ==
  ASSUME NEW S, S \subseteq Nat, IsFiniteSet(S), NEW W \in SUBSET S,
         \A w \in W, x \in S : x < w => x \in W
  PROVE  /\ IsFiniteSet(W) /\ Cardinality(W) \in Nat /\ Cardinality(S) \in Nat
         /\ Cardinality(W) <= Cardinality(S)
         /\ \A n \in 1 .. Cardinality(W) : Nth(S, n) = Nth(W, n) /\ Nth(S, n) \in W
         /\ \A n \in 1 .. Cardinality(S) : Nth(S, n) \in W => n <= Cardinality(W)
<1>1. /\ IsFiniteSet(W) /\ Cardinality(W) \in Nat /\ Cardinality(S) \in Nat
      /\ Cardinality(W) <= Cardinality(S) /\ W \subseteq Nat
  BY FS_Subset, FS_CardinalityType
<1>2. \A w \in W : Below(S, w) = Below(W, w)
  BY DEF Below
<1>3. ASSUME NEW n \in 1 .. Cardinality(W)
      PROVE  Nth(S, n) = Nth(W, n) /\ Nth(S, n) \in W
  <2>1. Nth(W, n) \in W /\ Cardinality(Below(W, Nth(W, n))) = n - 1
    BY <1>1, NthIs
  <2>2. n \in 1 .. Cardinality(S)
    BY <1>1
  <2>3. Nth(S, n) \in S /\ Cardinality(Below(S, Nth(S, n))) = n - 1
    BY <2>2, NthIs
  <2>4. Cardinality(Below(S, Nth(W, n))) = n - 1 /\ Nth(W, n) \in S
    BY <1>2, <2>1
  <2>5. Nth(S, n) = Nth(W, n)
    <3>1. Cardinality(Below(S, Nth(S, n))) = Cardinality(Below(S, Nth(W, n)))
      BY <2>3, <2>4
    <3> QED
      BY <2>3, <2>4, <3>1, PlaceIsOwn
  <2> QED
    BY <2>1, <2>5
<1>4. ASSUME NEW n \in 1 .. Cardinality(S), Nth(S, n) \in W
      PROVE  n <= Cardinality(W)
  <2>1. Cardinality(Below(S, Nth(S, n))) = n - 1
    BY NthIs
  <2>2. Cardinality(Below(W, Nth(S, n))) = n - 1
    BY <1>2, <1>4, <2>1
  <2>3. Cardinality(Below(W, Nth(S, n))) < Cardinality(W)
    BY <1>1, <1>4, BelowIsFinite
  <2> QED
    BY <1>1, <2>2, <2>3
<1> QED
  BY <1>1, <1>3, <1>4

LEMMA NthOfFirst ==
  ASSUME NEW m \in Nat
  PROVE  \A n \in 1 .. m : Nth(1 .. m, n) = n
<1>1. 1 .. m \subseteq Nat /\ IsFiniteSet(1 .. m) /\ Cardinality(1 .. m) = m
  BY FS_Interval
<1>2. ASSUME NEW n \in 1 .. m
      PROVE  Nth(1 .. m, n) = n
  <2>1. Nth(1 .. m, n) \in 1 .. m /\ Cardinality(Below(1 .. m, Nth(1 .. m, n))) = n - 1
    BY <1>1, NthIs
  <2>2. Below(1 .. m, n) = 1 .. (n - 1)
    BY DEF Below
  <2>3. Cardinality(1 .. (n - 1)) = n - 1
    BY FS_Interval
  <2>4. Cardinality(Below(1 .. m, n)) = Cardinality(Below(1 .. m, Nth(1 .. m, n)))
    BY <2>1, <2>2, <2>3
  <2> QED
    BY <1>1, <2>1, <2>4, PlaceIsOwn
<1> QED
  BY <1>2

LEMMA PrefixIs ==
  ASSUME NEW T, NEW s \in Seq(T), NEW n \in Nat
  PROVE  /\ Prefix(s, n) \in Seq(T) /\ Len(Prefix(s, n)) \in Nat
         /\ Len(Prefix(s, n)) = (IF Len(s) < n THEN Len(s) ELSE n)
         /\ DOMAIN Prefix(s, n) = 1 .. Len(Prefix(s, n))
         /\ \A i \in 1 .. Len(Prefix(s, n)) : Prefix(s, n)[i] = s[i]
<1>1. Len(s) \in Nat /\ DOMAIN s = 1 .. Len(s) /\ \A i \in 1 .. Len(s) : s[i] \in T
  BY ElementOfSeq
<1>2. PICK m \in Nat : m = IF Len(s) < n THEN Len(s) ELSE n
  BY <1>1
<1>3. Prefix(s, n) = SubSeq(s, 1, m)
  BY <1>2 DEF Prefix
<1>4. m <= Len(s)
  <2>1. PICK l \in Nat : l = Len(s)
    BY <1>1
  <2>2. m = IF l < n THEN l ELSE n
    BY <1>2, <2>1
  <2> QED
    BY <2>1, <2>2
<1>5. SubSeq(s, 1, m) \in Seq(T) /\ Len(SubSeq(s, 1, m)) = m
      /\ \A i \in 1 .. m : SubSeq(s, 1, m)[i] = s[i]
  BY <1>1, <1>4
<1> QED
  BY <1>2, <1>3, <1>5

(* What a sequence has at some of its places is no longer than it.         *)
LEMMA PickLength ==
  ASSUME NEW T, NEW s \in Seq(T), NEW S \in SUBSET DOMAIN s
  PROVE  /\ Pick(s, S) \in Seq(T) /\ Len(Pick(s, S)) = Cardinality(S)
         /\ Cardinality(S) \in Nat /\ Cardinality(S) <= Len(s) /\ IsFiniteSet(S) /\ S \subseteq Nat
         /\ \A n \in 1 .. Cardinality(S) : Nth(S, n) \in S /\ Pick(s, S)[n] = s[Nth(S, n)]
<1>1. Len(s) \in Nat /\ DOMAIN s = 1 .. Len(s) /\ \A i \in 1 .. Len(s) : s[i] \in T
  BY ElementOfSeq
<1>2. IsFiniteSet(1 .. Len(s)) /\ Cardinality(1 .. Len(s)) = Len(s) /\ S \subseteq 1 .. Len(s)
  BY <1>1, FS_Interval
<1>3. IsFiniteSet(S) /\ Cardinality(S) \in Nat /\ Cardinality(S) <= Len(s) /\ S \subseteq Nat
  BY <1>1, <1>2, FS_Subset, FS_CardinalityType
<1>4. \A n \in 1 .. Cardinality(S) : Nth(S, n) \in S
  BY <1>3, NthIs
<1>5. Pick(s, S) = [n \in 1 .. Cardinality(S) |-> s[Nth(S, n)]]
  BY DEF Pick
<1>6. \A n \in 1 .. Cardinality(S) : s[Nth(S, n)] \in T
  BY <1>1, <1>2, <1>4
<1>7. Pick(s, S) \in [1 .. Cardinality(S) -> T]
  BY <1>5, <1>6
<1>8. Pick(s, S) \in Seq(T) /\ Len(Pick(s, S)) = Cardinality(S)
  BY <1>3, <1>7
<1> QED
  BY <1>3, <1>4, <1>5, <1>8

(* A board, a search or an account answers videos that the provider knows. *)
Known == Ages \cup {Undated}
Young(videos, hours) == {v \in videos \ {Undated} : v <= hours}

LEMMA NewestIs ==
  ASSUME NEW V, V \subseteq Known
  PROVE  /\ Newest(V) \in Seq(V) /\ IsFiniteSet(V \ {Undated}) /\ V \ {Undated} \subseteq Nat
         /\ Cardinality(V \ {Undated}) \in Nat /\ Cardinality(V \ {Undated}) <= Len(Newest(V))
         /\ Undated \notin V => Len(Newest(V)) = Cardinality(V \ {Undated})
         /\ \A n \in 1 .. Cardinality(V \ {Undated}) : Newest(V)[n] = Nth(V \ {Undated}, n)
         /\ \A n \in 1 .. Len(Newest(V)) : n > Cardinality(V \ {Undated}) => Newest(V)[n] = Undated
<1> DEFINE D == V \ {Undated}
           rest == IF Undated \in V THEN <<Undated>> ELSE <<>>
<1>1. D \subseteq Nat /\ IsFiniteSet(D) /\ Cardinality(D) \in Nat /\ D \subseteq V
  <2>1. D \subseteq Ages
    BY DEF Known
  <2> QED
    BY <2>1, BriefPlanAssumption, FS_Subset, FS_CardinalityType
<1>2. InOrder(D) \in Seq(V) /\ Len(InOrder(D)) = Cardinality(D)
      /\ \A n \in 1 .. Cardinality(D) : InOrder(D)[n] = Nth(D, n)
  <2> HIDE DEF D
  <2>1. InOrder(D) \in Seq(V)
    BY <1>1, InOrderIs
  <2> QED
    BY <1>1, <2>1 DEF InOrder
<1>3. rest \in Seq(V) /\ Len(rest) \in Nat /\ (Undated \notin V => Len(rest) = 0) /\ \A n \in 1 .. Len(rest) : rest[n] = Undated
  OBVIOUS
<1>4. Newest(V) = InOrder(D) \o rest
  BY DEF Newest
<1> HIDE DEF D, rest
<1>5. /\ InOrder(D) \o rest \in Seq(V) /\ Len(InOrder(D) \o rest) = Cardinality(D) + Len(rest)
      /\ \A n \in 1 .. Cardinality(D) : (InOrder(D) \o rest)[n] = InOrder(D)[n]
      /\ \A n \in 1 .. Len(rest) : (InOrder(D) \o rest)[n + Cardinality(D)] = rest[n]
  BY <1>1, <1>2, <1>3
<1>6. ASSUME NEW n \in 1 .. (Cardinality(D) + Len(rest)), n > Cardinality(D)
      PROVE  Newest(V)[n] = Undated
  <2>1. n - Cardinality(D) \in 1 .. Len(rest) /\ (n - Cardinality(D)) + Cardinality(D) = n
    BY <1>1, <1>3, <1>6
  <2> QED
    BY <1>3, <1>4, <1>5, <2>1
<1>7. /\ Newest(V) \in Seq(V) /\ Len(Newest(V)) = Cardinality(D) + Len(rest)
      /\ \A n \in 1 .. Cardinality(D) : Newest(V)[n] = Nth(D, n)
  BY <1>2, <1>4, <1>5
<1>8. /\ Newest(V) \in Seq(V) /\ IsFiniteSet(D) /\ D \subseteq Nat
      /\ Cardinality(D) \in Nat /\ Cardinality(D) <= Len(Newest(V))
      /\ Undated \notin V => Len(Newest(V)) = Cardinality(D)
      /\ \A n \in 1 .. Cardinality(D) : Newest(V)[n] = Nth(D, n)
      /\ \A n \in 1 .. Len(Newest(V)) : n > Cardinality(D) => Newest(V)[n] = Undated
  BY <1>1, <1>3, <1>6, <1>7
<1> QED
  BY <1>8 DEF D

(* What is kept of a page.                                                 *)
Items == [video : Known, account : BOOLEAN]
VideosIn(shown) == {shown[i].video : i \in DOMAIN shown}

LEMMA ObservationsAre ==
  ASSUME NEW s, NEW page \in Seq(Known)
  PROVE  /\ Observations(s, page) \in Seq(Items) /\ Len(Observations(s, page)) = Len(page)
         /\ DOMAIN Observations(s, page) = 1 .. Len(page) /\ Len(page) \in Nat
         /\ \A i \in 1 .. Len(page) : Observations(s, page)[i].video = page[i]
<1>1. Len(page) \in Nat /\ DOMAIN page = 1 .. Len(page) /\ \A i \in 1 .. Len(page) : page[i] \in Known
  BY ElementOfSeq
<1>2. \A v \in Known : /\ LowFanItem(v) \in Items /\ LowFanItem(v).video = v
                       /\ Aweme(v) \in Items /\ Aweme(v).video = v
  BY DEF LowFanItem, Aweme, Items
<1> DEFINE item(i) == IF s.kind = "low_fan" THEN LowFanItem(page[i]) ELSE Aweme(page[i])
<1>3. \A i \in 1 .. Len(page) : item(i) \in Items /\ item(i).video = page[i]
  BY <1>1, <1>2
<1>4. Observations(s, page) = [i \in 1 .. Len(page) |-> item(i)]
  BY <1>1 DEF Observations
<1> HIDE DEF item
<1>5. Observations(s, page) \in [1 .. Len(page) -> Items]
  BY <1>3, <1>4
<1>6. Observations(s, page) \in Seq(Items) /\ Len(Observations(s, page)) = Len(page)
  BY <1>1, <1>5
<1> QED
  BY <1>1, <1>3, <1>4, <1>6

LEMMA KeepIs ==
  ASSUME NEW s, s.maxItems \in Nat, NEW shown \in Seq(Items)
  PROVE  /\ Keep(s, shown) \in Seq(Items) /\ Len(Keep(s, shown)) \in Nat
         /\ Len(Keep(s, shown)) <= s.maxItems /\ Len(Keep(s, shown)) <= Len(shown)
         /\ \A i \in DOMAIN Keep(s, shown) : InWindow(s, Keep(s, shown)[i])
<1>1. Len(shown) \in Nat /\ DOMAIN shown = 1 .. Len(shown)
  BY ElementOfSeq
<1> DEFINE P == {i \in DOMAIN shown : InWindow(s, shown[i])}
           picked == Pick(shown, P)
           first == Prefix(picked, s.maxItems)
<1>2. /\ picked \in Seq(Items) /\ Len(picked) = Cardinality(P)
      /\ Cardinality(P) \in Nat /\ Cardinality(P) <= Len(shown)
      /\ \A n \in 1 .. Cardinality(P) : Nth(P, n) \in P /\ picked[n] = shown[Nth(P, n)]
  <2>1. P \in SUBSET DOMAIN shown
    OBVIOUS
  <2> HIDE DEF P
  <2> QED
    BY <2>1, PickLength
<1>3. \A n \in 1 .. Len(picked) : InWindow(s, picked[n])
  BY <1>2
<1> HIDE DEF picked
<1>4. /\ first \in Seq(Items) /\ Len(first) \in Nat
      /\ Len(first) = (IF Len(picked) < s.maxItems THEN Len(picked) ELSE s.maxItems)
      /\ DOMAIN first = 1 .. Len(first)
      /\ \A i \in 1 .. Len(first) : first[i] = picked[i]
  BY <1>2, PrefixIs
<1> HIDE DEF P, first
<1>5. Len(first) <= s.maxItems /\ Len(first) <= Len(shown) /\ Len(first) <= Len(picked)
  BY <1>1, <1>2, <1>4
<1>6. \A i \in DOMAIN first : InWindow(s, first[i])
  BY <1>2, <1>3, <1>4, <1>5
<1>7. Keep(s, shown) = first
  BY DEF Keep, first, picked, P
<1> QED
  BY <1>4, <1>5, <1>6, <1>7

(* A search is made in the smallest of the provider's windows that holds   *)
(* the hours asked for: the newest of them are what is kept of its page.   *)
LEMMA SearchKeepsNewest ==
  ASSUME NEW V, V \subseteq Known, NEW within \in Nat, NEW hours \in Nat, hours <= within,
         NEW s, s.maxItems \in Nat, s.publishedAfter = hours,
         NEW size \in Nat,
         NEW page, page = Prefix(Newest({v \in V : v = Undated \/ v <= within}), size)
  PROVE  VideosIn(Keep(s, Observations(s, page))) =
           ToSet(Prefix(Prefix(Newest(Young(V, hours)), size), s.maxItems))
<1> DEFINE U == {v \in V : v = Undated \/ v <= within}
           D == U \ {Undated}
           W == Young(V, hours)
           all == Newest(U)
           shown == Observations(s, page)
           P == {i \in DOMAIN shown : InWindow(s, shown[i])}
<1>1. /\ all \in Seq(U) /\ IsFiniteSet(D) /\ D \subseteq Nat
      /\ Cardinality(D) \in Nat /\ Cardinality(D) <= Len(all)
      /\ \A n \in 1 .. Cardinality(D) : all[n] = Nth(D, n)
      /\ \A n \in 1 .. Len(all) : n > Cardinality(D) => all[n] = Undated
  <2>1. U \subseteq Known
    OBVIOUS
  <2> HIDE DEF U
  <2> QED
    BY <2>1, NewestIs DEF U
<1>2. /\ page \in Seq(Known) /\ Len(page) \in Nat /\ Len(all) \in Nat
      /\ Len(page) = (IF Len(all) < size THEN Len(all) ELSE size)
      /\ \A i \in 1 .. Len(page) : page[i] = all[i]
  <2>1. all \in Seq(Known) /\ page = Prefix(all, size)
    <3>1. U \subseteq Known
      OBVIOUS
    <3>2. page = Prefix(all, size)
      OBVIOUS
    <3> HIDE DEF U, D, all
    <3> QED
      BY <1>1, <3>1, <3>2
  <2> HIDE DEF all
  <2>2. Len(all) \in Nat
    BY <2>1, ElementOfSeq
  <2>3. PICK shortest : shortest = Prefix(all, size)
    OBVIOUS
  <2>4. /\ shortest \in Seq(Known) /\ Len(shortest) \in Nat
        /\ Len(shortest) = (IF Len(all) < size THEN Len(all) ELSE size)
        /\ \A i \in 1 .. Len(shortest) : shortest[i] = all[i]
    BY <2>1, <2>3, PrefixIs
  <2> QED
    BY <2>1, <2>2, <2>3, <2>4
<1> HIDE DEF all
<1>3. W \in SUBSET D /\ W = {v \in D : v <= hours} /\ \A w \in W, x \in D : x < w => x \in W
  <2>1. V \ {Undated} \subseteq Nat
    BY BriefPlanAssumption DEF Known
  <2>2. W = {v \in D : v <= hours}
    BY <2>1 DEF Young
  <2> HIDE DEF W
  <2>3. \A w \in W, x \in D : x < w => x \in W
    BY <1>1, <2>2
  <2> QED
    BY <2>2, <2>3
<1> HIDE DEF U, D, W
<1>4. /\ IsFiniteSet(W) /\ Cardinality(W) \in Nat /\ Cardinality(W) <= Cardinality(D)
      /\ \A n \in 1 .. Cardinality(W) : Nth(D, n) = Nth(W, n) /\ Nth(D, n) \in W
      /\ \A n \in 1 .. Cardinality(D) : Nth(D, n) \in W => n <= Cardinality(W)
  BY <1>1, <1>3, FirstOfPart
<1>4a. PICK k \in Nat : /\ k = (IF Cardinality(W) < size THEN Cardinality(W) ELSE size)
                        /\ k <= Cardinality(W) /\ k <= size /\ k <= Len(page) /\ k <= Cardinality(D)
                        /\ Cardinality(W) > k => k = Len(page)
  <2>1. PICK w \in Nat : w = Cardinality(W)
    BY <1>4
  <2>2. PICK d \in Nat : d = Cardinality(D)
    BY <1>1
  <2>3. PICK l \in Nat : l = Len(all)
    BY <1>2
  <2>4. w <= d /\ d <= l
    BY <1>1, <1>4, <2>1, <2>2, <2>3
  <2>5. PICK m \in Nat : m = Len(page) /\ m = IF l < size THEN l ELSE size
    BY <1>2, <2>3
  <2>6. PICK j \in Nat : j = IF w < size THEN w ELSE size
    OBVIOUS
  <2>7. j <= w /\ j <= size /\ j <= m /\ j <= d /\ (w > j => j = m)
    BY <2>4, <2>5, <2>6
  <2> QED
    BY <2>1, <2>2, <2>5, <2>6, <2>7
<1>5. /\ shown \in Seq(Items) /\ Len(shown) = Len(page) /\ DOMAIN shown = 1 .. Len(page)
      /\ \A i \in 1 .. Len(page) : shown[i].video = page[i]
  BY <1>2, ObservationsAre
<1> HIDE DEF shown
<1>6. P = 1 .. k
  <2>1. ASSUME NEW i \in 1 .. Len(page)
        PROVE  InWindow(s, shown[i]) <=> i <= Cardinality(W)
    <3>0. i \in 1 .. Len(all) /\ page[i] = all[i]
      <4>1. PICK l \in Nat : l = Len(all)
        BY <1>2
      <4>2. PICK m \in Nat : m = Len(page) /\ m = (IF l < size THEN l ELSE size)
        BY <1>2, <4>1
      <4>3. m <= l
        BY <4>2
      <4> QED
        BY <1>2, <2>1, <4>1, <4>2, <4>3
    <3>1. CASE i > Cardinality(D)
      <4>1. page[i] = Undated
        BY <1>1, <3>0, <3>1
      <4> QED
        BY <1>1, <1>4, <1>5, <2>1, <3>1, <4>1 DEF InWindow
    <3>2. CASE ~(i > Cardinality(D))
      <4>1. i \in 1 .. Cardinality(D)
        BY <1>1, <2>1, <1>2, <3>2
      <4>2. page[i] = Nth(D, i) /\ Nth(D, i) \in D
        BY <1>1, <3>0, <4>1, NthIs
      <4>3. Nth(D, i) # Undated
        BY <1>1, <4>2, BriefPlanAssumption
      <4>4. InWindow(s, shown[i]) <=> Nth(D, i) <= hours
        BY <1>5, <2>1, <4>2, <4>3 DEF InWindow
      <4>5. Nth(D, i) <= hours <=> Nth(D, i) \in W
        BY <1>3, <4>2
      <4>6. i <= Cardinality(W) => Nth(D, i) \in W
        BY <1>4, <2>1
      <4>7. Nth(D, i) \in W => i <= Cardinality(W)
        BY <1>4, <4>1
      <4> QED
        BY <4>4, <4>5, <4>6, <4>7
    <3> QED
      BY <3>1, <3>2
  <2>2. \A i : i \in 1 .. Len(page) /\ i <= Cardinality(W) <=> i \in 1 .. k
    <3>1. PICK w \in Nat, m \in Nat : w = Cardinality(W) /\ m = Len(page)
      BY <1>2, <1>4
    <3>2. k <= w /\ k <= m /\ (w > k => k = m)
      BY <1>4a, <3>1
    <3>3. \A i : i \in 1 .. m /\ i <= w <=> i \in 1 .. k
      BY <3>2
    <3> QED
      BY <3>1, <3>3
  <2>3. \A i : i \in P <=> (i \in 1 .. Len(page) /\ InWindow(s, shown[i]))
    BY <1>5
  <2> HIDE DEF P
  <2>4. \A i : i \in P <=> i \in 1 .. k
    BY <2>1, <2>2, <2>3
  <2> QED
    BY <2>4
<1> HIDE DEF P
<1> DEFINE picked == Pick(shown, P)
           kept0 == Prefix(picked, s.maxItems)
           newest == Prefix(Newest(W), size)
           wanted0 == Prefix(newest, s.maxItems)
<1>7. /\ picked \in Seq(Items) /\ Len(picked) = k
      /\ \A n \in 1 .. k : picked[n] = shown[n]
  <2>1. P \in SUBSET DOMAIN shown
    BY <1>2, <1>4a, <1>5, <1>6
  <2>2. Cardinality(P) = k
    BY <1>6, FS_Interval
  <2>3. \A n \in 1 .. k : Nth(P, n) = n
    BY <1>6, NthOfFirst
  <2>4. /\ picked \in Seq(Items) /\ Len(picked) = Cardinality(P)
        /\ \A n \in 1 .. Cardinality(P) : picked[n] = shown[Nth(P, n)]
    BY <1>5, <2>1, PickLength
  <2> QED
    BY <2>2, <2>3, <2>4
<1>8. /\ newest \in Seq(W) /\ Len(newest) = k
      /\ \A n \in 1 .. k : newest[n] = Nth(W, n)
  <2>1. W \subseteq Known /\ Undated \notin W
    BY <1>1, <1>3, BriefPlanAssumption DEF D, U
  <2>2. W \ {Undated} = W
    BY <2>1
  <2>3. PICK young : young = Newest(W)
    OBVIOUS
  <2>4. /\ young \in Seq(W) /\ Len(young) = Cardinality(W)
        /\ \A n \in 1 .. Cardinality(W) : young[n] = Nth(W, n)
    BY <2>1, <2>2, <2>3, NewestIs
  <2>5. /\ newest \in Seq(W) /\ Len(newest) = k
        /\ \A n \in 1 .. k : newest[n] = young[n]
    BY <1>4a, <2>3, <2>4, PrefixIs
  <2>6. 1 .. k \subseteq 1 .. Cardinality(W)
    BY <1>4, <1>4a
  <2> QED
    BY <2>4, <2>5, <2>6
<1> HIDE DEF picked, newest
<1>9. /\ DOMAIN kept0 = 1 .. Len(kept0)
      /\ Len(kept0) = (IF k < s.maxItems THEN k ELSE s.maxItems)
      /\ \A i \in 1 .. Len(kept0) : kept0[i] = picked[i]
  BY <1>7, PrefixIs
<1>10. /\ DOMAIN wanted0 = 1 .. Len(wanted0)
       /\ Len(wanted0) = (IF k < s.maxItems THEN k ELSE s.maxItems)
       /\ \A i \in 1 .. Len(wanted0) : wanted0[i] = newest[i]
  BY <1>8, PrefixIs
<1> HIDE DEF kept0, wanted0
<1>11. PICK n \in Nat : n = Len(kept0) /\ n = Len(wanted0) /\ n <= k
  <2>1. (IF k < s.maxItems THEN k ELSE s.maxItems) \in Nat
        /\ (IF k < s.maxItems THEN k ELSE s.maxItems) <= k
    BY <1>4a
  <2> QED
    BY <1>9, <1>10, <2>1
<1>12. \A i \in 1 .. n : kept0[i].video = wanted0[i]
  <2> SUFFICES ASSUME NEW i \in 1 .. n PROVE kept0[i].video = wanted0[i]
    OBVIOUS
  <2>1. i \in 1 .. k /\ i \in 1 .. Cardinality(W) /\ i \in 1 .. Cardinality(D) /\ i \in 1 .. Len(page)
    BY <1>1, <1>2, <1>4, <1>4a, <1>11
  <2>1a. page[i] = all[i]
    BY <1>2, <2>1
  <2>2. kept0[i] = shown[i] /\ wanted0[i] = Nth(W, i)
    BY <1>7, <1>8, <1>9, <1>10, <1>11, <2>1
  <2>3. shown[i].video = Nth(D, i) /\ Nth(D, i) = Nth(W, i)
    BY <1>1, <1>4, <1>5, <2>1, <2>1a
  <2> QED
    BY <2>2, <2>3
<1>13. VideosIn(kept0) = ToSet(wanted0)
  <2>1. VideosIn(kept0) = {kept0[i].video : i \in 1 .. n}
    BY <1>9, <1>11 DEF VideosIn
  <2>2. ToSet(wanted0) = {wanted0[i] : i \in 1 .. n}
    BY <1>10, <1>11 DEF ToSet
  <2> QED
    BY <1>12, <2>1, <2>2
<1>14. Keep(s, shown) = kept0 /\ wanted0 = Prefix(Prefix(Newest(W), size), s.maxItems)
  BY DEF Keep, kept0, picked, P, wanted0, newest
<1> QED
  BY <1>13, <1>14 DEF W, shown

LEMMA PagesHoldVideos ==
  ASSUME NEW V, V \subseteq Known, NEW n \in Nat
  PROVE  /\ Newest(V) \in Seq(Known) /\ Prefix(Newest(V), n) \in Seq(Known)
         /\ Prefix(Reverse(Newest(V)), n) \in Seq(Known)
<1>1. Newest(V) \in Seq(Known)
  <2>1. Newest(V) \in Seq(V)
    BY NewestIs
  <2> QED
    BY <2>1
<1> DEFINE page == Newest(V)
           turned == Reverse(page)
<1> HIDE DEF page
<1>2. page \in Seq(Known) /\ Len(page) \in Nat /\ \A i \in 1 .. Len(page) : page[i] \in Known
  BY <1>1, ElementOfSeq DEF page
<1>3. turned = [i \in 1 .. Len(page) |-> page[(Len(page) - i) + 1]]
  BY DEF Reverse
<1>4. \A i \in 1 .. Len(page) : (Len(page) - i) + 1 \in 1 .. Len(page)
  BY <1>2
<1> HIDE DEF turned
<1>5. turned \in [1 .. Len(page) -> Known]
  BY <1>2, <1>3, <1>4
<1>6. turned \in Seq(Known)
  BY <1>2, <1>5
<1>7. Prefix(page, n) \in Seq(Known) /\ Prefix(turned, n) \in Seq(Known)
  BY <1>2, <1>6, PrefixIs
<1> QED
  BY <1>1, <1>7 DEF page, turned

(* ------------------------ a brief that can run ------------------------- *)

Briefs == [name : {"plain"}, platform : {"douyin"}, source : Sources, target : {"plain", Nil},
           hours : Windows, items : 1 .. 20, depth : Depths, cadence : {Nil, 6, 12, 24},
           project : BOOLEAN, subject : BOOLEAN]

Configured(b) ==
  /\ b \in Briefs
  /\ b.depth \in MediaDepths => b.items <= 5
  /\ b.project => (b.depth = "metadata" /\ b.subject)
  /\ IF b.source = "low_fan" THEN b.target = Nil /\ b.items <= 5 /\ b.hours # 720
                             ELSE b.target = "plain"

(* What a run keeps of the videos known to the provider.                   *)
KeptAsAsked(b, videos, size, shown) ==
  /\ Len(shown) <= b.items
  /\ \A i \in DOMAIN shown : shown[i].video # Undated /\ shown[i].video <= b.hours
  /\ b.source = "keyword" =>
       VideosIn(shown) = ToSet(Prefix(Prefix(Newest(Young(videos, b.hours)), size), b.items))

Stopped ==
  \/ report.at = "discovery" /\ report.count \in Nat /\ report.count >= Len(kept)
  \/ report.at = "detail_enrichment" /\ report.count \in Nat /\ report.count <= Cardinality(wanted)
  \/ report.at = "finalize" /\ report.count = Len(kept)

Reported ==
  /\ report.uncached <= CallsAllowed
  /\ brief.project => ~report.plan.comments /\ ~report.plan.media

BriefInv ==
  /\ stage \in {"asked", "refused", "stored", "claimed", "configured", "discovered", "enriched",
                "done", "failed"}
  /\ corpus \subseteq Known /\ pageSize \in Nat
  /\ stage \notin {"asked", "refused"} => Configured(brief)
  /\ kept \in Seq(Items) /\ Len(kept) <= 20
  /\ new \subseteq VideosIn(kept) /\ wanted \subseteq new
  /\ stage \in {"asked", "refused", "stored", "claimed", "configured"} => kept = <<>>
  /\ stage \in {"discovered", "enriched", "done"} => KeptAsAsked(brief, corpus, pageSize, kept)
  /\ stage \in {"enriched", "done"} /\ ~brief.project => wanted = new
  /\ stage = "failed" => Stopped
  /\ stage = "done" => Reported

LEMMA FormsBecomeBriefs ==
  ASSUME NEW f \in Forms, Accepts(f)
  PROVE  Configured(Config(f)) /\ Storable(Config(f))
<1>1. /\ f.source \in Sources /\ f.depth \in Depths /\ f.hours \in Windows /\ f.items \in 1 .. 20
      /\ Normalized(f.name) = "plain" /\ f.platform = "douyin" /\ f.cadence \in {0, 6, 12, 24}
      /\ f.depth \in MediaDepths => f.items <= 5
      /\ f.project => f.depth = "metadata"
      /\ f.source = "low_fan" => (f.items <= 5 /\ f.hours # 720)
      /\ f.source # "low_fan" => Normalized(f.target) = "plain"
      /\ f.subject = f.project /\ f.project \in BOOLEAN /\ f.subject \in BOOLEAN
  BY DEF Accepts, SubjectFits, Forms
<1>2. PICK b : b = Config(f)
  OBVIOUS
<1>3. /\ b.source = f.source /\ b.depth = f.depth /\ b.hours = f.hours /\ b.items = f.items
      /\ b.name = "plain" /\ b.platform = "douyin" /\ b.project = f.project /\ b.subject = f.subject
      /\ b.cadence = (IF f.cadence = 0 THEN Nil ELSE f.cadence)
      /\ b.target = (IF f.source = "low_fan" THEN Nil ELSE Normalized(f.target))
  BY <1>1, <1>2 DEF Config, Forms
<1>4. b \in Briefs
  <2>1. b = [name |-> b.name, platform |-> b.platform, source |-> b.source, target |-> b.target,
             hours |-> b.hours, items |-> b.items, depth |-> b.depth, cadence |-> b.cadence,
             project |-> b.project, subject |-> b.subject]
    BY <1>2 DEF Config, Forms
  <2>2. b.target \in {"plain", Nil} /\ b.cadence \in {Nil, 6, 12, 24}
    BY <1>1, <1>3
  <2> QED
    BY <1>1, <1>3, <2>1, <2>2 DEF Briefs
<1>5. Configured(b)
  BY <1>1, <1>3, <1>4 DEF Configured
<1>6. Storable(b)
  BY <1>1, <1>3 DEF Storable
<1> QED
  BY <1>2, <1>5, <1>6

LEMMA BriefsAreValid ==
  ASSUME NEW b, Configured(b)
  PROVE  MakeConfig(b) = b /\ Valid(b)
<1>1. b \in Briefs /\ (IF b.source = "low_fan" THEN b.target = Nil ELSE b.target = "plain")
  BY DEF Configured
<1>2. (IF b.source = "low_fan" \/ b.target = Nil THEN Nil ELSE Normalized(b.target)) = b.target
  BY <1>1 DEF Normalized
<1>3. MakeConfig(b) = [b EXCEPT !.target = b.target]
  BY <1>2 DEF MakeConfig
<1>4. MakeConfig(b) = b
  BY <1>1, <1>3 DEF Briefs
<1>5. Valid(b)
  BY DEF Valid, Configured, Briefs
<1> QED
  BY <1>4, <1>5

(* A failure says where it was, and of how many items.                     *)
LEMMA FailsAs ==
  ASSUME NEW at \in {"discovery", "detail_enrichment", "finalize"}, NEW n \in Nat
  PROVE  SafeFailure(FailureSummary(at, n)).at = at /\ SafeFailure(FailureSummary(at, n)).count = n
<1>1. FailureSummary(at, n) = [at |-> at, count |-> n]
  BY DEF FailureSummary, FailureStages
<1>2. [at |-> at, count |-> n] # Nil
  BY BriefPlanAssumption
<1> QED
  BY <1>1, <1>2 DEF SafeFailure, FailureStages

LEMMA SourceAsksFor ==
  ASSUME NEW b, Configured(b)
  PROVE  LET s == DiscoverySource(b) IN
         /\ s.maxItems = b.items /\ s.publishedAfter = b.hours
         /\ b.items \in Nat /\ b.items <= 20 /\ b.hours \in Nat
         /\ b.source = "low_fan" => s.kind = "low_fan" /\ s.count = b.items
         /\ b.source = "keyword" => s.kind = "search" /\ s.within = SearchWindow(b.hours)
         /\ b.source = "account" => s.kind = "account_posts" /\ s.count = b.items
         /\ SearchWindow(b.hours) \in Nat /\ b.hours <= SearchWindow(b.hours)
         /\ b.source \in {"low_fan", "keyword", "account"}
<1>1. b.source \in {"low_fan", "keyword", "account"} /\ b.hours \in {24, 72, 168, 720} /\ b.items \in 1 .. 20
  BY DEF Configured, Briefs, Sources, Windows
<1>2. SearchWindow(b.hours) \in Nat /\ b.hours <= SearchWindow(b.hours)
  BY <1>1 DEF SearchWindow
<1> QED
  BY <1>1, <1>2 DEF DiscoverySource

(* -------------------------- one action at a time ------------------------ *)

LEMMA PlanInitHolds ==
  ASSUME BriefPlanInit
  PROVE  BriefInv
<1>1. kept \in Seq(Items) /\ Len(kept) = 0 /\ new = {} /\ wanted = {} /\ corpus = {} /\ stage = "asked"
      /\ pageSize \in Nat
  BY BriefPlanAssumption DEF BriefPlanInit
<1> QED
  BY <1>1 DEF BriefInv

LEMMA SubmitKeeps ==
  ASSUME BriefInv, Submit
  PROVE  BriefInv'
<1>1. stage = "asked" /\ UNCHANGED <<corpus, pageSize, kept, new, wanted, report>>
  BY DEF Submit
<1>2. PICK f \in Forms :
        /\ stage' = (IF ~Accepts(f) THEN "refused"
                     ELSE IF Storable(Config(f)) THEN "stored" ELSE "unstorable")
        /\ brief' = (IF Accepts(f) THEN Config(f) ELSE Nil)
  BY DEF Submit
<1>3. stage' = "refused" \/ (stage' = "stored" /\ Configured(brief'))
  <2>1. CASE Accepts(f)
    BY <1>2, <2>1, FormsBecomeBriefs
  <2>2. CASE ~Accepts(f)
    BY <1>2, <2>2
  <2> QED
    BY <2>1, <2>2
<1> QED
  BY <1>1, <1>3 DEF BriefInv

LEMMA ClaimBriefKeeps ==
  ASSUME BriefInv, ClaimBrief
  PROVE  BriefInv'
<1>1. stage = "stored" /\ UNCHANGED <<brief, corpus, pageSize, kept, new, wanted, report>>
  BY DEF ClaimBrief
<1>2. Configured(brief)
  BY <1>1 DEF BriefInv
<1>3. stage' = "claimed"
  BY <1>2 DEF ClaimBrief, Configured
<1> QED
  BY <1>1, <1>2, <1>3 DEF BriefInv

LEMMA TakeConfigKeeps ==
  ASSUME BriefInv, TakeConfig
  PROVE  BriefInv'
<1>1. stage = "claimed" /\ UNCHANGED <<corpus, pageSize, kept, new, wanted>>
  BY DEF TakeConfig
<1>2. Configured(brief)
  BY <1>1 DEF BriefInv
<1>3. MakeConfig(brief) = brief /\ Valid(MakeConfig(brief))
  BY <1>2, BriefsAreValid
<1>4. stage' = "configured" /\ brief' = brief /\ report' = report
  BY <1>3 DEF TakeConfig
<1> QED
  BY <1>1, <1>2, <1>4 DEF BriefInv

(* A page holds videos the provider knows; of a search, the newest.        *)
LEMMA PageIsKept ==
  ASSUME NEW b, Configured(b), NEW V, V \subseteq Known, NEW size \in Nat, NEW page,
         /\ b.source = "keyword" =>
              page = Prefix(Newest({v \in V : v = Undated \/ v <= DiscoverySource(b).within}), size)
         /\ b.source = "account" => page = Prefix(Newest(V), DiscoverySource(b).count)
         /\ b.source = "low_fan" => \/ page = Prefix(Newest(V), DiscoverySource(b).count)
                                    \/ page = Prefix(Reverse(Newest(V)), DiscoverySource(b).count)
  PROVE  LET shown == Keep(DiscoverySource(b), Observations(DiscoverySource(b), page)) IN
         /\ shown \in Seq(Items) /\ Len(shown) \in Nat /\ Len(page) \in Nat
         /\ Len(shown) <= 20 /\ Len(shown) <= Len(page)
         /\ KeptAsAsked(b, V, size, shown)
<1> DEFINE s == DiscoverySource(b)
           shown == Keep(s, Observations(s, page))
<1>1. /\ s.maxItems = b.items /\ s.publishedAfter = b.hours
      /\ b.items \in Nat /\ b.items <= 20 /\ b.hours \in Nat
      /\ b.source = "low_fan" => s.kind = "low_fan" /\ s.count = b.items
      /\ b.source = "keyword" => s.kind = "search" /\ s.within = SearchWindow(b.hours)
      /\ b.source = "account" => s.kind = "account_posts" /\ s.count = b.items
      /\ SearchWindow(b.hours) \in Nat /\ b.hours <= SearchWindow(b.hours)
      /\ b.source \in {"low_fan", "keyword", "account"}
  BY SourceAsksFor
<1> HIDE DEF s
<1>2. page \in Seq(Known)
  <2>1. CASE b.source = "keyword"
    <3> DEFINE U == {v \in V : v = Undated \/ v <= s.within}
    <3>1. U \subseteq Known /\ page = Prefix(Newest(U), size)
      BY <2>1 DEF s
    <3> HIDE DEF U
    <3> QED
      BY <3>1, PagesHoldVideos
  <2>2. CASE b.source # "keyword"
    <3>1. page = Prefix(Newest(V), b.items) \/ page = Prefix(Reverse(Newest(V)), b.items)
      BY <1>1, <2>2 DEF s
    <3> QED
      BY <1>1, <3>1, PagesHoldVideos
  <2> QED
    BY <2>1, <2>2
<1>3. Observations(s, page) \in Seq(Items) /\ Len(Observations(s, page)) = Len(page) /\ Len(page) \in Nat
  BY <1>2, ObservationsAre
<1>4. /\ shown \in Seq(Items) /\ Len(shown) \in Nat
      /\ Len(shown) <= b.items /\ Len(shown) <= Len(page)
      /\ \A i \in DOMAIN shown : InWindow(s, shown[i])
  BY <1>1, <1>3, KeepIs
<1>5. ASSUME b.source = "keyword"
      PROVE  VideosIn(shown) = ToSet(Prefix(Prefix(Newest(Young(V, b.hours)), size), b.items))
  <2>1. page = Prefix(Newest({v \in V : v = Undated \/ v <= s.within}), size)
    BY <1>5 DEF s
  <2>2. s.within \in Nat /\ b.hours <= s.within
    BY <1>1, <1>5
  <2>3. VideosIn(shown) = ToSet(Prefix(Prefix(Newest(Young(V, b.hours)), size), s.maxItems))
    BY <1>1, <2>1, <2>2, SearchKeepsNewest
  <2> QED
    BY <1>1, <2>3
<1> HIDE DEF shown
<1>6. \A i \in DOMAIN shown : shown[i].video # Undated /\ shown[i].video <= b.hours
  BY <1>1, <1>4 DEF InWindow
<1>7. KeptAsAsked(b, V, size, shown)
  BY <1>4, <1>5, <1>6 DEF KeptAsAsked
<1>8. Len(shown) <= 20
  BY <1>1, <1>4
<1> QED
  BY <1>3, <1>4, <1>7, <1>8 DEF shown, s

LEMMA DiscoverKeeps ==
  ASSUME BriefInv, Discover
  PROVE  BriefInv'
<1> DEFINE s == DiscoverySource(brief)
<1>1. /\ stage = "configured" /\ brief' = brief /\ wanted' = wanted /\ pageSize' = pageSize /\ pageSize \in Nat
      /\ Configured(brief) /\ kept = <<>> /\ wanted = {} /\ new = {}
  <2>1. stage = "configured" /\ brief' = brief /\ wanted' = wanted /\ pageSize' = pageSize
    BY DEF Discover
  <2>2. pageSize \in Nat /\ kept = <<>> /\ Configured(brief) /\ new \subseteq VideosIn(kept) /\ wanted \subseteq new
    BY <2>1 DEF BriefInv
  <2>3. VideosIn(kept) = {}
    BY <2>2 DEF VideosIn
  <2> QED
    BY <2>1, <2>2, <2>3
<1>2. corpus' \subseteq Known
  BY DEF Discover, Known
<1>3. PICK page \in Pages(s) :
        LET shown == Keep(s, Observations(s, page)) IN
        \/ /\ kept' = shown
           /\ new' \in SUBSET {shown[i].video : i \in DOMAIN shown}
           /\ \/ stage' = "discovered" /\ UNCHANGED report
              \/ brief.project /\ FailWith("failed", FailureSummary("discovery", Len(page)))
        \/ /\ \E count \in {0, Len(page)} : FailWith("failed", FailureSummary("discovery", count))
           /\ UNCHANGED <<kept, new>>
  BY DEF Discover
<1> DEFINE shown == Keep(s, Observations(s, page))
<1>4. /\ shown \in Seq(Items) /\ Len(shown) \in Nat /\ Len(page) \in Nat
      /\ Len(shown) <= 20 /\ Len(shown) <= Len(page) /\ KeptAsAsked(brief, corpus', pageSize, shown)
  <2>1. /\ brief.source = "low_fan" => s.kind = "low_fan"
        /\ brief.source = "keyword" => s.kind = "search"
        /\ brief.source = "account" => s.kind = "account_posts"
        /\ brief.source \in {"low_fan", "keyword", "account"}
    BY <1>1, SourceAsksFor
  <2>2. /\ brief.source = "keyword" => 
              page = Prefix(Newest({v \in corpus' : v = Undated \/ v <= s.within}), pageSize)
        /\ brief.source = "account" => page = Prefix(Newest(corpus'), s.count)
        /\ brief.source = "low_fan" => \/ page = Prefix(Newest(corpus'), s.count)
                                       \/ page = Prefix(Reverse(Newest(corpus')), s.count)
    <3> HIDE DEF s
    <3>1. CASE brief.source = "keyword"
      BY <2>1, <3>1 DEF Pages
    <3>2. CASE brief.source = "account"
      BY <2>1, <3>2 DEF Pages
    <3>3. CASE brief.source = "low_fan"
      BY <2>1, <3>3 DEF Pages
    <3> QED
      BY <2>1, <3>1, <3>2, <3>3
  <2>3. PICK V : V = corpus'
    OBVIOUS
  <2> QED
    BY <1>1, <1>2, <2>2, <2>3, PageIsKept
<1> HIDE DEF shown
<1>5. CASE /\ kept' = shown
           /\ new' \in SUBSET {shown[i].video : i \in DOMAIN shown}
           /\ \/ stage' = "discovered" /\ UNCHANGED report
              \/ brief.project /\ FailWith("failed", FailureSummary("discovery", Len(page)))
  <2>1. kept' = shown /\ new' \subseteq VideosIn(shown)
    BY <1>5 DEF VideosIn
  <2>2. CASE stage' = "discovered"
    BY <1>1, <1>2, <1>4, <2>1, <2>2 DEF BriefInv, VideosIn
  <2>3. CASE FailWith("failed", FailureSummary("discovery", Len(page)))
    <3>1. stage' = "failed" /\ report'.at = "discovery" /\ report'.count = Len(page)
      BY <1>4, <2>3, FailsAs DEF FailWith
    <3>2. Stopped'
      BY <1>4, <2>1, <3>1 DEF Stopped
    <3> QED
      BY <1>1, <1>2, <1>4, <2>1, <3>1, <3>2 DEF BriefInv, VideosIn
  <2> QED
    BY <1>5, <2>2, <2>3
<1>6. CASE /\ \E count \in {0, Len(page)} : FailWith("failed", FailureSummary("discovery", count))
           /\ UNCHANGED <<kept, new>>
  <2>1. PICK count \in {0, Len(page)} : FailWith("failed", FailureSummary("discovery", count))
    BY <1>6
  <2>2. count \in Nat /\ Len(kept') = 0 /\ kept' = kept /\ new' = new
    BY <1>1, <1>4, <1>6
  <2>3. stage' = "failed" /\ report'.at = "discovery" /\ report'.count = count
    BY <2>1, <2>2, FailsAs DEF FailWith
  <2>4. Stopped'
    BY <2>2, <2>3 DEF Stopped
  <2> QED
    BY <1>1, <1>2, <2>2, <2>3, <2>4 DEF BriefInv
<1> QED
  BY <1>3, <1>5, <1>6 DEF shown

LEMMA CountTo ==
  ASSUME NEW m \in Nat
  PROVE  IsFiniteSet(1 .. m) /\ Cardinality(1 .. m) = m
BY FS_Interval

(* One request for details is enough for what a brief may keep.            *)
LEMMA OneRequest ==
  ASSUME NEW shown \in Seq(Items), Len(shown) <= 20, NEW videos, videos \subseteq VideosIn(shown)
  PROVE  /\ IsFiniteSet(videos) /\ Cardinality(videos) \in Nat /\ Cardinality(videos) <= 20
         /\ DetailCalls(Cardinality(videos)) \in {0, 1}
<1>1. Len(shown) \in Nat /\ DOMAIN shown = 1 .. Len(shown)
  BY ElementOfSeq
<1>2. PICK places : places = 1 .. Len(shown)
  OBVIOUS
<1>2a. IsFiniteSet(places) /\ Cardinality(places) = Len(shown)
  <2>1. IsFiniteSet(1 .. Len(shown)) /\ Cardinality(1 .. Len(shown)) = Len(shown)
    BY <1>1, CountTo
  <2> QED
    BY <1>2, <2>1
<1> DEFINE found == {shown[i].video : i \in places}
           video == [i \in places |-> shown[i].video]
<1>3. IsFiniteSet(found) /\ Cardinality(found) <= Cardinality(places)
  <2>1. video \in Surjection(places, found)
    BY DEF Surjection
  <2> HIDE DEF video, found
  <2> QED
    BY <1>2a, <2>1, FS_Surjection
<1>4. videos \subseteq found
  BY <1>1, <1>2 DEF VideosIn
<1> HIDE DEF found
<1>5. IsFiniteSet(videos) /\ Cardinality(videos) <= Cardinality(found)
      /\ Cardinality(videos) \in Nat /\ Cardinality(found) \in Nat
  BY <1>3, <1>4, FS_Subset, FS_CardinalityType
<1>6. PICK n \in Nat : n = Cardinality(videos) /\ n <= 20
  BY <1>1, <1>2a, <1>3, <1>5
<1>7. (n + 49) \div 50 \in {0, 1}
  BY <1>6
<1> QED
  BY <1>5, <1>6, <1>7 DEF DetailCalls

LEMMA EnrichKeeps ==
  ASSUME BriefInv, Enrich
  PROVE  BriefInv'
<1>1. /\ stage = "discovered" /\ brief' = brief /\ corpus' = corpus /\ kept' = kept /\ new' = new
      /\ pageSize' = pageSize
      /\ wanted' \in (IF brief.project THEN SUBSET new ELSE {new})
  BY DEF Enrich
<1>2. wanted' \subseteq new /\ (~brief.project => wanted' = new)
  BY <1>1
<1>3. /\ kept \in Seq(Items) /\ Len(kept) <= 20 /\ Len(kept) \in Nat /\ wanted' \subseteq VideosIn(kept)
      /\ new \subseteq VideosIn(kept) /\ corpus \subseteq Known
      /\ pageSize \in Nat /\ Configured(brief) /\ KeptAsAsked(brief, corpus, pageSize, kept)
  BY <1>1, <1>2, ElementOfSeq DEF BriefInv
<1>4. Cardinality(wanted') \in Nat /\ DetailCalls(Cardinality(wanted')) \in {0, 1}
  <2>1. PICK videos : videos = wanted'
    OBVIOUS
  <2> QED
    BY <1>3, <2>1, OneRequest
<1>5. CASE /\ stage' = (IF 1 + DetailCalls(Cardinality(wanted')) <= CallsAllowed THEN "enriched" ELSE "misfit")
           /\ UNCHANGED report
  <2>1. stage' = "enriched"
    BY <1>4, <1>5 DEF CallsAllowed
  <2> QED
    BY <1>1, <1>2, <1>3, <2>1 DEF BriefInv
<1>6. ASSUME NEW answered \in 0 .. Cardinality(wanted'),
             FailWith("failed", FailureSummary("detail_enrichment", answered))
      PROVE  BriefInv'
  <2>1. answered \in Nat /\ answered <= Cardinality(wanted')
    BY <1>4, <1>6
  <2>2. stage' = "failed" /\ report'.at = "detail_enrichment" /\ report'.count = answered
    BY <1>6, <2>1, FailsAs DEF FailWith
  <2>3. Stopped'
    BY <2>1, <2>2 DEF Stopped
  <2> QED
    BY <1>1, <1>2, <1>3, <2>2, <2>3 DEF BriefInv
<1> QED
  BY <1>5, <1>6 DEF Enrich

LEMMA ResultIsBelieved ==
  ASSUME BriefInv, stage = "enriched",
         NEW cached \in 0 .. 1 + DetailCalls(Cardinality(wanted)),
         NEW scored \in (IF brief.project THEN 0 .. Len(kept) ELSE {Len(kept)})
  PROVE  LET r == Result(cached, scored) IN
         /\ SafeResult(r, brief.project) /\ r.uncached <= CallsAllowed
         /\ brief.project => ~r.plan.comments /\ ~r.plan.media
<1>1. kept \in Seq(Items) /\ Len(kept) <= 20 /\ new \subseteq VideosIn(kept) /\ wanted \subseteq VideosIn(kept)
      /\ Configured(brief)
  BY DEF BriefInv
<1>2. Len(kept) \in Nat /\ Cardinality(new) \in Nat /\ DetailCalls(Cardinality(wanted)) \in {0, 1}
  BY <1>1, OneRequest, ElementOfSeq
<1>3. PICK c \in {1, 2} : c = 1 + DetailCalls(Cardinality(wanted))
  BY <1>2
<1>4. cached \in 0 .. c
  BY <1>3
<1>5. scored \in Nat /\ scored <= Len(kept)
  BY <1>2
<1>6. PICK r : r = Result(cached, scored)
  OBVIOUS
<1>7. /\ r.observations = Len(kept) /\ r.scored = scored
      /\ r.newCandidates = (IF brief.project THEN 0 ELSE Cardinality(new))
      /\ r.calls = c /\ r.cached = cached /\ r.uncached = c - cached
      /\ r.scoring = (IF brief.project THEN "project_subject_l1" ELSE "global_l1")
      /\ r.plan = DepthPlan(brief.depth)
  BY <1>3, <1>6 DEF Result
<1>8. ~r.plan.asr /\ ~r.plan.l3
  BY <1>7 DEF DepthPlan
<1>9. brief.project => ~r.plan.comments /\ ~r.plan.media /\ ~r.plan.review
  <2>1. brief.project => brief.depth = "metadata"
    BY <1>1 DEF Configured
  <2>2. /\ ~DepthPlan("metadata").comments /\ ~DepthPlan("metadata").media
        /\ ~DepthPlan("metadata").review
    BY DEF DepthPlan, MediaDepths
  <2> QED
    BY <1>7, <2>1, <2>2
<1>10. brief.project \in BOOLEAN
  BY <1>1 DEF Configured, Briefs
<1>11. \A n \in {r.observations, r.scored, r.newCandidates, r.calls, r.cached, r.uncached} : n >= 0
  BY <1>2, <1>4, <1>5, <1>7
<1>12. r.calls = r.cached + r.uncached /\ r.scored <= r.observations /\ r.uncached <= 2
  BY <1>4, <1>5, <1>7
<1>13. ((r.scoring = "project_subject_l1") = brief.project) /\ (brief.project => r.newCandidates = 0)
       /\ (r.scoring = "project_subject_l1" => brief.project)
  BY <1>7, <1>10
<1>14. SafeResult(r, brief.project)
  BY <1>8, <1>9, <1>11, <1>12, <1>13 DEF SafeResult
<1> QED
  BY <1>6, <1>9, <1>12, <1>14 DEF CallsAllowed

LEMMA FinishKeeps ==
  ASSUME BriefInv, Finish
  PROVE  BriefInv'
<1>1. stage = "enriched" /\ UNCHANGED <<brief, corpus, pageSize, kept, new, wanted>>
  BY DEF Finish
<1>2. /\ kept \in Seq(Items) /\ Len(kept) <= 20 /\ Len(kept) \in Nat
      /\ new \subseteq VideosIn(kept) /\ wanted \subseteq new /\ corpus \subseteq Known
      /\ Configured(brief) /\ KeptAsAsked(brief, corpus, pageSize, kept) /\ (~brief.project => wanted = new)
  BY <1>1, ElementOfSeq DEF BriefInv
<1>3. ASSUME NEW cached \in 0 .. 1 + DetailCalls(Cardinality(wanted)),
             NEW scored \in (IF brief.project THEN 0 .. Len(kept) ELSE {Len(kept)}),
             IF SafeResult(Result(cached, scored), brief.project)
             THEN stage' = "done" /\ report' = Result(cached, scored)
             ELSE FailWith("misfit", Nil)
      PROVE  BriefInv'
  <2>1. PICK r : r = Result(cached, scored)
    OBVIOUS
  <2>2. /\ SafeResult(r, brief.project) /\ r.uncached <= CallsAllowed
        /\ brief.project => ~r.plan.comments /\ ~r.plan.media
    BY <1>1, <2>1, ResultIsBelieved
  <2>3. stage' = "done" /\ report' = r
    BY <1>3, <2>1, <2>2
  <2>4. Reported'
    BY <1>1, <2>2, <2>3 DEF Reported, CallsAllowed
  <2> QED
    BY <1>1, <1>2, <2>3, <2>4 DEF BriefInv
<1>4. CASE FailWith("failed", FailureSummary("finalize", Len(kept)))
  <2>1. stage' = "failed" /\ report'.at = "finalize" /\ report'.count = Len(kept)
    BY <1>2, <1>4, FailsAs DEF FailWith
  <2>2. Stopped'
    BY <1>1, <2>1 DEF Stopped
  <2> QED
    BY <1>1, <1>2, <2>1, <2>2 DEF BriefInv
<1> QED
  BY <1>3, <1>4 DEF Finish

LEMMA BriefInvHolds == BriefPlanSpec => []BriefInv
<1>1. BriefPlanInit => BriefInv
  BY PlanInitHolds
<1>2. ASSUME BriefInv, BriefPlanNext
      PROVE  BriefInv'
  BY <1>2, SubmitKeeps, ClaimBriefKeeps, TakeConfigKeeps, DiscoverKeeps, EnrichKeeps, FinishKeeps
     DEF BriefPlanNext
<1>3. ASSUME BriefInv, UNCHANGED briefPlanVars
      PROVE  BriefInv'
  BY <1>3 DEF BriefInv, briefPlanVars, Stopped, Reported
<1> QED
  BY <1>1, <1>2, <1>3, PTL DEF BriefPlanSpec

(* What the dashboard takes can run to its end, or fails saying where and  *)
(* of how many items: the form, the table, the claim, the pipeline and the *)
(* check of the result agree, whatever is asked for and answered.          *)
THEOREM AcceptedBriefsRun == BriefPlanSpec => []AcceptedCanRun
<1>1. BriefInv => AcceptedCanRun
  BY DEF BriefInv, AcceptedCanRun, Stopped
<1> QED
  BY <1>1, BriefInvHolds, PTL

(* A run keeps what its brief asked for and buys the details of the new    *)
(* videos among it: by keyword the newest within the hours, although the   *)
(* provider searches three windows only.                                   *)
THEOREM ScopeIsCollected == BriefPlanSpec => []ScopeCollected
<1>1. ASSUME BriefInv
      PROVE  ScopeCollected
  <2> DEFINE keptVideos == {kept[i].video : i \in DOMAIN kept}
  <2> SUFFICES ASSUME stage \in {"enriched", "done"}
               PROVE  /\ Undated \notin keptVideos /\ \A v \in keptVideos : v <= brief.hours
                      /\ Len(kept) <= brief.items
                      /\ brief.source = "keyword" =>
                           keptVideos = ToSet(Prefix(Prefix(Newest({v \in corpus \ {Undated} : v <= brief.hours}),
                                                            pageSize), brief.items))
                      /\ wanted \subseteq new /\ new \subseteq keptVideos
                      /\ \A i \in DOMAIN kept : ~kept[i].account /\ ~brief.project /\ kept[i].video \in new
                                                => kept[i].video \in wanted
                      /\ stage = "done" =>
                           /\ report.uncached <= CallsAllowed
                           /\ brief.project => ~report.plan.comments /\ ~report.plan.media
    BY DEF ScopeCollected
  <2>1. keptVideos = VideosIn(kept)
    BY DEF VideosIn
  <2>2. /\ KeptAsAsked(brief, corpus, pageSize, kept) /\ (~brief.project => wanted = new) /\ (stage = "done" => Reported)
        /\ new \subseteq VideosIn(kept) /\ wanted \subseteq new
    BY <1>1 DEF BriefInv
  <2>3. Undated \notin keptVideos /\ \A v \in keptVideos : v <= brief.hours
    BY <2>2 DEF KeptAsAsked
  <2>4. Len(kept) <= brief.items
        /\ (brief.source = "keyword" =>
              keptVideos = ToSet(Prefix(Prefix(Newest({v \in corpus \ {Undated} : v <= brief.hours}),
                                               pageSize), brief.items)))
    BY <2>1, <2>2 DEF KeptAsAsked, Young
  <2>5. stage = "done" => /\ report.uncached <= CallsAllowed
                          /\ brief.project => ~report.plan.comments /\ ~report.plan.media
    BY <2>2 DEF Reported
  <2> HIDE DEF keptVideos
  <2>6. \A i \in DOMAIN kept : ~kept[i].account /\ ~brief.project /\ kept[i].video \in new
                               => kept[i].video \in wanted
    BY <2>2
  <2> QED
    BY <2>1, <2>2, <2>3, <2>4, <2>5, <2>6
<1> QED
  BY <1>1, BriefInvHolds, PTL

-----------------------------------------------------------------------------
(* VideoFetchPlan. The plans of up to fifty videos are looked at as a table*)
(* that is filled from none upward; what each entry costs is known in      *)
(* closed form, and so is what any other choice of requests costs.         *)

FetchCall == [size : Nat, capacity : Nat]
FetchPlan == [cost : Nat, calls : Seq(FetchCall)]

(* Of several plans the one taken is one of them, and none is better.      *)
LEMMA OneIsBest ==
  ASSUME NEW cands \in Seq(FetchPlan), cands # << >>
  PROVE  \E k \in DOMAIN cands :
           /\ MinBy(cands) = cands[k]
           /\ \A m \in DOMAIN cands : ~Better(cands[m], cands[k])
<1> DEFINE D == DOMAIN cands
           Cost(k) == cands[k].cost
           Calls(k) == Len(cands[k].calls)
<1>1. D = 1 .. Len(cands) /\ Len(cands) \in Nat /\ D # {} /\ D \subseteq Nat
  BY EmptySeq
<1>2. \A k \in D : Cost(k) \in Nat /\ Calls(k) \in Nat
  <2> TAKE k \in D
  <2>1. cands[k] \in FetchPlan
    BY <1>1
  <2> QED
    BY <2>1 DEF FetchPlan
<1>3. \A k, m \in D : Better(cands[k], cands[m]) <=>
                        Cost(k) < Cost(m) \/ (Cost(k) = Cost(m) /\ Calls(k) < Calls(m))
  BY DEF Better
<1> HIDE DEF D, Cost, Calls
<1>4. PICK c \in {Cost(k) : k \in D} : \A y \in {Cost(k) : k \in D} : c <= y
  <2> DEFINE S == {Cost(k) : k \in D}
  <2>1. S \subseteq Nat /\ S # {}
    BY <1>1, <1>2
  <2> HIDE DEF S
  <2>2. \E m \in S : \A y \in S : m <= y
    BY <2>1, LeastElement
  <2> QED
    BY <2>2 DEF S
<1> DEFINE E == {k \in D : Cost(k) = c}
<1>5. PICK l \in {Calls(k) : k \in E} : \A y \in {Calls(k) : k \in E} : l <= y
  <2> DEFINE S == {Calls(k) : k \in E}
  <2>1. S \subseteq Nat /\ S # {}
    BY <1>1, <1>2, <1>4
  <2> HIDE DEF S
  <2>2. \E m \in S : \A y \in S : m <= y
    BY <2>1, LeastElement
  <2> QED
    BY <2>2 DEF S
<1> DEFINE F == {k \in E : Calls(k) = l}
<1>6. PICK first \in F : \A y \in F : first <= y
  <2>1. F \subseteq Nat /\ F # {}
    BY <1>1, <1>5
  <2> HIDE DEF F
  <2> QED
    BY <2>1, LeastElement
<1>7. first \in D /\ Cost(first) = c /\ Calls(first) = l
  OBVIOUS
<1>8. \A m \in D : c <= Cost(m) /\ (Cost(m) = c => l <= Calls(m))
                   /\ (Cost(m) = c /\ Calls(m) = l => first <= m)
  BY <1>4, <1>5, <1>6
<1> HIDE DEF E, F
<1>9. \A m \in D : ~Better(cands[m], cands[first])
  BY <1>2, <1>3, <1>7, <1>8
<1>10. \A m \in D : m < first => Better(cands[first], cands[m])
  BY <1>1, <1>2, <1>3, <1>7, <1>8
<1>11. first \in DOMAIN cands /\ \A m \in DOMAIN cands : ~Better(cands[m], cands[first])
  BY <1>7, <1>9 DEF D
<1>12. \A m \in 1 .. first - 1 : Better(cands[first], cands[m])
  BY <1>1, <1>7, <1>10
<1> DEFINE Taken(k) == /\ \A m \in DOMAIN cands : ~Better(cands[m], cands[k])
                       /\ \A m \in 1 .. k - 1 : Better(cands[k], cands[m])
           i == CHOOSE k \in DOMAIN cands : Taken(k)
<1>13. i \in DOMAIN cands /\ Taken(i)
  BY <1>11, <1>12
<1>14. MinBy(cands) = cands[i]
  BY DEF MinBy
<1> QED
  BY <1>13, <1>14

-----------------------------------------------------------------------------
(* What the plan for at most fifty videos costs, and how many calls it is. *)

TailCost(p, n) ==
  IF p = "statistics" THEN (n + 1) \div 2
  ELSE IF p = "batch50" THEN (IF n = 0 THEN 0 ELSE 50)
  ELSE n

TailCalls(p, n) ==
  IF n = 0 THEN 0
  ELSE IF p = "batch50" THEN 1
  ELSE IF p = "statistics" THEN (IF n >= 49 THEN 1 ELSE (n + 1) \div 2)
  ELSE IF n = 50 THEN 1 ELSE (n \div 10) + (n % 10)

Covers(calls, n) ==
  /\ SumFunction(Sizes(calls)) = n
  /\ \A i \in DOMAIN calls : calls[i].size \in 1 .. calls[i].capacity

(* A plan of n videos as it should be.                                     *)
Planned(p, n, plan) ==
  /\ plan \in FetchPlan
  /\ plan.cost = TailCost(p, n) /\ Len(plan.calls) = TailCalls(p, n)
  /\ Covers(plan.calls, n)

LEMMA SizesOfMore ==
  ASSUME NEW calls \in Seq(FetchCall), NEW added \in FetchCall
  PROVE  SumFunction(Sizes(Append(calls, added))) = SumFunction(Sizes(calls)) + added.size
<1> DEFINE n == Len(calls)
           f == Sizes(calls)
           g == Sizes(Append(calls, added))
<1>1. n \in Nat /\ DOMAIN calls = 1 .. n /\ Append(calls, added) \in Seq(FetchCall)
      /\ DOMAIN Append(calls, added) = 1 .. n + 1 /\ Append(calls, added)[n + 1] = added
      /\ \A i \in 1 .. n : Append(calls, added)[i] = calls[i]
  OBVIOUS
<1>2. DOMAIN f = 1 .. n /\ DOMAIN g = 1 .. n + 1
      /\ (\A i \in 1 .. n : f[i] = g[i]) /\ g[n + 1] = added.size
  BY <1>1 DEF Sizes
<1>3. \A i \in 1 .. n + 1 : g[i] \in Int
  <2>1. \A i \in 1 .. n + 1 : Append(calls, added)[i] \in FetchCall
    BY <1>1
  <2> QED
    BY <1>1, <2>1 DEF Sizes, FetchCall
<1> HIDE DEF f, g, n
<1>5. SumFunctionOnSet(g, 1 .. n + 1) = SumFunctionOnSet(g, 1 .. n) + g[n + 1]
  BY <1>1, <1>3, SumToNext
<1>6. SumFunctionOnSet(g, 1 .. n) = SumFunctionOnSet(f, 1 .. n)
  BY <1>1, <1>2, SumToSame
<1> QED
  BY <1>2, <1>5, <1>6 DEF SumFunction, f, g

LEMMA SumOfEqual ==
  ASSUME NEW g, NEW n \in Nat, \A i \in 1 .. n : g[i] = 50
  PROVE  SumFunctionOnSet(g, 1 .. n) = 50 * n
<1> DEFINE P == {k \in Nat : k <= n => SumFunctionOnSet(g, 1 .. k) = 50 * k}
<1>1. 0 \in P
  <2>1. (1 .. 0) = {}
    OBVIOUS
  <2> QED
    BY <2>1, SumOfNone
<1>2. ASSUME NEW k \in Nat, k \in P PROVE k + 1 \in P
  <2> SUFFICES ASSUME k + 1 <= n PROVE SumFunctionOnSet(g, 1 .. k + 1) = 50 * (k + 1)
    OBVIOUS
  <2>1. \A i \in 1 .. k + 1 : g[i] \in Int /\ g[i] = 50
    OBVIOUS
  <2>2. SumFunctionOnSet(g, 1 .. k + 1) = SumFunctionOnSet(g, 1 .. k) + g[k + 1]
    BY <2>1, SumToNext
  <2>3. SumFunctionOnSet(g, 1 .. k) = 50 * k /\ g[k + 1] = 50
    BY <1>2, <2>1
  <2> QED
    BY <2>2, <2>3
<1> HIDE DEF P
<1>3. n \in P
  BY <1>1, <1>2, NatSetInduction
<1> QED
  BY <1>3 DEF P

LEMMA SizesOfBoth ==
  ASSUME NEW s \in Seq(FetchCall), NEW t \in Seq(FetchCall)
  PROVE  SumFunction(Sizes(s \o t)) = SumFunction(Sizes(s)) + SumFunction(Sizes(t))
<1> DEFINE m == Len(s)
           n == Len(t)
           f == Sizes(s)
           g == Sizes(s \o t)
           h == Sizes(t)
<1>1. m \in Nat /\ n \in Nat /\ DOMAIN s = 1 .. m /\ DOMAIN t = 1 .. n
      /\ s \o t \in Seq(FetchCall) /\ DOMAIN (s \o t) = 1 .. m + n
      /\ (\A i \in 1 .. m : (s \o t)[i] = s[i]) /\ (\A i \in 1 .. n : (s \o t)[m + i] = t[i])
  OBVIOUS
<1>2. \A i \in 1 .. m + n : g[i] \in Int
  <2>1. \A i \in 1 .. m + n : (s \o t)[i] \in FetchCall
    BY <1>1
  <2> QED
    BY <1>1, <2>1 DEF Sizes, FetchCall
<1>3. DOMAIN f = 1 .. m /\ DOMAIN g = 1 .. m + n /\ DOMAIN h = 1 .. n
      /\ (\A i \in 1 .. m : g[i] = f[i])
  BY <1>1 DEF Sizes
<1>4. \A i \in 1 .. n : h[i] = g[m + i]
  <2>1. \A i \in 1 .. n : m + i \in 1 .. m + n
    BY <1>1
  <2> QED
    BY <1>1, <2>1 DEF Sizes
<1> HIDE DEF m, n, f, g, h
<1>5. SumFunctionOnSet(g, 1 .. m + n) = SumFunctionOnSet(g, 1 .. m) + SumFunctionOnSet(h, 1 .. n)
  <2>1. m \in Nat /\ n \in Nat
    BY <1>1
  <2> QED
    BY <2>1, <1>2, <1>4, SumInTwo
<1>6. SumFunctionOnSet(g, 1 .. m) = SumFunctionOnSet(f, 1 .. m)
  BY <1>1, <1>3, SumToSame
<1> QED
  BY <1>3, <1>5, <1>6 DEF SumFunction, f, g, h

-----------------------------------------------------------------------------
LEMMA CandidateIs ==
  ASSUME NEW p \in Purposes, NEW n \in 1 .. 50, NEW best \in Seq(FetchPlan), Len(best) = n,
         \A j \in 1 .. n : Planned(p, j - 1, best[j]),
         NEW c \in Nat \ {0}, NEW price \in Nat
  PROVE  LET taken == Smaller(n, c)
             plan == Candidate(Option(c, price), best) IN
         /\ plan \in FetchPlan /\ Covers(plan.calls, n)
         /\ plan.cost = TailCost(p, n - taken) + price
         /\ Len(plan.calls) = TailCalls(p, n - taken) + 1
<1> DEFINE o == Option(c, price)
           taken == Smaller(n, c)
           previous == best[n - taken + 1]
           added == [size |-> taken, capacity |-> c]
           plan == Candidate(o, best)
<1>1. taken \in 1 .. n /\ taken \in 1 .. c
  BY DEF Smaller
<1>2. o.capacity = c /\ o.price = price
  BY DEF Option
<1> HIDE DEF taken
<1>3. n - taken + 1 \in 1 .. n
  BY <1>1
<1>4. Planned(p, n - taken, previous)
  <2>1. (n - taken + 1) - 1 = n - taken
    BY <1>1
  <2> QED
    BY <1>3, <2>1
<1>5. plan = [cost |-> previous.cost + price, calls |-> Append(previous.calls, added)]
  BY <1>2 DEF Candidate, taken
<1>6. previous.cost \in Nat /\ previous.calls \in Seq(FetchCall) /\ added \in FetchCall
  BY <1>1, <1>4 DEF Planned, FetchPlan, FetchCall
<1> HIDE DEF previous, added, plan
<1>7. Append(previous.calls, added) \in Seq(FetchCall)
      /\ Len(Append(previous.calls, added)) = Len(previous.calls) + 1
  BY <1>6
<1>8. plan \in FetchPlan
  BY <1>5, <1>6, <1>7 DEF FetchPlan
<1>9. plan.cost = TailCost(p, n - taken) + price /\ Len(plan.calls) = TailCalls(p, n - taken) + 1
  BY <1>4, <1>5, <1>7 DEF Planned
<1>10. SumFunction(Sizes(plan.calls)) = n
  <2>1. SumFunction(Sizes(plan.calls)) = SumFunction(Sizes(previous.calls)) + added.size
    BY <1>5, <1>6, SizesOfMore
  <2>2. SumFunction(Sizes(previous.calls)) = n - taken /\ added.size = taken
    BY <1>4 DEF Planned, Covers, added
  <2> QED
    BY <1>1, <2>1, <2>2
<1>11. \A i \in DOMAIN plan.calls : plan.calls[i].size \in 1 .. plan.calls[i].capacity
  <2> DEFINE s == previous.calls
  <2>1. s \in Seq(FetchCall) /\ \A i \in DOMAIN s : s[i].size \in 1 .. s[i].capacity
    BY <1>4, <1>6 DEF Planned, Covers
  <2>2. added.size \in 1 .. added.capacity
    BY <1>1 DEF added
  <2>3. plan.calls = Append(s, added)
    BY <1>5
  <2> HIDE DEF s
  <2> SUFFICES ASSUME NEW i \in DOMAIN plan.calls
               PROVE  plan.calls[i].size \in 1 .. plan.calls[i].capacity
    OBVIOUS
  <2>4. plan.calls[i] = added \/ (i \in DOMAIN s /\ plan.calls[i] = s[i])
    BY <2>1, <2>3
  <2> QED
    BY <2>1, <2>2, <2>4
<1> QED
  BY <1>8, <1>9, <1>10, <1>11 DEF Covers, plan, taken

LEMMA StatisticsTail ==
  ASSUME NEW n \in 1 .. 50, NEW taken, taken = IF n = 1 THEN 1 ELSE 2
  PROVE  /\ TailCost("statistics", n - taken) + 1 = (n + 1) \div 2
         /\ TailCalls("statistics", n - taken) + 1 = (n + 1) \div 2
<1>1. CASE n = 1
  <2>1. n - taken = 0 /\ (n + 1) \div 2 = 1 /\ (0 + 1) \div 2 = 0
    BY <1>1
  <2> QED
    BY <2>1 DEF TailCost, TailCalls
<1>2. CASE n = 2
  <2>1. n - taken = 0 /\ (n + 1) \div 2 = 1 /\ (0 + 1) \div 2 = 0
    BY <1>2
  <2> QED
    BY <2>1 DEF TailCost, TailCalls
<1>3. CASE n > 2
  <2>1. n - taken = n - 2 /\ n - 2 # 0 /\ ~(n - 2 >= 49) /\ n \in Nat
    BY <1>3
  <2>2. ((n - 2) + 1) \div 2 + 1 = (n + 1) \div 2
    BY <2>1
  <2> QED
    BY <2>1, <2>2 DEF TailCost, TailCalls
<1> QED
  BY <1>1, <1>2, <1>3

Digits(n) == (n \div 10) + (n % 10)

LEMMA DigitsAre ==
  ASSUME NEW n \in Nat
  PROVE  /\ Digits(n) \in Nat
         /\ n < 10 => Digits(n) = n
         /\ n > 10 => Digits(n - 10) + 1 = Digits(n)
         /\ n > 0 /\ n % 10 # 0 => Digits(n - 1) + 1 = Digits(n)
         /\ n > 0 /\ n % 10 = 0 => n >= 10 /\ Digits(n - 1) + 1 > Digits(n)
<1>1. Digits(n) \in Nat
  BY DEF Digits
<1>2. n < 10 => Digits(n) = n
  BY DEF Digits
<1>3. n > 10 => Digits(n - 10) + 1 = Digits(n)
  BY DEF Digits
<1>4. n > 0 /\ n % 10 # 0 => Digits(n - 1) + 1 = Digits(n)
  BY DEF Digits
<1>5. n > 0 /\ n % 10 = 0 => n >= 10 /\ Digits(n - 1) + 1 > Digits(n)
  BY DEF Digits
<1> QED
  BY <1>1, <1>2, <1>3, <1>4, <1>5

LEMMA CostAwareTail ==
  ASSUME NEW n \in 1 .. 50, NEW ten, ten = IF n <= 10 THEN n ELSE 10
  PROVE  /\ TailCost("cost_aware", n - ten) + 10 = IF n <= 10 THEN 10 ELSE n
         /\ TailCalls("cost_aware", n - ten) + 1 = IF n <= 10 THEN 1 ELSE Digits(n)
         /\ TailCost("cost_aware", n - 1) + 1 = n
         /\ TailCalls("cost_aware", n - 1) + 1 = Digits(n - 1) + 1
<1>0. n \in Nat /\ n > 0 /\ n <= 50
  OBVIOUS
<1>1. \A m \in 0 .. 49 : TailCost("cost_aware", m) = m /\ TailCalls("cost_aware", m) = Digits(m)
  <2> TAKE m \in 0 .. 49
  <2>1. CASE m = 0
    <3>1. Digits(m) = 0
      BY <2>1, DigitsAre
    <3> QED
      BY <2>1, <3>1 DEF TailCost, TailCalls
  <2>2. CASE m # 0
    BY <2>2 DEF TailCost, TailCalls, Digits
  <2> QED
    BY <2>1, <2>2
<1>2. Digits(0) = 0
  BY DigitsAre
<1>3. CASE n <= 10
  <2>1. n - ten = 0 /\ n - 1 \in 0 .. 49
    BY <1>0, <1>3
  <2> QED
    BY <1>0, <1>1, <1>2, <1>3, <2>1
<1>4. CASE n > 10
  <2>1. n - ten = n - 10 /\ n - 10 \in 0 .. 49 /\ n - 1 \in 0 .. 49
    BY <1>0, <1>4
  <2>2. Digits(n - 10) + 1 = Digits(n)
    BY <1>0, <1>4, DigitsAre
  <2> QED
    BY <1>0, <1>1, <1>4, <2>1, <2>2
<1> QED
  BY <1>0, <1>3, <1>4

LEMMA NoneBefore ==
  ASSUME NEW cost, NEW calls, NEW price \in Nat, cost = 0, calls = 0
  PROVE  cost + price = price /\ calls + 1 = 1
  OBVIOUS

LEMMA NextIsPlanned ==
  ASSUME NEW p \in Purposes, NEW n \in 1 .. 50, NEW best \in Seq(FetchPlan), Len(best) = n,
         \A j \in 1 .. n : Planned(p, j - 1, best[j])
  PROVE  Planned(p, n, NextBest(p, best))
<1> DEFINE Cand(c, price) == Candidate(Option(c, price), best)
           cands == [i \in DOMAIN Options(p) |-> Candidate(Options(p)[i], best)]
           Is(c, price, plan) == /\ plan \in FetchPlan /\ Covers(plan.calls, n)
                                 /\ plan.cost = TailCost(p, n - Smaller(n, c)) + price
                                 /\ Len(plan.calls) = TailCalls(p, n - Smaller(n, c)) + 1
<1>1. \A c \in Nat \ {0}, price \in Nat : Is(c, price, Cand(c, price))
  BY CandidateIs
<1>0. NextBest(p, best) = MinBy(cands)
  BY DEF NextBest
<1>a. n \in Nat /\ n > 0 /\ n <= 50
  OBVIOUS
<1>2. CASE p = "statistics"
  <2>1. Options(p) = <<Option(50, 25), Option(2, 1)>>
    BY <1>2 DEF Options
  <2>2. cands = <<Cand(50, 25), Cand(2, 1)>>
    BY <2>1
  <2> HIDE DEF cands, Cand, Is
  <2>3. Is(50, 25, Cand(50, 25)) /\ Is(2, 1, Cand(2, 1))
    BY <1>1
  <2> USE DEF Is
  <2>4. Cand(50, 25) \in FetchPlan /\ Cand(2, 1) \in FetchPlan
    BY <2>3
  <2>5. cands \in Seq(FetchPlan) /\ cands # << >> /\ DOMAIN cands = 1 .. 2
        /\ cands[1] = Cand(50, 25) /\ cands[2] = Cand(2, 1)
    BY <2>2, <2>4
  <2>6. PICK k \in DOMAIN cands : /\ NextBest(p, best) = cands[k]
                                 /\ \A m \in DOMAIN cands : ~Better(cands[m], cands[k])
    BY <1>0, <2>5, OneIsBest
  <2>7. Smaller(n, 50) = n /\ Smaller(n, 2) = IF n = 1 THEN 1 ELSE 2
    BY DEF Smaller
  <2> DEFINE half == (n + 1) \div 2
  <2>8. /\ TailCost(p, n - Smaller(n, 2)) + 1 = half
        /\ TailCalls(p, n - Smaller(n, 2)) + 1 = half
    BY <1>2, <2>7, StatisticsTail
  <2>a. TailCost(p, n - Smaller(n, 50)) = 0 /\ TailCalls(p, n - Smaller(n, 50)) = 0
    BY <1>2, <2>7 DEF TailCost, TailCalls
  <2>b. half \in Nat /\ half > 0 /\ half <= 25 /\ (half = 25 <=> n >= 49)
    BY <1>a
  <2>c. TailCost(p, n) = half /\ TailCalls(p, n) = IF n >= 49 THEN 1 ELSE half
    BY <1>2, <1>a DEF TailCost, TailCalls
  <2> HIDE DEF half
  <2>9. /\ Cand(50, 25).cost = 25 /\ Len(Cand(50, 25).calls) = 1
        /\ Cand(2, 1).cost = half /\ Len(Cand(2, 1).calls) = half
    <3>1. /\ Cand(50, 25).cost = TailCost(p, n - Smaller(n, 50)) + 25
          /\ Len(Cand(50, 25).calls) = TailCalls(p, n - Smaller(n, 50)) + 1
          /\ Cand(2, 1).cost = TailCost(p, n - Smaller(n, 2)) + 1
          /\ Len(Cand(2, 1).calls) = TailCalls(p, n - Smaller(n, 2)) + 1
      BY <2>3
    <3> HIDE DEF Is
    <3>2. /\ TailCost(p, n - Smaller(n, 50)) + 25 = 25
          /\ TailCalls(p, n - Smaller(n, 50)) + 1 = 1
      BY <2>a, NoneBefore
    <3> QED
      BY <3>1, <3>2, <2>8
  <2>10. Is(50, 25, cands[k]) \/ Is(2, 1, cands[k])
    BY <2>3, <2>5
  <2>11. cands[k].cost = TailCost(p, n) /\ Len(cands[k].calls) = TailCalls(p, n)
    <3>1. CASE k = 1
      <4>1. ~(half < 25 \/ (half = 25 /\ half < 1))
        BY <2>5, <2>6, <2>9, <3>1 DEF Better
      <4>2. half = 25 /\ n >= 49
        BY <2>b, <4>1
      <4>3. cands[k].cost = 25 /\ Len(cands[k].calls) = 1
        BY <2>5, <2>9, <3>1
      <4> QED
        BY <2>c, <4>2, <4>3
    <3>2. CASE k = 2
      <4>1. ~(25 < half \/ (25 = half /\ 1 < half))
        <5>1. ~Better(cands[1], cands[k]) /\ cands[k] = Cand(2, 1) /\ cands[1] = Cand(50, 25)
          BY <2>5, <2>6, <3>2
        <5> QED
          BY <2>9, <5>1 DEF Better
      <4> QED
        BY <1>a, <2>5, <2>9, <2>b, <2>c, <3>2, <4>1
    <3> QED
      BY <2>5, <3>1, <3>2
  <2> QED
    BY <2>6, <2>10, <2>11 DEF Planned
<1>3. CASE p = "batch50"
  <2>1. Options(p) = <<Option(50, 50)>>
    BY <1>3 DEF Options
  <2>2. cands = <<Cand(50, 50)>>
    BY <2>1
  <2> HIDE DEF cands, Cand, Is
  <2>3. Is(50, 50, Cand(50, 50))
    BY <1>1
  <2> USE DEF Is
  <2>4. Cand(50, 50) \in FetchPlan
    BY <2>3
  <2>5. cands \in Seq(FetchPlan) /\ cands # << >> /\ DOMAIN cands = 1 .. 1
        /\ cands[1] = Cand(50, 50)
    BY <2>2, <2>4
  <2>6. PICK k \in DOMAIN cands : /\ NextBest(p, best) = cands[k]
                                 /\ \A m \in DOMAIN cands : ~Better(cands[m], cands[k])
    BY <1>0, <2>5, OneIsBest
  <2>7. Smaller(n, 50) = n
    BY DEF Smaller
  <2>8. TailCost(p, n - n) = 0 /\ TailCalls(p, n - n) = 0 /\ TailCost(p, n) = 50 /\ TailCalls(p, n) = 1
    BY <1>3 DEF TailCost, TailCalls
  <2>9. NextBest(p, best) = Cand(50, 50)
    BY <2>5, <2>6
  <2>10. n - Smaller(n, 50) = n - n
    BY <2>7
  <2> QED
    <3>1. /\ Cand(50, 50) \in FetchPlan /\ Covers(Cand(50, 50).calls, n)
          /\ Cand(50, 50).cost = TailCost(p, n - n) + 50
          /\ Len(Cand(50, 50).calls) = TailCalls(p, n - n) + 1
      BY <2>3, <2>10
    <3> HIDE DEF Is
    <3>2. TailCost(p, n - n) + 50 = 50 /\ TailCalls(p, n - n) + 1 = 1
      BY <2>8, NoneBefore
    <3> QED
      BY <2>8, <2>9, <3>1, <3>2 DEF Planned
<1>4. CASE p = "cost_aware"
  <2>1. Options(p) = <<Option(50, 50), Option(10, 10), Option(1, 1)>>
    BY <1>4 DEF Options
  <2>2. cands = <<Cand(50, 50), Cand(10, 10), Cand(1, 1)>>
    BY <2>1
  <2> HIDE DEF cands, Cand, Is
  <2>3. Is(50, 50, Cand(50, 50)) /\ Is(10, 10, Cand(10, 10)) /\ Is(1, 1, Cand(1, 1))
    BY <1>1
  <2> USE DEF Is
  <2>4. Cand(50, 50) \in FetchPlan /\ Cand(10, 10) \in FetchPlan /\ Cand(1, 1) \in FetchPlan
    BY <2>3
  <2>5. cands \in Seq(FetchPlan) /\ cands # << >> /\ DOMAIN cands = 1 .. 3
        /\ cands[1] = Cand(50, 50) /\ cands[2] = Cand(10, 10) /\ cands[3] = Cand(1, 1)
    BY <2>2, <2>4
  <2>6. PICK k \in DOMAIN cands : /\ NextBest(p, best) = cands[k]
                                 /\ \A m \in DOMAIN cands : ~Better(cands[m], cands[k])
    BY <1>0, <2>5, OneIsBest
  <2>7. /\ Smaller(n, 50) = n /\ Smaller(n, 1) = 1
        /\ Smaller(n, 10) = IF n <= 10 THEN n ELSE 10
    BY DEF Smaller
  <2> DEFINE digits == Digits(n)
             before == Digits(n - 1) + 1
  <2>8. /\ TailCost(p, n - Smaller(n, 10)) + 10 = IF n <= 10 THEN 10 ELSE n
        /\ TailCalls(p, n - Smaller(n, 10)) + 1 = IF n <= 10 THEN 1 ELSE digits
        /\ TailCost(p, n - Smaller(n, 1)) + 1 = n
        /\ TailCalls(p, n - Smaller(n, 1)) + 1 = before
    BY <1>4, <2>7, CostAwareTail
  <2>a. TailCost(p, n - Smaller(n, 50)) = 0 /\ TailCalls(p, n - Smaller(n, 50)) = 0
    BY <1>4, <2>7 DEF TailCost, TailCalls
  <2>9. /\ Cand(50, 50).cost = 50 /\ Len(Cand(50, 50).calls) = 1
        /\ Cand(10, 10).cost = (IF n <= 10 THEN 10 ELSE n)
        /\ Len(Cand(10, 10).calls) = (IF n <= 10 THEN 1 ELSE digits)
        /\ Cand(1, 1).cost = n /\ Len(Cand(1, 1).calls) = before
    <3>1. /\ Cand(50, 50).cost = TailCost(p, n - Smaller(n, 50)) + 50
          /\ Len(Cand(50, 50).calls) = TailCalls(p, n - Smaller(n, 50)) + 1
          /\ Cand(10, 10).cost = TailCost(p, n - Smaller(n, 10)) + 10
          /\ Len(Cand(10, 10).calls) = TailCalls(p, n - Smaller(n, 10)) + 1
          /\ Cand(1, 1).cost = TailCost(p, n - Smaller(n, 1)) + 1
          /\ Len(Cand(1, 1).calls) = TailCalls(p, n - Smaller(n, 1)) + 1
      BY <2>3
    <3> HIDE DEF Is, digits, before
    <3>2. /\ TailCost(p, n - Smaller(n, 50)) + 50 = 50
          /\ TailCalls(p, n - Smaller(n, 50)) + 1 = 1
      BY <2>a, NoneBefore
    <3> QED
      BY <3>1, <3>2, <2>8
  <2>10. Is(50, 50, cands[k]) \/ Is(10, 10, cands[k]) \/ Is(1, 1, cands[k])
    BY <2>3, <2>5
  <2>11. TailCost(p, n) = n /\ TailCalls(p, n) = IF n = 50 THEN 1 ELSE digits
    BY <1>4 DEF TailCost, TailCalls, Digits
  <2>12. /\ digits \in Nat /\ before \in Nat
         /\ n % 10 # 0 => before = digits
         /\ n % 10 = 0 => n >= 10 /\ before > digits
    <3>1. n - 1 \in Nat
      BY <1>a
    <3>2. digits \in Nat /\ Digits(n - 1) \in Nat
      BY <1>a, <3>1, DigitsAre
    <3>3. /\ n % 10 # 0 => Digits(n - 1) + 1 = Digits(n)
          /\ n % 10 = 0 => n >= 10 /\ Digits(n - 1) + 1 > Digits(n)
      BY <1>a, DigitsAre
    <3> QED
      BY <3>2, <3>3
  <2>13. Digits(10) = 1 /\ Digits(50) = 5 /\ 10 % 10 = 0 /\ 50 % 10 = 0
    BY DEF Digits
  <2> HIDE DEF digits, before
  <2>d. (n = 10 => digits = 1) /\ (n = 50 => digits = 5)
    BY <2>13 DEF digits
  <2> HIDE DEF Is
  <2>14. cands[k].cost = TailCost(p, n) /\ Len(cands[k].calls) = TailCalls(p, n)
    <3>1. CASE k = 1
      <4>1. cands[k].cost = 50 /\ Len(cands[k].calls) = 1 /\ ~Better(cands[3], cands[k])
        BY <2>5, <2>6, <2>9, <3>1
      <4>2. ~(n < 50 \/ (n = 50 /\ before < 1))
        BY <2>5, <2>9, <4>1 DEF Better
      <4> QED
        BY <1>a, <2>11, <4>1, <4>2
    <3>2. CASE k = 2
      <4>1. /\ cands[k].cost = (IF n <= 10 THEN 10 ELSE n)
            /\ Len(cands[k].calls) = (IF n <= 10 THEN 1 ELSE digits)
            /\ ~Better(cands[3], cands[k]) /\ ~Better(cands[1], cands[k])
        BY <2>5, <2>6, <2>9, <3>2
      <4>2. n >= 10
        BY <2>5, <2>9, <4>1 DEF Better
      <4>3. n # 50
        <5> SUFFICES ASSUME n = 50 PROVE FALSE
          OBVIOUS
        <5>1. cands[k].cost = 50 /\ Len(cands[k].calls) = 5
          BY <2>d, <4>1
        <5>2. cands[1].cost = 50 /\ Len(cands[1].calls) = 1 /\ ~Better(cands[1], cands[k])
          BY <2>5, <2>9, <4>1
        <5> QED
          BY <5>1, <5>2 DEF Better
      <4> QED
        BY <1>a, <2>11, <2>d, <4>1, <4>2, <4>3
    <3>3. CASE k = 3
      <4>1. /\ cands[k].cost = n /\ Len(cands[k].calls) = before
            /\ ~Better(cands[2], cands[k]) /\ ~Better(cands[1], cands[k])
        BY <2>5, <2>6, <2>9, <3>3
      <4>2. n # 50
        <5>1. n = 50 => before > 1
          BY <2>12, <2>13, <2>d
        <5> QED
          BY <2>5, <2>9, <4>1, <5>1 DEF Better
      <4>3. n % 10 # 0
        <5> SUFFICES ASSUME n % 10 = 0 PROVE FALSE
          OBVIOUS
        <5>1. n >= 10 /\ before > digits /\ (n = 10 => digits = 1)
          BY <2>12, <2>d
        <5>2. cands[2].cost = n /\ Len(cands[2].calls) = digits
          <6>1. /\ cands[2].cost = (IF n <= 10 THEN 10 ELSE n)
                /\ Len(cands[2].calls) = (IF n <= 10 THEN 1 ELSE digits)
            BY <2>5, <2>9
          <6> QED
            BY <1>a, <5>1, <6>1
        <5>3. ~(n < n \/ (n = n /\ digits < before))
          BY <4>1, <5>2 DEF Better
        <5> QED
          BY <2>12, <5>1, <5>3
      <4> QED
        BY <2>11, <2>12, <4>1, <4>2, <4>3
    <3> QED
      BY <2>5, <3>1, <3>2, <3>3
  <2> QED
    BY <2>6, <2>10, <2>14 DEF Planned, Is
<1> QED
  BY <1>2, <1>3, <1>4 DEF Purposes

-----------------------------------------------------------------------------
TableStep(p, f, k) ==
  IF k = 0 THEN <<Nothing>> ELSE Append(f[k - 1], NextBest(p, f[k - 1]))
IsTable(p, f, n) == f = [k \in 0 .. n |-> TableStep(p, f, k)]

LEMMA TableExists ==
  ASSUME NEW p, NEW n \in Nat
  PROVE  \E f : IsTable(p, f, n)
<1> DEFINE P == {m \in Nat : \E f : IsTable(p, f, m)}
<1>1. 0 \in P
  <2> DEFINE f == [k \in 0 .. 0 |-> <<Nothing>>]
  <2>1. \A k \in 0 .. 0 : k = 0
    OBVIOUS
  <2>2. f = [k \in 0 .. 0 |-> TableStep(p, f, k)]
    BY <2>1 DEF TableStep
  <2> HIDE DEF f
  <2> QED
    BY <2>2 DEF IsTable
<1>2. ASSUME NEW m \in Nat, m \in P PROVE m + 1 \in P
  <2>1. PICK f : f = [k \in 0 .. m |-> TableStep(p, f, k)]
    BY <1>2 DEF IsTable
  <2> DEFINE g == [k \in 0 .. m + 1 |-> IF k = m + 1 THEN TableStep(p, f, k) ELSE f[k]]
  <2>2. ASSUME NEW k \in 0 .. m + 1 PROVE g[k] = TableStep(p, g, k)
    <3>1. CASE k = 0
      <4>1. k \in 0 .. m /\ k # m + 1
        BY <3>1
      <4>2. g[k] = f[k] /\ f[k] = TableStep(p, f, k)
        BY <2>1, <4>1
      <4> QED
        BY <3>1, <4>2 DEF TableStep
    <3>2. CASE k # 0
      <4>1. k - 1 \in 0 .. m + 1 /\ k - 1 # m + 1
        BY <3>2
      <4>2. g[k - 1] = f[k - 1]
        BY <4>1
      <4>3. k = m + 1 \/ k \in 0 .. m
        OBVIOUS
      <4>4. g[k] = TableStep(p, f, k)
        BY <2>1, <4>3
      <4> HIDE DEF g
      <4> QED
        BY <3>2, <4>2, <4>4 DEF TableStep
    <3> QED
      BY <3>1, <3>2
  <2>3. DOMAIN g = 0 .. m + 1 /\ g = [k \in 0 .. m + 1 |-> g[k]]
    OBVIOUS
  <2> HIDE DEF g
  <2>4. g = [k \in 0 .. m + 1 |-> TableStep(p, g, k)]
    BY <2>2, <2>3
  <2> QED
    BY <2>4 DEF IsTable
<1> HIDE DEF P
<1>3. n \in P
  BY <1>1, <1>2, NatSetInduction
<1> QED
  BY <1>3 DEF P

LEMMA NothingIsPlanned ==
  ASSUME NEW p \in Purposes
  PROVE  Planned(p, 0, Nothing)
<1>1. Nothing.cost = 0 /\ Nothing.calls = << >> /\ Nothing \in FetchPlan
  BY DEF Nothing, FetchPlan
<1>2. DOMAIN << >> = {} /\ Len(<< >>) = 0
  OBVIOUS
<1>3. DOMAIN Sizes(<< >>) = {}
  BY <1>2 DEF Sizes
<1>4. SumFunction(Sizes(<< >>)) = 0
  BY <1>3, SumOfNone DEF SumFunction
<1>5. TailCost(p, 0) = 0 /\ TailCalls(p, 0) = 0
  <2>1. (0 + 1) \div 2 = 0
    OBVIOUS
  <2> QED
    BY <2>1 DEF TailCost, TailCalls
<1> QED
  BY <1>1, <1>2, <1>4, <1>5 DEF Planned, Covers

(* The best plans for up to fifty videos cost what they should.            *)
LEMMA BestIsPlanned ==
  ASSUME NEW p \in Purposes, NEW n \in 0 .. 50
  PROVE  Planned(p, n, Best(p, n))
<1> DEFINE f == CHOOSE f : IsTable(p, f, n)
<1>1. IsTable(p, f, n)
  BY TableExists
<1>2. BestUpTo(p, n) = f[n]
  BY DEF BestUpTo, IsTable, TableStep
<1> HIDE DEF f
<1>3. \A k \in 0 .. n : f[k] = TableStep(p, f, k)
  BY <1>1 DEF IsTable
<1> DEFINE Filled(k) == /\ f[k] \in Seq(FetchPlan) /\ Len(f[k]) = k + 1
                     /\ \A j \in 1 .. k + 1 : Planned(p, j - 1, f[k][j])
           P == {k \in Nat : k <= n => Filled(k)}
<1>4. 0 \in P
  <2>1. f[0] = <<Nothing>>
    BY <1>3 DEF TableStep
  <2>2. Nothing \in FetchPlan /\ Planned(p, 0, Nothing)
    BY NothingIsPlanned DEF Planned
  <2>3. f[0] \in Seq(FetchPlan) /\ Len(f[0]) = 1 /\ f[0][1] = Nothing
    BY <2>1, <2>2
  <2>4. \A j \in 1 .. 0 + 1 : j = 1 /\ j - 1 = 0
    OBVIOUS
  <2> QED
    BY <2>2, <2>3, <2>4
<1>5. ASSUME NEW k \in Nat, k \in P PROVE k + 1 \in P
  <2> SUFFICES ASSUME k + 1 <= n PROVE Filled(k + 1)
    OBVIOUS
  <2> DEFINE best == f[k]
             next == NextBest(p, best)
             row == f[k + 1]
  <2>1. Filled(k)
    <3>1. k <= n
      OBVIOUS
    <3> HIDE DEF Filled
    <3> QED
      BY <1>5, <3>1
  <2>2. k + 1 \in 1 .. 50 /\ k + 1 \in 0 .. n /\ k + 1 # 0 /\ (k + 1) - 1 = k
    OBVIOUS
  <2>3. row = Append(best, next)
    BY <1>3, <2>2 DEF TableStep
  <2>4. Planned(p, k + 1, next)
    <3> DEFINE c == k + 1
    <3>1. c \in 1 .. 50 /\ best \in Seq(FetchPlan) /\ Len(best) = c
          /\ \A j \in 1 .. c : Planned(p, j - 1, best[j])
      BY <2>1, <2>2
    <3> HIDE DEF c, best, Filled
    <3>2. Planned(p, c, NextBest(p, best))
      BY <3>1, NextIsPlanned
    <3> QED
      BY <3>2 DEF c
  <2>5. next \in FetchPlan /\ best \in Seq(FetchPlan) /\ Len(best) = k + 1
    BY <2>1, <2>4 DEF Planned
  <2> HIDE DEF best, next, row
  <2>6. row \in Seq(FetchPlan) /\ Len(row) = (k + 1) + 1 /\ row[(k + 1) + 1] = next
        /\ \A j \in 1 .. k + 1 : row[j] = best[j]
    BY <2>3, <2>5
  <2>7. ASSUME NEW j \in 1 .. (k + 1) + 1 PROVE Planned(p, j - 1, row[j])
    <3>1. CASE j = (k + 1) + 1
      <4>1. j - 1 = k + 1
        BY <3>1
      <4> QED
        BY <2>4, <2>6, <3>1, <4>1
    <3>2. CASE j # (k + 1) + 1
      <4>1. j \in 1 .. k + 1
        BY <3>2
      <4> QED
        BY <2>1, <2>6, <4>1 DEF best
    <3> QED
      BY <3>1, <3>2
  <2> QED
    BY <2>6, <2>7 DEF row
<1> HIDE DEF P
<1>6. n \in P
  BY <1>4, <1>5, NatSetInduction
<1>7. Planned(p, n, f[n][n + 1])
  <2>1. Filled(n) /\ n + 1 \in 1 .. n + 1 /\ (n + 1) - 1 = n
    BY <1>6 DEF P
  <2> HIDE DEF f
  <2> QED
    BY <2>1
<1> QED
  BY <1>2, <1>7 DEF Best

-----------------------------------------------------------------------------
(* The whole plan: groups of fifty and the rest.                           *)

GroupPrice(p) == IF p = "statistics" THEN 25 ELSE 50

LEMMA GroupsLeave ==
  ASSUME NEW n \in Nat
  PROVE  /\ Groups(n) \in Nat /\ n - 50 * Groups(n) \in 0 .. 50
         /\ n > 0 => n - 50 * Groups(n) \in 1 .. 50
         /\ n = 0 => Groups(n) = 0
  BY DEF Groups

LEMMA PlanIs ==
  ASSUME NEW p \in Purposes, NEW n \in Nat
  PROVE  LET plan == PlanFetches(p, n)
             full == Groups(n)
             tail == n - 50 * full IN
         /\ Covers(plan.calls, n)
         /\ plan.cost = GroupPrice(p) * full + TailCost(p, tail)
         /\ Len(plan.calls) = full + TailCalls(p, tail)
<1> DEFINE full == Groups(n)
           tail == n - 50 * full
           best == Best(p, tail)
           group == [size |-> 50, capacity |-> 50]
           groups == [i \in 1 .. full |-> group]
           plan == PlanFetches(p, n)
<1>1. full \in Nat /\ tail \in 0 .. 50 /\ 50 * full + tail = n
  BY GroupsLeave
<1>2. Planned(p, tail, best)
  BY <1>1, BestIsPlanned
<1>3. plan.cost = full * Options(p)[1].price + best.cost /\ plan.calls = groups \o best.calls
  BY DEF PlanFetches
<1>4. Options(p)[1].price = GroupPrice(p)
  <2>1. \A c, d \in Nat : Option(c, d).price = d
    BY DEF Option
  <2>2. CASE p = "statistics"
    BY <2>1, <2>2 DEF Options, GroupPrice
  <2>3. CASE p = "batch50"
    BY <2>1, <2>3 DEF Options, GroupPrice
  <2>4. CASE p = "cost_aware"
    BY <2>1, <2>4 DEF Options, GroupPrice
  <2> QED
    BY <2>2, <2>3, <2>4 DEF Purposes
<1> HIDE DEF full, tail, best, plan
<1>5. groups \in Seq(FetchCall) /\ Len(groups) = full /\ DOMAIN groups = 1 .. full
      /\ \A i \in 1 .. full : groups[i] = group
  <2>1. group \in FetchCall
    BY DEF FetchCall
  <2> QED
    BY <1>1, <2>1
<1>6. best.calls \in Seq(FetchCall) /\ best.cost = TailCost(p, tail)
      /\ Len(best.calls) = TailCalls(p, tail) /\ Covers(best.calls, tail)
  BY <1>2 DEF Planned, FetchPlan
<1> HIDE DEF groups
<1>7. SumFunction(Sizes(groups)) = 50 * full
  <2> DEFINE g == Sizes(groups)
  <2>1. DOMAIN g = 1 .. full /\ \A i \in 1 .. full : g[i] = 50
    BY <1>5 DEF Sizes
  <2> HIDE DEF g
  <2>2. SumFunctionOnSet(g, 1 .. full) = 50 * full
    BY <1>1, <2>1, SumOfEqual
  <2>3. SumFunction(g) = 50 * full
    BY <2>1, <2>2 DEF SumFunction
  <2> QED
    BY <2>3 DEF g
<1>8. SumFunction(Sizes(plan.calls)) = n
  <2>1. SumFunction(Sizes(plan.calls)) = SumFunction(Sizes(groups)) + SumFunction(Sizes(best.calls))
    BY <1>3, <1>5, <1>6, SizesOfBoth
  <2> QED
    BY <1>1, <1>6, <1>7, <2>1 DEF Covers
<1>9. Len(plan.calls) = full + TailCalls(p, tail)
  <2> DEFINE t == best.calls
  <2>1. t \in Seq(FetchCall) /\ plan.calls = groups \o t
    BY <1>3, <1>6
  <2> HIDE DEF t
  <2>2. Len(groups \o t) = Len(groups) + Len(t)
    <3>1. groups \in Seq(FetchCall) /\ t \in Seq(FetchCall)
      BY <1>5, <2>1
    <3> QED
      BY <3>1
  <2> QED
    BY <1>5, <1>6, <2>1, <2>2 DEF t
<1>10. \A i \in DOMAIN plan.calls : plan.calls[i].size \in 1 .. plan.calls[i].capacity
  <2> DEFINE t == best.calls
  <2>1. t \in Seq(FetchCall) /\ \A i \in DOMAIN t : t[i].size \in 1 .. t[i].capacity
    BY <1>6 DEF Covers
  <2>2. plan.calls = groups \o t
    BY <1>3
  <2> HIDE DEF t
  <2> SUFFICES ASSUME NEW i \in DOMAIN plan.calls
               PROVE  plan.calls[i].size \in 1 .. plan.calls[i].capacity
    OBVIOUS
  <2>3. \/ i \in 1 .. full /\ plan.calls[i] = groups[i]
        \/ \E j \in DOMAIN t : plan.calls[i] = t[j]
    <3>1. DOMAIN (groups \o t) = 1 .. full + Len(t) /\ DOMAIN t = 1 .. Len(t) /\ Len(t) \in Nat
      BY <1>1, <1>5, <2>1
    <3>2. i \in 1 .. full + Len(t)
      BY <2>2, <3>1
    <3>3. CASE i <= full
      BY <1>1, <1>5, <2>1, <2>2, <3>1, <3>2, <3>3
    <3>4. CASE i > full
      <4>1. i - full \in DOMAIN t
        BY <1>1, <3>1, <3>2, <3>4
      <4>2. (groups \o t)[i] = t[i - full]
        BY <1>1, <1>5, <2>1, <3>1, <3>2, <3>4
      <4> QED
        BY <2>2, <4>1, <4>2
    <3> QED
      BY <1>1, <3>1, <3>2, <3>3, <3>4
  <2>4. group.size \in 1 .. group.capacity
    OBVIOUS
  <2> QED
    BY <1>5, <2>1, <2>3, <2>4
<1>11. plan.cost = GroupPrice(p) * full + TailCost(p, tail)
  <2>1. full * GroupPrice(p) = GroupPrice(p) * full
    BY <1>1 DEF GroupPrice
  <2> QED
    BY <1>3, <1>4, <1>6, <2>1
<1> QED
  BY <1>8, <1>9, <1>10, <1>11 DEF Covers, full, tail, plan

-----------------------------------------------------------------------------
(* Any other choice of requests.                                           *)

LEMMA SumOfOne ==
  ASSUME NEW f, DOMAIN f = 1 .. 1, f[1] \in Int
  PROVE  SumFunction(f) = f[1]
<1>1. (1 .. 0) = {} /\ (1 .. 1) = (1 .. 0 + 1) /\ \A i \in 1 .. 0 + 1 : f[i] \in Int
  OBVIOUS
<1>2. SumFunctionOnSet(f, 1 .. 0 + 1) = SumFunctionOnSet(f, 1 .. 0) + f[0 + 1]
  BY <1>1, SumToNext
<1>3. SumFunctionOnSet(f, 1 .. 0) = 0
  BY <1>1, SumOfNone
<1> QED
  BY <1>1, <1>2, <1>3 DEF SumFunction

LEMMA SumOfTwo ==
  ASSUME NEW f, DOMAIN f = 1 .. 2, f[1] \in Int, f[2] \in Int
  PROVE  SumFunction(f) = f[1] + f[2]
<1>1. (1 .. 0) = {} /\ (1 .. 2) = (1 .. 1 + 1) /\ 0 + 1 = 1 /\ 1 + 1 = 2
      /\ (\A i \in 1 .. 0 + 1 : f[i] \in Int) /\ \A i \in 1 .. 1 + 1 : f[i] \in Int
  OBVIOUS
<1>2. SumFunctionOnSet(f, 1 .. 0 + 1) = SumFunctionOnSet(f, 1 .. 0) + f[0 + 1]
  BY <1>1, SumToNext
<1>3. SumFunctionOnSet(f, 1 .. 1 + 1) = SumFunctionOnSet(f, 1 .. 1) + f[1 + 1]
  BY <1>1, SumToNext
<1>4. SumFunctionOnSet(f, 1 .. 0) = 0
  BY <1>1, SumOfNone
<1> QED
  BY <1>1, <1>2, <1>3, <1>4 DEF SumFunction

StillNeeded(left, c) == IF left > 0 THEN CeilDiv(left, c) ELSE 0

Batch50Choice(n) ==
  [cost |-> 50 * StillNeeded(n, 50), calls |-> StillNeeded(n, 50)]

StatisticsChoice(n, x) ==
  [cost |-> StillNeeded(n - 50 * x, 2) + 25 * x, calls |-> StillNeeded(n - 50 * x, 2) + x]

CostAwareChoice(n, x, y) ==
  [cost |-> StillNeeded(n - (50 * x + 10 * y), 1) + (50 * x + 10 * y),
   calls |-> StillNeeded(n - (50 * x + 10 * y), 1) + (x + y)]

LEMMA ChoiceOfBatch50 ==
  ASSUME NEW n \in Nat, NEW b \in [1 .. Len(Options("batch50")) - 1 -> Nat]
  PROVE  Choice("batch50", n, b) = Batch50Choice(n)
<1> DEFINE o == Options("batch50")
<1>1. o = <<[capacity |-> 50, price |-> 50]>>
  BY DEF Options, Option
<1>2. Len(o) = 1 /\ o[1].capacity = 50 /\ o[1].price = 50
  BY <1>1
<1> HIDE DEF o
<1>3. (1 .. 1 - 1) = {}
  OBVIOUS
<1>4. \A f : DOMAIN f = 1 .. 1 - 1 => SumFunction(f) = 0
  BY <1>3, SumOfNone DEF SumFunction
<1> DEFINE C == [i \in 1 .. 1 - 1 |-> b[i] * o[i].capacity]
           V == [i \in 1 .. 1 - 1 |-> b[i] * o[i].price]
<1>5. SumFunction(C) = 0 /\ SumFunction(V) = 0 /\ SumFunction(b) = 0
  <2>1. DOMAIN C = 1 .. 1 - 1 /\ DOMAIN V = 1 .. 1 - 1 /\ DOMAIN b = 1 .. 1 - 1
    BY <1>2 DEF o
  <2> HIDE DEF C, V
  <2> QED
    BY <1>4, <2>1
<1> DEFINE rest == StillNeeded(n - SumFunction(C), o[1].capacity)
<1>6. Choice("batch50", n, b) = [cost |-> rest * o[1].price + SumFunction(V),
                                 calls |-> rest + SumFunction(b)]
  BY <1>2 DEF Choice, StillNeeded, o
<1> HIDE DEF C, V
<1>7. rest = StillNeeded(n, 50) /\ StillNeeded(n, 50) \in Nat
  BY <1>2, <1>5 DEF StillNeeded, CeilDiv
<1> HIDE DEF rest
<1> QED
  BY <1>2, <1>5, <1>6, <1>7 DEF Batch50Choice

LEMMA ChoiceOfStatistics ==
  ASSUME NEW n \in Nat, NEW b \in [1 .. Len(Options("statistics")) - 1 -> Nat]
  PROVE  b[1] \in Nat /\ Choice("statistics", n, b) = StatisticsChoice(n, b[1])
<1> DEFINE o == Options("statistics")
<1>1. o = <<[capacity |-> 50, price |-> 25], [capacity |-> 2, price |-> 1]>>
  BY DEF Options, Option
<1>2. Len(o) = 2 /\ o[1].capacity = 50 /\ o[1].price = 25 /\ o[2].capacity = 2 /\ o[2].price = 1
  BY <1>1
<1> DEFINE C == [i \in 1 .. 2 - 1 |-> b[i] * o[i].capacity]
           V == [i \in 1 .. 2 - 1 |-> b[i] * o[i].price]
<1>3. (1 .. 2 - 1) = 1 .. 1 /\ b \in [1 .. 1 -> Nat] /\ b[1] \in Nat
  <2>1. b \in [1 .. Len(o) - 1 -> Nat]
    OBVIOUS
  <2> HIDE DEF o
  <2>2. (1 .. Len(o) - 1) = 1 .. 1
    BY <1>2
  <2>3. b \in [1 .. 1 -> Nat]
    BY <2>1, <2>2
  <2>4. b[1] \in Nat
    <3>1. 1 \in 1 .. 1
      OBVIOUS
    <3> HIDE DEF o
    <3> QED
      BY <2>3, <3>1, Zenon
  <2>5. (1 .. 2 - 1) = 1 .. 1
    OBVIOUS
  <2> QED
    BY <2>3, <2>4, <2>5
<1> HIDE DEF o
<1>4. SumFunction(C) = 50 * b[1] /\ SumFunction(V) = 25 * b[1] /\ SumFunction(b) = b[1]
  <2>1. DOMAIN C = 1 .. 1 /\ DOMAIN V = 1 .. 1 /\ DOMAIN b = 1 .. 1
    BY <1>3
  <2>2. C[1] = 50 * b[1] /\ V[1] = 25 * b[1]
    BY <1>2, <1>3
  <2> HIDE DEF C, V
  <2>3. C[1] \in Int /\ V[1] \in Int /\ b[1] \in Int
    BY <1>3, <2>2
  <2> QED
    BY <2>1, <2>2, <2>3, SumOfOne
<1> DEFINE rest == StillNeeded(n - SumFunction(C), o[2].capacity)
<1>6. Choice("statistics", n, b) = [cost |-> rest * o[2].price + SumFunction(V),
                                    calls |-> rest + SumFunction(b)]
  BY <1>2 DEF Choice, StillNeeded, o
<1> HIDE DEF C, V
<1>7. rest = StillNeeded(n - 50 * b[1], 2) /\ rest \in Nat
  BY <1>2, <1>3, <1>4 DEF StillNeeded, CeilDiv
<1> HIDE DEF rest
<1> QED
  BY <1>2, <1>3, <1>4, <1>6, <1>7 DEF StatisticsChoice

LEMMA ChoiceOfCostAware ==
  ASSUME NEW n \in Nat, NEW b \in [1 .. Len(Options("cost_aware")) - 1 -> Nat]
  PROVE  /\ b[1] \in Nat /\ b[2] \in Nat
         /\ Choice("cost_aware", n, b) = CostAwareChoice(n, b[1], b[2])
<1> DEFINE o == Options("cost_aware")
<1>1. o = <<[capacity |-> 50, price |-> 50], [capacity |-> 10, price |-> 10],
            [capacity |-> 1, price |-> 1]>>
  BY DEF Options, Option
<1>2. Len(o) = 3 /\ o[1].capacity = 50 /\ o[1].price = 50 /\ o[2].capacity = 10 /\ o[2].price = 10
      /\ o[3].capacity = 1 /\ o[3].price = 1
  BY <1>1
<1> DEFINE C == [i \in 1 .. 3 - 1 |-> b[i] * o[i].capacity]
           V == [i \in 1 .. 3 - 1 |-> b[i] * o[i].price]
<1>3. (1 .. 3 - 1) = 1 .. 2 /\ b \in [1 .. 2 -> Nat] /\ b[1] \in Nat /\ b[2] \in Nat
  <2>1. b \in [1 .. Len(o) - 1 -> Nat]
    OBVIOUS
  <2> HIDE DEF o
  <2>2. (1 .. Len(o) - 1) = 1 .. 2
    BY <1>2
  <2>3. b \in [1 .. 2 -> Nat]
    BY <2>1, <2>2
  <2>4. b[1] \in Nat /\ b[2] \in Nat
    <3>1. 1 \in 1 .. 2 /\ 2 \in 1 .. 2
      OBVIOUS
    <3> HIDE DEF o
    <3> QED
      BY <2>3, <3>1, Zenon
  <2>5. (1 .. 3 - 1) = 1 .. 2
    OBVIOUS
  <2> QED
    BY <2>3, <2>4, <2>5
<1> HIDE DEF o
<1>4. /\ SumFunction(C) = 50 * b[1] + 10 * b[2]
      /\ SumFunction(V) = 50 * b[1] + 10 * b[2] /\ SumFunction(b) = b[1] + b[2]
  <2>1. DOMAIN C = 1 .. 2 /\ DOMAIN V = 1 .. 2 /\ DOMAIN b = 1 .. 2
    BY <1>3
  <2>2. C[1] = 50 * b[1] /\ V[1] = 50 * b[1] /\ C[2] = 10 * b[2] /\ V[2] = 10 * b[2]
    BY <1>2, <1>3
  <2> HIDE DEF C, V
  <2>3. C[1] \in Int /\ V[1] \in Int /\ b[1] \in Int /\ C[2] \in Int /\ V[2] \in Int /\ b[2] \in Int
    BY <1>3, <2>2
  <2> QED
    BY <2>1, <2>2, <2>3, SumOfTwo
<1> DEFINE rest == StillNeeded(n - SumFunction(C), o[3].capacity)
<1>6. Choice("cost_aware", n, b) = [cost |-> rest * o[3].price + SumFunction(V),
                                    calls |-> rest + SumFunction(b)]
  BY <1>2 DEF Choice, StillNeeded, o
<1> HIDE DEF C, V
<1>7. rest = StillNeeded(n - (50 * b[1] + 10 * b[2]), 1) /\ rest \in Nat
  <2> DEFINE left == n - (50 * b[1] + 10 * b[2])
  <2>1. left \in Int
    BY <1>3
  <2>2. rest = StillNeeded(left, 1)
    BY <1>2, <1>4
  <2> HIDE DEF left, rest
  <2> QED
    BY <2>1, <2>2 DEF StillNeeded, CeilDiv, left
<1> HIDE DEF rest
<1> QED
  BY <1>2, <1>3, <1>4, <1>6, <1>7 DEF CostAwareChoice

(* A plan of this cost and so many calls is as good as the choice.         *)
AsGood(cost, calls, other) ==
  cost < other.cost \/ (cost = other.cost /\ calls <= other.calls)

LEMMA Batch50IsBest ==
  ASSUME NEW n \in Nat, NEW full \in Nat, NEW tail \in 0 .. 50, n = 50 * full + tail,
         n > 0 => tail > 0
  PROVE  AsGood(50 * full + TailCost("batch50", tail), full + TailCalls("batch50", tail),
                Batch50Choice(n))
<1>1. CASE n = 0
  <2>1. full = 0 /\ tail = 0
    BY <1>1
  <2> QED
    BY <1>1, <2>1 DEF TailCost, TailCalls, Batch50Choice, StillNeeded, AsGood
<1>2. CASE n > 0
  <2>1. CeilDiv(n, 50) = full + 1
    BY <1>2 DEF CeilDiv
  <2>2. TailCost("batch50", tail) = 50 /\ TailCalls("batch50", tail) = 1
    BY <1>2 DEF TailCost, TailCalls
  <2>3. StillNeeded(n, 50) = full + 1
    BY <1>2, <2>1 DEF StillNeeded
  <2> QED
    BY <2>2, <2>3 DEF Batch50Choice, AsGood
<1> QED
  BY <1>1, <1>2

LEMMA StatisticsIsBest ==
  ASSUME NEW n \in Nat, NEW full \in Nat, NEW tail \in 0 .. 50, n = 50 * full + tail,
         n > 0 => tail > 0, NEW x \in Nat
  PROVE  AsGood(25 * full + TailCost("statistics", tail), full + TailCalls("statistics", tail),
                StatisticsChoice(n, x))
<1> DEFINE half == (tail + 1) \div 2
           calls == TailCalls("statistics", tail)
           rest == StillNeeded(n - 50 * x, 2)
<1>1. half \in Nat /\ tail <= 2 * half /\ 2 * half <= tail + 1
  OBVIOUS
<1>2. TailCost("statistics", tail) = half
  BY DEF TailCost
<1>3. /\ calls \in Nat
      /\ tail >= 49 => calls = 1
      /\ tail < 49 => calls = half
  BY <1>1 DEF TailCalls
<1>4. rest \in Nat /\ n - 50 * x <= 2 * rest /\ (n - 50 * x > 0 => 2 * rest <= n - 50 * x + 1)
      /\ (n - 50 * x <= 0 => rest = 0)
  BY DEF StillNeeded, CeilDiv
<1> HIDE DEF half, calls, rest
<1>5. 25 * full + half < rest + 25 * x
      \/ (25 * full + half = rest + 25 * x /\ full + calls <= rest + x)
  <2>1. CASE n - 50 * x > 0
    <3>1. x <= full
      BY <2>1
    <3>2. 25 * full + half = rest + 25 * x
      BY <1>1, <1>4, <2>1
    <3>3. full + calls <= rest + x
      <4>1. calls <= half
        BY <1>1, <1>3
      <4>2. calls \in Nat /\ half \in Nat /\ rest \in Nat
        BY <1>1, <1>3, <1>4
      <4>3. rest = 25 * full + half - 25 * x
        BY <3>2, <4>2
      <4> QED
        BY <3>1, <4>1, <4>2, <4>3
    <3> QED
      BY <3>2, <3>3
  <2>2. CASE n - 50 * x <= 0
    <3>1. rest = 0 /\ n <= 50 * x
      BY <1>4, <2>2
    <3>2. 25 * full + half <= 25 * x
      BY <1>1, <3>1
    <3>3. 25 * full + half = 25 * x => full + calls <= x
      BY <1>1, <1>3
    <3> QED
      BY <1>1, <3>1, <3>2, <3>3
  <2> QED
    BY <2>1, <2>2
<1> QED
  BY <1>2, <1>5 DEF AsGood, StatisticsChoice, calls, rest

LEMMA CostAwareIsBest ==
  ASSUME NEW n \in Nat, NEW full \in Nat, NEW tail \in 0 .. 50, n = 50 * full + tail,
         n > 0 => tail > 0, NEW x \in Nat, NEW y \in Nat
  PROVE  AsGood(50 * full + TailCost("cost_aware", tail), full + TailCalls("cost_aware", tail),
                CostAwareChoice(n, x, y))
<1> DEFINE calls == TailCalls("cost_aware", tail)
           most == 50 * x + 10 * y
           rest == StillNeeded(n - most, 1)
<1>1. TailCost("cost_aware", tail) = tail
  BY DEF TailCost
<1>2. most \in Nat /\ rest = IF n > most THEN n - most ELSE 0
  BY DEF StillNeeded, CeilDiv
<1>3. PICK tens \in Nat, ones \in 0 .. 9 :
        tail = 10 * tens + ones /\ calls = IF tail = 50 THEN 1 ELSE tens + ones
  <2>1. tail \div 10 \in Nat /\ tail % 10 \in 0 .. 9 /\ tail = 10 * (tail \div 10) + (tail % 10)
    OBVIOUS
  <2>2. calls = IF tail = 50 THEN 1 ELSE (tail \div 10) + (tail % 10)
    BY DEF TailCalls
  <2> QED
    BY <2>1, <2>2
<1>4. calls \in Nat
  BY <1>3
<1> HIDE DEF calls, rest
<1>5. n < rest + most \/ (n = rest + most /\ full + calls <= rest + (x + y))
  <2>1. CASE n < most
    BY <1>2, <2>1
  <2>2. CASE n >= most
    <3>1. n = rest + most /\ rest = n - most
      BY <1>2, <2>2
    <3>2. full + calls <= n - 49 * x - 9 * y
      <4>1. CASE tail = 50
        <5>1. calls = 1 /\ 5 * x + y <= 5 * full + 5 /\ n = 50 * full + 50
          BY <1>3, <2>2, <4>1
        <5>2. x <= full + 1
          BY <5>1
        <5> QED
          BY <5>1, <5>2
      <4>2. CASE tail # 50
        <5>1. tens <= 4 /\ calls = tens + ones /\ n = 50 * full + 10 * tens + ones
          BY <1>3, <4>2
        <5>2. 5 * x + y <= 5 * full + tens
          BY <2>2, <5>1
        <5>3. x <= full
          BY <5>1, <5>2
        <5> QED
          BY <5>1, <5>2, <5>3
      <4> QED
        BY <4>1, <4>2
    <3> QED
      BY <3>1, <3>2
  <2> QED
    BY <1>2, <2>1, <2>2
<1> QED
  BY <1>1, <1>5 DEF AsGood, CostAwareChoice, calls, rest

(* No other requests for as many videos cost less, nor as little in fewer  *)
(* calls, however many of each endpoint are taken: neither the planning by *)
(* the last fifty nor the groups before it lose anything (the comment in   *)
(* plan_video_fetches).                                                    *)
THEOREM NothingIsCheaper ==
  ASSUME NEW p \in Purposes, NEW n \in Nat, NEW b \in [1 .. Len(Options(p)) - 1 -> Nat]
  PROVE  LET plan == PlanFetches(p, n) IN
         \/ plan.cost < Choice(p, n, b).cost
         \/ plan.cost = Choice(p, n, b).cost /\ Len(plan.calls) <= Choice(p, n, b).calls
<1> DEFINE plan == PlanFetches(p, n)
           full == Groups(n)
           tail == n - 50 * full
<1>1. plan.cost = GroupPrice(p) * full + TailCost(p, tail)
      /\ Len(plan.calls) = full + TailCalls(p, tail)
  BY PlanIs
<1>2. full \in Nat /\ tail \in 0 .. 50 /\ n = 50 * full + tail /\ (n > 0 => tail > 0)
  <2>1. full \in Nat /\ tail \in 0 .. 50 /\ (n > 0 => tail \in 1 .. 50)
    BY GroupsLeave
  <2> HIDE DEF full
  <2> QED
    BY <2>1
<1> HIDE DEF plan, full, tail
<1>3. AsGood(plan.cost, Len(plan.calls), Choice(p, n, b))
  <2>1. CASE p = "statistics"
    <3>1. b[1] \in Nat /\ Choice(p, n, b) = StatisticsChoice(n, b[1])
      BY <2>1, ChoiceOfStatistics
    <3>2. GroupPrice(p) = 25
      BY <2>1 DEF GroupPrice
    <3> QED
      BY <1>1, <1>2, <2>1, <3>1, <3>2, StatisticsIsBest
  <2>2. CASE p = "batch50"
    <3>1. Choice(p, n, b) = Batch50Choice(n) /\ GroupPrice(p) = 50
      BY <2>2, ChoiceOfBatch50 DEF GroupPrice
    <3> QED
      BY <1>1, <1>2, <2>2, <3>1, Batch50IsBest
  <2>3. CASE p = "cost_aware"
    <3>1. b[1] \in Nat /\ b[2] \in Nat /\ Choice(p, n, b) = CostAwareChoice(n, b[1], b[2])
      BY <2>3, ChoiceOfCostAware
    <3>2. GroupPrice(p) = 50
      BY <2>3 DEF GroupPrice
    <3>3. AsGood(50 * full + TailCost("cost_aware", tail), full + TailCalls("cost_aware", tail),
                 CostAwareChoice(n, b[1], b[2]))
      BY <1>2, <3>1, CostAwareIsBest
    <3> QED
      BY <1>1, <2>3, <3>1, <3>2, <3>3
  <2> QED
    BY <2>1, <2>2, <2>3 DEF Purposes
<1> QED
  BY <1>3 DEF AsGood, plan

(* For every number of videos the plan asks for each of them once, in      *)
(* requests that fit, at the least cost and in no more calls than another  *)
(* of that cost; and a golden run's videos fit its call limit              *)
(* (plan_video_fetches, _call_limit_for_strategy).                         *)
THEOREM PlansAreCheapest == PlanSpec => []CheapestPlan
<1> DEFINE Inv == asked \in Nat /\ purpose \in Purposes
<1>1. PlanInit => Inv
  BY DEF PlanInit
<1>2. Inv /\ [PlanNext]_planVars => Inv'
  BY DEF PlanNext, AskOneMore, planVars
<1>3. Inv => CheapestPlan
  <2> SUFFICES ASSUME Inv PROVE CheapestPlan
    OBVIOUS
  <2> DEFINE plan == PlanFetches(purpose, asked)
  <2>1. Covers(plan.calls, asked)
    BY PlanIs
  <2>2. ASSUME NEW other \in Alternatives(purpose, asked)
        PROVE  \/ plan.cost < other.cost
               \/ plan.cost = other.cost /\ Len(plan.calls) <= other.calls
    <3>1. PICK b \in [1 .. Len(Options(purpose)) - 1 -> 0 .. CeilDiv(asked, 10)] :
            other = Choice(purpose, asked, b)
      BY DEF Alternatives
    <3>2. b \in [1 .. Len(Options(purpose)) - 1 -> Nat]
      OBVIOUS
    <3> QED
      BY <3>1, <3>2, NothingIsCheaper
  <2>3. asked <= MaxItems /\ purpose # "statistics" => 1 + Len(plan.calls) <= CallLimit(purpose)
    <3> SUFFICES ASSUME asked <= 5, purpose # "statistics"
                 PROVE  1 + Len(plan.calls) <= CallLimit(purpose)
      BY DEF MaxItems
    <3>1. Groups(asked) = 0
      BY DEF Groups
    <3>2. Len(plan.calls) = TailCalls(purpose, asked)
      <4> DEFINE full == Groups(asked)
      <4>1. Len(plan.calls) = full + TailCalls(purpose, asked - 50 * full)
        BY PlanIs
      <4>2. full = 0 /\ asked - 50 * 0 = asked
        BY <3>1
      <4>3. TailCalls(purpose, asked) \in Nat
        BY DEF TailCalls
      <4> HIDE DEF full, plan
      <4> QED
        BY <4>1, <4>2, <4>3
    <3>3. CASE purpose = "batch50"
      BY <3>2, <3>3 DEF TailCalls, CallLimit
    <3>4. CASE purpose = "cost_aware"
      <4>1. TailCalls(purpose, asked) <= 5
        BY <3>4 DEF TailCalls
      <4> QED
        BY <3>2, <3>4, <4>1 DEF CallLimit, MaxItems, TailCalls
    <3> QED
      BY <3>3, <3>4 DEF Purposes
  <2> HIDE DEF plan
  <2>4. SumFunction(Sizes(plan.calls)) = asked
        /\ \A i \in DOMAIN plan.calls : plan.calls[i].size \in 1 .. plan.calls[i].capacity
    BY <2>1 DEF Covers
  <2> QED
    BY <2>2, <2>3, <2>4 DEF CheapestPlan, plan
<1> QED
  BY <1>1, <1>2, <1>3, PTL DEF PlanSpec
=============================================================================
