---------------------------- MODULE L3Promotion ----------------------------
(***************************************************************************)
(* The L2 -> L3 promotion gate: L3PromotionGate of                         *)
(* src/src/douyin_research/l2/promotion.py with its tables in db/schema.sql *)
(*                                                                         *)
(* One call of promote() is one transaction, but not one atomic step: it   *)
(* locks the quota row of its day and key, reads candidates and plans, and *)
(* writes later. Calls under another key hold another row, so that what    *)
(* was read may be stale when it is written; the partial unique index on   *)
(* the selected video of a day is what stops them. PlanBatch and           *)
(* CommitBatch are these two halves for any source of candidates.          *)
(***************************************************************************)
EXTENDS Integers, FiniteSetsExt, Functions

CONSTANTS
  SourceVideos,      \* source_video ids; their order is that of str(video_id)
  Days,        \* quota dates
  Keys,        \* quota keys
  Scores,      \* values of a priority score
  QuotaSizes,  \* values of daily_research_quota.max_items
  NoScore,     \* no priority score yet
  NoQuota      \* no quota row for the day and key

ASSUME VideoAssumption == SourceVideos \subseteq Nat /\ IsFiniteSet(SourceVideos)
ASSUME ScoreAssumption == Scores \subseteq Nat /\ NoScore \notin Nat
QuotaRows == [max : Nat, used : Nat]
ASSUME QuotaAssumption == QuotaSizes \subseteq Nat /\ NoQuota \notin QuotaRows

VARIABLES
  level,    \* source_video.research_level
  score,    \* the latest priority score of a video
  quota,    \* daily_research_quota by day and key
  held,     \* quota rows locked FOR UPDATE by an open promotion
  batches   \* research_promotion_batch with its decisions

promotionVars == <<level, score, quota, held, batches>>

(* A candidate as _load_candidates returns it.                             *)
Candidates(vs, d) ==
  [v \in vs |->
     [level |-> level[v], score |-> score[v],
      today |-> \E b \in batches : b.day = d /\ v \in b.selected]]

(* ------------------------- the decision, _decide ----------------------- *)

EligibleIn(C, min) ==
  {v \in DOMAIN C : /\ ~C[v].today
                    /\ C[v].level >= 2
                    /\ C[v].score # NoScore
                    /\ C[v].score >= min}

(* Position in the order by falling score, then by id.                     *)
RankIn(C, min, v) ==
  Cardinality({u \in EligibleIn(C, min) :
                 \/ C[u].score > C[v].score
                 \/ C[u].score = C[v].score /\ u <= v})

(* The videos whose decision is "selected".                                *)
Decide(C, topN, min, remaining) ==
  {v \in EligibleIn(C, min) : RankIn(C, min, v) <= Min({topN, remaining})}

(* candidate_fingerprint leaves out what was selected today.               *)
Fingerprint(C) == [v \in DOMAIN C |-> <<C[v].level, C[v].score>>]

Remaining(d, k) ==
  IF quota[d][k].used <= quota[d][k].max
    THEN quota[d][k].max - quota[d][k].used ELSE 0

(* -------------------------- operations --------------------------------- *)

PromotionInit ==
  /\ level \in [SourceVideos -> {1, 2}]
  /\ score \in [SourceVideos -> Scores \cup {NoScore}]
  /\ quota = [d \in Days |-> [k \in Keys |-> NoQuota]]
  /\ held = {}
  /\ batches = {}

(* configure_daily_quota: an upsert; the CHECK used_items <= max_items     *)
(* refuses a maximum below what is used.                                   *)
ConfigureQuota(d, k, m) ==
  /\ <<d, k>> \notin held
  /\ quota[d][k] # NoQuota => quota[d][k].used <= m
  /\ quota' = [quota EXCEPT ![d][k] =
                 [max |-> m, used |-> IF @ = NoQuota THEN 0 ELSE @.used]]
  /\ UNCHANGED <<level, score, held, batches>>

(* The batch an earlier call left for the same candidates, if any.         *)
Replayed(src, d, k, topN, min, C) ==
  {b \in batches : /\ b.source = src /\ b.day = d /\ b.key = k
                   /\ b.topN = topN /\ b.min = min
                   /\ b.candidates = Fingerprint(C)}

BatchOf(src, d, k, topN, min, C) ==
  [source |-> src, day |-> d, key |-> k, topN |-> topN, min |-> min,
   candidates |-> Fingerprint(C),
   selected |-> Decide(C, topN, min, Remaining(d, k))]

(* The first half: lock the quota row, read, decide.                       *)
LockQuota(d, k) ==
  /\ quota[d][k] # NoQuota
  /\ <<d, k>> \notin held
  /\ held' = held \cup {<<d, k>>}

(* uq_promotion_selected_video_day: a video selected by another batch of   *)
(* the day that has been committed since makes the whole transaction fail. *)
(* Mutant: without the partial unique index. *)
NoConflict(batch) == TRUE

Insertable(batch) ==
  \A b \in batches : b.day = batch.day => b.selected \cap batch.selected = {}

(* Mutant: the quota is not charged. *)
CommitUncharged(batch) ==
  /\ Insertable(batch)
  /\ batches' = batches \cup {batch}
  /\ held' = held \ {<<batch.day, batch.key>>}
  /\ UNCHANGED quota

(* The second half: store batch and decisions and charge the quota.        *)
CommitBatch(batch) ==
  /\ Insertable(batch)
  /\ batches' = batches \cup {batch}
  /\ quota' = [quota EXCEPT ![batch.day][batch.key].used =
                 @ + Cardinality(batch.selected)]
  /\ held' = held \ {<<batch.day, batch.key>>}

(* The scorer stores a later priority score. Bound: scores only grow.      *)
Rescore(v, s) ==
  /\ score[v] = NoScore \/ (score[v] # NoScore /\ s > score[v])
  /\ score' = [score EXCEPT ![v] = s]
  /\ UNCHANGED <<level, quota, held, batches>>

(* --------------------------- properties -------------------------------- *)

(* However promotions interleave and replay, the quota of a day and key is *)
(* charged with exactly what its batches selected and never exceeded, and  *)
(* a video is selected once a day, though promotions under different keys  *)
(* do not see each other's uncommitted decisions.                          *)
QuotaKept ==
  /\ \A d \in Days, k \in Keys :
       quota[d][k] # NoQuota =>
         /\ quota[d][k].used <= quota[d][k].max
         /\ quota[d][k].used =
              SumFunctionOnSet([b \in batches |-> Cardinality(b.selected)],
                               {b \in batches : b.day = d /\ b.key = k})
  /\ \A b, c \in batches :
       b # c /\ b.day = c.day => b.selected \cap c.selected = {}
=============================================================================
