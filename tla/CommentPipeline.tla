-------------------------- MODULE CommentPipeline --------------------------
(***************************************************************************)
(* The comment -> L2 -> L3 batch: CommentPipeline.run of                   *)
(* src/src/douyin_research/l2/comment_pipeline.py, with the collector and  *)
(* evidence store it calls (l0l1/comments.py), the feature extractor       *)
(* (l2/comment_features.py), the gate it ends in (L3Promotion), the script *)
(* that starts it (collectors/process_comment_batch.py) and the manual     *)
(* collection that writes the same evidence.                               *)
(*                                                                         *)
(* A batch is a discovery run together with the settings that its          *)
(* fingerprint covers. One action is one transaction, or the one provider  *)
(* request that may be billed. A worker may die between any two of them,   *)
(* and a transaction may commit though its worker sees it fail. The lock   *)
(* of a discovery run lives in a session of its own that no worker looks   *)
(* at again: the session may drop and its worker goes on, so that two meet *)
(* at one video, or make two rows of what a fingerprint should make one.   *)
(***************************************************************************)
EXTENDS L3Promotion

CONSTANTS
  Batches,     \* source run and collection settings
  SourceOf,    \* the discovery run of a batch: it and the rule version lock
  VideosOf,    \* its L1 items that were scored
  KeyOf,       \* the quota key of the settings
  TopNs,       \* values of settings.top_n, which no fingerprint covers
  MinScore,    \* settings.min_score
  Workers,
  Responses,   \* comment pages that hold comments, by response fingerprint
  MaxLosses,   \* bound on the sessions lost under a discovery run's lock
  NoWorker, NoBatch

Empty == "empty"   \* a page without comments
NoComments == "none"

ASSUME BatchAssumption ==
  /\ VideosOf \in [Batches -> SUBSET SourceVideos]
  /\ KeyOf \in [Batches -> Keys]
  /\ TopNs \subseteq Nat \ {0}
  /\ NoWorker \notin Workers /\ IsFiniteSet(Workers)
  /\ MaxLosses \in Nat

(* Rows made at once for one fingerprint, in the order of started_at; a    *)
(* pipeline_run is a batch and one of them.                                *)
Rows == 1 .. MaxLosses + 1
Runs == Batches \X Rows

VARIABLES
  sourceLock, \* holder of the advisory lock of a discovery run
  losses,     \* history: sessions that lost that lock to a worker going on
  pc, call,   \* what a worker does next, and its run()'s arguments and locals
  runs,      \* status of a pipeline_run of a batch, "none" before it exists
  batchItems, \* its pipeline_run_item for a video
  evidence,  \* stored observations of a video's comments, by response
  snapshots, \* video_comment_feature_snapshot: video and evidence
  eligible,  \* comment_l2_eligibility runs: run and feature fingerprints
  requests   \* history: billable collector calls of a run for a video

lockVars == <<sourceLock, losses>>
pipelineVars ==
  <<lockVars, pc, call, runs, batchItems, evidence, snapshots, eligible, requests>>
vars == <<pipelineVars, promotionVars>>

Idle == [batch |-> NoBatch, row |-> 0, day |-> 0, topN |-> 0, todo |-> {}, ok |-> {},
         page |-> NoComments, read |-> {}, features |-> {}, source |-> <<>>, plan |-> <<>>]

NoBatchItem == [outcome |-> "none", collection |-> "none", extract |-> "none",
           features |-> {}]

SourceRuns == {SourceOf[b] : b \in Batches}

Init ==
  /\ PromotionInit
  /\ sourceLock = [s \in SourceRuns |-> NoWorker]
  /\ losses = [s \in SourceRuns |-> 0]
  /\ pc = [w \in Workers |-> "idle"]
  /\ call = [w \in Workers |-> Idle]
  /\ runs = [r \in Runs |-> "none"]
  /\ batchItems = [r \in Runs |-> [v \in VideosOf[r[1]] |-> NoBatchItem]]
  /\ evidence = [v \in SourceVideos |-> {}]
  /\ snapshots = {}
  /\ eligible = {}
  /\ requests = [r \in Runs |-> [v \in VideosOf[r[1]] |-> 0]]

Continue(w, step) == pc' = [pc EXCEPT ![w] = step]
Batch(w) == call[w].batch
Run(w) == <<Batch(w), call[w].row>>
(* Items are visited in the order of their video's id.                     *)
Current(w) == Min(call[w].todo)
Item(w) == batchItems[Run(w)][Current(w)]

(* ----------------------------- start ----------------------------------- *)

(* main: preflight creates today's quota row from the policy when there is *)
(* none and leaves an existing one alone; then run() waits for the lock.   *)
Start(w, b, d, n) ==
  /\ pc[w] = "idle"
  /\ call' = [call EXCEPT ![w] = [Idle EXCEPT !.batch = b, !.day = d, !.topN = n]]
  /\ \E m \in QuotaSizes :
       quota' = IF quota[d][KeyOf[b]] # NoQuota THEN quota
                ELSE [quota EXCEPT ![d][KeyOf[b]] = [max |-> m, used |-> 0]]
  /\ Continue(w, "lock")
  /\ UNCHANGED <<lockVars, runs, batchItems, evidence, snapshots, eligible, requests,
                 level, score, held, batches>>

Lock(w) ==
  /\ pc[w] = "lock"
  /\ sourceLock[SourceOf[Batch(w)]] = NoWorker
  /\ sourceLock' = [sourceLock EXCEPT ![SourceOf[Batch(w)]] = w]
  /\ Continue(w, "open")
  /\ UNCHANGED <<losses, call, runs, batchItems, evidence, snapshots, eligible, requests, promotionVars>>

(* The session that holds it drops. run() never learns of it.              *)
LoseLock(w) ==
  /\ pc[w] \notin {"idle", "lock"}
  /\ LET s == SourceOf[Batch(w)] IN
       /\ sourceLock[s] = w /\ losses[s] < MaxLosses
       /\ sourceLock' = [sourceLock EXCEPT ![s] = NoWorker]
       /\ losses' = [losses EXCEPT ![s] = @ + 1]
  /\ UNCHANGED <<pc, call, runs, batchItems, evidence, snapshots, eligible, requests, promotionVars>>

Made(b) == {n \in Rows : runs[<<b, n>>] # "none"}

(* _load_and_validate_source, and of _get_or_create_run the look: the      *)
(* latest run of the same source and settings fingerprint is taken up      *)
(* again, whatever its status.                                             *)
Open(w) ==
  /\ pc[w] = "open"
  /\ VideosOf[Batch(w)] # {}
  /\ IF Made(Batch(w)) = {} THEN Continue(w, "create") /\ UNCHANGED call
     ELSE /\ call' = [call EXCEPT ![w].todo = VideosOf[Batch(w)], ![w].row = Max(Made(Batch(w)))]
          /\ Continue(w, "visit")
  /\ UNCHANGED <<lockVars, runs, batchItems, evidence, snapshots, eligible, requests, promotionVars>>

(* Its insert, which nothing unique stops. Of two at once either may have  *)
(* begun first.                                                            *)
InsertRun(w) ==
  /\ pc[w] = "create"
  /\ \E n \in Rows \ Made(Batch(w)) :
       /\ runs' = [runs EXCEPT ![<<Batch(w), n>>] = "running"]
       /\ call' = [call EXCEPT ![w].todo = VideosOf[Batch(w)], ![w].row = n]
  /\ Continue(w, "visit")
  /\ UNCHANGED <<lockVars, batchItems, evidence, snapshots, eligible, requests, promotionVars>>

(* -------------------------- one video ---------------------------------- *)

Merge(changes, item) ==
  [f \in DOMAIN item |-> IF f \in DOMAIN changes THEN changes[f] ELSE item[f]]

(* Mutant: the stored metadata is replaced. *)
UpsertReplacing(w, changes) ==
  batchItems' = [batchItems EXCEPT ![Run(w)][Current(w)] = Merge(changes, NoBatchItem)]

(* _upsert_item merges the new metadata into the stored one, whatever that *)
(* has become since the worker read it.                                    *)
Upsert(w, changes) ==
  batchItems' = [batchItems EXCEPT ![Run(w)][Current(w)] = Merge(changes, @)]

(* The video is done with, and counts as a success or as blocked.          *)
Done(w, success) ==
  /\ call' = [call EXCEPT ![w].todo = @ \ {Current(w)}, ![w].page = NoComments, ![w].read = {},
                        ![w].features = {}, ![w].ok = IF success THEN @ \cup {Current(w)} ELSE @]
  /\ Continue(w, "visit")

(* _load_item is a transaction of its own: what _process_video does about  *)
(* what it read comes later.                                               *)
Look(w, step) ==
  /\ pc[w] = "visit" /\ call[w].todo # {}
  /\ Continue(w, step)
  /\ UNCHANGED <<lockVars, runs, batchItems, evidence, snapshots, eligible, requests, promotionVars>>

Finished(i) == i.outcome = "success" /\ i.extract = "success"

(* A finished item is reused as it is.                                     *)
Reuse(w) ==
  /\ pc[w] = "visit" /\ call[w].todo # {}
  /\ Finished(Item(w))
  /\ Done(w, TRUE)
  /\ UNCHANGED <<lockVars, runs, batchItems, evidence, snapshots, eligible, requests, promotionVars>>

(* A collection that was begun and never recorded may have been billed.    *)
Suspect(w) ==
  /\ Look(w, "reconcile")
  /\ ~Finished(Item(w)) /\ Item(w).collection = "collecting"
  /\ UNCHANGED call

Reconcile(w) ==
  /\ pc[w] = "reconcile"
  /\ Upsert(w, [outcome |-> "reconciliation_required"])
  /\ Done(w, FALSE)
  /\ UNCHANGED <<lockVars, runs, evidence, snapshots, eligible, requests, promotionVars>>

(* Only the extraction is repeated for an item that was collected. Its     *)
(* metadata as read is what the result will be stored with.                *)
SkipCollection(w) ==
  /\ Look(w, "extract")
  /\ ~Finished(Item(w)) /\ Item(w).collection = "success"
  /\ call' = [call EXCEPT ![w].read = Item(w).features]

Intend(w) ==
  /\ Look(w, "begin")
  /\ ~Finished(Item(w)) /\ Item(w).collection = "none"
  /\ UNCHANGED call

(* Mutant: the intent is not stored before the request. *)
BeginSilently(w) ==
  /\ pc[w] = "begin"
  /\ Continue(w, "fetch")
  /\ UNCHANGED <<lockVars, call, runs, batchItems, evidence, snapshots, eligible, requests, promotionVars>>

(* Otherwise "collecting" is committed before the provider is asked.       *)
Begin(w) ==
  /\ pc[w] = "begin"
  /\ Upsert(w, [outcome |-> "collecting", collection |-> "collecting"])
  /\ Continue(w, "fetch")
  /\ UNCHANGED <<lockVars, call, runs, evidence, snapshots, eligible, requests, promotionVars>>

(* CommentCollector.collect up to the response: the page or an exception,  *)
(* either of which may have been billed. A cached page and the collection's *)
(* own pipeline_run row are not told apart.                                *)
Fetch(w) ==
  /\ pc[w] = "fetch"
  /\ requests' = [requests EXCEPT ![Run(w)][Current(w)] = @ + 1]
  /\ \/ \E page \in Responses \cup {Empty} :
          /\ call' = [call EXCEPT ![w].page = page]
          /\ Continue(w, "ingest")
     \/ Continue(w, "unknown") /\ UNCHANGED call
  /\ UNCHANGED <<lockVars, runs, batchItems, evidence, snapshots, eligible, promotionVars>>

(* CommentEvidenceStore.ingest of the page, replay-safe by observation     *)
(* key, and the collection run's own finish, which may fail after it.      *)
IngestPage(w) ==
  /\ pc[w] = "ingest"
  /\ evidence' = [evidence EXCEPT ![Current(w)] = @ \cup ({call[w].page} \ {Empty})]
  /\ \E next \in {"collected", "unknown"} : Continue(w, next)
  /\ UNCHANGED <<lockVars, call, runs, batchItems, snapshots, eligible, requests, promotionVars>>

(* collect() raised: its outcome is unknown.                               *)
Unknown(w) ==
  /\ \/ pc[w] = "unknown"
     \/ pc[w] = "ingest"     \* ingest failed
  /\ Upsert(w, [outcome |-> "reconciliation_required"])
  /\ Done(w, FALSE)
  /\ UNCHANGED <<lockVars, runs, evidence, snapshots, eligible, requests, promotionVars>>

Collected(w) ==
  /\ pc[w] = "collected"
  /\ Upsert(w, [outcome |-> "collected", collection |-> "success"])
  /\ Continue(w, "extract")
  /\ UNCHANGED <<lockVars, call, runs, evidence, snapshots, eligible, requests, promotionVars>>

(* CommentFeatureExtractor.extract: all evidence of the video, whoever     *)
(* stored it; one snapshot for each distinct evidence; the level is raised *)
(* to 2 in the same transaction.                                           *)
Extract(w) ==
  /\ pc[w] = "extract"
  /\ evidence[Current(w)] # {}
  /\ snapshots' = snapshots \cup {<<Current(w), evidence[Current(w)]>>}
  /\ level' = [level EXCEPT ![Current(w)] = 2]
  /\ call' = [call EXCEPT ![w].features = evidence[Current(w)]]
  /\ Continue(w, "featured")
  /\ UNCHANGED <<lockVars, runs, batchItems, evidence, eligible, requests, score, quota, held, batches>>

(* It raises without comments, or when the database fails it. Stored with  *)
(* it is collection_metadata: that of the collection, or what was read,    *)
(* features of an earlier extraction included.                             *)
Unfeatured(w) ==
  /\ pc[w] = "extract"
  /\ Upsert(w, [outcome |-> "failed", collection |-> "success", extract |-> "failed",
                features |-> IF call[w].read = {} THEN Item(w).features ELSE call[w].read])
  /\ Done(w, FALSE)
  /\ UNCHANGED <<lockVars, runs, evidence, snapshots, eligible, requests, promotionVars>>

Featured(w) ==
  /\ pc[w] = "featured"
  /\ Upsert(w, [outcome |-> "success", collection |-> "success", extract |-> "success",
                features |-> call[w].features])
  /\ Done(w, TRUE)
  /\ UNCHANGED <<lockVars, runs, evidence, snapshots, eligible, requests, promotionVars>>

(* ------------------- eligibility, promotion, end ------------------------ *)

(* Mutant: every video of the batch is made eligible. *)
AllFeatures(w) == [v \in VideosOf[Batch(w)] |-> batchItems[Run(w)][v].features]

FeaturesOf(w) == [v \in call[w].ok |-> batchItems[Run(w)][v].features]

(* _get_or_create_eligibility_run: an immutable run for each set of        *)
(* successful videos and their feature fingerprints, all of them read back *)
(* or it raises. The latest such run is taken.                             *)
Alike(e) == {o \in eligible : o.run = e.run /\ o.features = e.features}

MakeEligible(w) ==
  /\ pc[w] = "visit" /\ call[w].todo = {} /\ call[w].ok # {}
  /\ \A v \in call[w].ok :
       Finished(batchItems[Run(w)][v]) /\ batchItems[Run(w)][v].features # {}
  /\ LET e == [run |-> Run(w), features |-> FeaturesOf(w), row |-> 0] IN
       IF Alike(e) = {}
         THEN call' = [call EXCEPT ![w].source = <<e>>] /\ Continue(w, "insert")
         ELSE /\ call' = [call EXCEPT ![w].source =
                   <<[e EXCEPT !.row = Max({o.row : o \in Alike(e)})]>>]
              /\ Continue(w, "promote")
  /\ UNCHANGED <<lockVars, runs, batchItems, evidence, snapshots, eligible, requests, promotionVars>>

Source(w) == call[w].source[1]

InsertEligible(w) ==
  /\ pc[w] = "insert"
  /\ \E n \in Rows \ {o.row : o \in Alike(Source(w))} :
       /\ call' = [call EXCEPT ![w].source = <<[Source(w) EXCEPT !.row = n]>>]
       /\ eligible' = eligible \cup {[Source(w) EXCEPT !.row = n]}
  /\ Continue(w, "promote")
  /\ UNCHANGED <<lockVars, runs, batchItems, evidence, snapshots, requests, promotionVars>>

(* promote(), first half: replay an earlier batch or plan a new one.       *)
PlanPromotion(w) ==
  /\ pc[w] = "promote"
  /\ LET d == call[w].day
         k == KeyOf[Batch(w)]
         C == Candidates(DOMAIN Source(w).features, d)
     IN /\ quota[d][k] # NoQuota
        /\ <<d, k>> \notin held
        /\ IF Replayed(Source(w), d, k, call[w].topN, MinScore, C) # {}
             THEN Continue(w, "finish") /\ UNCHANGED <<call, held>>
             ELSE /\ LockQuota(d, k)
                  /\ call' = [call EXCEPT ![w].plan =
                       <<BatchOf(Source(w), d, k, call[w].topN, MinScore, C)>>]
                  /\ Continue(w, "commit")
  /\ UNCHANGED <<lockVars, runs, batchItems, evidence, snapshots, eligible, requests,
                 level, score, quota, batches>>

Promote(w) ==
  /\ pc[w] = "commit"
  /\ CommitBatch(call[w].plan[1])
  /\ Continue(w, "finish")
  /\ UNCHANGED <<lockVars, call, runs, batchItems, evidence, snapshots, eligible, requests,
                 level, score>>

(* _finish_run; the lock is given back in either case, if it is still held. *)
Release(w) ==
  /\ sourceLock' = [s \in DOMAIN sourceLock |-> IF sourceLock[s] = w THEN NoWorker ELSE sourceLock[s]]
  /\ call' = [call EXCEPT ![w] = Idle]
  /\ Continue(w, "idle")
  /\ UNCHANGED losses

(* Mutant: the run succeeds when any video does. *)
StatusAny(w) == IF call[w].ok # {} THEN "success" ELSE "failed"

StatusOf(w) == IF call[w].ok = VideosOf[Batch(w)] THEN "success" ELSE "failed"

FinishBatch(w) ==
  /\ \/ pc[w] = "finish"
     \/ pc[w] = "visit" /\ call[w].todo = {} /\ call[w].ok = {}
  /\ runs' = [runs EXCEPT ![Run(w)] = StatusOf(w)]
  /\ Release(w)
  /\ UNCHANGED <<batchItems, evidence, snapshots, eligible, requests, promotionVars>>

(* -------------------------- failures ------------------------------------ *)

(* A transaction of the orchestration raises, possibly after it committed: *)
(* the handler marks the run failed if it still can.                       *)
Raise(w) ==
  /\ pc[w] \in {"visit", "reconcile", "begin", "fetch", "unknown", "collected", "extract",
                "featured", "insert", "promote", "commit", "finish"}
  /\ \E status \in {"failed", runs[Run(w)]} :
       runs' = [runs EXCEPT ![Run(w)] = status]
  /\ held' = IF pc[w] = "commit" THEN held \ {<<call[w].day, KeyOf[Batch(w)]>>} ELSE held
  /\ Release(w)
  /\ UNCHANGED <<batchItems, evidence, snapshots, eligible, requests,
                 level, score, quota, batches>>

(* The process dies: its transaction is rolled back, its session's lock    *)
(* released.                                                               *)
Crash(w) ==
  /\ pc[w] # "idle"
  /\ held' = IF pc[w] = "commit" THEN held \ {<<call[w].day, KeyOf[Batch(w)]>>} ELSE held
  /\ Release(w)
  /\ UNCHANGED <<runs, batchItems, evidence, snapshots, eligible, requests,
                 level, score, quota, batches>>

(* manual_comment_collection.py stores a page for a video on its own.      *)
CollectManually(v, page) ==
  /\ page \notin evidence[v]
  /\ evidence' = [evidence EXCEPT ![v] = @ \cup {page}]
  /\ UNCHANGED <<lockVars, pc, call, runs, batchItems, snapshots, eligible, requests, promotionVars>>

Work(w) ==
  \/ Lock(w) \/ Open(w) \/ InsertRun(w) \/ Reuse(w) \/ Suspect(w) \/ Reconcile(w)
  \/ SkipCollection(w) \/ Intend(w) \/ Begin(w) \/ Fetch(w) \/ IngestPage(w) \/ Unknown(w)
  \/ Collected(w) \/ Extract(w) \/ Unfeatured(w) \/ Featured(w)
  \/ MakeEligible(w) \/ InsertEligible(w) \/ PlanPromotion(w) \/ Promote(w) \/ FinishBatch(w)

Outside ==
  \/ \E d \in Days, k \in Keys, m \in QuotaSizes : ConfigureQuota(d, k, m) /\ UNCHANGED pipelineVars
  \/ \E v \in SourceVideos, s \in Scores : Rescore(v, s) /\ UNCHANGED pipelineVars
  \/ \E v \in SourceVideos, page \in Responses : CollectManually(v, page)

Next ==
  \/ \E w \in Workers, b \in Batches, d \in Days, n \in TopNs : Start(w, b, d, n)
  \/ \E w \in Workers : Work(w) \/ LoseLock(w) \/ Raise(w) \/ Crash(w)
  \/ Outside

Spec == Init /\ [][Next]_vars

(* --------------------------- properties --------------------------------- *)

Lost(b) == losses[SourceOf[b]]

(* However a batch is interrupted, retried or started twice, there is one  *)
(* run of it and the comments of a video are requested for it at most      *)
(* once: a request whose outcome was not recorded is never repeated. Each  *)
(* session that drops with its lock lets through one run more, and one     *)
(* request more of a run for a video, but no further.                      *)
RequestedOnce ==
  \A b \in Batches :
    /\ Cardinality(Made(b)) <= 1 + Lost(b)
    /\ \A n \in Rows, v \in VideosOf[b] : requests[<<b, n>>][v] <= 1 + Lost(b)

(* Success is never claimed on old state. What a run selects for L3 was    *)
(* made eligible with features of stored comments, by that very run, even  *)
(* if the video had L2 features from elsewhere. And a run that reads       *)
(* "success", which select_cycle_media takes at its word, has a promotion  *)
(* of all its videos stored. Where no session was lost, what was selected  *)
(* also still reads collected and featured, with these very features; a    *)
(* worker that lost its lock may overwrite that later.                     *)
SelectedIsWhole ==
  /\ \A p \in batches : \A v \in p.selected :
       LET item == batchItems[p.source.run][v]
           features == p.source.features[v]
       IN /\ features # {} /\ <<v, features>> \in snapshots
          /\ Lost(p.source.run[1]) = 0 =>
               Finished(item) /\ item.collection = "success" /\ item.features = features
  /\ \A r \in Runs : runs[r] = "success" =>
       /\ \E p \in batches : p.source.run = r /\ DOMAIN p.source.features = VideosOf[r[1]]
       /\ Lost(r[1]) = 0 => \A v \in VideosOf[r[1]] : Finished(batchItems[r][v])

(* What is stored for a run's request is never given up: a collection that *)
(* was begun is never forgotten, whoever writes. Where no session was lost *)
(* an item that was collected stays collected, and one that succeeded      *)
(* stays so, with the features an eligibility run was made from.           *)
ProgressIsKept ==
  [][\A r \in Runs : \A v \in VideosOf[r[1]] :
       LET item == batchItems[r][v] IN
         /\ item.collection # "none" => batchItems'[r][v].collection # "none"
         /\ Lost(r[1]) = 0 /\ item.collection = "success" =>
              batchItems'[r][v].collection = "success"
         /\ Lost(r[1]) = 0 /\ item.outcome = "success" => batchItems'[r][v] = item]_vars
=============================================================================
