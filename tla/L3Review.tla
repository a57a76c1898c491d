------------------------------- MODULE L3Review -------------------------------
(***************************************************************************)
(* Human review of L3 evidence: L3ReviewService of                         *)
(* src/src/douyin_research/l3/review.py, the assembler of l3/evidence.py   *)
(* and the part of l3/execution.py that asserts the review before it       *)
(* sends the evidence, for one video.                                      *)
(*                                                                         *)
(* Evidence is assembled from parts that other programs rewrite at any     *)
(* time. A reviewer's transaction reads them in one snapshot, the          *)
(* executor's reads each part as it is then. A fingerprint covers the      *)
(* parts and the review version: it is modelled by that pair.              *)
(***************************************************************************)
EXTENDS Naturals, Sequences, FiniteSets, FiniteSetsExt

CONSTANTS
  Parts,       \* the reads of _build_snapshot, in order
  ValuesOf,    \* what each may hold, Unfit where it would be refused
  Unfit,       \* missing, not selected, of ineligible quality, too long
  Versions,    \* privacy review versions
  Keys,        \* idempotency keys
  Reviewers,   \* approval jobs of the dashboard
  Executors,   \* L3 workers, each with one request
  Budgets,     \* daily_budget rows to start from
  Estimates,   \* estimated_llm_cost of requests, NoEstimate where it is null
  Currency,    \* their currency
  MaxStamp,    \* bound: begun approvals
  NoLimit, NoBudget, NoRequest, NoEstimate

ASSUME ReviewAssumption ==
  /\ Parts \in Seq(DOMAIN ValuesOf)
  /\ Estimates \ {NoEstimate} \subseteq Nat /\ MaxStamp \in Nat /\ IsFiniteSet(Reviewers)
  /\ Budgets \ {NoBudget} \subseteq
       [maxCost : Nat \cup {NoLimit}, maxRequests : Nat \cup {NoLimit}, spent : Nat, used : Nat,
        currency : STRING]

VARIABLES
  content,      \* what each part holds now
  annotations,  \* human_annotation rows of type l3_privacy_review
  review,       \* the approval job of a reviewer
  send,         \* the request and the bundle of an executor
  budget,       \* today's daily_budget row of the provider
  was           \* history: fit evidence that the parts have held together

vars == <<content, annotations, review, send, budget, was>>

Contents == {c \in [DOMAIN ValuesOf -> UNION {ValuesOf[p] : p \in DOMAIN ValuesOf}] :
               \A p \in DOMAIN ValuesOf : c[p] \in ValuesOf[p]}
Fit(c) == \A p \in DOMAIN c : c[p] # Unfit

(* The identity of a candidate: its fingerprint and what that covers.      *)
Manifest(c, v) == [content |-> c, version |-> v]
Manifests == {Manifest(c, v) : c \in {d \in Contents : Fit(d)}, v \in Versions}

IdleReview == [step |-> "idle", shown |-> NoRequest, key |-> NoRequest, stamp |-> 0]
IdleSend == [step |-> "idle", request |-> NoRequest, read |-> <<>>, since |-> 0]

Init ==
  /\ content \in Contents
  /\ annotations = {}
  /\ review = [r \in Reviewers |-> IdleReview]
  /\ send = [e \in Executors |-> IdleSend]
  /\ budget \in Budgets
  /\ was = {c \in {content} : Fit(c)}

(* ------------------------------ approval ------------------------------- *)

Step(r) == review[r].step
To(r, step) == review' = [review EXCEPT ![r].step = step]

(* prepare: the manifest of the whole candidate, in one read-only snapshot.*)
Prepare(r, v) ==
  /\ Step(r) \in {"idle", "shown"}
  /\ Fit(content)
  /\ review' = [review EXCEPT ![r] = [IdleReview EXCEPT !.step = "shown",
                                                        !.shown = Manifest(content, v)]]
  /\ UNCHANGED <<content, annotations, send, budget, was>>

(* approve: the manifest that was shown, under a key that may be any.      *)
Submit(r, k) ==
  /\ Step(r) = "shown"
  /\ review' = [review EXCEPT ![r].step = "candidate", ![r].key = k]
  /\ UNCHANGED <<content, annotations, send, budget, was>>

(* Mutant: the advisory lock is not taken. *)
FreeAlways(taken) == TRUE

(* pg_advisory_lock waits while another job holds the name.                *)
Free(taken) == ~taken

(* The candidate's name sorts before the key's, so it is locked first.     *)
LockCandidate(r) ==
  /\ Step(r) = "candidate"
  /\ Free(\E q \in Reviewers \ {r} : Step(q) \in {"key", "begin", "read", "insert"}
                                     /\ review[q].shown = review[r].shown)
  /\ To(r, "key")
  /\ UNCHANGED <<content, annotations, send, budget, was>>

LockKey(r) ==
  /\ Step(r) = "key"
  /\ Free(\E q \in Reviewers \ {r} : Step(q) \in {"begin", "read", "insert"}
                                     /\ review[q].key = review[r].key)
  /\ To(r, "begin")
  /\ UNCHANGED <<content, annotations, send, budget, was>>

(* BEGIN fixes now(), the created_at of what the transaction inserts. The  *)
(* snapshot is taken later, by its first query.                            *)
LastStamp == Max({0} \cup {a.stamp : a \in annotations} \cup {review[r].stamp : r \in Reviewers})

Begin(r) ==
  /\ Step(r) = "begin"
  /\ LastStamp < MaxStamp
  /\ review' = [review EXCEPT ![r].step = "read", ![r].stamp = LastStamp + 1]
  /\ UNCHANGED <<content, annotations, send, budget, was>>

(* _assert_manifest_matches, on the candidate rebuilt in the snapshot.     *)
Current(m) == Fit(content) /\ m.content = content

ByKey(k) == {a \in annotations : a.key = k}
ByCandidate(m) == {a \in annotations : a.manifest = m}

(* A fresh candidate under a fresh key is inserted. Everything else ends   *)
(* the transaction and writes nothing: a stale candidate, a key that was   *)
(* used, whether its row replays (same actor and inputs) or conflicts, and *)
(* a candidate that has its row, whoever approved it.                      *)
Read(r) ==
  LET m == review[r].shown IN
  /\ Step(r) = "read"
  /\ IF Current(m) /\ ByKey(review[r].key) = {} /\ ByCandidate(m) = {}
     THEN To(r, "insert")
     ELSE review' = [review EXCEPT ![r].step = "shown", ![r].stamp = 0]
  /\ UNCHANGED <<content, annotations, send, budget, was>>

(* The unique indexes see every committed row, the snapshot does not.      *)
Insertable(r) == ByKey(review[r].key) = {} /\ ByCandidate(review[r].shown) = {}

Insert(r) ==
  /\ Step(r) = "insert"
  /\ annotations' = IF Insertable(r)
                    THEN annotations \cup {[stamp |-> review[r].stamp, key |-> review[r].key,
                                            manifest |-> review[r].shown]}
                    ELSE annotations
  /\ review' = [review EXCEPT ![r].step = "shown", ![r].stamp = 0]
  /\ UNCHANGED <<content, send, budget, was>>

(* The job or its connection dies: locks and transaction go with it.       *)
Abandon(r) ==
  /\ Step(r) # "idle"
  /\ review' = [review EXCEPT ![r] = IdleReview]
  /\ UNCHANGED <<content, annotations, send, budget, was>>

(* ------------------------------ execution ------------------------------ *)

Latest == CHOOSE a \in annotations : \A b \in annotations : b.stamp <= a.stamp

(* Mutant: only the version of the review is compared. *)
ReviewedVersion(m) == annotations # {} /\ Latest.manifest.version = m.version

(* assert_persisted_l3_privacy_review: the latest review of the video      *)
(* binds this very evidence.                                               *)
Reviewed(m) == annotations # {} /\ Latest.manifest = m

(* A worker is given a selection: the manifest of an approval. since keeps,*)
(* for a property only, the review that was the latest one then.           *)
Request(e, m) ==
  /\ send[e].step = "idle"
  /\ m \in {a.manifest : a \in annotations}
  /\ send' = [send EXCEPT ![e] = [IdleSend EXCEPT !.step = "assemble", !.request = m,
                                               !.since = Latest.stamp]]
  /\ UNCHANGED <<content, annotations, review, budget, was>>

(* A selection or a configuration that is incomplete, or an identity that  *)
(* cannot be read, is refused before any evidence is read.                 *)
Refuse(e) ==
  /\ send[e].step = "assemble" /\ send[e].read = <<>>
  /\ send' = [send EXCEPT ![e] = IdleSend]
  /\ UNCHANGED <<content, annotations, review, budget, was>>

(* assemble is not REPEATABLE READ: each part is read as it is then.       *)
ReadPart(e) ==
  LET p == Parts[Len(send[e].read) + 1] IN
  /\ send[e].step = "assemble" /\ Len(send[e].read) < Len(Parts)
  /\ send' = IF content[p] = Unfit THEN [send EXCEPT ![e] = IdleSend]
             ELSE [send EXCEPT ![e].read = Append(@, content[p])]
  /\ UNCHANGED <<content, annotations, review, budget, was>>

(* The assembled bundle, under the version of the request.                 *)
Bundle(e) == Manifest([p \in DOMAIN ValuesOf |->
                         send[e].read[CHOOSE i \in DOMAIN Parts : Parts[i] = p]],
                      send[e].request.version)

(* The end of assemble, then the coordinator: the bundle is the requested  *)
(* one, and the review is asserted once more before any provider exists.   *)
AssertReview(e) ==
  /\ send[e].step = "assemble" /\ Len(send[e].read) = Len(Parts)
  /\ send' = IF Reviewed(Bundle(e)) THEN [send EXCEPT ![e].step = "check"]
             ELSE [send EXCEPT ![e] = IdleSend]
  /\ UNCHANGED <<content, annotations, review, budget, was>>

(* The bundle has the fingerprint and the version that were selected.      *)
Matches(e) == Bundle(e) = send[e].request

AssertAgain(e) ==
  /\ send[e].step = "check"
  /\ send' = IF Matches(e) /\ Reviewed(Bundle(e)) THEN [send EXCEPT ![e].step = "send"]
             ELSE [send EXCEPT ![e] = IdleSend]
  /\ UNCHANGED <<content, annotations, review, budget, was>>

WithinLimit(limit, value) == limit = NoLimit \/ value <= limit

(* What an estimate adds to the day: an unknown price adds nothing.        *)
Price(est) == IF est = NoEstimate THEN 0 ELSE est

(* _reserve_and_create: the row, its currency and both of its limits. An   *)
(* unknown price cannot satisfy a ceiling, and is sent where there is none.*)
Reservable(est) ==
  /\ budget # NoBudget
  /\ budget.currency = Currency
  /\ est = NoEstimate => budget.maxCost = NoLimit
  /\ WithinLimit(budget.maxRequests, budget.used + 1)
  /\ WithinLimit(budget.maxCost, budget.spent + Price(est))

(* Reserve the budget and send, the request having no job yet.             *)
Send(e, est) ==
  /\ send[e].step = "send"
  /\ IF Reservable(est)
     THEN budget' = [budget EXCEPT !.used = @ + 1, !.spent = @ + Price(est)]
     ELSE UNCHANGED budget
  /\ send' = [send EXCEPT ![e] = IdleSend]
  /\ UNCHANGED <<content, annotations, review, was>>

(* -------------------------- the budget preview ------------------------- *)

(* Mutant: the limit itself counts as exceeded. *)
ExceedsOrMeets(limit, value) == limit # NoLimit /\ value >= limit

Exceeds(limit, value) == limit # NoLimit /\ value > limit

(* preview_budget: the first of its conditions that holds names the status.*)
Preview(m, est) ==
  CASE annotations = {} -> "approval_missing"
    [] ~Fit(content) -> "failed"
    [] OTHER ->
       LET mine == Latest.manifest IN
       CASE mine.content # content -> "approval_stale"
         [] mine # m -> "candidate_stale"
         [] budget = NoBudget -> "budget_missing"
         [] budget.currency # Currency -> "budget_currency_mismatch"
         [] est = NoEstimate -> "estimate_required"
         [] Exceeds(budget.maxRequests, budget.used + 1) -> "budget_requests_exceeded"
         [] Exceeds(budget.maxCost, budget.spent + est) -> "budget_cost_exceeded"
         [] OTHER -> "budget_capacity_preview_only"

(* ------------------------------ outside -------------------------------- *)

(* Ingest rewrites the text, the gate selects, features and transcripts    *)
(* get newer rows, possibly equal to older ones.                           *)
Rewrite(p, x) ==
  /\ x # content[p]
  /\ content' = [content EXCEPT ![p] = x]
  /\ was' = was \cup {c \in {content'} : Fit(c)}
  /\ UNCHANGED <<annotations, review, send, budget>>

Next ==
  \/ \E r \in Reviewers :
       \/ \E v \in Versions : Prepare(r, v)
       \/ \E k \in Keys : Submit(r, k)
       \/ LockCandidate(r) \/ LockKey(r) \/ Begin(r) \/ Read(r) \/ Insert(r) \/ Abandon(r)
  \/ \E e \in Executors :
       \/ \E m \in Manifests : Request(e, m)
       \/ Refuse(e) \/ ReadPart(e) \/ AssertReview(e) \/ AssertAgain(e)
       \/ \E est \in Estimates : Send(e, est)
  \/ \E p \in DOMAIN ValuesOf : \E x \in ValuesOf[p] : Rewrite(p, x)

Spec == Init /\ [][Next]_vars

-----------------------------------------------------------------------------
(* ---------------------------- properties ------------------------------- *)

(* Evidence that is about to be sent is what the video held at one moment, *)
(* though its parts were read at several; a reviewer approved exactly it,  *)
(* in a review that none had superseded when the worker started.           *)
SentIsReviewed ==
  \A e \in Executors : send[e].step = "send" =>
    /\ Bundle(e).content \in was
    /\ \E a \in annotations : a.manifest = Bundle(e) /\ a.stamp >= send[e].since

(* A job that waited for another sees the row the other committed: its     *)
(* insert never runs into a unique index (review.py:241).                  *)
WaiterSeesWinner == \A r \in Reviewers : Step(r) = "insert" => Insertable(r)

(* An execution of a request without a job, which starts and ends in this  *)
(* state, reaches the provider.                                            *)
Sends(m, est) == m.content = content /\ Reviewed(m) /\ Reservable(est)

(* The budget preview says yes exactly when the price is known and such an *)
(* execution would send. Where the price is unknown it asks for one, though*)
(* without a ceiling the execution sends (review.py:375, execution.py:904).*)
PreviewAgrees ==
  \A m \in Manifests, est \in Estimates :
    Preview(m, est) = "budget_capacity_preview_only" <=> est # NoEstimate /\ Sends(m, est)
=============================================================================
