------------------------------ MODULE MediaReview ------------------------------
(***************************************************************************)
(* Approval of audio for delivery to the ASR provider: prepare_asr_media,  *)
(* approve_asr_media and assert_reviewed_delivery of                       *)
(* src/src/douyin_research/l2/media_review.py, and what asserts them: the  *)
(* dispatcher's choice of a review (reviewed_dispatch.py) and the ASR      *)
(* worker. A worker signs a URL under the origin it read (live_asr_        *)
(* service.py), and the coordinator finds or creates the job of the audio  *)
(* (asr_execution.py); each asserts the review again, in transactions of   *)
(* their own.                                                              *)
(*                                                                         *)
(* A job is keyed by the content alone and remembers the fingerprint that  *)
(* it was created under.                                                   *)
(*                                                                         *)
(* An asset row never changes, so its fingerprint changes only with the    *)
(* delivery origin of the configuration: it is modelled by that origin.    *)
(***************************************************************************)
EXTENDS Naturals, FiniteSets, FiniteSetsExt

CONSTANTS
  AudioAssets, ReviewVersions, Origins,
  MediaReviewers,  \* jobs of the review page
  Deliverers,      \* ASR workers
  NoReview

ASSUME MediaReviewAssumption ==
  /\ IsFiniteSet(ReviewVersions) /\ NoReview \notin Deliverers
  /\ NoReview \notin [shown : Origins, active : BOOLEAN, at : Nat]

VARIABLES
  origin,    \* public_endpoint of media_storage_config
  reviews,   \* asr_media_review: asset and version to row
  look,      \* what a reviewer was shown and is approving
  delivery,  \* what an ASR worker is about to deliver
  jobOf,     \* asr_execution_job of the audio: its media_ref_fingerprint
  holder     \* holder of the advisory lock ASR_LOCK_NAME

deliveryVars == <<delivery, jobOf, holder>>
mediaReviewVars == <<origin, reviews, look, deliveryVars>>

NoLook == [step |-> "idle"]
NoDelivery == [step |-> "idle"]
Rows(a) == {reviews[<<a, v>>] : v \in ReviewVersions} \ {NoReview}

MediaReviewInit ==
  /\ origin \in Origins
  /\ reviews = [p \in AudioAssets \X ReviewVersions |-> NoReview]
  /\ look = [r \in MediaReviewers |-> NoLook]
  /\ delivery = [d \in Deliverers |-> NoDelivery]
  /\ jobOf = [a \in AudioAssets |-> NoReview]
  /\ holder = NoReview

(* prepare_asr_media: the fingerprint under the origin of that moment.     *)
Look(r, a, v) ==
  /\ look' = [look EXCEPT ![r] = [step |-> "shown", asset |-> a, version |-> v, shown |-> origin]]
  /\ UNCHANGED <<origin, reviews, deliveryVars>>

(* approve_asr_media reads the origin again and compares.                  *)
Approve(r) ==
  /\ look[r].step = "shown"
  /\ look' = [look EXCEPT ![r] = IF look[r].shown = origin THEN [@ EXCEPT !.step = "insert"]
                                 ELSE NoLook]
  /\ UNCHANGED <<origin, reviews, deliveryVars>>

(* on conflict do nothing.                                                 *)
Absent(row) == row = NoReview

(* approved_at orders the rows of an asset.                                *)
NextAt(a) == 1 + Max({0} \cup {row.at : row \in Rows(a)})

(* A row that is there is left alone: if it is revoked or of another       *)
(* origin, the approval raises.                                            *)
Store(r) ==
  LET p == <<look[r].asset, look[r].version>> IN
  /\ look[r].step = "insert"
  /\ reviews' = IF Absent(reviews[p])
                THEN [reviews EXCEPT ![p] = [shown |-> look[r].shown, active |-> TRUE,
                                             at |-> NextAt(look[r].asset)]]
                ELSE reviews
  /\ look' = [look EXCEPT ![r] = NoLook]
  /\ UNCHANGED <<origin, deliveryVars>>

(* A revocation is a statement of an operator.                             *)
Revoke(a, v) ==
  /\ reviews[<<a, v>>] # NoReview /\ reviews[<<a, v>>].active
  /\ reviews' = [reviews EXCEPT ![<<a, v>>].active = FALSE]
  /\ UNCHANGED <<origin, look, deliveryVars>>

Reconfigure(o) ==
  /\ origin # o
  /\ origin' = o
  /\ UNCHANGED <<reviews, look, deliveryVars>>

(* The dispatcher's candidates: assets whose latest review is active.      *)
LatestActive(a, v) ==
  /\ reviews[<<a, v>>] # NoReview /\ reviews[<<a, v>>].active
  /\ \A row \in Rows(a) : row.at <= reviews[<<a, v>>].at

Settings == UNCHANGED <<origin, reviews, look>>
Holds(d) == holder = d
Review(d) == reviews[<<delivery[d].asset, delivery[d].version>>]
GoOn(d, step) == delivery' = [delivery EXCEPT ![d].step = step]
Quit(d) ==
  /\ delivery' = [delivery EXCEPT ![d] = NoDelivery]
  /\ holder' = IF Holds(d) THEN NoReview ELSE holder

(* A parent dispatches an asset, or an operator or the poller starts the   *)
(* worker for a version it names. The configuration is read once.          *)
Deliver(d, a, v, byHand) ==
  /\ delivery[d].step = "idle"
  /\ byHand \/ LatestActive(a, v)
  /\ delivery' = [delivery EXCEPT ![d] = [step |-> "canonical", asset |-> a, version |-> v,
                                          url |-> origin, before |-> NoReview]]
  /\ UNCHANGED <<jobOf, holder>>
  /\ Settings

Found(row) == row # NoReview /\ row.active

(* What the assertion looks for: an active row, the URL under its origin.  *)
Deliverable(d) == Found(Review(d)) /\ Review(d).shown = delivery[d].url

AfterAssert == [canonical |-> "sign", signed |-> "lock", enter |-> "load",
                create |-> "insert", match |-> "matched"]

(* assert_reviewed_delivery: by the worker before and after it signs the   *)
(* URL, and by the coordinator under its lock, again when it has loaded    *)
(* the job. It returns the fingerprint it found.                           *)
AssertDelivery(d) ==
  /\ delivery[d].step \in DOMAIN AfterAssert
  /\ \/ Deliverable(d) /\ GoOn(d, AfterAssert[delivery[d].step]) /\ UNCHANGED holder
     \/ ~Deliverable(d) /\ Quit(d)
  /\ UNCHANGED jobOf
  /\ Settings

(* verify_object and presigned_read_url.                                   *)
Sign(d) ==
  /\ delivery[d].step = "sign"
  /\ GoOn(d, "signed")
  /\ UNCHANGED <<jobOf, holder>>
  /\ Settings

(* _single_paid_job; the moment from which a revocation counts.            *)
TakeLock(d) ==
  /\ delivery[d].step = "lock"
  /\ holder = NoReview
  /\ holder' = d
  /\ delivery' = [delivery EXCEPT ![d].step = "enter", ![d].before = Review(d)]
  /\ UNCHANGED jobOf
  /\ Settings

(* live_asr_task_key: of the content, whatever the URL and the version.    *)
JobKey(d) == delivery[d].asset

LoadJob(d) ==
  /\ delivery[d].step = "load"
  /\ GoOn(d, IF jobOf[JobKey(d)] = NoReview THEN "create" ELSE "match")
  /\ UNCHANGED <<jobOf, holder>>
  /\ Settings

(* Mutant: the job is not compared with the request. *)
AnyJob(d) == jobOf[JobKey(d)] # NoReview

(* _assert_job_matches, of the fingerprint.                                *)
SameMedia(d) == jobOf[JobKey(d)] = Review(d).shown

MatchJob(d) ==
  /\ delivery[d].step = "matched"
  /\ \/ SameMedia(d) /\ GoOn(d, "send") /\ UNCHANGED holder
     \/ ~SameMedia(d) /\ Quit(d)
  /\ UNCHANGED jobOf
  /\ Settings

(* The commit of the reservation.                                          *)
CreateJob(d) ==
  /\ delivery[d].step = "insert"
  /\ jobOf' = [jobOf EXCEPT ![JobKey(d)] = Review(d).shown]
  /\ GoOn(d, "send")
  /\ UNCHANGED holder
  /\ Settings

(* The submission or a poll, or the worker's failure at any step.          *)
EndDelivery(d) ==
  /\ delivery[d].step # "idle"
  /\ Quit(d)
  /\ UNCHANGED jobOf
  /\ Settings

MediaReviewNext ==
  \/ \E r \in MediaReviewers :
       \/ \E a \in AudioAssets, v \in ReviewVersions : Look(r, a, v)
       \/ Approve(r) \/ Store(r)
  \/ \E a \in AudioAssets, v \in ReviewVersions :
       \/ Revoke(a, v)
       \/ \E d \in Deliverers, byHand \in BOOLEAN : Deliver(d, a, v, byHand)
  \/ \E d \in Deliverers :
       \/ AssertDelivery(d) \/ Sign(d) \/ TakeLock(d) \/ LoadJob(d)
       \/ MatchJob(d) \/ CreateJob(d) \/ EndDelivery(d)
  \/ \E o \in Origins : Reconfigure(o)

MediaReviewSpec == MediaReviewInit /\ [][MediaReviewNext]_mediaReviewVars

-----------------------------------------------------------------------------
(* ---------------------------- properties ------------------------------- *)

(* Audio goes out under the origin that a reviewer approved for it, never  *)
(* under the one the configuration has changed to, and a task is polled    *)
(* only under the approval it was submitted under, whatever version names  *)
(* it. A review revoked before a worker took the lock stops its call: no   *)
(* check that was made earlier counts, and a revoked version stays so      *)
(* however often it is approved again (media_review.py:96).                *)
DeliveredAsApproved ==
  \A d \in Deliverers : delivery[d].step = "send" =>
    /\ Review(d).shown = delivery[d].url
    /\ jobOf[delivery[d].asset] = delivery[d].url
    /\ delivery[d].before.active
=============================================================================
