------------------------------ MODULE DecisionLoop ------------------------------
(***************************************************************************)
(* The decision cards of one project, the subject profiles that adopted    *)
(* cards are bound to, and the publications whose metrics review them:     *)
(* mutate_project_decision_loop.py, mutate_subject_profile.py and          *)
(* manage_project_video_evidence.py of the dashboard's backend, over the   *)
(* checks and triggers of src/db/schema.sql.                               *)
(*                                                                         *)
(* A request locks the project until it commits, so requests are serial;   *)
(* one that is refused, or replays its idempotency key, writes nothing.    *)
(* The triggers are meant to hold below the application as well: Direct    *)
(* actions are any SQL statement that they let through.                    *)
(***************************************************************************)
EXTENDS Naturals, Sequences, FiniteSets

CONSTANTS
  Cards,
  LegacyCards,      \* adopted before profiles were required
  Subjects, LegacySubject,   \* theirs is one of the subjects
  Profiles, SubjectOf,
  Contents,         \* kind, summary, rights and source of a profile
  Cleared,          \* those whose rights_status is cleared
  Values,           \* metrics of a day
  MaxPublications, MaxObservations,   \* bounds
  NoCard, NoSubject, NoProfile, NoBinding, NoReview

ASSUME DecisionLoopAssumption ==
  /\ LegacyCards \subseteq Cards /\ Cleared \subseteq Contents
  /\ SubjectOf \in [Profiles -> Subjects] /\ LegacySubject \in Subjects
  /\ MaxPublications \in Nat /\ MaxObservations \in Nat

ProfileRows == [status : {"draft", "approved", "superseded", "revoked"}, content : Contents]

ASSUME NoProfileAssumption == NoProfile \notin ProfileRows

ASSUME NoBindingAssumption ==
  NoBinding \notin [profile : Profiles, subject : Subjects, content : Contents]

VARIABLES
  cards,         \* project_decision_card
  bindings,      \* project_decision_card_profile_binding of a card
  profiles,      \* research_subject_profile_version
  publications,  \* project_publication_record: the card of each
  observations,  \* project_publication_metric_observation
  accepted       \* the project has accepted the video

loopVars == <<cards, bindings, profiles, publications, observations, accepted>>

Decisions == {"adopt", "observe", "exclude"}
FirstStatus == [adopt |-> "active", observe |-> "observing", exclude |-> "excluded"]
NextCardStatus ==
  [active |-> {"adopted", "archived"}, observing |-> {"archived"}, adopted |-> {"archived"},
   excluded |-> {"archived"}]

Card(decision, subject, required) ==
  [decision |-> decision, status |-> FirstStatus[decision], subject |-> subject,
   required |-> required, review |-> NoReview]

LoopInit ==
  /\ cards = [c \in Cards |-> IF c \in LegacyCards THEN Card("adopt", LegacySubject, FALSE)
                             ELSE NoCard]
  /\ bindings = [c \in Cards |-> NoBinding]
  /\ profiles = [p \in Profiles |-> NoProfile]
  /\ publications = <<>>
  /\ observations = <<>>
  /\ accepted \in BOOLEAN

Exists(c) == cards[c] # NoCard

(* --------------------------- below the handlers ------------------------ *)

(* The check constraints of a card.                                        *)
StatusFits(n) ==
  \/ n.status \in {"draft", "reviewed", "archived"}
  \/ n.decision = "adopt" /\ n.status \in {"active", "adopted"}
  \/ n.decision = "observe" /\ n.status = "observing"
  \/ n.decision = "exclude" /\ n.status = "excluded"

CardChecks(n) == StatusFits(n) /\ ((n.status = "reviewed") <=> (n.review # NoReview))

(* Mutant: the snapshot is not compared with the observation. *)
ObservationNamed(c, review) ==
  /\ review.observation \in DOMAIN observations
  /\ publications[observations[review.observation].publication] = c

(* enforce_project_decision_card_review_snapshot                           *)
ReviewSnapshotExact(c, review) ==
  /\ review.observation \in DOMAIN observations
  /\ review.snapshot = observations[review.observation]
  /\ publications[review.snapshot.publication] = c

(* enforce_project_decision_card_profile_requirement, of an update.        *)
RequirementKept(o, n) ==
  IF o.required THEN n.required /\ n.decision = "adopt" /\ n.subject # NoSubject
  ELSE IF o.decision = "adopt"
  THEN ~n.required /\ n.decision = o.decision /\ n.subject = o.subject
  ELSE /\ n.required <=> (n.decision = "adopt")
       /\ n.required => n.subject # NoSubject

(* The deferred trigger and the foreign key of the binding.                *)
BoundTo(n, b) ==
  /\ n.required => b # NoBinding /\ b.subject = n.subject
  /\ b # NoBinding => b.subject = n.subject

(* An update of a card as the database takes it.                           *)
StoreCard(c, n) ==
  /\ Exists(c)
  /\ cards[c].status # "reviewed"
  /\ RequirementKept(cards[c], n) /\ CardChecks(n) /\ BoundTo(n, bindings[c])
  /\ n.status = "reviewed" => ReviewSnapshotExact(c, n.review)
  /\ cards' = [cards EXCEPT ![c] = n]

(* enforce_project_decision_card_profile_binding copies the profile, which *)
(* must be approved and cleared as the row is inserted.                    *)
Bindable(p, subject) ==
  /\ profiles[p] # NoProfile
  /\ SubjectOf[p] = subject /\ profiles[p].status = "approved" /\ profiles[p].content \in Cleared

Binding(p) == [profile |-> p, subject |-> SubjectOf[p], content |-> profiles[p].content]

(* A card is inserted with its binding, if it has to have one.             *)
InsertCard(c, n, b) ==
  /\ ~Exists(c) /\ accepted
  /\ CardChecks(n) /\ n.review = NoReview
  /\ n.required <=> (n.decision = "adopt")
  /\ BoundTo(n, b)
  /\ cards' = [cards EXCEPT ![c] = n]
  /\ bindings' = [bindings EXCEPT ![c] = b]

(* ------------------------------ the cards ------------------------------ *)

(* The profile as create_card reads it for share.                          *)
ProfileFor(p, subject) == Bindable(p, subject)

(* _create_card: adopting takes a manager and an approved profile.         *)
CreateCard(c, decision, subject) ==
  /\ decision # "adopt"
  /\ InsertCard(c, Card(decision, subject, FALSE), NoBinding)
  /\ UNCHANGED <<profiles, publications, observations, accepted>>

AdoptCard(c, subject, p) ==
  /\ ProfileFor(p, subject)
  /\ InsertCard(c, Card("adopt", subject, TRUE), Binding(p))
  /\ UNCHANGED <<profiles, publications, observations, accepted>>

Editable(c) == Exists(c) /\ cards[c].status \notin {"reviewed", "archived"}

(* _update_card, of the field that the triggers look at.                   *)
UpdateCard(c, subject) ==
  /\ Editable(c)
  /\ subject # cards[c].subject
  /\ StoreCard(c, [cards[c] EXCEPT !.subject = subject])
  /\ UNCHANGED <<bindings, profiles, publications, observations, accepted>>

(* _set_card_status                                                        *)
SetCardStatus(c, next) ==
  /\ Editable(c) /\ cards[c].status \in DOMAIN NextCardStatus
  /\ next \in NextCardStatus[cards[c].status]
  /\ StoreCard(c, [cards[c] EXCEPT !.status = next])
  /\ UNCHANGED <<bindings, profiles, publications, observations, accepted>>

(* _record_review: the observation of a publication of this card.          *)
RecordReview(c, i) ==
  /\ Editable(c)
  /\ publications[observations[i].publication] = c
  /\ StoreCard(c, [cards[c] EXCEPT !.status = "reviewed",
                     !.review = [observation |-> i, snapshot |-> observations[i]]])
  /\ UNCHANGED <<bindings, profiles, publications, observations, accepted>>

(* _create_publication looks at no status of the card.                     *)
CreatePublication(c) ==
  /\ Exists(c)
  /\ Len(publications) < MaxPublications
  /\ publications' = Append(publications, c)
  /\ UNCHANGED <<cards, bindings, profiles, observations, accepted>>

Versions(p) == {i \in DOMAIN observations : observations[i].publication = p}

(* _record_daily_metric: the next version of the publication's day.        *)
RecordDailyMetric(p, value) ==
  /\ Len(observations) < MaxObservations
  /\ observations' = Append(observations,
       [publication |-> p, version |-> Cardinality(Versions(p)) + 1, value |-> value])
  /\ UNCHANGED <<cards, bindings, profiles, publications, accepted>>

(* ----------------------------- the profiles ---------------------------- *)

(* Mutant: a profile may be edited after its approval. *)
StatusOnly(o, n) ==
  \/ o.status = "draft" /\ n.status \in {"draft", "approved", "revoked"}
  \/ o.status = "approved" /\ n.status \in {"approved", "superseded", "revoked"}

(* enforce_research_subject_profile_version                                *)
Lifecycle(o, n) ==
  \/ o.status = "draft" /\ n.status \in {"draft", "approved", "revoked"}
  \/ o.status = "approved" /\ n.status \in {"superseded", "revoked"} /\ n.content = o.content

(* uq_research_subject_profile_one_approved                                *)
OnlyApproved(p, n) ==
  n.status = "approved" =>
    \A q \in Profiles \ {p} : profiles[q] # NoProfile /\ SubjectOf[q] = SubjectOf[p]
                              => profiles[q].status # "approved"

StoreProfile(p, n) ==
  /\ profiles[p] # NoProfile
  /\ Lifecycle(profiles[p], n) /\ OnlyApproved(p, n)
  /\ profiles' = [profiles EXCEPT ![p] = n]
  /\ UNCHANGED <<cards, bindings, publications, observations, accepted>>

(* create_draft, approve, supersede, revoke                                *)
CreateDraft(p, content) ==
  /\ profiles[p] = NoProfile
  /\ profiles' = [profiles EXCEPT ![p] = [status |-> "draft", content |-> content]]
  /\ UNCHANGED <<cards, bindings, publications, observations, accepted>>

From(p, statuses) == profiles[p] # NoProfile /\ profiles[p].status \in statuses
Become(p, status) == StoreProfile(p, [profiles[p] EXCEPT !.status = status])

Approve(p) == From(p, {"draft"}) /\ Become(p, "approved")
Supersede(p) == From(p, {"approved"}) /\ Become(p, "superseded")
Revoke(p) == From(p, {"draft", "approved"}) /\ Become(p, "revoked")

(* accept of manage_project_video_evidence.py                              *)
AcceptVideo ==
  /\ accepted' = TRUE
  /\ UNCHANGED <<cards, bindings, profiles, publications, observations>>

(* ------------------------------ direct SQL ----------------------------- *)

Statuses == {"draft", "active", "observing", "adopted", "excluded", "reviewed", "archived"}
CardRows ==
  {n \in [decision : Decisions, status : Statuses, subject : Subjects \cup {NoSubject},
          required : BOOLEAN, review : {NoReview}] :
     StatusFits(n) /\ (n.required => n.decision = "adopt")}
Reviews(n) ==
  IF n.status # "reviewed" THEN {NoReview}
  ELSE [observation : DOMAIN observations, snapshot : {observations[i] : i \in DOMAIN observations}]

DirectUpdate(c, n) ==
  /\ \E review \in Reviews(n) :
       /\ [n EXCEPT !.review = review] # cards[c]
       /\ StoreCard(c, [n EXCEPT !.review = review])
  /\ UNCHANGED <<bindings, profiles, publications, observations, accepted>>

(* One transaction makes a card an adopted one and binds it.               *)
DirectAdopt(c, n, p) ==
  /\ Exists(c) /\ ~cards[c].required /\ cards[c].status # "reviewed"
  /\ n.required /\ Bindable(p, n.subject)
  /\ RequirementKept(cards[c], n) /\ CardChecks(n)
  /\ cards' = [cards EXCEPT ![c] = n]
  /\ bindings' = [bindings EXCEPT ![c] = Binding(p)]
  /\ UNCHANGED <<profiles, publications, observations, accepted>>

DirectProfile(p, n) ==
  /\ n # profiles[p]
  /\ StoreProfile(p, n)

RejectVideo ==
  /\ accepted' = FALSE
  /\ UNCHANGED <<cards, bindings, profiles, publications, observations>>

LoopNext ==
  \/ \E c \in Cards :
       \/ \E d \in Decisions, s \in Subjects \cup {NoSubject} : CreateCard(c, d, s)
       \/ \E p \in Profiles : AdoptCard(c, SubjectOf[p], p)
       \/ \E s \in Subjects \cup {NoSubject} : UpdateCard(c, s)
       \/ \E next \in {"adopted", "archived"} : SetCardStatus(c, next)
       \/ \E i \in DOMAIN observations : RecordReview(c, i)
       \/ CreatePublication(c)
       \/ \E n \in CardRows : DirectUpdate(c, n) \/ \E p \in Profiles : DirectAdopt(c, n, p)
  \/ \E p \in DOMAIN publications, value \in Values : RecordDailyMetric(p, value)
  \/ \E p \in Profiles :
       \/ \E content \in Contents : CreateDraft(p, content)
       \/ Approve(p) \/ Supersede(p) \/ Revoke(p)
       \/ \E n \in ProfileRows : DirectProfile(p, n)
  \/ AcceptVideo \/ RejectVideo

LoopSpec == LoopInit /\ [][LoopNext]_loopVars

-----------------------------------------------------------------------------
(* ----------------------------- properties ------------------------------ *)

(* What a card rests on is there and unchanged. An adopted card names the  *)
(* profile that justified it: cleared content, approved once, of the       *)
(* card's present subject, and still word for word what the profile says,  *)
(* whatever became of either since; the one that names none is from before *)
(* profiles and is as it was then. A reviewed card quotes an observation   *)
(* of its own publication exactly as that was recorded, and the versions   *)
(* of the publication's metric have no gap before it.                      *)
CardsAreGrounded ==
  \A c \in Cards : Exists(c) =>
    /\ cards[c].decision = "adopt" =>
         IF cards[c].required
         THEN /\ bindings[c] # NoBinding
              /\ bindings[c].subject = cards[c].subject
              /\ bindings[c].content \in Cleared
              /\ profiles[bindings[c].profile].content = bindings[c].content
              /\ profiles[bindings[c].profile].status # "draft"
         ELSE c \in LegacyCards /\ cards[c].subject = LegacySubject
    /\ cards[c].status = "reviewed" =>
         LET r == cards[c].review IN
         /\ r.snapshot = observations[r.observation]
         /\ publications[r.snapshot.publication] = c
         /\ \A v \in 1 .. r.snapshot.version :
              \E i \in Versions(r.snapshot.publication) :
                i <= r.observation /\ observations[i].version = v
=============================================================================
