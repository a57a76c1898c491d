------------------------------- MODULE BriefPlan -------------------------------
(***************************************************************************)
(* One research brief from the form a user submits to the result its run   *)
(* reports: the form is checked by the dashboard (mutate_research_brief),  *)
(* by the constraints of research_brief, by the worker that claims it      *)
(* (run_research_brief) and by its pipeline (research_briefs); then it     *)
(* decides what is asked of the provider, what of the answer is kept, whose*)
(* details are bought, and which result is believed. When runs start, and  *)
(* what may happen meanwhile, is module ResearchBrief.                     *)
(*                                                                         *)
(* A video is its age in hours, or Undated. A text is "plain", "empty",    *)
(* "long", or "padded" with blanks that normalising removes.               *)
(***************************************************************************)
EXTENDS Integers, Sequences, FiniteSets, SequencesExt, Ordering

CONSTANTS
  Ages,        \* bound: the ages of videos, at most one video of each
  Undated,     \* a video whose publication time the provider does not give
  ItemCounts,  \* bound: numbers of items a form asks for
  Cadences,    \* bound: hours between runs a form asks for, 0 for one run
  PageSizes,   \* bound: videos on the one page that a search answers
  Nil          \* no value

ASSUME BriefPlanAssumption ==
  /\ Ages \subseteq Nat /\ IsFiniteSet(Ages) /\ Undated \notin Nat /\ PageSizes \subseteq Nat
  /\ Nil \notin [at : {"discovery", "detail_enrichment", "finalize"}, count : Nat]

VARIABLES
  stage,    \* where the brief is
  brief,    \* its configuration, as last checked
  corpus,   \* the videos the provider knows for its target
  pageSize, \* how many of them a page of its search holds
  kept,     \* the observations the run keeps, in the provider's order
  new,      \* of those, the videos not known before
  wanted,   \* the videos whose details are fetched
  report    \* what the run reports

briefPlanVars == <<stage, brief, corpus, pageSize, kept, new, wanted, report>>

Texts == {"plain", "padded", "empty", "long"}

(* What a user may submit: a browser sends any of it.                      *)
Forms == [name : {"plain", "empty"}, platform : {"douyin", "other"},
          source : {"low_fan", "keyword", "account", "other"}, target : Texts,
          hours : {1, 24, 72, 168, 720}, items : ItemCounts,
          depth : {"metadata", "comments", "media", "review_ready", "other"},
          cadence : Cadences, project : BOOLEAN, subject : BOOLEAN]

Normalized(text) == IF text = "padded" THEN "plain" ELSE text

Sources == {"low_fan", "keyword", "account"}
Depths == {"metadata", "comments", "media", "review_ready"}
Windows == {24, 72, 168, 720}
MediaDepths == {"media", "review_ready"}

SubjectFits(f) == f.subject = f.project

(* Mutant: the dashboard forgets that media is for five items at most. *)
AnyMediaScope(f) ==
  /\ Normalized(f.name) = "plain"
  /\ f.platform = "douyin" /\ f.source \in Sources /\ f.depth \in Depths
  /\ f.hours \in Windows /\ f.items \in 1..20
  /\ f.project => f.depth = "metadata"
  /\ f.cadence \in {0, 6, 12, 24}
  /\ IF f.source = "low_fan" THEN f.items <= 5 /\ f.hours # 720 ELSE Normalized(f.target) = "plain"
  /\ SubjectFits(f)

(* _config: what the dashboard accepts ...                                 *)
Accepts(f) ==
  /\ Normalized(f.name) = "plain"
  /\ f.platform = "douyin" /\ f.source \in Sources /\ f.depth \in Depths
  /\ f.hours \in Windows /\ f.items \in 1..20
  /\ f.depth \in MediaDepths => f.items <= 5
  /\ f.project => f.depth = "metadata"
  /\ f.cadence \in {0, 6, 12, 24}
  /\ IF f.source = "low_fan" THEN f.items <= 5 /\ f.hours # 720 ELSE Normalized(f.target) = "plain"
  /\ SubjectFits(f)

(* ... and what it then writes.                                            *)
Config(f) ==
  [f EXCEPT !.name = Normalized(@), !.cadence = IF @ = 0 THEN Nil ELSE @,
            !.target = IF f.source = "low_fan" THEN Nil ELSE Normalized(@)]

(* The constraints of research_brief.                                      *)
Storable(b) ==
  /\ b.name \in {"plain", "padded"} /\ b.platform = "douyin" /\ b.source \in Sources
  /\ IF b.source = "low_fan" THEN b.target = Nil ELSE b.target \in {"plain", "padded"}
  /\ b.hours \in Windows /\ (b.source = "low_fan" => b.hours # 720)
  /\ b.items \in 1..20
  /\ b.source = "low_fan" \/ b.depth \in MediaDepths => b.items <= 5
  /\ b.depth \in Depths /\ b.cadence \in {Nil, 6, 12, 24}

BriefPlanInit ==
  /\ stage = "asked" /\ brief = Nil /\ corpus = {} /\ pageSize \in PageSizes /\ kept = <<>>
  /\ new = {} /\ wanted = {} /\ report = Nil

Submit ==
  /\ stage = "asked"
  /\ \E f \in Forms :
       /\ stage' = IF ~Accepts(f) THEN "refused"
                   ELSE IF Storable(Config(f)) THEN "stored" ELSE "unstorable"
       /\ brief' = IF Accepts(f) THEN Config(f) ELSE Nil
  /\ UNCHANGED <<corpus, pageSize, kept, new, wanted, report>>

(* What the worker claims of what is due: a brief of a project needs its   *)
(* subject and the metadata depth.                                         *)
ClaimBrief ==
  /\ stage = "stored"
  /\ stage' = IF brief.project => brief.depth = "metadata" /\ brief.subject
              THEN "claimed" ELSE "unclaimable"
  /\ UNCHANGED <<brief, corpus, pageSize, kept, new, wanted, report>>

(* validate_config, of what make_config normalises.                        *)
Valid(c) ==
  /\ c.platform = "douyin" /\ c.source \in Sources /\ c.depth \in Depths
  /\ c.hours \in Windows /\ c.cadence \in {Nil, 6, 12, 24}
  /\ c.items \in 1..20 /\ (c.depth \in MediaDepths => c.items <= 5)
  /\ IF c.source = "low_fan" THEN c.target = Nil /\ c.items <= 5 /\ c.hours # 720
                             ELSE c.target = "plain"

MakeConfig(s) ==
  [s EXCEPT !.target = IF s.source = "low_fan" \/ @ = Nil THEN Nil ELSE Normalized(@)]

(* What a failed run may say of an exception: provider_failure_summary     *)
(* makes it, and _safe_failure_summary takes nothing else over.            *)
FailureStages == {"discovery", "detail_enrichment", "finalize", "unknown"}
FailureSummary(at, count) ==
  [at |-> IF at \in FailureStages THEN at ELSE "unknown", count |-> IF count < 0 THEN 0 ELSE count]
SafeFailure(summary) ==
  IF summary # Nil /\ summary.at \in FailureStages /\ summary.count >= 0
  THEN summary ELSE [at |-> "unknown", count |-> 0]

FailWith(why, summary) ==
  /\ stage' = why
  /\ report' = SafeFailure(summary)

TakeConfig ==
  /\ stage = "claimed"
  /\ IF Valid(MakeConfig(brief))
     THEN stage' = "configured" /\ brief' = MakeConfig(brief) /\ UNCHANGED report
     ELSE FailWith("misfit", Nil) /\ UNCHANGED brief
  /\ UNCHANGED <<corpus, pageSize, kept, new, wanted>>

(* ----------------------------- discovery -------------------------------- *)

(* Mutant: the smallest window of the provider that is not larger. *)
WithinWindow(hours) == IF hours < 168 THEN 24 ELSE IF hours < 4320 THEN 168 ELSE 4320

(* discovery_source: the provider searches one, seven or 180 days.         *)
SearchWindow(hours) == CASE hours = 24 -> 24 [] hours \in {72, 168} -> 168 [] hours = 720 -> 4320

DiscoverySource(c) ==
  [kind |-> CASE c.source = "low_fan" -> "low_fan" [] c.source = "keyword" -> "search"
              [] c.source = "account" -> "account_posts",
   within |-> IF c.source = "keyword" THEN SearchWindow(c.hours) ELSE Nil,
   count |-> IF c.source = "keyword" THEN Nil ELSE c.items,
   maxItems |-> c.items, publishedAfter |-> c.hours]

(* Newest first; the provider places an undated video where it likes, here *)
(* at the end.                                                             *)
Newest(videos) ==
  InOrder(videos \ {Undated}) \o (IF Undated \in videos THEN <<Undated>> ELSE <<>>)

Prefix(s, n) == SubSeq(s, 1, IF Len(s) < n THEN Len(s) ELSE n)

(* The one page that is asked for: of a search, which has cursor 0 and     *)
(* names no size, the newest in its window, as many as the provider puts   *)
(* on a page; an account's newest posts; a board oldest or newest first.   *)
Pages(s) ==
  CASE s.kind = "search" -> {Prefix(Newest({v \in corpus' : v = Undated \/ v <= s.within}), pageSize)}
    [] s.kind = "account_posts" -> {Prefix(Newest(corpus'), s.count)}
    [] s.kind = "low_fan" -> {Prefix(Newest(corpus'), s.count), Prefix(Reverse(Newest(corpus')), s.count)}

(* A board's item names no account, another video its author.              *)
LowFanItem(v) == [video |-> v, account |-> FALSE]
Aweme(v) == [video |-> v, account |-> TRUE]
Observations(s, page) ==
  [i \in DOMAIN page |-> IF s.kind = "low_fan" THEN LowFanItem(page[i]) ELSE Aweme(page[i])]

(* _within_published_window, and the first of what is left.                *)
InWindow(s, item) == item.video # Undated /\ item.video <= s.publishedAfter
Keep(s, items) == Prefix(Pick(items, {i \in DOMAIN items : InWindow(s, items[i])}), s.maxItems)

(* The first part of L0L1Runner.run: the call may fail; so may the ingest  *)
(* of what the page keeps, or, once that is stored, a project's relevance. *)
Discover ==
  /\ stage = "configured"
  /\ corpus' \in SUBSET (Ages \cup {Undated})
  /\ LET s == DiscoverySource(brief) IN
     \E page \in Pages(s) :
       LET items == Keep(s, Observations(s, page)) IN
       \/ /\ kept' = items
          /\ new' \in SUBSET {items[i].video : i \in DOMAIN items}
          /\ \/ stage' = "discovered" /\ UNCHANGED report
             \/ brief.project /\ FailWith("failed", FailureSummary("discovery", Len(page)))
       \/ /\ \E count \in {0, Len(page)} : FailWith("failed", FailureSummary("discovery", count))
          /\ UNCHANGED <<kept, new>>
  /\ UNCHANGED <<brief, pageSize, wanted>>

(* ------------------------------- details -------------------------------- *)

(* Details are bought in requests of fifty, of what is new and, in a       *)
(* project, relevant; the run may make two calls. What fails is the call,  *)
(* or the ingest of as many details as were answered.                      *)
DetailCalls(n) == (n + 49) \div 50
CallsAllowed == 2

Enrich ==
  /\ stage = "discovered"
  /\ wanted' \in IF brief.project THEN SUBSET new ELSE {new}
  /\ \/ /\ stage' = IF 1 + DetailCalls(Cardinality(wanted')) <= CallsAllowed THEN "enriched" ELSE "misfit"
        /\ UNCHANGED report
     \/ /\ wanted' # {}
        /\ \E answered \in 0..Cardinality(wanted') : FailWith("failed", FailureSummary("detail_enrichment", answered))
  /\ UNCHANGED <<brief, corpus, pageSize, kept, new>>

(* ------------------------------- result --------------------------------- *)

DepthPlan(depth) ==
  [comments |-> depth \in {"comments", "media", "review_ready"},
   media |-> depth \in MediaDepths, review |-> depth = "review_ready", asr |-> FALSE, l3 |-> FALSE]

(* What run_live returns: cached of its calls were answered by the cache,  *)
(* and scored of its videos were scored; a project scores what is relevant.*)
Result(cached, scored) ==
  LET calls == 1 + DetailCalls(Cardinality(wanted)) IN
  [observations |-> Len(kept), scored |-> scored,
   newCandidates |-> IF brief.project THEN 0 ELSE Cardinality(new),
   calls |-> calls, cached |-> cached, uncached |-> calls - cached,
   scoring |-> IF brief.project THEN "project_subject_l1" ELSE "global_l1",
   plan |-> DepthPlan(brief.depth)]

(* _safe_result: what the worker believes.                                 *)
SafeResult(r, project) ==
  /\ \A n \in {r.observations, r.scored, r.newCandidates, r.calls, r.cached, r.uncached} : n >= 0
  /\ r.calls = r.cached + r.uncached
  /\ ~r.plan.asr /\ ~r.plan.l3
  /\ (r.scoring = "project_subject_l1") = project
  /\ r.scored <= r.observations
  /\ r.scoring = "project_subject_l1" =>
       r.newCandidates = 0 /\ ~r.plan.comments /\ ~r.plan.media /\ ~r.plan.review

Finish ==
  /\ stage = "enriched"
  /\ \/ \E cached \in 0..1 + DetailCalls(Cardinality(wanted)) :
        \E scored \in IF brief.project THEN 0..Len(kept) ELSE {Len(kept)} :
          LET r == Result(cached, scored) IN
          IF SafeResult(r, brief.project) THEN stage' = "done" /\ report' = r
                                          ELSE FailWith("misfit", Nil)
     \/ FailWith("failed", FailureSummary("finalize", Len(kept)))
  /\ UNCHANGED <<brief, corpus, pageSize, kept, new, wanted>>

BriefPlanNext == Submit \/ ClaimBrief \/ TakeConfig \/ Discover \/ Enrich \/ Finish

BriefPlanSpec == BriefPlanInit /\ [][BriefPlanNext]_briefPlanVars

-----------------------------------------------------------------------------
(* ----------------------------- properties ------------------------------ *)

(* What the dashboard accepts can run: the table takes it, the worker      *)
(* claims it, its pipeline takes it for valid, its calls fit their limit,  *)
(* and its result is believed. Five pieces of code check or use the same   *)
(* configuration, each in its own words. When a run does fail, what is     *)
(* reported is where it stopped, and at least the items it had stored and  *)
(* at most those it had asked for.                                         *)
AcceptedCanRun ==
  /\ stage \notin {"unstorable", "unclaimable", "misfit"}
  /\ stage = "failed" =>
       CASE report.at = "discovery" -> report.count >= Len(kept)
         [] report.at = "detail_enrichment" -> report.count <= Cardinality(wanted)
         [] report.at = "finalize" -> report.count = Len(kept)
         [] OTHER -> FALSE

(* What a run keeps is what was asked for: videos published within the     *)
(* hours of the form, at most the number of the form, and by keyword the   *)
(* newest of them with none passed over, as many as that number and one    *)
(* page of the search have room for, though the provider knows three       *)
(* windows only: of a page of five a brief of twenty keeps five. Details   *)
(* are bought for kept new videos only, so that a video new from a search  *)
(* or an account is never left without its author, and a project's brief   *)
(* promises neither comments nor media.                                    *)
ScopeCollected ==
  LET KeptVideos == {kept[i].video : i \in DOMAIN kept} IN
  stage \in {"enriched", "done"} =>
    /\ Undated \notin KeptVideos /\ \A v \in KeptVideos : v <= brief.hours
    /\ Len(kept) <= brief.items
    /\ brief.source = "keyword" =>
         KeptVideos = ToSet(Prefix(Prefix(Newest({v \in corpus \ {Undated} : v <= brief.hours}),
                                          pageSize), brief.items))
    /\ wanted \subseteq new /\ new \subseteq KeptVideos
    /\ \A i \in DOMAIN kept : ~kept[i].account /\ ~brief.project /\ kept[i].video \in new => kept[i].video \in wanted
    /\ stage = "done" =>
         /\ report.uncached <= CallsAllowed
         /\ brief.project => ~report.plan.comments /\ ~report.plan.media
=============================================================================
