# A TLA+ verification of the content research platform

This directory keeps formal models of the platform beside its code: TLA+
modules, TLC configurations that model-check them on small instances, and
theorems with proofs that TLAPS checks. Paths below are relative to `src/`.

## 1. The system

The platform discovers short videos through a paid data provider, scores them,
collects comments, promotes the best ones to deeper analysis, has their audio
transcribed and, after a privacy review, asks a large model about them, once.
PostgreSQL holds all state; Windmill runs the scripts of `windmill/` from
schedules, webhooks and the dashboard. The Python package `src/douyin_research`
holds the logic. What makes it hard is money: nearly every interesting step is
a paid external call between two database transactions, made by processes that
may die, be started twice, or lose the session that holds their lock.

| component | state it keeps | operations | works with |
|---|---|---|---|
| L3 execution (`l3/execution.py`, `l3/results.py`) | `l3_execution_job`, `research_task_cost`, `daily_budget`, `source_video.research_level`, an advisory lock | `L3ExecutionCoordinator.run` | child script `run_reviewed_l3`, model provider |
| ASR execution (`l2/asr_execution.py`, `l2/transcripts.py`) | `asr_execution_job`, costs, budget, lock | `run` (submit, poll) | `run_reviewed_asr`, ASR provider, the poller |
| Research briefs (`research_briefs.py`, `run_research_brief.py`, `dispatch_due_research_briefs.py`, `mutate_research_brief.py`) | `research_brief`, `research_brief_run`, idempotency log | create, update, activate, pause, archive; dispatch; claim, run, finish | L0/L1 runner, budget guard, provider call path |
| L0/L1 runner and budget guard (`l0l1/runner.py`, `budget.py`) | `pipeline_run`, `daily_budget` | `run`, `acquire` | briefs, golden intake |
| Reviewed dispatch and ASR polling (`reviewed_dispatch.py`, `poll_pending_asr.py`) | the scheduler slot (advisory lock) | two dispatchers, one poller; synchronous child calls | both execution coordinators, Windmill workers |
| Golden intake and provider call path (`l0l1/real_data.py`, three entry points, `providers/*`) | the paid-job lock, response cache, call ledger, `daily_budget`, `pipeline_run` | `run_live`; `_call`, `record_call`, choice of requests | runner, ingest, briefs |
| Ingest, comments, scoring (`l0l1/ingest.py`, `comments.py`, `scoring.py`) | videos, observations, snapshots, scores | `ingest`, `collect`, `score_run` | runner, comment pipeline |
| Subject relevance (`l0l1/subject_relevance.py`, `mutate_project_subject.py`) | relevance decisions and their audits, a subject's terms | rule and manual decisions | runner, scoring |
| Comment pipeline (`l2/comment_pipeline.py`, `process_comment_batch.py`) | runs and items, advisory lock | `run` | comment provider, features, promotion |
| Promotion gate (`l2/promotion.py`) | promotion batches and decisions, daily quota | `promote` | comment pipeline, L3 review |
| L3 review (`l3/review.py`, `l3/evidence.py`, `l3/live_service.py`) | annotations and approvals | prepare, approve, preview, assert | L3 execution |
| Local review page (`l3/local_review.py`) | a token and a session in memory | GET and POST of a threading server | L3 review |
| ASR media review (`l2/media_review.py`, `live_asr_service.py`) | `asr_media_review` | prepare, approve, revoke, assert | dispatch, ASR execution |
| Media ingestion (`media_*.py`) | `media_asset`, objects, session lock | `run` | object storage, ASR |
| Account foundation (`db/schema.sql`, `projects/account_rules.py`) | organisations, relations, grants | triggers, rules of a use | providers |
| Collaboration (`mutate_project_collaboration.py`) | members, share grants, access events | members, offers, acceptance, revocation | every reader of a project |
| Decision loop and profiles (`mutate_project_decision_loop.py`, `mutate_subject_profile.py`, `SubjectProfilePanel.tsx`) | cards, profiles, bindings, publications, observations; a key in the browser | mutations with idempotency keys, triggers | dashboard |
| Research state (`mutate_research_state.py`) | collections, monitoring, filters, `research_user_action` | mutations with idempotency keys | dashboard |
| Supplier spend (`providers/daily_spend.py`, `sync_daily_spend.py`) | `supplier_daily_spend`, session lock | the hourly job | dashboard pages |
| Adapters, read-only queries, MCP server, rendering, scripts | none of their own | | |

`PROJECT.json` lists every component with what is modelled of it and why the
rest is not, and every hazard found while reading, with the properties that
would catch it going wrong.

### What must hold

- **Paid work** is reserved before it is bought, bought at most once for a task
  key, and its outcome, once recorded, is what the task is closed with.
- **Budgets** bound calls, not only reservations; no crash, replay or late
  settlement books an amount twice or loses one.
- **Schedules** turn every due time into exactly one run, and everything that is
  due or approved is reached in the end, whatever else is due or broken.
- **Authorisation** (project, subject, review) still stands when the paid call
  is made, not only when the work was planned.
- **Waiting** parents never take the last worker from the child they wait for.
- **What is selected, sent or delivered** is what was collected, reviewed or
  approved, whatever changed between the look and the act.
- **People's actions** take effect once, are kept while rules and jobs go on
  around them, and what a decision rests on stays as it was.

## 2. Modules

| module | models | checked by |
|---|---|---|
| `PaidTask` | the abstract promise of one paid task: reserve, call once, record, close | refined by the next two |
| `L3Execution` | `L3ExecutionCoordinator.run` | `l3_safety` |
| `L3ExecutionLiveness` | the same with fairness | `l3_liveness` |
| `ASRExecution`, `ASRExecutionLiveness` | the ASR coordinator | `asr_safety`, `asr_liveness` |
| `ResearchBrief`, `ResearchBriefLiveness` | briefs, their dispatcher, runs and guarded calls | `rb_safety`, `rb_liveness` |
| `AnalysisSchedule`, `AnalysisScheduleLiveness` | dispatchers, poller and children on a pool of workers | `as_pool`, `as_liveness` |
| `GoldenIntake` | jobs of the intake, with the call path, ledger, records, ingest and scoring they use | `collection` |
| `VideoFetchPlan` | the choice of detail and statistics requests, a pure algorithm | `collection` |
| `BriefPlan` | one brief from its form to its report: four validations, discovery, details, result | `collection` |
| `L3Promotion` | `promote()`: quota, decisions, replay | `collection` |
| `CommentPipeline` | comment batches; extends `L3Promotion`, in which a batch ends | `collection` |
| `MediaIngestion` | download, extraction, objects and asset rows of one video | `desk` |
| `MediaReview` | approval of audio and its assertion before a delivery | `desk` |
| `L3Review` | assembly, preparation, approval and assertion of L3 evidence | `desk` |
| `LocalReview` | the local page of a reviewer | `desk` |
| `ResearchState` | collections, monitoring and filters of users | `desk` |
| `ProfileDrafts` | a draft between the panel that submits it and the backend | `desk` |
| `SupplierSpend` | the supplier's daily totals and what pages call fresh | `desk` |
| `ProjectAccess` | members of projects and shares between projects | `workspace` |
| `DecisionLoop` | cards, profiles, publications and their triggers | `workspace` |
| `SubjectRelevance` | relevance by rule and by hand, details and scores that depend on it | `workspace` |
| `AccountAuthorization` | relations, grants, their triggers and row locks | `workspace` |
| `Ordering` | the n-th of some numbers, "order by" and a choice of places, without recursion; used by `AnalysisSchedule` and `BriefPlan` | `as_pool`, `collection` |
| `SetLemmas` | lemmas: sums over finite sets, finite sets of numbers in order | TLAPS |
| `L3ExecutionProofs`, `ASRExecutionProofs` | theorems about the two coordinators | TLAPS |
| `ResearchBriefProofs`, `AnalysisScheduleProofs` | theorems about the module in their name | TLAPS |
| `CollectionProofs` | theorems about `CommentPipeline`, `L3Promotion`, `GoldenIntake`, `BriefPlan`, `VideoFetchPlan` | TLAPS |
| `DeskProofs` | theorems about `LocalReview`, `SupplierSpend`, `MediaReview`, `L3Review`, `MediaIngestion`, `ProfileDrafts`, `ResearchState` | TLAPS |
| `WorkspaceProofs` | theorems about `AccountAuthorization`, `SubjectRelevance`, `DecisionLoop`, `ProjectAccess` | TLAPS |

The runs `collection`, `desk` and `workspace` put modules side by side
that write different tables and take different locks: the variable `part` of the MC module says which of them
moves, so that the states of the run are the sum of theirs. Modules that do
interact are composed instead: `CommentPipeline` extends `L3Promotion`, and
`GoldenIntake` holds the steps of runner, call path, ledger, ingest and scoring
in the order in which one job takes them.

Modules named `MC…` instantiate them for TLC. A definition preceded by a comment
"Mutant:" is not part of a specification: it is a plausible bug that replaces the
definition after it, and shows that a property can fail.

### How the models correspond to the code

*One action is one transaction or one external call.* Inside a transaction
PostgreSQL isolates; between two of them anything may happen: another worker's
step, a crash, a lost session. `pc[w]` says what an invocation does next; local
variables that survive from one transaction to the next are kept in `req[w]`
and `answer[w]`.

*Advisory locks* (`lock`, `slot`) belong to a session. The action `LoseLock` (or
`DropSlot`) models a connection that is lost while its process goes on: the
code takes the lock on a connection of its own and does not look at it again.

*L3Execution.* `Start` enters `run` through `_single_paid_job`; `Load` is
`_load_job` with `_assert_job_matches`; `Recon`, `ReconBudget`, `ReconJob` are
`_reconcile_terminal`; `Preflight` and `ReserveAndCreate` the gates and the
reservation; `Call` the model call; `Ingest`, `Settle`, `Complete` the three
commits of a success, each of which may commit and still raise; `Check` the
exception handler; `FailCost`, `FailJob`, `CostOverrun` the failures. `Abort` is
a crash, or a refusal by a gate that reads nothing modelled. Amounts are small
numbers, `Unknown` is a NULL price, `Unlimited` a NULL limit.

*ASRExecution* follows the same pattern, with `remote` for the provider's own
view of a task, `submissions` and `polled` as history, and a budget that is
reserved for the submission and for each poll.

*ResearchBrief.* A worker is one flow of `run_research_brief.main`: claim (its
transaction inserts the run and re-arms the brief), the runner's open and close
of `pipeline_run`, and per call the guard transaction that holds project and
subject `FOR SHARE`, the gate that counts calls, the reservation and the
request. `granted` and `cancelled` are history counters of due times.
User actions carry an idempotency key; the log is `research_user_action`.

*GoldenIntake.* `job[j].pc` walks through the statements of one job: lock, ledger,
run, billboard, ingest, details, scoring, finish. Every statement may raise, before
or after its commit (`lapses` counts what went wrong); `attempts` is the history of
requests that left, `rows` the ledger of calls, `ledger[d]` the row of
`daily_budget`. *VideoFetchPlan* has no process: it chooses one purpose and one
number of videos and evaluates the plan. *BriefPlan* takes one form through the
validations of four pieces of code and one run; texts and times are a few values
on each side of every limit. A run makes one discovery request, for the first page; how
many videos a search puts there is the provider's choice (`pageSize`).

*CommentPipeline.* `batchItems[<<b, n>>][v]` is the item of a video in the n-th run of a
batch, with what its `metadata` says of the collection. Reading an item, the write
that follows, the call and the record of its answer are actions of their own, and no
write looks at the item again. The lock lives in a session of its own: `LoseLock`
drops it while its worker goes on, and `losses` counts how often. Two workers may then
make two runs of one batch, which is why a batch has `Rows`. `PlanBatch` and
`CommitBatch` of *L3Promotion* are the two halves of `promote()`.

*L3Review.* A reviewer's request is prepare or approve, under the advisory lock; an
executor assembles its evidence part by part and asserts the review before it
sends. An estimate may be `NoEstimate`, a null `estimated_llm_cost`. *MediaReview*: a fingerprint is the delivery origin, all that can change
about it. *MediaIngestion*: stages of a worker are its `at`; films and sounds are
contents, named by their digests. *LocalReview*: one action per look at the time,
at the session, and per critical section. *ResearchState* and
*AccountAuthorization* take row locks one at a time, as PostgreSQL does, with a
waiter for each. *ProfileDrafts*: `panel`, `storage` and the calls under way, whose
answers may be lost or late. *SupplierSpend*: a total is the instant of the
supplier's count.

*ProjectAccess.* A request's `now()` is fixed before it waits for its project, as in
PostgreSQL, and is the time of the row it adds to `members` and of its `events`
(`project_access_event`, with who did what). Who reads a project follows from its
rows and its active grants (`project_actor_can_read`, `project_shared_video_can_read`). *DecisionLoop*: requests are serial under the project's lock; the
actions named `Direct…` are SQL that the triggers let through. *SubjectRelevance*:
an evaluation's read and its conditional write are two actions.

*AnalysisSchedule.* `parent[p]` is a job of one of the three parent scripts,
`child[c]` a child job, and the pool a number of workers. A child's paid work is
abstracted to what it leaves in the job table; its steps are those of the two
execution modules. `aged` orders the pending jobs by `updated_at`. A dispatcher counts
failures and submissions against its batch (`SubmissionBatch`), the poller its jobs
(`PollBatch`).

## 3. Runs

Deadlock is checked in the runs of the two coordinators, of the pool and of liveness. In
`rb_safety` and the three combined runs bounds end every behaviour (requests, jobs, panels and ticks
are spent), so `CHECK_DEADLOCK` is off there; that waiting never lasts for ever
is a property of its own where the code could make it so (`ChildCanRun`), and
row-lock deadlocks are broken by PostgreSQL, which the models include.

| run | question |
|---|---|
| `l3_safety` | is a task called once, after its reservation; do requests, amounts and unknown prices add up, under limits, for every interleaving of two tasks, crashes and lost locks; is a task closed as recorded, for good, and does the coordinator implement `PaidTask`? |
| `l3_liveness` | does the lock come back and is a recorded task closed in the end? |
| `asr_safety` | the same questions of ASR, whose polls are booked too, with a provider that answers a submission as the live one does and a lock that holds |
| `asr_liveness` | with a provider that may answer at once, a lock that drops and a cost record whose job is lost: is a task submitted once, polled no more than allowed, only waited for once accepted, and resolved in the end? |
| `rb_safety` | does every due time become exactly one run, through repeated user actions, races of flows and crashes; are calls authorised, bounded and booked, and reports truthful and final? |
| `as_pool` | can the child of a waiting parent always run; is an input bought once under changing configurations? |
| `rb_liveness` | is a due brief run, with more briefs due than a batch holds, if those that are refused leave room in it? |
| `as_liveness` | is an approved input submitted, a pending one polled, with more waiting than a batch holds, if those that always fail leave room in it? |
| `collection` | is what the intake may be charged always booked, recorded truly and paid for once per video; is the plan of requests the cheapest; can every accepted brief run and does it keep exactly its scope; are comments requested once, progress kept, only whole videos selected, quotas kept, and how much of that is left when a lock is lost? |
| `desk` | is what leaves for a model or for ASR what a person approved; are media whole; is the preview right; does a waiting reviewer see the winner; do users' actions happen once; is a draft that is called saved saved; is evidence shown once; is the latest total kept? |
| `workspace` | was whoever may read, manage or use a share given that by who could give it, and does a project keep an owner; do cards rest on what is there; do decisions hold; does a grant never outlive its relation? |

A run that is expected to find a violation shows a disagreement between the code
and what the repository says of it:

| run | code | said by |
|---|---|---|
| `last_owner` | two owners revoke each other; the request that waited wrote its row with an earlier timestamp, and the project has no owner | `mutate_project_collaboration.py:75` |

Other disagreements, and oddities, met while modelling, which no run shows by itself:

- When the session of the ASR lock is lost, a late poll answer of one worker reopens a
  job that another closed, and it is polled again: the update of `_apply_state`
  (`asr_execution.py:376`) has no condition on the status, against
  `docs/ASR_EXECUTION_CONTROL_V1.md:70` (`ImplementsPaidTask` is checked with a
  lock that holds).
- A completed L3 call that cost less than its reservation lowers `spent_cost`
  (`SettleBudget`); `docs/L3_EXECUTION_CONTROL_V1.md:75` says this layer does not.
- Without a configured ceiling an L3 request, or an ASR one, whose price is not
  known is executed; `docs/L3_EXECUTION_CONTROL_V1.md:40` and
  `docs/ASR_EXECUTION_CONTROL_V1.md:36` make a known price a condition.
- An ASR provider that answers a submission with the result, followed by a failing
  job update, leaves a job `submit_failed` and linked to a completed cost
  (`ImplementsPaidTask` is therefore checked with `LiveAnswers` only);
  `docs/ASR_EXECUTION_CONTROL_V1.md:83`. The live provider never answers so.
- When the connection of the scheduler slot drops, two waiting parents can hold
  both workers (`ChildCanRun` is checked without `"drop"`), against
  `reviewed_dispatch.py:29`.
- As many inputs that can never be prepared as the batch holds keep later
  approvals from being dispatched, against `reviewed_dispatch.py:85`; pending jobs that no
  poll touches do the same to a poller's batch. `ApprovedIsAnalysed` states as its
  premises that from some moment on fewer than a batch of either exist
  (`DispatchHasRoom`, `PollHasRoom`); its run has batches that hold only some of what
  waits, and without either premise TLC finds the starvation.
- The brief dispatcher takes the five earliest due briefs without a look at their
  subject; a claim refuses a brief of an inactive subject and leaves it due, so that
  five of them starve all later ones, against
  `docs/RESEARCH_BRIEF_CONTROL_CENTER_V1.md:70`. `DueBriefRuns` states as its premise
  that from some moment on fewer than a batch are refused (`BatchHasRoom`); its run has
  three briefs and a batch of two, and without the premise TLC finds the starvation.
- When the session of a comment batch's lock drops (`comment_pipeline.py:149`), its
  worker goes on beside the next one. Two rows, or two eligibility runs, of one
  fingerprint may be made (`:300`); both workers may read an item before either wrote it
  (`:348`) and both request its comments; and an unconditional late write (`:370`, `:391`)
  may turn a success back into `collecting` or `reconciliation_required`. `RequestedOnce`
  allows one more run, and one more request of a run for a video, for each such session;
  `SelectedIsWhole` and `ProgressIsKept` except source runs that lost one from what they
  say of the items' later state, and keep what holds all the same: what is selected has
  stored features of its own run, and a collection that was begun is never forgotten.
- A search answers one page: a brief by keyword that asks for twenty items gets the five
  of `docs/V0_API_TEST_MATRIX.md:50` (`ScopeCollected`).
- Of a request without an estimate the budget preview says `estimate_required`
  (`l3/review.py:375`), while an execution under no ceiling sends it
  (`l3/execution.py:904`). An execution looks for a job of the request before it looks at
  the budget, and the preview does not: `PreviewAgrees` is about a known estimate and a
  request without a job.
- A parent that dies while its child has read the configuration but has no job yet
  lets the next run, under a changed configuration, buy the input again
  (`BoughtOnce` excepts such inputs), against
  `docs/REVIEWED_ANALYSIS_DISPATCH_V1.md:8`.
- A late answer to a closed profile panel removes the key that a newer panel of the
  same subject keeps for a submission of unknown fate
  (`SubjectProfilePanel.tsx:333`); `docs/SUBJECT_PROFILE_VERSION_V1.md:25` lets the
  user retry under that key. A lost role drops it as well.
- After approvals of evidence F1, then F2, and a return to F1, approving again replays
  the first answer, but the latest row is of F2, and
  `assert_persisted_l3_privacy_review` refuses for ever
  (`docs/L3_EVIDENCE_ASSEMBLY_V1.md:44`).
- A media worker that dies between the insert of a run and of its item, or between its
  item's success and the run's, leaves the run `running` for ever; an object that
  vanished from the bucket makes every later run fail at its verification.
- An intake run that fails after its discovery was stored never finds its videos new
  again; a failed run never gets its `api_cost`; an ambiguous commit leaves two
  rows for one call. `RecordsTrue` and `NoveltyIsOnce` state what remains.
- A pending ASR job cannot be polled while the delivery origin differs from the one it
  was submitted under, or its review is revoked: `_assert_job_matches` refuses it.
- After a lost lock an older supplier total can carry a newer `fetched_at` and replace
  a larger one (`LatestKept` excepts it).
- The global scorer sets the monitoring status of a video that a user had set
  (`scoring.py:192`). The statement that locks a project in
  `mutate_project_decision_loop.py` also reads the role of its actor, so that a
  role revoked while it waits still counts.

### Bounds

Two workers are enough for every race here: the code's conflicts are between two
invocations on one row, and a third only repeats one of the two roles. Two tasks
(or briefs, or items) show that what is per task is not mixed up and that shared
budgets are. The two days have different limits, one a number of requests and the
other a cost ceiling, so that a job booked or settled on the wrong day shows; the
prices 0, 1 and 3 give a call that costs less than it reserved, as much, or more.
`MaxTime`, `MaxDay`, the number of idempotency keys and `PollLimit` bound what
would be unbounded; time has room for three cadences. Liveness runs use smaller
instances, because TLC's liveness check is quadratic in practice: in `as_liveness` the only
review that moves is that of one input, in `rb_liveness` three briefs start due and each
project has one, while batches are smaller than what waits.
Symmetry is used only in runs without liveness properties.

In `rb_safety` one brief runs without calls under three user actions, and one with two
calls a run over two days under two; the pool of `as_pool` is that of production, three
kinds of parent and two workers. In `collection` two jobs meet over one video: a
scheduled job and the dashboard's, or a manual one and one of the billboard
only, with one fault anywhere; and two scheduled ones with one midnight and a lost
lock; two comment batches share one of two videos and promote under two keys, with one
lost session (`MaxLosses`), so that a batch has at most two rows, while the proofs are for any
number; what others do beside a worker or job (a manual page, a score, a find of another
run, an expiry) comes when it is about to be read, which is when it matters, and the
part with a lost session leaves no run marked failed; a search's page holds two videos or six, fewer and more than there are;
plans are evaluated up to 120 videos, more than two full groups of fifty; briefs
see videos of 60, 100 and 600 hours and one without a date, inside and outside
of each of the provider's windows, and item counts and cadences on both sides of
every limit. In `desk` two workers, reviewers or users meet in every part; requests
share a collection, an asset and a filter; three submissions come from two panels;
budgets are in two currencies and an estimate is known or not;
the local page lives for two of three ticks with two tabs; two jobs of the supplier's
totals run over five ticks of days of two. In `workspace` two owners act with
overlapping requests, two cards of which one is from before profiles may rest on
two profiles of one subject, two runs evaluate one video whose text and terms
change, and two relations with windows that end and begin carry one grant.

### Fairness

Every liveness module states a premise, `Calm`: from some moment on the environment
stops interfering, with no crash, no lost session, no user action
(`<>[][...]_vars`). A step of the code may look like a crash (an invocation that
leaves without having written anything), so `Calm` excludes only the steps that are
not also the code's own. Fairness is stated of the system's own steps. Weak fairness of a worker's steps says that a process that lives goes
on, and of `Fire` and `Dispatch` that schedules fire. Strong fairness is used where
a queue must not pass over the same entry for ever (Windmill starts queued jobs
in turn) and for the parents of `AnalysisSchedule`, whose ticks must now and then find
the slot free, since a parent that does not get it gives up until its next tick.

## 4. Proofs

Every safety invariant and every action property that a passing run checks is
also a theorem of its specification: it holds for any sets of workers, tasks, videos, keys and so on, and any
limits, and not only on the instance of the run. Four theorems state more than
the runs check: what is left of a promise when its hypothesis fails
(`CostsAreRecordedOnce`, `ClosedJobsAreRecorded`, `ChildrenAreAccounted`), and that
plans of requests are the cheapest of all (`NothingIsCheaper`). `PROJECT.json` lists the theorems.

A theorem rests on the named assumptions of the modules it is about and on nothing
else. They say what a constant is (`LimitAssumption`, `BoundAssumption`: a
limit is a number or `Unlimited`), that a placeholder is none of the values it stands
beside (`NoneAssumption`, `NoRowAssumption`), and that sets which are counted or summed
are finite (`TaskAssumption`, `IntakeAssumption`, `VideoAssumption`).
TLC evaluates each of them on a run. Three theorems carry a hypothesis of their own,
for a reason that a run or section 3 shows:

| theorem | hypothesis | without it |
|---|---|---|
| `ASRExecutionProofs!Refinement` | the lock is not lost, and a submission never answers `completed` | a late answer reopens a closed job; a job ends linked to a cost that says otherwise |
| `AnalysisScheduleProofs!InputsAreBoughtOnce` | the session that holds the slot is not lost, or one L3 dispatcher runs at a time, or the pool has two workers | two dispatchers find one input unknown at once, and a third worker runs the second child under a changed configuration |
| `AnalysisScheduleProofs!ChildrenCanRun` | the session is not lost, and the pool has more than one worker | two parents wait on two workers |

The alternatives in the second are what is deployed: `concurrent_limit: 1` in
`windmill/f/content_research/analysis/dispatch_reviewed_l3.script.yaml`, and two workers.

### The argument, component by component

Hardly any of the properties is inductive. In each proof module an inductive invariant says
what the property leaves unsaid; there is one lemma for each action, or for each way in
which actions change state (`MoveInv`, `ParentLeaves`, `HandGoes`: "this actor
goes on and the others keep what they rely on"), and the theorem follows by `PTL`.

*L3Execution* (`IndInv`, `BooksInv`). `OneReservedCall` says nothing that keeps two
workers from standing before the call of one task. The lock does not help, since it
may be lost; what helps is that `task_key` is unique, so that of the workers that
try to reserve only one inserts the job. `IndInv` says who *owns* a task (`OneOwner`),
what an invocation may rely on at each step although others act in between (`WorkerInv`:
at `call` the task was never called, at `settle` its cost is the one it stored, at
`reconJob` a completed cost has been settled), and how the records of one task fit
(`TaskInv`). Proved: `TypeOK`, `OneReservedCall`, `ClosedAsRecorded`, the action property
`ClosedForGood`, the refinement of `PaidTask`, and `BudgetKept`, for which
`MoneyInv` adds that only a failed job overran and that a reconciled one has its cost.

*ASRExecution* (`IndInv`, `BooksInv`, `KeptInv`, `LockInv`). What is submitted, polled, booked
and recorded needs no lock: a job is created once, and only its creator submits (`OneSubmitter`);
polls that were sent and those about to be never outnumber the booked ones
(`TaskInv`, a cardinality of the workers that are at a poll). `KeptInv` says that what an
invocation knows of its task no other can take back: that it was submitted, what the provider
answered for good, which cost is stored (`ForGood`). Two invocations that poll one task at once
after a lost lock then learn the same, so that the second finds the cost of the first
and stores no other (`CostsAreRecordedOnce`, a refinement of `PaidTask` in which nothing is closed), and a
job is closed only with a cost (`ClosedJobsAreRecorded`). That the status of a
job stays as that cost says does need the lock: `LockInv` is what the
holder finds at each step. A task whose job row was lost while its cost was stored is no
task of the promise; it is never submitted.

*ResearchBrief* (`IndInv`, `HistoryInv`, `SumInv`). The due times granted to a brief are
its runs, its cancellations and the one to come (`AccountInv`); to show that the runs
of one activation are a cadence apart, `EpochInv` relates each to the brief as it
is now. The days' counters are summed against the runs' (`SumInv`). The lock is not used: a run is of
the worker that claimed it, and a claim takes the due time away in the transaction
that makes the run. `ReportsTrue` is an action property.

*AnalysisSchedule* (`PoolInv`, `UsedInv`). The slot makes parents take turns (`SlotInv`), so that
a child that is waited for is the only one without a job (`ChildInv`); what a parent left behind
counts as `abandoned`. The invariant holds whatever is lost, and only the conjuncts that rest on the
slot name it: `SlotInv`, and through `OneBuyer` that an L3 input has no job while a child is
about to make one. That a parent waits for one child (`Alone`) needs no slot. `UsedInv` counts the
workers in use, so that on two workers a second dispatcher's child finds no
worker until its parent is gone; that is why a lost slot buys nothing twice there.

*CommentPipeline with L3Promotion* (`CollectionInv`, `CountInv`). `ItemFits` says what an item
shows whatever is lost, and what more while no session was (`Alone`); `StepFits` what a step
at an item then finds in its row (before the request: collecting, and no request was made).
What a lost session can cost is counted: the rows made of a batch and the workers about to make
one are together no more than one and the losses, as are the requests of a run for a video and
the workers about to make it, for besides the lock's holder only a worker whose session dropped
is inside (`Astray`). `PlanInv` says that a plan under way holds its
quota row, was made of what the row still says and leaves room for its own videos,
`Separate` that two plans hold different rows. `QuotaKept` is a sum over batches. The decision
itself is proved to take no more than `topN` and than the quota has left.

*GoldenIntake* (`IntakeInv`). `JobFits` relates one job's step to its own requests, call
rows, items and run (`Counted`, `Novel`, `Written`, `Balanced`, `Settled`); `Funded` relates
one day's ledger to the requests of that day *and those about to be sent*, which is what makes
`ChargesCovered` inductive: a request is paid for before it leaves. `LockKept` is what the lock
gives while it holds, that nobody else changes the day's ceiling. A fault is an alternative
of each step, before or after its commit, and `lapses` says which one excuses what.

*BriefPlan* (`BriefInv`). `FormsBecomeBriefs` and `BriefsAreValid` show that what the dashboard
accepts satisfies the table, the claim and the pipeline, each of which checks in words of its own;
`SearchKeepsNewest` that searching in a wider window and cutting afterwards keeps exactly
the newest videos of the hours asked for; `OneRequest` that one request for details is enough.

*VideoFetchPlan* (a pure algorithm: its only step asks for one video more). The table of best
plans is filled from none upward; its entries for up to fifty videos are known in closed form, cost
and number of calls (`TailCost`, `TailCalls`), by induction over a set of numbers: the next entry
is one of its candidates, and none of them is better (`OneIsBest`, `NextIsPlanned`). What any other
choice of requests costs has a closed form as well, and `NothingIsCheaper` compares the
two, the whole groups of fifty included.

*Evidence and reviews* (`ConsentInv`, `MediaReviewInv`, `IngestionInv`, `LocalInv`). Evidence
is read part by part; `ConsentInv` ties what was read to contents that the video had at one moment
(`was`), and to an approval by its stamp. `Justified` lists what a delivery has asserted
at each step and still holds. `RunFits` and `OnlyMine` say that a media worker with the
session lock has the only running item. `OneRight` says that the token, the session, a request in
the middle of rendering and an evidence shown exclude each other.

*People's actions* (`ResearchInv`, `DraftsInv`, `SpendInv`). `WorkFits` counts the rows a request
has touched under its locks, and two sessions hold different rows. Whatever carries a key of a draft has the
content of the submission that the key was made for (`Bound`). A snapshot being
brought is later than all that were offered (`SyncFits`).

*A project's workspace* (`AuthorizationInv`, `RelevanceInv`, `LoopInv`, `AccessInv`). A relation's
update is proved safe although its cascade takes grants one by one: those not yet taken are
`todo`, and `Apart` says that a grant being written at the same time waits. Versions of a
day's metric are numbered by a count that `MetricInv` shows to be a place in the log. A grant's
status is told by its history (`LogFits`), and only requests that held the lock of
their project counted its owners. `EventsInv` says that a session's `now()` is nobody
else's and, in a project it holds and that no request overtook, past every event: the
role that a request read is then the role just before its event, and no later row changes
that (`BeforeIsNow`, `HistoryStays`).

*Sums and order.* `SetLemmas` proves what the sum of a function over a finite set is: of
nothing, of one more or one fewer element, of a changed value, of equal functions, and that it is monotone. The
definition is a recursive function on subsets; induction over cardinalities is replaced by
the least element of a set of numbers. `Nth`, `InOrder` and `Pick` put a finite set of
numbers in order, by the number of those below.

### What stays with TLC

- Liveness (`AcceptedTaskResolves`, `ApprovedIsAnalysed`, `DueBriefRuns`, `TasksRecover`): fairness and `ENABLED` are
  out of the prover's reach.
- `LastOwnerStays`, which is violated (`last_owner`).

## 5. Plan

1. done: `PaidTask`, `L3Execution` with proofs and liveness; `ASRExecution`,
   `ResearchBrief` and `AnalysisSchedule` with liveness.
2. done: the collection side (`GoldenIntake`, `VideoFetchPlan`, `BriefPlan`,
   `L3Promotion`, `CommentPipeline`).
3. done: evidence and reviews (`MediaIngestion`, `MediaReview`, `L3Review`,
   `LocalReview`) and the dashboard (`ResearchState`, `ProfileDrafts`,
   `SupplierSpend`, `ProjectAccess`, `DecisionLoop`, `SubjectRelevance`,
   `AccountAuthorization`).
4. done: a theorem for every safety invariant and action property of a passing run.
5. done: what of the ASR promise holds after a lost lock, what a lost slot can cost, and
   that plans are the cheapest of all.

## 6. Not modelled

- The provider's path through the vendor's SDK, and requests of more than one attempt:
  every caller asks for one attempt of the plain transport. The configuration of the
  intake that prefers the cheapest endpoint changes prices only.
- Wire formats of adapters, text normalisation and tokenisation, the weights of scores,
  and the parser of the provider's bills, which nothing calls.
- Read-only queries, the MCP server, the dashboard's rendering and deployment: they keep
  no state that another component relies on. The scripts under `scripts/` are run
  by hand.
- Decimal digits: amounts are small whole numbers, so that the rounding of a stored
  estimate (`l3/execution.py:675`) is listed as a hazard without a property.
- SQL that operators write by hand, except where triggers are meant to hold against it
  (`DecisionLoop`, `AccountAuthorization`); `project_publication_record` has no such
  trigger, and a hand-written change of it is outside the model.
