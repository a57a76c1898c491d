------------------------------ MODULE GoldenIntake ------------------------------
(***************************************************************************)
(* The bounded paid intake of videos: its three entry points (the manual   *)
(* and the scheduled Windmill script and the dashboard's backend), run_live*)
(* of l0l1/real_data.py, the global path of l0l1/runner.py, the provider's *)
(* call with its cache, ledger, transport and records (providers/), and    *)
(* the rows of l0l1/ingest.py and l0l1/scoring.py.                         *)
(*                                                                         *)
(* A job makes one request for the billboard and at most one for details.  *)
(* Every database statement is a transaction of its own: it may fail, and  *)
(* it may fail having been committed. Amounts are thousandths of a dollar. *)
(***************************************************************************)
EXTENDS Integers, FiniteSets, FiniteSetsExt, Functions

CONSTANTS
  Jobs, Videos,
  Ceilings,    \* what a manual request may give as max_cost_usd
  NoCeiling,   \* max_cost of a plan or a day that has none
  MaxDay,      \* bound: midnights that pass
  MaxFaults,   \* bound: statements that fail, sessions that drop, deaths
  NoJob, NoLedger, NoPage, NoCost, Elsewhere

ASSUME IntakeAssumption ==
  /\ MaxDay \in Nat /\ MaxFaults \in Nat
  /\ Ceilings \subseteq Nat /\ NoCeiling \notin Nat /\ NoCost \notin Nat
  /\ NoJob \notin Jobs
  /\ NoLedger \notin [ceiling : Nat \cup {NoCeiling}, used : Nat, spent : Nat]

VARIABLES
  day,       \* date.today()
  lock,      \* the session that holds the advisory lock
  ledger,    \* daily_budget of this provider and key, by date
  cache,     \* external_api_response: the page of each request, unexpired
  rows,      \* external_api_call
  inserted,  \* source_video: the run that its row was inserted by
  items,     \* pipeline_run_item: stage and new_candidate of a run's videos
  pipeline,  \* pipeline_run: status and api_cost
  job,       \* a process
  attempts,  \* history: the HTTP requests that left
  peak,      \* history: the highest ceiling a day has had
  lapses     \* history: faults, a lock lost while its job went on, calls whose
             \* record failed, calls whose record failed when it was committed

intakeVars ==
  <<day, lock, ledger, cache, rows, inserted, items, pipeline, job, attempts, peak, lapses>>

NoItem == "none"
Fresh(plan) ==
  [plan |-> plan, pc |-> "start", result |-> "none", stage |-> "discovery", reserved |-> 0, day |-> 0, ids |-> {},
   page |-> NoPage, answer |-> "none", new |-> {}, recorded |-> {}]

Plan(entry, enrich, novel, force, calls, ceiling) ==
  [entry |-> entry, enrich |-> enrich, novel |-> novel, force |-> force, calls |-> calls,
   ceiling |-> ceiling]

(* make_plan: one billboard page and one batch of details are two calls.   *)
PlanValid(p) == (IF p.enrich THEN 2 ELSE 1) <= p.calls

(* What the three entry points ask for.                                    *)
ScheduledPlan == Plan("scheduled", TRUE, TRUE, FALSE, 2, NoCeiling)
ManualPlans ==
  {Plan("manual", enrich, FALSE, force, calls, ceiling) :
     enrich \in BOOLEAN, force \in BOOLEAN, calls \in 1..2, ceiling \in Ceilings}
DashboardPlans == {[p EXCEPT !.entry = "dashboard"] : p \in ManualPlans}
Plans == {p \in {ScheduledPlan} \cup ManualPlans \cup DashboardPlans : PlanValid(p)}

(* The requests by which a page is cached: the billboard's, and details.   *)
Requests ==
  {[stage |-> "discovery", ids |-> {}]}
    \cup {[stage |-> "details", ids |-> s] : s \in (SUBSET Videos) \ {{}}}

IntakeInit ==
  /\ day = 0 /\ lock = NoJob
  /\ ledger = [d \in 0..MaxDay |-> NoLedger]
  /\ cache = [q \in Requests |-> NoPage]
  /\ rows = {} /\ attempts = {}
  /\ inserted = [v \in Videos |-> NoJob]
  /\ items = [j \in Jobs |-> [v \in Videos |-> NoItem]]
  /\ pipeline = [j \in Jobs |-> [status |-> "none", cost |-> NoCost]]
  /\ job \in [Jobs -> {Fresh(p) : p \in Plans}]
  /\ peak = [d \in 0..MaxDay |-> 0]
  /\ lapses = [count |-> 0, lock |-> FALSE, unrecorded |-> {}, ambiguous |-> {}]

UnitCost(stage) == IF stage = "discovery" THEN 1 ELSE 50
Within(cost, ceiling) == ceiling = NoCeiling \/ cost <= ceiling
Request(j) == [stage |-> job[j].stage, ids |-> job[j].ids]
Call(j) == <<j, job[j].stage>>

Goto(j, pc) == job' = [job EXCEPT ![j].pc = pc]

Told(j, pc, result) == job' = [job EXCEPT ![j].pc = pc, ![j].result = result]

(* What a process knew is gone when it ends.                               *)
Ended(j, pc) ==
  job' = [job EXCEPT ![j].pc = pc, ![j].page = NoPage, ![j].answer = "none",
            ![j].new = {}, ![j].recorded = {}, ![j].ids = {}, ![j].reserved = 0, ![j].day = 0]
At(j, pc) == job[j].pc = pc

(* A statement that raises, and what a session that breaks costs.          *)
Lapse == lapses.count < MaxFaults /\ lapses' = [lapses EXCEPT !.count = @ + 1]

(* ------------------------------ the entry ------------------------------ *)

(* pg_try_advisory_lock: a scheduled job that loses is deferred, which is  *)
(* no error.                                                               *)
TakeLock(j) ==
  /\ At(j, "start")
  /\ IF lock = NoJob THEN lock' = j /\ Goto(j, "check")
     ELSE lock' = lock /\ Told(j, "done", IF job[j].plan.entry = "scheduled" THEN "deferred" ELSE "refused")
  /\ UNCHANGED <<day, ledger, cache, rows, inserted, items, pipeline, attempts, peak, lapses>>

Unlocked(j) == IF lock = j THEN NoJob ELSE lock

(* The end of _single_paid_job, however the job ended.                     *)
ReleaseLock(j) ==
  /\ At(j, "unlock")
  /\ lock' = Unlocked(j)
  /\ Ended(j, "done")
  /\ UNCHANGED <<day, ledger, cache, rows, inserted, items, pipeline, attempts, peak, lapses>>

(* The database, the caller and the secret, before anything is written.    *)
CheckCaller(j) ==
  /\ At(j, "check")
  /\ Goto(j, "configure") \/ Told(j, "unlock", "refused")
  /\ UNCHANGED <<day, lock, ledger, cache, rows, inserted, items, pipeline, attempts, peak, lapses>>

(* budget.configure of run_live: what the day has used stays.              *)
Configure(j) ==
  LET ceiling == job[j].plan.ceiling IN
  /\ At(j, "configure")
  /\ ledger' = [ledger EXCEPT ![day] =
                  IF @ = NoLedger THEN [ceiling |-> ceiling, used |-> 0, spent |-> 0]
                                  ELSE [@ EXCEPT !.ceiling = ceiling]]
  /\ peak' = [peak EXCEPT ![day] =
                IF ceiling = NoCeiling \/ @ = NoCeiling THEN NoCeiling ELSE Max({@, ceiling})]
  /\ Goto(j, "create")
  /\ UNCHANGED <<day, lock, cache, rows, inserted, items, pipeline, attempts, lapses>>

CreateRun(j) ==
  /\ At(j, "create")
  /\ pipeline' = [pipeline EXCEPT ![j].status = "running"]
  /\ Goto(j, "lookup")
  /\ UNCHANGED <<day, lock, ledger, cache, rows, inserted, items, attempts, peak, lapses>>

(* ------------------------------- a call -------------------------------- *)

Row(j, status, cached, quote) ==
  [job |-> j, stage |-> job[j].stage, status |-> status, cached |-> cached,
   billing |-> quote.billing, cost |-> quote.cost]

(* Mutant: an attempt without an answer costs nothing. *)
SilentIsFree(stage, answer) ==
  CASE answer \in {"cached", "refused", "lost"} -> [billing |-> "known_zero", cost |-> 0]
    [] answer = "ok" -> [billing |-> "estimated", cost |-> UnitCost(stage)]
    [] answer = "odd" -> [billing |-> "unknown", cost |-> 0]

(* quote_call of a single attempt: only a refusal is known to cost nothing *)
QuoteCall(stage, answer) ==
  CASE answer \in {"cached", "refused"} -> [billing |-> "known_zero", cost |-> 0]
    [] answer = "ok" -> [billing |-> "estimated", cost |-> UnitCost(stage)]
    [] answer \in {"odd", "lost"} -> [billing |-> "unknown", cost |-> 0]

(* record_call: the row is written, or not, or raises after it was.        *)
Record(j, row, next, fallback) ==
  \/ /\ rows' = rows \cup {row}
     /\ job' = [job EXCEPT ![j].pc = next, ![j].recorded = @ \cup {row}]
     /\ UNCHANGED lapses
  \/ \E committed \in BOOLEAN :
       /\ lapses.count < MaxFaults
       /\ lapses' = [lapses EXCEPT !.count = @ + 1,
                       !.unrecorded = IF row.status = "error" /\ ~committed THEN @ \cup {Call(j)} ELSE @,
                       !.ambiguous = IF committed THEN @ \cup {Call(j)} ELSE @]
       /\ rows' = IF committed THEN rows \cup {row} ELSE rows
       /\ job' = [job EXCEPT ![j].pc = fallback, ![j].recorded = @ \cup {row}]

(* Only the billboard's request carries force_refresh.                     *)
Cached(j) ==
  /\ ~(job[j].plan.force /\ job[j].stage = "discovery")
  /\ cache[Request(j)] # NoPage

(* get_cached finds a page: no reservation, and a row that says so.        *)
UseCache(j) ==
  LET found == [job EXCEPT ![j].page = cache[Request(j)], ![j].answer = "cached"]
      row == Row(j, "success", TRUE, QuoteCall(job[j].stage, "cached")) IN
  /\ At(j, "lookup") /\ Cached(j)
  /\ \/ /\ rows' = rows \cup {row}
        /\ job' = [found EXCEPT ![j].pc = "ingest", ![j].recorded = @ \cup {row}]
        /\ UNCHANGED lapses
     \/ /\ Lapse
        /\ rows' \in {rows, rows \cup {row}}
        /\ job' = [found EXCEPT ![j].pc = "fail", ![j].recorded = @ \cup {row}]
  /\ UNCHANGED <<day, lock, ledger, cache, inserted, items, pipeline, attempts, peak>>

(* Mutant: the ceiling of the day is not compared. *)
RunLimitOnly(j, book) == job[j].reserved < job[j].plan.calls /\ book # NoLedger

(* The run's own limit, then acquire of the day that it is by now.         *)
MayReserve(j, book) ==
  /\ job[j].reserved < job[j].plan.calls
  /\ book # NoLedger
  /\ Within(book.spent + UnitCost(job[j].stage), book.ceiling)

(* before_external_call: a refusal is raised before any request leaves.    *)
Reserve(j) ==
  /\ At(j, "lookup") /\ ~Cached(j)
  /\ IF MayReserve(j, ledger[day])
     THEN /\ ledger' = [ledger EXCEPT ![day].used = @ + 1,
                          ![day].spent = @ + UnitCost(job[j].stage)]
          /\ job' = [job EXCEPT ![j].pc = "send", ![j].reserved = @ + 1, ![j].day = day]
     ELSE ledger' = ledger /\ Goto(j, "fail")
  /\ UNCHANGED <<day, lock, cache, rows, inserted, items, pipeline, attempts, peak, lapses>>

(* One HTTP attempt. 200 is charged and a refusal is not; of what is lost  *)
(* or answered with another status nobody here knows.                      *)
Charges(answer) ==
  CASE answer = "ok" -> {TRUE} [] answer = "refused" -> {FALSE} [] OTHER -> BOOLEAN

(* What the transport makes of an answer: of one without a status, of one  *)
(* that is an error, and of one that is neither.                           *)
Answers == {"ok", "odd", "refused", "lost"}
Readable(answer) == answer \in {"ok", "odd"}

(* Whatever distinct videos a billboard names, and those that were asked   *)
(* for of a page of details.                                               *)
BillboardPages == SUBSET Videos
DetailPages(ids) == SUBSET ids

(* transport.call, and the envelope, which may be unreadable all the same. *)
Send(j) ==
  /\ At(j, "send")
  /\ \E answer \in Answers : \E charged \in Charges(answer) :
       /\ attempts' = attempts \cup
            {[job |-> j, stage |-> job[j].stage, day |-> job[j].day, ids |-> job[j].ids,
              charged |-> charged]}
       /\ \/ /\ Readable(answer)
             /\ \E page \in IF job[j].stage = "discovery" THEN BillboardPages
                           ELSE DetailPages(job[j].ids) :
                  job' = [job EXCEPT ![j].pc = "save", ![j].answer = answer, ![j].page = page]
          \/ job' = [job EXCEPT ![j].pc = "error", ![j].answer = answer]
  /\ UNCHANGED <<day, lock, ledger, cache, rows, inserted, items, pipeline, peak, lapses>>

(* save_response                                                           *)
SaveResponse(j) ==
  LET saved == [cache EXCEPT ![Request(j)] = job[j].page] IN
  /\ At(j, "save")
  /\ \/ cache' = saved /\ Goto(j, "record") /\ UNCHANGED lapses
     \/ Lapse /\ cache' \in {cache, saved} /\ Goto(j, "error")
  /\ UNCHANGED <<day, lock, ledger, rows, inserted, items, pipeline, attempts, peak>>

RecordSuccess(j) ==
  /\ At(j, "record")
  /\ Record(j, Row(j, "success", FALSE, QuoteCall(job[j].stage, job[j].answer)), "ingest", "error")
  /\ UNCHANGED <<day, lock, ledger, cache, inserted, items, pipeline, attempts, peak>>

(* The handler of whatever is raised once the request has left.            *)
RecordError(j) ==
  /\ At(j, "error")
  /\ Record(j, Row(j, "error", FALSE, QuoteCall(job[j].stage, job[j].answer)), "fail", "fail")
  /\ UNCHANGED <<day, lock, ledger, cache, inserted, items, pipeline, attempts, peak>>

(* ------------------------------- the run ------------------------------- *)

(* Mutant: what the page holds is new to the run. *)
EveryVideo(page) == page

(* xmax = 0 of the upsert: the row that this statement inserted.           *)
NewIn(page) == {v \in page : inserted[v] = NoJob}

DetailIds(plan, page, new) ==
  IF ~plan.enrich THEN {} ELSE IF plan.novel THEN new ELSE page

(* ingest of the billboard, or of details, whose videos are all known.     *)
Ingest(j) ==
  LET page == job[j].page
      new == IF job[j].stage = "discovery" THEN NewIn(page) ELSE job[j].new
      ids == IF job[j].stage = "discovery" THEN DetailIds(job[j].plan, page, new) ELSE {} IN
  /\ At(j, "ingest")
  /\ \/ /\ inserted' = [v \in Videos |->
                          IF v \in page /\ inserted[v] = NoJob THEN j ELSE inserted[v]]
        /\ items' = [items EXCEPT ![j] =
                       [v \in Videos |-> IF v \in page /\ @[v] = NoItem THEN "L0" ELSE @[v]]]
        /\ job' = [job EXCEPT ![j].new = new, ![j].page = NoPage, ![j].answer = "none",
                     ![j].pc = IF ids = {} THEN "score" ELSE "lookup",
                     ![j].stage = IF ids = {} THEN @ ELSE "details",
                     ![j].ids = IF ids = {} THEN @ ELSE ids]
        /\ UNCHANGED lapses
     \/ Lapse /\ Goto(j, "fail") /\ UNCHANGED <<inserted, items>>
  /\ UNCHANGED <<day, lock, ledger, cache, rows, pipeline, attempts, peak>>

(* score_run of a global run: every item of the run.                       *)
Score(j) ==
  /\ At(j, "score")
  /\ \/ /\ items' = [items EXCEPT ![j] = [v \in Videos |-> IF @[v] = "L0" THEN "L1" ELSE @[v]]]
        /\ Goto(j, "flag") /\ UNCHANGED lapses
     \/ Lapse /\ Goto(j, "fail") /\ UNCHANGED items
  /\ UNCHANGED <<day, lock, ledger, cache, rows, inserted, pipeline, attempts, peak>>

(* set_new_candidate_flags                                                 *)
FlagNew(j) ==
  /\ At(j, "flag")
  /\ \/ /\ items' = [items EXCEPT ![j] =
                       [v \in Videos |-> IF @[v] # "L1" THEN @[v]
                                         ELSE IF v \in job[j].new THEN "new" ELSE "known"]]
        /\ Goto(j, "finish") /\ UNCHANGED lapses
     \/ Lapse /\ Goto(j, "fail") /\ UNCHANGED items
  /\ UNCHANGED <<day, lock, ledger, cache, rows, inserted, pipeline, attempts, peak>>

(* finish_run of the runner                                                *)
FinishRun(j) ==
  /\ At(j, "finish")
  /\ \/ /\ pipeline' = [pipeline EXCEPT ![j].status = "success"]
        /\ Goto(j, "cost") /\ UNCHANGED lapses
     \/ /\ Lapse /\ Goto(j, "fail")
        /\ pipeline' \in {pipeline, [pipeline EXCEPT ![j].status = "success"]}
  /\ UNCHANGED <<day, lock, ledger, cache, rows, inserted, items, attempts, peak>>

(* The exception handler of the runner; the exception goes on.             *)
FailRun(j) ==
  /\ At(j, "fail")
  /\ Told(j, "unlock", "failed")
  /\ \/ pipeline' = [pipeline EXCEPT ![j].status = "failed"] /\ UNCHANGED lapses
     \/ Lapse /\ UNCHANGED pipeline
  /\ UNCHANGED <<day, lock, ledger, cache, rows, inserted, items, attempts, peak>>

SumOfCosts(recorded) == SumFunctionOnSet([r \in recorded |-> r.cost], recorded)

(* The second finish_run, with the cost of what this process recorded.     *)
FinishCost(j) ==
  /\ At(j, "cost")
  /\ \/ /\ pipeline' = [pipeline EXCEPT ![j] =
                          [status |-> "success", cost |-> SumOfCosts(job[j].recorded)]]
        /\ Goto(j, "summary") /\ UNCHANGED lapses
     \/ Lapse /\ Told(j, "unlock", "failed") /\ UNCHANGED pipeline
  /\ UNCHANGED <<day, lock, ledger, cache, rows, inserted, items, attempts, peak>>

(* _completed_run of a scheduled job reads its run again; the counts of    *)
(* its summary, and of the other entry points', are of what was recorded.  *)
Summarise(j) ==
  /\ At(j, "summary")
  /\ \/ /\ Told(j, "unlock", IF job[j].plan.entry = "scheduled" /\ pipeline[j].status # "success"
                            THEN "failed" ELSE "completed")
        /\ UNCHANGED lapses
     \/ job[j].plan.entry = "scheduled" /\ Lapse /\ Told(j, "unlock", "failed")
  /\ UNCHANGED <<day, lock, ledger, cache, rows, inserted, items, pipeline, attempts, peak>>

(* ----------------------------- around it ------------------------------- *)

Midnight ==
  /\ day < MaxDay
  /\ day' = day + 1
  /\ UNCHANGED <<lock, ledger, cache, rows, inserted, items, pipeline, job, attempts, peak, lapses>>

(* The expiry of a page.                                                   *)
Expire(q) ==
  /\ cache[q] # NoPage
  /\ cache' = [cache EXCEPT ![q] = NoPage]
  /\ UNCHANGED <<day, lock, ledger, rows, inserted, items, pipeline, job, attempts, peak, lapses>>

(* A project's run finds a video first.                                    *)
OtherIngest(v) ==
  /\ inserted[v] = NoJob
  /\ inserted' = [inserted EXCEPT ![v] = Elsewhere]
  /\ UNCHANGED <<day, lock, ledger, cache, rows, items, pipeline, job, attempts, peak, lapses>>

Running(j) == job[j].pc \notin {"start", "done", "dead"}

(* The worker dies, and its session with it.                               *)
Die(j) ==
  /\ Running(j)
  /\ Lapse
  /\ lock' = Unlocked(j)
  /\ Ended(j, "dead")
  /\ UNCHANGED <<day, ledger, cache, rows, inserted, items, pipeline, attempts, peak>>

(* The session of the lock drops; the job uses others and goes on.         *)
DropSession(j) ==
  /\ lock = j
  /\ lapses.count < MaxFaults
  /\ lapses' = [lapses EXCEPT !.count = @ + 1, !.lock = TRUE]
  /\ lock' = NoJob
  /\ UNCHANGED <<day, ledger, cache, rows, inserted, items, pipeline, job, attempts, peak>>

IntakeNext ==
  \/ \E j \in Jobs :
       \/ TakeLock(j) \/ ReleaseLock(j) \/ CheckCaller(j) \/ Configure(j) \/ CreateRun(j)
       \/ UseCache(j) \/ Reserve(j) \/ Send(j) \/ SaveResponse(j)
       \/ RecordSuccess(j) \/ RecordError(j)
       \/ Ingest(j) \/ Score(j) \/ FlagNew(j) \/ FinishRun(j) \/ FailRun(j) \/ FinishCost(j)
       \/ Summarise(j)
       \/ Die(j) \/ DropSession(j)
  \/ Midnight
  \/ \E q \in Requests : Expire(q)
  \/ \E v \in Videos : OtherIngest(v)

IntakeSpec == IntakeInit /\ [][IntakeNext]_intakeVars

-----------------------------------------------------------------------------
(* ----------------------------- properties ------------------------------ *)

PriceOf(calls) == SumFunctionOnSet([a \in calls |-> UnitCost(a.stage)], calls)

(* Whatever fails, the ledger of a day has booked at least what the        *)
(* provider may charge for the requests reserved on it, and never more     *)
(* than a ceiling that the day has had; a run makes no more requests than  *)
(* its plan allows, and while locks are kept none takes the day above its  *)
(* own plan's ceiling.                                                     *)
ChargesCovered ==
  /\ \A d \in 0..MaxDay :
       LET made == {a \in attempts : a.day = d} IN
       /\ made # {} => ledger[d] # NoLedger
       /\ ledger[d] # NoLedger =>
            /\ Cardinality(made) <= ledger[d].used
            /\ PriceOf({a \in made : a.charged}) <= ledger[d].spent
            /\ Within(ledger[d].spent, peak[d])
  /\ \A j \in Jobs :
       /\ Cardinality({a \in attempts : a.job = j}) <= job[j].plan.calls
       /\ ~lapses.lock /\ lock = j /\ job[j].reserved > 0 =>
            Within(ledger[job[j].day].spent, job[j].plan.ceiling)

InCall(a) ==
  /\ job[a.job].stage = a.stage
  /\ job[a.job].pc \in {"save", "record", "error", "dead"}

SameCall(a, row) == a.job = row.job /\ a.stage = row.stage

(* A row of a call that was not cached is of a request that left, and says *)
(* that it cost nothing, or has an estimate, only if that is so. A request *)
(* that left has a row unless its job is still in the call, has died or    *)
(* could not write it, and two only if a commit was ambiguous. The cost of *)
(* a completed run is what its rows add up to, and with the calls whose    *)
(* cost is unknown it covers what the run was charged; a job says that it  *)
(* completed only of a run that has succeeded and has its cost, and that   *)
(* it was deferred or refused only if it has made no request.              *)
RecordsTrue ==
  /\ \A row \in rows : ~row.cached =>
       \E a \in attempts :
         /\ SameCall(a, row)
         /\ row.billing = "known_zero" => ~a.charged
         /\ row.billing = "estimated" => a.charged
  /\ \A a \in attempts :
       \/ InCall(a)
       \/ <<a.job, a.stage>> \in lapses.unrecorded
       \/ \E row \in rows : SameCall(a, row) /\ ~row.cached
  /\ \A r1, r2 \in rows :
       r1.job = r2.job /\ r1.stage = r2.stage /\ r1 # r2 => <<r1.job, r1.stage>> \in lapses.ambiguous
  /\ \A j \in Jobs : pipeline[j].cost # NoCost =>
       LET mine == {row \in rows : row.job = j}
           unknown == {row \in mine : row.billing = "unknown"} IN
       /\ pipeline[j].cost = SumOfCosts(mine)
       /\ PriceOf({a \in attempts : a.job = j /\ a.charged}) <= pipeline[j].cost + PriceOf(unknown)
  /\ \A j \in Jobs :
       /\ job[j].result = "completed" => pipeline[j].status = "success" /\ pipeline[j].cost # NoCost
       /\ job[j].result \in {"deferred", "refused"} => \A a \in attempts : a.job # j

(* A video is a new candidate of at most one run, the one that inserted    *)
(* it, and scheduled jobs pay for the details of those alone, so that they *)
(* pay for a video once, even when two of them run at the same time.       *)
NoveltyIsOnce ==
  /\ \A j \in Jobs : \A v \in Videos : items[j][v] = "new" => inserted[v] = j
  /\ \A a \in attempts : a.stage = "details" /\ job[a.job].plan.novel =>
       \A v \in a.ids : inserted[v] = a.job
=============================================================================
