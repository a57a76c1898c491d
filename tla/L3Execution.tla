---------------------------- MODULE L3Execution ----------------------------
(***************************************************************************)
(* The one-shot paid L3 model call: L3ExecutionCoordinator.run of          *)
(* src/src/douyin_research/l3/execution.py and the result store it commits *)
(* through (l3/results.py).                                                *)
(*                                                                         *)
(* A worker is one invocation of run(). Each action is one database        *)
(* transaction (or one external call), so that a crash, an exception or    *)
(* another worker may come between any two of them. Mutual exclusion is a  *)
(* session advisory lock: it vanishes with the connection that holds it,   *)
(* while the worker that lost it goes on.                                  *)
(***************************************************************************)
EXTENDS Integers, FiniteSetsExt, Functions

CONSTANTS
  Workers,      \* concurrent invocations of run()
  Tasks,        \* task keys, each for a video of its own
  Days,         \* budget dates; one daily_budget row for each
  Prices,       \* the amounts a call may be estimated at or cost
  Estimates,    \* the estimates a request may carry, Unknown if no price
  MaxRequests,  \* daily_budget.max_requests by date, or Unlimited (NULL)
  MaxCost,      \* daily_budget.max_cost by date, or Unlimited (NULL)
  Unknown,      \* a NULL price
  Unlimited,    \* a NULL limit
  NoDay,        \* a request without a budget date
  NoTask,
  NoWorker

ASSUME PriceAssumption ==
  /\ Prices \subseteq Nat
  /\ Unknown \notin Nat
  /\ Estimates \subseteq Prices \cup {Unknown}

ASSUME LimitAssumption ==
  /\ Unlimited \notin Nat
  /\ MaxRequests \in [Days -> Nat \cup {Unlimited}]
  /\ MaxCost \in [Days -> Nat \cup {Unlimited}]

ASSUME TaskAssumption == IsFiniteSet(Tasks)

ASSUME NoneAssumption ==
  /\ NoDay \notin Days
  /\ NoTask \notin Tasks
  /\ NoWorker \notin Workers

VARIABLES
  lock,     \* holder of the advisory lock L3_LOCK_NAME
  pc,       \* pc[w]: what invocation w does next
  req,      \* req[w]: the request it runs
  answer,   \* answer[w]: the provider's cost, once called
  jobs,     \* l3_execution_job by task_key
  costs,    \* research_task_cost by task_key
  level,    \* source_video.research_level of the task's video; from 2 on
            \* the video also has a selected decision for level 3
  used,     \* daily_budget.used_requests by date
  spent,    \* daily_budget.spent_cost
  unknown,  \* daily_budget.unknown_price_requests
  calls     \* history: model calls made for each task

budget == <<used, spent, unknown>>
vars == <<lock, pc, req, answer, jobs, costs, level, used, spent, unknown, calls>>

Price == Prices \cup {Unknown}
NoJob == [status |-> "none", est |-> Unknown, day |-> NoDay,
          reconciled |-> FALSE, linked |-> FALSE]
NoCost == [status |-> "none", llm |-> Unknown]
NoRequest == [key |-> NoTask, est |-> Unknown, day |-> NoDay]

Job == [status : {"none", "running", "completed", "failed"},
        est : Price, day : Days \cup {NoDay},
        reconciled : BOOLEAN,  \* metadata.budget_reconciled
        linked : BOOLEAN]      \* task_cost_id is not null
Cost == [status : {"none", "completed", "failed"}, llm : Price]
Request == [key : Tasks \cup {NoTask}, est : Price, day : Days \cup {NoDay}]

Steps == {"idle", "load", "recon", "reconBudget", "reconJob",
          "preflight", "reserve", "call", "ingest", "settle", "complete",
          "check", "failCost", "failJob", "overrun"}

Terminal == {"completed", "failed"}

TypeOK ==
  /\ lock \in Workers \cup {NoWorker}
  /\ pc \in [Workers -> Steps]
  /\ req \in [Workers -> Request]
  /\ answer \in [Workers -> Price]
  /\ jobs \in [Tasks -> Job]
  /\ costs \in [Tasks -> Cost]
  /\ level \in [Tasks -> 1..3]
  /\ used \in [Days -> Nat]
  /\ spent \in [Days -> Nat]
  /\ unknown \in [Days -> Nat]
  /\ calls \in [Tasks -> Nat]

Init ==
  /\ lock = NoWorker
  /\ pc = [w \in Workers |-> "idle"]
  /\ req = [w \in Workers |-> NoRequest]
  /\ answer = [w \in Workers |-> Unknown]
  /\ jobs = [k \in Tasks |-> NoJob]
  /\ costs = [k \in Tasks |-> NoCost]
  /\ level = [k \in Tasks |-> 1]
  /\ used = [d \in Days |-> 0]
  /\ spent = [d \in Days |-> 0]
  /\ unknown = [d \in Days |-> 0]
  /\ calls = [k \in Tasks |-> 0]

-----------------------------------------------------------------------------
(* Control of one invocation.                                              *)

At(w, step) == pc[w] = step
Goto(w, step) == pc' = [pc EXCEPT ![w] = step]

(* Mutant: the lock is not given back when run() ends. *)
LeaveLocked(w) ==
  /\ pc' = [pc EXCEPT ![w] = "idle"]
  /\ req' = [req EXCEPT ![w] = NoRequest]
  /\ answer' = [answer EXCEPT ![w] = Unknown]
  /\ lock' = lock

(* run() returns or raises: the context manager gives the lock back. *)
Leave(w) ==
  /\ pc' = [pc EXCEPT ![w] = "idle"]
  /\ req' = [req EXCEPT ![w] = NoRequest]
  /\ answer' = [answer EXCEPT ![w] = Unknown]
  /\ lock' = IF lock = w THEN NoWorker ELSE lock

(* Enter run() with a request and take the lock; a busy lock raises before *)
(* anything is read. A request may carry a budget date or leave it open.   *)
Start(w) ==
  /\ At(w, "idle")
  /\ lock = NoWorker
  /\ lock' = w
  /\ \E k \in Tasks, e \in Estimates, d \in Days \cup {NoDay} :
       req' = [req EXCEPT ![w] = [key |-> k, est |-> e, day |-> d]]
  /\ Goto(w, "load")
  /\ UNCHANGED <<answer, jobs, costs, level, budget, calls>>

(* The process dies, a connection fails outside the handled blocks, or a   *)
(* gate refuses (evidence, privacy review, provider contract): run() ends  *)
(* with whatever it had committed.                                         *)
Abort(w) ==
  /\ ~At(w, "idle")
  /\ Leave(w)
  /\ UNCHANGED <<jobs, costs, level, budget, calls>>

(* The connection that holds the session lock drops; the worker goes on.   *)
LoseLock(w) ==
  /\ lock = w
  /\ lock' = NoWorker
  /\ UNCHANGED <<pc, req, answer, jobs, costs, level, budget, calls>>

(* _assert_job_matches: the stored inputs must be the request's. *)
JobMatches(j, r) ==
  /\ j.est = r.est
  /\ r.day \in {NoDay, j.day}

(* _load_job, then the return of _reconcile_terminal for a terminal job.   *)
Load(w) ==
  LET j == jobs[req[w].key] IN
  /\ At(w, "load")
  /\ \/ /\ j.status = "none"
        /\ Goto(w, "preflight")
        /\ UNCHANGED <<req, answer, lock>>
     \/ /\ j.status = "running"
        /\ JobMatches(j, req[w])
        /\ Goto(w, "recon")
        /\ UNCHANGED <<req, answer, lock>>
     \/ /\ j.status # "none"
        /\ j.status = "running" => ~JobMatches(j, req[w])
        /\ Leave(w)
  /\ UNCHANGED <<jobs, costs, level, budget, calls>>

-----------------------------------------------------------------------------
(* Reconciliation of a job found running.                                  *)

(* Mutant: every job found running is left to an operator. *)
ReconGivesUp(w) ==
  /\ At(w, "recon")
  /\ Leave(w)
  /\ UNCHANGED <<jobs, costs, level, budget, calls>>

(* _reconcile_terminal looks for the cost of the task. Without one the     *)
(* call may or may not have been billed: reconciliation_required.          *)
Recon(w) ==
  LET c == costs[req[w].key] IN
  /\ At(w, "recon")
  /\ \/ c.status = "none" /\ Leave(w)
     \/ c.status = "completed" /\ Goto(w, "reconBudget") /\ UNCHANGED <<req, answer, lock>>
     \/ c.status = "failed" /\ Goto(w, "reconJob") /\ UNCHANGED <<req, answer, lock>>
  /\ UNCHANGED <<jobs, costs, level, budget, calls>>

AmountOf(price) == IF price = Unknown THEN 0 ELSE price
Positive(n) == IF n > 0 THEN n ELSE 0

(* Mutant: settle again on every reconciliation.                           *)
NeverSettled(k) == FALSE

AlreadySettled(k) == jobs[k].reconciled

(* Mutant: a price still unknown after the call no longer counts as such.  *)
CountsAsKnown(actual) == TRUE

PriceKnown(actual) == actual # Unknown

(* _reconcile_completed_budget: replace the reservation by the actual cost *)
(* on the row the job was charged to, once.                                *)
SettleBudget(k, est, actual) ==
  LET d == jobs[k].day IN
  /\ jobs' = [jobs EXCEPT ![k].reconciled = TRUE]
  /\ \/ /\ AlreadySettled(k) \/ ~PriceKnown(actual)
        /\ UNCHANGED budget
     \/ /\ ~AlreadySettled(k) /\ PriceKnown(actual) /\ est = Unknown
        /\ spent' = [spent EXCEPT ![d] = @ + AmountOf(actual)]
        /\ unknown' = [unknown EXCEPT ![d] = Positive(@ - 1)]
        /\ UNCHANGED used
     \/ /\ ~AlreadySettled(k) /\ PriceKnown(actual) /\ est # Unknown
        /\ spent' = [spent EXCEPT ![d] = Positive(@ + AmountOf(actual) - est)]
        /\ UNCHANGED <<used, unknown>>

ReconBudget(w) ==
  LET k == req[w].key IN
  /\ At(w, "reconBudget")
  /\ SettleBudget(k, req[w].est, costs[k].llm)
  /\ Goto(w, "reconJob")
  /\ UNCHANGED <<lock, req, answer, costs, level, calls>>

(* The job takes the status of its cost. *)
CloseJob(k, status) ==
  jobs' = [jobs EXCEPT ![k].status = status, ![k].linked = TRUE]

ReconJob(w) ==
  LET k == req[w].key IN
  /\ At(w, "reconJob")
  /\ CloseJob(k, costs[k].status)
  /\ Leave(w)
  /\ UNCHANGED <<costs, level, budget, calls>>

-----------------------------------------------------------------------------
(* A new task: gates, reservation, the call.                               *)

(* _preflight against the budget row of day d; the gates that read nothing *)
(* modelled here may only refuse.                                          *)
PreflightPasses(r, d) ==
  /\ level[r.key] >= 2
  /\ costs[r.key].status = "none"
  /\ MaxCost[d] # Unlimited => r.est # Unknown

(* Mutant: the model is called before the budget is reserved. *)
PreflightCalls(w) ==
  /\ At(w, "preflight")
  /\ \E d \in Days : PreflightPasses(req[w], d)
  /\ Goto(w, "call")
  /\ UNCHANGED <<req, answer, lock>>
  /\ UNCHANGED <<jobs, costs, level, budget, calls>>

(* A request without a date reads the row of the day it is; reservation    *)
(* may come after midnight.                                                *)
Preflight(w) ==
  /\ At(w, "preflight")
  /\ \E d \in Days :
       /\ req[w].day \in {NoDay, d}
       /\ \/ /\ PreflightPasses(req[w], d)
             /\ Goto(w, "reserve")
             /\ UNCHANGED <<req, answer, lock>>
          \/ ~PreflightPasses(req[w], d) /\ Leave(w)
  /\ UNCHANGED <<jobs, costs, level, budget, calls>>

(* Mutant: the limits are compared with what is used already. *)
WithinBudgetBefore(d, est) ==
  /\ MaxRequests[d] # Unlimited => used[d] <= MaxRequests[d]
  /\ MaxCost[d] # Unlimited => est # Unknown /\ spent[d] <= MaxCost[d]

(* _reserve_budget: what the locked row of day d must allow. *)
WithinBudget(d, est) ==
  /\ MaxRequests[d] # Unlimited => used[d] + 1 <= MaxRequests[d]
  /\ MaxCost[d] # Unlimited =>
       /\ est # Unknown
       /\ spent[d] + AmountOf(est) <= MaxCost[d]

ReserveBudget(d, est) ==
  /\ used' = [used EXCEPT ![d] = @ + 1]
  /\ spent' = [spent EXCEPT ![d] = @ + AmountOf(est)]
  /\ unknown' = [unknown EXCEPT ![d] = IF est = Unknown THEN @ + 1 ELSE @]

(* Mutant: task_key is not unique. *)
TaskKeyReusable(k) == jobs[k].status \in {"none", "running", "completed", "failed"}

(* task_key is unique: a second insert raises and rolls the reservation    *)
(* back with it.                                                           *)
TaskKeyFree(k) == jobs[k].status = "none"

(* _reserve_and_create on the budget row of day d: reservation and running *)
(* job in one transaction.                                                 *)
ReserveAndCreate(w, d) ==
  LET k == req[w].key
      e == req[w].est
  IN
  /\ At(w, "reserve")
  /\ req[w].day \in {NoDay, d}
  /\ WithinBudget(d, e)
  /\ TaskKeyFree(k)
  /\ ReserveBudget(d, e)
  /\ jobs' = [jobs EXCEPT ![k] = [status |-> "running", est |-> e, day |-> d,
                                  reconciled |-> FALSE, linked |-> FALSE]]
  /\ req' = [req EXCEPT ![w] = [key |-> k, est |-> e, day |-> d]]
  /\ Goto(w, "call")
  /\ UNCHANGED <<lock, answer, costs, level, calls>>

(* It raises, and leaves no trace. *)
RefuseReservation(w, d) ==
  /\ At(w, "reserve")
  /\ req[w].day \in {NoDay, d}
  /\ ~(WithinBudget(d, req[w].est) /\ TaskKeyFree(req[w].key))
  /\ Leave(w)
  /\ UNCHANGED <<jobs, costs, level, budget, calls>>

(* _validate_response on a well-formed answer of cost c. *)
Overruns(est, c) == est # Unknown /\ c # Unknown /\ c > est

(* provider.generate: it raises, answers something else than was asked, or *)
(* answers with a cost.                                                    *)
Call(w) ==
  LET k == req[w].key IN
  /\ At(w, "call")
  /\ calls' = [calls EXCEPT ![k] = @ + 1]
  /\ \/ Goto(w, "failCost") /\ UNCHANGED answer
     \/ Goto(w, "check") /\ UNCHANGED answer
     \/ \E c \in Price :
          /\ answer' = [answer EXCEPT ![w] = c]
          /\ Goto(w, IF Overruns(req[w].est, c) THEN "overrun" ELSE "ingest")
  /\ UNCHANGED <<lock, req, jobs, costs, level, budget>>

-----------------------------------------------------------------------------
(* A valid answer is stored, settled and closed in three transactions.     *)

(* L3ResearchStore.ingest: cost, analysis and research level. The commit   *)
(* may succeed and its acknowledgement be lost.                            *)
Ingest(w) ==
  LET k == req[w].key IN
  /\ At(w, "ingest")
  /\ level[k] >= 2
  /\ costs[k].status = "none"
  /\ costs' = [costs EXCEPT ![k] = [status |-> "completed", llm |-> answer[w]]]
  /\ level' = [level EXCEPT ![k] = 3]
  /\ Goto(w, "settle") \/ Goto(w, "check")
  /\ UNCHANGED <<lock, req, answer, jobs, budget, calls>>

Settle(w) ==
  /\ At(w, "settle")
  /\ SettleBudget(req[w].key, req[w].est, answer[w])
  /\ Goto(w, "complete") \/ Goto(w, "check")
  /\ UNCHANGED <<lock, req, answer, costs, level, calls>>

(* _mark_completed. *)
Complete(w) ==
  /\ At(w, "complete")
  /\ CloseJob(req[w].key, "completed")
  /\ \/ Leave(w)
     \/ Goto(w, "check") /\ UNCHANGED <<lock, req, answer>>
  /\ UNCHANGED <<costs, level, budget, calls>>

(* One of the three raises without having committed. *)
StoreFails(w) ==
  /\ pc[w] \in {"ingest", "settle", "complete"}
  /\ Goto(w, "check")
  /\ UNCHANGED <<lock, req, answer, jobs, costs, level, budget, calls>>

(* Mutant: every such exception is taken for a failed call. *)
CheckNothing(w) ==
  /\ At(w, "check")
  /\ Goto(w, "failCost")
  /\ UNCHANGED <<lock, req, answer, jobs, costs, level, budget, calls>>

(* The handler of those exceptions, and of an invalid answer: without a    *)
(* cost the task failed; with one, reconcile the job as it now is.         *)
Check(w) ==
  /\ At(w, "check")
  /\ Goto(w, IF costs[req[w].key].status = "none" THEN "failCost" ELSE "load")
  /\ UNCHANGED <<lock, req, answer, jobs, costs, level, budget, calls>>

-----------------------------------------------------------------------------
(* A failed call.                                                          *)

(* _record_failed_cost: a failed cost of unknown amount, unless the task   *)
(* has a cost already. The reservation stays.                              *)
FailCost(w) ==
  LET k == req[w].key IN
  /\ At(w, "failCost")
  /\ costs' = IF costs[k].status = "none"
              THEN [costs EXCEPT ![k] = [status |-> "failed", llm |-> Unknown]]
              ELSE costs
  /\ Goto(w, "failJob")
  /\ UNCHANGED <<lock, req, answer, jobs, level, budget, calls>>

FailJob(w) ==
  /\ At(w, "failJob")
  /\ CloseJob(req[w].key, "failed")
  /\ Leave(w)
  /\ UNCHANGED <<costs, level, budget, calls>>

(* Mutant: the excess is taken off the budget. *)
CostOverrunRefunds(w) ==
  LET k == req[w].key
      d == jobs[k].day
  IN
  /\ At(w, "overrun")
  /\ costs[k].status = "none"
  /\ costs' = [costs EXCEPT ![k] = [status |-> "failed", llm |-> answer[w]]]
  /\ spent' = [spent EXCEPT ![d] = @ + req[w].est - answer[w]]
  /\ CloseJob(k, "failed")
  /\ Leave(w)
  /\ UNCHANGED <<level, used, unknown, calls>>

(* _mark_cost_overrun: failed cost with the real amount, the excess added  *)
(* to the budget whatever its limit, and the job closed, all at once.      *)
CostOverrun(w) ==
  LET k == req[w].key
      d == jobs[k].day
  IN
  /\ At(w, "overrun")
  /\ costs[k].status = "none"
  /\ costs' = [costs EXCEPT ![k] = [status |-> "failed", llm |-> answer[w]]]
  /\ spent' = [spent EXCEPT ![d] = @ + answer[w] - req[w].est]
  /\ CloseJob(k, "failed")
  /\ Leave(w)
  /\ UNCHANGED <<level, used, unknown, calls>>

-----------------------------------------------------------------------------
(* Environment: the L2 pipeline raises a video to level 2 and the L3 gate  *)
(* selects it.                                                             *)
Promote(k) ==
  /\ level[k] = 1
  /\ level' = [level EXCEPT ![k] = 2]
  /\ UNCHANGED <<lock, pc, req, answer, jobs, costs, budget, calls>>

(* The steps run() takes by itself once entered. *)
Proceed(w) ==
  \/ Load(w) \/ Recon(w) \/ ReconBudget(w) \/ ReconJob(w)
  \/ Preflight(w) \/ Call(w)
  \/ \E d \in Days : ReserveAndCreate(w, d) \/ RefuseReservation(w, d)
  \/ Ingest(w) \/ Settle(w) \/ Complete(w) \/ StoreFails(w) \/ Check(w)
  \/ FailCost(w) \/ FailJob(w) \/ CostOverrun(w)

Next ==
  \/ \E w \in Workers : Start(w) \/ Proceed(w) \/ Abort(w) \/ LoseLock(w)
  \/ \E k \in Tasks : Promote(k)

Spec == Init /\ [][Next]_vars
-----------------------------------------------------------------------------
(* Properties.                                                             *)

JobsOn(d) == {k \in Tasks : jobs[k].status # "none" /\ jobs[k].day = d}

(* A task key is paid for at most once, and never before its reservation   *)
(* is committed, whatever crashed, was run again or lost its lock: the     *)
(* "at most one model request" of L3ExecutionCoordinator.                  *)
OneReservedCall ==
  \A k \in Tasks :
    /\ calls[k] <= 1
    /\ calls[k] = 1 => jobs[k].status # "none"

(* A closed job says what its cost record says: completed with a completed *)
(* cost, a settled budget and the video at level 3, or failed with a       *)
(* failed cost. No path closes a job on a guess.                           *)
ClosedAsRecorded ==
  \A k \in Tasks : jobs[k].status \in Terminal =>
    /\ jobs[k].linked
    /\ costs[k].status = jobs[k].status
    /\ jobs[k].status = "completed" => jobs[k].reconciled /\ level[k] = 3

(* What a job stands for in its day's spent_cost: its estimate until the   *)
(* actual cost is known and settled, then that cost.                       *)
Settled(k) ==
  /\ jobs[k].reconciled \/ jobs[k].status = "failed"
  /\ costs[k].llm # Unknown
Charge == [k \in Tasks |-> IF Settled(k) THEN costs[k].llm ELSE AmountOf(jobs[k].est)]

(* Those of them whose price is not known yet.                             *)
UnpricedOn(d) == {k \in JobsOn(d) : jobs[k].est = Unknown /\ ~Settled(k)}

(* The job cost more than it reserved.                                     *)
Overran(k) == costs[k].status = "failed" /\ costs[k].llm # Unknown

(* A day's row is exactly what its jobs stand for: used_requests counts    *)
(* them, so that the limit bounds the calls made and not only the          *)
(* reservations; spent_cost is the sum of their charges, which no crash,   *)
(* replay or concurrent reconciliation settles twice, loses or clips at    *)
(* zero; unknown_price_requests counts those whose price is not known yet; *)
(* and only a job that overran takes the day above its ceiling.            *)
BudgetKept ==
  \A d \in Days :
    /\ used[d] = Cardinality(JobsOn(d))
    /\ MaxRequests[d] # Unlimited => used[d] <= MaxRequests[d]
    /\ spent[d] = SumFunctionOnSet(Charge, JobsOn(d))
    /\ unknown[d] = Cardinality(UnpricedOn(d))
    /\ MaxCost[d] # Unlimited /\ ~(\E k \in JobsOn(d) : Overran(k)) => spent[d] <= MaxCost[d]

(* A closed job stays as it is, and a recorded cost is never replaced, not *)
(* even by a worker that lost its lock and acts on what it read before.    *)
ClosedForGood ==
  [][\A k \in Tasks :
       /\ jobs[k].status \in Terminal => jobs'[k] = jobs[k]
       /\ costs[k].status # "none" => costs'[k] = costs[k]]_<<jobs, costs>>

(* The coordinator implements the promise made of every paid task.         *)
Paid == INSTANCE PaidTask WITH
  reserved <- {k \in Tasks : jobs[k].status # "none"},
  calls <- calls,
  outcome <- [k \in Tasks |-> costs[k].status],
  closed <- [k \in Tasks |-> IF jobs[k].status \in Terminal
                             THEN jobs[k].status ELSE "open"]
ImplementsPaidTask == Paid!Spec

-----------------------------------------------------------------------------
(* The inductive invariant behind those properties.                        *)

(* The steps of the invocation that created a task's job, and of one that  *)
(* found it running.                                                       *)
Owning == {"call", "ingest", "settle", "complete", "check", "failCost",
           "failJob", "overrun"}
Recovering == {"recon", "reconBudget", "reconJob"}

Owns(w, k) == pc[w] \in Owning /\ req[w].key = k

(* What invocation w may rely on at each step. *)
WorkerInv(w) ==
  LET k == req[w].key IN
  /\ pc[w] # "idle" => k \in Tasks
  /\ pc[w] \in Owning \cup Recovering =>
       jobs[k].status # "none" /\ jobs[k].est = req[w].est
  /\ pc[w] = "call" => calls[k] = 0
  /\ pc[w] \in Owning \ {"call"} => calls[k] = 1
  /\ pc[w] \in {"call", "ingest", "failCost", "overrun"} =>
       costs[k].status = "none"
  /\ pc[w] \in {"settle", "complete", "reconBudget"} =>
       costs[k].status = "completed"
  /\ pc[w] = "settle" => costs[k].llm = answer[w]
  /\ pc[w] = "complete" => jobs[k].reconciled
  /\ pc[w] = "failJob" => costs[k].status = "failed"
  /\ pc[w] = "reconJob" =>
       /\ costs[k].status # "none"
       /\ costs[k].status = "completed" => jobs[k].reconciled
  /\ pc[w] = "overrun" => Overruns(req[w].est, answer[w])
  /\ pc[w] = "ingest" => ~Overruns(req[w].est, answer[w])

(* How the records of one task fit together. *)
TaskInv(k) ==
  /\ jobs[k].status # "none" => jobs[k].day \in Days
  /\ jobs[k].status = "none" => calls[k] = 0
  /\ calls[k] <= 1
  /\ costs[k].status # "none" => calls[k] = 1
  /\ costs[k].status = "completed" =>
       level[k] = 3 /\ ~Overruns(jobs[k].est, costs[k].llm)
  /\ jobs[k].status # "none" /\ MaxCost[jobs[k].day] # Unlimited =>
       jobs[k].est # Unknown

(* At most one invocation ever owns a task. *)
OneOwner ==
  \A w, v \in Workers, k \in Tasks : Owns(w, k) /\ Owns(v, k) => w = v

IndInv ==
  /\ TypeOK
  /\ \A w \in Workers : WorkerInv(w)
  /\ \A k \in Tasks : TaskInv(k)
  /\ OneOwner
  /\ ClosedAsRecorded

=============================================================================
