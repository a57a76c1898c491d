---------------------------- MODULE ASRExecution ----------------------------
(***************************************************************************)
(* The paid speech recognition task: ASRExecutionCoordinator.run of        *)
(* src/src/douyin_research/l2/asr_execution.py, with the transcript store  *)
(* it commits through (l2/transcripts.py).                                 *)
(*                                                                         *)
(* A task is submitted once; its result is fetched by later polls, of this *)
(* invocation or of another one. As in L3Execution an action is one        *)
(* transaction or one external call of a worker, which may die between any *)
(* two. Money is booked when a call is reserved and never afterwards.      *)
(***************************************************************************)
EXTENDS Integers, FiniteSetsExt, Functions

CONSTANTS
  Workers,        \* concurrent invocations of run()
  Tasks,          \* task keys
  Scheduled,      \* the keys run by the scheduled worker, trigger "schedule"
  Orphans,        \* keys with a cost record whose job row was lost
  Days,           \* budget dates, one daily_budget row for each
  Quotes,         \* price quotes a request may carry
  RunPolls,       \* the max_polls a run may be given
  PollLimit,      \* MAX_SCHEDULED_POLLS
  MaxRequests,    \* daily_budget.max_requests by date, or Unlimited (NULL)
  MaxCost,        \* daily_budget.max_cost by date, or Unlimited (NULL)
  SubmitAnswers,  \* the states a submission may return
  LockDrops,      \* may the session that holds the lock be lost?
  Unlimited, NoDay, NoTask, NoQuote, NoWorker

(* A quote adds up the known prices; it is whole when none is missing.     *)
Quote == [known : Nat, whole : BOOLEAN]

ASSUME TaskAssumption ==
  /\ IsFiniteSet(Tasks)
  /\ Scheduled \subseteq Tasks
  /\ Orphans \subseteq Tasks

ASSUME QuoteAssumption == Quotes \subseteq Quote /\ RunPolls \subseteq Nat

ASSUME LimitAssumption ==
  /\ Unlimited \notin Nat
  /\ PollLimit \in Nat
  /\ MaxRequests \in [Days -> Nat \cup {Unlimited}]
  /\ MaxCost \in [Days -> Nat \cup {Unlimited}]

ASSUME AnswerAssumption ==
  /\ SubmitAnswers \subseteq {"submitted", "running", "completed", "failed"}
  /\ LockDrops \in BOOLEAN

ASSUME NoneAssumption ==
  /\ NoDay \notin Days /\ NoTask \notin Tasks
  /\ NoQuote \notin Quote /\ NoWorker \notin Workers

VARIABLES
  lock,         \* holder of the advisory lock ASR_LOCK_NAME
  pc,           \* pc[w]: what invocation w does next
  req,          \* req[w]: the request it runs
  answer,       \* answer[w]: the state the provider last returned to it
  jobs,         \* asr_execution_job by task_key
  costs,        \* research_task_cost by task_key: "none" or its status;
                \* "completed" stands for the transcript stored with it too
  ready,        \* tasks whose video is at research level 2
  used,         \* daily_budget.used_requests by date
  spent,        \* daily_budget.spent_cost
  unknown,      \* daily_budget.unknown_price_requests
  remote,       \* what the provider has made of the task
  submissions,  \* history: submissions sent for each task
  polled        \* history: polls sent for each task

budget == <<used, spent, unknown>>
history == <<submissions, polled>>
vars == <<lock, pc, req, answer, jobs, costs, ready, budget, remote, history>>

Terminal == {"completed", "failed"}
Pending == {"submitted", "running"}

NoJob == [status |-> "none", quote |-> NoQuote, day |-> NoDay, polls |-> 0,
          linked |-> FALSE, error |-> "none"]
NoRequest == [key |-> NoTask, quote |-> NoQuote, day |-> NoDay, polls |-> 0,
              polling |-> FALSE]

Job == [status : {"none", "submitting"} \cup Pending \cup Terminal,
        quote : Quote \cup {NoQuote}, day : Days \cup {NoDay},
        polls : Nat,        \* poll_count
        linked : BOOLEAN,   \* task_cost_id is not null
        error : {"none", "provider", "submit_failed", "poll_failed",
                 "poll_limit_reached"}]
Request == [key : Tasks \cup {NoTask}, quote : Quote \cup {NoQuote},
            day : Days \cup {NoDay},
            polls : Nat,        \* polls left of request.max_polls
            polling : BOOLEAN]  \* inside _poll_existing

Steps == {"idle", "load", "orphan", "preflight", "reserve", "submit",
          "apply", "update", "submitFailed", "markFailed",
          "poll", "pollCall", "pollError"}

TypeOK ==
  /\ lock \in Workers \cup {NoWorker}
  /\ pc \in [Workers -> Steps]
  /\ req \in [Workers -> Request]
  /\ answer \in [Workers -> {"none"} \cup Pending \cup Terminal]
  /\ jobs \in [Tasks -> Job]
  /\ costs \in [Tasks -> {"none"} \cup Terminal]
  /\ ready \subseteq Tasks
  /\ used \in [Days -> Nat] /\ spent \in [Days -> Nat] /\ unknown \in [Days -> Nat]
  /\ remote \in [Tasks -> {"none", "working"} \cup Terminal]
  /\ submissions \in [Tasks -> Nat] /\ polled \in [Tasks -> Nat]

Init ==
  /\ lock = NoWorker
  /\ pc = [w \in Workers |-> "idle"]
  /\ req = [w \in Workers |-> NoRequest]
  /\ answer = [w \in Workers |-> "none"]
  /\ jobs = [k \in Tasks |-> NoJob]
  /\ costs = [k \in Tasks |-> IF k \in Orphans THEN "failed" ELSE "none"]
  /\ ready = {}
  /\ used = [d \in Days |-> 0]
  /\ spent = [d \in Days |-> 0]
  /\ unknown = [d \in Days |-> 0]
  /\ remote = [k \in Tasks |-> "none"]
  /\ submissions = [k \in Tasks |-> 0]
  /\ polled = [k \in Tasks |-> 0]

-----------------------------------------------------------------------------
(* Control of one invocation.                                              *)

At(w, step) == pc[w] = step
Goto(w, step) == pc' = [pc EXCEPT ![w] = step]
Stay == UNCHANGED <<lock, req, answer>>

(* run() returns or raises, and gives the lock back. *)
Leave(w) ==
  /\ pc' = [pc EXCEPT ![w] = "idle"]
  /\ req' = [req EXCEPT ![w] = NoRequest]
  /\ answer' = [answer EXCEPT ![w] = "none"]
  /\ lock' = IF lock = w THEN NoWorker ELSE lock

Start(w) ==
  /\ At(w, "idle")
  /\ lock = NoWorker
  /\ lock' = w
  /\ \E k \in Tasks, q \in Quotes, d \in Days \cup {NoDay}, n \in RunPolls :
       req' = [req EXCEPT ![w] = [key |-> k, quote |-> q, day |-> d,
                                  polls |-> n, polling |-> FALSE]]
  /\ Goto(w, "load")
  /\ UNCHANGED <<answer, jobs, costs, ready, budget, remote, history>>

(* The process dies, or a gate that reads nothing modelled here refuses    *)
(* (media review, provider contract).                                      *)
Abort(w) ==
  /\ ~At(w, "idle")
  /\ Leave(w)
  /\ UNCHANGED <<jobs, costs, ready, budget, remote, history>>

LoseLock(w) ==
  /\ LockDrops
  /\ lock = w
  /\ lock' = NoWorker
  /\ UNCHANGED <<pc, req, answer, jobs, costs, ready, budget, remote, history>>

(* _assert_job_matches. *)
JobMatches(j, r) == j.quote = r.quote /\ r.day \in {NoDay, j.day}

(* Mutant: a job left in submitting is polled. *)
PollsSubmitting(j) == j.status \in Pending \cup {"submitting"}

(* What an existing job still asks for: polls, once it was accepted. *)
MayPoll(j) == j.status \in Pending

PollsLeft(r) == r.polls > 0

Load(w) ==
  LET r == req[w]
      j == jobs[r.key]
  IN
  /\ At(w, "load")
  /\ \/ /\ j.status = "none"
        /\ Goto(w, "orphan")
        /\ Stay
     \/ /\ JobMatches(j, r) /\ MayPoll(j) /\ PollsLeft(r)
        /\ req' = [req EXCEPT ![w].polling = TRUE]
        /\ Goto(w, "poll")
        /\ UNCHANGED <<lock, answer>>
     \/ /\ j.status # "none"
        /\ ~(JobMatches(j, r) /\ MayPoll(j) /\ PollsLeft(r))
        /\ Leave(w)
  /\ UNCHANGED <<jobs, costs, ready, budget, remote, history>>

-----------------------------------------------------------------------------
(* A new task.                                                             *)

(* Mutant: costs are not looked at before a task is submitted. *)
NeverAttempted(k) == FALSE

(* A cost without a job is evidence of an earlier attempt. *)
Attempted(k) == costs[k] # "none"

Orphan(w) ==
  /\ At(w, "orphan")
  /\ \/ ~Attempted(req[w].key) /\ Goto(w, "preflight") /\ Stay
     \/ Attempted(req[w].key) /\ Leave(w)
  /\ UNCHANGED <<jobs, costs, ready, budget, remote, history>>

Preflight(w) ==
  /\ At(w, "preflight")
  /\ \/ req[w].key \in ready /\ Goto(w, "reserve") /\ Stay
     \/ req[w].key \notin ready /\ Leave(w)
  /\ UNCHANGED <<jobs, costs, ready, budget, remote, history>>

(* Mutant: the limits are compared with what is used already. *)
WithinBudgetBefore(d, amount, whole) ==
  /\ MaxRequests[d] # Unlimited => used[d] <= MaxRequests[d]
  /\ MaxCost[d] # Unlimited => whole /\ spent[d] <= MaxCost[d]

(* _reserve_budget for one request of this amount. *)
WithinBudget(d, amount, whole) ==
  /\ MaxRequests[d] # Unlimited => used[d] + 1 <= MaxRequests[d]
  /\ MaxCost[d] # Unlimited => whole /\ spent[d] + amount <= MaxCost[d]

(* Mutant: a request without a whole price is not marked. *)
ReserveUnmarked(d, amount, whole) ==
  /\ used' = [used EXCEPT ![d] = @ + 1]
  /\ spent' = [spent EXCEPT ![d] = @ + amount]
  /\ UNCHANGED unknown

ReserveBudget(d, amount, whole) ==
  /\ used' = [used EXCEPT ![d] = @ + 1]
  /\ spent' = [spent EXCEPT ![d] = @ + amount]
  /\ unknown' = [unknown EXCEPT ![d] = IF whole THEN @ ELSE @ + 1]

TaskKeyFree(k) == jobs[k].status = "none"

ReserveAndCreate(w, d) ==
  LET k == req[w].key
      q == req[w].quote
  IN
  /\ At(w, "reserve")
  /\ req[w].day \in {NoDay, d}
  /\ WithinBudget(d, q.known, q.whole)
  /\ TaskKeyFree(k)
  /\ ReserveBudget(d, q.known, q.whole)
  /\ jobs' = [jobs EXCEPT ![k] = [NoJob EXCEPT !.status = "submitting",
                                               !.quote = q, !.day = d]]
  /\ Goto(w, "submit")
  /\ Stay
  /\ UNCHANGED <<costs, ready, remote, history>>

RefuseReservation(w, d) ==
  /\ At(w, "reserve")
  /\ req[w].day \in {NoDay, d}
  /\ ~(TaskKeyFree(req[w].key) /\ WithinBudget(d, req[w].quote.known, req[w].quote.whole))
  /\ Leave(w)
  /\ UNCHANGED <<jobs, costs, ready, budget, remote, history>>

(* provider.submit: it raises, with the task accepted or not, or returns a *)
(* state.                                                                  *)
Submit(w) ==
  LET k == req[w].key IN
  /\ At(w, "submit")
  /\ submissions' = [submissions EXCEPT ![k] = @ + 1]
  /\ \/ /\ \E r \in {remote[k], "working"} : remote' = [remote EXCEPT ![k] = r]
        /\ Goto(w, "submitFailed")
        /\ Stay
     \/ \E a \in SubmitAnswers :
          /\ remote' = [remote EXCEPT ![k] = IF a \in Terminal THEN a ELSE "working"]
          /\ answer' = [answer EXCEPT ![w] = a]
          /\ Goto(w, IF a \in Terminal THEN "apply" ELSE "update")
          /\ UNCHANGED <<lock, req>>
  /\ UNCHANGED <<jobs, costs, ready, budget, polled>>

-----------------------------------------------------------------------------
(* _apply_state: the outcome first, then the job. Each of the two commits  *)
(* may be made and its acknowledgement lost.                               *)

(* Where an exception of _apply_state is handled. *)
Handler(w) == IF req[w].polling THEN "pollError" ELSE "submitFailed"

(* TranscriptEvidenceStore.ingest: cost and transcript in one transaction, *)
(* or the replay of the same result. Over a failed cost it raises.         *)
Ingest(w) ==
  LET k == req[w].key IN
  /\ At(w, "apply")
  /\ answer[w] = "completed"
  /\ costs[k] # "failed"
  /\ costs' = [costs EXCEPT ![k] = "completed"]
  /\ Goto(w, "update") \/ Goto(w, Handler(w))
  /\ Stay
  /\ UNCHANGED <<jobs, ready, budget, remote, history>>

(* on conflict (task_key) do nothing. *)
FailedCost(k) == costs' = [costs EXCEPT ![k] = IF @ = "none" THEN "failed" ELSE @]

(* _record_failed_cost for a failure the provider reports. *)
RecordFailure(w) ==
  /\ At(w, "apply")
  /\ answer[w] = "failed"
  /\ FailedCost(req[w].key)
  /\ Goto(w, "update") \/ Goto(w, Handler(w))
  /\ Stay
  /\ UNCHANGED <<jobs, ready, budget, remote, history>>

ApplyFails(w) ==
  /\ pc[w] \in {"apply", "update"}
  /\ Goto(w, Handler(w))
  /\ Stay
  /\ UNCHANGED <<jobs, costs, ready, budget, remote, history>>

(* The job takes the state the provider returned, whatever it was. *)
Updated(j, a) ==
  [j EXCEPT !.status = a, !.linked = @ \/ a \in Terminal,
            !.error = IF a = "failed" THEN "provider" ELSE "none"]

Update(w) ==
  LET k == req[w].key IN
  /\ At(w, "update")
  /\ jobs' = [jobs EXCEPT ![k] = Updated(@, answer[w])]
  /\ \/ Goto(w, Handler(w)) /\ Stay
     \/ /\ answer[w] \in Pending /\ PollsLeft(req[w])
        /\ req' = [req EXCEPT ![w].polling = TRUE]
        /\ Goto(w, "poll")
        /\ UNCHANGED <<lock, answer>>
     \/ (answer[w] \in Terminal \/ ~PollsLeft(req[w])) /\ Leave(w)
  /\ UNCHANGED <<costs, ready, budget, remote, history>>

(* Mutant: the job is marked failed without a cost. *)
SubmitFailedUnrecorded(w) ==
  /\ At(w, "submitFailed")
  /\ Goto(w, "markFailed")
  /\ Stay
  /\ UNCHANGED <<jobs, costs, ready, budget, remote, history>>

(* _mark_submit_failed, in two transactions. *)
SubmitFailed(w) ==
  /\ At(w, "submitFailed")
  /\ FailedCost(req[w].key)
  /\ Goto(w, "markFailed")
  /\ Stay
  /\ UNCHANGED <<jobs, ready, budget, remote, history>>

MarkFailed(w) ==
  /\ At(w, "markFailed")
  /\ jobs' = [jobs EXCEPT ![req[w].key].status = "failed",
                          ![req[w].key].linked = TRUE,
                          ![req[w].key].error = "submit_failed"]
  /\ Leave(w)
  /\ UNCHANGED <<costs, ready, budget, remote, history>>

-----------------------------------------------------------------------------
(* _poll_existing.                                                         *)

(* Mutant: the limit is passed before it is noticed. *)
PassesLimit(k) == k \in Scheduled /\ jobs[k].polls > PollLimit

(* The scheduled worker gives a job up after so many polls. *)
LimitReached(k) == k \in Scheduled /\ jobs[k].polls >= PollLimit

(* _reserve_poll: the request is booked on the day of the job. A scheduled *)
(* job may also be too old, which time decides.                            *)
ReservePoll(w) ==
  LET k == req[w].key
      d == jobs[k].day
  IN
  /\ At(w, "poll")
  /\ ~LimitReached(k)
  /\ WithinBudget(d, 0, TRUE)
  /\ ReserveBudget(d, 0, TRUE)
  /\ jobs' = [jobs EXCEPT ![k].polls = @ + 1]
  /\ req' = [req EXCEPT ![w].polls = @ - 1]
  /\ Goto(w, "pollCall")
  /\ UNCHANGED <<lock, answer, costs, ready, remote, history>>

(* LimitReached, or the age limit. *)
GiveUpPolling(w) ==
  /\ At(w, "poll")
  /\ req[w].key \in Scheduled
  /\ jobs' = [jobs EXCEPT ![req[w].key].error = "poll_limit_reached"]
  /\ Leave(w)
  /\ UNCHANGED <<costs, ready, budget, remote, history>>

RefusePoll(w) ==
  /\ At(w, "poll")
  /\ ~LimitReached(req[w].key)
  /\ ~WithinBudget(jobs[req[w].key].day, 0, TRUE)
  /\ Leave(w)
  /\ UNCHANGED <<jobs, costs, ready, budget, remote, history>>

(* provider.poll: it raises, or returns what the task has come to. *)
Poll(w) ==
  LET k == req[w].key
      r == remote[k]
  IN
  /\ At(w, "pollCall")
  /\ polled' = [polled EXCEPT ![k] = @ + 1]
  /\ \/ Goto(w, "pollError") /\ Stay
     \/ /\ answer' = [answer EXCEPT ![w] = IF r \in Terminal THEN r ELSE "running"]
        /\ Goto(w, IF r \in Terminal THEN "apply" ELSE "update")
        /\ UNCHANGED <<lock, req>>
  /\ UNCHANGED <<jobs, costs, ready, budget, remote, submissions>>

PollError(w) ==
  /\ At(w, "pollError")
  /\ jobs' = [jobs EXCEPT ![req[w].key].error = "poll_failed"]
  /\ Leave(w)
  /\ UNCHANGED <<costs, ready, budget, remote, history>>

-----------------------------------------------------------------------------
(* Environment: the provider finishes a task, for good, and the L2         *)
(* pipeline makes a video ready.                                           *)

RemoteFinish(k) ==
  /\ remote[k] = "working"
  /\ \E r \in Terminal : remote' = [remote EXCEPT ![k] = r]
  /\ UNCHANGED <<lock, pc, req, answer, jobs, costs, ready, budget, history>>

Promote(k) ==
  /\ k \notin ready
  /\ ready' = ready \cup {k}
  /\ UNCHANGED <<lock, pc, req, answer, jobs, costs, budget, remote, history>>

Proceed(w) ==
  \/ Load(w) \/ Orphan(w) \/ Preflight(w)
  \/ \E d \in Days : ReserveAndCreate(w, d) \/ RefuseReservation(w, d)
  \/ Submit(w) \/ Ingest(w) \/ RecordFailure(w) \/ ApplyFails(w) \/ Update(w)
  \/ SubmitFailed(w) \/ MarkFailed(w)
  \/ ReservePoll(w) \/ GiveUpPolling(w) \/ RefusePoll(w)
  \/ Poll(w) \/ PollError(w)

Next ==
  \/ \E w \in Workers : Start(w) \/ Proceed(w) \/ Abort(w) \/ LoseLock(w)
  \/ \E k \in Tasks : RemoteFinish(k) \/ Promote(k)

Spec == Init /\ [][Next]_vars
-----------------------------------------------------------------------------
(* Properties.                                                             *)

JobsOn(d) == {k \in Tasks : jobs[k].status # "none" /\ jobs[k].day = d}
UnwholeOn(d) == {k \in JobsOn(d) : ~jobs[k].quote.whole}

(* The requests a job has booked, and the known price of its quote.        *)
Bookings == [k \in Tasks |-> 1 + jobs[k].polls]
Charge == [k \in Tasks |-> IF jobs[k].status = "none" THEN 0 ELSE jobs[k].quote.known]

(* Calls to the provider are made when they may be, and no more of them. A *)
(* task is submitted at most once, after its job and reservation are       *)
(* committed, and never when an earlier attempt may have been billed. A    *)
(* job waiting for its result was accepted by the provider: there is       *)
(* something to poll. The scheduled worker polls it at most                *)
(* MAX_SCHEDULED_POLLS times, over all its runs and with polls in flight.  *)
RemoteCallsBounded ==
  /\ \A k \in Tasks :
       /\ submissions[k] <= 1
       /\ submissions[k] = 1 => jobs[k].status # "none" /\ k \notin Orphans
       /\ jobs[k].status \in Pending => submissions[k] = 1 /\ remote[k] # "none"
  /\ \A k \in Scheduled : polled[k] <= PollLimit

(* Every call made to the provider, submission or poll, was booked on the  *)
(* day of the job before it was made, so that max_requests bounds the      *)
(* calls; and a booking is only ever lost to a crash before its call.      *)
(* spent_cost is the sum of the known quotes of the day's jobs, never      *)
(* above the ceiling, and the jobs without a whole quote are counted; none *)
(* of them was let in under a ceiling.                                     *)
CallsBooked ==
  /\ TypeOK
  /\ \A k \in Tasks :
       submissions[k] + polled[k] <=
         IF jobs[k].status = "none" THEN 0 ELSE 1 + jobs[k].polls
  /\ \A d \in Days :
       /\ used[d] = SumFunctionOnSet(Bookings, JobsOn(d))
       /\ MaxRequests[d] # Unlimited => used[d] <= MaxRequests[d]
       /\ spent[d] = SumFunctionOnSet(Charge, JobsOn(d))
       /\ unknown[d] = Cardinality(UnwholeOn(d))
       /\ MaxCost[d] # Unlimited => spent[d] <= MaxCost[d] /\ unknown[d] = 0

(* The tasks that have no cost of an earlier attempt.                      *)
Own == Tasks \ Orphans

(* With a provider that never completes a task in the submission itself,   *)
(* as the live one, and a lock that holds, the coordinator keeps the       *)
(* promise made of every paid task; the paid call is the submission.       *)
Paid == INSTANCE PaidTask WITH
  Tasks <- Own,
  reserved <- {k \in Own : jobs[k].status # "none"},
  calls <- [k \in Own |-> submissions[k]],
  outcome <- [k \in Own |-> costs[k]],
  closed <- [k \in Own |-> IF jobs[k].status \in Terminal
                           THEN jobs[k].status ELSE "open"]
ImplementsPaidTask == Paid!Spec

(* What needs neither of the two: a task is submitted once, after its job  *)
(* was reserved, and its cost is recorded once, after the submission, and  *)
(* never replaced.                                                         *)
Recorded == INSTANCE PaidTask WITH
  Tasks <- Own,
  reserved <- {k \in Own : jobs[k].status # "none"},
  calls <- [k \in Own |-> submissions[k]],
  outcome <- [k \in Own |-> costs[k]],
  closed <- [k \in Own |-> "open"]
RecordsOnce == Recorded!Spec

(* A job is closed with a cost recorded, and completed only with the       *)
(* transcript of a task that the provider completed.                       *)
ClosedWithRecord ==
  \A k \in Tasks :
    /\ jobs[k].status \in Terminal => costs[k] # "none"
    /\ jobs[k].status = "completed" => costs[k] = "completed"
    /\ costs[k] = "completed" => remote[k] = "completed"
=============================================================================
