------------------------- MODULE ASRExecutionProofs -------------------------
(***************************************************************************)
(* Proofs about ASRExecution, for every number of workers, tasks and days. *)
(*                                                                         *)
(* What is booked and what is asked of the provider follow from IndInv and *)
(* BooksInv, whether or not the advisory lock holds: a job is created once,*)
(* and only its creator submits. So does that a cost is recorded once and  *)
(* stays, from KeptInv: what an invocation knows of its task no other can  *)
(* take back. That a job stays closed, as its cost says, needs the lock,   *)
(* LockInv.                                                                *)
(***************************************************************************)
EXTENDS ASRExecution, SetLemmas

USE NoneAssumption DEF Own

(* The invocations whose poll is booked and not yet sent.                  *)
Pollers(k) == {w \in Workers : pc[w] = "pollCall" /\ req[w].key = k}

(* The steps of an invocation whose task has a job, and of those the steps *)
(* that follow a submission.                                               *)
Asking == {"apply", "update", "poll", "pollCall", "pollError"}
Committed == Asking \cup {"submit", "submitFailed", "markFailed"}

WorkerInv(w) ==
  /\ pc[w] # "idle" => req[w].key \in Tasks /\ req[w].quote \in Quote
  /\ pc[w] \in {"preflight", "reserve"} => req[w].key \notin Orphans
  /\ pc[w] \in Committed => jobs[req[w].key].status # "none"
  /\ pc[w] \in Asking => submissions[req[w].key] = 1 /\ remote[req[w].key] # "none"
  /\ pc[w] = "submit" => submissions[req[w].key] = 0
  /\ pc[w] = "poll" => PollsLeft(req[w])
  /\ pc[w] = "update" => answer[w] # "none"

TaskInv(k) ==
  /\ jobs[k].status = "none" => jobs[k].polls = 0 /\ submissions[k] = 0 /\ polled[k] = 0
  /\ jobs[k].status # "none" => jobs[k].day \in Days /\ jobs[k].quote \in Quote /\ k \notin Orphans
  /\ k \in Orphans => costs[k] # "none"
  /\ jobs[k].status \in Pending => submissions[k] = 1 /\ remote[k] # "none"
  /\ submissions[k] \in {0, 1}
  /\ k \in Scheduled => jobs[k].polls <= PollLimit
  /\ IsFiniteSet(Pollers(k))
  /\ polled[k] + Cardinality(Pollers(k)) <= jobs[k].polls

(* Only the invocation that created the job submits it.                    *)
OneSubmitter ==
  \A v, w \in Workers :
    pc[v] = "submit" /\ pc[w] = "submit" /\ req[v].key = req[w].key => v = w

IndInv ==
  /\ TypeOK
  /\ \A w \in Workers : WorkerInv(w)
  /\ \A k \in Tasks : TaskInv(k)
  /\ OneSubmitter

(* The records under a lock that holds: what an invocation that has it     *)
(* finds at each step, and what the records of a task say of each other.   *)
LockedInv(w) ==
  LET k == req[w].key IN
  /\ pc[w] # "idle" => lock = w
  /\ pc[w] = "submit" => jobs[k].status = "submitting"
  /\ pc[w] \in {"poll", "pollCall"} => req[w].polling
  /\ pc[w] \in {"submitFailed", "markFailed"} => submissions[k] = 1
  /\ pc[w] \in {"apply", "update"} =>
       /\ answer[w] \in Terminal => remote[k] = answer[w]
       /\ answer[w] = "completed" => req[w].polling
       /\ costs[k] = "completed" => req[w].polling
  /\ pc[w] \in {"apply", "update", "poll", "pollCall"} => jobs[k].status \notin Terminal
  /\ pc[w] = "update" /\ answer[w] \in Terminal => costs[k] = answer[w]
  /\ pc[w] = "submitFailed" => costs[k] # "completed"
  /\ pc[w] = "markFailed" => costs[k] = "failed"

RecordInv(k) ==
  /\ k \notin Orphans /\ costs[k] # "none" => submissions[k] = 1
  /\ costs[k] = "completed" => remote[k] = "completed"
  /\ jobs[k].status \in Terminal => costs[k] = jobs[k].status

LockInv ==
  /\ \A w \in Workers : LockedInv(w)
  /\ \A k \in Tasks : RecordInv(k)

-----------------------------------------------------------------------------
(* The calls.                                                              *)

LEMMA InitInv == Init => IndInv
<1> SUFFICES ASSUME Init PROVE IndInv
  OBVIOUS
<1> USE DEF Init
<1>1. TypeOK
  BY DEF TypeOK, Request, NoRequest, Job, NoJob, Steps, Terminal
<1>2. \A w \in Workers : WorkerInv(w)
  BY DEF WorkerInv, Committed, Asking
<1>3. ASSUME NEW k \in Tasks PROVE TaskInv(k)
  <2>1. Pollers(k) = {}
    BY DEF Pollers
  <2>2. IsFiniteSet({}) /\ Cardinality({}) = 0
    BY FS_EmptySet
  <2> QED
    BY <2>1, <2>2, LimitAssumption DEF TaskInv, NoJob, Pending
<1>4. OneSubmitter
  BY DEF OneSubmitter
<1> QED
  BY <1>1, <1>2, <1>3, <1>4 DEF IndInv

(* A job that stays what it was booked as.                                 *)
SameBooking(k) ==
  /\ jobs'[k].status = "none" <=> jobs[k].status = "none"
  /\ jobs'[k].day = jobs[k].day
  /\ jobs'[k].quote = jobs[k].quote
  /\ jobs'[k].polls = jobs[k].polls

(* What invocation w leaves to the others.                                 *)
OnlyWorker(w) ==
  \A v \in Workers : v # w => pc'[v] = pc[v] /\ req'[v] = req[v] /\ answer'[v] = answer[v]

(* Fewer polls are in flight, or as many.                                  *)
LEMMA FewerPollers ==
  ASSUME IndInv, NEW k \in Tasks, Pollers(k)' \subseteq Pollers(k)
  PROVE  /\ IsFiniteSet(Pollers(k)')
         /\ Cardinality(Pollers(k)') \in Nat
         /\ Cardinality(Pollers(k)') <= Cardinality(Pollers(k))
         /\ Cardinality(Pollers(k)) \in Nat
BY FS_Subset, FS_CardinalityType DEF IndInv, TaskInv

(* A step of invocation w that neither books nor calls: it may write the   *)
(* costs and what a job says of its outcome.                               *)
LEMMA StepInv ==
  ASSUME IndInv, NEW w \in Workers, TypeOK', OnlyWorker(w), WorkerInv(w)',
         pc'[w] \notin {"submit", "pollCall"},
         \A k \in Tasks : /\ SameBooking(k)
                          /\ jobs'[k].status \in Pending => submissions[k] = 1 /\ remote[k] # "none"
                          /\ costs[k] # "none" => costs'[k] # "none",
         UNCHANGED <<budget, remote, history>>
  PROVE  IndInv'
<1> USE DEF IndInv, budget, history, OnlyWorker
<1>1. ASSUME NEW v \in Workers, v # w PROVE WorkerInv(v)'
  BY <1>1 DEF WorkerInv, SameBooking, Committed, Asking
<1>2. ASSUME NEW k \in Tasks PROVE TaskInv(k)'
  <2>1. Pollers(k)' \subseteq Pollers(k)
    BY DEF Pollers
  <2>2. TaskInv(k) /\ polled[k] \in Nat /\ jobs[k].polls \in Nat
    BY DEF TypeOK, Job
  <2> QED
    BY <2>1, <2>2, FewerPollers DEF TaskInv, SameBooking
<1>3. OneSubmitter'
  BY DEF OneSubmitter
<1> QED
  BY <1>1, <1>2, <1>3

(* Only the control of invocation w moves.                                 *)
LEMMA MoveInv ==
  ASSUME IndInv, NEW w \in Workers, NEW s \in Steps \ {"submit", "pollCall"},
         Goto(w, s), WorkerInv(w)',
         lock' \in Workers \cup {NoWorker},
         req' \in [Workers -> Request], answer' = answer,
         \A v \in Workers : v # w => req'[v] = req[v],
         UNCHANGED <<jobs, costs, ready, budget, remote, history>>
  PROVE  IndInv'
<1>1. TypeOK' /\ OnlyWorker(w) /\ pc'[w] \notin {"submit", "pollCall"}
  BY DEF IndInv, TypeOK, Goto, OnlyWorker, budget, history
<1>2. \A k \in Tasks : /\ SameBooking(k)
                       /\ jobs'[k].status \in Pending => submissions[k] = 1 /\ remote[k] # "none"
                       /\ costs[k] # "none" => costs'[k] # "none"
  BY DEF SameBooking, IndInv, TaskInv
<1> QED
  BY <1>1, <1>2, StepInv

(* Invocation w ends, whatever it had committed.                           *)
LEMMA LeaveTypes ==
  ASSUME TypeOK, NEW w \in Workers, Leave(w)
  PROVE  /\ lock' \in Workers \cup {NoWorker}
         /\ pc' \in [Workers -> Steps] /\ pc'[w] = "idle"
         /\ req' \in [Workers -> Request]
         /\ answer' \in [Workers -> {"none"} \cup Pending \cup Terminal]
         /\ OnlyWorker(w)
         /\ WorkerInv(w)'
BY DEF TypeOK, Leave, NoRequest, Request, Steps, OnlyWorker, WorkerInv, Committed, Asking

LEMMA LeaveInv ==
  ASSUME IndInv, NEW w \in Workers, Leave(w),
         UNCHANGED <<jobs, costs, ready, budget, remote, history>>
  PROVE  IndInv'
<1>1. TypeOK
  BY DEF IndInv
<1>2. TypeOK' /\ OnlyWorker(w) /\ WorkerInv(w)' /\ pc'[w] \notin {"submit", "pollCall"}
  <2>1. TypeOK'
    BY <1>1, LeaveTypes DEF TypeOK, budget, history
  <2> QED
    BY <1>1, <2>1, LeaveTypes
<1>3. \A k \in Tasks : /\ SameBooking(k)
                       /\ jobs'[k].status \in Pending => submissions[k] = 1 /\ remote[k] # "none"
                       /\ costs[k] # "none" => costs'[k] # "none"
  BY DEF SameBooking, IndInv, TaskInv
<1> QED
  BY <1>2, <1>3, StepInv

LEMMA StartInv ==
  ASSUME IndInv, NEW w \in Workers, Start(w)
  PROVE  IndInv'
<1>1. PICK k \in Tasks, q \in Quotes, d \in Days \cup {NoDay}, n \in RunPolls :
        req' = [req EXCEPT ![w] = [key |-> k, quote |-> q, day |-> d, polls |-> n, polling |-> FALSE]]
  BY DEF Start
<1>2. q \in Quote /\ n \in Nat
  BY QuoteAssumption
<1>3. [key |-> k, quote |-> q, day |-> d, polls |-> n, polling |-> FALSE] \in Request
  BY <1>2 DEF Request
<1>4. /\ req' \in [Workers -> Request] /\ req'[w].key = k /\ req'[w].quote = q
      /\ \A v \in Workers : v # w => req'[v] = req[v]
  BY <1>1, <1>3 DEF IndInv, TypeOK
<1>5. pc'[w] = "load"
  BY DEF IndInv, TypeOK, Start, Goto
<1>6. WorkerInv(w)'
  BY <1>2, <1>4, <1>5 DEF WorkerInv, Committed, Asking
<1> QED
  BY <1>4, <1>6, MoveInv DEF Start, Steps

LEMMA LoadInv ==
  ASSUME IndInv, NEW w \in Workers, Load(w)
  PROVE  IndInv'
<1>0. pc[w] = "load" /\ req[w].key \in Tasks /\ req[w].quote \in Quote /\ TypeOK
  BY DEF IndInv, WorkerInv, Load, At
<1>k. PICK k \in Tasks : k = req[w].key
  BY <1>0
<1>1. CASE jobs[k].status = "none" /\ Goto(w, "orphan") /\ Stay
  <2>1. WorkerInv(w)'
    BY <1>0, <1>1, <1>k DEF WorkerInv, Committed, Asking, TypeOK, Goto, Stay
  <2> QED
    BY <1>0, <1>1, <2>1, MoveInv DEF Load, Steps, Stay, TypeOK
<1>2. CASE /\ MayPoll(jobs[k]) /\ PollsLeft(req[w])
           /\ req' = [req EXCEPT ![w].polling = TRUE]
           /\ Goto(w, "poll") /\ UNCHANGED <<lock, answer>>
  <2>0. PICK r \in Request : r = req[w]
    BY <1>0 DEF TypeOK
  <2>1. /\ req'[w].key = k /\ req'[w].quote = req[w].quote /\ req'[w].polls = req[w].polls
        /\ req' \in [Workers -> Request]
        /\ \A v \in Workers : v # w => req'[v] = req[v]
    <3>1. /\ [r EXCEPT !.polling = TRUE] \in Request
          /\ [r EXCEPT !.polling = TRUE].key = r.key
          /\ [r EXCEPT !.polling = TRUE].quote = r.quote
          /\ [r EXCEPT !.polling = TRUE].polls = r.polls
      BY DEF Request
    <3>2. req' = [req EXCEPT ![w] = [r EXCEPT !.polling = TRUE]]
      BY <1>2, <2>0
    <3> QED
      BY <1>0, <1>k, <2>0, <3>1, <3>2 DEF TypeOK
  <2>2. /\ submissions[k] = 1 /\ remote[k] # "none" /\ jobs[k].status # "none"
        /\ UNCHANGED <<jobs, submissions, remote>>
    BY <1>2 DEF IndInv, TaskInv, MayPoll, Pending, Load, history
  <2>3. WorkerInv(w)'
    BY <1>0, <1>2, <1>k, <2>1, <2>2 DEF WorkerInv, TypeOK, Goto, PollsLeft
  <2> QED
    BY <1>0, <1>2, <2>1, <2>3, MoveInv DEF Load, Steps, TypeOK
<1>3. CASE Leave(w)
  BY <1>3, LeaveInv DEF Load
<1> QED
  BY <1>1, <1>2, <1>3, <1>k DEF Load

LEMMA ChecksInv ==
  ASSUME IndInv, NEW w \in Workers, Orphan(w) \/ Preflight(w) \/ ApplyFails(w)
  PROVE  IndInv'
<1>0. pc[w] # "idle" /\ req[w].key \in Tasks /\ req[w].quote \in Quote /\ TypeOK
  BY DEF IndInv, WorkerInv, Orphan, Preflight, ApplyFails, At
<1>1. CASE Leave(w)
  BY <1>1, LeaveInv DEF Orphan, Preflight, ApplyFails, Stay
<1>2. CASE Orphan(w) /\ ~Leave(w)
  <2>1. req[w].key \notin Orphans
    BY <1>0, <1>2 DEF Orphan, Attempted, IndInv, TaskInv
  <2>2. WorkerInv(w)'
    BY <1>0, <1>2, <2>1 DEF WorkerInv, Committed, Asking, TypeOK, Goto, Stay, Orphan
  <2> QED
    BY <1>0, <1>2, <2>2, MoveInv DEF Orphan, Steps, Stay, TypeOK
<1>3. CASE Preflight(w) /\ ~Leave(w)
  <2>1. req[w].key \notin Orphans
    BY <1>3 DEF Preflight, IndInv, WorkerInv, At
  <2>2. WorkerInv(w)'
    BY <1>0, <1>3, <2>1 DEF WorkerInv, Committed, Asking, TypeOK, Goto, Stay, Preflight
  <2> QED
    BY <1>0, <1>3, <2>2, MoveInv DEF Preflight, Steps, Stay, TypeOK
<1>4. CASE ApplyFails(w)
  <2>1. Handler(w) \in {"pollError", "submitFailed"}
    BY DEF Handler
  <2>2. WorkerInv(w)'
    BY <1>0, <1>4, <2>1
       DEF WorkerInv, Committed, Asking, TypeOK, Goto, Stay, ApplyFails, IndInv, history
  <2> QED
    BY <1>0, <1>4, <2>1, <2>2, MoveInv DEF ApplyFails, Steps, Stay, TypeOK
<1> QED
  BY <1>1, <1>2, <1>3, <1>4

(* A step that writes a cost and nothing else but w's control.             *)
LEMMA CostInv ==
  ASSUME IndInv, NEW w \in Workers, NEW s \in Steps \ {"submit", "pollCall"},
         Goto(w, s), Stay, WorkerInv(w)',
         costs' \in [Tasks -> {"none"} \cup Terminal],
         \A k \in Tasks : costs[k] # "none" => costs'[k] # "none",
         UNCHANGED <<jobs, ready, budget, remote, history>>
  PROVE  IndInv'
<1>1. TypeOK' /\ OnlyWorker(w) /\ pc'[w] \notin {"submit", "pollCall"}
  BY DEF IndInv, TypeOK, Goto, Stay, OnlyWorker, budget, history
<1>2. \A k \in Tasks : /\ SameBooking(k)
                       /\ jobs'[k].status \in Pending => submissions[k] = 1 /\ remote[k] # "none"
  BY DEF SameBooking, IndInv, TaskInv
<1> QED
  BY <1>1, <1>2, StepInv

LEMMA RecordInvs ==
  ASSUME IndInv, NEW w \in Workers, Ingest(w) \/ RecordFailure(w) \/ SubmitFailed(w)
  PROVE  IndInv'
<1>0. pc[w] \in {"apply", "submitFailed"} /\ req[w].key \in Tasks /\ req[w].quote \in Quote /\ TypeOK
  BY DEF IndInv, WorkerInv, Ingest, RecordFailure, SubmitFailed, At
<1>k. PICK k \in Tasks : k = req[w].key
  BY <1>0
<1>1. PICK c \in Terminal : costs' = [costs EXCEPT ![k] = c] \/ costs' = costs
  BY <1>0, <1>k DEF Ingest, RecordFailure, SubmitFailed, FailedCost, Terminal, TypeOK
<1>2. /\ costs' \in [Tasks -> {"none"} \cup Terminal]
      /\ \A t \in Tasks : costs[t] # "none" => costs'[t] # "none"
  BY <1>0, <1>1 DEF TypeOK, Terminal
<1>3. PICK s \in {"update", "pollError", "submitFailed", "markFailed"} :
        /\ Goto(w, s) /\ Stay
        /\ s \in {"update", "pollError"} => pc[w] = "apply"
        /\ s = "update" => answer[w] # "none"
  BY DEF Ingest, RecordFailure, SubmitFailed, Handler, At
<1>4. UNCHANGED <<jobs, ready, budget, remote, history>>
  BY DEF Ingest, RecordFailure, SubmitFailed
<1>5. WorkerInv(w)'
  <2>1. WorkerInv(w)
    BY DEF IndInv
  <2> QED
    BY <1>0, <1>3, <1>4, <2>1 DEF WorkerInv, Committed, Asking, TypeOK, Goto, Stay, history
<1>6. s \in Steps \ {"submit", "pollCall"}
  BY DEF Steps
<1> QED
  BY <1>2, <1>3, <1>4, <1>5, <1>6, CostInv

(* A step that writes what the job of task k says of its outcome.          *)
LEMMA OutcomeInv ==
  ASSUME IndInv, NEW w \in Workers, NEW k \in Tasks, NEW j \in Job,
         TypeOK', OnlyWorker(w), WorkerInv(w)',
         pc'[w] \notin {"submit", "pollCall"},
         jobs' = [jobs EXCEPT ![k] = j],
         jobs[k].status # "none" /\ j.status # "none",
         j.day = jobs[k].day /\ j.quote = jobs[k].quote /\ j.polls = jobs[k].polls,
         j.status \in Pending => submissions[k] = 1 /\ remote[k] # "none",
         UNCHANGED <<costs, ready, budget, remote, history>>
  PROVE  IndInv'
<1>1. jobs'[k] = j /\ \A t \in Tasks : t # k => jobs'[t] = jobs[t]
  BY DEF IndInv, TypeOK
<1>2. \A t \in Tasks : /\ SameBooking(t)
                       /\ jobs'[t].status \in Pending => submissions[t] = 1 /\ remote[t] # "none"
  BY <1>1 DEF SameBooking, IndInv, TaskInv
<1> QED
  BY <1>2, StepInv

LEMMA UpdateInv ==
  ASSUME IndInv, NEW w \in Workers, Update(w)
  PROVE  IndInv'
<1>0. /\ pc[w] = "update" /\ req[w].key \in Tasks /\ req[w].quote \in Quote /\ TypeOK
      /\ answer[w] \in Pending \cup Terminal
  BY DEF IndInv, WorkerInv, Update, At, TypeOK
<1>k. PICK k \in Tasks : k = req[w].key
  BY <1>0
<1>1. /\ jobs[k].status # "none" /\ submissions[k] = 1 /\ remote[k] # "none"
      /\ jobs[k] \in Job /\ WorkerInv(w)
  BY <1>0, <1>k DEF IndInv, WorkerInv, Committed, Asking, TypeOK
<1>2. PICK j \in Job : /\ j = Updated(jobs[k], answer[w]) /\ j.status \in Pending \cup Terminal
                       /\ j.day = jobs[k].day /\ j.quote = jobs[k].quote /\ j.polls = jobs[k].polls
  <2>1. /\ Updated(jobs[k], answer[w]) \in Job
        /\ Updated(jobs[k], answer[w]).status = answer[w]
        /\ Updated(jobs[k], answer[w]).day = jobs[k].day
        /\ Updated(jobs[k], answer[w]).quote = jobs[k].quote
        /\ Updated(jobs[k], answer[w]).polls = jobs[k].polls
    BY <1>0, <1>1 DEF Updated, Job
  <2> QED
    BY <1>0, <2>1
<1>3. j.status # "none" /\ jobs' = [jobs EXCEPT ![k] = j] /\ jobs' \in [Tasks -> Job] /\ jobs'[k] = j
  BY <1>0, <1>k, <1>2 DEF Update, Pending, Terminal, TypeOK
<1>4. UNCHANGED <<costs, ready, budget, remote, history>>
  BY DEF Update
<1>5. CASE Goto(w, Handler(w)) /\ Stay
  <2>1. PICK s \in {"pollError", "submitFailed"} : s = Handler(w)
    BY DEF Handler
  <2>2. TypeOK' /\ OnlyWorker(w) /\ pc'[w] = s /\ s \in Steps
    BY <1>0, <1>3, <1>4, <1>5, <2>1
       DEF TypeOK, Goto, Stay, OnlyWorker, budget, history, Steps
  <2>3. WorkerInv(w)'
    BY <1>0, <1>1, <1>3, <1>4, <1>5, <1>k, <2>2 DEF WorkerInv, Committed, Asking, Stay, history
  <2> QED
    BY <1>1, <1>2, <1>3, <1>4, <2>2, <2>3, OutcomeInv
<1>6. CASE /\ PollsLeft(req[w])
           /\ req' = [req EXCEPT ![w].polling = TRUE]
           /\ Goto(w, "poll") /\ UNCHANGED <<lock, answer>>
  <2>0. PICK r \in Request : r = req[w]
    BY <1>0 DEF TypeOK
  <2>1. /\ req'[w].key = k /\ req'[w].quote = req[w].quote /\ req'[w].polls = req[w].polls
        /\ req' \in [Workers -> Request]
        /\ \A v \in Workers : v # w => req'[v] = req[v]
    <3>1. /\ [r EXCEPT !.polling = TRUE] \in Request
          /\ [r EXCEPT !.polling = TRUE].key = r.key
          /\ [r EXCEPT !.polling = TRUE].quote = r.quote
          /\ [r EXCEPT !.polling = TRUE].polls = r.polls
      BY DEF Request
    <3>2. req' = [req EXCEPT ![w] = [r EXCEPT !.polling = TRUE]]
      BY <1>6, <2>0
    <3> QED
      BY <1>0, <1>k, <2>0, <3>1, <3>2 DEF TypeOK
  <2>2. TypeOK' /\ OnlyWorker(w) /\ pc'[w] = "poll"
    BY <1>0, <1>3, <1>4, <1>6, <2>1
       DEF TypeOK, Goto, OnlyWorker, budget, history, Steps
  <2>3. WorkerInv(w)'
    BY <1>0, <1>1, <1>3, <1>4, <1>6, <2>1, <2>2 DEF WorkerInv, Committed, Asking, PollsLeft, history
  <2> QED
    BY <1>1, <1>2, <1>3, <1>4, <2>2, <2>3, OutcomeInv
<1>7. CASE Leave(w)
  <2>1. TypeOK' /\ OnlyWorker(w) /\ pc'[w] = "idle" /\ WorkerInv(w)'
    BY <1>0, <1>3, <1>4, <1>7, LeaveTypes DEF TypeOK, budget, history
  <2> QED
    BY <1>1, <1>2, <1>3, <1>4, <2>1, OutcomeInv
<1> QED
  BY <1>5, <1>6, <1>7 DEF Update

(* The job is marked and the invocation ends.                              *)
LEMMA MarkInv ==
  ASSUME IndInv, NEW w \in Workers, MarkFailed(w) \/ GiveUpPolling(w) \/ PollError(w)
  PROVE  IndInv'
<1>0. pc[w] \in {"markFailed", "poll", "pollError"} /\ req[w].key \in Tasks /\ TypeOK
  BY DEF IndInv, WorkerInv, MarkFailed, GiveUpPolling, PollError, At
<1>k. PICK k \in Tasks : k = req[w].key
  BY <1>0
<1>1. jobs[k].status # "none" /\ jobs[k] \in Job
  BY <1>0, <1>k DEF IndInv, WorkerInv, Committed, Asking, TypeOK
<1>2. PICK j \in Job : /\ jobs' = [jobs EXCEPT ![k] = j]
                       /\ j.status \in {jobs[k].status, "failed"}
                       /\ j.day = jobs[k].day /\ j.quote = jobs[k].quote /\ j.polls = jobs[k].polls
  <2>1. CASE MarkFailed(w)
    <3> DEFINE j == [jobs[k] EXCEPT !.status = "failed", !.linked = TRUE, !.error = "submit_failed"]
    <3>1. /\ j \in Job /\ j.status = "failed"
          /\ j.day = jobs[k].day /\ j.quote = jobs[k].quote /\ j.polls = jobs[k].polls
      BY <1>1 DEF Job, Terminal
    <3>2. jobs' = [jobs EXCEPT ![k] = j]
      BY <1>k, <1>0, <2>1 DEF MarkFailed, TypeOK
    <3> QED
      BY <3>1, <3>2
  <2>2. ASSUME NEW e \in {"poll_limit_reached", "poll_failed"}, jobs' = [jobs EXCEPT ![k].error = e]
        PROVE  \E j \in Job : /\ jobs' = [jobs EXCEPT ![k] = j]
                              /\ j.status \in {jobs[k].status, "failed"}
                              /\ j.day = jobs[k].day /\ j.quote = jobs[k].quote /\ j.polls = jobs[k].polls
    <3> DEFINE j == [jobs[k] EXCEPT !.error = e]
    <3>1. /\ j \in Job /\ j.status = jobs[k].status
          /\ j.day = jobs[k].day /\ j.quote = jobs[k].quote /\ j.polls = jobs[k].polls
      BY <1>1 DEF Job
    <3>2. jobs' = [jobs EXCEPT ![k] = j]
      BY <2>2
    <3> QED
      BY <3>1, <3>2
  <2>3. CASE GiveUpPolling(w) \/ PollError(w)
    BY <1>k, <2>2, <2>3 DEF GiveUpPolling, PollError
  <2> QED
    BY <2>1, <2>3
<1>3. /\ j.status # "none" /\ jobs' \in [Tasks -> Job]
      /\ j.status \in Pending => submissions[k] = 1 /\ remote[k] # "none"
  BY <1>0, <1>1, <1>2 DEF IndInv, TaskInv, Pending, TypeOK
<1>4. UNCHANGED <<costs, ready, budget, remote, history>> /\ Leave(w)
  BY DEF MarkFailed, GiveUpPolling, PollError
<1>5. TypeOK' /\ OnlyWorker(w) /\ pc'[w] = "idle" /\ WorkerInv(w)'
  BY <1>0, <1>3, <1>4, LeaveTypes DEF TypeOK, budget, history
<1> QED
  BY <1>1, <1>2, <1>3, <1>4, <1>5, OutcomeInv

(* The environment, and the loss of the lock.                              *)
LEMMA EnvironmentInv ==
  ASSUME IndInv,
         \/ \E w \in Workers : LoseLock(w)
         \/ \E k \in Tasks : RemoteFinish(k) \/ Promote(k)
  PROVE  IndInv'
<1> USE DEF IndInv, budget, history
<1>1. /\ UNCHANGED <<pc, req, answer, jobs, costs, budget, history>>
      /\ lock' \in Workers \cup {NoWorker} /\ ready' \subseteq Tasks
      /\ remote' \in [Tasks -> {"none", "working"} \cup Terminal]
      /\ \A k \in Tasks : remote[k] # "none" => remote'[k] # "none"
  BY DEF LoseLock, RemoteFinish, Promote, TypeOK, Terminal
<1>2. TypeOK'
  BY <1>1 DEF TypeOK
<1>3. ASSUME NEW w \in Workers PROVE WorkerInv(w)'
  BY <1>1 DEF WorkerInv, Asking, Committed
<1>4. ASSUME NEW k \in Tasks PROVE TaskInv(k)'
  <2>1. Pollers(k)' = Pollers(k)
    BY <1>1 DEF Pollers
  <2> QED
    BY <1>1, <2>1 DEF TaskInv
<1>5. OneSubmitter'
  BY <1>1 DEF OneSubmitter
<1> QED
  BY <1>2, <1>3, <1>4, <1>5

(* The booking of a day's row.                                             *)
LEMMA ReserveTypes ==
  ASSUME TypeOK, NEW d \in Days, NEW amount \in Nat, NEW whole \in BOOLEAN,
         ReserveBudget(d, amount, whole)
  PROVE  used' \in [Days -> Nat] /\ spent' \in [Days -> Nat] /\ unknown' \in [Days -> Nat]
BY DEF TypeOK, ReserveBudget

LEMMA ReserveInv ==
  ASSUME IndInv, NEW w \in Workers, NEW d \in Days, ReserveAndCreate(w, d)
  PROVE  IndInv'
<1> USE DEF history
<1>0. /\ pc[w] = "reserve" /\ req[w].key \in Tasks /\ req[w].quote \in Quote /\ TypeOK
      /\ req[w].key \notin Orphans
  BY DEF IndInv, WorkerInv, ReserveAndCreate, At
<1>k. PICK k \in Tasks, q \in Quote : k = req[w].key /\ q = req[w].quote
  BY <1>0
<1>1. PICK j \in Job : /\ jobs' = [jobs EXCEPT ![k] = j]
                       /\ j.status = "submitting" /\ j.quote = q /\ j.day = d /\ j.polls = 0
  <2> DEFINE j == [NoJob EXCEPT !.status = "submitting", !.quote = q, !.day = d]
  <2>1. j \in Job /\ j.status = "submitting" /\ j.quote = q /\ j.day = d /\ j.polls = 0
    BY DEF Job, NoJob
  <2>2. jobs' = [jobs EXCEPT ![k] = j]
    BY <1>k DEF ReserveAndCreate
  <2> QED
    BY <2>1, <2>2
<1>2. /\ jobs[k].status = "none" /\ k \notin Orphans
      /\ submissions[k] = 0 /\ polled[k] = 0 /\ jobs[k].polls = 0
      /\ TaskInv(k) /\ PollLimit \in Nat
  BY <1>0, <1>k, LimitAssumption DEF ReserveAndCreate, TaskKeyFree, IndInv, TaskInv
<1>3. jobs' \in [Tasks -> Job] /\ jobs'[k] = j /\ \A t \in Tasks : t # k => jobs'[t] = jobs[t]
  BY <1>0, <1>1 DEF TypeOK
<1>4. /\ pc' = [pc EXCEPT ![w] = "submit"]
      /\ UNCHANGED <<lock, req, answer, costs, ready, remote, submissions, polled>>
      /\ q.known \in Nat /\ q.whole \in BOOLEAN /\ ReserveBudget(d, q.known, q.whole)
  BY <1>k DEF ReserveAndCreate, Goto, Stay, Quote
<1>5. TypeOK'
  BY <1>0, <1>3, <1>4, ReserveTypes DEF TypeOK, Steps
<1>6. ASSUME NEW v \in Workers PROVE WorkerInv(v)'
  <2>1. CASE v = w
    BY <1>0, <1>1, <1>2, <1>3, <1>4, <1>k, <2>1 DEF TypeOK, WorkerInv, Committed, Asking
  <2>2. CASE v # w
    BY <1>0, <1>1, <1>3, <1>4, <2>2 DEF TypeOK, IndInv, WorkerInv, Committed, Asking
  <2> QED
    BY <2>1, <2>2
<1>7. ASSUME NEW t \in Tasks PROVE TaskInv(t)'
  <2>1. Pollers(t)' \subseteq Pollers(t) /\ TaskInv(t)
    BY <1>0, <1>4 DEF Pollers, TypeOK, IndInv
  <2>2. /\ IsFiniteSet(Pollers(t)') /\ Cardinality(Pollers(t)') <= Cardinality(Pollers(t))
        /\ Cardinality(Pollers(t)') \in Nat /\ Cardinality(Pollers(t)) \in Nat
    BY <2>1, FewerPollers
  <2>3. CASE t = k
    BY <1>1, <1>2, <1>3, <1>4, <2>1, <2>2, <2>3 DEF TaskInv, Pending
  <2>4. CASE t # k
    BY <1>0, <1>3, <1>4, <2>1, <2>2, <2>4 DEF TaskInv, TypeOK, Job
  <2> QED
    BY <2>3, <2>4
<1>8. OneSubmitter'
  BY <1>0, <1>2, <1>4, <1>k DEF OneSubmitter, IndInv, TypeOK, WorkerInv, Committed
<1> QED
  BY <1>5, <1>6, <1>7, <1>8 DEF IndInv

LEMMA SubmitInv ==
  ASSUME IndInv, NEW w \in Workers, Submit(w)
  PROVE  IndInv'
<1>0. /\ pc[w] = "submit" /\ req[w].key \in Tasks /\ req[w].quote \in Quote /\ TypeOK
  BY DEF IndInv, WorkerInv, Submit, At
<1>k. PICK k \in Tasks : k = req[w].key
  BY <1>0
<1>1. submissions[k] = 0 /\ jobs[k].status # "none" /\ TaskInv(k)
  BY <1>0, <1>k DEF IndInv, WorkerInv, Committed
<1>2. PICK r \in {remote[k], "working"} \cup Terminal,
           s \in {"submitFailed", "apply", "update"},
           a \in {"none"} \cup Pending \cup Terminal :
        /\ remote' = [remote EXCEPT ![k] = r]
        /\ Goto(w, s) /\ answer' = [answer EXCEPT ![w] = a]
        /\ s # "submitFailed" => r # "none" /\ a # "none"
  <2>1. answer[w] \in {"none"} \cup Pending \cup Terminal /\ answer = [answer EXCEPT ![w] = answer[w]]
    BY <1>0 DEF TypeOK
  <2>2. ASSUME NEW r \in {remote[k], "working"}, remote' = [remote EXCEPT ![k] = r],
               Goto(w, "submitFailed"), Stay
        PROVE  \E p \in {remote[k], "working"} \cup Terminal,
                  s \in {"submitFailed", "apply", "update"},
                  b \in {"none"} \cup Pending \cup Terminal :
                 /\ remote' = [remote EXCEPT ![k] = p]
                 /\ Goto(w, s) /\ answer' = [answer EXCEPT ![w] = b]
                 /\ s # "submitFailed" => p # "none" /\ b # "none"
    <3>1. answer' = [answer EXCEPT ![w] = answer[w]]
      BY <2>1, <2>2 DEF Stay
    <3> QED
      BY <2>1, <2>2, <3>1
  <2>3. ASSUME NEW a \in SubmitAnswers,
               remote' = [remote EXCEPT ![k] = IF a \in Terminal THEN a ELSE "working"],
               answer' = [answer EXCEPT ![w] = a],
               Goto(w, IF a \in Terminal THEN "apply" ELSE "update")
        PROVE  \E r \in {remote[k], "working"} \cup Terminal,
                  s \in {"submitFailed", "apply", "update"},
                  b \in {"none"} \cup Pending \cup Terminal :
                 /\ remote' = [remote EXCEPT ![k] = r]
                 /\ Goto(w, s) /\ answer' = [answer EXCEPT ![w] = b]
                 /\ s # "submitFailed" => r # "none" /\ b # "none"
    <3>1. a \in Pending \cup Terminal
      BY AnswerAssumption DEF Pending, Terminal
    <3> QED
      BY <2>3, <3>1 DEF Pending, Terminal
  <2>4. \/ \E r \in {remote[k], "working"} :
             remote' = [remote EXCEPT ![k] = r] /\ Goto(w, "submitFailed") /\ Stay
        \/ \E a \in SubmitAnswers :
             /\ remote' = [remote EXCEPT ![k] = IF a \in Terminal THEN a ELSE "working"]
             /\ answer' = [answer EXCEPT ![w] = a]
             /\ Goto(w, IF a \in Terminal THEN "apply" ELSE "update")
    BY <1>k, ZenonT(60) DEF Submit
  <2> QED
    BY <2>2, <2>3, <2>4
<1>3. /\ remote' \in [Tasks -> {"none", "working"} \cup Terminal]
      /\ s # "submitFailed" => remote'[k] # "none"
      /\ \A t \in Tasks : remote[t] # "none" => remote'[t] # "none"
  BY <1>0, <1>2 DEF TypeOK, Terminal
<1>4. /\ submissions' = [submissions EXCEPT ![k] = @ + 1]
      /\ submissions' \in [Tasks -> Nat] /\ submissions'[k] = 1
      /\ \A t \in Tasks : t # k => submissions'[t] = submissions[t]
      /\ UNCHANGED <<lock, req, jobs, costs, ready, used, spent, unknown, polled>>
  <2>1. /\ submissions' = [submissions EXCEPT ![k] = @ + 1]
        /\ UNCHANGED <<lock, req, jobs, costs, ready, used, spent, unknown, polled>>
    BY <1>k DEF Submit, budget, Stay
  <2> QED
    BY <1>0, <1>1, <2>1 DEF TypeOK
<1>5. pc' = [pc EXCEPT ![w] = s] /\ answer' = [answer EXCEPT ![w] = a]
  BY <1>2 DEF Goto
<1>6. TypeOK'
  BY <1>0, <1>3, <1>4, <1>5 DEF TypeOK, Steps
<1>7. ASSUME NEW v \in Workers PROVE WorkerInv(v)'
  <2>1. CASE v = w
    BY <1>0, <1>1, <1>2, <1>3, <1>4, <1>5, <1>k, <2>1 DEF TypeOK, WorkerInv, Committed, Asking
  <2>2. CASE v # w
    <3>1. WorkerInv(v) /\ (pc[v] = "submit" => req[v].key # k)
      BY <1>0, <1>k, <2>2 DEF IndInv, OneSubmitter
    <3>2. pc[v] \in Asking => submissions[req[v].key] # 0
      BY <3>1 DEF WorkerInv
    <3>3. pc'[v] = pc[v] /\ answer'[v] = answer[v] /\ req'[v] = req[v]
      BY <1>0, <1>4, <1>5, <2>2 DEF TypeOK
    <3> QED
      BY <1>1, <1>3, <1>4, <3>1, <3>2, <3>3 DEF WorkerInv, Committed, Asking
  <2> QED
    BY <2>1, <2>2
<1>8. ASSUME NEW t \in Tasks PROVE TaskInv(t)'
  <2>1. Pollers(t)' \subseteq Pollers(t) /\ TaskInv(t)
    BY <1>0, <1>2, <1>4, <1>5 DEF Pollers, TypeOK, IndInv
  <2>2. /\ IsFiniteSet(Pollers(t)') /\ Cardinality(Pollers(t)') <= Cardinality(Pollers(t))
        /\ Cardinality(Pollers(t)') \in Nat /\ Cardinality(Pollers(t)) \in Nat
        /\ polled[t] \in Nat /\ jobs[t].polls \in Nat
    BY <1>0, <2>1, FewerPollers DEF TypeOK, Job
  <2>3. CASE t = k
    BY <1>1, <1>3, <1>4, <2>1, <2>2, <2>3 DEF TaskInv, Pending
  <2>4. CASE t # k
    BY <1>3, <1>4, <2>1, <2>2, <2>4 DEF TaskInv
  <2> QED
    BY <2>3, <2>4
<1>9. OneSubmitter'
  BY <1>0, <1>2, <1>4, <1>5 DEF OneSubmitter, IndInv, TypeOK
<1> QED
  BY <1>6, <1>7, <1>8, <1>9 DEF IndInv

(* A poll is booked: one more is in flight.                                *)
LEMMA ReservePollInv ==
  ASSUME IndInv, NEW w \in Workers, ReservePoll(w)
  PROVE  IndInv'
<1>0. /\ pc[w] = "poll" /\ req[w].key \in Tasks /\ req[w].quote \in Quote /\ TypeOK
      /\ req[w].polls > 0 /\ WorkerInv(w)
  BY DEF IndInv, WorkerInv, ReservePoll, At, PollsLeft
<1>k. PICK k \in Tasks, d \in Days : k = req[w].key /\ d = jobs[k].day
  BY <1>0 DEF IndInv, WorkerInv, Committed, Asking, TaskInv
<1>r. PICK r \in Request : r = req[w] /\ r.polls > 0
  BY <1>0 DEF TypeOK
<1>1. /\ jobs[k].status # "none" /\ submissions[k] = 1 /\ remote[k] # "none"
      /\ jobs[k] \in Job /\ TaskInv(k) /\ ReserveBudget(d, 0, TRUE)
      /\ k \in Scheduled => jobs[k].polls < PollLimit
      /\ jobs[k].polls \in Nat /\ PollLimit \in Nat
  <2>1. jobs[k].status # "none" /\ submissions[k] = 1 /\ remote[k] # "none" /\ TaskInv(k)
    BY <1>0, <1>k DEF IndInv, WorkerInv, Committed, Asking
  <2>2. jobs[k] \in Job /\ jobs[k].polls \in Nat /\ PollLimit \in Nat
    BY <1>0, LimitAssumption DEF TypeOK, Job
  <2>3. ReserveBudget(d, 0, TRUE) /\ ~LimitReached(k)
    BY <1>k DEF ReservePoll
  <2>4. k \in Scheduled => jobs[k].polls < PollLimit
    BY <2>2, <2>3 DEF LimitReached
  <2> QED
    BY <2>1, <2>2, <2>3, <2>4
<1>2. PICK j \in Job : /\ jobs' = [jobs EXCEPT ![k] = j]
                       /\ j.status = jobs[k].status /\ j.quote = jobs[k].quote
                       /\ j.day = jobs[k].day /\ j.polls = jobs[k].polls + 1
  <2> DEFINE j == [jobs[k] EXCEPT !.polls = @ + 1]
  <2>1. /\ j \in Job /\ j.status = jobs[k].status /\ j.quote = jobs[k].quote
        /\ j.day = jobs[k].day /\ j.polls = jobs[k].polls + 1
    BY <1>1 DEF Job
  <2>2. jobs' = [jobs EXCEPT ![k] = j]
    BY <1>k DEF ReservePoll
  <2> QED
    BY <2>1, <2>2
<1>3. jobs' \in [Tasks -> Job] /\ jobs'[k] = j /\ \A t \in Tasks : t # k => jobs'[t] = jobs[t]
  BY <1>0, <1>2 DEF TypeOK
<1>4. /\ req' \in [Workers -> Request] /\ req'[w].key = k /\ req'[w].quote = req[w].quote
      /\ \A v \in Workers : v # w => req'[v] = req[v]
  <2>1. /\ [r EXCEPT !.polls = @ - 1] \in Request
        /\ [r EXCEPT !.polls = @ - 1].key = r.key /\ [r EXCEPT !.polls = @ - 1].quote = r.quote
    BY <1>r DEF Request
  <2>2. req' = [req EXCEPT ![w] = [r EXCEPT !.polls = @ - 1]]
    BY <1>r DEF ReservePoll
  <2> QED
    BY <1>0, <1>k, <1>r, <2>1, <2>2 DEF TypeOK
<1>5. /\ pc' = [pc EXCEPT ![w] = "pollCall"]
      /\ UNCHANGED <<lock, answer, costs, ready, remote, submissions, polled>>
  BY DEF ReservePoll, Goto, history
<1>6. TypeOK'
  BY <1>0, <1>1, <1>3, <1>4, <1>5, ReserveTypes DEF TypeOK, Steps
<1>7. ASSUME NEW v \in Workers PROVE WorkerInv(v)'
  <2>1. CASE v = w
    BY <1>0, <1>1, <1>2, <1>3, <1>4, <1>5, <2>1 DEF TypeOK, WorkerInv, Committed, Asking
  <2>2. CASE v # w
    BY <1>0, <1>2, <1>3, <1>4, <1>5, <2>2 DEF TypeOK, IndInv, WorkerInv, Committed, Asking
  <2> QED
    BY <2>1, <2>2
<1>8. ASSUME NEW t \in Tasks PROVE TaskInv(t)'
  <2>1. CASE t = k
    <3>1. Pollers(k)' = Pollers(k) \cup {w} /\ w \notin Pollers(k)
      BY <1>0, <1>4, <1>5 DEF Pollers, TypeOK
    <3>2. /\ IsFiniteSet(Pollers(k)') /\ Cardinality(Pollers(k)') = Cardinality(Pollers(k)) + 1
          /\ Cardinality(Pollers(k)) \in Nat
      BY <1>1, <3>1, FS_AddElement, FS_CardinalityType DEF TaskInv
    <3>3. polled[k] \in Nat /\ polled'[k] = polled[k] /\ jobs'[k] = j
      BY <1>0, <1>3, <1>5 DEF TypeOK
    <3>4. /\ jobs'[k].status = jobs[k].status /\ jobs'[k].quote = jobs[k].quote
          /\ jobs'[k].day = jobs[k].day /\ jobs'[k].polls = jobs[k].polls + 1
      BY <1>2, <3>3
    <3>5. TaskInv(k)'
      BY <1>1, <1>5, <3>2, <3>3, <3>4 DEF TaskInv
    <3> QED
      BY <2>1, <3>5
  <2>2. CASE t # k
    <3>1. Pollers(t)' \subseteq Pollers(t) /\ TaskInv(t)
      BY <1>0, <1>4, <1>5, <2>2 DEF Pollers, TypeOK, IndInv
    <3>2. /\ IsFiniteSet(Pollers(t)') /\ Cardinality(Pollers(t)') <= Cardinality(Pollers(t))
          /\ Cardinality(Pollers(t)') \in Nat /\ Cardinality(Pollers(t)) \in Nat
          /\ polled[t] \in Nat /\ jobs[t].polls \in Nat
      BY <1>0, <3>1, FewerPollers DEF TypeOK, Job
    <3> QED
      BY <1>3, <1>5, <2>2, <3>1, <3>2 DEF TaskInv
  <2> QED
    BY <2>1, <2>2
<1>9. OneSubmitter'
  BY <1>0, <1>4, <1>5 DEF OneSubmitter, IndInv, TypeOK
<1> QED
  BY <1>6, <1>7, <1>8, <1>9 DEF IndInv

(* A booked poll is sent.                                                  *)
LEMMA PollInv ==
  ASSUME IndInv, NEW w \in Workers, Poll(w)
  PROVE  IndInv'
<1>0. /\ pc[w] = "pollCall" /\ req[w].key \in Tasks /\ req[w].quote \in Quote /\ TypeOK
      /\ WorkerInv(w)
  BY DEF IndInv, WorkerInv, Poll, At
<1>k. PICK k \in Tasks : k = req[w].key
  BY <1>0
<1>1. /\ jobs[k].status # "none" /\ submissions[k] = 1 /\ remote[k] # "none" /\ TaskInv(k)
  BY <1>0, <1>k DEF IndInv, WorkerInv, Committed, Asking
<1>2. PICK s \in {"pollError", "apply", "update"}, a \in {"none"} \cup Pending \cup Terminal :
        /\ pc' = [pc EXCEPT ![w] = s] /\ answer' = [answer EXCEPT ![w] = a]
        /\ s # "pollError" => a # "none"
  <2>1. answer[w] \in {"none"} \cup Pending \cup Terminal /\ answer = [answer EXCEPT ![w] = answer[w]]
    BY <1>0 DEF TypeOK
  <2> QED
    BY <1>k, <2>1 DEF Poll, Goto, Stay, Pending, Terminal
<1>3. /\ polled' = [polled EXCEPT ![k] = @ + 1] /\ polled' \in [Tasks -> Nat]
      /\ UNCHANGED <<lock, req, jobs, costs, ready, used, spent, unknown, remote, submissions>>
  BY <1>0, <1>k DEF Poll, TypeOK, Stay, budget
<1>4. TypeOK'
  BY <1>0, <1>2, <1>3 DEF TypeOK, Steps
<1>5. ASSUME NEW v \in Workers PROVE WorkerInv(v)'
  <2>1. CASE v = w
    BY <1>0, <1>2, <1>3, <2>1 DEF TypeOK, WorkerInv, Committed, Asking
  <2>2. CASE v # w
    BY <1>0, <1>2, <1>3, <2>2 DEF TypeOK, IndInv, WorkerInv, Committed, Asking
  <2> QED
    BY <2>1, <2>2
<1>6. ASSUME NEW t \in Tasks PROVE TaskInv(t)'
  <2>1. CASE t = k
    <3>1. Pollers(k)' = Pollers(k) \ {w} /\ w \in Pollers(k)
      BY <1>0, <1>2, <1>3, <1>k DEF Pollers, TypeOK
    <3>2. /\ IsFiniteSet(Pollers(k)') /\ Cardinality(Pollers(k)') = Cardinality(Pollers(k)) - 1
          /\ Cardinality(Pollers(k)) \in Nat
      BY <1>1, <3>1, FS_RemoveElement, FS_CardinalityType DEF TaskInv
    <3>3. polled[k] \in Nat /\ polled'[k] = polled[k] + 1 /\ jobs[k].polls \in Nat
      BY <1>0, <1>3 DEF TypeOK, Job
    <3>4. TaskInv(k)'
      BY <1>1, <1>3, <3>2, <3>3 DEF TaskInv
    <3> QED
      BY <2>1, <3>4
  <2>2. CASE t # k
    <3>1. Pollers(t)' \subseteq Pollers(t) /\ TaskInv(t)
      BY <1>0, <1>2, <1>3 DEF Pollers, TypeOK, IndInv
    <3>2. /\ IsFiniteSet(Pollers(t)') /\ Cardinality(Pollers(t)') <= Cardinality(Pollers(t))
          /\ Cardinality(Pollers(t)') \in Nat /\ Cardinality(Pollers(t)) \in Nat
          /\ polled[t] \in Nat /\ polled'[t] = polled[t] /\ jobs[t].polls \in Nat
      BY <1>0, <1>3, <2>2, <3>1, FewerPollers DEF TypeOK, Job
    <3> QED
      BY <1>3, <3>1, <3>2 DEF TaskInv
  <2> QED
    BY <2>1, <2>2
<1>7. OneSubmitter'
  BY <1>0, <1>2, <1>3 DEF OneSubmitter, IndInv, TypeOK
<1> QED
  BY <1>4, <1>5, <1>6, <1>7 DEF IndInv

LEMMA NextInv == IndInv /\ [Next]_vars => IndInv'
<1> SUFFICES ASSUME IndInv, [Next]_vars PROVE IndInv'
  OBVIOUS
<1>1. CASE UNCHANGED vars
  BY <1>1 DEF vars, budget, history, IndInv, TypeOK, WorkerInv, TaskInv, Pollers, OneSubmitter
<1>2. ASSUME NEW w \in Workers, Start(w) \/ Abort(w) PROVE IndInv'
  BY <1>2, StartInv, LeaveInv DEF Abort
<1>3. ASSUME NEW w \in Workers, Proceed(w) PROVE IndInv'
  <2>1. CASE \E d \in Days : ReserveAndCreate(w, d) \/ RefuseReservation(w, d)
    BY <2>1, ReserveInv, LeaveInv DEF RefuseReservation
  <2>2. CASE Load(w) \/ Orphan(w) \/ Preflight(w) \/ ApplyFails(w) \/ RefusePoll(w)
    BY <2>2, LoadInv, ChecksInv, LeaveInv DEF RefusePoll
  <2>3. CASE Ingest(w) \/ RecordFailure(w) \/ SubmitFailed(w)
    BY <2>3, RecordInvs
  <2>4. CASE Update(w) \/ MarkFailed(w) \/ GiveUpPolling(w) \/ PollError(w)
    BY <2>4, UpdateInv, MarkInv
  <2>5. CASE Submit(w) \/ ReservePoll(w) \/ Poll(w)
    BY <2>5, SubmitInv, ReservePollInv, PollInv
  <2> QED
    BY <1>3, <2>1, <2>2, <2>3, <2>4, <2>5 DEF Proceed
<1>4. CASE \/ \E w \in Workers : LoseLock(w)
           \/ \E k \in Tasks : RemoteFinish(k) \/ Promote(k)
  BY <1>4, EnvironmentInv
<1> QED
  BY <1>1, <1>2, <1>3, <1>4 DEF Next

(* The inductive invariant of the calls holds in every reachable state,    *)
(* also when the advisory lock is lost (pg_advisory_lock of asr_execution).*)
THEOREM Invariance == Spec => []IndInv
  BY InitInv, NextInv, PTL DEF Spec

(* A task is submitted at most once, never after an attempt that may have  *)
(* been billed, and polled no more often than MAX_SCHEDULED_POLLS by the   *)
(* scheduled worker (ASRExecutionCoordinator.run).                         *)
THEOREM CallsAreBounded == Spec => []RemoteCallsBounded
<1>1. IndInv => RemoteCallsBounded
  <2> SUFFICES ASSUME IndInv PROVE RemoteCallsBounded
    OBVIOUS
  <2>1. \A k \in Tasks : submissions[k] = 1 => jobs[k].status # "none" /\ k \notin Orphans
    BY DEF IndInv, TaskInv
  <2>2. ASSUME NEW k \in Scheduled PROVE polled[k] <= PollLimit
    <3>1. /\ k \in Tasks /\ TaskInv(k) /\ PollLimit \in Nat
          /\ polled[k] \in Nat /\ jobs[k].polls \in Nat
      BY TaskAssumption, LimitAssumption DEF IndInv, TypeOK, Job
    <3>2. Cardinality(Pollers(k)) \in Nat
      BY <3>1, FS_CardinalityType DEF TaskInv
    <3> QED
      BY <3>1, <3>2 DEF TaskInv
  <2> QED
    BY <2>1, <2>2 DEF RemoteCallsBounded, IndInv, TaskInv
<1> QED
  BY <1>1, Invariance, PTL

-----------------------------------------------------------------------------
(* The daily budgets. A row changes when a job is created on its day and   *)
(* when a poll of such a job is booked, by as much as the job.             *)

Books(d) ==
  /\ used[d] = SumFunctionOnSet(Bookings, JobsOn(d))
  /\ MaxRequests[d] # Unlimited => used[d] <= MaxRequests[d]
  /\ spent[d] = SumFunctionOnSet(Charge, JobsOn(d))
  /\ unknown[d] = Cardinality(UnwholeOn(d))
  /\ MaxCost[d] # Unlimited => spent[d] <= MaxCost[d] /\ unknown[d] = 0

BooksInv == \A d \in Days : Books(d)

LEMMA BookTypes ==
  ASSUME IndInv
  PROVE  /\ \A k \in Tasks : Bookings[k] \in Nat /\ Charge[k] \in Nat
         /\ \A d \in Days : /\ IsFiniteSet(JobsOn(d)) /\ JobsOn(d) \subseteq Tasks
                            /\ IsFiniteSet(UnwholeOn(d)) /\ UnwholeOn(d) \subseteq JobsOn(d)
<1>1. ASSUME NEW k \in Tasks PROVE Bookings[k] \in Nat /\ Charge[k] \in Nat
  <2>1. jobs[k].polls \in Nat /\ (jobs[k].status # "none" => jobs[k].quote.known \in Nat)
    BY DEF IndInv, TypeOK, TaskInv, Job, Quote
  <2> QED
    BY <2>1 DEF Bookings, Charge
<1>2. ASSUME NEW d \in Days
      PROVE  /\ IsFiniteSet(JobsOn(d)) /\ JobsOn(d) \subseteq Tasks
             /\ IsFiniteSet(UnwholeOn(d)) /\ UnwholeOn(d) \subseteq JobsOn(d)
  BY TaskAssumption, FS_Subset DEF JobsOn, UnwholeOn
<1> QED
  BY <1>1, <1>2

LEMMA BookTypesAfter ==
  ASSUME IndInv'
  PROVE  \A k \in Tasks : Bookings'[k] \in Nat /\ Charge'[k] \in Nat
<1> SUFFICES ASSUME NEW k \in Tasks PROVE Bookings'[k] \in Nat /\ Charge'[k] \in Nat
  OBVIOUS
<1>1. jobs'[k].polls \in Nat /\ (jobs'[k].status # "none" => jobs'[k].quote.known \in Nat)
  BY DEF IndInv, TypeOK, TaskInv, Job, Quote
<1> QED
  BY <1>1 DEF Bookings, Charge

LEMMA InitBooks == Init => BooksInv
<1> SUFFICES ASSUME Init, NEW d \in Days PROVE Books(d)
  BY DEF BooksInv
<1>1. JobsOn(d) = {} /\ UnwholeOn(d) = {}
  BY DEF Init, JobsOn, UnwholeOn, NoJob
<1>2. SumFunctionOnSet(Bookings, {}) = 0 /\ SumFunctionOnSet(Charge, {}) = 0
  BY SumOfNone
<1> QED
  BY <1>1, <1>2, FS_EmptySet, LimitAssumption DEF Books, Init

LEMMA SameBooks ==
  ASSUME BooksInv, UNCHANGED budget, \A k \in Tasks : SameBooking(k)
  PROVE  BooksInv'
<1>1. \A d \in Days : JobsOn(d)' = JobsOn(d) /\ UnwholeOn(d)' = UnwholeOn(d)
  BY DEF JobsOn, UnwholeOn, SameBooking
<1>2. Bookings' = Bookings /\ Charge' = Charge
  BY DEF Bookings, Charge, SameBooking
<1> QED
  BY <1>1, <1>2 DEF BooksInv, Books, budget

(* Only two actions book.                                                  *)
LEMMA SameBookingStep ==
  ASSUME IndInv, NEW w \in Workers,
         \/ Start(w) \/ Abort(w) \/ LoseLock(w)
         \/ \E d \in Days : RefuseReservation(w, d)
         \/ Load(w) \/ Orphan(w) \/ Preflight(w) \/ ApplyFails(w) \/ RefusePoll(w)
         \/ Ingest(w) \/ RecordFailure(w) \/ SubmitFailed(w) \/ Submit(w) \/ Poll(w)
         \/ Update(w) \/ MarkFailed(w) \/ GiveUpPolling(w) \/ PollError(w)
  PROVE  UNCHANGED budget /\ \A k \in Tasks : SameBooking(k)
<1>1. CASE UNCHANGED <<jobs, budget>>
  BY <1>1 DEF SameBooking
<1>2. CASE Update(w) \/ MarkFailed(w) \/ GiveUpPolling(w) \/ PollError(w)
  <2>1. /\ req[w].key \in Tasks /\ jobs \in [Tasks -> Job] /\ budget' = budget
        /\ jobs[req[w].key].status # "none" /\ (Update(w) => answer[w] # "none")
    BY <1>2 DEF IndInv, WorkerInv, Committed, Asking, TypeOK, Update, MarkFailed, GiveUpPolling, PollError, At
  <2>2. PICK k \in Tasks : k = req[w].key
    BY <2>1
  <2>3. \A t \in Tasks : t # k => jobs'[t] = jobs[t]
    BY <1>2, <2>1, <2>2 DEF Update, MarkFailed, GiveUpPolling, PollError
  <2>4. SameBooking(k)
    <3>1. CASE Update(w)
      <4>1. jobs'[k] = Updated(jobs[k], answer[w])
        BY <2>1, <2>2, <3>1 DEF Update
      <4> QED
        BY <2>1, <2>2, <3>1, <4>1 DEF SameBooking, Updated, Job
    <3>2. CASE MarkFailed(w)
      BY <2>1, <2>2, <3>2 DEF MarkFailed, SameBooking, Job
    <3>3. CASE GiveUpPolling(w) \/ PollError(w)
      BY <2>1, <2>2, <3>3 DEF GiveUpPolling, PollError, SameBooking, Job
    <3> QED
      BY <1>2, <3>1, <3>2, <3>3
  <2> QED
    BY <2>1, <2>3, <2>4 DEF SameBooking
<1>3. CASE Start(w) \/ Abort(w) \/ LoseLock(w) \/ \E d \in Days : RefuseReservation(w, d)
  BY <1>1, <1>3 DEF Start, Abort, LoseLock, RefuseReservation
<1>4. CASE Load(w) \/ Orphan(w) \/ Preflight(w) \/ ApplyFails(w) \/ RefusePoll(w)
  BY <1>1, <1>4 DEF Load, Orphan, Preflight, ApplyFails, RefusePoll
<1>5. CASE Ingest(w) \/ RecordFailure(w) \/ SubmitFailed(w) \/ Submit(w) \/ Poll(w)
  BY <1>1, <1>5 DEF Ingest, RecordFailure, SubmitFailed, Submit, Poll
<1> QED
  BY <1>2, <1>3, <1>4, <1>5

(* A new job joins the books of its day.                                   *)
LEMMA ReserveBooks ==
  ASSUME IndInv, IndInv', BooksInv, NEW w \in Workers, NEW d \in Days, ReserveAndCreate(w, d)
  PROVE  BooksInv'
<1>0. req[w].key \in Tasks /\ req[w].quote \in Quote /\ TypeOK
  BY DEF IndInv, WorkerInv, ReserveAndCreate, At
<1>k. PICK k \in Tasks, q \in Quote : k = req[w].key /\ q = req[w].quote
  BY <1>0
<1>1. /\ jobs[k].status = "none" /\ q.known \in Nat /\ q.whole \in BOOLEAN
      /\ WithinBudget(d, q.known, q.whole) /\ ReserveBudget(d, q.known, q.whole)
  BY <1>k DEF ReserveAndCreate, TaskKeyFree, Quote
<1>2. /\ jobs'[k].status = "submitting" /\ jobs'[k].quote = q /\ jobs'[k].day = d /\ jobs'[k].polls = 0
      /\ \A t \in Tasks : t # k => jobs'[t] = jobs[t]
  <2>1. jobs' = [jobs EXCEPT ![k] = [NoJob EXCEPT !.status = "submitting", !.quote = q, !.day = d]]
    BY <1>k DEF ReserveAndCreate
  <2> QED
    BY <1>0, <2>1 DEF TypeOK, NoJob
<1>3. \A b \in Days : k \notin JobsOn(b) /\ k \notin UnwholeOn(b)
  BY <1>1 DEF JobsOn, UnwholeOn
<1>4. /\ JobsOn(d)' = JobsOn(d) \cup {k}
      /\ UnwholeOn(d)' = IF q.whole THEN UnwholeOn(d) ELSE UnwholeOn(d) \cup {k}
      /\ \A b \in Days : b # d => JobsOn(b)' = JobsOn(b) /\ UnwholeOn(b)' = UnwholeOn(b)
  <2>1. \A b \in Days, t \in Tasks : t \in JobsOn(b)' <=> t \in JobsOn(b) \/ (t = k /\ b = d)
    BY <1>1, <1>2 DEF JobsOn
  <2>2. \A b \in Days, t \in Tasks :
          t \in UnwholeOn(b)' <=> t \in UnwholeOn(b) \/ (t = k /\ b = d /\ ~q.whole)
    BY <1>1, <1>2 DEF JobsOn, UnwholeOn
  <2>3. \A b \in Days : /\ JobsOn(b) \subseteq Tasks /\ JobsOn(b)' \subseteq Tasks
                        /\ UnwholeOn(b) \subseteq Tasks /\ UnwholeOn(b)' \subseteq Tasks
    BY DEF JobsOn, UnwholeOn
  <2>4. \A b \in Days : b # d => JobsOn(b)' = JobsOn(b) /\ UnwholeOn(b)' = UnwholeOn(b)
    BY <2>1, <2>2, <2>3
  <2>5. JobsOn(d)' = JobsOn(d) \cup {k}
    BY <2>1, <2>3
  <2>6. UnwholeOn(d)' = IF q.whole THEN UnwholeOn(d) ELSE UnwholeOn(d) \cup {k}
    BY <2>2, <2>3
  <2> QED
    BY <2>4, <2>5, <2>6
<1>5. /\ \A t \in Tasks : Bookings'[t] \in Nat /\ Charge'[t] \in Nat
      /\ Bookings'[k] = 1 /\ Charge'[k] = q.known
      /\ \A t \in Tasks : t # k => Bookings'[t] = Bookings[t] /\ Charge'[t] = Charge[t]
  <2>1. \A t \in Tasks : Bookings'[t] \in Nat /\ Charge'[t] \in Nat
    BY BookTypesAfter
  <2>2. \A t \in Tasks : /\ Bookings'[t] = 1 + jobs'[t].polls
                         /\ Charge'[t] = IF jobs'[t].status = "none" THEN 0 ELSE jobs'[t].quote.known
    BY DEF Bookings, Charge
  <2>3. \A t \in Tasks : /\ Bookings[t] = 1 + jobs[t].polls
                         /\ Charge[t] = IF jobs[t].status = "none" THEN 0 ELSE jobs[t].quote.known
    BY DEF Bookings, Charge
  <2> QED
    BY <1>2, <2>1, <2>2, <2>3
<1>6. \A b \in Days : /\ IsFiniteSet(JobsOn(b)) /\ IsFiniteSet(UnwholeOn(b))
                      /\ JobsOn(b) \subseteq Tasks
  BY BookTypes
<1>7. \A b \in Days : /\ SumFunctionOnSet(Bookings', JobsOn(b)) = SumFunctionOnSet(Bookings, JobsOn(b))
                      /\ SumFunctionOnSet(Charge', JobsOn(b)) = SumFunctionOnSet(Charge, JobsOn(b))
  <2> SUFFICES ASSUME NEW b \in Days
               PROVE  /\ SumFunctionOnSet(Bookings', JobsOn(b)) = SumFunctionOnSet(Bookings, JobsOn(b))
                      /\ SumFunctionOnSet(Charge', JobsOn(b)) = SumFunctionOnSet(Charge, JobsOn(b))
    OBVIOUS
  <2>1. \A t \in JobsOn(b) : Bookings'[t] = Bookings[t] /\ Charge'[t] = Charge[t]
    BY <1>3, <1>5, <1>6
  <2> QED
    BY <1>6, <2>1, SumSame
<1>8. /\ SumFunctionOnSet(Bookings', JobsOn(d) \cup {k}) = SumFunctionOnSet(Bookings', JobsOn(d)) + 1
      /\ SumFunctionOnSet(Charge', JobsOn(d) \cup {k}) = SumFunctionOnSet(Charge', JobsOn(d)) + q.known
  <2>1. \A t \in JobsOn(d) \cup {k} : Bookings'[t] \in Int /\ Charge'[t] \in Int
    BY <1>5, <1>6
  <2> QED
    BY <1>3, <1>5, <1>6, <2>1, SumAdd
<1>9. Cardinality(UnwholeOn(d) \cup {k}) = Cardinality(UnwholeOn(d)) + 1
  BY <1>3, <1>6, FS_AddElement
<1>10. ASSUME NEW b \in Days PROVE Books(b)'
  <2>1. Books(b) /\ used \in [Days -> Nat] /\ spent \in [Days -> Nat] /\ unknown \in [Days -> Nat]
    BY <1>0 DEF BooksInv, TypeOK
  <2>2. CASE b = d
    <3>1. /\ used'[d] = used[d] + 1 /\ spent'[d] = spent[d] + q.known
          /\ unknown'[d] = IF q.whole THEN unknown[d] ELSE unknown[d] + 1
      BY <1>1, <2>1 DEF ReserveBudget
    <3>2. /\ MaxRequests[d] # Unlimited => used'[d] <= MaxRequests[d]
          /\ MaxCost[d] # Unlimited => spent'[d] <= MaxCost[d] /\ unknown'[d] = unknown[d]
      BY <1>1, <3>1 DEF WithinBudget
    <3>3. /\ used'[d] = SumFunctionOnSet(Bookings', JobsOn(d)')
          /\ spent'[d] = SumFunctionOnSet(Charge', JobsOn(d)')
      BY <1>4, <1>7, <1>8, <2>1, <2>2, <3>1 DEF Books
    <3>4. unknown'[d] = Cardinality(UnwholeOn(d)')
      BY <1>1, <1>4, <1>9, <2>1, <2>2, <3>1 DEF Books
    <3>5. MaxCost[d] # Unlimited => unknown[d] = 0
      BY <2>1, <2>2 DEF Books
    <3> QED
      BY <2>2, <3>2, <3>3, <3>4, <3>5 DEF Books
  <2>3. CASE b # d
    <3>1. used'[b] = used[b] /\ spent'[b] = spent[b] /\ unknown'[b] = unknown[b]
      BY <1>1, <2>1, <2>3 DEF ReserveBudget
    <3> QED
      BY <1>4, <1>7, <2>1, <2>3, <3>1 DEF Books
  <2> QED
    BY <2>2, <2>3
<1> QED
  BY <1>10 DEF BooksInv

(* A poll is booked on the day of its job.                                 *)
LEMMA PollBooks ==
  ASSUME IndInv, IndInv', BooksInv, NEW w \in Workers, ReservePoll(w)
  PROVE  BooksInv'
<1>0. req[w].key \in Tasks /\ TypeOK /\ jobs[req[w].key].status # "none"
  BY DEF IndInv, WorkerInv, ReservePoll, At, Committed, Asking
<1>k. PICK k \in Tasks, d \in Days : k = req[w].key /\ d = jobs[k].day
  BY <1>0 DEF IndInv, TaskInv
<1>1. WithinBudget(d, 0, TRUE) /\ ReserveBudget(d, 0, TRUE) /\ jobs[k].status # "none"
  BY <1>0, <1>k DEF ReservePoll
<1>2. /\ jobs'[k].status = jobs[k].status /\ jobs'[k].quote = jobs[k].quote
      /\ jobs'[k].day = d /\ jobs'[k].polls = jobs[k].polls + 1
      /\ \A t \in Tasks : t # k => jobs'[t] = jobs[t]
  <2>1. jobs' = [jobs EXCEPT ![k].polls = @ + 1] /\ jobs[k] \in Job
    BY <1>0, <1>k DEF ReservePoll, TypeOK
  <2> QED
    BY <1>0, <1>k, <2>1 DEF TypeOK, Job
<1>3. \A b \in Days : JobsOn(b)' = JobsOn(b) /\ UnwholeOn(b)' = UnwholeOn(b)
  <2>1. \A t \in Tasks : /\ jobs'[t].status = jobs[t].status /\ jobs'[t].quote = jobs[t].quote
                         /\ jobs'[t].day = jobs[t].day
    BY <1>2, <1>k
  <2> QED
    BY <2>1 DEF JobsOn, UnwholeOn
<1>4. \A b \in Days : /\ IsFiniteSet(JobsOn(b)) /\ JobsOn(b) \subseteq Tasks
                      /\ k \in JobsOn(b) <=> b = d
  BY <1>1, <1>k, BookTypes DEF JobsOn
<1>5. /\ \A t \in Tasks : Bookings'[t] \in Nat /\ Charge'[t] = Charge[t] /\ Bookings[t] \in Nat
      /\ Bookings'[k] = Bookings[k] + 1
      /\ \A t \in Tasks : t # k => Bookings'[t] = Bookings[t]
  <2>1. \A t \in Tasks : Bookings'[t] \in Nat /\ Bookings[t] \in Nat
    BY BookTypes, BookTypesAfter
  <2>2. \A t \in Tasks : /\ Bookings'[t] = 1 + jobs'[t].polls
                         /\ Charge'[t] = IF jobs'[t].status = "none" THEN 0 ELSE jobs'[t].quote.known
    BY DEF Bookings, Charge
  <2>3. \A t \in Tasks : /\ Bookings[t] = 1 + jobs[t].polls
                         /\ Charge[t] = IF jobs[t].status = "none" THEN 0 ELSE jobs[t].quote.known
    BY DEF Bookings, Charge
  <2>4. jobs[k].polls \in Nat
    BY <1>0 DEF TypeOK, Job
  <2> QED
    BY <1>2, <2>1, <2>2, <2>3, <2>4
<1>6. \A b \in Days : SumFunctionOnSet(Charge', JobsOn(b)) = SumFunctionOnSet(Charge, JobsOn(b))
  <2> SUFFICES ASSUME NEW b \in Days
               PROVE  SumFunctionOnSet(Charge', JobsOn(b)) = SumFunctionOnSet(Charge, JobsOn(b))
    OBVIOUS
  <2>1. \A t \in JobsOn(b) : Charge'[t] = Charge[t]
    BY <1>4, <1>5
  <2> QED
    BY <1>4, <2>1, SumSame
<1>7. \A b \in Days : b # d =>
        SumFunctionOnSet(Bookings', JobsOn(b)) = SumFunctionOnSet(Bookings, JobsOn(b))
  <2> SUFFICES ASSUME NEW b \in Days, b # d
               PROVE  SumFunctionOnSet(Bookings', JobsOn(b)) = SumFunctionOnSet(Bookings, JobsOn(b))
    OBVIOUS
  <2>1. \A t \in JobsOn(b) : Bookings'[t] = Bookings[t]
    BY <1>4, <1>5
  <2> QED
    BY <1>4, <2>1, SumSame
<1>8. SumFunctionOnSet(Bookings', JobsOn(d)) = SumFunctionOnSet(Bookings, JobsOn(d)) + 1
  <2>1. \A t \in JobsOn(d) : Bookings[t] \in Int /\ Bookings'[t] \in Int
    BY <1>4, <1>5
  <2>2. \A t \in JobsOn(d) \ {k} : Bookings'[t] = Bookings[t]
    BY <1>4, <1>5
  <2>3. SumFunctionOnSet(Bookings', JobsOn(d)) = SumFunctionOnSet(Bookings, JobsOn(d)) - Bookings[k] + Bookings'[k]
    BY <1>4, <2>1, <2>2, SumChange
  <2>4. SumFunctionOnSet(Bookings, JobsOn(d)) \in Int
    BY <1>4, <2>1, SumType
  <2> QED
    BY <1>5, <2>3, <2>4
<1>9. ASSUME NEW b \in Days PROVE Books(b)'
  <2>1. Books(b) /\ used \in [Days -> Nat] /\ spent \in [Days -> Nat] /\ unknown \in [Days -> Nat]
    BY <1>0 DEF BooksInv, TypeOK
  <2>2. spent'[b] = spent[b] /\ unknown'[b] = unknown[b]
    BY <1>1, <2>1 DEF ReserveBudget
  <2>3. CASE b = d
    <3>1. used'[d] = used[d] + 1 /\ (MaxRequests[d] # Unlimited => used'[d] <= MaxRequests[d])
      BY <1>1, <2>1 DEF ReserveBudget, WithinBudget
    <3>2. used'[b] = SumFunctionOnSet(Bookings', JobsOn(b)')
      BY <1>3, <1>8, <2>1, <2>3, <3>1 DEF Books
    <3> QED
      BY <1>3, <1>6, <2>1, <2>2, <2>3, <3>1, <3>2 DEF Books
  <2>4. CASE b # d
    <3>1. used'[b] = used[b]
      BY <1>1, <2>1, <2>4 DEF ReserveBudget
    <3> QED
      BY <1>3, <1>6, <1>7, <2>1, <2>2, <2>4, <3>1 DEF Books
  <2> QED
    BY <2>3, <2>4
<1> QED
  BY <1>9 DEF BooksInv

LEMMA NextBooks == IndInv /\ BooksInv /\ [Next]_vars => BooksInv'
<1> SUFFICES ASSUME IndInv, BooksInv, [Next]_vars PROVE BooksInv'
  OBVIOUS
<1>0. IndInv'
  BY NextInv
<1>1. CASE \/ UNCHANGED vars
           \/ \E k \in Tasks : RemoteFinish(k) \/ Promote(k)
  <2>1. UNCHANGED <<jobs, budget>>
    BY <1>1 DEF vars, RemoteFinish, Promote
  <2> QED
    BY <2>1, SameBooks DEF SameBooking
<1>2. ASSUME NEW w \in Workers, \E d \in Days : ReserveAndCreate(w, d) PROVE BooksInv'
  BY <1>0, <1>2, ReserveBooks
<1>3. ASSUME NEW w \in Workers, ReservePoll(w) PROVE BooksInv'
  BY <1>0, <1>3, PollBooks
<1>4. ASSUME NEW w \in Workers,
             Start(w) \/ Proceed(w) \/ Abort(w) \/ LoseLock(w),
             ~(\E d \in Days : ReserveAndCreate(w, d)), ~ReservePoll(w)
      PROVE  BooksInv'
  BY <1>4, SameBookingStep, SameBooks DEF Proceed
<1> QED
  BY <1>1, <1>2, <1>3, <1>4 DEF Next

(* Every call is booked before it is made, and a row of daily_budget is    *)
(* exactly what the jobs of its day stand for, under any limits            *)
(* (_reserve_budget and _reserve_poll), whether or not the lock holds.     *)
THEOREM CallsAreBooked == Spec => []CallsBooked
<1>1. IndInv /\ BooksInv => CallsBooked
  <2> SUFFICES ASSUME IndInv, BooksInv PROVE CallsBooked
    OBVIOUS
  <2>1. ASSUME NEW k \in Tasks
        PROVE  submissions[k] + polled[k] <= IF jobs[k].status = "none" THEN 0 ELSE 1 + jobs[k].polls
    <3>1. /\ TaskInv(k) /\ polled[k] \in Nat /\ jobs[k].polls \in Nat
          /\ Cardinality(Pollers(k)) \in Nat
      BY FS_CardinalityType DEF IndInv, TypeOK, Job, TaskInv
    <3> QED
      BY <3>1 DEF TaskInv
  <2> QED
    BY <2>1 DEF CallsBooked, IndInv, BooksInv, Books
<1> QED
  BY <1>1, InitBooks, NextBooks, Invariance, PTL DEF Spec

-----------------------------------------------------------------------------
(* The records of a task under a lock that holds.                          *)

LEMMA InitLock == Init => LockInv
BY DEF Init, LockInv, LockedInv, RecordInv, NoJob, Terminal

(* The invocation that has the lock is the only one.                       *)
LEMMA LockStep ==
  ASSUME LockInv, NEW w \in Workers, pc[w] # "idle" \/ lock = NoWorker,
         OnlyWorker(w), LockedInv(w)', \A k \in Tasks : RecordInv(k)'
  PROVE  LockInv'
<1>1. ASSUME NEW v \in Workers, v # w PROVE LockedInv(v)'
  <2>1. pc[v] = "idle"
    BY <1>1 DEF LockInv, LockedInv
  <2>2. pc'[v] = "idle"
    BY <1>1, <2>1 DEF OnlyWorker
  <2> QED
    BY <2>2 DEF LockedInv
<1> QED
  BY <1>1 DEF LockInv

(* A step of the control only.                                             *)
LEMMA ControlStep ==
  ASSUME LockInv, NEW w \in Workers, pc[w] # "idle" \/ lock = NoWorker,
         OnlyWorker(w), LockedInv(w)', UNCHANGED <<jobs, costs, remote, submissions>>
  PROVE  LockInv' /\ UNCHANGED Paid!paidVars
<1>1. \A k \in Tasks : RecordInv(k)'
  BY DEF LockInv, RecordInv
<1>2. LockInv'
  BY <1>1, LockStep
<1> QED
  BY <1>2 DEF Paid!paidVars

(* What the specification of paid tasks sees.                              *)
OwnReserved == {k \in Own : jobs[k].status # "none"}
OwnCalls == [k \in Own |-> submissions[k]]
OwnOutcome == [k \in Own |-> costs[k]]
OwnClosed == [k \in Own |-> IF jobs[k].status \in Terminal THEN jobs[k].status ELSE "open"]

(* A step in which w ends and the records stay.                            *)
LEMMA LeaveStep ==
  ASSUME IndInv, LockInv, NEW w \in Workers, pc[w] # "idle", Leave(w),
         UNCHANGED <<jobs, costs, remote, submissions>>
  PROVE  LockInv' /\ UNCHANGED Paid!paidVars
<1>1. OnlyWorker(w) /\ pc'[w] = "idle"
  BY LeaveTypes DEF IndInv
<1>2. LockedInv(w)'
  BY <1>1 DEF LockedInv
<1> QED
  BY <1>1, <1>2, ControlStep

LEMMA ChecksStep ==
  ASSUME IndInv, LockInv, NEW w \in Workers,
         Start(w) \/ Load(w) \/ Orphan(w) \/ Preflight(w) \/ ApplyFails(w) \/ Poll(w)
  PROVE  LockInv' /\ UNCHANGED Paid!paidVars
<1>0. /\ TypeOK /\ LockedInv(w) /\ UNCHANGED <<jobs, costs, remote, submissions>>
      /\ pc[w] # "idle" \/ lock = NoWorker
  BY DEF IndInv, LockInv, Start, Load, Orphan, Preflight, ApplyFails, Poll, At, history
<1>1. CASE Leave(w)
  <2>1. pc[w] # "idle"
    <3>1. CASE Start(w)
      <4>1. pc'[w] = "load"
        BY <1>0, <3>1 DEF Start, Goto, TypeOK
      <4>2. pc'[w] = "idle"
        BY <1>0, <1>1 DEF Leave, TypeOK
      <4> QED
        BY <4>1, <4>2
    <3> QED
      BY <3>1 DEF Load, Orphan, Preflight, ApplyFails, Poll, At
  <2> QED
    BY <1>0, <1>1, <2>1, LeaveStep
<1>2. CASE Start(w)
  <2>1. lock' = w /\ pc'[w] = "load" /\ OnlyWorker(w)
    BY <1>0, <1>2 DEF Start, Goto, TypeOK, OnlyWorker
  <2>2. LockedInv(w)'
    BY <2>1 DEF LockedInv
  <2> QED
    BY <1>0, <2>1, <2>2, ControlStep
<1>3. CASE ~Leave(w) /\ (Load(w) \/ Orphan(w) \/ Preflight(w))
  <2>1. /\ lock' = lock /\ lock = w /\ OnlyWorker(w)
        /\ pc'[w] \in {"orphan", "preflight", "reserve", "poll"}
        /\ pc'[w] = "poll" =>
             MayPoll(jobs[req[w].key]) /\ req'[w].key = req[w].key /\ req'[w].polling
    BY <1>0, <1>3 DEF Load, Orphan, Preflight, Goto, Stay, TypeOK, OnlyWorker, At, LockedInv, Request
  <2>2. LockedInv(w)'
    BY <1>0, <2>1 DEF LockedInv, MayPoll, Pending, Terminal
  <2> QED
    BY <1>0, <2>1, <2>2, ControlStep
<1>4. CASE ApplyFails(w)
  <2>1. /\ lock' = lock /\ lock = w /\ OnlyWorker(w) /\ req' = req /\ answer' = answer
        /\ pc'[w] = Handler(w)
    BY <1>0, <1>4 DEF ApplyFails, Goto, Stay, TypeOK, OnlyWorker, LockedInv
  <2>2. LockedInv(w)'
    <3>1. CASE req[w].polling
      <4>1. pc'[w] = "pollError"
        BY <2>1, <3>1 DEF Handler
      <4> QED
        BY <2>1, <4>1 DEF LockedInv
    <3>2. CASE ~req[w].polling
      <4>1. pc'[w] = "submitFailed"
        BY <2>1, <3>2 DEF Handler
      <4>2. submissions[req[w].key] = 1 /\ costs[req[w].key] # "completed"
        BY <1>0, <1>4, <3>2 DEF IndInv, WorkerInv, Asking, ApplyFails, LockedInv
      <4> QED
        BY <1>0, <2>1, <4>1, <4>2 DEF LockedInv
    <3> QED
      BY <3>1, <3>2
  <2> QED
    BY <1>0, <2>1, <2>2, ControlStep
<1>5. CASE Poll(w)
  <2>k. PICK k \in Tasks : k = req[w].key
    BY <1>5 DEF IndInv, WorkerInv, Poll, At
  <2>1. /\ lock' = lock /\ lock = w /\ OnlyWorker(w) /\ req' = req
        /\ \/ pc'[w] = "pollError"
           \/ /\ pc'[w] \in {"apply", "update"}
              /\ answer'[w] = IF remote[k] \in Terminal THEN remote[k] ELSE "running"
              /\ pc'[w] = "update" => answer'[w] = "running"
    BY <1>0, <1>5, <2>k DEF Poll, Goto, Stay, TypeOK, OnlyWorker, LockedInv, At
  <2>2. jobs[k].status \notin Terminal /\ req[w].polling
    BY <1>0, <1>5, <2>k DEF Poll, At, LockedInv
  <2>3. LockedInv(w)'
    BY <1>0, <2>k, <2>1, <2>2 DEF LockedInv, Terminal
  <2> QED
    BY <1>0, <2>1, <2>3, ControlStep
<1> QED
  BY <1>1, <1>2, <1>3, <1>4, <1>5

(* A step of w that writes the records of one task.                        *)
LEMMA TaskStep ==
  ASSUME LockInv, NEW w \in Workers, pc[w] # "idle", OnlyWorker(w), LockedInv(w)',
         NEW k \in Tasks, RecordInv(k)',
         \A t \in Tasks \ {k} : /\ jobs'[t] = jobs[t] /\ costs'[t] = costs[t]
                                /\ remote'[t] = remote[t] /\ submissions'[t] = submissions[t]
  PROVE  LockInv'
<1>1. \A t \in Tasks : RecordInv(t)'
  BY DEF LockInv, RecordInv
<1> QED
  BY <1>1, LockStep

LEMMA ReserveStep ==
  ASSUME IndInv, LockInv, NEW w \in Workers, NEW d \in Days, ReserveAndCreate(w, d)
  PROVE  LockInv' /\ Paid!Next
<1>0. TypeOK /\ LockedInv(w) /\ pc[w] = "reserve" /\ req[w].key \in Tasks /\ WorkerInv(w)
  BY DEF IndInv, LockInv, ReserveAndCreate, At, WorkerInv
<1>k. PICK k \in Tasks : k = req[w].key
  BY <1>0
<1>1. /\ jobs[k].status = "none" /\ jobs'[k].status = "submitting"
      /\ \A t \in Tasks : t # k => jobs'[t] = jobs[t]
      /\ UNCHANGED <<costs, remote, submissions>>
      /\ pc'[w] = "submit" /\ lock' = lock /\ req' = req /\ OnlyWorker(w)
  BY <1>0, <1>k DEF ReserveAndCreate, TaskKeyFree, TypeOK, NoJob, history, Stay, Goto, OnlyWorker
<1>2. RecordInv(k)
  BY DEF LockInv
<1>3. RecordInv(k)' /\ LockedInv(w)'
  BY <1>0, <1>1, <1>2, <1>k DEF RecordInv, LockedInv, Terminal
<1>4. LockInv'
  BY <1>0, <1>1, <1>3, TaskStep
<1>o. k \in Own
  BY <1>0, <1>k DEF WorkerInv
<1>5. OwnReserved' = OwnReserved \cup {k} /\ k \notin OwnReserved
  BY <1>1, <1>o DEF OwnReserved
<1>6. OwnClosed' = OwnClosed
  BY <1>1 DEF OwnClosed, Terminal
<1>7. Paid!Reserve(k)
  BY <1>1, <1>o, <1>5, <1>6 DEF Paid!Reserve, OwnReserved, OwnClosed
<1> QED
  BY <1>4, <1>o, <1>7 DEF Paid!Next

LEMMA SubmitStep ==
  ASSUME IndInv, LockInv, "completed" \notin SubmitAnswers, NEW w \in Workers, Submit(w)
  PROVE  LockInv' /\ Paid!Next
<1>0. TypeOK /\ LockedInv(w) /\ pc[w] = "submit" /\ req[w].key \in Tasks /\ WorkerInv(w)
  BY DEF IndInv, LockInv, Submit, At, WorkerInv
<1>k. PICK k \in Tasks : k = req[w].key
  BY <1>0
<1>1. /\ submissions[k] = 0 /\ jobs[k].status = "submitting" /\ costs[k] = "none"
      /\ submissions' = [submissions EXCEPT ![k] = 1] /\ UNCHANGED <<jobs, costs>>
  <2>1. submissions[k] = 0 /\ jobs[k].status = "submitting" /\ RecordInv(k) /\ k \in Own
    BY <1>0, <1>k DEF WorkerInv, LockedInv, LockInv, IndInv, TaskInv
  <2>2. submissions' = [submissions EXCEPT ![k] = @ + 1] /\ UNCHANGED <<jobs, costs>>
    BY <1>k DEF Submit
  <2> QED
    BY <1>0, <2>1, <2>2 DEF RecordInv, TypeOK
<1>2. \/ pc'[w] = "submitFailed"
      \/ /\ pc'[w] \in {"apply", "update"} /\ answer'[w] # "completed"
         /\ answer'[w] \in Terminal => remote'[k] = answer'[w]
         /\ pc'[w] = "update" => answer'[w] \notin Terminal
  <2>1. \/ Goto(w, "submitFailed")
        \/ \E a \in SubmitAnswers :
             /\ remote' = [remote EXCEPT ![k] = IF a \in Terminal THEN a ELSE "working"]
             /\ answer' = [answer EXCEPT ![w] = a]
             /\ Goto(w, IF a \in Terminal THEN "apply" ELSE "update")
    BY <1>k, ZenonT(60) DEF Submit
  <2> QED
    BY <1>0, <2>1 DEF Goto, TypeOK
<1>3. /\ lock' = lock /\ req' = req /\ OnlyWorker(w)
      /\ \A t \in Tasks \ {k} : remote'[t] = remote[t] /\ submissions'[t] = submissions[t]
      /\ submissions'[k] = 1
  <2>1. lock' = lock /\ req' = req
    BY DEF Submit, Stay
  <2>2. OnlyWorker(w)
    BY <1>0, <2>1 DEF Submit, Stay, Goto, TypeOK, OnlyWorker
  <2>3. \E r : remote' = [remote EXCEPT ![k] = r]
    BY <1>k DEF Submit
  <2> QED
    BY <1>0, <1>1, <2>1, <2>2, <2>3 DEF TypeOK
<1>4. RecordInv(k)'
  BY <1>1, <1>3 DEF RecordInv, Terminal
<1>5. LockedInv(w)'
  BY <1>0, <1>1, <1>2, <1>3, <1>k DEF LockedInv, Terminal
<1>6. LockInv'
  BY <1>0, <1>1, <1>3, <1>4, <1>5, TaskStep
<1>7. k \in Own /\ OwnCalls' = [OwnCalls EXCEPT ![k] = 1] /\ OwnCalls[k] = 0
  BY <1>0, <1>1 DEF OwnCalls, TypeOK, IndInv, TaskInv
<1>8. Paid!Call(k)
  BY <1>1, <1>7 DEF Paid!Call, OwnCalls
<1> QED
  BY <1>6, <1>7, <1>8 DEF Paid!Next

(* A cost is recorded, or was recorded before.                             *)
LEMMA RecordStep ==
  ASSUME IndInv, LockInv, NEW w \in Workers, Ingest(w) \/ RecordFailure(w) \/ SubmitFailed(w)
  PROVE  LockInv' /\ [Paid!Next]_Paid!paidVars
<1>0. /\ TypeOK /\ LockedInv(w) /\ pc[w] \in {"apply", "submitFailed"} /\ req[w].key \in Tasks
      /\ WorkerInv(w)
  BY DEF IndInv, LockInv, Ingest, RecordFailure, SubmitFailed, At, WorkerInv
<1>k. PICK k \in Tasks : k = req[w].key
  BY <1>0
<1>1. /\ submissions[k] = 1 /\ RecordInv(k)
      /\ UNCHANGED <<jobs, remote, submissions, lock, req, answer>> /\ OnlyWorker(w)
  BY <1>0, <1>k DEF LockedInv, LockInv, WorkerInv, Asking, Ingest, RecordFailure, SubmitFailed,
                    Stay, history, Goto, OnlyWorker, TypeOK
<1>2. PICK c \in Terminal :
        /\ costs[k] \in {"none", c} /\ costs' = [costs EXCEPT ![k] = c]
        /\ c = "completed" => answer[w] = "completed" /\ pc[w] = "apply"
        /\ c = "failed" /\ pc[w] = "apply" => answer[w] = "failed"
  <2>1. CASE Ingest(w)
    <3>1. /\ costs[k] \in {"none", "completed"} /\ costs' = [costs EXCEPT ![k] = "completed"]
          /\ answer[w] = "completed" /\ pc[w] = "apply"
      BY <1>0, <1>k, <2>1 DEF Ingest, TypeOK, Terminal, At
    <3> QED
      BY <3>1 DEF Terminal
  <2>2. CASE RecordFailure(w) \/ SubmitFailed(w)
    <3>1. costs[k] # "completed"
      BY <1>0, <1>1, <1>k, <2>2 DEF RecordFailure, SubmitFailed, LockedInv, RecordInv, Terminal, At
    <3>2. costs[k] \in {"none", "failed"} /\ costs' = [costs EXCEPT ![k] = "failed"]
      BY <1>0, <1>k, <2>2, <3>1 DEF RecordFailure, SubmitFailed, FailedCost, TypeOK, Terminal
    <3>3. pc[w] = "apply" => answer[w] = "failed"
      BY <2>2 DEF RecordFailure, SubmitFailed, At
    <3> QED
      BY <3>2, <3>3 DEF Terminal
  <2> QED
    BY <2>1, <2>2
<1>3. costs'[k] = c /\ \A t \in Tasks \ {k} : costs'[t] = costs[t]
  BY <1>0, <1>2 DEF TypeOK
<1>4. RecordInv(k)'
  BY <1>0, <1>1, <1>2, <1>3, <1>k DEF RecordInv, LockedInv, Terminal
<1>5. LockedInv(w)'
  <2>1. PICK s \in {"update", "pollError", "submitFailed", "markFailed"} :
          /\ pc'[w] = s
          /\ s = "update" => pc[w] = "apply" /\ answer[w] = c
          /\ s = "submitFailed" => pc[w] = "apply" /\ ~req[w].polling
          /\ s = "markFailed" => pc[w] = "submitFailed"
    <3>1. CASE SubmitFailed(w)
      <4>1. pc'[w] = "markFailed" /\ pc[w] = "submitFailed"
        BY <1>0, <3>1 DEF SubmitFailed, Goto, TypeOK, At
      <4> QED
        BY <4>1
    <3>2. CASE Ingest(w) \/ RecordFailure(w)
      <4>1. pc[w] = "apply" /\ answer[w] = c
        BY <1>2, <3>2 DEF Ingest, RecordFailure, At, Terminal
      <4>2. pc'[w] = "update" \/ pc'[w] = Handler(w)
        BY <1>0, <3>2 DEF Ingest, RecordFailure, Goto, TypeOK
      <4> QED
        BY <4>1, <4>2 DEF Handler
    <3> QED
      BY <3>1, <3>2
  <2>2. pc[w] = "submitFailed" => c = "failed"
    BY <1>2 DEF Terminal
  <2>3. pc[w] = "apply" /\ ~req[w].polling => c = "failed"
    BY <1>0, <1>2 DEF Terminal, LockedInv
  <2> QED
    BY <1>0, <1>1, <1>3, <1>k, <2>1, <2>2, <2>3 DEF LockedInv
<1>6. LockInv'
  BY <1>0, <1>1, <1>3, <1>4, <1>5, TaskStep
<1>7. CASE costs[k] = "none"
  <2>1. k \in Own
    BY <1>7 DEF IndInv, TaskInv
  <2>2. OwnOutcome' = [OwnOutcome EXCEPT ![k] = c] /\ OwnOutcome[k] = "none" /\ OwnCalls[k] = 1
    BY <1>0, <1>1, <1>2, <1>7, <2>1 DEF OwnOutcome, OwnCalls, TypeOK
  <2>3. Paid!Record(k, c)
    BY <1>1, <2>1, <2>2 DEF Paid!Record, OwnOutcome, OwnCalls
  <2> QED
    BY <1>6, <2>1, <2>3 DEF Paid!Next, Paid!Outcomes, Terminal
<1>8. CASE costs[k] = c
  <2>1. costs' = costs
    BY <1>0, <1>2, <1>8 DEF TypeOK
  <2> QED
    BY <1>1, <1>6, <2>1 DEF Paid!paidVars
<1> QED
  BY <1>2, <1>7, <1>8

(* The status of a job changes: it is closed, or still open.               *)
LEMMA CloseStep ==
  ASSUME IndInv, NEW k \in Tasks, NEW s \in Pending \cup Terminal,
         jobs[k].status # "none", jobs'[k].status = s,
         \A t \in Tasks \ {k} : jobs'[t] = jobs[t],
         jobs[k].status \in Terminal => jobs[k].status = s,
         s \in Terminal => costs[k] = s,
         UNCHANGED <<costs, submissions>>
  PROVE  [Paid!Next]_Paid!paidVars
<1>1. OwnReserved' = OwnReserved
  BY DEF OwnReserved, Pending, Terminal
<1>2. CASE s \in Terminal /\ jobs[k].status \notin Terminal
  <2>1. k \in Own
    BY DEF IndInv, TaskInv
  <2>2. OwnClosed[k] = "open" /\ OwnClosed' = [OwnClosed EXCEPT ![k] = OwnOutcome[k]]
    BY <1>2, <2>1 DEF OwnClosed, OwnOutcome
  <2>3. OwnOutcome[k] # "none"
    BY <1>2, <2>1 DEF Terminal, OwnOutcome
  <2>4. Paid!Close(k)
    BY <1>1, <2>1, <2>2, <2>3 DEF Paid!Close, OwnReserved, OwnClosed, OwnOutcome
  <2> QED
    BY <2>1, <2>4 DEF Paid!Next
<1>3. CASE ~(s \in Terminal /\ jobs[k].status \notin Terminal)
  <2>1. OwnClosed' = OwnClosed
    BY <1>3 DEF OwnClosed
  <2> QED
    BY <1>1, <2>1 DEF Paid!paidVars, OwnReserved, OwnClosed
<1> QED
  BY <1>2, <1>3

LEMMA UpdateStep ==
  ASSUME IndInv, LockInv, NEW w \in Workers, Update(w)
  PROVE  LockInv' /\ [Paid!Next]_Paid!paidVars
<1>0. /\ TypeOK /\ LockedInv(w) /\ pc[w] = "update" /\ req[w].key \in Tasks /\ WorkerInv(w)
  BY DEF IndInv, LockInv, Update, At, WorkerInv
<1>k. PICK k \in Tasks, a \in Pending \cup Terminal : k = req[w].key /\ a = answer[w]
  BY <1>0 DEF WorkerInv, TypeOK
<1>1. /\ jobs[k].status # "none" /\ jobs[k].status \notin Terminal
      /\ submissions[k] = 1 /\ RecordInv(k)
      /\ a \in Terminal => costs[k] = a
      /\ costs[k] = "completed" => req[w].polling
      /\ UNCHANGED <<costs, remote, submissions>>
  BY <1>0, <1>k DEF LockedInv, LockInv, WorkerInv, Asking, Committed, Update, history
<1>2. /\ jobs'[k].status = a /\ \A t \in Tasks \ {k} : jobs'[t] = jobs[t]
  <2>1. jobs' = [jobs EXCEPT ![k] = Updated(jobs[k], a)] /\ jobs[k] \in Job
    BY <1>0, <1>k DEF Update, TypeOK
  <2> QED
    BY <1>0, <2>1 DEF Updated, Job, TypeOK
<1>3. RecordInv(k)'
  BY <1>1, <1>2 DEF RecordInv
<1>4. OnlyWorker(w) /\ LockedInv(w)'
  <2>1. CASE Goto(w, Handler(w)) /\ Stay
    <3>1. OnlyWorker(w) /\ pc'[w] = Handler(w) /\ UNCHANGED <<lock, req, answer>>
      BY <1>0, <2>1 DEF Goto, Stay, TypeOK, OnlyWorker
    <3>2. CASE req[w].polling
      <4>1. pc'[w] = "pollError"
        BY <3>1, <3>2 DEF Handler
      <4> QED
        BY <1>0, <3>1, <4>1 DEF LockedInv
    <3>3. CASE ~req[w].polling
      <4>1. pc'[w] = "submitFailed"
        BY <3>1, <3>3 DEF Handler
      <4> QED
        BY <1>0, <1>1, <1>k, <3>1, <3>3, <4>1 DEF LockedInv
    <3> QED
      BY <3>2, <3>3
  <2>2. CASE /\ a \in Pending
             /\ req' = [req EXCEPT ![w].polling = TRUE]
             /\ Goto(w, "poll") /\ UNCHANGED <<lock, answer>>
    <3>1. OnlyWorker(w) /\ pc'[w] = "poll" /\ req'[w].polling /\ req'[w].key = k /\ lock' = lock
      BY <1>0, <1>k, <2>2 DEF Goto, TypeOK, OnlyWorker, Request
    <3>2. jobs'[k].status \notin Terminal
      BY <1>2, <2>2 DEF Pending, Terminal
    <3> QED
      BY <1>0, <3>1, <3>2 DEF LockedInv
  <2>3. CASE Leave(w)
    BY <1>0, <2>3, LeaveTypes DEF LockedInv
  <2> QED
    BY <1>k, <2>1, <2>2, <2>3 DEF Update
<1>5. LockInv'
  BY <1>0, <1>1, <1>2, <1>3, <1>4, TaskStep
<1> QED
  BY <1>1, <1>2, <1>5, CloseStep

LEMMA MarkStep ==
  ASSUME IndInv, LockInv, NEW w \in Workers,
         MarkFailed(w) \/ GiveUpPolling(w) \/ PollError(w)
  PROVE  LockInv' /\ [Paid!Next]_Paid!paidVars
<1>0. /\ TypeOK /\ LockedInv(w) /\ pc[w] \in {"markFailed", "poll", "pollError"}
      /\ req[w].key \in Tasks /\ WorkerInv(w)
  BY DEF IndInv, LockInv, MarkFailed, GiveUpPolling, PollError, At, WorkerInv
<1>k. PICK k \in Tasks : k = req[w].key
  BY <1>0
<1>1. /\ jobs[k].status # "none" /\ jobs[k] \in Job /\ RecordInv(k) /\ Leave(w)
      /\ UNCHANGED <<costs, remote, submissions>>
  BY <1>0, <1>k DEF LockInv, WorkerInv, Committed, Asking, TypeOK, history,
                    MarkFailed, GiveUpPolling, PollError
<1>2. OnlyWorker(w) /\ LockedInv(w)'
  BY <1>0, <1>1, LeaveTypes DEF LockedInv
<1>3. \A t \in Tasks \ {k} : jobs'[t] = jobs[t]
  BY <1>0, <1>k DEF MarkFailed, GiveUpPolling, PollError, TypeOK
<1>4. CASE MarkFailed(w)
  <2>1. costs[k] = "failed" /\ jobs'[k].status = "failed"
    BY <1>0, <1>1, <1>4, <1>k DEF MarkFailed, At, LockedInv, TypeOK, Job
  <2>2. RecordInv(k)' /\ (jobs[k].status \in Terminal => jobs[k].status = "failed")
    BY <1>1, <2>1 DEF RecordInv, Terminal
  <2>3. LockInv'
    BY <1>0, <1>1, <1>2, <1>3, <2>2, TaskStep
  <2> QED
    BY <1>1, <1>3, <2>1, <2>2, <2>3, CloseStep DEF Terminal
<1>5. CASE GiveUpPolling(w) \/ PollError(w)
  <2>1. jobs'[k].status = jobs[k].status
    BY <1>0, <1>1, <1>5, <1>k DEF GiveUpPolling, PollError, TypeOK, Job
  <2>2. RecordInv(k)'
    BY <1>1, <2>1 DEF RecordInv
  <2>3. LockInv'
    BY <1>0, <1>1, <1>2, <1>3, <2>2, TaskStep
  <2>4. \A t \in Tasks : jobs'[t].status = jobs[t].status
    BY <1>3, <2>1
  <2>5. OwnReserved' = OwnReserved /\ OwnClosed' = OwnClosed
    BY <2>4 DEF OwnReserved, OwnClosed
  <2> QED
    BY <1>1, <2>3, <2>5 DEF Paid!paidVars, OwnReserved, OwnClosed
<1> QED
  BY <1>4, <1>5

LEMMA ReservePollStep ==
  ASSUME IndInv, LockInv, NEW w \in Workers, ReservePoll(w)
  PROVE  LockInv' /\ UNCHANGED Paid!paidVars
<1>0. /\ TypeOK /\ LockedInv(w) /\ pc[w] = "poll" /\ req[w].key \in Tasks
  BY DEF IndInv, LockInv, ReservePoll, At, WorkerInv
<1>k. PICK k \in Tasks : k = req[w].key
  BY <1>0
<1>1. /\ jobs' = [jobs EXCEPT ![k].polls = @ + 1] /\ req' = [req EXCEPT ![w].polls = @ - 1]
      /\ UNCHANGED <<lock, answer, costs, remote, submissions>> /\ Goto(w, "pollCall")
  BY <1>k DEF ReservePoll, history
<1>2. \A t \in Tasks : jobs'[t].status = jobs[t].status
  BY <1>0, <1>1 DEF TypeOK, Job
<1>3. /\ OnlyWorker(w) /\ pc'[w] = "pollCall" /\ req'[w].key = k
      /\ req'[w].polling = req[w].polling
  BY <1>0, <1>1, <1>k DEF OnlyWorker, Goto, TypeOK, Request
<1>4. LockedInv(w)'
  BY <1>0, <1>1, <1>2, <1>3, <1>k DEF LockedInv
<1>5. \A t \in Tasks : RecordInv(t)'
  BY <1>1, <1>2 DEF LockInv, RecordInv
<1>6. LockInv'
  BY <1>0, <1>3, <1>4, <1>5, LockStep
<1>7. OwnReserved' = OwnReserved /\ OwnClosed' = OwnClosed
  BY <1>2 DEF OwnReserved, OwnClosed
<1> QED
  BY <1>1, <1>6, <1>7 DEF Paid!paidVars, OwnReserved, OwnClosed

LEMMA RemoteStep ==
  ASSUME IndInv, LockInv, NEW k \in Tasks, RemoteFinish(k) \/ Promote(k)
  PROVE  LockInv' /\ UNCHANGED Paid!paidVars
<1>1. /\ UNCHANGED <<lock, pc, req, answer, jobs, costs, submissions>>
      /\ \A t \in Tasks : remote'[t] = remote[t] \/ remote[t] = "working"
  BY DEF RemoteFinish, Promote, history, IndInv, TypeOK
<1>2. ASSUME NEW w \in Workers PROVE LockedInv(w)'
  <2>1. LockedInv(w) /\ (pc[w] \in {"apply", "update"} => req[w].key \in Tasks)
    BY DEF IndInv, LockInv, WorkerInv
  <2> QED
    BY <1>1, <2>1 DEF LockedInv, Terminal
<1>3. ASSUME NEW t \in Tasks PROVE RecordInv(t)'
  BY <1>1 DEF LockInv, RecordInv
<1> QED
  BY <1>1, <1>2, <1>3 DEF LockInv, Paid!paidVars

LEMMA PaidStep ==
  ASSUME ~LockDrops, "completed" \notin SubmitAnswers, IndInv, LockInv, [Next]_vars
  PROVE  LockInv' /\ [Paid!Next]_Paid!paidVars
<1>1. CASE UNCHANGED vars
  BY <1>1 DEF vars, history, LockInv, LockedInv, RecordInv, Paid!paidVars
<1>2. ASSUME NEW w \in Workers, Abort(w) \/ RefusePoll(w) \/ \E d \in Days : RefuseReservation(w, d)
      PROVE  LockInv' /\ [Paid!Next]_Paid!paidVars
  <2>1. pc[w] # "idle" /\ Leave(w) /\ UNCHANGED <<jobs, costs, remote, submissions>>
    BY <1>2 DEF Abort, RefusePoll, RefuseReservation, At, history
  <2> QED
    BY <2>1, LeaveStep
<1>3. ASSUME NEW w \in Workers,
             \/ Start(w) \/ Load(w) \/ Orphan(w) \/ Preflight(w) \/ ApplyFails(w) \/ Poll(w)
             \/ ReservePoll(w)
      PROVE  LockInv' /\ [Paid!Next]_Paid!paidVars
  BY <1>3, ChecksStep, ReservePollStep
<1>4. ASSUME NEW w \in Workers,
             \/ \E d \in Days : ReserveAndCreate(w, d)
             \/ Submit(w) \/ Ingest(w) \/ RecordFailure(w) \/ SubmitFailed(w)
             \/ Update(w) \/ MarkFailed(w) \/ GiveUpPolling(w) \/ PollError(w)
      PROVE  LockInv' /\ [Paid!Next]_Paid!paidVars
  BY <1>4, ReserveStep, SubmitStep, RecordStep, UpdateStep, MarkStep
<1>5. ASSUME NEW k \in Tasks, RemoteFinish(k) \/ Promote(k)
      PROVE  LockInv' /\ [Paid!Next]_Paid!paidVars
  BY <1>5, RemoteStep
<1>6. \A w \in Workers : ~LoseLock(w)
  BY DEF LoseLock
<1> QED
  BY <1>1, <1>2, <1>3, <1>4, <1>5, <1>6 DEF Next, Proceed

(* With a provider that completes no task in its submission, as the live   *)
(* one, and a lock that holds, the coordinator keeps the promise made of   *)
(* every paid task: reserved before it is submitted, submitted once,       *)
(* recorded once, closed as recorded. A task whose job row was lost has    *)
(* its cost already and is no task of this promise; it is never submitted. *)
THEOREM Refinement ==
  ASSUME ~LockDrops, "completed" \notin SubmitAnswers
  PROVE  Spec => ImplementsPaidTask
<1>1. Init => Paid!Init
  BY DEF Init, Paid!Init, NoJob, Terminal
<1>2. Init => LockInv
  BY InitLock
<1>3. IndInv /\ LockInv /\ [Next]_vars => LockInv' /\ [Paid!Next]_Paid!paidVars
  BY PaidStep
<1> QED
  BY <1>1, <1>2, <1>3, Invariance, PTL DEF Spec, ImplementsPaidTask, Paid!Spec

-----------------------------------------------------------------------------
(* The records whether or not the lock holds. An invocation knows of its   *)
(* task only what no other can take back: that it was submitted, what the  *)
(* provider made of it for good, and that its cost is recorded.            *)

KeptWorker(w) ==
  LET k == req[w].key IN
  /\ pc[w] \in {"submitFailed", "markFailed"} => submissions[k] = 1
  /\ pc[w] = "apply" => answer[w] \in Terminal
  /\ pc[w] \in {"apply", "update"} /\ answer[w] \in Terminal => remote[k] = answer[w]
  /\ pc[w] = "update" /\ answer[w] \in Terminal => costs[k] # "none"
  /\ pc[w] = "update" /\ answer[w] = "completed" => costs[k] = "completed"
  /\ pc[w] = "markFailed" => costs[k] # "none"

KeptTask(k) ==
  /\ submissions[k] = 0 => remote[k] = "none"
  /\ k \notin Orphans /\ costs[k] # "none" => submissions[k] = 1
  /\ costs[k] = "completed" => remote[k] = "completed"
  /\ jobs[k].status \in Terminal => costs[k] # "none"
  /\ jobs[k].status = "completed" => costs[k] = "completed"

KeptInv ==
  /\ \A w \in Workers : KeptWorker(w)
  /\ \A k \in Tasks : KeptTask(k)

(* What no step takes back.                                                *)
ForGood ==
  \A k \in Tasks : /\ submissions[k] = 1 => submissions'[k] = 1
                   /\ remote[k] \in Terminal => remote'[k] = remote[k]
                   /\ costs[k] # "none" => costs'[k] = costs[k]

LEMMA InitKept == Init => KeptInv
BY DEF Init, KeptInv, KeptWorker, KeptTask, NoJob, Terminal

(* The other invocations keep what they know.                              *)
LEMMA OthersKept ==
  ASSUME IndInv, KeptInv, ForGood, NEW v \in Workers,
         pc'[v] = pc[v] /\ req'[v] = req[v] /\ answer'[v] = answer[v]
  PROVE  KeptWorker(v)'
<1>1. pc[v] = "idle" \/ req[v].key \in Tasks
  BY DEF IndInv, WorkerInv
<1>2. CASE pc[v] = "idle"
  BY <1>2 DEF KeptWorker
<1>3. ASSUME NEW k \in Tasks, k = req[v].key PROVE KeptWorker(v)'
  BY <1>3 DEF KeptInv, KeptWorker, ForGood, Terminal
<1> QED
  BY <1>1, <1>2, <1>3

LEMMA KeptStep ==
  ASSUME IndInv, KeptInv, ForGood, NEW w \in Workers, OnlyWorker(w), KeptWorker(w)',
         \A k \in Tasks : KeptTask(k)'
  PROVE  KeptInv'
BY OthersKept DEF OnlyWorker, KeptInv

(* A step of w that records nothing and closes no job.                     *)
LEMMA QuietStep ==
  ASSUME IndInv, KeptInv, NEW w \in Workers, OnlyWorker(w), KeptWorker(w)',
         \A k \in Tasks : jobs'[k].status = jobs[k].status,
         UNCHANGED <<costs, remote, submissions>>
  PROVE  KeptInv' /\ UNCHANGED Recorded!paidVars
<1>1. ForGood
  BY DEF ForGood
<1>2. \A k \in Tasks : KeptTask(k)'
  BY DEF KeptInv, KeptTask
<1>3. OwnReserved' = OwnReserved
  BY DEF OwnReserved
<1> QED
  BY <1>1, <1>2, <1>3, KeptStep DEF Recorded!paidVars, OwnReserved

(* The steps of control, a booked poll and the end of an invocation.       *)
LEMMA ControlKept ==
  ASSUME IndInv, KeptInv, NEW w \in Workers,
         \/ Start(w) \/ Abort(w) \/ LoseLock(w) \/ Load(w) \/ Orphan(w) \/ Preflight(w)
         \/ RefusePoll(w) \/ ReservePoll(w) \/ GiveUpPolling(w) \/ PollError(w)
         \/ \E d \in Days : RefuseReservation(w, d)
  PROVE  KeptInv' /\ UNCHANGED Recorded!paidVars
<1>0. TypeOK /\ (pc[w] # "idle" => req[w].key \in Tasks)
  BY DEF IndInv, WorkerInv
<1>1. UNCHANGED <<costs, remote, submissions>>
  BY DEF Start, Abort, LoseLock, Load, Orphan, Preflight, RefusePoll, ReservePoll,
         GiveUpPolling, PollError, RefuseReservation, history
<1>2. \A k \in Tasks : jobs'[k].status = jobs[k].status
  <2>1. CASE ReservePoll(w) \/ GiveUpPolling(w) \/ PollError(w)
    <3>1. PICK k \in Tasks : k = req[w].key
      BY <1>0, <2>1 DEF ReservePoll, GiveUpPolling, PollError, At
    <3>2. CASE ReservePoll(w)
      <4>1. jobs' = [jobs EXCEPT ![k].polls = @ + 1]
        BY <3>1, <3>2 DEF ReservePoll
      <4> QED
        BY <1>0, <4>1 DEF TypeOK, Job
    <3>3. CASE GiveUpPolling(w) \/ PollError(w)
      <4>1. PICK e \in {"poll_limit_reached", "poll_failed"} :
              jobs' = [jobs EXCEPT ![k].error = e]
        BY <3>1, <3>3 DEF GiveUpPolling, PollError
      <4> QED
        BY <1>0, <4>1 DEF TypeOK, Job
    <3> QED
      BY <2>1, <3>2, <3>3
  <2>2. CASE ~(ReservePoll(w) \/ GiveUpPolling(w) \/ PollError(w))
    BY <2>2 DEF Start, Abort, LoseLock, Load, Orphan, Preflight, RefusePoll, RefuseReservation
  <2> QED
    BY <2>1, <2>2
<1>3. CASE Leave(w)
  <2>1. OnlyWorker(w) /\ pc'[w] = "idle"
    BY <1>0, <1>3, LeaveTypes
  <2>2. KeptWorker(w)'
    BY <2>1 DEF KeptWorker
  <2> QED
    BY <1>1, <1>2, <2>1, <2>2, QuietStep
<1>4. CASE LoseLock(w)
  <2>1. OnlyWorker(w) /\ KeptWorker(w)'
    BY <1>4 DEF LoseLock, OnlyWorker, history, KeptInv, KeptWorker
  <2> QED
    BY <1>1, <1>2, <2>1, QuietStep
<1>5. CASE ~Leave(w) /\ ~LoseLock(w)
  <2>1. OnlyWorker(w) /\ pc'[w] \in {"load", "orphan", "preflight", "reserve", "poll", "pollCall"}
    BY <1>0, <1>5 DEF Start, Abort, Load, Orphan, Preflight, RefusePoll, ReservePoll, Goto, Stay,
                      GiveUpPolling, PollError, RefuseReservation, OnlyWorker, TypeOK
  <2>2. KeptWorker(w)'
    BY <2>1 DEF KeptWorker
  <2> QED
    BY <1>1, <1>2, <2>1, <2>2, QuietStep
<1> QED
  BY <1>3, <1>4, <1>5

(* An answer, or an exception, before anything of it is recorded.          *)
LEMMA AnswerKept ==
  ASSUME IndInv, KeptInv, NEW w \in Workers, ApplyFails(w) \/ Poll(w)
  PROVE  KeptInv' /\ UNCHANGED Recorded!paidVars
<1>k. PICK k \in Tasks : /\ k = req[w].key /\ TypeOK /\ submissions[k] = 1
                         /\ UNCHANGED <<jobs, costs, remote, submissions>>
  BY DEF IndInv, WorkerInv, Asking, ApplyFails, Poll, At, history
<1>1. CASE ApplyFails(w)
  <2>1. /\ OnlyWorker(w) /\ req' = req
        /\ pc'[w] \in {"pollError", "submitFailed"}
    BY <1>k, <1>1 DEF ApplyFails, Handler, Goto, Stay, TypeOK, OnlyWorker
  <2>2. KeptWorker(w)'
    BY <1>k, <2>1 DEF KeptWorker
  <2> QED
    BY <1>k, <2>1, <2>2, QuietStep
<1>2. CASE Poll(w)
  <2>1. /\ OnlyWorker(w) /\ req' = req
        /\ \/ pc'[w] = "pollError"
           \/ /\ answer'[w] = IF remote[k] \in Terminal THEN remote[k] ELSE "running"
              /\ pc'[w] = IF remote[k] \in Terminal THEN "apply" ELSE "update"
    BY <1>k, <1>2 DEF Poll, Goto, Stay, TypeOK, OnlyWorker
  <2>2. KeptWorker(w)'
    BY <1>k, <2>1 DEF KeptWorker, Terminal
  <2> QED
    BY <1>k, <2>1, <2>2, QuietStep
<1> QED
  BY <1>1, <1>2

LEMMA ReserveKept ==
  ASSUME IndInv, KeptInv, NEW w \in Workers, NEW d \in Days, ReserveAndCreate(w, d)
  PROVE  KeptInv' /\ Recorded!Next
<1>k. PICK k \in Own : k = req[w].key /\ TypeOK
  BY DEF IndInv, WorkerInv, ReserveAndCreate, At
<1>1. /\ jobs[k].status = "none" /\ jobs'[k].status = "submitting"
      /\ \A t \in Tasks : t # k => jobs'[t] = jobs[t]
      /\ UNCHANGED <<costs, remote, submissions>>
      /\ pc'[w] = "submit" /\ OnlyWorker(w)
  BY <1>k DEF ReserveAndCreate, TaskKeyFree, TypeOK, NoJob, history, Stay, Goto, OnlyWorker
<1>2. ForGood /\ KeptWorker(w)' /\ \A t \in Tasks : KeptTask(t)'
  BY <1>1 DEF ForGood, KeptWorker, KeptInv, KeptTask, Terminal
<1>3. OwnReserved' = OwnReserved \cup {k} /\ k \notin OwnReserved
  BY <1>1 DEF OwnReserved
<1>4. Recorded!Reserve(k)
  BY <1>1, <1>3 DEF Recorded!Reserve, OwnReserved
<1> QED
  BY <1>1, <1>2, <1>4, KeptStep DEF Recorded!Next

LEMMA SubmitKept ==
  ASSUME IndInv, KeptInv, NEW w \in Workers, Submit(w)
  PROVE  KeptInv' /\ Recorded!Next
<1>k. PICK k \in Own :
        k = req[w].key /\ TypeOK /\ jobs[k].status # "none" /\ submissions[k] = 0
  BY DEF IndInv, WorkerInv, Committed, TaskInv, Submit, At
<1>1. /\ submissions' = [submissions EXCEPT ![k] = 1] /\ UNCHANGED <<jobs, costs, req>>
  BY <1>k DEF Submit, Stay
<1>2. costs[k] = "none"
  BY <1>k DEF KeptInv, KeptTask
<1>3. /\ OnlyWorker(w) /\ pc'[w] \in {"submitFailed", "apply", "update"}
      /\ pc'[w] = "apply" => answer'[w] \in Terminal
      /\ pc'[w] = "update" => answer'[w] \notin Terminal
      /\ pc'[w] = "apply" => remote'[k] = answer'[w]
      /\ \E r : remote' = [remote EXCEPT ![k] = r]
  <2>1. \/ Goto(w, "submitFailed") /\ Stay
        \/ \E a \in SubmitAnswers :
             /\ remote' = [remote EXCEPT ![k] = IF a \in Terminal THEN a ELSE "working"]
             /\ answer' = [answer EXCEPT ![w] = a]
             /\ Goto(w, IF a \in Terminal THEN "apply" ELSE "update")
             /\ UNCHANGED <<lock, req>>
    BY <1>k, ZenonT(60) DEF Submit
  <2>2. \E r : remote' = [remote EXCEPT ![k] = r]
    BY <1>k DEF Submit
  <2> QED
    BY <1>k, <2>1, <2>2 DEF Goto, Stay, TypeOK, OnlyWorker
<1>4. /\ submissions'[k] = 1
      /\ \A t \in Tasks : t # k => submissions'[t] = submissions[t] /\ remote'[t] = remote[t]
  BY <1>k, <1>1, <1>3 DEF TypeOK
<1>5. ForGood
  BY <1>k, <1>1, <1>4 DEF ForGood, KeptInv, KeptTask, Terminal
<1>6. KeptWorker(w)'
  BY <1>k, <1>1, <1>3, <1>4 DEF KeptWorker, Terminal
<1>7. \A t \in Tasks : KeptTask(t)'
  BY <1>1, <1>2, <1>4 DEF KeptInv, KeptTask
<1>8. k \in OwnReserved /\ OwnCalls[k] = 0 /\ OwnOutcome[k] = "none"
  BY <1>k, <1>2 DEF OwnReserved, OwnCalls, OwnOutcome
<1>9. OwnCalls' = [OwnCalls EXCEPT ![k] = 1]
  BY <1>k, <1>1 DEF OwnCalls, TypeOK
<1>10. Recorded!Call(k)
  BY <1>1, <1>8, <1>9 DEF Recorded!Call, OwnReserved, OwnCalls, OwnOutcome
<1> QED
  BY <1>3, <1>5, <1>6, <1>7, <1>10, KeptStep DEF Recorded!Next

(* A cost is recorded, or was recorded before.                             *)
LEMMA RecordKept ==
  ASSUME IndInv, KeptInv, NEW w \in Workers, Ingest(w) \/ RecordFailure(w) \/ SubmitFailed(w)
  PROVE  KeptInv' /\ [Recorded!Next]_Recorded!paidVars
<1>k. PICK k \in Own :
        /\ k = req[w].key /\ TypeOK /\ submissions[k] = 1
        /\ pc[w] = "apply" => remote[k] = answer[w]
  <2>1. pc[w] \in {"apply", "submitFailed"}
    BY DEF Ingest, RecordFailure, SubmitFailed, At
  <2> QED
    BY <2>1 DEF IndInv, WorkerInv, TaskInv, Committed, Asking, KeptInv, KeptWorker
<1>1. OnlyWorker(w) /\ UNCHANGED <<jobs, remote, submissions, req, answer>>
  BY <1>k DEF Ingest, RecordFailure, SubmitFailed, Stay, history, Goto, OnlyWorker, TypeOK
<1>2. PICK c \in Terminal :
        /\ costs' = [costs EXCEPT ![k] = c]
        /\ costs[k] \in {"none", c}
        /\ costs[k] = "none" /\ c = "completed" => remote[k] = "completed"
        /\ pc'[w] = "update" => /\ remote[k] = answer[w]
                                /\ answer[w] = "completed" => c = "completed"
        /\ pc'[w] \in {"update", "pollError", "submitFailed", "markFailed"}
  <2>1. CASE Ingest(w)
    <3>1. /\ costs' = [costs EXCEPT ![k] = "completed"] /\ costs[k] \in {"none", "completed"}
          /\ remote[k] = "completed" /\ answer[w] = "completed"
          /\ pc'[w] \in {"update", "pollError", "submitFailed"}
      BY <1>k, <2>1 DEF Ingest, TypeOK, Terminal, At, Goto, Handler
    <3> QED
      BY <3>1 DEF Terminal
  <2>2. CASE RecordFailure(w) \/ SubmitFailed(w)
    <3>1. PICK c \in Terminal : /\ costs' = [costs EXCEPT ![k] = c]
                                /\ costs[k] = c \/ (costs[k] = "none" /\ c = "failed")
      <4>1. costs' = [costs EXCEPT ![k] = IF costs[k] = "none" THEN "failed" ELSE costs[k]]
        BY <1>k, <2>2 DEF RecordFailure, SubmitFailed, FailedCost
      <4>2. PICK b \in {"none"} \cup Terminal : b = costs[k]
        BY <1>k DEF TypeOK
      <4>3. CASE b = "none"
        BY <4>1, <4>2, <4>3 DEF Terminal
      <4>4. CASE b \in Terminal
        <5>1. costs' = [costs EXCEPT ![k] = b]
          BY <4>1, <4>2, <4>4 DEF Terminal
        <5> QED
          BY <4>2, <4>4, <5>1
      <4> QED
        BY <4>2, <4>3, <4>4
    <3>2. /\ pc'[w] \in {"update", "pollError", "submitFailed", "markFailed"}
          /\ pc'[w] = "update" => answer[w] = "failed" /\ remote[k] = answer[w]
      BY <1>k, <2>2 DEF RecordFailure, SubmitFailed, TypeOK, At, Goto, Handler
    <3> QED
      BY <3>1, <3>2
  <2> QED
    BY <2>1, <2>2
<1>3. costs'[k] = c /\ \A t \in Tasks : t # k => costs'[t] = costs[t]
  BY <1>k, <1>2 DEF TypeOK
<1>4. ForGood
  BY <1>1, <1>2, <1>3 DEF ForGood
<1>5. KeptWorker(w)'
  BY <1>k, <1>1, <1>2, <1>3 DEF KeptWorker, Terminal
<1>6. \A t \in Tasks : KeptTask(t)'
  BY <1>k, <1>1, <1>2, <1>3 DEF KeptInv, KeptTask, Terminal
<1>7. KeptInv'
  BY <1>1, <1>4, <1>5, <1>6, KeptStep
<1>8. OwnReserved' = OwnReserved /\ OwnCalls' = OwnCalls
  BY <1>1 DEF OwnReserved, OwnCalls
<1>9. CASE costs[k] = "none"
  <2>1. OwnCalls[k] = 1 /\ OwnOutcome[k] = "none" /\ OwnOutcome' = [OwnOutcome EXCEPT ![k] = c]
    BY <1>k, <1>2, <1>9 DEF OwnCalls, OwnOutcome, TypeOK
  <2>2. Recorded!Record(k, c)
    BY <1>8, <2>1 DEF Recorded!Record, OwnReserved, OwnCalls, OwnOutcome
  <2> QED
    BY <1>7, <2>2 DEF Recorded!Next, Recorded!Outcomes, Terminal
<1>10. CASE costs[k] = c
  <2>1. costs' = costs
    BY <1>k, <1>2, <1>10 DEF TypeOK
  <2> QED
    BY <1>1, <1>7, <1>8, <2>1 DEF Recorded!paidVars, OwnReserved
<1> QED
  BY <1>2, <1>9, <1>10

(* The job takes an answer, or is marked failed.                           *)
LEMMA CloseKept ==
  ASSUME IndInv, KeptInv, NEW w \in Workers, Update(w) \/ MarkFailed(w)
  PROVE  KeptInv' /\ UNCHANGED Recorded!paidVars
<1>k. PICK k \in Tasks : /\ k = req[w].key /\ TypeOK /\ submissions[k] = 1
                         /\ jobs[k].status # "none" /\ KeptWorker(w)
                         /\ UNCHANGED <<costs, remote, submissions>>
  BY DEF IndInv, WorkerInv, Asking, Committed, Update, MarkFailed, At, KeptInv, KeptWorker, history
<1>1. PICK s \in Pending \cup Terminal :
        /\ jobs'[k].status = s
        /\ s \in Terminal => costs[k] # "none"
        /\ s = "completed" => costs[k] = "completed"
  <2>1. CASE Update(w)
    <3>1. answer[w] \in Pending \cup Terminal /\ pc[w] = "update"
      BY <1>k, <2>1 DEF IndInv, WorkerInv, TypeOK, Update, At
    <3>2. jobs'[k].status = answer[w]
      <4>1. jobs' = [jobs EXCEPT ![k] = Updated(jobs[k], answer[w])] /\ jobs[k] \in Job
        BY <1>k, <2>1 DEF Update, TypeOK
      <4> QED
        BY <1>k, <4>1 DEF Updated, Job, TypeOK
    <3> QED
      BY <1>k, <3>1, <3>2 DEF KeptWorker
  <2>2. CASE MarkFailed(w)
    <3>1. jobs'[k].status = "failed" /\ pc[w] = "markFailed"
      BY <1>k, <2>2 DEF MarkFailed, TypeOK, Job, At
    <3> QED
      BY <1>k, <3>1 DEF KeptWorker, Terminal
  <2> QED
    BY <2>1, <2>2
<1>2. \A t \in Tasks : t # k => jobs'[t] = jobs[t]
  BY <1>k DEF Update, MarkFailed, TypeOK
<1>3. /\ OnlyWorker(w)
      /\ \/ pc'[w] \in {"idle", "poll", "pollError"}
         \/ pc'[w] = "submitFailed" /\ req' = req
  <2>1. CASE Leave(w)
    BY <1>k, <2>1, LeaveTypes
  <2>2. CASE ~Leave(w)
    BY <1>k, <2>2 DEF Update, MarkFailed, Goto, Stay, Handler, OnlyWorker, TypeOK
  <2> QED
    BY <2>1, <2>2
<1>4. KeptWorker(w)'
  BY <1>k, <1>3 DEF KeptWorker
<1>5. ForGood
  BY <1>k DEF ForGood
<1>6. \A t \in Tasks : KeptTask(t)'
  BY <1>k, <1>1, <1>2 DEF KeptInv, KeptTask
<1>7. OwnReserved' = OwnReserved
  BY <1>k, <1>1, <1>2 DEF OwnReserved, Pending, Terminal
<1> QED
  BY <1>k, <1>3, <1>4, <1>5, <1>6, <1>7, KeptStep DEF Recorded!paidVars, OwnReserved

LEMMA RemoteKept ==
  ASSUME IndInv, KeptInv, NEW k \in Tasks, RemoteFinish(k) \/ Promote(k)
  PROVE  KeptInv' /\ UNCHANGED Recorded!paidVars
<1>1. /\ UNCHANGED <<lock, pc, req, answer, jobs, costs, submissions>>
      /\ \A t \in Tasks : remote'[t] = remote[t] \/ remote[t] = "working"
  BY DEF RemoteFinish, Promote, history, IndInv, TypeOK
<1>2. ForGood
  BY <1>1 DEF ForGood, Terminal
<1>3. \A w \in Workers : KeptWorker(w)'
  BY <1>1, <1>2, OthersKept
<1>4. \A t \in Tasks : KeptTask(t)'
  BY <1>1 DEF KeptInv, KeptTask
<1> QED
  BY <1>1, <1>3, <1>4 DEF KeptInv, Recorded!paidVars

LEMMA NextKept ==
  IndInv /\ KeptInv /\ [Next]_vars => KeptInv' /\ [Recorded!Next]_Recorded!paidVars
<1> SUFFICES ASSUME IndInv, KeptInv, [Next]_vars
             PROVE  KeptInv' /\ [Recorded!Next]_Recorded!paidVars
  OBVIOUS
<1>1. CASE UNCHANGED vars
  BY <1>1 DEF vars, history, KeptInv, KeptWorker, KeptTask, Recorded!paidVars
<1>2. ASSUME NEW w \in Workers, Start(w) \/ Proceed(w) \/ Abort(w) \/ LoseLock(w)
      PROVE  KeptInv' /\ [Recorded!Next]_Recorded!paidVars
  BY <1>2, ControlKept, AnswerKept, ReserveKept, SubmitKept, RecordKept, CloseKept DEF Proceed
<1>3. ASSUME NEW k \in Tasks, RemoteFinish(k) \/ Promote(k)
      PROVE  KeptInv' /\ [Recorded!Next]_Recorded!paidVars
  BY <1>3, RemoteKept
<1> QED
  BY <1>1, <1>2, <1>3 DEF Next

(* With the lock lost at any moment, with submissions that answer          *)
(* completed and with costs left by lost jobs: a task is submitted after   *)
(* its job was reserved and once, and its cost is recorded after that,     *)
(* once, and never replaced by another invocation's.                       *)
THEOREM CostsAreRecordedOnce == Spec => RecordsOnce
<1>1. Init => Recorded!Init
  BY TaskAssumption DEF Init, Recorded!Init, NoJob
<1> QED
  BY <1>1, InitKept, NextKept, Invariance, PTL DEF Spec, RecordsOnce, Recorded!Spec

(* No job is closed without a cost, and none is completed but with the     *)
(* transcript of what the provider completed, whatever happens to the lock.*)
THEOREM ClosedJobsAreRecorded == Spec => []ClosedWithRecord
<1>1. KeptInv => ClosedWithRecord
  BY DEF KeptInv, KeptTask, ClosedWithRecord
<1> QED
  BY <1>1, InitKept, NextKept, Invariance, PTL DEF Spec
=============================================================================
