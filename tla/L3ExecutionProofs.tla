------------------------- MODULE L3ExecutionProofs -------------------------
(***************************************************************************)
(* Proofs about L3Execution, for every number of workers, tasks and days.  *)
(*                                                                         *)
(* The safety properties follow from IndInv. Its preservation is shown one *)
(* action at a time; the actions that write nothing but the invocation's   *)
(* own control state are instances of MoveInv and LeaveInv.                *)
(***************************************************************************)
EXTENDS L3Execution, SetLemmas

USE PriceAssumption, NoneAssumption

LEMMA InitInv == Init => IndInv
<1> SUFFICES ASSUME Init PROVE IndInv
  OBVIOUS
<1> USE DEF Init
<1>1. TypeOK
  BY DEF TypeOK, Request, NoRequest, Job, NoJob, Cost, NoCost, Price, Steps
<1>2. \A w \in Workers : WorkerInv(w)
  BY DEF WorkerInv, Owning, Recovering
<1>3. \A k \in Tasks : TaskInv(k)
  BY DEF TaskInv, NoJob, NoCost
<1>4. OneOwner
  BY DEF OneOwner, Owns, Owning
<1>5. ClosedAsRecorded
  BY DEF ClosedAsRecorded, NoJob, Terminal
<1> QED
  BY <1>1, <1>2, <1>3, <1>4, <1>5 DEF IndInv

(* A step that only moves invocation w to a step whose demands are met.    *)
LEMMA MoveInv ==
  ASSUME IndInv, NEW w \in Workers, NEW s \in Steps,
         Goto(w, s),
         s \in Owning => pc[w] \in Owning,
         WorkerInv(w)',
         UNCHANGED <<lock, req, answer, jobs, costs, level, budget, calls>>
  PROVE  IndInv'
<1> USE DEF IndInv, Goto, budget
<1>1. TypeOK'
  BY DEF TypeOK
<1>2. ASSUME NEW v \in Workers, v # w PROVE WorkerInv(v)'
  BY <1>2 DEF WorkerInv, TypeOK, Overruns
<1>3. \A k \in Tasks : TaskInv(k)'
  BY DEF TaskInv, Overruns
<1>4. OneOwner'
  BY DEF OneOwner, Owns, TypeOK
<1>5. ClosedAsRecorded'
  BY DEF ClosedAsRecorded
<1> QED
  BY <1>1, <1>2, <1>3, <1>4, <1>5

(* A step in which invocation w ends, whatever it had committed.           *)
LEMMA LeaveInv ==
  ASSUME IndInv, NEW w \in Workers, Leave(w),
         UNCHANGED <<jobs, costs, level, budget, calls>>
  PROVE  IndInv'
<1> USE DEF IndInv, Leave, budget
<1>1. TypeOK'
  BY DEF TypeOK, Request, NoRequest, Steps, Price
<1>2. ASSUME NEW v \in Workers PROVE WorkerInv(v)'
  BY <1>2 DEF WorkerInv, TypeOK, Overruns, Owning, Recovering
<1>3. \A k \in Tasks : TaskInv(k)'
  BY DEF TaskInv, Overruns
<1>4. OneOwner'
  BY DEF OneOwner, Owns, TypeOK, Owning
<1>5. ClosedAsRecorded'
  BY DEF ClosedAsRecorded
<1> QED
  BY <1>1, <1>2, <1>3, <1>4, <1>5

LEMMA StartInv ==
  ASSUME IndInv, NEW w \in Workers, Start(w)
  PROVE  IndInv'
<1> USE DEF IndInv, Start, At, Goto, budget
<1>1. PICK k \in Tasks, e \in Estimates, d \in Days \cup {NoDay} :
        req' = [req EXCEPT ![w] = [key |-> k, est |-> e, day |-> d]]
  OBVIOUS
<1>2. TypeOK'
  BY <1>1 DEF TypeOK, Request, Price, Steps
<1>3. \A v \in Workers : WorkerInv(v)'
  BY <1>1 DEF TypeOK, WorkerInv, Owning, Recovering, Overruns
<1>4. \A t \in Tasks : TaskInv(t)'
  BY DEF TaskInv, Overruns
<1>5. OneOwner'
  BY <1>1 DEF OneOwner, Owns, Owning, TypeOK
<1>6. ClosedAsRecorded'
  BY DEF ClosedAsRecorded
<1> QED
  BY <1>2, <1>3, <1>4, <1>5, <1>6

LEMMA EnvironmentInv ==
  ASSUME IndInv,
         \/ \E w \in Workers : LoseLock(w)
         \/ \E k \in Tasks : Promote(k)
  PROVE  IndInv'
<1> USE DEF IndInv, LoseLock, Promote, budget
<1>1. TypeOK'
  BY DEF TypeOK
<1>2. \A v \in Workers : WorkerInv(v)'
  BY DEF WorkerInv, Overruns
<1>3. \A t \in Tasks : TaskInv(t)'
  BY DEF TaskInv, Overruns, TypeOK
<1>4. OneOwner'
  BY DEF OneOwner, Owns
<1>5. ClosedAsRecorded'
  BY DEF ClosedAsRecorded, TypeOK
<1> QED
  BY <1>1, <1>2, <1>3, <1>4, <1>5

LEMMA LoadInv ==
  ASSUME IndInv, NEW w \in Workers, Load(w)
  PROVE  IndInv'
<1>1. CASE Leave(w)
  BY <1>1, LeaveInv DEF Load
<1>2. CASE jobs[req[w].key].status = "none" /\ Goto(w, "preflight")
           /\ UNCHANGED <<req, answer, lock>>
  <2>1. WorkerInv(w)'
    BY <1>2 DEF Load, IndInv, WorkerInv, TypeOK, Goto, At, Owning, Recovering
  <2> QED
    BY <1>2, <2>1, MoveInv DEF Load, Steps, Owning
<1>3. CASE /\ jobs[req[w].key].status = "running"
           /\ JobMatches(jobs[req[w].key], req[w])
           /\ Goto(w, "recon")
           /\ UNCHANGED <<req, answer, lock>>
  <2>1. WorkerInv(w)'
    BY <1>3 DEF Load, IndInv, WorkerInv, TypeOK, Goto, At, Owning, Recovering,
                JobMatches
  <2> QED
    BY <1>3, <2>1, MoveInv DEF Load, Steps, Owning
<1> QED
  BY <1>1, <1>2, <1>3 DEF Load

LEMMA ReconInv ==
  ASSUME IndInv, NEW w \in Workers, Recon(w)
  PROVE  IndInv'
<1>1. CASE Leave(w)
  BY <1>1, LeaveInv DEF Recon
<1>2. CASE costs[req[w].key].status = "completed" /\ Goto(w, "reconBudget")
           /\ UNCHANGED <<req, answer, lock>>
  <2>1. WorkerInv(w)'
    BY <1>2 DEF Recon, IndInv, WorkerInv, TypeOK, Goto, At, Owning, Recovering, budget
  <2> QED
    BY <1>2, <2>1, MoveInv DEF Recon, Steps, Owning
<1>3. CASE costs[req[w].key].status = "failed" /\ Goto(w, "reconJob")
           /\ UNCHANGED <<req, answer, lock>>
  <2>1. WorkerInv(w)'
    BY <1>3 DEF Recon, IndInv, WorkerInv, TypeOK, Goto, At, Owning, Recovering, budget
  <2> QED
    BY <1>3, <2>1, MoveInv DEF Recon, Steps, Owning
<1> QED
  BY <1>1, <1>2, <1>3 DEF Recon

LEMMA PreflightInv ==
  ASSUME IndInv, NEW w \in Workers, Preflight(w)
  PROVE  IndInv'
<1>1. CASE Leave(w)
  BY <1>1, LeaveInv DEF Preflight
<1>2. CASE Goto(w, "reserve") /\ UNCHANGED <<req, answer, lock>>
  <2>1. WorkerInv(w)'
    BY <1>2 DEF Preflight, IndInv, WorkerInv, TypeOK, Goto, At, Owning, Recovering
  <2> QED
    BY <1>2, <2>1, MoveInv DEF Preflight, Steps, Owning
<1> QED
  BY <1>1, <1>2 DEF Preflight

LEMMA HandlerInv ==
  ASSUME IndInv, NEW w \in Workers, StoreFails(w) \/ Check(w)
  PROVE  IndInv'
<1>1. CASE StoreFails(w)
  <2>1. WorkerInv(w)'
    BY <1>1 DEF StoreFails, IndInv, WorkerInv, TypeOK, Goto, Owning, Recovering
  <2> QED
    BY <1>1, <2>1, MoveInv DEF StoreFails, Steps, Owning
<1>2. CASE Check(w)
  <2> DEFINE s == IF costs[req[w].key].status = "none" THEN "failCost" ELSE "load"
  <2>1. WorkerInv(w)'
    BY <1>2 DEF Check, IndInv, WorkerInv, TypeOK, Goto, At, Owning, Recovering
  <2>2. s \in Steps /\ Goto(w, s) /\ pc[w] \in Owning
    BY <1>2 DEF Check, At, Steps, Owning
  <2> HIDE DEF s
  <2> QED
    BY <1>2, <2>1, <2>2, MoveInv DEF Check
<1> QED
  BY <1>1, <1>2

-----------------------------------------------------------------------------
(* What the two record updates of a job change.                            *)

LEMMA ReconciledJob ==
  ASSUME jobs \in [Tasks -> Job], NEW k \in Tasks,
         jobs' = [jobs EXCEPT ![k].reconciled = TRUE]
  PROVE  /\ jobs' \in [Tasks -> Job]
         /\ \A t \in Tasks : t # k => jobs'[t] = jobs[t]
         /\ jobs'[k].reconciled
         /\ jobs'[k].status = jobs[k].status
         /\ jobs'[k].est = jobs[k].est
         /\ jobs'[k].day = jobs[k].day
         /\ jobs'[k].linked = jobs[k].linked
  BY DEF Job

LEMMA ClosedJob ==
  ASSUME jobs \in [Tasks -> Job], NEW k \in Tasks, NEW s \in Terminal,
         CloseJob(k, s)
  PROVE  /\ jobs' \in [Tasks -> Job]
         /\ \A t \in Tasks : t # k => jobs'[t] = jobs[t]
         /\ jobs'[k].reconciled = jobs[k].reconciled
         /\ jobs'[k].status = s
         /\ jobs'[k].est = jobs[k].est
         /\ jobs'[k].day = jobs[k].day
         /\ jobs'[k].linked
  BY DEF Job, Terminal, CloseJob
-----------------------------------------------------------------------------
(* The actions that write the task's records.                              *)

LEMMA ReserveInv ==
  ASSUME IndInv, NEW w \in Workers, NEW d \in Days, ReserveAndCreate(w, d)
  PROVE  IndInv'
<1> DEFINE k == req[w].key
<1> USE DEF IndInv
<1>1. /\ k \in Tasks
      /\ pc[w] = "reserve"
      /\ jobs[k].status = "none"
      /\ req[w] \in Request
      /\ req[w].est \in Price
      /\ MaxCost[d] # Unlimited => req[w].est # Unknown
  BY DEF ReserveAndCreate, WorkerInv, TypeOK, At, TaskKeyFree, WithinBudget, Request
<1>2. /\ pc' = [pc EXCEPT ![w] = "call"]
      /\ req' = [req EXCEPT ![w] = [key |-> k, est |-> req[w].est, day |-> d]]
      /\ jobs' = [jobs EXCEPT ![k] =
           [status |-> "running", est |-> req[w].est, day |-> d,
            reconciled |-> FALSE, linked |-> FALSE]]
      /\ UNCHANGED <<lock, answer, costs, level, calls>>
  BY DEF ReserveAndCreate, Goto
<1>3. TypeOK'
  <2>1. /\ used' \in [Days -> Nat]
        /\ spent' \in [Days -> Nat]
        /\ unknown' \in [Days -> Nat]
    BY <1>1 DEF ReserveAndCreate, ReserveBudget, AmountOf, TypeOK, Price
  <2>2. /\ req' \in [Workers -> Request]
        /\ pc' \in [Workers -> Steps]
    BY <1>1, <1>2 DEF TypeOK, Request, Steps
  <2>3. jobs' \in [Tasks -> Job]
    BY <1>1, <1>2 DEF TypeOK, Job
  <2> QED
    BY <1>2, <2>1, <2>2, <2>3 DEF TypeOK
<1>4. \A v \in Workers : WorkerInv(v)'
  <2> SUFFICES ASSUME NEW v \in Workers PROVE WorkerInv(v)'
    OBVIOUS
  <2>1. CASE v = w
    BY <1>1, <1>2, <2>1 DEF WorkerInv, TypeOK, TaskInv, Owning, Recovering
  <2>2. CASE v # w
    <3>1. pc'[v] = pc[v] /\ req'[v] = req[v] /\ answer'[v] = answer[v]
      BY <1>2, <2>2 DEF TypeOK
    <3> QED
      BY <1>1, <1>2, <3>1
      DEF WorkerInv, TypeOK, TaskInv, Owning, Recovering, Overruns
  <2> QED
    BY <2>1, <2>2
<1>5. \A t \in Tasks : TaskInv(t)'
  BY <1>1, <1>2 DEF TypeOK, TaskInv, Overruns
<1>6. OneOwner'
  <2>1. \A x \in Workers : ~Owns(x, k)
    BY <1>1 DEF Owns, WorkerInv
  <2> QED
    BY <1>1, <1>2, <2>1 DEF OneOwner, Owns, TypeOK
<1>7. ClosedAsRecorded'
  BY <1>1, <1>2 DEF ClosedAsRecorded, TypeOK, Terminal
<1> QED
  BY <1>3, <1>4, <1>5, <1>6, <1>7

LEMMA CallInv ==
  ASSUME IndInv, NEW w \in Workers, Call(w)
  PROVE  IndInv'
<1> DEFINE k == req[w].key
<1> USE DEF IndInv
<1>1. /\ k \in Tasks
      /\ pc[w] = "call"
      /\ calls[k] = 0
      /\ costs[k].status = "none"
      /\ jobs[k].status # "none"
      /\ jobs[k].est = req[w].est
  BY DEF Call, WorkerInv, At, Owning
<1>2. /\ pc' = [pc EXCEPT ![w] = pc'[w]]
      /\ pc'[w] \in {"failCost", "check", "overrun", "ingest"}
      /\ pc'[w] = "overrun" => Overruns(req[w].est, answer'[w])
      /\ pc'[w] = "ingest" => ~Overruns(req[w].est, answer'[w])
      /\ answer' \in [Workers -> Price]
      /\ \A v \in Workers : v # w => answer'[v] = answer[v]
  <2>1. CASE Goto(w, "failCost") /\ UNCHANGED answer
    BY <2>1 DEF Goto, TypeOK
  <2>2. CASE Goto(w, "check") /\ UNCHANGED answer
    BY <2>2 DEF Goto, TypeOK
  <2>3. CASE \E c \in Price :
               /\ answer' = [answer EXCEPT ![w] = c]
               /\ Goto(w, IF Overruns(req[w].est, c) THEN "overrun" ELSE "ingest")
    BY <2>3 DEF Goto, TypeOK
  <2> QED
    BY <2>1, <2>2, <2>3 DEF Call
<1>3. /\ calls' = [calls EXCEPT ![k] = 1]
      /\ UNCHANGED <<lock, req, jobs, costs, level, budget>>
  BY <1>1 DEF Call
<1>4. TypeOK'
  BY <1>1, <1>2, <1>3 DEF TypeOK, Steps, budget
<1>5. \A v \in Workers : WorkerInv(v)'
  <2> SUFFICES ASSUME NEW v \in Workers PROVE WorkerInv(v)'
    OBVIOUS
  <2>1. CASE v = w
    BY <1>1, <1>2, <1>3, <2>1 DEF WorkerInv, TypeOK, Owning, Recovering
  <2>2. CASE v # w
    <3>1. pc'[v] = pc[v] /\ answer'[v] = answer[v]
      BY <1>2, <2>2 DEF TypeOK
    <3>2. ~(pc[v] \in Owning /\ req[v].key = k)
      BY <1>1, <2>2 DEF OneOwner, Owns, Owning
    <3> QED
      BY <1>1, <1>3, <3>1, <3>2
      DEF WorkerInv, TypeOK, Overruns, Owning, Recovering
  <2> QED
    BY <2>1, <2>2
<1>6. \A t \in Tasks : TaskInv(t)'
  BY <1>1, <1>3 DEF TypeOK, TaskInv, Overruns
<1>7. OneOwner'
  BY <1>1, <1>2, <1>3 DEF OneOwner, Owns, Owning, TypeOK
<1>8. ClosedAsRecorded'
  BY <1>3 DEF ClosedAsRecorded
<1> QED
  BY <1>4, <1>5, <1>6, <1>7, <1>8

(* Settling keeps the budget's types: a job that is settled was charged to *)
(* a day.                                                                  *)
LEMMA SettleBudgetTypes ==
  ASSUME TypeOK, NEW k \in Tasks, NEW est \in Price, NEW actual \in Price,
         jobs[k].day \in Days, SettleBudget(k, est, actual)
  PROVE  /\ used' \in [Days -> Nat]
         /\ spent' \in [Days -> Nat]
         /\ unknown' \in [Days -> Nat]
<1> DEFINE d == jobs[k].day
<1>1. spent[d] \in Nat /\ unknown[d] \in Nat
  BY DEF TypeOK
<1>2. CASE UNCHANGED budget
  BY <1>2 DEF budget, TypeOK
<1>3. CASE /\ actual # Unknown /\ est = Unknown
           /\ spent' = [spent EXCEPT ![d] = @ + actual]
           /\ unknown' = [unknown EXCEPT ![d] = Positive(@ - 1)]
           /\ UNCHANGED used
  BY <1>1, <1>3 DEF TypeOK, Price, Positive
<1>4. CASE /\ actual # Unknown /\ est # Unknown
           /\ spent' = [spent EXCEPT ![d] = Positive(@ + actual - est)]
           /\ UNCHANGED <<used, unknown>>
  BY <1>1, <1>4 DEF TypeOK, Price, Positive
<1> QED
  BY <1>2, <1>3, <1>4 DEF SettleBudget, AlreadySettled, PriceKnown, AmountOf

(* Settling the budget of a task with a completed cost, by the invocation  *)
(* that recorded it or by one that found it.                               *)
LEMMA SettleInv ==
  ASSUME IndInv, NEW w \in Workers, ReconBudget(w) \/ Settle(w)
  PROVE  IndInv'
<1> DEFINE k == req[w].key
<1> USE DEF IndInv
<1>1. /\ k \in Tasks
      /\ pc[w] \in {"reconBudget", "settle"}
      /\ jobs[k].status # "none"
      /\ jobs[k].day \in Days
      /\ costs[k].status = "completed"
      /\ req[w].est \in Price /\ costs[k].llm \in Price
  BY DEF ReconBudget, Settle, WorkerInv, TaskInv, At, Owning, Recovering,
         TypeOK, Request, Cost
<1>2. /\ SettleBudget(k, req[w].est, costs[k].llm)
      /\ UNCHANGED <<lock, req, answer, costs, level, calls>>
  BY DEF ReconBudget, Settle, At, WorkerInv
<1>3. /\ pc' = [pc EXCEPT ![w] = pc'[w]]
      /\ \/ pc'[w] = "reconJob" /\ pc[w] = "reconBudget"
         \/ pc'[w] \in {"complete", "check"} /\ pc[w] = "settle"
  BY DEF ReconBudget, Settle, At, Goto, TypeOK
<1>4. /\ jobs' \in [Tasks -> Job]
      /\ \A t \in Tasks : t # k => jobs'[t] = jobs[t]
      /\ jobs'[k].reconciled
      /\ jobs'[k].status = jobs[k].status
      /\ jobs'[k].est = jobs[k].est
      /\ jobs'[k].day = jobs[k].day
      /\ jobs'[k].linked = jobs[k].linked
  BY <1>1, <1>2, ReconciledJob DEF SettleBudget, TypeOK
<1>5. TypeOK'
  <2>1. /\ used' \in [Days -> Nat]
        /\ spent' \in [Days -> Nat]
        /\ unknown' \in [Days -> Nat]
    BY <1>1, <1>2, SettleBudgetTypes
  <2> QED
    BY <1>2, <1>3, <1>4, <2>1 DEF TypeOK, Steps
<1>6. \A v \in Workers : WorkerInv(v)'
  <2> SUFFICES ASSUME NEW v \in Workers PROVE WorkerInv(v)'
    OBVIOUS
  <2>1. CASE v = w
    BY <1>1, <1>2, <1>3, <1>4, <2>1 DEF WorkerInv, TypeOK, Owning, Recovering
  <2>2. CASE v # w
    <3>1. pc'[v] = pc[v]
      BY <1>3, <2>2 DEF TypeOK
    <3> QED
      BY <1>1, <1>2, <1>4, <3>1
      DEF WorkerInv, TypeOK, Overruns, Owning, Recovering
  <2> QED
    BY <2>1, <2>2
<1>7. \A t \in Tasks : TaskInv(t)'
  BY <1>1, <1>2, <1>4 DEF TypeOK, TaskInv, Overruns
<1>8. OneOwner'
  BY <1>1, <1>2, <1>3 DEF OneOwner, Owns, Owning, TypeOK
<1>9. ClosedAsRecorded'
  BY <1>1, <1>2, <1>4 DEF ClosedAsRecorded, Terminal
<1> QED
  BY <1>5, <1>6, <1>7, <1>8, <1>9
(* Closing a job as its cost says, in any of the three places that do.     *)
LEMMA CloseInv ==
  ASSUME IndInv, NEW w \in Workers,
         ReconJob(w) \/ Complete(w) \/ FailJob(w)
  PROVE  IndInv'
<1> DEFINE k == req[w].key
<1> USE DEF IndInv
<1>1. /\ k \in Tasks
      /\ pc[w] \in {"reconJob", "complete", "failJob"}
      /\ jobs[k].status # "none"
      /\ costs[k].status \in Terminal
      /\ costs[k].status = "completed" => jobs[k].reconciled
  BY DEF ReconJob, Complete, FailJob, WorkerInv, At, Owning, Recovering,
         TypeOK, Cost, Terminal
<1>2. /\ CloseJob(k, costs[k].status)
      /\ UNCHANGED <<costs, level, budget, calls>>
  BY DEF ReconJob, Complete, FailJob, At, WorkerInv
<1>3. /\ jobs' \in [Tasks -> Job]
      /\ \A t \in Tasks : t # k => jobs'[t] = jobs[t]
      /\ jobs'[k].reconciled = jobs[k].reconciled
      /\ jobs'[k].status = costs[k].status
      /\ jobs'[k].est = jobs[k].est
      /\ jobs'[k].day = jobs[k].day
      /\ jobs'[k].linked
  BY <1>1, <1>2, ClosedJob DEF TypeOK
<1>4. /\ lock' \in Workers \cup {NoWorker}
      /\ pc' = [pc EXCEPT ![w] = pc'[w]]
      /\ pc'[w] \in {"idle", "check"}
      /\ pc'[w] = "check" => pc[w] = "complete" /\ req' = req
      /\ req' \in [Workers -> Request]
      /\ answer' \in [Workers -> Price]
      /\ \A v \in Workers : v # w => req'[v] = req[v] /\ answer'[v] = answer[v]
  <2>1. CASE Leave(w)
    BY <2>1 DEF Leave, TypeOK, NoRequest, Request, Price
  <2>2. CASE Goto(w, "check") /\ pc[w] = "complete" /\ UNCHANGED <<lock, req, answer>>
    BY <2>2 DEF Goto, TypeOK
  <2> QED
    BY <2>1, <2>2 DEF ReconJob, Complete, FailJob, At
<1>5. TypeOK'
  BY <1>2, <1>3, <1>4 DEF TypeOK, Steps, budget
<1>6. \A v \in Workers : WorkerInv(v)'
  <2> SUFFICES ASSUME NEW v \in Workers PROVE WorkerInv(v)'
    OBVIOUS
  <2>1. CASE v = w
    BY <1>1, <1>2, <1>3, <1>4, <2>1 DEF WorkerInv, TypeOK, Owning, Recovering
  <2>2. CASE v # w
    <3>1. pc'[v] = pc[v] /\ req'[v] = req[v] /\ answer'[v] = answer[v]
      BY <1>4, <2>2 DEF TypeOK
    <3> QED
      BY <1>1, <1>2, <1>3, <3>1
      DEF WorkerInv, TypeOK, Overruns, Owning, Recovering
  <2> QED
    BY <2>1, <2>2
<1>7. \A t \in Tasks : TaskInv(t)'
  <2> SUFFICES ASSUME NEW t \in Tasks PROVE TaskInv(t)'
    OBVIOUS
  <2>1. CASE t = k
    BY <1>1, <1>2, <1>3, <2>1 DEF TaskInv, Overruns, Terminal
  <2>2. CASE t # k
    BY <1>2, <1>3, <2>2 DEF TaskInv, Overruns
  <2> QED
    BY <2>1, <2>2
<1>8. OneOwner'
  BY <1>1, <1>4 DEF OneOwner, Owns, Owning, TypeOK
<1>9. ClosedAsRecorded'
  BY <1>1, <1>2, <1>3 DEF ClosedAsRecorded, Terminal, TaskInv
<1> QED
  BY <1>5, <1>6, <1>7, <1>8, <1>9

(* Recording the cost of a task that has none yet: the invocation that     *)
(* does it owns the task, so nobody else relies on the cost being absent.  *)
LEMMA RecordInv ==
  ASSUME IndInv, NEW w \in Workers, Ingest(w) \/ FailCost(w)
  PROVE  IndInv'
<1> DEFINE k == req[w].key
<1> USE DEF IndInv
<1>1. /\ k \in Tasks
      /\ pc[w] \in {"ingest", "failCost"}
      /\ jobs[k].status = "running"
      /\ jobs[k].est = req[w].est
      /\ costs[k].status = "none"
      /\ calls[k] = 1
      /\ answer[w] \in Price
  BY DEF Ingest, FailCost, WorkerInv, At, Owning, TypeOK, ClosedAsRecorded,
         Terminal, Job
<1>2. /\ pc' = [pc EXCEPT ![w] = pc'[w]]
      /\ \/ /\ pc[w] = "ingest" /\ pc'[w] \in {"settle", "check"}
            /\ costs' = [costs EXCEPT ![k] =
                 [status |-> "completed", llm |-> answer[w]]]
            /\ level' = [level EXCEPT ![k] = 3]
         \/ /\ pc[w] = "failCost" /\ pc'[w] = "failJob"
            /\ costs' = [costs EXCEPT ![k] =
                 [status |-> "failed", llm |-> Unknown]]
            /\ level' = level
      /\ UNCHANGED <<lock, req, answer, jobs, budget, calls>>
  BY <1>1 DEF Ingest, FailCost, Goto, At, TypeOK
<1>3. /\ costs' \in [Tasks -> Cost]
      /\ level' \in [Tasks -> 1..3]
      /\ \A t \in Tasks : t # k => costs'[t] = costs[t] /\ level'[t] = level[t]
      /\ pc[w] = "ingest" =>
           /\ costs'[k].status = "completed" /\ costs'[k].llm = answer[w]
           /\ level'[k] = 3
      /\ pc[w] = "failCost" => costs'[k].status = "failed"
  <2>0. /\ [status |-> "completed", llm |-> answer[w]] \in Cost
        /\ [status |-> "failed", llm |-> Unknown] \in Cost
    BY <1>1 DEF Cost, Price
  <2>1. CASE pc[w] = "ingest"
    <3>1. /\ costs' = [costs EXCEPT ![k] =
                         [status |-> "completed", llm |-> answer[w]]]
          /\ level' = [level EXCEPT ![k] = 3]
      BY <1>2, <2>1
    <3>2. costs \in [Tasks -> Cost] /\ level \in [Tasks -> 1..3] /\ 3 \in 1..3
      BY DEF TypeOK
    <3> QED
      BY <1>1, <2>0, <2>1, <3>1, <3>2
  <2>2. CASE pc[w] = "failCost"
    <3>1. /\ costs' = [costs EXCEPT ![k] =
                         [status |-> "failed", llm |-> Unknown]]
          /\ level' = level
      BY <1>2, <2>2
    <3>2. costs \in [Tasks -> Cost] /\ level \in [Tasks -> 1..3]
      BY DEF TypeOK
    <3> QED
      BY <1>1, <2>0, <2>2, <3>1, <3>2
  <2> QED
    BY <1>1, <2>1, <2>2
<1>4. TypeOK'
  BY <1>2, <1>3 DEF TypeOK, Steps, budget
<1>5. \A v \in Workers : WorkerInv(v)'
  <2> SUFFICES ASSUME NEW v \in Workers PROVE WorkerInv(v)'
    OBVIOUS
  <2>1. CASE v = w
    BY <1>1, <1>2, <1>3, <2>1 DEF WorkerInv, TypeOK, Owning, Recovering
  <2>2. CASE v # w
    <3>1. pc'[v] = pc[v]
      BY <1>2, <2>2 DEF TypeOK
    <3>2. ~(pc[v] \in Owning /\ req[v].key = k)
      BY <1>1, <2>2 DEF OneOwner, Owns, Owning
    <3> QED
      BY <1>1, <1>2, <1>3, <3>1, <3>2
      DEF WorkerInv, TypeOK, Overruns, Owning, Recovering
  <2> QED
    BY <2>1, <2>2
<1>6. \A t \in Tasks : TaskInv(t)'
  <2>1. costs'[k].status = "completed" => ~Overruns(jobs[k].est, costs'[k].llm)
    BY <1>1, <1>2, <1>3 DEF WorkerInv
  <2> QED
    BY <1>1, <1>2, <1>3, <2>1 DEF TaskInv, Overruns
<1>7. OneOwner'
  BY <1>1, <1>2 DEF OneOwner, Owns, Owning, TypeOK
<1>8. ClosedAsRecorded'
  BY <1>1, <1>2, <1>3 DEF ClosedAsRecorded, Terminal
<1> QED
  BY <1>4, <1>5, <1>6, <1>7, <1>8

LEMMA CostOverrunInv ==
  ASSUME IndInv, NEW w \in Workers, CostOverrun(w)
  PROVE  IndInv'
<1> DEFINE k == req[w].key
<1> USE DEF IndInv
<1>1. /\ k \in Tasks
      /\ pc[w] = "overrun"
      /\ jobs[k].status # "none" /\ jobs[k].day \in Days
      /\ costs[k].status = "none"
      /\ calls[k] = 1
      /\ answer[w] \in Nat /\ req[w].est \in Nat /\ answer[w] > req[w].est
  <2>1. pc[w] = "overrun" /\ k \in Tasks /\ costs[k].status = "none"
    BY DEF CostOverrun, WorkerInv, At
  <2>2. jobs[k].status # "none" /\ calls[k] = 1 /\ Overruns(req[w].est, answer[w])
    BY <2>1 DEF WorkerInv, Owning
  <2>3. req[w].est \in Price /\ answer[w] \in Price
    BY DEF TypeOK, Request
  <2> QED
    BY <2>1, <2>2, <2>3 DEF TaskInv, Overruns, Price
<1>2. /\ costs' = [costs EXCEPT ![k] = [status |-> "failed", llm |-> answer[w]]]
      /\ spent' = [spent EXCEPT ![jobs[k].day] = @ + answer[w] - req[w].est]
      /\ Leave(w)
      /\ UNCHANGED <<level, used, unknown, calls>>
  BY DEF CostOverrun
<1>3. /\ jobs' \in [Tasks -> Job]
      /\ \A t \in Tasks : t # k => jobs'[t] = jobs[t]
      /\ jobs'[k].status = "failed"
      /\ jobs'[k].est = jobs[k].est
      /\ jobs'[k].day = jobs[k].day
      /\ jobs'[k].linked
  BY <1>1, ClosedJob DEF CostOverrun, TypeOK, Terminal
<1>4. /\ costs' \in [Tasks -> Cost]
      /\ spent' \in [Days -> Nat]
  BY <1>1, <1>2 DEF TypeOK, Cost
<1>5. TypeOK'
  BY <1>2, <1>3, <1>4 DEF TypeOK, Leave, Steps, Request, NoRequest, Price
<1>6. \A v \in Workers : WorkerInv(v)'
  <2> SUFFICES ASSUME NEW v \in Workers PROVE WorkerInv(v)'
    OBVIOUS
  <2>1. CASE v = w
    BY <1>2, <2>1 DEF WorkerInv, TypeOK, Leave, Owning, Recovering
  <2>2. CASE v # w
    <3>1. pc'[v] = pc[v] /\ req'[v] = req[v] /\ answer'[v] = answer[v]
      BY <1>2, <2>2 DEF TypeOK, Leave
    <3>2. ~(pc[v] \in Owning /\ req[v].key = k)
      BY <1>1, <2>2 DEF OneOwner, Owns, Owning
    <3> QED
      BY <1>1, <1>2, <1>3, <3>1, <3>2
      DEF WorkerInv, TypeOK, Overruns, Owning, Recovering
  <2> QED
    BY <2>1, <2>2
<1>7. \A t \in Tasks : TaskInv(t)'
  BY <1>1, <1>2, <1>3 DEF TypeOK, TaskInv, Overruns
<1>8. OneOwner'
  BY <1>2 DEF OneOwner, Owns, Owning, TypeOK, Leave
<1>9. ClosedAsRecorded'
  BY <1>1, <1>2, <1>3 DEF ClosedAsRecorded, Terminal, TypeOK
<1> QED
  BY <1>5, <1>6, <1>7, <1>8, <1>9
-----------------------------------------------------------------------------

LEMMA NextInv == IndInv /\ [Next]_vars => IndInv'
<1> SUFFICES ASSUME IndInv, [Next]_vars PROVE IndInv'
  OBVIOUS
<1>1. CASE UNCHANGED vars
  BY <1>1 DEF vars, IndInv, TypeOK, WorkerInv, TaskInv, OneOwner, Owns,
              ClosedAsRecorded, Overruns
<1>2. ASSUME NEW w \in Workers, Start(w) PROVE IndInv'
  BY <1>2, StartInv
<1>3. ASSUME NEW w \in Workers, Proceed(w) PROVE IndInv'
  <2>1. CASE \E d \in Days : ReserveAndCreate(w, d)
    BY <2>1, ReserveInv
  <2>2. CASE \E d \in Days : RefuseReservation(w, d)
    BY <2>2, LeaveInv DEF RefuseReservation
  <2>3. CASE Load(w) \/ Recon(w) \/ Preflight(w) \/ StoreFails(w) \/ Check(w)
    BY <2>3, LoadInv, ReconInv, PreflightInv, HandlerInv
  <2>4. CASE ReconBudget(w) \/ Settle(w)
    BY <2>4, SettleInv
  <2>5. CASE ReconJob(w) \/ Complete(w) \/ FailJob(w)
    BY <2>5, CloseInv
  <2>6. CASE Call(w) \/ Ingest(w) \/ FailCost(w) \/ CostOverrun(w)
    BY <2>6, CallInv, RecordInv, CostOverrunInv
  <2> QED
    BY <1>3, <2>1, <2>2, <2>3, <2>4, <2>5, <2>6 DEF Proceed
<1>4. ASSUME NEW w \in Workers, Abort(w) PROVE IndInv'
  BY <1>4, LeaveInv DEF Abort
<1>5. CASE (\E w \in Workers : LoseLock(w)) \/ (\E k \in Tasks : Promote(k))
  BY <1>5, EnvironmentInv
<1> QED
  BY <1>1, <1>2, <1>3, <1>4, <1>5 DEF Next

(* The inductive invariant holds in every reachable state. *)
THEOREM Invariance == Spec => []IndInv
  BY InitInv, NextInv, PTL DEF Spec

(* Every variable keeps its type, for any number of workers and tasks: no  *)
(* budget counter of daily_budget goes below zero.                         *)
THEOREM TypeCorrect == Spec => []TypeOK
<1>1. IndInv => TypeOK
  BY DEF IndInv
<1> QED
  BY <1>1, Invariance, PTL

(* A task key is called at most once and never before its reservation is   *)
(* committed (L3ExecutionCoordinator.run).                                 *)
THEOREM PaidOnce == Spec => []OneReservedCall
<1>1. IndInv => OneReservedCall
  BY DEF IndInv, OneReservedCall, TaskInv, TypeOK
<1> QED
  BY <1>1, Invariance, PTL

(* A closed job says what its cost record says (_reconcile_terminal,       *)
(* _mark_failed, _mark_completed, _mark_cost_overrun).                     *)
THEOREM ClosedJobsAreRecorded == Spec => []ClosedAsRecorded
<1>1. IndInv => ClosedAsRecorded
  BY DEF IndInv
<1> QED
  BY <1>1, Invariance, PTL

-----------------------------------------------------------------------------
(* Steps: what may change in the records, and the refinement.              *)

(* A job that is settled or closed again keeps the record it has.          *)
LEMMA SameJob ==
  ASSUME NEW j \in Job
  PROVE  /\ j.reconciled => [j EXCEPT !.reconciled = TRUE] = j
         /\ j.linked => [j EXCEPT !.status = j.status, !.linked = TRUE] = j
  BY DEF Job

LEMMA ClosedStep ==
  ASSUME IndInv, Next, NEW k \in Tasks
  PROVE  /\ jobs[k].status \in Terminal => jobs'[k] = jobs[k]
         /\ costs[k].status # "none" => costs'[k] = costs[k]
<1> DEFINE Kept == /\ jobs[k].status \in Terminal => jobs'[k] = jobs[k]
                   /\ costs[k].status # "none" => costs'[k] = costs[k]
<1> USE DEF IndInv
<1>0. jobs \in [Tasks -> Job] /\ costs \in [Tasks -> Cost]
  BY DEF TypeOK
<1>1. CASE jobs' = jobs /\ costs' = costs
  BY <1>1
<1>2. ASSUME NEW w \in Workers, NEW d \in Days, ReserveAndCreate(w, d)
      PROVE  Kept
  BY <1>0, <1>2 DEF ReserveAndCreate, TaskKeyFree, Terminal, WorkerInv, At
<1>3. ASSUME NEW w \in Workers, ReconBudget(w) \/ Settle(w)
      PROVE  Kept
  <2> DEFINE t == req[w].key
  <2>1. t \in Tasks /\ costs[t].status = "completed" /\ costs' = costs
    BY <1>3 DEF ReconBudget, Settle, WorkerInv, At
  <2>2. jobs' = [jobs EXCEPT ![t].reconciled = TRUE]
    BY <1>3 DEF ReconBudget, Settle, SettleBudget
  <2>3. CASE k = t /\ jobs[k].status \in Terminal
    <3>1. jobs[k].reconciled
      BY <2>1, <2>3 DEF ClosedAsRecorded
    <3> QED
      BY <1>0, <2>1, <2>2, <2>3, <3>1, SameJob
  <2> QED
    BY <1>0, <2>1, <2>2, <2>3
<1>4. ASSUME NEW w \in Workers, ReconJob(w) \/ Complete(w) \/ FailJob(w)
      PROVE  Kept
  <2> DEFINE t == req[w].key
  <2>1. t \in Tasks /\ costs' = costs
    BY <1>4 DEF ReconJob, Complete, FailJob, WorkerInv, At
  <2>2. jobs' = [jobs EXCEPT ![t].status = costs[t].status, ![t].linked = TRUE]
    BY <1>4 DEF ReconJob, Complete, FailJob, CloseJob, WorkerInv, At
  <2>3. CASE k = t /\ jobs[k].status \in Terminal
    <3>1. jobs[k].linked /\ costs[k].status = jobs[k].status
      BY <2>3 DEF ClosedAsRecorded
    <3> QED
      BY <1>0, <2>1, <2>2, <2>3, <3>1, SameJob
  <2> QED
    BY <1>0, <2>1, <2>2, <2>3
<1>5. ASSUME NEW w \in Workers, Ingest(w) \/ FailCost(w)
      PROVE  Kept
  BY <1>0, <1>5 DEF Ingest, FailCost, WorkerInv, At
<1>6. ASSUME NEW w \in Workers, CostOverrun(w)
      PROVE  Kept
  <2> DEFINE t == req[w].key
  <2>1. t \in Tasks /\ costs[t].status = "none" /\ jobs[t].status \notin Terminal
    BY <1>6 DEF CostOverrun, WorkerInv, At, ClosedAsRecorded, Terminal
  <2> QED
    BY <1>0, <1>6, <2>1 DEF CostOverrun, CloseJob
<1>7. ASSUME NEW w \in Workers,
             Call(w) \/ Start(w) \/ Abort(w) \/ LoseLock(w) \/ Load(w)
             \/ Recon(w) \/ Preflight(w) \/ StoreFails(w) \/ Check(w)
             \/ \E d \in Days : RefuseReservation(w, d)
      PROVE  Kept
  BY <1>1, <1>7 DEF Call, Start, Abort, LoseLock, Load, Recon, Preflight,
                    StoreFails, Check, RefuseReservation
<1>8. CASE \E t \in Tasks : Promote(t)
  BY <1>1, <1>8 DEF Promote
<1> QED
  BY <1>2, <1>3, <1>4, <1>5, <1>6, <1>7, <1>8 DEF Next, Proceed

(* Closed jobs and recorded costs never change again.                      *)
THEOREM ClosedJobsStay == Spec => ClosedForGood
<1>1. IndInv /\ [Next]_vars =>
        [\A k \in Tasks :
           /\ jobs[k].status \in Terminal => jobs'[k] = jobs[k]
           /\ costs[k].status # "none" => costs'[k] = costs[k]]_<<jobs, costs>>
  BY ClosedStep DEF vars
<1> QED
  BY <1>1, Invariance, PTL DEF Spec, ClosedForGood

-----------------------------------------------------------------------------
(* The coordinator implements PaidTask. Each step is described by what it  *)
(* does to the records of one task.                                        *)

AbsReserved == {k \in Tasks : jobs[k].status # "none"}
AbsOutcome == [k \in Tasks |-> costs[k].status]
AbsClosed == [k \in Tasks |-> IF jobs[k].status \in Terminal
                              THEN jobs[k].status ELSE "open"]

(* A step that changes neither the status of a job nor a cost nor calls.   *)
LEMMA StutterStep ==
  ASSUME calls' = calls,
         \A k \in Tasks : jobs'[k].status = jobs[k].status,
         \A k \in Tasks : costs'[k].status = costs[k].status
  PROVE  UNCHANGED Paid!paidVars
<1>1. AbsReserved' = AbsReserved
  BY DEF AbsReserved
<1>2. AbsOutcome' = AbsOutcome
  BY DEF AbsOutcome
<1>3. AbsClosed' = AbsClosed
  BY DEF AbsClosed
<1> QED
  BY <1>1, <1>2, <1>3 DEF Paid!paidVars, AbsReserved, AbsOutcome, AbsClosed

(* Only ReserveAndCreate opens a job.                                      *)
LEMMA ReserveStep ==
  ASSUME IndInv, NEW w \in Workers, NEW d \in Days, ReserveAndCreate(w, d)
  PROVE  Paid!Next
<1>k. PICK k \in Tasks : k = req[w].key
  BY DEF ReserveAndCreate, IndInv, WorkerInv, At
<1>0. k \in Tasks /\ jobs \in [Tasks -> Job]
  BY <1>k DEF ReserveAndCreate, IndInv, TypeOK, WorkerInv, At
<1>1. /\ jobs[k].status = "none" /\ jobs'[k].status = "running"
      /\ \A t \in Tasks : t # k => jobs'[t] = jobs[t]
      /\ costs' = costs /\ calls' = calls
  BY <1>k, <1>0 DEF ReserveAndCreate, TaskKeyFree
<1>2. k \notin AbsReserved /\ AbsReserved' = AbsReserved \cup {k}
  BY <1>0, <1>1 DEF AbsReserved
<1>3. AbsOutcome' = AbsOutcome
  BY <1>1 DEF AbsOutcome
<1>4. AbsClosed' = AbsClosed
  BY <1>0, <1>1 DEF AbsClosed, Terminal
<1>5. Paid!Reserve(k)
  BY <1>1, <1>2, <1>3, <1>4
     DEF Paid!Reserve, AbsReserved, AbsOutcome, AbsClosed
<1> QED
  BY <1>0, <1>5 DEF Paid!Next

LEMMA CallStep ==
  ASSUME IndInv, NEW w \in Workers, Call(w)
  PROVE  Paid!Next
<1>k. PICK k \in Tasks : k = req[w].key
  BY DEF Call, IndInv, WorkerInv, At
<1>0. /\ k \in Tasks /\ calls \in [Tasks -> Nat]
      /\ calls[k] = 0 /\ costs[k].status = "none" /\ jobs[k].status # "none"
  BY <1>k DEF Call, IndInv, TypeOK, WorkerInv, Owning, At
<1>1. calls' = [calls EXCEPT ![k] = 1] /\ jobs' = jobs /\ costs' = costs
  BY <1>k, <1>0 DEF Call
<1>2. k \in AbsReserved /\ AbsReserved' = AbsReserved
  BY <1>0, <1>1 DEF AbsReserved
<1>3. AbsOutcome[k] = "none" /\ AbsOutcome' = AbsOutcome
  BY <1>0, <1>1 DEF AbsOutcome
<1>4. AbsClosed' = AbsClosed
  BY <1>1 DEF AbsClosed
<1>5. Paid!Call(k)
  BY <1>0, <1>1, <1>2, <1>3, <1>4
     DEF Paid!Call, AbsReserved, AbsOutcome, AbsClosed
<1> QED
  BY <1>0, <1>5 DEF Paid!Next

(* A cost is recorded for a task that was called and has none.             *)
LEMMA RecordStep ==
  ASSUME IndInv, NEW w \in Workers, Ingest(w) \/ FailCost(w)
  PROVE  [Paid!Next]_Paid!paidVars
<1>k. PICK k \in Tasks : k = req[w].key
  BY DEF Ingest, FailCost, IndInv, WorkerInv, At
<1>0. /\ k \in Tasks /\ calls[k] = 1 /\ costs \in [Tasks -> Cost]
      /\ jobs' = jobs /\ calls' = calls
      /\ costs[k].status = "none"
  BY <1>k DEF Ingest, FailCost, IndInv, TypeOK, WorkerInv, Owning, At
<1>1. PICK r \in Paid!Outcomes :
        /\ costs'[k].status = r
        /\ \A t \in Tasks : t # k => costs'[t] = costs[t]
  BY <1>k, <1>0 DEF Ingest, FailCost, Paid!Outcomes
<1>2. AbsReserved' = AbsReserved
  BY <1>0 DEF AbsReserved
<1>3. AbsOutcome[k] = "none" /\ AbsOutcome' = [AbsOutcome EXCEPT ![k] = r]
  BY <1>0, <1>1 DEF AbsOutcome
<1>4. AbsClosed' = AbsClosed
  BY <1>0 DEF AbsClosed
<1>5. Paid!Record(k, r)
  BY <1>0, <1>2, <1>3, <1>4
     DEF Paid!Record, AbsReserved, AbsOutcome, AbsClosed
<1> QED
  BY <1>0, <1>5 DEF Paid!Next

(* A job takes the status of its cost: Close, or a replay of it.           *)
LEMMA CloseStep ==
  ASSUME IndInv, NEW w \in Workers, ReconJob(w) \/ Complete(w) \/ FailJob(w)
  PROVE  [Paid!Next]_Paid!paidVars
<1>k. PICK k \in Tasks : k = req[w].key
  BY DEF ReconJob, Complete, FailJob, IndInv, WorkerInv, At
<1>0. /\ k \in Tasks /\ jobs \in [Tasks -> Job] /\ costs \in [Tasks -> Cost]
      /\ costs' = costs /\ calls' = calls
      /\ costs[k].status # "none" /\ jobs[k].status # "none"
  BY <1>k DEF ReconJob, Complete, FailJob, IndInv, TypeOK, WorkerInv, Owning,
         Recovering, At
<1>1. costs[k].status \in Terminal
  BY <1>0 DEF Cost, Terminal
<1>2. jobs' = [jobs EXCEPT ![k].status = costs[k].status, ![k].linked = TRUE]
  BY <1>k DEF ReconJob, Complete, FailJob, CloseJob, IndInv, WorkerInv, At
<1>3. /\ jobs'[k].status = costs[k].status
      /\ \A t \in Tasks : t # k => jobs'[t] = jobs[t]
  BY <1>0, <1>2 DEF Job
<1>4. CASE jobs[k].status \in Terminal
  <2>1. jobs[k].status = costs[k].status
    BY <1>0, <1>4 DEF IndInv, ClosedAsRecorded
  <2> QED
    BY <1>0, <1>3, <2>1, StutterStep
<1>5. CASE jobs[k].status \notin Terminal
  <2>1. AbsReserved' = AbsReserved
    BY <1>0, <1>3 DEF AbsReserved
  <2>2. AbsOutcome[k] # "none" /\ AbsOutcome' = AbsOutcome
    BY <1>0 DEF AbsOutcome
  <2>3. /\ AbsClosed[k] = "open"
        /\ AbsClosed' = [AbsClosed EXCEPT ![k] = AbsOutcome[k]]
    BY <1>0, <1>1, <1>3, <1>5 DEF AbsClosed, AbsOutcome
  <2>4. Paid!Close(k)
    BY <1>0, <2>1, <2>2, <2>3
       DEF Paid!Close, AbsReserved, AbsOutcome, AbsClosed
  <2> QED
    BY <1>0, <2>4 DEF Paid!Next
<1> QED
  BY <1>4, <1>5

LEMMA OverrunStep ==
  ASSUME IndInv, NEW w \in Workers, CostOverrun(w)
  PROVE  Paid!Next
<1>k. PICK k \in Tasks : k = req[w].key
  BY DEF CostOverrun, IndInv, WorkerInv, At
<1>0. /\ k \in Tasks /\ jobs \in [Tasks -> Job] /\ costs \in [Tasks -> Cost]
      /\ calls[k] = 1 /\ calls' = calls
      /\ costs[k].status = "none" /\ jobs[k].status # "none"
  BY <1>k DEF CostOverrun, IndInv, TypeOK, WorkerInv, Owning, At
<1>1. jobs[k].status \notin Terminal
  BY <1>0 DEF IndInv, ClosedAsRecorded, Terminal
<1>2. /\ costs'[k].status = "failed"
      /\ \A t \in Tasks : t # k => costs'[t] = costs[t]
  BY <1>k, <1>0 DEF CostOverrun
<1>3. /\ jobs'[k].status = "failed"
      /\ \A t \in Tasks : t # k => jobs'[t] = jobs[t]
  BY <1>k, <1>0 DEF CostOverrun, CloseJob, Job
<1>4. AbsReserved' = AbsReserved
  BY <1>0, <1>3 DEF AbsReserved
<1>5. AbsOutcome[k] = "none" /\ AbsOutcome' = [AbsOutcome EXCEPT ![k] = "failed"]
  BY <1>0, <1>2 DEF AbsOutcome
<1>6. AbsClosed[k] = "open" /\ AbsClosed' = [AbsClosed EXCEPT ![k] = "failed"]
  BY <1>0, <1>1, <1>3 DEF AbsClosed, Terminal
<1>7. Paid!RecordAndClose(k, "failed")
  BY <1>0, <1>4, <1>5, <1>6
     DEF Paid!RecordAndClose, AbsReserved, AbsOutcome, AbsClosed
<1> QED
  BY <1>0, <1>7 DEF Paid!Next, Paid!Outcomes

LEMMA AbstractStep ==
  ASSUME IndInv, [Next]_vars
  PROVE  [Paid!Next]_Paid!paidVars
<1>1. CASE UNCHANGED <<jobs, costs, calls>>
  BY <1>1, StutterStep
<1>2. ASSUME NEW w \in Workers, ReconBudget(w) \/ Settle(w)
      PROVE  UNCHANGED Paid!paidVars
  <2>1. /\ jobs' = [jobs EXCEPT ![req[w].key].reconciled = TRUE]
        /\ UNCHANGED <<costs, calls>>
    BY <1>2 DEF ReconBudget, Settle, SettleBudget
  <2>2. \A k \in Tasks : jobs'[k].status = jobs[k].status
    BY <2>1 DEF IndInv, TypeOK, Job
  <2> QED
    BY <2>1, <2>2, StutterStep
<1>3. ASSUME NEW w \in Workers, Proceed(w)
      PROVE  [Paid!Next]_Paid!paidVars
  <2>1. CASE \E d \in Days : ReserveAndCreate(w, d)
    BY <2>1, ReserveStep
  <2>2. CASE Call(w) \/ Ingest(w) \/ FailCost(w) \/ CostOverrun(w)
    BY <2>2, CallStep, RecordStep, OverrunStep
  <2>3. CASE ReconJob(w) \/ Complete(w) \/ FailJob(w)
    BY <2>3, CloseStep
  <2>4. CASE Load(w) \/ Recon(w) \/ Preflight(w) \/ StoreFails(w) \/ Check(w)
    BY <1>1, <2>4 DEF Load, Recon, Preflight, StoreFails, Check
  <2>5. CASE \E d \in Days : RefuseReservation(w, d)
    BY <1>1, <2>5 DEF RefuseReservation
  <2> QED
    BY <1>2, <1>3, <2>1, <2>2, <2>3, <2>4, <2>5 DEF Proceed
<1>4. CASE \E w \in Workers : Start(w) \/ Abort(w) \/ LoseLock(w)
  BY <1>1, <1>4 DEF Start, Abort, LoseLock
<1>5. CASE \E k \in Tasks : Promote(k)
  BY <1>1, <1>5 DEF Promote
<1>6. CASE UNCHANGED vars
  BY <1>1, <1>6 DEF vars
<1> QED
  BY <1>3, <1>4, <1>5, <1>6 DEF Next

(* The coordinator keeps the promise made of every paid task: reserved     *)
(* before it is called, called once, recorded once, closed as recorded.    *)
THEOREM Refinement == Spec => ImplementsPaidTask
<1>1. Init => Paid!Init
  BY DEF Init, Paid!Init, NoJob, NoCost, Terminal
<1>2. IndInv /\ [Next]_vars => [Paid!Next]_Paid!paidVars
  BY AbstractStep
<1> QED
  BY <1>1, <1>2, Invariance, PTL DEF Spec, ImplementsPaidTask, Paid!Spec

-----------------------------------------------------------------------------
(* The daily budgets. A row changes together with the charge of one job,   *)
(* so that it stays the sum of the charges of its jobs; MoneyInv says when *)
(* the charge of a task may still change.                                  *)

MoneyInv(k) ==
  /\ costs[k].status = "none" => costs[k].llm = Unknown
  /\ jobs[k].reconciled => costs[k].status = "completed"
  /\ Overran(k) => jobs[k].status = "failed"

BooksInv == BudgetKept /\ \A k \in Tasks : MoneyInv(k)

LEMMA InitBooks == Init => BooksInv
<1> SUFFICES ASSUME Init PROVE BooksInv
  OBVIOUS
<1> USE DEF Init
<1>1. \A d \in Days : JobsOn(d) = {} /\ UnpricedOn(d) = {}
  BY DEF JobsOn, UnpricedOn, NoJob
<1>2. BudgetKept
  <2>1. SumFunctionOnSet(Charge, {}) = 0
    BY SumOfNone
  <2> QED
    <3> SUFFICES ASSUME NEW d \in Days
                 PROVE  /\ used[d] = Cardinality(JobsOn(d))
                        /\ MaxRequests[d] # Unlimited => used[d] <= MaxRequests[d]
                        /\ spent[d] = SumFunctionOnSet(Charge, JobsOn(d))
                        /\ unknown[d] = Cardinality(UnpricedOn(d))
                        /\ MaxCost[d] # Unlimited => spent[d] <= MaxCost[d]
      BY DEF BudgetKept
    <3>1. used[d] = 0 /\ spent[d] = 0 /\ unknown[d] = 0
      OBVIOUS
    <3>2. JobsOn(d) = {} /\ UnpricedOn(d) = {} /\ Cardinality({}) = 0
      BY <1>1, FS_EmptySet
    <3>3. (MaxRequests[d] # Unlimited => 0 <= MaxRequests[d]) /\ (MaxCost[d] # Unlimited => 0 <= MaxCost[d])
      BY LimitAssumption
    <3> QED
      BY <2>1, <3>1, <3>2, <3>3
<1>3. \A k \in Tasks : MoneyInv(k)
  BY DEF MoneyInv, NoCost, NoJob, Overran
<1> QED
  BY <1>2, <1>3 DEF BooksInv

LEMMA ChargeTypes ==
  ASSUME TypeOK
  PROVE  /\ Charge \in [Tasks -> Nat]
         /\ \A d \in Days : IsFiniteSet(JobsOn(d)) /\ JobsOn(d) \subseteq Tasks
         /\ \A d \in Days : IsFiniteSet(UnpricedOn(d)) /\ UnpricedOn(d) \subseteq JobsOn(d)
<1>1. \A k \in Tasks : Charge[k] \in Nat
  BY DEF Charge, Settled, AmountOf, TypeOK, Job, Cost, Price
<1>2. \A d \in Days : IsFiniteSet(JobsOn(d)) /\ JobsOn(d) \subseteq Tasks
  BY TaskAssumption, FS_Subset DEF JobsOn
<1>3. \A d \in Days : IsFiniteSet(UnpricedOn(d)) /\ UnpricedOn(d) \subseteq JobsOn(d)
  BY <1>2, FS_Subset DEF UnpricedOn
<1> QED
  BY <1>1, <1>2, <1>3 DEF Charge

LEMMA ChargeTypesAfter ==
  ASSUME TypeOK'
  PROVE  \A k \in Tasks : Charge'[k] \in Nat
BY DEF Charge, Settled, AmountOf, TypeOK, Job, Cost, Price

(* Nothing that a row stands for changes.                                  *)
LEMMA SameBooks ==
  ASSUME BudgetKept, TypeOK, TypeOK',
         UNCHANGED budget,
         \A k \in Tasks :
           /\ jobs'[k].status = "none" <=> jobs[k].status = "none"
           /\ jobs'[k].day = jobs[k].day /\ jobs'[k].est = jobs[k].est
           /\ Settled(k)' <=> Settled(k)
           /\ Settled(k) => costs'[k].llm = costs[k].llm
           /\ Overran(k)' <=> Overran(k)
  PROVE  BudgetKept'
<1>1. \A d \in Days : JobsOn(d)' = JobsOn(d) /\ UnpricedOn(d)' = UnpricedOn(d)
  BY DEF JobsOn, UnpricedOn
<1>2. Charge' = Charge
  BY DEF Charge
<1> QED
  <2> SUFFICES ASSUME NEW d \in Days
               PROVE  (/\ used[d] = Cardinality(JobsOn(d))
                       /\ MaxRequests[d] # Unlimited => used[d] <= MaxRequests[d]
                       /\ spent[d] = SumFunctionOnSet(Charge, JobsOn(d))
                       /\ unknown[d] = Cardinality(UnpricedOn(d))
                       /\ MaxCost[d] # Unlimited /\ ~(\E k \in JobsOn(d) : Overran(k))
                            => spent[d] <= MaxCost[d])'
    BY DEF BudgetKept
  <2>1. /\ used[d] = Cardinality(JobsOn(d))
        /\ MaxRequests[d] # Unlimited => used[d] <= MaxRequests[d]
        /\ spent[d] = SumFunctionOnSet(Charge, JobsOn(d))
        /\ unknown[d] = Cardinality(UnpricedOn(d))
        /\ MaxCost[d] # Unlimited /\ ~(\E k \in JobsOn(d) : Overran(k)) => spent[d] <= MaxCost[d]
    BY DEF BudgetKept
  <2>2. used' = used /\ spent' = spent /\ unknown' = unknown
    BY DEF budget
  <2>3. \A k \in JobsOn(d) : Overran(k)' <=> Overran(k)
    BY DEF JobsOn
  <2> QED
    BY <1>1, <1>2, <2>1, <2>2, <2>3

(* A new job joins the books of its day.                                   *)
LEMMA ReserveBooks ==
  ASSUME IndInv, IndInv', BooksInv, NEW w \in Workers, NEW d \in Days, ReserveAndCreate(w, d)
  PROVE  BooksInv'
<1>k. PICK k \in Tasks, e \in Price : k = req[w].key /\ e = req[w].est
  BY DEF ReserveAndCreate, At, IndInv, WorkerInv, TypeOK, Request
<1>1. /\ k \in Tasks /\ e \in Price
      /\ jobs[k].status = "none" /\ costs[k].status = "none" /\ costs[k].llm = Unknown
      /\ jobs' = [jobs EXCEPT ![k] = [status |-> "running", est |-> e, day |-> d,
                                      reconciled |-> FALSE, linked |-> FALSE]]
      /\ ReserveBudget(d, e) /\ WithinBudget(d, e)
      /\ costs' = costs
  BY <1>k DEF ReserveAndCreate, TaskKeyFree, At, IndInv, WorkerInv, TaskInv, TypeOK, Cost,
              BooksInv, MoneyInv
<1>2. /\ jobs'[k] = [status |-> "running", est |-> e, day |-> d,
                     reconciled |-> FALSE, linked |-> FALSE]
      /\ \A t \in Tasks : t # k => jobs'[t] = jobs[t]
  BY <1>1 DEF IndInv, TypeOK
<1>3. /\ \A t \in Tasks : t # k => (Settled(t)' <=> Settled(t)) /\ (Overran(t)' <=> Overran(t))
      /\ ~Settled(k)' /\ ~Overran(k)'
  BY <1>1, <1>2 DEF Settled, Overran
<1>4. /\ k \notin JobsOn(d) /\ k \notin UnpricedOn(d)
      /\ JobsOn(d)' = JobsOn(d) \cup {k}
      /\ UnpricedOn(d)' = IF e = Unknown THEN UnpricedOn(d) \cup {k} ELSE UnpricedOn(d)
      /\ \A b \in Days : b # d => JobsOn(b)' = JobsOn(b) /\ UnpricedOn(b)' = UnpricedOn(b)
  <2>1. \A b \in Days : k \notin JobsOn(b) /\ k \notin UnpricedOn(b)
    BY <1>1 DEF JobsOn, UnpricedOn
  <2>2. \A b \in Days, t \in Tasks :
          t \in JobsOn(b)' <=> t \in JobsOn(b) \/ (t = k /\ b = d)
    BY <1>1, <1>2 DEF JobsOn
  <2>3. \A b \in Days, t \in Tasks :
          t \in UnpricedOn(b)' <=> t \in UnpricedOn(b) \/ (t = k /\ b = d /\ e = Unknown)
    <3>1. \A b \in Days, t \in Tasks :
            t \in UnpricedOn(b)' <=> t \in JobsOn(b)' /\ jobs'[t].est = Unknown /\ ~Settled(t)'
      BY DEF UnpricedOn, JobsOn
    <3>2. \A b \in Days, t \in Tasks :
            t \in UnpricedOn(b) <=> t \in JobsOn(b) /\ jobs[t].est = Unknown /\ ~Settled(t)
      BY DEF UnpricedOn, JobsOn
    <3>3. ASSUME NEW b \in Days, NEW t \in Tasks, t # k
          PROVE  t \in UnpricedOn(b)' <=> t \in UnpricedOn(b)
      BY <1>2, <1>3, <2>2, <3>1, <3>2, <3>3
    <3>4. ASSUME NEW b \in Days
          PROVE  k \in UnpricedOn(b)' <=> b = d /\ e = Unknown
      <4>1. jobs'[k].est = e
        BY <1>2
      <4> QED
        BY <1>1, <1>3, <2>1, <2>2, <3>1, <4>1
    <3> QED
      BY <1>1, <2>1, <3>3, <3>4
  <2>4. \A b \in Days : /\ JobsOn(b) \subseteq Tasks /\ JobsOn(b)' \subseteq Tasks
                        /\ UnpricedOn(b) \subseteq Tasks /\ UnpricedOn(b)' \subseteq Tasks
    BY DEF JobsOn, UnpricedOn
  <2>5. \A b \in Days : b # d => JobsOn(b)' = JobsOn(b) /\ UnpricedOn(b)' = UnpricedOn(b)
    BY <2>2, <2>3, <2>4
  <2>6. JobsOn(d)' = JobsOn(d) \cup {k}
    BY <1>1, <2>2, <2>4
  <2>7. UnpricedOn(d)' = IF e = Unknown THEN UnpricedOn(d) \cup {k} ELSE UnpricedOn(d)
    BY <1>1, <2>3, <2>4
  <2> QED
    BY <2>1, <2>5, <2>6, <2>7
<1>5. /\ \A t \in Tasks : Charge'[t] \in Nat
      /\ Charge'[k] = AmountOf(e)
      /\ \A t \in Tasks : t # k => Charge'[t] = Charge[t]
  <2>1. \A t \in Tasks : Charge'[t] \in Nat
    BY ChargeTypesAfter DEF IndInv
  <2>2. \A t \in Tasks : Charge'[t] = IF Settled(t)' THEN costs'[t].llm ELSE AmountOf(jobs'[t].est)
    BY DEF Charge, AmountOf
  <2>3. \A t \in Tasks : Charge[t] = IF Settled(t) THEN costs[t].llm ELSE AmountOf(jobs[t].est)
    BY DEF Charge
  <2> QED
    BY <1>1, <1>2, <1>3, <2>1, <2>2, <2>3
<1>6. \A b \in Days : /\ IsFiniteSet(JobsOn(b)) /\ IsFiniteSet(UnpricedOn(b))
                      /\ JobsOn(b) \subseteq Tasks
  BY ChargeTypes DEF IndInv
<1>7. \A b \in Days : SumFunctionOnSet(Charge', JobsOn(b)) = SumFunctionOnSet(Charge, JobsOn(b))
  <2> SUFFICES ASSUME NEW b \in Days
               PROVE  SumFunctionOnSet(Charge', JobsOn(b)) = SumFunctionOnSet(Charge, JobsOn(b))
    OBVIOUS
  <2>1. k \notin JobsOn(b)
    BY <1>1 DEF JobsOn
  <2>2. \A t \in JobsOn(b) : Charge'[t] = Charge[t]
    BY <1>5, <1>6, <2>1
  <2> QED
    BY <1>6, <2>2, SumSame
<1>8. SumFunctionOnSet(Charge', JobsOn(d) \cup {k}) = SumFunctionOnSet(Charge', JobsOn(d)) + AmountOf(e)
  <2>1. \A t \in JobsOn(d) \cup {k} : Charge'[t] \in Int
    BY <1>1, <1>5, <1>6
  <2> QED
    BY <1>4, <1>5, <1>6, <2>1, SumAdd
<1>9. /\ Cardinality(JobsOn(d) \cup {k}) = Cardinality(JobsOn(d)) + 1
      /\ Cardinality(UnpricedOn(d) \cup {k}) = Cardinality(UnpricedOn(d)) + 1
  BY <1>4, <1>6, FS_AddElement
<1>10. BudgetKept'
  <2> SUFFICES ASSUME NEW b \in Days
               PROVE  (/\ used[b] = Cardinality(JobsOn(b))
                       /\ MaxRequests[b] # Unlimited => used[b] <= MaxRequests[b]
                       /\ spent[b] = SumFunctionOnSet(Charge, JobsOn(b))
                       /\ unknown[b] = Cardinality(UnpricedOn(b))
                       /\ MaxCost[b] # Unlimited /\ ~(\E t \in JobsOn(b) : Overran(t))
                            => spent[b] <= MaxCost[b])'
    BY DEF BudgetKept
  <2>1. /\ used[b] = Cardinality(JobsOn(b))
        /\ MaxRequests[b] # Unlimited => used[b] <= MaxRequests[b]
        /\ spent[b] = SumFunctionOnSet(Charge, JobsOn(b))
        /\ unknown[b] = Cardinality(UnpricedOn(b))
        /\ MaxCost[b] # Unlimited /\ ~(\E t \in JobsOn(b) : Overran(t)) => spent[b] <= MaxCost[b]
    BY DEF BooksInv, BudgetKept
  <2>2. used \in [Days -> Nat] /\ spent \in [Days -> Nat] /\ unknown \in [Days -> Nat]
    BY DEF IndInv, TypeOK
  <2>3. CASE b = d
    <3>1. /\ used'[d] = used[d] + 1
          /\ spent'[d] = spent[d] + AmountOf(e)
          /\ unknown'[d] = IF e = Unknown THEN unknown[d] + 1 ELSE unknown[d]
      BY <1>1, <2>2 DEF ReserveBudget
    <3>2. /\ MaxRequests[d] # Unlimited => used[d] + 1 <= MaxRequests[d]
          /\ MaxCost[d] # Unlimited => spent[d] + AmountOf(e) <= MaxCost[d]
      BY <1>1 DEF WithinBudget
    <3> QED
      BY <1>4, <1>7, <1>8, <1>9, <2>1, <2>3, <3>1, <3>2
  <2>4. CASE b # d
    <3>1. used'[b] = used[b] /\ spent'[b] = spent[b] /\ unknown'[b] = unknown[b]
      BY <1>1, <2>2, <2>4 DEF ReserveBudget
    <3>2. \A t \in JobsOn(b) : Overran(t)' <=> Overran(t)
      BY <1>1, <1>3, <1>6 DEF JobsOn
    <3> QED
      BY <1>4, <1>7, <2>1, <2>4, <3>1, <3>2
  <2> QED
    BY <2>3, <2>4
<1>11. \A t \in Tasks : MoneyInv(t)'
  BY <1>1, <1>2, <1>3 DEF BooksInv, MoneyInv, Overran
<1> QED
  BY <1>10, <1>11 DEF BooksInv

(* One job's charge becomes final: its day moves by the difference.        *)
LEMMA Recharge ==
  ASSUME BudgetKept, TypeOK, TypeOK',
         NEW k \in Tasks, NEW d \in Days, jobs[k].status # "none", jobs[k].day = d,
         \A t \in Tasks :
           /\ jobs'[t].status = "none" <=> jobs[t].status = "none"
           /\ jobs'[t].day = jobs[t].day /\ jobs'[t].est = jobs[t].est,
         \A t \in Tasks \ {k} :
           /\ Settled(t)' <=> Settled(t)
           /\ costs'[t].llm = costs[t].llm
           /\ Overran(t)' <=> Overran(t),
         ~Settled(k), Settled(k)', ~Overran(k),
         MaxCost[d] # Unlimited => Overran(k)' \/ Charge'[k] <= Charge[k],
         used' = used,
         spent' = [spent EXCEPT ![d] = spent[d] - Charge[k] + Charge'[k]],
         unknown' = [unknown EXCEPT ![d] = IF jobs[k].est = Unknown THEN unknown[d] - 1 ELSE unknown[d]]
  PROVE  BudgetKept'
<1>1. \A b \in Days : JobsOn(b)' = JobsOn(b)
  BY DEF JobsOn
<1>2. \A b \in Days : b # d => k \notin JobsOn(b)
  BY DEF JobsOn
<1>3. k \in JobsOn(d) /\ (k \in UnpricedOn(d) <=> jobs[k].est = Unknown)
  BY DEF JobsOn, UnpricedOn
<1>4. \A b \in Days : UnpricedOn(b)' = UnpricedOn(b) \ {k}
  <2> SUFFICES ASSUME NEW b \in Days PROVE UnpricedOn(b)' = UnpricedOn(b) \ {k}
    OBVIOUS
  <2>1. \A t \in JobsOn(b) : t \in Tasks
    BY DEF JobsOn
  <2>2. \A t \in JobsOn(b) : t \in UnpricedOn(b)' <=> t \in UnpricedOn(b) /\ t # k
    BY <1>1, <2>1 DEF UnpricedOn
  <2>3. UnpricedOn(b) \subseteq JobsOn(b) /\ UnpricedOn(b)' \subseteq JobsOn(b)
    BY <1>1 DEF UnpricedOn
  <2> QED
    BY <2>2, <2>3
<1>5. \A t \in Tasks : Charge[t] \in Nat /\ Charge'[t] \in Nat
  BY ChargeTypes, ChargeTypesAfter
<1>6. \A t \in Tasks \ {k} : Charge'[t] = Charge[t]
  BY DEF Charge, AmountOf
<1>7. \A b \in Days : /\ IsFiniteSet(JobsOn(b)) /\ JobsOn(b) \subseteq Tasks
                      /\ IsFiniteSet(UnpricedOn(b)) /\ UnpricedOn(b) \subseteq JobsOn(b)
  BY ChargeTypes
<1>8. SumFunctionOnSet(Charge', JobsOn(d)) = SumFunctionOnSet(Charge, JobsOn(d)) - Charge[k] + Charge'[k]
  <2>1. \A t \in JobsOn(d) : Charge[t] \in Int /\ Charge'[t] \in Int
    BY <1>5, <1>7
  <2>2. \A t \in JobsOn(d) \ {k} : Charge[t] = Charge'[t]
    BY <1>6, <1>7
  <2> QED
    BY <1>3, <1>7, <2>1, <2>2, SumChange
<1>9. \A b \in Days : b # d => SumFunctionOnSet(Charge', JobsOn(b)) = SumFunctionOnSet(Charge, JobsOn(b))
  <2> SUFFICES ASSUME NEW b \in Days, b # d
               PROVE  SumFunctionOnSet(Charge', JobsOn(b)) = SumFunctionOnSet(Charge, JobsOn(b))
    OBVIOUS
  <2>1. \A t \in JobsOn(b) : Charge'[t] = Charge[t]
    BY <1>2, <1>6, <1>7
  <2> QED
    BY <1>7, <2>1, SumSame
<1>10. SUFFICES ASSUME NEW b \in Days
               PROVE  (/\ used[b] = Cardinality(JobsOn(b))
                       /\ MaxRequests[b] # Unlimited => used[b] <= MaxRequests[b]
                       /\ spent[b] = SumFunctionOnSet(Charge, JobsOn(b))
                       /\ unknown[b] = Cardinality(UnpricedOn(b))
                       /\ MaxCost[b] # Unlimited /\ ~(\E t \in JobsOn(b) : Overran(t))
                            => spent[b] <= MaxCost[b])'
  BY DEF BudgetKept
<1>11. /\ used[b] = Cardinality(JobsOn(b))
       /\ MaxRequests[b] # Unlimited => used[b] <= MaxRequests[b]
       /\ spent[b] = SumFunctionOnSet(Charge, JobsOn(b))
       /\ unknown[b] = Cardinality(UnpricedOn(b))
       /\ MaxCost[b] # Unlimited /\ ~(\E t \in JobsOn(b) : Overran(t)) => spent[b] <= MaxCost[b]
  BY DEF BudgetKept
<1>12. spent \in [Days -> Nat] /\ unknown \in [Days -> Nat]
  BY DEF TypeOK
<1>13. CASE b = d
  <2>1. /\ spent'[d] = spent[d] - Charge[k] + Charge'[k]
        /\ unknown'[d] = IF jobs[k].est = Unknown THEN unknown[d] - 1 ELSE unknown[d]
    BY <1>12
  <2>2. unknown'[d] = Cardinality(UnpricedOn(d) \ {k})
    <3>1. CASE k \in UnpricedOn(d)
      <4>1. unknown'[d] = unknown[d] - 1 /\ unknown[d] = Cardinality(UnpricedOn(d))
        BY <1>3, <1>11, <1>13, <2>1, <3>1
      <4>2. Cardinality(UnpricedOn(d) \ {k}) = Cardinality(UnpricedOn(d)) - 1
        BY <1>7, <3>1, FS_RemoveElement
      <4> QED
        BY <4>1, <4>2
    <3>2. CASE k \notin UnpricedOn(d)
      <4>1. UnpricedOn(d) \ {k} = UnpricedOn(d)
        BY <3>2
      <4> QED
        BY <1>3, <1>11, <1>13, <2>1, <3>2, <4>1
    <3> QED
      BY <3>1, <3>2
  <2>3. MaxCost[d] # Unlimited /\ ~(\E t \in JobsOn(d) : Overran(t)') => spent'[d] <= MaxCost[d]
    <3> SUFFICES ASSUME MaxCost[d] # Unlimited, \A t \in JobsOn(d) : ~Overran(t)'
                 PROVE  spent'[d] <= MaxCost[d]
      OBVIOUS
    <3>1. \A t \in JobsOn(d) : ~Overran(t)
      BY <1>7
    <3>2. Charge'[k] <= Charge[k]
      BY <1>3
    <3>3. MaxCost[d] \in Nat /\ spent[d] \in Nat /\ Charge[k] \in Nat /\ Charge'[k] \in Nat
      BY <1>5, <1>12, LimitAssumption
    <3> QED
      BY <1>11, <1>13, <2>1, <3>1, <3>2, <3>3
  <2> QED
    BY <1>1, <1>4, <1>8, <1>11, <1>13, <2>1, <2>2, <2>3
<1>14. CASE b # d
  <2>1. spent'[b] = spent[b] /\ unknown'[b] = unknown[b]
    BY <1>12, <1>14
  <2>2. UnpricedOn(b)' = UnpricedOn(b)
    <3>1. k \notin UnpricedOn(b)
      BY <1>2, <1>7, <1>14
    <3>2. UnpricedOn(b)' = UnpricedOn(b) \ {k}
      BY <1>4
    <3> QED
      BY <3>1, <3>2
  <2>3. \A t \in JobsOn(b) : Overran(t)' <=> Overran(t)
    <3>1. \A t \in JobsOn(b) : t \in Tasks \ {k}
      BY <1>2, <1>7, <1>14
    <3>2. \A t \in Tasks \ {k} : Overran(t)' <=> Overran(t)
      OBVIOUS
    <3> QED
      BY <3>1, <3>2
  <2> QED
    BY <1>1, <1>9, <1>11, <1>14, <2>1, <2>2, <2>3
<1> QED
  BY <1>13, <1>14

(* The actual cost replaces the estimate, on the first of any number of    *)
(* settlements; nothing is clipped at zero.                                *)
LEMMA SettleBooks ==
  ASSUME IndInv, IndInv', BooksInv,
         NEW k \in Tasks, NEW actual \in Price,
         jobs[k].status # "none", costs[k].status = "completed", costs[k].llm = actual,
         SettleBudget(k, jobs[k].est, actual), costs' = costs
  PROVE  BooksInv'
<1>d. PICK d \in Days : d = jobs[k].day
  BY DEF IndInv, TaskInv
<1>e. PICK e \in Price : e = jobs[k].est
  BY DEF IndInv, TypeOK, Job
<1>1. /\ jobs' = [jobs EXCEPT ![k].reconciled = TRUE]
      /\ jobs \in [Tasks -> Job] /\ jobs' \in [Tasks -> Job]
      /\ used \in [Days -> Nat] /\ spent \in [Days -> Nat] /\ unknown \in [Days -> Nat]
      /\ TypeOK /\ TypeOK' /\ BudgetKept
  BY DEF SettleBudget, IndInv, TypeOK, BooksInv
<1>2. /\ \A t \in Tasks : /\ jobs'[t].status = jobs[t].status
                         /\ jobs'[t].day = jobs[t].day /\ jobs'[t].est = jobs[t].est
      /\ \A t \in Tasks \ {k} : jobs'[t] = jobs[t]
      /\ jobs'[k].reconciled
  BY <1>1 DEF Job
<1>3. /\ \A t \in Tasks : Overran(t)' <=> Overran(t)
      /\ \A t \in Tasks \ {k} : Settled(t)' <=> Settled(t)
      /\ ~Overran(k)
  BY <1>2 DEF Overran, Settled
<1>4. jobs[k].status # "failed"
  BY DEF IndInv, ClosedAsRecorded, Terminal
<1>5. \A t \in Tasks : MoneyInv(t)'
  <2>1. \A t \in Tasks : jobs'[t].reconciled => jobs[t].reconciled \/ t = k
    BY <1>2
  <2> QED
    BY <1>2, <1>3, <2>1 DEF BooksInv, MoneyInv
<1>6. CASE AlreadySettled(k) \/ ~PriceKnown(actual)
  <2>1. UNCHANGED budget
    BY <1>6 DEF SettleBudget
  <2>2. Settled(k)' <=> Settled(k)
    BY <1>2, <1>6 DEF Settled, AlreadySettled, PriceKnown
  <2>3. \A t \in Tasks : Settled(t)' <=> Settled(t)
    BY <1>3, <2>2
  <2>4. BudgetKept'
    BY <1>1, <1>2, <1>3, <2>1, <2>3, SameBooks
  <2> QED
    BY <1>5, <2>4 DEF BooksInv
<1>7. CASE ~AlreadySettled(k) /\ PriceKnown(actual)
  <2>1. ~Settled(k) /\ Settled(k)'
    BY <1>2, <1>4, <1>7 DEF Settled, AlreadySettled, PriceKnown
  <2>2. Charge[k] = AmountOf(e) /\ Charge'[k] = actual
    BY <1>2, <1>e, <2>1 DEF Charge, AmountOf
  <2>3. actual \in Nat /\ AmountOf(actual) = actual /\ AmountOf(e) \in Nat
    BY <1>7 DEF PriceKnown, AmountOf, Price
  <2>4. /\ spent[d] \in Nat /\ spent[d] >= AmountOf(e)
        /\ unknown[d] \in Nat
        /\ e = Unknown => unknown[d] >= 1
    <3>1. k \in JobsOn(d) /\ (e = Unknown => k \in UnpricedOn(d))
      BY <1>d, <1>e, <2>1 DEF JobsOn, UnpricedOn
    <3>2. IsFiniteSet(JobsOn(d)) /\ IsFiniteSet(UnpricedOn(d)) /\ JobsOn(d) \subseteq Tasks
          /\ IsFiniteSet(JobsOn(d) \ {k})
      BY <1>1, ChargeTypes, FS_Subset
    <3>3. \A t \in JobsOn(d) : Charge[t] \in Nat
      BY <1>1, <3>2, ChargeTypes
    <3>4. SumFunctionOnSet(Charge, JobsOn(d)) = Charge[k] + SumFunctionOnSet(Charge, JobsOn(d) \ {k})
      <4>1. \A t \in JobsOn(d) : Charge[t] \in Int
        BY <3>3
      <4> QED
        BY <3>1, <3>2, <4>1, SumRemove
    <3>5. SumFunctionOnSet(Charge, JobsOn(d) \ {k}) \in Nat
      <4>1. \A t \in JobsOn(d) \ {k} : Charge[t] \in Nat
        BY <3>3
      <4> QED
        BY <3>2, <4>1, SumType
    <3>6. e = Unknown => Cardinality(UnpricedOn(d)) >= 1
      BY <3>1, <3>2, FS_EmptySet, FS_CardinalityType
    <3>7. spent[d] = SumFunctionOnSet(Charge, JobsOn(d)) /\ unknown[d] = Cardinality(UnpricedOn(d))
      BY <1>1 DEF BudgetKept
    <3> QED
      BY <1>1, <2>2, <2>3, <3>4, <3>5, <3>6, <3>7
  <2>5. /\ used' = used
        /\ spent' = [spent EXCEPT ![d] = spent[d] - Charge[k] + Charge'[k]]
        /\ unknown' = [unknown EXCEPT ![d] = IF e = Unknown THEN unknown[d] - 1 ELSE unknown[d]]
    <3>1. CASE e = Unknown
      <4>1. /\ spent' = [spent EXCEPT ![d] = spent[d] + actual]
            /\ unknown' = [unknown EXCEPT ![d] = Positive(unknown[d] - 1)]
            /\ used' = used
        BY <1>d, <1>e, <1>7, <2>3, <3>1 DEF SettleBudget
      <4>2. Positive(unknown[d] - 1) = unknown[d] - 1
        BY <2>4, <3>1 DEF Positive
      <4>3. spent[d] - Charge[k] + Charge'[k] = spent[d] + actual
        BY <2>2, <2>3, <2>4, <3>1 DEF AmountOf
      <4> QED
        BY <3>1, <4>1, <4>2, <4>3
    <3>2. CASE e # Unknown
      <4>1. /\ spent' = [spent EXCEPT ![d] = Positive(spent[d] + actual - e)]
            /\ unknown' = unknown /\ used' = used
        BY <1>d, <1>e, <1>7, <2>3, <3>2 DEF SettleBudget
      <4>2. Positive(spent[d] + actual - e) = spent[d] - Charge[k] + Charge'[k]
        BY <2>2, <2>3, <2>4, <3>2 DEF AmountOf, Positive
      <4>3. unknown = [unknown EXCEPT ![d] = unknown[d]]
        BY <1>1
      <4> QED
        BY <3>2, <4>1, <4>2, <4>3
    <3> QED
      BY <3>1, <3>2
  <2>6. MaxCost[d] # Unlimited => Charge'[k] <= Charge[k]
    <3>1. MaxCost[d] # Unlimited => e # Unknown
      BY <1>d, <1>e DEF IndInv, TaskInv
    <3>2. ~Overruns(e, actual)
      BY <1>e DEF IndInv, TaskInv
    <3> QED
      BY <2>2, <2>3, <3>1, <3>2, <1>7 DEF Overruns, PriceKnown, AmountOf
  <2>7. BudgetKept'
    BY <1>d, <1>e, <1>1, <1>2, <1>3, <2>1, <2>5, <2>6, Recharge
  <2> QED
    BY <1>5, <2>7 DEF BooksInv
<1> QED
  BY <1>6, <1>7

(* An overrun is charged at once, whatever the ceiling.                    *)
LEMMA OverrunBooks ==
  ASSUME IndInv, IndInv', BooksInv, NEW w \in Workers, CostOverrun(w)
  PROVE  BooksInv'
<1>k. PICK k \in Tasks, e \in Price, a \in Price : k = req[w].key /\ e = req[w].est /\ a = answer[w]
  BY DEF CostOverrun, At, IndInv, WorkerInv, TypeOK, Request
<1>1. /\ jobs[k].status # "none" /\ jobs[k].est = e
      /\ costs[k].status = "none" /\ costs[k].llm = Unknown
      /\ Overruns(e, a)
      /\ costs' = [costs EXCEPT ![k] = [status |-> "failed", llm |-> a]]
      /\ jobs' = [jobs EXCEPT ![k].status = "failed", ![k].linked = TRUE]
  BY <1>k DEF CostOverrun, CloseJob, At, IndInv, WorkerInv, Owning, BooksInv, MoneyInv
<1>d. PICK d \in Days : d = jobs[k].day
  BY <1>1 DEF IndInv, TaskInv
<1>2. /\ jobs \in [Tasks -> Job] /\ costs \in [Tasks -> Cost]
      /\ unknown \in [Days -> Nat] /\ spent \in [Days -> Nat]
      /\ TypeOK /\ TypeOK' /\ BudgetKept
  BY DEF IndInv, TypeOK, BooksInv
<1>3. /\ \A t \in Tasks : jobs'[t].day = jobs[t].day /\ jobs'[t].est = jobs[t].est
      /\ \A t \in Tasks \ {k} : jobs'[t] = jobs[t] /\ costs'[t] = costs[t]
      /\ jobs'[k].status = "failed" /\ jobs'[k].reconciled = jobs[k].reconciled
      /\ costs'[k].status = "failed" /\ costs'[k].llm = a
  BY <1>1, <1>2 DEF Job
<1>4. \A t \in Tasks : jobs'[t].status = "none" <=> jobs[t].status = "none"
  BY <1>1, <1>3
<1>5. e \in Nat /\ a \in Nat /\ a > e
  BY <1>1 DEF Overruns, Price
<1>6. /\ \A t \in Tasks \ {k} : (Settled(t)' <=> Settled(t)) /\ (Overran(t)' <=> Overran(t))
      /\ ~Settled(k) /\ Settled(k)' /\ ~Overran(k) /\ Overran(k)'
  BY <1>1, <1>3, <1>5 DEF Settled, Overran
<1>7. Charge[k] = e /\ Charge'[k] = a
  BY <1>1, <1>3, <1>5, <1>6 DEF Charge, AmountOf
<1>8. /\ spent' = [spent EXCEPT ![d] = spent[d] - Charge[k] + Charge'[k]]
      /\ used' = used
      /\ unknown' = [unknown EXCEPT ![d] = IF jobs[k].est = Unknown THEN unknown[d] - 1 ELSE unknown[d]]
  <2>1. /\ spent' = [spent EXCEPT ![d] = spent[d] + a - e]
        /\ used' = used /\ unknown' = unknown
    BY <1>k, <1>d DEF CostOverrun
  <2>2. spent[d] + a - e = spent[d] - Charge[k] + Charge'[k]
    BY <1>2, <1>5, <1>7
  <2>3. unknown = [unknown EXCEPT ![d] = unknown[d]]
    BY <1>2
  <2> QED
    BY <1>1, <1>5, <2>1, <2>2, <2>3
<1>9. BudgetKept'
  BY <1>d, <1>1, <1>2, <1>3, <1>4, <1>6, <1>8, Recharge
<1>10. \A t \in Tasks : MoneyInv(t)'
  <2>1. ~jobs[k].reconciled
    BY <1>1 DEF BooksInv, MoneyInv
  <2> QED
    BY <1>3, <1>6, <2>1 DEF BooksInv, MoneyInv
<1> QED
  BY <1>9, <1>10 DEF BooksInv

(* A cost recorded before it is settled leaves the charges as they are.    *)
LEMMA RecordBooks ==
  ASSUME IndInv, IndInv', BooksInv, NEW w \in Workers, Ingest(w) \/ FailCost(w)
  PROVE  BooksInv'
<1>k. PICK k \in Tasks, a \in Price : k = req[w].key /\ a = answer[w]
  BY DEF Ingest, FailCost, At, IndInv, WorkerInv, TypeOK
<1>1. /\ costs \in [Tasks -> Cost] /\ TypeOK /\ TypeOK' /\ BudgetKept
      /\ UNCHANGED <<jobs, budget>>
      /\ costs[k].status = "none"
      /\ costs' = [costs EXCEPT ![k] = [status |-> "completed", llm |-> a]]
         \/ costs' = [costs EXCEPT ![k] = [status |-> "failed", llm |-> Unknown]]
  BY <1>k DEF Ingest, FailCost, IndInv, TypeOK, BooksInv, WorkerInv, At
<1>2. /\ \A t \in Tasks \ {k} : costs'[t] = costs[t]
      /\ costs'[k].status = "completed" \/ (costs'[k].status = "failed" /\ costs'[k].llm = Unknown)
  BY <1>1
<1>3. ~jobs[k].reconciled /\ jobs[k].status # "failed"
  BY <1>1 DEF BooksInv, MoneyInv, IndInv, ClosedAsRecorded, Terminal
<1>4. /\ \A t \in Tasks \ {k} : (Settled(t)' <=> Settled(t)) /\ (Overran(t)' <=> Overran(t))
      /\ ~Settled(k) /\ ~Settled(k)' /\ ~Overran(k) /\ ~Overran(k)'
  BY <1>1, <1>2, <1>3 DEF Settled, Overran, budget
<1>5. BudgetKept'
  <2>1. \A t \in Tasks : (Settled(t)' <=> Settled(t)) /\ (Overran(t)' <=> Overran(t))
                        /\ (Settled(t) => costs'[t].llm = costs[t].llm)
    BY <1>2, <1>4
  <2> QED
    BY <1>1, <2>1, SameBooks
<1>6. \A t \in Tasks : MoneyInv(t)'
  BY <1>1, <1>2, <1>3, <1>4 DEF BooksInv, MoneyInv
<1> QED
  BY <1>5, <1>6 DEF BooksInv

(* Closing a job settles nothing: a failed job's cost is unknown, unless   *)
(* it overran and was closed with it.                                      *)
LEMMA CloseBooks ==
  ASSUME IndInv, IndInv', BooksInv, NEW w \in Workers,
         ReconJob(w) \/ Complete(w) \/ FailJob(w)
  PROVE  BooksInv'
<1>k. PICK k \in Tasks : k = req[w].key
  BY DEF ReconJob, Complete, FailJob, At, IndInv, WorkerInv
<1>1. /\ jobs \in [Tasks -> Job] /\ TypeOK /\ TypeOK' /\ BudgetKept
      /\ UNCHANGED <<costs, budget>>
      /\ jobs[k].status # "none"
  BY <1>k DEF ReconJob, Complete, FailJob, IndInv, TypeOK, BooksInv, WorkerInv, At,
              Owning, Recovering
<1>2. PICK status \in Terminal :
        /\ jobs' = [jobs EXCEPT ![k].status = status, ![k].linked = TRUE]
        /\ status = costs[k].status
  <2>1. CASE ReconJob(w)
    <3>1. costs[k].status \in Terminal
      BY <1>k, <2>1 DEF ReconJob, At, IndInv, WorkerInv, TypeOK, Cost, Terminal
    <3> QED
      BY <1>k, <2>1, <3>1 DEF ReconJob, CloseJob
  <2>2. CASE Complete(w)
    BY <1>k, <2>2 DEF Complete, CloseJob, At, IndInv, WorkerInv, Terminal
  <2>3. CASE FailJob(w)
    BY <1>k, <2>3 DEF FailJob, CloseJob, At, IndInv, WorkerInv, Terminal
  <2> QED
    BY <2>1, <2>2, <2>3
<1>3. /\ \A t \in Tasks : /\ jobs'[t].day = jobs[t].day /\ jobs'[t].est = jobs[t].est
                         /\ jobs'[t].reconciled = jobs[t].reconciled
      /\ \A t \in Tasks \ {k} : jobs'[t] = jobs[t]
      /\ jobs'[k].status = status
  BY <1>1, <1>2 DEF Job
<1>4. \A t \in Tasks : jobs'[t].status = "none" <=> jobs[t].status = "none"
  BY <1>1, <1>2, <1>3 DEF Terminal
<1>5. \A t \in Tasks : Overran(t)' <=> Overran(t)
  BY <1>1 DEF Overran
<1>6. Settled(k)' <=> Settled(k)
  <2>1. CASE status = "failed" /\ costs[k].llm # Unknown
    <3>1. jobs[k].status = "failed"
      BY <1>2, <2>1 DEF BooksInv, MoneyInv, Overran
    <3> QED
      BY <1>1, <1>3, <2>1, <3>1 DEF Settled
  <2>2. CASE status = "failed" /\ costs[k].llm = Unknown
    BY <1>1, <2>2 DEF Settled
  <2>3. CASE status # "failed"
    <3>1. jobs[k].status # "failed"
      BY <1>2, <2>3 DEF IndInv, ClosedAsRecorded, Terminal
    <3> QED
      BY <1>1, <1>3, <2>3, <3>1 DEF Settled
  <2> QED
    BY <2>1, <2>2, <2>3
<1>7. BudgetKept'
  <2>1. \A t \in Tasks : Settled(t)' <=> Settled(t)
    BY <1>1, <1>3, <1>6 DEF Settled
  <2> QED
    BY <1>1, <1>3, <1>4, <1>5, <2>1, SameBooks
<1>8. \A t \in Tasks : MoneyInv(t)'
  <2>1. Overran(k) => jobs'[k].status = "failed"
    BY <1>2, <1>3 DEF Overran
  <2> QED
    BY <1>1, <1>3, <1>5, <2>1 DEF BooksInv, MoneyInv
<1> QED
  BY <1>7, <1>8 DEF BooksInv

LEMMA NextBooks == IndInv /\ BooksInv /\ [Next]_vars => BooksInv'
<1> SUFFICES ASSUME IndInv, BooksInv, [Next]_vars PROVE BooksInv'
  OBVIOUS
<1>1. IndInv'
  BY NextInv
<1>2. CASE UNCHANGED <<jobs, costs, budget>>
  <2>1. \A t \in Tasks : (Settled(t)' <=> Settled(t)) /\ (Overran(t)' <=> Overran(t))
    BY <1>2 DEF Settled, Overran
  <2>2. BudgetKept'
    BY <1>1, <1>2, <2>1, SameBooks DEF BooksInv, IndInv
  <2>3. \A t \in Tasks : MoneyInv(t)'
    BY <1>2, <2>1 DEF BooksInv, MoneyInv
  <2> QED
    BY <2>2, <2>3 DEF BooksInv
<1>3. ASSUME NEW w \in Workers, Proceed(w)
      PROVE  BooksInv'
  <2>1. CASE \E d \in Days : ReserveAndCreate(w, d)
    BY <1>1, <2>1, ReserveBooks
  <2>2. CASE Ingest(w) \/ FailCost(w)
    BY <1>1, <2>2, RecordBooks
  <2>3. CASE ReconJob(w) \/ Complete(w) \/ FailJob(w)
    BY <1>1, <2>3, CloseBooks
  <2>4. CASE CostOverrun(w)
    BY <1>1, <2>4, OverrunBooks
  <2>5. CASE ReconBudget(w) \/ Settle(w)
    <3>1. PICK k \in Tasks, a \in Price :
            /\ jobs[k].status # "none" /\ costs[k].status = "completed" /\ costs[k].llm = a
            /\ SettleBudget(k, jobs[k].est, a) /\ costs' = costs
      BY <2>5 DEF ReconBudget, Settle, At, IndInv, WorkerInv, TypeOK, Cost, Owning, Recovering
    <3> QED
      BY <1>1, <3>1, SettleBooks
  <2>6. CASE \/ Load(w) \/ Recon(w) \/ Preflight(w) \/ Call(w) \/ StoreFails(w) \/ Check(w)
             \/ \E d \in Days : RefuseReservation(w, d)
    BY <1>2, <2>6 DEF Load, Recon, Preflight, Call, StoreFails, Check, RefuseReservation
  <2> QED
    BY <1>3, <2>1, <2>2, <2>3, <2>4, <2>5, <2>6 DEF Proceed
<1>4. CASE \E w \in Workers : Start(w) \/ Abort(w) \/ LoseLock(w)
  BY <1>2, <1>4 DEF Start, Abort, LoseLock
<1>5. CASE \E k \in Tasks : Promote(k)
  BY <1>2, <1>5 DEF Promote
<1>6. CASE UNCHANGED vars
  BY <1>2, <1>6 DEF vars, budget
<1> QED
  BY <1>3, <1>4, <1>5, <1>6 DEF Next

(* Every budget row is exactly what its jobs stand for: the request count, *)
(* the spent cost and the unknown prices, for any number of workers, tasks *)
(* and days, whatever crashes, replays or concurrent reconciliations.      *)
THEOREM BudgetIsKept == Spec => []BudgetKept
<1>1. BooksInv => BudgetKept
  BY DEF BooksInv
<1> QED
  BY <1>1, InitBooks, NextBooks, Invariance, PTL DEF Spec
=============================================================================
