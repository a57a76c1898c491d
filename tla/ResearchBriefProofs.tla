------------------------ MODULE ResearchBriefProofs ------------------------
(***************************************************************************)
(* Proofs about ResearchBrief, for every number of briefs, workers and     *)
(* user actions. None of them needs the advisory lock: a run is of the     *)
(* worker that claimed it, and a claim takes the due time away from the    *)
(* brief in the transaction that makes the run.                            *)
(*                                                                         *)
(* IndInv says what a worker finds at each of its steps; AccountInv and    *)
(* EpochInv say what the history of a brief adds up to, and SumInv what    *)
(* the daily budgets do.                                                   *)
(***************************************************************************)
EXTENDS ResearchBrief, SetLemmas, SequenceTheorems

(* The steps of a worker that has a run, and those before it is reported.  *)
Unreported == {"live", "open", "work", "guarded", "calling", "report"}
Claimed == Unreported \cup {"fail"}

HasRun(w) == pc[w] \in Claimed

WorkerInv(w) ==
  /\ pc[w] = "claim" => at[w].brief \in Briefs
  /\ HasRun(w) => at[w].run \in 1 .. Len(runs)
  /\ pc[w] \in Unreported => Mine(w).status = "running"
  /\ pc[w] = "report" => Mine(w).pipeline = "success"
  /\ pc[w] = "calling" => Mine(w).called < Mine(w).booked
  /\ pc[w] \in {"guarded", "calling"} => InScope(Owner(w))

(* A run is of one worker.                                                 *)
Apart == \A v, w \in Workers : HasRun(v) /\ HasRun(w) /\ at[v].run = at[w].run => v = w

RunInv(i) ==
  /\ runs[i].called <= runs[i].booked /\ runs[i].booked <= MaxCalls
  /\ runs[i].status = "success" => runs[i].pipeline = "success"

IndInv ==
  /\ TypeOK
  /\ today \in 0 .. MaxDay
  /\ \A w \in Workers : WorkerInv(w)
  /\ Apart
  /\ \A i \in 1 .. Len(runs) : RunInv(i)

(* Where each due time of a brief went, and which actions were applied.    *)
AccountInv(b) ==
  /\ granted[b] = Cardinality(RunsOf(b)) + cancelled[b]
                    + (IF brief[b].status = "active" THEN 1 ELSE 0)
  /\ activations[b] = Applied("activate", b)
  /\ brief[b].version = Applied("update", b) + Applied("create", b)
                         + (IF b \in Existing THEN 1 ELSE 0)
  /\ brief[b].status = "absent" => brief[b].version = 0

(* A run is of an activation that was made; one of the activation that     *)
(* lasts is of the brief as it is, and was due a cadence before.           *)
EpochInv(i) ==
  LET r == runs[i]
      b == brief[r.brief]
  IN
  /\ r.epoch <= activations[r.brief]
  /\ r.epoch = activations[r.brief] /\ b.status = "active" =>
       /\ r.version = b.version /\ r.cadence = b.cadence /\ r.cadence > 0
       /\ r.claimed + r.cadence <= b.due

Spaced ==
  \A i, j \in 1 .. Len(runs) :
    i < j /\ runs[i].brief = runs[j].brief /\ runs[i].epoch = runs[j].epoch =>
      /\ runs[i].version = runs[j].version
      /\ runs[i].cadence > 0
      /\ runs[j].claimed >= runs[i].claimed + runs[i].cadence

EpochsInv == Spaced /\ \A i \in 1 .. Len(runs) : EpochInv(i)
AccountsInv == \A b \in Briefs : AccountInv(b)
SumInv == SumFunctionOnSet(used, 0 .. MaxDay) = SumFunctionOnSet(Booked, 1 .. Len(runs))

-----------------------------------------------------------------------------
(* The workers and their runs.                                             *)

(* The briefs and their history; the workers, their runs and the budgets.  *)
BriefTypes ==
  /\ now \in Nat
  /\ brief \in [Briefs -> Brief]
  /\ log \in [Keys -> [action : Actions \cup {"none"}, brief : Briefs \cup {NoBrief}]]
  /\ activations \in [Briefs -> Nat] /\ granted \in [Briefs -> Nat]
  /\ cancelled \in [Briefs -> Nat]
  /\ \A b \in Briefs : brief[b].status = "active" => brief[b].due # Never

FlowTypes ==
  /\ runs \in Seq(Run)
  /\ projectOn \in BOOLEAN /\ subjects \subseteq Project
  /\ queue \subseteq Briefs
  /\ lock \in Workers \cup {NoWorker, OtherJob}
  /\ pc \in [Workers -> Steps]
  /\ at \in [Workers -> [brief : Briefs \cup {NoBrief}, run : 0 .. Len(runs)]]
  /\ today \in 0 .. MaxDay /\ configured \subseteq 0 .. MaxDay
  /\ used \in [0 .. MaxDay -> Nat]

WorkersInv ==
  /\ \A w \in Workers : WorkerInv(w)
  /\ Apart
  /\ \A i \in 1 .. Len(runs) : RunInv(i)

LEMMA Parts == IndInv <=> BriefTypes /\ FlowTypes /\ WorkersInv
<1>1. MaxDay \in Nat
  BY BoundAssumption
<1>2. IndInv => BriefTypes /\ FlowTypes /\ WorkersInv
  BY DEF IndInv, BriefTypes, FlowTypes, WorkersInv, TypeOK
<1>3. BriefTypes /\ FlowTypes /\ WorkersInv => TypeOK
  BY <1>1 DEF BriefTypes, FlowTypes, TypeOK
<1>4. BriefTypes /\ FlowTypes /\ WorkersInv => IndInv
  BY <1>3 DEF IndInv, FlowTypes, WorkersInv
<1> QED
  BY <1>2, <1>4

LEMMA Initially == Init => IndInv /\ AccountsInv /\ EpochsInv /\ SumInv
<1> SUFFICES ASSUME Init PROVE IndInv /\ AccountsInv /\ EpochsInv /\ SumInv
  OBVIOUS
<1> USE BriefAssumption, WorkerAssumption, BoundAssumption
<1>1. \A b \in Briefs : brief[b] \in Brief /\ brief[b].due \in {0, 1}
                        /\ (brief[b].status = "active" => b \in Existing /\ brief[b].due = 1)
                        /\ (b \in Existing => brief[b].status = "active" /\ brief[b].version = 1)
                        /\ (b \notin Existing => brief[b].status = "absent" /\ brief[b].version = 0)
  BY DEF Init, Brief, ActiveAtStart, Absent, Never
<1>2. \A k \in Keys : log[k].action = "none" /\ log[k].brief = NoBrief
  BY DEF Init, NoAction
<1>3. BriefTypes
  <2>1. brief \in [Briefs -> Brief]
    BY <1>1 DEF Init
  <2> QED
    BY <2>1, <1>1 DEF Init, BriefTypes, NoAction, Never
<1>4. runs \in Seq(Run) /\ Len(runs) = 0
  BY DEF Init
<1>5. FlowTypes
  <2>1. at \in [Workers -> [brief : Briefs \cup {NoBrief}, run : 0 .. Len(runs)]]
    BY <1>4 DEF Init
  <2>2. pc \in [Workers -> Steps] /\ used \in [0 .. MaxDay -> Nat]
    BY DEF Init, Steps
  <2>3. today \in 0 .. MaxDay /\ configured \subseteq 0 .. MaxDay
    BY DEF Init
  <2> QED
    BY <1>4, <2>1, <2>2, <2>3 DEF Init, FlowTypes
<1>6. WorkersInv
  <2>1. \A w \in Workers : pc[w] = "idle"
    BY DEF Init
  <2> QED
    BY <2>1, <1>4 DEF WorkersInv, WorkerInv, Apart, HasRun, Claimed, Unreported
<1>7. AccountsInv
  <2> SUFFICES ASSUME NEW b \in Briefs PROVE AccountInv(b)
    BY DEF AccountsInv
  <2>1. RunsOf(b) = {}
    BY <1>4 DEF RunsOf
  <2>2. \A a \in Actions : Applied(a, b) = 0
    <3> SUFFICES ASSUME NEW a \in Actions PROVE Applied(a, b) = 0
      OBVIOUS
    <3>1. {k \in Keys : log[k] = [action |-> a, brief |-> b]} = {}
      BY <1>2 DEF Actions
    <3> QED
      BY <3>1, FS_EmptySet DEF Applied
  <2>3. Cardinality(RunsOf(b)) = 0
    BY <2>1, FS_EmptySet
  <2>4. activations[b] = 0 /\ granted[b] = (IF b \in Existing THEN 1 ELSE 0) /\ cancelled[b] = 0
    BY DEF Init
  <2>5. Applied("create", b) = 0 /\ Applied("update", b) = 0 /\ Applied("activate", b) = 0
    BY <2>2 DEF Actions
  <2> QED
    BY <1>1, <2>3, <2>4, <2>5 DEF AccountInv
<1>8. EpochsInv
  BY <1>4 DEF EpochsInv, Spaced
<1>9. SumInv
  <2>1. 1 .. Len(runs) = {} /\ IsFiniteSet(0 .. MaxDay)
    BY <1>4, FS_Interval
  <2>2. SumFunctionOnSet(Booked, 1 .. Len(runs)) = 0
    BY <2>1, SumOfNone
  <2>3. \A x \in 0 .. MaxDay : used[x] \in {0}
    BY DEF Init
  <2>4. SumFunctionOnSet(used, 0 .. MaxDay) = 0
    BY <2>1, <2>3, SumZero
  <2> QED
    BY <2>2, <2>4 DEF SumInv
<1> QED
  BY <1>3, <1>5, <1>6, <1>7, <1>8, <1>9, Parts

-----------------------------------------------------------------------------
(* A step of one worker, which may write its own run.                      *)

RunOk(r) ==
  /\ r.called <= r.booked /\ r.booked <= MaxCalls
  /\ r.status = "success" => r.pipeline = "success"

SameScope == UNCHANGED <<projectOn, subjects>>
OthersStay(w) == \A v \in Workers : v # w => pc'[v] = pc[v] /\ at'[v] = at[v]

(* Run i becomes r, the others stay.                                       *)
Written(i, r) ==
  /\ runs' \in Seq(Run) /\ Len(runs') = Len(runs)
  /\ runs'[i] = r
  /\ \A j \in 1 .. Len(runs) : j # i => runs'[j] = runs[j]

LEMMA RunWrite ==
  ASSUME runs \in Seq(Run), NEW i \in 1 .. Len(runs), NEW r \in Run,
         runs' = [runs EXCEPT ![i] = r]
  PROVE  Written(i, r)
  BY ExceptSeq DEF Written

LEMMA RunKept ==
  ASSUME runs \in Seq(Run), NEW i \in 1 .. Len(runs), runs' = runs
  PROVE  Written(i, runs[i])
  BY DEF Written

(* A worker that has no run afterwards: it leaves, or has yet to claim.    *)
LEMMA FreeStep ==
  ASSUME WorkersInv, runs' = runs, SameScope,
         NEW w \in Workers, OthersStay(w),
         pc'[w] \in {"idle", "claim"},
         pc'[w] = "claim" => at'[w].brief \in Briefs
  PROVE  WorkersInv'
<1>1. SameScope /\ runs' = runs => \A b \in Briefs : InScope(b)' <=> InScope(b)
  BY DEF SameScope, InScope
<1>2. \A v \in Workers : v # w => (WorkerInv(v) => WorkerInv(v)') /\ (HasRun(v)' <=> HasRun(v))
  BY DEF OthersStay, WorkerInv, HasRun, Mine, Owner, SameScope, InScope
<1>3. WorkerInv(w)' /\ ~HasRun(w)'
  BY DEF WorkerInv, HasRun, Claimed, Unreported
<1>4. Apart'
  BY <1>2, <1>3 DEF WorkersInv, Apart, OthersStay
<1>5. \A i \in 1 .. Len(runs') : RunInv(i)'
  BY DEF WorkersInv, RunInv
<1> QED
  BY <1>2, <1>3, <1>4, <1>5 DEF WorkersInv

(* A worker that has run i and leaves it as r.                             *)
LEMMA RunStep ==
  ASSUME WorkersInv, SameScope, NEW w \in Workers, OthersStay(w),
         HasRun(w), NEW i \in 1 .. Len(runs), i = at[w].run,
         NEW r, RunOk(r), r.brief = runs[i].brief, Written(i, r),
         NEW s, pc'[w] = s,
         s = "idle" \/ (s \in Claimed /\ at'[w] = at[w]),
         s \in Unreported => r.status = "running",
         s = "report" => r.pipeline = "success",
         s = "calling" => r.called < r.booked,
         s \in {"guarded", "calling"} => InScope(r.brief)
  PROVE  WorkersInv'
<1>1. \A v \in Workers : v # w /\ HasRun(v) => at[v].run # i /\ at[v].run \in 1 .. Len(runs)
  BY DEF WorkersInv, Apart, WorkerInv
<1>2. \A v \in Workers : v # w => (HasRun(v)' <=> HasRun(v)) /\ at'[v] = at[v] /\ pc'[v] = pc[v]
  BY DEF OthersStay, HasRun
<1>3. ASSUME NEW v \in Workers, v # w
      PROVE  WorkerInv(v)'
  <2>1. WorkerInv(v)
    BY DEF WorkersInv
  <2>2. CASE HasRun(v)
    <3>1. runs'[at[v].run] = runs[at[v].run]
      BY <1>1, <1>3, <2>2 DEF Written
    <3>2. Mine(v)' = Mine(v) /\ Owner(v)' = Owner(v)
      BY <3>1, <1>2, <1>3 DEF Mine, Owner
    <3>3. InScope(Owner(v))' <=> InScope(Owner(v))
      BY <3>2 DEF InScope, SameScope
    <3> QED
      BY <1>2, <1>3, <2>1, <2>2, <3>2, <3>3 DEF WorkerInv, Written
  <2>3. CASE ~HasRun(v)
    BY <1>2, <1>3, <2>1, <2>3 DEF WorkerInv, HasRun, Claimed, Unreported
  <2> QED
    BY <2>2, <2>3
<1>4. WorkerInv(w)'
  <2>1. CASE s = "idle"
    BY <2>1 DEF WorkerInv, HasRun, Claimed, Unreported
  <2>2. CASE s \in Claimed
    <3>1. s # "idle" /\ s # "claim"
      BY <2>2 DEF Claimed, Unreported
    <3>2. at'[w].run = i
      BY <3>1
    <3>3. Mine(w)' = r /\ Owner(w)' = r.brief
      BY <3>2 DEF Mine, Owner, Written
    <3>4. InScope(Owner(w))' <=> InScope(r.brief)
      BY <3>3 DEF InScope, SameScope
    <3> QED
      BY <3>1, <3>2, <3>3, <3>4 DEF WorkerInv, Written
  <2> QED
    BY <2>1, <2>2
<1>5. Apart'
  <2>1. HasRun(w)' => at'[w].run = i
    BY DEF HasRun, Claimed, Unreported
  <2> QED
    BY <2>1, <1>1, <1>2 DEF WorkersInv, Apart
<1>6. \A j \in 1 .. Len(runs') : RunInv(j)'
  <2> SUFFICES ASSUME NEW j \in 1 .. Len(runs') PROVE RunInv(j)'
    OBVIOUS
  <2>1. j \in 1 .. Len(runs) /\ RunInv(j)
    BY DEF Written, WorkersInv
  <2>2. CASE j = i
    BY <2>2 DEF Written, RunInv, RunOk
  <2>3. CASE j # i
    BY <2>1, <2>3 DEF Written, RunInv
  <2> QED
    BY <2>2, <2>3
<1> QED
  BY <1>3, <1>4, <1>5, <1>6 DEF WorkersInv

-----------------------------------------------------------------------------
(* Each action keeps the types of the flow and the workers' invariant.     *)

FlowInv == FlowTypes /\ WorkersInv
BudgetTypes ==
  /\ today \in 0 .. MaxDay /\ configured \subseteq 0 .. MaxDay
  /\ used \in [0 .. MaxDay -> Nat]

LEMMA GotoStays ==
  ASSUME FlowTypes, NEW w \in Workers, NEW s \in Steps, Goto(w, s), at' = at
  PROVE  /\ pc' \in [Workers -> Steps] /\ pc'[w] = s
         /\ OthersStay(w) /\ at'[w] = at[w]
  BY DEF FlowTypes, Goto, OthersStay

LEMMA LeaveLeaves ==
  ASSUME FlowTypes, NEW w \in Workers, Leave(w)
  PROVE  /\ pc' \in [Workers -> Steps] /\ pc'[w] = "idle"
         /\ at' \in [Workers -> [brief : Briefs \cup {NoBrief}, run : 0 .. Len(runs)]]
         /\ lock' \in Workers \cup {NoWorker, OtherJob}
         /\ OthersStay(w)
<1>1. 0 \in 0 .. Len(runs)
  BY DEF FlowTypes
<1>2. [brief |-> NoBrief, run |-> 0] \in [brief : Briefs \cup {NoBrief}, run : 0 .. Len(runs)]
  BY <1>1
<1> QED
  BY <1>2 DEF FlowTypes, Leave, Goto, OthersStay, Steps

(* A step of run_live or of a report: worker w goes on with its run.       *)
LEMMA LiveStep ==
  ASSUME FlowInv, NEW w \in Workers, HasRun(w),
         NEW i \in 1 .. Len(runs), i = at[w].run,
         NEW r \in Run, RunOk(r), r.brief = runs[i].brief, Written(i, r),
         NEW s \in Claimed, Goto(w, s), at' = at, lock' = lock, queue' = queue, SameScope,
         BudgetTypes',
         s \in Unreported => r.status = "running",
         s = "report" => r.pipeline = "success",
         s = "calling" => r.called < r.booked,
         s \in {"guarded", "calling"} => InScope(r.brief)
  PROVE  FlowInv'
<1>1. s \in Steps
  BY DEF Claimed, Unreported, Steps
<1>2. pc' \in [Workers -> Steps] /\ pc'[w] = s /\ OthersStay(w) /\ at'[w] = at[w]
  BY <1>1, GotoStays DEF FlowInv
<1>3. WorkersInv'
  BY <1>2, RunStep DEF FlowInv
<1>4. FlowTypes'
  BY <1>2 DEF FlowInv, FlowTypes, BudgetTypes, SameScope, Written
<1> QED
  BY <1>3, <1>4 DEF FlowInv

(* A worker that has a run leaves it.                                      *)
LEMMA LastStep ==
  ASSUME FlowInv, NEW w \in Workers, HasRun(w),
         NEW i \in 1 .. Len(runs), i = at[w].run,
         NEW r \in Run, RunOk(r), r.brief = runs[i].brief, Written(i, r),
         Leave(w), queue' = queue, SameScope, UNCHANGED budget
  PROVE  FlowInv'
<1>1. /\ pc' \in [Workers -> Steps] /\ pc'[w] = "idle"
      /\ at' \in [Workers -> [brief : Briefs \cup {NoBrief}, run : 0 .. Len(runs)]]
      /\ lock' \in Workers \cup {NoWorker, OtherJob}
      /\ OthersStay(w)
  BY LeaveLeaves DEF FlowInv
<1>2. WorkersInv'
  BY <1>1, RunStep DEF FlowInv, Unreported
<1>3. FlowTypes'
  BY <1>1 DEF FlowInv, FlowTypes, budget, SameScope, Written
<1> QED
  BY <1>2, <1>3 DEF FlowInv

(* What a worker that has a run knows of it.                               *)
LEMMA OwnRun ==
  ASSUME FlowInv, NEW w \in Workers, HasRun(w)
  PROVE  \E i \in 1 .. Len(runs) :
           /\ i = at[w].run
           /\ runs[i] \in Run /\ RunOk(runs[i]) /\ Mine(w) = runs[i]
           /\ runs \in Seq(Run)
           /\ pc[w] \in Unreported => runs[i].status = "running"
           /\ pc[w] = "report" => runs[i].pipeline = "success"
           /\ pc[w] = "calling" => runs[i].called < runs[i].booked
           /\ pc[w] \in {"guarded", "calling"} => InScope(runs[i].brief)
<1> DEFINE i == at[w].run
<1>1. WorkerInv(w) /\ i \in 1 .. Len(runs)
  BY DEF FlowInv, WorkersInv, WorkerInv
<1>2. runs[i] \in Run /\ RunInv(i) /\ runs \in Seq(Run)
  BY <1>1, ElementOfSeq DEF FlowInv, FlowTypes, WorkersInv
<1> QED
  BY <1>1, <1>2 DEF WorkerInv, RunInv, RunOk, Mine, Owner

(* An edit of the run is a record of the same brief.                       *)
LEMMA SetPipelineWrites ==
  ASSUME FlowTypes, NEW i \in 1 .. Len(runs), NEW s \in {"none", "running", "success", "failed"},
         runs[i] \in Run, runs' = [runs EXCEPT ![i].pipeline = s]
  PROVE  LET r == [runs[i] EXCEPT !.pipeline = s] IN r \in Run /\ Written(i, r)
<1> DEFINE r == [runs[i] EXCEPT !.pipeline = s]
<1>1. r \in Run
  BY DEF Run
<1>2. runs' = [runs EXCEPT ![i] = r]
  OBVIOUS
<1> QED
  BY <1>1, <1>2, RunWrite DEF FlowTypes

LEMMA CloseRunWrites ==
  ASSUME FlowTypes, NEW i \in 1 .. Len(runs), NEW s \in {"running", "success", "failed"},
         runs[i] \in Run, CloseRun(i, s)
  PROVE  LET r == [runs[i] EXCEPT !.status = IF @ = "running" THEN s ELSE @]
         IN r \in Run /\ Written(i, r)
<1> DEFINE r == [runs[i] EXCEPT !.status = IF @ = "running" THEN s ELSE @]
<1>1. r \in Run
  BY DEF Run
<1>2. runs' = [runs EXCEPT ![i] = r]
  BY DEF CloseRun
<1> QED
  BY <1>1, <1>2, RunWrite DEF FlowTypes

LEMMA RunEdit ==
  ASSUME NEW q \in Run, NEW n \in Nat, NEW s \in {"running", "failed"}
  PROVE  /\ [q EXCEPT !.booked = n] \in Run
         /\ [q EXCEPT !.called = n] \in Run
         /\ [q EXCEPT !.called = n, !.pipeline = s] \in Run
<1>1. [q EXCEPT !.booked = n] \in Run /\ [q EXCEPT !.called = n] \in Run
  BY DEF Run
<1>2. PICK p \in Run : p = [q EXCEPT !.called = n]
  BY <1>1
<1>3. [p EXCEPT !.pipeline = s] \in Run
  BY DEF Run
<1>4. [q EXCEPT !.called = n, !.pipeline = s] = [p EXCEPT !.pipeline = s]
  BY <1>2
<1> QED
  BY <1>1, <1>3, <1>4

LEMMA OpenRunStays ==
  ASSUME FlowInv, NEW w \in Workers, OpenRun(w)
  PROVE  FlowInv'
<1>1. HasRun(w) /\ pc[w] \in Unreported
  BY DEF OpenRun, HasRun, Claimed, Unreported
<1>2. PICK i \in 1 .. Len(runs) :
        /\ i = at[w].run /\ runs[i] \in Run /\ RunOk(runs[i]) /\ runs[i].status = "running"
  BY <1>1, OwnRun
<1> DEFINE r == [runs[i] EXCEPT !.pipeline = "running"]
<1>3. runs' = [runs EXCEPT ![i].pipeline = "running"]
  BY <1>2 DEF OpenRun, SetPipeline
<1>4. r \in Run /\ Written(i, r)
  BY <1>2, <1>3, SetPipelineWrites DEF FlowInv
<1>5. RunOk(r) /\ r.brief = runs[i].brief /\ r.status = "running"
  BY <1>2 DEF RunOk, Run
<1>6. Goto(w, "work") /\ at' = at /\ lock' = lock /\ queue' = queue /\ SameScope /\ BudgetTypes'
  BY DEF OpenRun, Quiet, SameScope, scope, budget, BudgetTypes, FlowInv, FlowTypes
<1> HIDE DEF r
<1> QED
  BY <1>1, <1>2, <1>4, <1>5, <1>6, LiveStep DEF Claimed, Unreported

LEMMA FinalizeStays ==
  ASSUME FlowInv, NEW w \in Workers, Finalize(w)
  PROVE  FlowInv'
<1>1. HasRun(w) /\ pc[w] \in Unreported
  BY DEF Finalize, HasRun, Claimed, Unreported
<1>2. PICK i \in 1 .. Len(runs) :
        /\ i = at[w].run /\ runs[i] \in Run /\ RunOk(runs[i]) /\ runs[i].status = "running"
  BY <1>1, OwnRun
<1> DEFINE r == [runs[i] EXCEPT !.pipeline = "success"]
<1>3. runs' = [runs EXCEPT ![i].pipeline = "success"]
  BY <1>2 DEF Finalize, SetPipeline
<1>4. r \in Run /\ Written(i, r)
  BY <1>2, <1>3, SetPipelineWrites DEF FlowInv
<1>5. RunOk(r) /\ r.brief = runs[i].brief /\ r.status = "running" /\ r.pipeline = "success"
  BY <1>2 DEF RunOk, Run
<1>6. Goto(w, "report") /\ at' = at /\ lock' = lock /\ queue' = queue /\ SameScope /\ BudgetTypes'
  BY DEF Finalize, Quiet, SameScope, scope, budget, BudgetTypes, FlowInv, FlowTypes
<1> HIDE DEF r
<1> QED
  BY <1>1, <1>2, <1>4, <1>5, <1>6, LiveStep DEF Claimed, Unreported

LEMMA GoLiveStays ==
  ASSUME FlowInv, NEW w \in Workers, GoLive(w)
  PROVE  FlowInv'
<1>1. HasRun(w) /\ pc[w] \in Unreported
  BY DEF GoLive, HasRun, Claimed, Unreported
<1>2. PICK i \in 1 .. Len(runs) :
        /\ i = at[w].run /\ runs[i] \in Run /\ RunOk(runs[i]) /\ runs[i].status = "running"
  BY <1>1, OwnRun
<1>3. Written(i, runs[i])
  BY RunKept DEF GoLive, FlowInv, FlowTypes
<1>4. Goto(w, "open") /\ at' = at /\ lock' = lock /\ queue' = queue /\ SameScope /\ BudgetTypes'
  BY DEF GoLive, Quiet, SameScope, scope, BudgetTypes, FlowInv, FlowTypes
<1> QED
  BY <1>1, <1>2, <1>3, <1>4, LiveStep DEF Claimed, Unreported

LEMMA EnterGuardStays ==
  ASSUME FlowInv, NEW w \in Workers, EnterGuard(w)
  PROVE  FlowInv'
<1>1. HasRun(w) /\ pc[w] \in Unreported
  BY DEF EnterGuard, HasRun, Claimed, Unreported
<1>2. PICK i \in 1 .. Len(runs) :
        /\ i = at[w].run /\ runs[i] \in Run /\ RunOk(runs[i]) /\ Mine(w) = runs[i]
        /\ runs[i].status = "running"
  BY <1>1, OwnRun
<1>3. Written(i, runs[i]) /\ InScope(runs[i].brief)
  BY <1>2, RunKept DEF EnterGuard, FlowInv, FlowTypes, Owner
<1>4. Goto(w, "guarded") /\ at' = at /\ lock' = lock /\ queue' = queue /\ SameScope /\ BudgetTypes'
  BY DEF EnterGuard, Quiet, SameScope, scope, budget, BudgetTypes, FlowInv, FlowTypes
<1> QED
  BY <1>1, <1>2, <1>3, <1>4, LiveStep DEF Claimed, Unreported

LEMMA ReserveStays ==
  ASSUME FlowInv, NEW w \in Workers, Reserve(w)
  PROVE  FlowInv'
<1> USE BoundAssumption
<1>1. HasRun(w) /\ pc[w] \in Unreported /\ pc[w] = "guarded"
  BY DEF Reserve, HasRun, Claimed, Unreported
<1>2. PICK i \in 1 .. Len(runs) :
        /\ i = at[w].run /\ runs[i] \in Run /\ RunOk(runs[i]) /\ Mine(w) = runs[i]
        /\ runs \in Seq(Run) /\ runs[i].status = "running" /\ InScope(runs[i].brief)
  BY <1>1, OwnRun
<1> DEFINE r == [runs[i] EXCEPT !.booked = @ + 1]
<1>3. runs' = [runs EXCEPT ![i] = r]
  BY <1>2 DEF Reserve
<1>4. r \in Run
  <2>1. runs[i].booked \in Nat
    BY <1>2 DEF Run
  <2>2. runs[i].booked + 1 \in Nat
    BY <2>1
  <2> QED
    BY <1>2, <2>2, RunEdit
<1>5. Written(i, r)
  BY <1>2, <1>3, <1>4, RunWrite
<1>6. runs[i].booked \in Nat /\ runs[i].called \in Nat /\ runs[i].booked < MaxCalls
  BY <1>2 DEF Run, Reserve, MayCall
<1>7. /\ r.booked = runs[i].booked + 1 /\ r.called = runs[i].called
      /\ r.brief = runs[i].brief /\ r.status = "running" /\ r.pipeline = runs[i].pipeline
  BY <1>2 DEF Run
<1>8. RunOk(r) /\ r.called < r.booked
  BY <1>2, <1>6, <1>7 DEF RunOk
<1>9. BudgetTypes'
  BY DEF Reserve, Bump, BudgetTypes, FlowInv, FlowTypes
<1>10. Goto(w, "calling") /\ at' = at /\ lock' = lock /\ queue' = queue /\ SameScope
  BY DEF Reserve, Quiet, SameScope, scope
<1>11. InScope(r.brief)
  BY <1>2, <1>7
<1> HIDE DEF r
<1> QED
  BY <1>1, <1>2, <1>4, <1>5, <1>7, <1>8, <1>9, <1>10, <1>11, LiveStep DEF Claimed, Unreported

LEMMA CallStays ==
  ASSUME FlowInv, NEW w \in Workers, Call(w)
  PROVE  FlowInv'
<1>1. HasRun(w) /\ pc[w] \in Unreported /\ pc[w] = "calling"
  BY DEF Call, HasRun, Claimed, Unreported
<1>2. PICK i \in 1 .. Len(runs) :
        /\ i = at[w].run /\ runs[i] \in Run /\ RunOk(runs[i]) /\ Mine(w) = runs[i]
        /\ runs \in Seq(Run) /\ runs[i].status = "running" /\ runs[i].called < runs[i].booked
  BY <1>1, OwnRun
<1>3. runs[i].booked \in Nat /\ runs[i].called \in Nat
  BY <1>2 DEF Run
<1>4. at' = at /\ lock' = lock /\ queue' = queue /\ SameScope /\ BudgetTypes'
  BY DEF Call, Quiet, SameScope, scope, budget, BudgetTypes, FlowInv, FlowTypes
<1>5. CASE Goto(w, "work") /\ runs' = [runs EXCEPT ![at[w].run].called = @ + 1]
  <2> DEFINE r == [runs[i] EXCEPT !.called = @ + 1]
  <2>1. runs' = [runs EXCEPT ![i] = r]
    BY <1>2, <1>5
  <2>2. r \in Run
    <3>1. runs[i].called + 1 \in Nat
      BY <1>3
    <3> QED
      BY <1>2, <3>1, RunEdit
  <2>3. Written(i, r)
    BY <1>2, <2>1, <2>2, RunWrite
  <2>5. /\ r.brief = runs[i].brief /\ r.status = "running" /\ r.pipeline = runs[i].pipeline
        /\ r.called = runs[i].called + 1 /\ r.booked = runs[i].booked
    BY <1>2 DEF Run
  <2>4. RunOk(r)
    BY <1>2, <1>3, <2>5 DEF RunOk
  <2> HIDE DEF r
  <2> QED
    BY <1>1, <1>2, <1>4, <1>5, <2>2, <2>3, <2>4, <2>5, LiveStep DEF Claimed, Unreported
<1>6. CASE /\ Goto(w, "fail")
           /\ \E s \in {"running", "failed"} :
                runs' = [runs EXCEPT ![at[w].run].called = @ + 1, ![at[w].run].pipeline = s]
  <2>1. PICK s \in {"running", "failed"} :
          runs' = [runs EXCEPT ![i].called = @ + 1, ![i].pipeline = s]
    BY <1>2, <1>6
  <2> DEFINE r == [runs[i] EXCEPT !.called = @ + 1, !.pipeline = s]
  <2>2. runs' = [runs EXCEPT ![i] = r]
    BY <1>2, <2>1
  <2>3. r \in Run
    <3>1. runs[i].called + 1 \in Nat
      BY <1>3
    <3> QED
      BY <1>2, <3>1, RunEdit
  <2>6. /\ r.brief = runs[i].brief /\ r.status = "running"
        /\ r.called = runs[i].called + 1 /\ r.booked = runs[i].booked
    BY <1>2 DEF Run
  <2>4. Written(i, r)
    BY <1>2, <2>2, <2>3, RunWrite
  <2>5. RunOk(r)
    BY <1>2, <1>3, <2>6 DEF RunOk
  <2> HIDE DEF r
  <2> QED
    BY <1>1, <1>2, <1>4, <1>6, <2>3, <2>4, <2>5, <2>6, LiveStep DEF Claimed, Unreported
<1> QED
  BY <1>5, <1>6 DEF Call

LEMMA RaiseStays ==
  ASSUME FlowInv, NEW w \in Workers, Raise(w)
  PROVE  FlowInv'
<1>1. HasRun(w) /\ pc[w] \in Unreported
  BY DEF Raise, HasRun, Claimed, Unreported
<1>2. PICK i \in 1 .. Len(runs) :
        /\ i = at[w].run /\ runs[i] \in Run /\ RunOk(runs[i]) /\ Mine(w) = runs[i]
        /\ runs \in Seq(Run) /\ runs[i].status = "running"
  BY <1>1, OwnRun
<1>3. Goto(w, "fail") /\ at' = at /\ lock' = lock /\ queue' = queue /\ SameScope /\ BudgetTypes'
  BY DEF Raise, Quiet, SameScope, scope, budget, BudgetTypes, FlowInv, FlowTypes
<1>4. \E r \in Run : RunOk(r) /\ r.brief = runs[i].brief /\ Written(i, r)
  <2>1. CASE runs' = runs
    BY <1>2, <2>1, RunKept
  <2>2. CASE Mine(w).pipeline = "running" /\ SetPipeline(w, "failed")
    <3> DEFINE r == [runs[i] EXCEPT !.pipeline = "failed"]
    <3>1. runs' = [runs EXCEPT ![i].pipeline = "failed"]
      BY <1>2, <2>2 DEF SetPipeline
    <3>2. r \in Run /\ Written(i, r)
      BY <1>2, <3>1, SetPipelineWrites DEF FlowInv
    <3>3. RunOk(r) /\ r.brief = runs[i].brief
      BY <1>2 DEF RunOk, Run
    <3> QED
      BY <3>2, <3>3
  <2> QED
    BY <2>1, <2>2 DEF Raise
<1>5. PICK r \in Run : RunOk(r) /\ r.brief = runs[i].brief /\ Written(i, r)
  BY <1>4
<1> QED
  BY <1>1, <1>2, <1>3, <1>5, LiveStep DEF Claimed, Unreported

LEMMA ReportStays ==
  ASSUME FlowInv, NEW w \in Workers, Report(w)
  PROVE  FlowInv'
<1>1. HasRun(w) /\ pc[w] \in Unreported /\ pc[w] = "report"
  BY DEF Report, HasRun, Claimed, Unreported
<1>2. PICK i \in 1 .. Len(runs) :
        /\ i = at[w].run /\ runs[i] \in Run /\ RunOk(runs[i])
        /\ runs[i].status = "running" /\ runs[i].pipeline = "success"
  BY <1>1, OwnRun
<1> DEFINE r == [runs[i] EXCEPT !.status = IF @ = "running" THEN "success" ELSE @]
<1>3. r \in Run /\ Written(i, r)
  <2>1. CloseRun(i, "success")
    BY <1>2 DEF Report
  <2> QED
    BY <1>2, <2>1, CloseRunWrites DEF FlowInv
<1>4. RunOk(r) /\ r.brief = runs[i].brief
  BY <1>2 DEF RunOk, Run
<1>5. queue' = queue /\ SameScope /\ BudgetTypes' /\ UNCHANGED budget
  BY DEF Report, SameScope, scope, budget, BudgetTypes, FlowInv, FlowTypes
<1> HIDE DEF r
<1>6. CASE Leave(w)
  BY <1>1, <1>2, <1>3, <1>4, <1>5, <1>6, LastStep
<1>7. CASE Goto(w, "fail") /\ lock' = lock /\ at' = at
  BY <1>1, <1>2, <1>3, <1>4, <1>5, <1>7, LiveStep DEF Claimed, Unreported
<1> QED
  BY <1>6, <1>7 DEF Report

LEMMA FinishFailedStays ==
  ASSUME FlowInv, NEW w \in Workers, FinishFailed(w)
  PROVE  FlowInv'
<1>1. HasRun(w)
  BY DEF FinishFailed, HasRun, Claimed
<1>2. PICK i \in 1 .. Len(runs) :
        i = at[w].run /\ runs[i] \in Run /\ RunOk(runs[i])
  BY <1>1, OwnRun
<1> DEFINE r == [runs[i] EXCEPT !.status = IF @ = "running" THEN "failed" ELSE @]
<1>3. r \in Run /\ Written(i, r)
  <2>1. CloseRun(i, "failed")
    BY <1>2 DEF FinishFailed
  <2> QED
    BY <1>2, <2>1, CloseRunWrites DEF FlowInv
<1>4. RunOk(r) /\ r.brief = runs[i].brief
  BY <1>2 DEF RunOk, Run
<1>5. queue' = queue /\ SameScope /\ UNCHANGED budget /\ Leave(w)
  BY DEF FinishFailed, SameScope, scope
<1> HIDE DEF r
<1> QED
  BY <1>1, <1>2, <1>3, <1>4, <1>5, LastStep

(* Any worker may leave: it dies, or it has nothing to claim.              *)
LEMMA LeaveStays ==
  ASSUME FlowInv, NEW w \in Workers, Leave(w),
         runs' = runs, SameScope, queue' = queue, UNCHANGED budget
  PROVE  FlowInv'
<1>1. /\ pc' \in [Workers -> Steps] /\ pc'[w] = "idle"
      /\ at' \in [Workers -> [brief : Briefs \cup {NoBrief}, run : 0 .. Len(runs)]]
      /\ lock' \in Workers \cup {NoWorker, OtherJob}
      /\ OthersStay(w)
  BY LeaveLeaves DEF FlowInv
<1>2. WorkersInv'
  BY <1>1, FreeStep DEF FlowInv
<1>3. FlowTypes'
  BY <1>1 DEF FlowInv, FlowTypes, budget, SameScope
<1> QED
  BY <1>2, <1>3 DEF FlowInv

LEMMA StartFlowStays ==
  ASSUME FlowInv, NEW w \in Workers, NEW b \in Briefs, StartFlow(w, b)
  PROVE  FlowInv'
<1>1. runs' = runs /\ SameScope /\ UNCHANGED budget /\ queue' \subseteq Briefs
  BY DEF StartFlow, SameScope, scope, FlowInv, FlowTypes
<1>2. CASE lock' = w /\ at' = [at EXCEPT ![w].brief = b] /\ Goto(w, "claim")
  <2>1. at[w] \in [brief : Briefs \cup {NoBrief}, run : 0 .. Len(runs)]
    BY DEF FlowInv, FlowTypes
  <2>2. [at[w] EXCEPT !.brief = b] \in [brief : Briefs \cup {NoBrief}, run : 0 .. Len(runs)]
    BY <2>1
  <2>3. at' = [at EXCEPT ![w] = [at[w] EXCEPT !.brief = b]]
    BY <1>2
  <2>4. at' \in [Workers -> [brief : Briefs \cup {NoBrief}, run : 0 .. Len(runs)]]
    BY <2>2, <2>3 DEF FlowInv, FlowTypes
  <2>5. at'[w] = [at[w] EXCEPT !.brief = b] /\ \A v \in Workers : v # w => at'[v] = at[v]
    BY <2>3 DEF FlowInv, FlowTypes
  <2>6. at'[w].brief = b
    BY <2>1, <2>5
  <2>7. /\ pc' \in [Workers -> Steps] /\ pc'[w] = "claim"
        /\ \A v \in Workers : v # w => pc'[v] = pc[v]
    BY <1>2 DEF Goto, FlowInv, FlowTypes, Steps
  <2>8. WorkersInv'
    BY <1>1, <2>5, <2>6, <2>7, FreeStep DEF FlowInv, OthersStay
  <2>9. FlowTypes'
    BY <1>1, <1>2, <2>4, <2>7 DEF FlowInv, FlowTypes, budget, SameScope
  <2> QED
    BY <2>8, <2>9 DEF FlowInv
<1>3. CASE UNCHANGED <<lock, at, pc>>
  <2>1. FlowTypes'
    BY <1>1, <1>3 DEF FlowInv, FlowTypes, budget, SameScope
  <2>2. WorkersInv'
    BY <1>1, <1>3 DEF FlowInv, WorkersInv, WorkerInv, Apart, HasRun, RunInv, Mine, Owner,
                      InScope, SameScope
  <2> QED
    BY <2>1, <2>2 DEF FlowInv
<1> QED
  BY <1>2, <1>3 DEF StartFlow

(* A claim appends a run, which is its worker's alone.                     *)
LEMMA ClaimAppends ==
  ASSUME BriefTypes, FlowInv, NEW w \in Workers, Claim(w)
  PROVE  \E b \in Briefs :
           /\ b = at[w].brief
           /\ Claimable(b) /\ KeyFree(b)
           /\ NewRun(b) \in Run
           /\ runs' \in Seq(Run) /\ Len(runs') = Len(runs) + 1
           /\ \A i \in 1 .. Len(runs) : runs'[i] = runs[i]
           /\ runs'[Len(runs) + 1] = NewRun(b)
           /\ brief' = [brief EXCEPT ![b] = Rearmed(b)]
           /\ granted' = IF brief[b].cadence = 0 THEN granted ELSE Bump(granted, b)
<1>1. PICK b \in Briefs : b = at[w].brief
  BY DEF Claim, FlowInv, WorkersInv, WorkerInv
<1>2. /\ Claimable(b) /\ KeyFree(b)
      /\ runs' = Append(runs, NewRun(b))
      /\ brief' = [brief EXCEPT ![b] = Rearmed(b)]
      /\ granted' = IF brief[b].cadence = 0 THEN granted ELSE Bump(granted, b)
  BY <1>1 DEF Claim
<1>3. Cadences \subseteq Nat
  BY BoundAssumption
<1>4. NewRun(b) \in Run
  <2>1. brief[b] \in Brief /\ activations[b] \in Nat /\ now \in Nat
    BY DEF BriefTypes
  <2>2. brief[b].version \in Nat /\ brief[b].due \in Nat /\ brief[b].cadence \in Cadences \cup {0}
    BY <2>1 DEF Brief
  <2>3. brief[b].cadence \in Nat
    BY <2>2, <1>3
  <2> QED
    BY <2>1, <2>2, <2>3 DEF NewRun, Run
<1>5. runs \in Seq(Run)
  BY DEF FlowInv, FlowTypes
<1>6. /\ runs' \in Seq(Run) /\ Len(runs') = Len(runs) + 1
      /\ \A i \in 1 .. Len(runs) : runs'[i] = runs[i]
      /\ runs'[Len(runs) + 1] = NewRun(b)
  BY <1>2, <1>4, <1>5, AppendProperties
<1> QED
  BY <1>1, <1>2, <1>4, <1>6

LEMMA ClaimStays ==
  ASSUME BriefTypes, FlowInv, NEW w \in Workers, Claim(w)
  PROVE  FlowInv'
<1>1. PICK b \in Briefs :
        /\ b = at[w].brief /\ Claimable(b) /\ NewRun(b) \in Run
        /\ runs' \in Seq(Run) /\ Len(runs') = Len(runs) + 1
        /\ \A i \in 1 .. Len(runs) : runs'[i] = runs[i]
        /\ runs'[Len(runs) + 1] = NewRun(b)
  BY ClaimAppends
<1>2. Len(runs) \in Nat /\ MaxCalls \in Nat
  BY BoundAssumption DEF FlowInv, FlowTypes
<1>3. PICK n \in 1 .. Len(runs') : n = Len(runs')
  BY <1>1, <1>2
<1>4. at' = [at EXCEPT ![w].run = n] /\ Goto(w, "live") /\ SameScope /\ UNCHANGED budget
      /\ queue' = queue /\ lock' = lock
  BY <1>3 DEF Claim, SameScope, scope
<1>5. /\ pc' \in [Workers -> Steps] /\ pc'[w] = "live"
      /\ \A v \in Workers : v # w => pc'[v] = pc[v]
  BY <1>4 DEF Goto, FlowInv, FlowTypes, Steps
<1>6. /\ at' \in [Workers -> [brief : Briefs \cup {NoBrief}, run : 0 .. Len(runs')]]
      /\ at'[w].run = n
      /\ \A v \in Workers : v # w => at'[v] = at[v]
  <2> DEFINE a == [at[w] EXCEPT !.run = n]
  <2>1. at[w] \in [brief : Briefs \cup {NoBrief}, run : 0 .. Len(runs)]
    BY DEF FlowInv, FlowTypes
  <2>2. \A v \in Workers : at[v] \in [brief : Briefs \cup {NoBrief}, run : 0 .. Len(runs')]
    <3>1. 0 .. Len(runs) \subseteq 0 .. Len(runs')
      BY <1>1, <1>2
    <3> QED
      BY <3>1 DEF FlowInv, FlowTypes
  <2>3. a \in [brief : Briefs \cup {NoBrief}, run : 0 .. Len(runs')] /\ a.run = n
    BY <2>1, <1>2, <1>3, <1>1
  <2>4. at' = [at EXCEPT ![w] = a]
    BY <1>4
  <2>5. at \in [Workers -> [brief : Briefs \cup {NoBrief}, run : 0 .. Len(runs)]]
    BY DEF FlowInv, FlowTypes
  <2> HIDE DEF a
  <2>6. at'[w] = a /\ \A v \in Workers : v # w => at'[v] = at[v]
    BY <2>4, <2>5
  <2>7. at' \in [Workers -> [brief : Briefs \cup {NoBrief}, run : 0 .. Len(runs')]]
    BY <2>2, <2>3, <2>4, <2>5
  <2> QED
    BY <2>3, <2>6, <2>7
<1>7. FlowTypes'
  BY <1>1, <1>4, <1>5, <1>6 DEF FlowInv, FlowTypes, budget, SameScope
<1>8. \A v \in Workers : v # w /\ HasRun(v) => at[v].run \in 1 .. Len(runs)
  BY DEF FlowInv, WorkersInv, WorkerInv
<1>9. ASSUME NEW v \in Workers, v # w
      PROVE  WorkerInv(v)' /\ (HasRun(v)' <=> HasRun(v))
  <2>1. WorkerInv(v)
    BY DEF FlowInv, WorkersInv
  <2>2. CASE HasRun(v)
    <3>1. runs'[at[v].run] = runs[at[v].run] /\ at[v].run \in 1 .. Len(runs')
      BY <1>1, <1>2, <1>8, <1>9, <2>2
    <3>2. Mine(v)' = Mine(v) /\ Owner(v)' = Owner(v)
      BY <3>1, <1>6, <1>9 DEF Mine, Owner
    <3>3. InScope(Owner(v))' <=> InScope(Owner(v))
      BY <3>2, <1>4 DEF InScope, SameScope
    <3> QED
      BY <1>5, <1>6, <1>9, <2>1, <2>2, <3>1, <3>2, <3>3 DEF WorkerInv, HasRun
  <2>3. CASE ~HasRun(v)
    BY <1>5, <1>6, <1>9, <2>1, <2>3 DEF WorkerInv, HasRun, Claimed, Unreported
  <2> QED
    BY <2>2, <2>3
<1>10. n = Len(runs) + 1 /\ Mine(w)' = NewRun(b)
  BY <1>1, <1>3, <1>6 DEF Mine
<1>11. NewRun(b).status = "running" /\ NewRun(b).called = 0 /\ NewRun(b).booked = 0
  BY DEF NewRun
<1>12. WorkerInv(w)'
  BY <1>5, <1>6, <1>10, <1>11 DEF WorkerInv, HasRun, Claimed, Unreported
<1>13. Apart'
  <2>1. \A v \in Workers : v # w /\ HasRun(v)' => at'[v].run # at'[w].run
    BY <1>2, <1>6, <1>8, <1>9, <1>10
  <2> QED
    BY <2>1, <1>6, <1>9 DEF FlowInv, WorkersInv, Apart
<1>14. \A i \in 1 .. Len(runs') : RunInv(i)'
  <2> SUFFICES ASSUME NEW i \in 1 .. Len(runs') PROVE RunInv(i)'
    OBVIOUS
  <2>1. CASE i = Len(runs) + 1
    BY <2>1, <1>1, <1>2, <1>11 DEF RunInv
  <2>2. CASE i \in 1 .. Len(runs)
    BY <2>2, <1>1 DEF RunInv, FlowInv, WorkersInv
  <2> QED
    BY <2>1, <2>2, <1>1, <1>2
<1>15. WorkersInv'
  BY <1>9, <1>12, <1>13, <1>14 DEF WorkersInv
<1> QED
  BY <1>7, <1>15 DEF FlowInv

(* What leaves the workers, their runs and the scope alone.                *)
LEMMA AsideStays ==
  ASSUME FlowInv, UNCHANGED <<runs, pc, at, projectOn, subjects>>, BudgetTypes',
         queue' \subseteq Briefs, lock' \in Workers \cup {NoWorker, OtherJob}
  PROVE  FlowInv'
<1>1. FlowTypes'
  BY DEF FlowInv, FlowTypes, BudgetTypes
<1>2. WorkersInv'
  BY DEF FlowInv, WorkersInv, WorkerInv, Apart, HasRun, RunInv, Mine, Owner, InScope
<1> QED
  BY <1>1, <1>2 DEF FlowInv

(* A switch waits for the guards that hold its row.                        *)
LEMMA SwitchStays ==
  ASSUME FlowInv, SwitchProject \/ \E b \in Project : SwitchSubject(b)
  PROVE  FlowInv'
<1>1. UNCHANGED <<runs, flow, budget>> /\ projectOn' \in BOOLEAN /\ subjects' \subseteq Project
  BY DEF SwitchProject, SwitchSubject, FlowInv, FlowTypes
<1>2. FlowTypes'
  BY <1>1 DEF FlowInv, FlowTypes, flow, budget
<1>3. \A w \in Workers : pc[w] \in {"guarded", "calling"} => InScope(Owner(w))'
  <2> SUFFICES ASSUME NEW w \in Workers, pc[w] \in {"guarded", "calling"}
               PROVE  InScope(Owner(w))'
    OBVIOUS
  <2>1. InScope(Owner(w)) /\ Owner(w)' = Owner(w)
    BY <1>1 DEF FlowInv, WorkersInv, WorkerInv, flow, Owner, Mine
  <2>2. CASE Owner(w) \notin Project
    BY <2>1, <2>2 DEF InScope
  <2>3. CASE Owner(w) \in Project
    <3>1. GuardHeld(w)
      BY <2>3 DEF GuardHeld
    <3>2. projectOn' = projectOn /\ (Owner(w) \in subjects => Owner(w) \in subjects')
      BY <3>1 DEF SwitchProject, SwitchSubject
    <3> QED
      BY <2>1, <3>2 DEF InScope
  <2> QED
    BY <2>2, <2>3
<1>4. WorkersInv'
  BY <1>1, <1>3 DEF FlowInv, WorkersInv, WorkerInv, Apart, HasRun, RunInv, Mine, Owner, flow
<1> QED
  BY <1>2, <1>4 DEF FlowInv

LEMMA FlowStays ==
  ASSUME BriefTypes, FlowInv, [Next]_vars
  PROVE  FlowInv'
<1> USE BoundAssumption
<1>0. BudgetTypes /\ queue \subseteq Briefs /\ lock \in Workers \cup {NoWorker, OtherJob}
  BY DEF BudgetTypes, FlowInv, FlowTypes
<1>1. ASSUME NEW k \in Keys, UserAction(k) PROVE FlowInv'
  <2>1. UNCHANGED <<runs, scope, flow, budget>>
    BY <1>1 DEF UserAction, Create, Update, Activate, Pause, Archive, Mutate
  <2> QED
    BY <2>1, <1>0, AsideStays DEF scope, flow, budget, BudgetTypes
<1>2. CASE Dispatch
  <2>1. queue' \subseteq Briefs
    BY <1>0, <1>2 DEF Dispatch, FirstDue, DueNow
  <2> QED
    BY <2>1, <1>0, <1>2, AsideStays DEF Dispatch, scope, budget, BudgetTypes
<1>3. CASE OtherIntake
  BY <1>0, <1>3, AsideStays DEF OtherIntake, scope, budget, BudgetTypes
<1>4. CASE Tick
  BY <1>0, <1>4, AsideStays DEF Tick, scope, flow, budget, BudgetTypes
<1>5. CASE Midnight
  <2>1. BudgetTypes'
    BY <1>0, <1>5 DEF Midnight, BudgetTypes
  <2> QED
    BY <2>1, <1>0, <1>5, AsideStays DEF Midnight, scope, flow
<1>6. CASE SwitchProject \/ \E b \in Project : SwitchSubject(b)
  BY <1>6, SwitchStays
<1>7. ASSUME NEW w \in Workers, NEW b \in Briefs, StartFlow(w, b) PROVE FlowInv'
  BY <1>7, StartFlowStays
<1>8. ASSUME NEW w \in Workers, Proceed(w) PROVE FlowInv'
  <2>1. CASE Claim(w)
    BY <2>1, ClaimStays
  <2>2. CASE PauseUnbound(w)
    BY <2>2, LeaveStays DEF PauseUnbound, SameScope, scope
  <2>3. CASE RefuseClaim(w)
    BY <2>3, LeaveStays DEF RefuseClaim, SameScope, scope
  <2>4. CASE GoLive(w)
    BY <2>4, GoLiveStays
  <2>5. CASE OpenRun(w)
    BY <2>5, OpenRunStays
  <2>6. CASE EnterGuard(w)
    BY <2>6, EnterGuardStays
  <2>7. CASE Reserve(w)
    BY <2>7, ReserveStays
  <2>8. CASE Call(w)
    BY <2>8, CallStays
  <2>9. CASE Finalize(w)
    BY <2>9, FinalizeStays
  <2>10. CASE Raise(w)
    BY <2>10, RaiseStays
  <2>11. CASE Report(w)
    BY <2>11, ReportStays
  <2>12. CASE FinishFailed(w)
    BY <2>12, FinishFailedStays
  <2> QED
    BY <1>8, <2>1, <2>2, <2>3, <2>4, <2>5, <2>6, <2>7, <2>8, <2>9, <2>10, <2>11, <2>12
       DEF Proceed
<1>9. ASSUME NEW w \in Workers, Crash(w) PROVE FlowInv'
  BY <1>9, LeaveStays DEF Crash, SameScope, scope
<1>10. ASSUME NEW w \in Workers, LoseLock(w) PROVE FlowInv'
  BY <1>0, <1>10, AsideStays DEF LoseLock, scope, budget, BudgetTypes
<1>11. CASE UNCHANGED vars
  BY <1>0, <1>11, AsideStays DEF vars, scope, flow, budget, BudgetTypes
<1> QED
  BY <1>1, <1>2, <1>3, <1>4, <1>5, <1>6, <1>7, <1>8, <1>9, <1>10, <1>11 DEF Next

-----------------------------------------------------------------------------
(* What the history of a brief adds up to.                                 *)

(* No run is added, and none changes what it was claimed as.               *)
SameClaims ==
  /\ Len(runs') = Len(runs)
  /\ \A i \in 1 .. Len(runs) :
       /\ runs'[i].brief = runs[i].brief /\ runs'[i].version = runs[i].version
       /\ runs'[i].cadence = runs[i].cadence /\ runs'[i].epoch = runs[i].epoch
       /\ runs'[i].claimed = runs[i].claimed

HistoryInv == AccountsInv /\ EpochsInv
Pending(r) == IF r.status = "active" THEN 1 ELSE 0

LEMMA CountsAreNat ==
  ASSUME FlowTypes, NEW b
  PROVE  /\ IsFiniteSet(RunsOf(b)) /\ Cardinality(RunsOf(b)) \in Nat
         /\ \A a : Applied(a, b) \in Nat
<1>1. RunsOf(b) \subseteq 1 .. Len(runs) /\ IsFiniteSet(1 .. Len(runs))
  BY FS_Interval DEF RunsOf, FlowTypes
<1>2. IsFiniteSet(RunsOf(b)) /\ Cardinality(RunsOf(b)) \in Nat
  BY <1>1, FS_Subset, FS_CardinalityType
<1>3. ASSUME NEW a PROVE Applied(a, b) \in Nat
  <2>1. IsFiniteSet({k \in Keys : log[k] = [action |-> a, brief |-> b]})
    BY BoundAssumption, FS_Subset
  <2> QED
    BY <2>1, FS_CardinalityType DEF Applied
<1> QED
  BY <1>2, <1>3

LEMMA RunsOfStay ==
  ASSUME SameClaims, NEW b
  PROVE  RunsOf(b)' = RunsOf(b)
  BY DEF SameClaims, RunsOf

(* A key that had no outcome gets one.                                     *)
LEMMA AppliedOnce ==
  ASSUME BriefTypes, NEW k \in Keys, NEW a \in Actions, NEW b \in Briefs,
         Fresh(k, a, b), log' = [log EXCEPT ![k] = [action |-> a, brief |-> b]]
  PROVE  /\ Applied(a, b)' = Applied(a, b) + 1
         /\ \A x \in Actions, y \in Briefs : x # a \/ y # b => Applied(x, y)' = Applied(x, y)
<1> DEFINE Out(l, x, y) == {j \in Keys : l[j] = [action |-> x, brief |-> y]}
<1>1. /\ log'[k] = [action |-> a, brief |-> b] /\ log[k] = [action |-> "none", brief |-> NoBrief]
      /\ \A j \in Keys : j # k => log'[j] = log[j]
  BY DEF BriefTypes, Fresh, NoAction
<1>2. a # "none"
  BY DEF Actions
<1>3. Out(log', a, b) = Out(log, a, b) \cup {k} /\ k \notin Out(log, a, b)
  <2>1. log[k] # [action |-> a, brief |-> b]
    BY <1>1, <1>2
  <2> QED
    BY <1>1, <2>1
<1>4. IsFiniteSet(Out(log, a, b))
  BY BoundAssumption, FS_Subset
<1>5. Cardinality(Out(log', a, b)) = Cardinality(Out(log, a, b)) + 1
  BY <1>3, <1>4, FS_AddElement
<1>6. ASSUME NEW x \in Actions, NEW y \in Briefs, x # a \/ y # b
      PROVE  Cardinality(Out(log', x, y)) = Cardinality(Out(log, x, y))
  <2>1. log'[k] # [action |-> x, brief |-> y] /\ log[k] # [action |-> x, brief |-> y]
    BY <1>1, <1>6 DEF Actions
  <2>2. Out(log, x, y) = Out(log', x, y)
    BY <2>1, <1>1
  <2> QED
    BY <2>2
<1> QED
  BY <1>5, <1>6 DEF Applied

LEMMA OthersApplied ==
  ASSUME log' = log, NEW a, NEW b
  PROVE  Applied(a, b)' = Applied(a, b)
  BY DEF Applied

(* One brief changes.                                                      *)
LEMMA BriefWrite ==
  ASSUME BriefTypes, NEW b \in Briefs, NEW r \in Brief, r.status = "active" => r.due # Never,
         brief' = [brief EXCEPT ![b] = r]
  PROVE  /\ brief' \in [Briefs -> Brief] /\ brief'[b] = r
         /\ \A a \in Briefs : a # b => brief'[a] = brief[a]
         /\ \A a \in Briefs : brief'[a].status = "active" => brief'[a].due # Never
  BY DEF BriefTypes

(* Runs keep what they were claimed as, and a brief that reads active is   *)
(* as it was or has a new activation: what is known of its runs stays.     *)
LEMMA EpochsStay ==
  ASSUME EpochsInv, FlowTypes, BriefTypes, SameClaims,
         \A b \in Briefs : activations'[b] \in Nat /\ activations'[b] >= activations[b],
         \A b \in Briefs : activations'[b] = activations[b] /\ brief'[b].status = "active" =>
                             brief'[b] = brief[b]
  PROVE  EpochsInv'
<1>1. \A i \in 1 .. Len(runs) : runs[i] \in Run
  BY ElementOfSeq DEF FlowTypes
<1>2. Spaced'
  BY DEF EpochsInv, Spaced, SameClaims
<1>3. ASSUME NEW i \in 1 .. Len(runs')
      PROVE  EpochInv(i)'
  <2>1. i \in 1 .. Len(runs) /\ EpochInv(i)
    BY DEF SameClaims, EpochsInv
  <2>2. PICK b \in Briefs : b = runs[i].brief
    BY <1>1, <2>1 DEF Run
  <2>3. /\ runs'[i].brief = b /\ runs'[i].version = runs[i].version
        /\ runs'[i].cadence = runs[i].cadence /\ runs'[i].epoch = runs[i].epoch
        /\ runs'[i].claimed = runs[i].claimed /\ runs[i].epoch \in Nat
    BY <1>1, <2>1, <2>2 DEF SameClaims, Run
  <2>4. /\ runs[i].epoch <= activations[b]
        /\ runs[i].epoch = activations[b] /\ brief[b].status = "active" =>
             /\ runs[i].version = brief[b].version /\ runs[i].cadence = brief[b].cadence
             /\ runs[i].cadence > 0 /\ runs[i].claimed + runs[i].cadence <= brief[b].due
    BY <2>1, <2>2 DEF EpochInv
  <2>5. activations[b] \in Nat /\ activations'[b] \in Nat /\ activations'[b] >= activations[b]
    BY DEF BriefTypes
  <2>6. runs[i].epoch <= activations'[b]
    BY <2>3, <2>4, <2>5
  <2>7. ASSUME runs[i].epoch = activations'[b], brief'[b].status = "active"
        PROVE  activations'[b] = activations[b] /\ brief'[b] = brief[b]
    BY <2>3, <2>4, <2>5, <2>7
  <2> QED
    BY <2>3, <2>4, <2>6, <2>7 DEF EpochInv
<1> QED
  BY <1>2, <1>3 DEF EpochsInv

(* A user action: brief b becomes r, and only its history moves.           *)
LEMMA UserStep ==
  ASSUME BriefTypes, FlowTypes, HistoryInv, SameClaims,
         NEW k \in Keys, NEW a \in Actions, NEW b \in Briefs,
         Fresh(k, a, b), log' = [log EXCEPT ![k] = [action |-> a, brief |-> b]],
         NEW r \in Brief, r.status = "active" => r.due # Never,
         brief' = [brief EXCEPT ![b] = r], now' \in Nat,
         activations' = IF a = "activate" THEN Bump(activations, b) ELSE activations,
         granted' = IF a = "activate" THEN Bump(granted, b) ELSE granted,
         cancelled' = IF a = "activate" \/ brief[b].status # "active" THEN cancelled
                      ELSE Bump(cancelled, b),
         IF a = "activate" THEN brief[b].status # "active" /\ r.status = "active"
         ELSE r.status # "active",
         r.version = brief[b].version + (IF a \in {"create", "update"} THEN 1 ELSE 0),
         r.status # "absent"
  PROVE  BriefTypes' /\ HistoryInv'
<1>1. /\ brief' \in [Briefs -> Brief] /\ brief'[b] = r
      /\ \A c \in Briefs : c # b => brief'[c] = brief[c]
      /\ \A c \in Briefs : brief'[c].status = "active" => brief'[c].due # Never
  BY BriefWrite
<1>2. /\ activations' \in [Briefs -> Nat] /\ granted' \in [Briefs -> Nat]
      /\ cancelled' \in [Briefs -> Nat]
      /\ \A c \in Briefs : c # b => /\ activations'[c] = activations[c]
                                    /\ granted'[c] = granted[c]
                                    /\ cancelled'[c] = cancelled[c]
  BY DEF BriefTypes, Bump
<1>3. /\ activations'[b] = activations[b] + (IF a = "activate" THEN 1 ELSE 0)
      /\ granted'[b] = granted[b] + (IF a = "activate" THEN 1 ELSE 0)
      /\ cancelled'[b] = cancelled[b]
           + (IF a = "activate" \/ brief[b].status # "active" THEN 0 ELSE 1)
      /\ activations[b] \in Nat /\ granted[b] \in Nat /\ cancelled[b] \in Nat
  BY DEF BriefTypes, Bump
<1>4. log' \in [Keys -> [action : Actions \cup {"none"}, brief : Briefs \cup {NoBrief}]]
  <2>1. [action |-> a, brief |-> b] \in [action : Actions \cup {"none"}, brief : Briefs \cup {NoBrief}]
    OBVIOUS
  <2> QED
    BY <2>1 DEF BriefTypes
<1>5. BriefTypes'
  BY <1>1, <1>2, <1>4 DEF BriefTypes
<1>6. EpochsInv'
  <2>1. \A c \in Briefs : activations'[c] \in Nat /\ activations'[c] >= activations[c]
    BY <1>2, <1>3 DEF BriefTypes
  <2>2. \A c \in Briefs : activations'[c] = activations[c] /\ brief'[c].status = "active" =>
                            brief'[c] = brief[c]
    BY <1>1, <1>3
  <2> QED
    BY <2>1, <2>2, EpochsStay DEF HistoryInv
<1>7. /\ Applied(a, b)' = Applied(a, b) + 1
      /\ \A x \in Actions, y \in Briefs : x # a \/ y # b => Applied(x, y)' = Applied(x, y)
  BY AppliedOnce
<1>8. \A c \in Briefs : RunsOf(c)' = RunsOf(c)
  BY RunsOfStay
<1>9. ASSUME NEW c \in Briefs PROVE AccountInv(c)'
  <2>1. AccountInv(c) /\ Cardinality(RunsOf(c)') = Cardinality(RunsOf(c))
    BY <1>8 DEF HistoryInv, AccountsInv
  <2>2. Cardinality(RunsOf(c)) \in Nat /\ \A x : Applied(x, c) \in Nat
    BY CountsAreNat
  <2>3. "activate" \in Actions /\ "create" \in Actions /\ "update" \in Actions
    BY DEF Actions
  <2>4. CASE c # b
    <3>1. /\ Applied("activate", c)' = Applied("activate", c)
          /\ Applied("create", c)' = Applied("create", c)
          /\ Applied("update", c)' = Applied("update", c)
      BY <1>7, <2>3, <2>4
    <3> QED
      BY <1>1, <1>2, <2>1, <2>4, <3>1 DEF AccountInv
  <2>5. CASE c = b
    <3>1. /\ Applied("activate", b)' = Applied("activate", b) + (IF a = "activate" THEN 1 ELSE 0)
          /\ Applied("create", b)' = Applied("create", b) + (IF a = "create" THEN 1 ELSE 0)
          /\ Applied("update", b)' = Applied("update", b) + (IF a = "update" THEN 1 ELSE 0)
      BY <1>7, <2>2, <2>3, <2>5
    <3>2. /\ granted[b] = Cardinality(RunsOf(b)) + cancelled[b]
                            + (IF brief[b].status = "active" THEN 1 ELSE 0)
          /\ activations[b] = Applied("activate", b)
          /\ brief[b].version = Applied("update", b) + Applied("create", b)
                                 + (IF b \in Existing THEN 1 ELSE 0)
      BY <2>1, <2>5 DEF AccountInv
    <3>3. granted'[b] = Cardinality(RunsOf(b)) + cancelled'[b]
                          + (IF r.status = "active" THEN 1 ELSE 0)
      BY <1>3, <2>2, <2>5, <3>2
    <3>4. activations'[b] = Applied("activate", b)'
      BY <1>3, <3>1, <3>2
    <3>5. r.version = Applied("update", b)' + Applied("create", b)'
                       + (IF b \in Existing THEN 1 ELSE 0)
      BY <2>2, <2>5, <3>1, <3>2
    <3> QED
      BY <1>1, <2>1, <2>5, <3>3, <3>4, <3>5 DEF AccountInv
  <2> QED
    BY <2>4, <2>5
<1> QED
  BY <1>5, <1>6, <1>9 DEF HistoryInv, AccountsInv

LEMMA UserActionStays ==
  ASSUME BriefTypes, FlowTypes, HistoryInv, NEW k \in Keys, UserAction(k)
  PROVE  BriefTypes' /\ HistoryInv'
<1>1. PICK b \in Briefs :
        \/ \E c \in Cadences : Create(k, b, c) \/ Update(k, b, c)
        \/ Activate(k, b) \/ Pause(k, b) \/ Archive(k, b)
  BY DEF UserAction
<1>2. brief[b] \in Brief /\ AccountInv(b) /\ now \in Nat
  BY DEF BriefTypes, HistoryInv, AccountsInv
<1>3. brief[b].version \in Nat
  BY <1>2 DEF Brief
<1>4. runs' = runs => SameClaims
  BY DEF SameClaims
<1> USE DEF Actions, history
<1>5. ASSUME NEW c \in Cadences, Create(k, b, c)
      PROVE  BriefTypes' /\ HistoryInv'
  <2> DEFINE r == [status |-> "draft", bound |-> b \in Project,
                   gate |-> IF b \in Project THEN "ready" ELSE "not_applicable",
                   cadence |-> c, version |-> 1, due |-> Never]
  <2>1. /\ Fresh(k, "create", b) /\ log' = [log EXCEPT ![k] = [action |-> "create", brief |-> b]]
        /\ runs' = runs /\ brief' = [brief EXCEPT ![b] = r] /\ brief[b].status = "absent"
        /\ UNCHANGED <<now, history>>
    BY <1>5 DEF Create, Mutate
  <2>2. r \in Brief
    BY DEF Brief, Never
  <2>3. r.status = "draft" /\ r.version = brief[b].version + 1
    BY <1>2, <2>1 DEF AccountInv
  <2> HIDE DEF r
  <2> QED
    BY <1>2, <1>4, <2>1, <2>2, <2>3, UserStep
<1>6. ASSUME NEW c \in Cadences, Update(k, b, c)
      PROVE  BriefTypes' /\ HistoryInv'
  <2> DEFINE r == [brief[b] EXCEPT !.bound = b \in Project,
                     !.gate = IF b \in Project THEN "ready" ELSE "not_applicable",
                     !.cadence = c, !.version = @ + 1]
  <2>1. /\ Fresh(k, "update", b) /\ log' = [log EXCEPT ![k] = [action |-> "update", brief |-> b]]
        /\ runs' = runs /\ brief' = [brief EXCEPT ![b] = r]
        /\ brief[b].status \in {"draft", "paused"} /\ UNCHANGED <<now, history>>
    BY <1>6 DEF Update, Mutate, Editable
  <2>2. r \in Brief
    <3>1. PICK n \in Nat : n = brief[b].version + 1
      BY <1>3
    <3>2. PICK x \in BOOLEAN : x = (b \in Project)
      <4>1. (b \in Project) = TRUE \/ (b \in Project) = FALSE
        OBVIOUS
      <4> QED
        BY <4>1
    <3>3. PICK g \in {"ready", "not_applicable"} :
            g = IF b \in Project THEN "ready" ELSE "not_applicable"
      OBVIOUS
    <3>4. [brief[b] EXCEPT !.bound = x, !.gate = g, !.cadence = c, !.version = n] \in Brief
      BY <1>2 DEF Brief
    <3> QED
      BY <3>1, <3>2, <3>3, <3>4
  <2>3. r.status = brief[b].status /\ r.version = brief[b].version + 1
    BY <1>2 DEF Brief
  <2> HIDE DEF r
  <2> QED
    BY <1>2, <1>4, <2>1, <2>2, <2>3, UserStep
<1>7. CASE Activate(k, b)
  <2>1. PICK n \in Nat : n = now + 1
    BY <1>2
  <2> DEFINE r == [brief[b] EXCEPT !.status = "active", !.due = n]
  <2>2. /\ Fresh(k, "activate", b) /\ log' = [log EXCEPT ![k] = [action |-> "activate", brief |-> b]]
        /\ runs' = runs /\ brief' = [brief EXCEPT ![b] = r]
        /\ brief[b].status \in {"draft", "paused"} /\ now' = n
        /\ activations' = Bump(activations, b) /\ granted' = Bump(granted, b)
        /\ cancelled' = cancelled
    BY <1>7, <2>1 DEF Activate, Mutate
  <2>3. r \in Brief
    BY <1>2 DEF Brief
  <2>4. r.status = "active" /\ r.version = brief[b].version /\ r.due # Never
    BY <1>2, <2>1 DEF Brief, Never
  <2>5. r.version = brief[b].version + (IF "activate" \in {"create", "update"} THEN 1 ELSE 0)
    BY <1>3, <2>4
  <2> HIDE DEF r
  <2> QED
    BY <1>2, <1>3, <1>4, <2>2, <2>3, <2>4, <2>5, UserStep
<1>8. CASE Pause(k, b)
  <2> DEFINE r == [brief[b] EXCEPT !.status = "paused", !.due = Never]
  <2>1. /\ Fresh(k, "pause", b) /\ log' = [log EXCEPT ![k] = [action |-> "pause", brief |-> b]]
        /\ runs' = runs /\ brief' = [brief EXCEPT ![b] = r]
        /\ UNCHANGED <<now, activations, granted>>
        /\ cancelled' = IF brief[b].status = "active" THEN Bump(cancelled, b) ELSE cancelled
    BY <1>8 DEF Pause, Mutate, Withdraw
  <2>2. r \in Brief
    BY <1>2 DEF Brief, Never
  <2>3. r.status = "paused" /\ r.version = brief[b].version
    BY <1>2 DEF Brief
  <2>5. r.version = brief[b].version + (IF "pause" \in {"create", "update"} THEN 1 ELSE 0)
    BY <1>3, <2>3
  <2> HIDE DEF r
  <2> QED
    BY <1>2, <1>3, <1>4, <2>1, <2>2, <2>3, <2>5, UserStep
<1>9. CASE Archive(k, b)
  <2> DEFINE r == [brief[b] EXCEPT !.status = "archived", !.due = Never]
  <2>1. /\ Fresh(k, "archive", b) /\ log' = [log EXCEPT ![k] = [action |-> "archive", brief |-> b]]
        /\ runs' = runs /\ brief' = [brief EXCEPT ![b] = r]
        /\ UNCHANGED <<now, activations, granted>>
        /\ cancelled' = IF brief[b].status = "active" THEN Bump(cancelled, b) ELSE cancelled
    BY <1>9 DEF Archive, Mutate, Withdraw
  <2>2. r \in Brief
    BY <1>2 DEF Brief, Never
  <2>3. r.status = "archived" /\ r.version = brief[b].version
    BY <1>2 DEF Brief
  <2>5. r.version = brief[b].version + (IF "archive" \in {"create", "update"} THEN 1 ELSE 0)
    BY <1>3, <2>3
  <2> HIDE DEF r
  <2> QED
    BY <1>2, <1>3, <1>4, <2>1, <2>2, <2>3, <2>5, UserStep
<1> QED
  BY <1>1, <1>5, <1>6, <1>7, <1>8, <1>9

LEMMA BriefNumbers ==
  ASSUME NEW r \in Brief
  PROVE  r.cadence \in Nat /\ r.due \in Nat /\ r.version \in Nat
<1>1. PICK c \in Cadences \cup {0} : c = r.cadence
  BY DEF Brief
<1>2. c \in Nat
  BY BoundAssumption
<1>3. r.due \in Nat /\ r.version \in Nat
  BY DEF Brief
<1> QED
  BY <1>1, <1>2, <1>3

(* A claim gives the due time it takes to one run: none of the activation  *)
(* was made less than a cadence ago, and the next is due a cadence on.     *)
LEMMA ClaimHistory ==
  ASSUME BriefTypes, FlowInv, HistoryInv, NEW w \in Workers, Claim(w)
  PROVE  BriefTypes' /\ HistoryInv'
<1>1. PICK b \in Briefs :
        /\ Claimable(b) /\ NewRun(b) \in Run
        /\ runs' \in Seq(Run) /\ Len(runs') = Len(runs) + 1
        /\ \A i \in 1 .. Len(runs) : runs'[i] = runs[i]
        /\ runs'[Len(runs) + 1] = NewRun(b)
        /\ brief' = [brief EXCEPT ![b] = Rearmed(b)]
        /\ granted' = IF brief[b].cadence = 0 THEN granted ELSE Bump(granted, b)
  BY ClaimAppends
<1>2. /\ brief[b] \in Brief /\ AccountInv(b) /\ now \in Nat /\ activations[b] \in Nat
      /\ granted[b] \in Nat /\ cancelled[b] \in Nat
  BY DEF BriefTypes, HistoryInv, AccountsInv
<1>3. /\ brief[b].status = "active" /\ brief[b].due <= now
      /\ brief[b].due \in Nat /\ brief[b].version \in Nat /\ brief[b].cadence \in Nat
  <2>1. /\ brief[b].cadence \in Nat /\ brief[b].due \in Nat /\ brief[b].version \in Nat
    BY <1>2, BriefNumbers
  <2>3. IsDue(b)
    BY <1>1 DEF Claimable
  <2> QED
    BY <2>1, <2>3 DEF IsDue
<1>4. UNCHANGED <<now, log, activations, cancelled>>
  BY DEF Claim
<1>5. PICK r \in Brief :
        /\ r = Rearmed(b) /\ r.version = brief[b].version
        /\ IF brief[b].cadence = 0 THEN r.status = "paused"
           ELSE r.status = "active" /\ r.due = now + brief[b].cadence
                /\ r.cadence = brief[b].cadence
  <2>1. CASE brief[b].cadence = 0
    <3> DEFINE r == [brief[b] EXCEPT !.status = "paused", !.due = Never]
    <3>1. r \in Brief /\ r.status = "paused" /\ r.version = brief[b].version
      BY <1>2 DEF Brief, Never
    <3> QED
      BY <2>1, <3>1 DEF Rearmed
  <2>2. CASE brief[b].cadence # 0
    <3>1. PICK n \in Nat : n = now + brief[b].cadence
      BY <1>2, <1>3
    <3> DEFINE r == [brief[b] EXCEPT !.due = n]
    <3>2. /\ r \in Brief /\ r.status = brief[b].status /\ r.version = brief[b].version
          /\ r.cadence = brief[b].cadence /\ r.due = n
      BY <1>2 DEF Brief
    <3> QED
      BY <1>3, <2>2, <3>1, <3>2 DEF Rearmed
  <2> QED
    BY <2>1, <2>2
<1>6. r.status = "active" => r.due # Never
  BY <1>2, <1>3, <1>5 DEF Never
<1>7. /\ brief' \in [Briefs -> Brief] /\ brief'[b] = r
      /\ \A c \in Briefs : c # b => brief'[c] = brief[c]
      /\ \A c \in Briefs : brief'[c].status = "active" => brief'[c].due # Never
  BY <1>1, <1>5, <1>6, BriefWrite
<1>8. /\ granted' \in [Briefs -> Nat]
      /\ granted'[b] = granted[b] + (IF brief[b].cadence = 0 THEN 0 ELSE 1)
      /\ \A c \in Briefs : c # b => granted'[c] = granted[c]
  BY <1>1 DEF BriefTypes, Bump
<1>9. BriefTypes'
  BY <1>4, <1>7, <1>8 DEF BriefTypes
<1>10. Len(runs) \in Nat /\ \A i \in 1 .. Len(runs) : runs[i] \in Run
  BY ElementOfSeq DEF FlowInv, FlowTypes
<1>11. /\ NewRun(b).brief = b /\ NewRun(b).version = brief[b].version
       /\ NewRun(b).cadence = brief[b].cadence /\ NewRun(b).epoch = activations[b]
       /\ NewRun(b).claimed = now
  BY DEF NewRun
<1>12. ASSUME NEW i \in 1 .. Len(runs), runs[i].brief = b, runs[i].epoch = activations[b]
       PROVE  /\ runs[i].version = brief[b].version /\ runs[i].cadence = brief[b].cadence
              /\ runs[i].cadence > 0 /\ runs[i].claimed + runs[i].cadence <= now
  <2>1. EpochInv(i) /\ runs[i].claimed \in Nat /\ runs[i].cadence \in Nat
    BY <1>10 DEF HistoryInv, EpochsInv, Run
  <2>2. /\ runs[i].version = brief[b].version /\ runs[i].cadence = brief[b].cadence
        /\ runs[i].cadence > 0 /\ runs[i].claimed + runs[i].cadence <= brief[b].due
    BY <1>3, <1>12, <2>1 DEF EpochInv
  <2> QED
    BY <1>2, <1>3, <2>1, <2>2
<1>13. Spaced'
  <2> SUFFICES ASSUME NEW i \in 1 .. Len(runs'), NEW j \in 1 .. Len(runs'), i < j,
                      runs'[i].brief = runs'[j].brief, runs'[i].epoch = runs'[j].epoch
               PROVE  /\ runs'[i].version = runs'[j].version /\ runs'[i].cadence > 0
                      /\ runs'[j].claimed >= runs'[i].claimed + runs'[i].cadence
    BY DEF Spaced
  <2>1. i \in 1 .. Len(runs) /\ runs'[i] = runs[i]
    BY <1>1, <1>10
  <2>2. CASE j \in 1 .. Len(runs)
    BY <1>1, <2>1, <2>2 DEF HistoryInv, EpochsInv, Spaced
  <2>3. CASE j = Len(runs) + 1
    <3>1. runs'[j] = NewRun(b)
      BY <1>1, <2>3
    <3>2. runs[i].brief = b /\ runs[i].epoch = activations[b]
      BY <1>11, <2>1, <3>1
    <3>3. /\ runs[i].version = brief[b].version /\ runs[i].cadence > 0
          /\ runs[i].claimed + runs[i].cadence <= now
      BY <1>12, <2>1, <3>2
    <3>4. runs[i].claimed \in Nat /\ runs[i].cadence \in Nat
      BY <1>10, <2>1 DEF Run
    <3> QED
      BY <1>2, <1>11, <2>1, <3>1, <3>3, <3>4
  <2> QED
    BY <1>1, <1>10, <2>2, <2>3
<1>14. ASSUME NEW i \in 1 .. Len(runs') PROVE EpochInv(i)'
  <2>1. CASE i = Len(runs) + 1
    <3>1. runs'[i] = NewRun(b)
      BY <1>1, <2>1
    <3>2. runs'[i].brief = b /\ runs'[i].epoch = activations'[b]
      BY <1>4, <1>11, <3>1
    <3>3. ASSUME r.status = "active"
          PROVE  /\ runs'[i].version = r.version /\ runs'[i].cadence = r.cadence
                 /\ runs'[i].cadence > 0 /\ runs'[i].claimed + runs'[i].cadence <= r.due
      BY <1>2, <1>3, <1>5, <1>11, <3>1, <3>3
    <3> QED
      BY <1>2, <1>4, <1>7, <3>2, <3>3 DEF EpochInv
  <2>2. CASE i \in 1 .. Len(runs)
    <3>1. EpochInv(i) /\ runs'[i] = runs[i]
      BY <1>1, <2>2 DEF HistoryInv, EpochsInv
    <3>2. PICK c \in Briefs : c = runs[i].brief
      BY <1>10, <2>2 DEF Run
    <3>3. CASE c # b
      BY <1>4, <1>7, <3>1, <3>2, <3>3 DEF EpochInv
    <3>4. CASE c = b
      <4>1. runs'[i].epoch <= activations'[b]
        BY <1>4, <3>1, <3>2, <3>4 DEF EpochInv
      <4>2. ASSUME runs[i].epoch = activations[b], r.status = "active"
            PROVE  /\ runs[i].version = r.version /\ runs[i].cadence = r.cadence
                   /\ runs[i].cadence > 0 /\ runs[i].claimed + runs[i].cadence <= r.due
        <5>1. /\ runs[i].version = brief[b].version /\ runs[i].cadence = brief[b].cadence
              /\ runs[i].cadence > 0 /\ runs[i].claimed + runs[i].cadence <= now
          BY <1>12, <2>2, <3>2, <3>4, <4>2
        <5>2. runs[i].claimed \in Nat /\ runs[i].cadence \in Nat
          BY <1>10, <2>2 DEF Run
        <5> QED
          BY <1>2, <1>3, <1>5, <4>2, <5>1, <5>2
      <4> QED
        BY <1>4, <1>7, <3>1, <3>2, <3>4, <4>1, <4>2 DEF EpochInv
    <3> QED
      BY <3>3, <3>4
  <2> QED
    BY <1>1, <1>10, <2>1, <2>2
<1>15. ASSUME NEW c \in Briefs PROVE AccountInv(c)'
  <2>1. AccountInv(c) /\ \A x : Applied(x, c)' = Applied(x, c)
    BY <1>4, OthersApplied DEF HistoryInv, AccountsInv
  <2>2. CASE c # b
    <3>1. RunsOf(c)' = RunsOf(c)
      <4>1. \A i \in 1 .. Len(runs') : runs'[i].brief = c <=> i \in 1 .. Len(runs) /\ runs[i].brief = c
        BY <1>1, <1>10, <1>11, <2>2
      <4> QED
        BY <4>1, <1>1, <1>10 DEF RunsOf
    <3> QED
      BY <1>4, <1>7, <1>8, <2>1, <2>2, <3>1 DEF AccountInv
  <2>3. CASE c = b
    <3>1. RunsOf(b)' = RunsOf(b) \cup {Len(runs) + 1} /\ Len(runs) + 1 \notin RunsOf(b)
      BY <1>1, <1>10, <1>11 DEF RunsOf
    <3>2. IsFiniteSet(RunsOf(b)) /\ Cardinality(RunsOf(b)) \in Nat
      BY CountsAreNat DEF FlowInv
    <3>3. Cardinality(RunsOf(b)') = Cardinality(RunsOf(b)) + 1
      BY <3>1, <3>2, FS_AddElement
    <3>4. granted'[b] = Cardinality(RunsOf(b)') + cancelled'[b]
                          + (IF r.status = "active" THEN 1 ELSE 0)
      BY <1>2, <1>3, <1>4, <1>5, <1>8, <3>2, <3>3 DEF AccountInv
    <3>5. r.status # "absent"
      BY <1>5
    <3> QED
      BY <1>4, <1>5, <1>7, <2>1, <2>3, <3>4, <3>5 DEF AccountInv
  <2> QED
    BY <2>2, <2>3
<1> QED
  BY <1>9, <1>13, <1>14, <1>15 DEF HistoryInv, AccountsInv, EpochsInv

LEMMA PauseUnboundHistory ==
  ASSUME BriefTypes, FlowInv, HistoryInv, NEW w \in Workers, PauseUnbound(w)
  PROVE  BriefTypes' /\ HistoryInv'
<1>1. PICK b \in Briefs : b = at[w].brief
  BY DEF PauseUnbound, FlowInv, WorkersInv, WorkerInv
<1> DEFINE r == [brief[b] EXCEPT !.status = "paused", !.due = Never, !.gate = "subject_required"]
<1>2. /\ brief[b].status = "active" /\ brief' = [brief EXCEPT ![b] = r]
      /\ cancelled' = Bump(cancelled, b) /\ UNCHANGED <<now, log, runs, activations, granted>>
  BY <1>1 DEF PauseUnbound, Unbound, Withdraw
<1>3. r \in Brief /\ r.status = "paused" /\ r.version = brief[b].version
  BY DEF BriefTypes, Brief, Never
<1> HIDE DEF r
<1>4. /\ brief' \in [Briefs -> Brief] /\ brief'[b] = r
      /\ \A c \in Briefs : c # b => brief'[c] = brief[c]
      /\ \A c \in Briefs : brief'[c].status = "active" => brief'[c].due # Never
  BY <1>2, <1>3, BriefWrite
<1>5. /\ cancelled' \in [Briefs -> Nat] /\ cancelled'[b] = cancelled[b] + 1
      /\ \A c \in Briefs : c # b => cancelled'[c] = cancelled[c]
  BY <1>2 DEF BriefTypes, Bump
<1>6. BriefTypes'
  BY <1>2, <1>4, <1>5 DEF BriefTypes
<1>7. SameClaims
  BY <1>2 DEF SameClaims
<1>8. EpochsInv'
  <2>1. \A c \in Briefs : activations'[c] \in Nat /\ activations'[c] >= activations[c]
    BY <1>2 DEF BriefTypes
  <2>2. \A c \in Briefs : activations'[c] = activations[c] /\ brief'[c].status = "active" =>
                            brief'[c] = brief[c]
    BY <1>3, <1>4
  <2> QED
    BY <1>7, <2>1, <2>2, EpochsStay DEF HistoryInv, FlowInv
<1>9. ASSUME NEW c \in Briefs PROVE AccountInv(c)'
  <2>1. AccountInv(c) /\ \A x : Applied(x, c)' = Applied(x, c)
    BY <1>2, OthersApplied DEF HistoryInv, AccountsInv
  <2>2. RunsOf(c)' = RunsOf(c) /\ Cardinality(RunsOf(c)) \in Nat
    BY <1>7, RunsOfStay, CountsAreNat DEF FlowInv
  <2>3. cancelled[c] \in Nat
    BY DEF BriefTypes
  <2> QED
    BY <1>2, <1>3, <1>4, <1>5, <2>1, <2>2, <2>3 DEF AccountInv
<1> QED
  BY <1>6, <1>8, <1>9 DEF HistoryInv, AccountsInv

(* What leaves the briefs and their history alone.                         *)
LEMMA HistoryStays ==
  ASSUME BriefTypes, FlowTypes, HistoryInv, SameClaims,
         now' \in Nat, UNCHANGED <<brief, log, history>>
  PROVE  BriefTypes' /\ HistoryInv'
<1>1. UNCHANGED <<activations, granted, cancelled>>
  BY DEF history
<1>2. BriefTypes'
  BY <1>1 DEF BriefTypes
<1>3. EpochsInv'
  BY <1>1, EpochsStay DEF HistoryInv, BriefTypes
<1>4. ASSUME NEW c \in Briefs PROVE AccountInv(c)'
  <2>1. AccountInv(c) /\ \A x : Applied(x, c)' = Applied(x, c)
    BY OthersApplied DEF HistoryInv, AccountsInv
  <2>2. RunsOf(c)' = RunsOf(c)
    BY RunsOfStay
  <2> QED
    BY <1>1, <2>1, <2>2 DEF AccountInv
<1> QED
  BY <1>2, <1>3, <1>4 DEF HistoryInv, AccountsInv

-----------------------------------------------------------------------------
(* What a step does to the runs there are.                                 *)

SameBooked == \A i \in 1 .. Len(runs) : runs'[i].booked = runs[i].booked
ReportedStay ==
  \A i \in 1 .. Len(runs) : runs[i].status # "running" => runs'[i].status = runs[i].status

(* An edit of one run of its worker, of any of the fields a worker writes. *)
LEMMA EditEvolves ==
  ASSUME FlowTypes, NEW i \in 1 .. Len(runs), NEW r, Written(i, r),
         r.brief = runs[i].brief, r.version = runs[i].version, r.cadence = runs[i].cadence,
         r.epoch = runs[i].epoch, r.claimed = runs[i].claimed,
         runs[i].status # "running" => r.status = runs[i].status
  PROVE  /\ SameClaims /\ ReportedStay
         /\ r.booked = runs[i].booked => SameBooked
  BY DEF SameClaims, ReportedStay, SameBooked, Written

LEMMA RunsEvolve ==
  ASSUME FlowInv, NEW w \in Workers, Proceed(w), ~Claim(w)
  PROVE  SameClaims /\ ReportedStay /\ (Reserve(w) \/ SameBooked)
<1>1. CASE runs' = runs
  BY <1>1 DEF SameClaims, ReportedStay, SameBooked
<1>2. CASE runs' # runs
  <2>1. OpenRun(w) \/ Reserve(w) \/ Call(w) \/ Finalize(w) \/ Raise(w) \/ Report(w) \/ FinishFailed(w)
    BY <1>2 DEF Proceed, PauseUnbound, RefuseClaim, GoLive, EnterGuard
  <2>2. HasRun(w)
    BY <2>1 DEF OpenRun, Reserve, Call, Finalize, Raise, Report, FinishFailed, HasRun,
                Claimed, Unreported
  <2>3. PICK i \in 1 .. Len(runs) : i = at[w].run /\ runs[i] \in Run /\ runs \in Seq(Run)
    BY <2>2, OwnRun
  <2>4. ASSUME NEW s \in {"none", "running", "success", "failed"},
               runs' = [runs EXCEPT ![i].pipeline = s]
        PROVE  SameClaims /\ ReportedStay /\ SameBooked
    <3> DEFINE r == [runs[i] EXCEPT !.pipeline = s]
    <3>1. Written(i, r)
      BY <2>3, <2>4, SetPipelineWrites DEF FlowInv
    <3>2. /\ r.brief = runs[i].brief /\ r.version = runs[i].version
          /\ r.cadence = runs[i].cadence /\ r.epoch = runs[i].epoch
          /\ r.claimed = runs[i].claimed /\ r.status = runs[i].status
          /\ r.booked = runs[i].booked
      BY <2>3 DEF Run
    <3> HIDE DEF r
    <3> QED
      BY <3>1, <3>2, EditEvolves DEF FlowInv
  <2>5. ASSUME NEW s \in {"success", "failed"}, CloseRun(i, s)
        PROVE  SameClaims /\ ReportedStay /\ SameBooked
    <3> DEFINE r == [runs[i] EXCEPT !.status = IF @ = "running" THEN s ELSE @]
    <3>1. Written(i, r)
      BY <2>3, <2>5, CloseRunWrites DEF FlowInv
    <3>2. /\ r.brief = runs[i].brief /\ r.version = runs[i].version
          /\ r.cadence = runs[i].cadence /\ r.epoch = runs[i].epoch
          /\ r.claimed = runs[i].claimed /\ r.booked = runs[i].booked
          /\ runs[i].status # "running" => r.status = runs[i].status
      BY <2>3 DEF Run
    <3> HIDE DEF r
    <3> QED
      BY <3>1, <3>2, EditEvolves DEF FlowInv
  <2>6. CASE Reserve(w)
    <3> DEFINE r == [runs[i] EXCEPT !.booked = runs[i].booked + 1]
    <3>1. runs' = [runs EXCEPT ![i] = r]
      BY <2>3, <2>6 DEF Reserve
    <3>2. runs[i].booked + 1 \in Nat
      <4>1. runs[i].booked \in Nat
        BY <2>3 DEF Run
      <4> QED
        BY <4>1
    <3>3. Written(i, r)
      BY <2>3, <3>1, <3>2, RunEdit, RunWrite
    <3>4. /\ r.brief = runs[i].brief /\ r.version = runs[i].version
          /\ r.cadence = runs[i].cadence /\ r.epoch = runs[i].epoch
          /\ r.claimed = runs[i].claimed /\ r.status = runs[i].status
      BY <2>3 DEF Run
    <3> HIDE DEF r
    <3> QED
      BY <2>6, <3>3, <3>4, EditEvolves DEF FlowInv
  <2>7. CASE Call(w)
    <3>1. PICK n \in Nat : n = runs[i].called + 1
      <4>1. runs[i].called \in Nat
        BY <2>3 DEF Run
      <4> QED
        BY <4>1
    <3>2. CASE runs' = [runs EXCEPT ![at[w].run].called = @ + 1]
      <4> DEFINE r == [runs[i] EXCEPT !.called = n]
      <4>1. runs' = [runs EXCEPT ![i] = r]
        BY <2>3, <3>1, <3>2
      <4>2. Written(i, r)
        BY <2>3, <4>1, RunEdit, RunWrite
      <4>3. /\ r.brief = runs[i].brief /\ r.version = runs[i].version
            /\ r.cadence = runs[i].cadence /\ r.epoch = runs[i].epoch
            /\ r.claimed = runs[i].claimed /\ r.status = runs[i].status
            /\ r.booked = runs[i].booked
        BY <2>3 DEF Run
      <4> HIDE DEF r
      <4> QED
        BY <4>2, <4>3, EditEvolves DEF FlowInv
    <3>3. ASSUME NEW s \in {"running", "failed"},
                 runs' = [runs EXCEPT ![at[w].run].called = @ + 1, ![at[w].run].pipeline = s]
          PROVE  SameClaims /\ ReportedStay /\ SameBooked
      <4> DEFINE r == [runs[i] EXCEPT !.called = n, !.pipeline = s]
      <4>1. runs' = [runs EXCEPT ![i] = r]
        BY <2>3, <3>1, <3>3
      <4>2. Written(i, r)
        BY <2>3, <4>1, RunEdit, RunWrite
      <4>3. /\ r.brief = runs[i].brief /\ r.version = runs[i].version
            /\ r.cadence = runs[i].cadence /\ r.epoch = runs[i].epoch
            /\ r.claimed = runs[i].claimed /\ r.status = runs[i].status
            /\ r.booked = runs[i].booked
        BY <2>3 DEF Run
      <4> HIDE DEF r
      <4> QED
        BY <4>2, <4>3, EditEvolves DEF FlowInv
    <3> QED
      BY <2>7, <3>2, <3>3 DEF Call
  <2>8. CASE OpenRun(w) \/ Finalize(w) \/ Raise(w)
    <3>1. PICK s \in {"none", "running", "success", "failed"} :
            runs' = [runs EXCEPT ![i].pipeline = s]
      BY <1>2, <2>3, <2>8 DEF OpenRun, Finalize, Raise, SetPipeline
    <3> QED
      BY <3>1, <2>4
  <2>9. CASE Report(w) \/ FinishFailed(w)
    <3>1. PICK s \in {"success", "failed"} : CloseRun(i, s)
      BY <2>3, <2>9 DEF Report, FinishFailed
    <3> QED
      BY <3>1, <2>5
  <2> QED
    BY <2>1, <2>6, <2>7, <2>8, <2>9
<1> QED
  BY <1>1, <1>2

(* Only a claim, of a worker, makes a run, and only a reservation books.   *)
LEMMA StepEvolves ==
  ASSUME FlowInv, [Next]_vars, \A w \in Workers : ~Claim(w)
  PROVE  /\ SameClaims /\ ReportedStay
         /\ (\E w \in Workers : Reserve(w)) \/ (SameBooked /\ used' = used)
<1>1. ASSUME NEW w \in Workers, Proceed(w)
      PROVE  /\ SameClaims /\ ReportedStay
             /\ (\E v \in Workers : Reserve(v)) \/ (SameBooked /\ used' = used)
  <2>1. SameClaims /\ ReportedStay /\ (Reserve(w) \/ SameBooked)
    BY <1>1, RunsEvolve
  <2>2. Reserve(w) \/ used' = used
    BY <1>1 DEF Proceed, PauseUnbound, RefuseClaim, GoLive, OpenRun, EnterGuard, Call, Finalize,
                Raise, Report, FinishFailed, budget
  <2> QED
    BY <2>1, <2>2
<1>2. CASE runs' = runs /\ used' = used
  BY <1>2 DEF SameClaims, ReportedStay, SameBooked
<1>3. ASSUME NEW k \in Keys, UserAction(k) PROVE runs' = runs /\ used' = used
  BY <1>3 DEF UserAction, Create, Update, Activate, Pause, Archive, Mutate, budget
<1>4. Dispatch \/ OtherIntake \/ Tick \/ Midnight \/ SwitchProject \/ UNCHANGED vars
        => runs' = runs /\ used' = used
  BY DEF Dispatch, OtherIntake, Tick, Midnight, SwitchProject, vars, budget
<1>5. ASSUME NEW b, SwitchSubject(b) PROVE runs' = runs /\ used' = used
  BY <1>5 DEF SwitchSubject, budget
<1>6. ASSUME NEW w, (\E b \in Briefs : StartFlow(w, b)) \/ Crash(w) \/ LoseLock(w)
      PROVE  runs' = runs /\ used' = used
  BY <1>6 DEF StartFlow, Crash, LoseLock, budget
<1> QED
  BY <1>1, <1>2, <1>3, <1>4, <1>5, <1>6 DEF Next

LEMMA BriefsStay ==
  ASSUME BriefTypes, FlowInv, HistoryInv, [Next]_vars
  PROVE  BriefTypes' /\ HistoryInv'
<1>1. CASE \E w \in Workers : Claim(w)
  BY <1>1, ClaimHistory
<1>2. CASE \E w \in Workers : PauseUnbound(w)
  BY <1>2, PauseUnboundHistory
<1>3. CASE \E k \in Keys : UserAction(k)
  BY <1>3, UserActionStays DEF FlowInv
<1>4. CASE /\ \A w \in Workers : ~Claim(w) /\ ~PauseUnbound(w)
           /\ \A k \in Keys : ~UserAction(k)
  <2>1. SameClaims
    BY <1>4, StepEvolves
  <2>2. ASSUME NEW w \in Workers, Proceed(w)
        PROVE  UNCHANGED <<now, brief, log, history>>
    BY <1>4, <2>2 DEF Proceed, RefuseClaim, GoLive, OpenRun, EnterGuard, Reserve, Call, Finalize,
                      Raise, Report, FinishFailed, Quiet
  <2>3. now \in Nat
    BY DEF BriefTypes
  <2>4. Dispatch \/ OtherIntake \/ Midnight \/ SwitchProject \/ UNCHANGED vars
          => UNCHANGED <<now, brief, log, history>>
    BY DEF Dispatch, OtherIntake, Midnight, SwitchProject, vars
  <2>5. Tick => now' \in Nat /\ UNCHANGED <<brief, log, history>>
    BY <2>3 DEF Tick
  <2>6. ASSUME NEW b, SwitchSubject(b) PROVE UNCHANGED <<now, brief, log, history>>
    BY <2>6 DEF SwitchSubject
  <2>7. ASSUME NEW w, (\E b \in Briefs : StartFlow(w, b)) \/ Crash(w) \/ LoseLock(w)
        PROVE  UNCHANGED <<now, brief, log, history>>
    BY <2>7 DEF StartFlow, Crash, LoseLock
  <2>8. now' \in Nat /\ UNCHANGED <<brief, log, history>>
    BY <1>4, <2>2, <2>3, <2>4, <2>5, <2>6, <2>7 DEF Next
  <2> QED
    BY <2>1, <2>8, HistoryStays DEF FlowInv
<1> QED
  BY <1>1, <1>2, <1>3, <1>4

-----------------------------------------------------------------------------
(* What the days book is what the runs book.                               *)

LEMMA SumFacts ==
  ASSUME FlowTypes
  PROVE  /\ IsFiniteSet(0 .. MaxDay) /\ IsFiniteSet(1 .. Len(runs)) /\ Len(runs) \in Nat
         /\ \A d \in 0 .. MaxDay : used[d] \in Int
         /\ \A i \in 1 .. Len(runs) : Booked[i] = runs[i].booked /\ Booked[i] \in Int
<1>1. Len(runs) \in Nat /\ \A i \in 1 .. Len(runs) : runs[i] \in Run
  BY ElementOfSeq DEF FlowTypes
<1>2. IsFiniteSet(0 .. MaxDay) /\ IsFiniteSet(1 .. Len(runs))
  BY <1>1, FS_Interval, BoundAssumption
<1>3. \A i \in 1 .. Len(runs) : Booked[i] = runs[i].booked /\ Booked[i] \in Int
  BY <1>1 DEF Booked, Run
<1> QED
  BY <1>1, <1>2, <1>3 DEF FlowTypes

LEMMA ReserveSums ==
  ASSUME FlowInv, FlowInv', SumInv, NEW w \in Workers, Reserve(w)
  PROVE  SumInv'
<1>1. HasRun(w) /\ today \in 0 .. MaxDay
  BY DEF Reserve, HasRun, Claimed, Unreported, FlowInv, FlowTypes
<1>2. PICK i \in 1 .. Len(runs) : i = at[w].run /\ runs[i] \in Run /\ runs \in Seq(Run)
  BY <1>1, OwnRun
<1>3. /\ used' = [used EXCEPT ![today] = used[today] + 1]
      /\ runs' = [runs EXCEPT ![i] = [runs[i] EXCEPT !.booked = runs[i].booked + 1]]
  BY <1>2 DEF Reserve, Bump
<1>4. PICK d \in 0 .. MaxDay : d = today
  BY <1>1
<1>5. used'[d] = used[d] + 1 /\ \A x \in (0 .. MaxDay) \ {d} : used[x] = used'[x]
  BY <1>3, <1>4 DEF FlowInv, FlowTypes
<1>6. Len(runs') = Len(runs)
  <2>1. runs[i].booked + 1 \in Nat
    <3>1. runs[i].booked \in Nat
      BY <1>2 DEF Run
    <3> QED
      BY <3>1
  <2>2. [runs[i] EXCEPT !.booked = runs[i].booked + 1] \in Run
    BY <1>2, <2>1, RunEdit
  <2> QED
    BY <1>2, <1>3, <2>2, ExceptSeq
<1>7. /\ \A j \in 1 .. Len(runs) : Booked[j] = runs[j].booked /\ Booked'[j] = runs'[j].booked
  BY <1>6 DEF Booked
<1>8. Booked'[i] = Booked[i] + 1 /\ \A j \in (1 .. Len(runs)) \ {i} : Booked[j] = Booked'[j]
  <2> DEFINE r == [runs[i] EXCEPT !.booked = runs[i].booked + 1]
  <2>2. r.booked = runs[i].booked + 1
    BY <1>2 DEF Run
  <2>3. runs' = [runs EXCEPT ![i] = r]
    BY <1>3
  <2> HIDE DEF r
  <2>1. runs'[i].booked = runs[i].booked + 1 /\ \A j \in (1 .. Len(runs)) \ {i} : runs'[j] = runs[j]
    BY <1>2, <2>2, <2>3
  <2> QED
    BY <1>7, <2>1
<1>9. /\ IsFiniteSet(0 .. MaxDay) /\ IsFiniteSet(1 .. Len(runs))
      /\ \A x \in 0 .. MaxDay : used[x] \in Int /\ used'[x] \in Int
      /\ \A j \in 1 .. Len(runs) : Booked[j] \in Int /\ Booked'[j] \in Int
  <2>1. /\ IsFiniteSet(0 .. MaxDay) /\ IsFiniteSet(1 .. Len(runs))
        /\ \A x \in 0 .. MaxDay : used[x] \in Int
        /\ \A j \in 1 .. Len(runs) : Booked[j] \in Int
    BY SumFacts DEF FlowInv
  <2>2. \A x \in 0 .. MaxDay : used'[x] \in Int
    BY <1>5, <2>1
  <2>3. \A j \in 1 .. Len(runs) : Booked'[j] \in Int
    BY <1>8, <2>1
  <2> QED
    BY <2>1, <2>2, <2>3
<1>10. SumFunctionOnSet(used', 0 .. MaxDay) = SumFunctionOnSet(used, 0 .. MaxDay) + 1
  <2>1. IsFiniteSet(0 .. MaxDay) /\ \A x \in 0 .. MaxDay : used[x] \in Int
    BY <1>9
  <2>2. \A x \in 0 .. MaxDay : x # d => used'[x] = used[x]
    BY <1>5
  <2> QED
    BY <1>5, <2>1, <2>2, SumBump
<1>11. SumFunctionOnSet(Booked', 1 .. Len(runs)) = SumFunctionOnSet(Booked, 1 .. Len(runs)) + 1
  <2>1. IsFiniteSet(1 .. Len(runs)) /\ \A j \in 1 .. Len(runs) : Booked[j] \in Int
    BY <1>9
  <2>2. \A j \in 1 .. Len(runs) : j # i => Booked'[j] = Booked[j]
    BY <1>8
  <2> QED
    BY <1>8, <2>1, <2>2, SumBump
<1> QED
  BY <1>6, <1>10, <1>11 DEF SumInv

LEMMA ClaimSums ==
  ASSUME BriefTypes, FlowInv, SumInv, NEW w \in Workers, Claim(w)
  PROVE  SumInv'
<1>1. PICK b \in Briefs :
        /\ Len(runs') = Len(runs) + 1
        /\ \A i \in 1 .. Len(runs) : runs'[i] = runs[i]
        /\ runs'[Len(runs) + 1] = NewRun(b)
  BY ClaimAppends
<1>2. /\ IsFiniteSet(0 .. MaxDay) /\ IsFiniteSet(1 .. Len(runs)) /\ Len(runs) \in Nat
      /\ \A i \in 1 .. Len(runs) : Booked[i] = runs[i].booked /\ Booked[i] \in Int
  BY SumFacts DEF FlowInv
<1>3. PICK n \in Nat : n = Len(runs) + 1
  BY <1>2
<1>4. 1 .. Len(runs') = (1 .. Len(runs)) \cup {n} /\ n \notin 1 .. Len(runs)
  BY <1>1, <1>2, <1>3
<1>5. Booked'[n] = 0 /\ \A i \in 1 .. Len(runs) : Booked'[i] = Booked[i]
  BY <1>1, <1>2, <1>3 DEF Booked, NewRun
<1>6. SumFunctionOnSet(Booked', (1 .. Len(runs)) \cup {n})
        = SumFunctionOnSet(Booked', 1 .. Len(runs)) + Booked'[n]
  <2>1. \A x \in (1 .. Len(runs)) \cup {n} : Booked'[x] \in Int
    BY <1>2, <1>5
  <2> QED
    BY <1>2, <1>4, <2>1, SumAdd
<1>7. SumFunctionOnSet(Booked', 1 .. Len(runs)) = SumFunctionOnSet(Booked, 1 .. Len(runs))
  BY <1>2, <1>5, SumSame
<1>8. SumFunctionOnSet(Booked, 1 .. Len(runs)) \in Int
  BY <1>2, SumType
<1>9. used' = used
  BY DEF Claim, budget
<1>10. SumFunctionOnSet(Booked', 1 .. Len(runs')) = SumFunctionOnSet(Booked, 1 .. Len(runs)) + 0
  BY <1>4, <1>5, <1>6, <1>7
<1>11. SumFunctionOnSet(Booked', 1 .. Len(runs')) = SumFunctionOnSet(Booked, 1 .. Len(runs))
  BY <1>8, <1>10
<1> QED
  BY <1>9, <1>11 DEF SumInv

LEMMA SumStays ==
  ASSUME BriefTypes, FlowInv, FlowInv', SumInv, [Next]_vars
  PROVE  SumInv'
<1>1. CASE \E w \in Workers : Claim(w)
  BY <1>1, ClaimSums
<1>2. CASE \E w \in Workers : Reserve(w)
  BY <1>2, ReserveSums
<1>3. CASE (\A w \in Workers : ~Claim(w)) /\ ~\E w \in Workers : Reserve(w)
  <2>1. SameBooked /\ used' = used /\ Len(runs') = Len(runs)
    BY <1>3, StepEvolves DEF SameClaims
  <2>2. \A i \in 1 .. Len(runs) : Booked'[i] = Booked[i]
    BY <2>1 DEF Booked, SameBooked
  <2>3. IsFiniteSet(1 .. Len(runs))
    BY SumFacts DEF FlowInv
  <2>4. SumFunctionOnSet(Booked', 1 .. Len(runs)) = SumFunctionOnSet(Booked, 1 .. Len(runs))
    BY <2>2, <2>3, SumSame
  <2> QED
    BY <2>1, <2>4 DEF SumInv
<1> QED
  BY <1>1, <1>2, <1>3

-----------------------------------------------------------------------------

(* Every reachable state keeps what the workers find at their steps, what  *)
(* the history of each brief adds up to, and what the days book.           *)
THEOREM Invariance == Spec => [](IndInv /\ HistoryInv /\ SumInv)
<1>1. Init => IndInv /\ HistoryInv /\ SumInv
  BY Initially DEF HistoryInv
<1>2. IndInv /\ HistoryInv /\ SumInv /\ [Next]_vars => (IndInv /\ HistoryInv /\ SumInv)'
  <2> SUFFICES ASSUME IndInv, HistoryInv, SumInv, [Next]_vars
               PROVE  (IndInv /\ HistoryInv /\ SumInv)'
    OBVIOUS
  <2>1. BriefTypes /\ FlowInv
    BY Parts DEF FlowInv
  <2>2. FlowInv' /\ BriefTypes' /\ HistoryInv'
    BY <2>1, FlowStays, BriefsStay
  <2>3. SumInv'
    BY <2>1, <2>2, SumStays
  <2>4. IndInv'
    <3>1. BriefTypes' /\ FlowTypes' /\ WorkersInv'
      BY <2>2 DEF FlowInv
    <3> QED
      BY <3>1, Parts, PTL
  <2> QED
    BY <2>2, <2>3, <2>4
<1> QED
  BY <1>1, <1>2, PTL DEF Spec

(* Every due time a brief was given became one run, was withdrawn, or is   *)
(* to come; an action is applied once for its key; the runs of an          *)
(* activation are of one version and a cadence apart (_claim and _mutate). *)
THEOREM DueTimesAreAccounted == Spec => []RunsAccounted
<1>1. IndInv /\ HistoryInv => RunsAccounted
  BY DEF IndInv, HistoryInv, AccountsInv, AccountInv, EpochsInv, Spaced, RunsAccounted
<1> QED
  BY <1>1, Invariance, PTL

(* A call is made in scope, within the run's limit, and booked once before *)
(* it is made (run_live's call gate and the transport guard).              *)
THEOREM CallsAreBooked == Spec => []CallsBooked
<1>1. IndInv /\ SumInv => CallsBooked
  BY DEF IndInv, WorkerInv, RunInv, SumInv, CallsBooked
<1> QED
  BY <1>1, Invariance, PTL

(* A reported success is a closed run, and a reported run stays as it was  *)
(* reported (_finish).                                                     *)
THEOREM ReportsStayTrue == Spec => ReportsTrue
<1>1. IndInv /\ IndInv' /\ [Next]_vars =>
        [\A i \in 1 .. Len(runs) :
           /\ runs'[i].status = "success" => runs'[i].pipeline = "success"
           /\ runs[i].status # "running" => runs'[i].status = runs[i].status]_runs
  <2> SUFFICES ASSUME IndInv, IndInv', [Next]_vars, NEW i \in 1 .. Len(runs)
               PROVE  /\ runs'[i].status = "success" => runs'[i].pipeline = "success"
                      /\ runs[i].status # "running" => runs'[i].status = runs[i].status
    OBVIOUS
  <2>1. BriefTypes /\ FlowInv
    BY Parts DEF FlowInv
  <2>2. i \in 1 .. Len(runs') /\ (runs[i].status # "running" => runs'[i].status = runs[i].status)
    <3>1. CASE \E w \in Workers : Claim(w)
      <4>1. Len(runs') = Len(runs) + 1 /\ runs'[i] = runs[i] /\ Len(runs) \in Nat
        BY <2>1, <3>1, ClaimAppends DEF FlowInv, FlowTypes
      <4> QED
        BY <4>1
    <3>2. CASE \A w \in Workers : ~Claim(w)
      BY <2>1, <3>2, StepEvolves DEF SameClaims, ReportedStay
    <3> QED
      BY <3>1, <3>2
  <2> QED
    BY <2>2 DEF IndInv, RunInv
<1> QED
  BY <1>1, Invariance, PTL DEF Spec, ReportsTrue
=============================================================================
