--------------------------- MODULE ResearchBrief ---------------------------
(***************************************************************************)
(* The control plane of user-authored research: the mutations of           *)
(* mutate_research_brief.py, the hourly dispatcher, and the worker that    *)
(* claims a due brief and runs it (run_research_brief.py and run_live of   *)
(* l0l1/research_briefs.py), making its paid calls under the provider's    *)
(* transport guard.                                                        *)
(*                                                                         *)
(* One action is one transaction or one external call. Every transaction   *)
(* that stores a timestamp another one is compared with moves the clock.   *)
(***************************************************************************)
EXTENDS Integers, Sequences, FiniteSetsExt, Functions

CONSTANTS
  Briefs,      \* brief ids, ordered as the database orders them
  Project,     \* those owned by a project, each with a subject of its own
  Existing,    \* briefs already active and due at the start
  Legacy,      \* the project briefs among them from before subjects existed
  Workers,     \* concurrent workers of the brief flow
  Keys,        \* idempotency keys of user actions
  Cadences,    \* cadence_hours a user may choose; 0 is a one-time brief
  Batch,       \* how many due briefs one dispatch takes
  MaxCalls,    \* RESEARCH_BRIEF_MAX_EXTERNAL_CALLS
  LockDrops,   \* may the session that holds the lock be lost?
  MaxTime,     \* bound: the clock stops here
  MaxDay,      \* bound: the last budget date
  NoBrief, NoWorker, OtherJob

ASSUME BriefAssumption ==
  /\ IsFiniteSet(Briefs) /\ Briefs \subseteq Nat
  /\ Project \subseteq Briefs /\ Existing \subseteq Briefs
  /\ Legacy \subseteq Project \cap Existing
  /\ NoBrief \notin Briefs

ASSUME WorkerAssumption ==
  /\ NoWorker \notin Workers /\ OtherJob \notin Workers /\ NoWorker # OtherJob
  /\ LockDrops \in BOOLEAN

ASSUME BoundAssumption ==
  /\ IsFiniteSet(Keys)
  /\ Cadences \subseteq Nat
  /\ Batch \in Nat /\ MaxCalls \in Nat /\ MaxTime \in Nat /\ MaxDay \in Nat

VARIABLES
  now,         \* the database clock
  brief,       \* research_brief by id
  log,         \* research_user_action by idempotency key
  runs,        \* research_brief_run, with the pipeline_run each made
  projectOn,   \* the project and its organization are active
  subjects,    \* project briefs whose subject is active
  queue,       \* briefs a flow is queued for
  lock,        \* holder of the advisory lock LOCK_NAME
  pc,          \* pc[w]: what worker w does next
  at,          \* at[w]: its brief, and the run it claimed (0: none)
  today,       \* date.today()
  configured,  \* dates with a daily_budget row
  used,        \* daily_budget.used_requests by date
  activations, \* history: activations of each brief
  granted,     \* history: due times set for each brief
  cancelled    \* history: due times removed without a run

flow == <<queue, lock, pc, at>>
scope == <<projectOn, subjects>>
budget == <<today, configured, used>>
history == <<activations, granted, cancelled>>
vars == <<now, brief, log, runs, scope, flow, budget, history>>

NoAction == [action |-> "none", brief |-> NoBrief]
Actions == {"create", "update", "activate", "pause", "archive"}
Never == 0  \* next_due_at is null

Brief == [status : {"absent", "draft", "active", "paused", "archived"},
          bound : BOOLEAN,   \* subject_id is not null
          gate : {"not_applicable", "ready", "subject_required"},
          cadence : Cadences \cup {0},
          version : Nat, due : Nat]
Run == [brief : Briefs, version : Nat, due : Nat, cadence : Nat,
        epoch : Nat,   \* history: the activation it was claimed under
        claimed : Nat, status : {"running", "success", "failed"},
        pipeline : {"none", "running", "success", "failed"},
        booked : Nat, called : Nat]

Steps == {"idle", "claim", "live", "open", "work", "guarded", "calling",
          "report", "fail"}

TypeOK ==
  /\ now \in Nat
  /\ brief \in [Briefs -> Brief]
  /\ log \in [Keys -> [action : Actions \cup {"none"}, brief : Briefs \cup {NoBrief}]]
  /\ runs \in Seq(Run)
  /\ projectOn \in BOOLEAN /\ subjects \subseteq Project
  /\ queue \subseteq Briefs
  /\ lock \in Workers \cup {NoWorker, OtherJob}
  /\ pc \in [Workers -> Steps]
  /\ at \in [Workers -> [brief : Briefs \cup {NoBrief}, run : 0 .. Len(runs)]]
  /\ today \in Nat /\ configured \subseteq 0 .. MaxDay
  /\ used \in [0 .. MaxDay -> Nat]
  /\ activations \in [Briefs -> Nat] /\ granted \in [Briefs -> Nat]
  /\ cancelled \in [Briefs -> Nat]
  /\ \A b \in Briefs : brief[b].status = "active" => brief[b].due # Never

Absent == [status |-> "absent", bound |-> FALSE, gate |-> "not_applicable",
           cadence |-> 0, version |-> 0, due |-> Never]
ActiveAtStart(b) ==
  [status |-> "active", bound |-> b \in Project \ Legacy,
   gate |-> IF b \in Project \ Legacy THEN "ready" ELSE "not_applicable",
   cadence |-> 0, version |-> 1, due |-> 1]

Init ==
  /\ now = 1
  /\ brief = [b \in Briefs |-> IF b \in Existing THEN ActiveAtStart(b) ELSE Absent]
  /\ log = [k \in Keys |-> NoAction]
  /\ runs = << >>
  /\ projectOn = TRUE /\ subjects = Project
  /\ queue = {}
  /\ lock = NoWorker
  /\ pc = [w \in Workers |-> "idle"]
  /\ at = [w \in Workers |-> [brief |-> NoBrief, run |-> 0]]
  /\ today = 0 /\ configured = {} /\ used = [d \in 0 .. MaxDay |-> 0]
  /\ activations = [b \in Briefs |-> 0]
  /\ granted = [b \in Briefs |-> IF b \in Existing THEN 1 ELSE 0]
  /\ cancelled = [b \in Briefs |-> 0]

-----------------------------------------------------------------------------
(* User actions: _mutate. The idempotency key, the change and the outcome  *)
(* commit together; a conflict rolls all three back.                       *)

Bump(f, x) == [f EXCEPT ![x] = @ + 1]

(* Mutant: a repeated request is applied again. *)
FreshOrRepeated(k, a, b) == log[k] \in {NoAction, [action |-> a, brief |-> b]}

(* _claim: a key that has an outcome replays it, or is a conflict. *)
Fresh(k, a, b) == log[k] = NoAction

Mutate(k, a, b) ==
  /\ Fresh(k, a, b)
  /\ b \in Project => projectOn
  /\ log' = [log EXCEPT ![k] = [action |-> a, brief |-> b]]
  /\ UNCHANGED <<runs, scope, flow, budget>>

SubjectActive(b) == b \in Project => b \in subjects

Create(k, b, c) ==
  /\ Mutate(k, "create", b)
  /\ SubjectActive(b)
  /\ brief[b].status = "absent"
  /\ brief' = [brief EXCEPT ![b] =
       [status |-> "draft", bound |-> b \in Project,
        gate |-> IF b \in Project THEN "ready" ELSE "not_applicable",
        cadence |-> c, version |-> 1, due |-> Never]]
  /\ UNCHANGED <<now, history>>

(* Mutant: an active brief is edited. *)
EditableActive(b) == brief[b].status \in {"draft", "paused", "active"}

Editable(b) == brief[b].status \in {"draft", "paused"}

Update(k, b, c) ==
  /\ Mutate(k, "update", b)
  /\ SubjectActive(b)
  /\ Editable(b)
  /\ brief' = [brief EXCEPT ![b].bound = b \in Project,
       ![b].gate = IF b \in Project THEN "ready" ELSE "not_applicable",
       ![b].cadence = c, ![b].version = @ + 1]
  /\ UNCHANGED <<now, history>>

Activate(k, b) ==
  /\ Mutate(k, "activate", b)
  /\ SubjectActive(b)
  /\ b \in Project => brief[b].bound /\ brief[b].gate = "ready"
  /\ brief[b].status \in {"draft", "paused"}
  /\ now < MaxTime
  /\ now' = now + 1
  /\ brief' = [brief EXCEPT ![b].status = "active", ![b].due = now']
  /\ activations' = Bump(activations, b)
  /\ granted' = Bump(granted, b)
  /\ UNCHANGED cancelled

(* An active brief loses the due time it has. *)
Withdraw(b) == cancelled' = IF brief[b].status = "active" THEN Bump(cancelled, b) ELSE cancelled

Pause(k, b) ==
  /\ Mutate(k, "pause", b)
  /\ brief[b].status = "active"
  /\ brief' = [brief EXCEPT ![b].status = "paused", ![b].due = Never]
  /\ Withdraw(b)
  /\ UNCHANGED <<now, activations, granted>>

Archive(k, b) ==
  /\ Mutate(k, "archive", b)
  /\ brief[b].status \notin {"absent", "archived"}
  /\ brief' = [brief EXCEPT ![b].status = "archived", ![b].due = Never]
  /\ Withdraw(b)
  /\ UNCHANGED <<now, activations, granted>>

-----------------------------------------------------------------------------
(* The dispatcher: dispatch_due_research_briefs.py.                        *)

IsDue(b) == brief[b].status = "active" /\ brief[b].due <= now

(* _due does not look at the subject. *)
DueNow == {b \in Briefs : IsDue(b) /\ (b \in Project => projectOn)}

Earlier(a, b) ==
  \/ brief[a].due < brief[b].due
  \/ brief[a].due = brief[b].due /\ a < b

(* order by next_due_at, id limit Batch. *)
FirstDue == {b \in DueNow : Cardinality({a \in DueNow : Earlier(a, b)}) < Batch}

Dispatch ==
  /\ queue' = queue \cup FirstDue
  /\ UNCHANGED <<now, brief, log, runs, scope, lock, pc, at, budget, history>>

-----------------------------------------------------------------------------
(* The worker: run_research_brief.py.                                      *)

Goto(w, step) == pc' = [pc EXCEPT ![w] = step]
Mine(w) == runs[at[w].run]
Owner(w) == Mine(w).brief

(* main returns or raises; the lock is given back if it still holds it. *)
Leave(w) ==
  /\ Goto(w, "idle")
  /\ at' = [at EXCEPT ![w] = [brief |-> NoBrief, run |-> 0]]
  /\ lock' = IF lock = w THEN NoWorker ELSE lock

(* A flow whose lock is taken ends deferred. *)
StartFlow(w, b) ==
  /\ pc[w] = "idle"
  /\ b \in queue
  /\ queue' = queue \ {b}
  /\ \/ /\ lock = NoWorker
        /\ lock' = w
        /\ at' = [at EXCEPT ![w].brief = b]
        /\ Goto(w, "claim")
     \/ lock # NoWorker /\ UNCHANGED <<lock, at, pc>>
  /\ UNCHANGED <<now, brief, log, runs, scope, budget, history>>

(* The process dies: nothing is written, row locks and advisory lock go. *)
Crash(w) ==
  /\ pc[w] # "idle"
  /\ Leave(w)
  /\ UNCHANGED <<now, brief, log, runs, scope, queue, budget, history>>

LoseLock(w) ==
  /\ LockDrops
  /\ lock = w
  /\ lock' = NoWorker
  /\ UNCHANGED <<now, brief, log, runs, scope, queue, pc, at, budget, history>>

(* golden intake runs under the same lock. *)
OtherIntake ==
  /\ lock \in {NoWorker, OtherJob}
  /\ lock' = IF lock = NoWorker THEN OtherJob ELSE NoWorker
  /\ UNCHANGED <<now, brief, log, runs, scope, queue, pc, at, budget, history>>

Claimable(b) ==
  /\ IsDue(b)
  /\ b \in Project => /\ projectOn /\ b \in subjects
                      /\ brief[b].bound /\ brief[b].gate = "ready"

DispatchKey(r) == <<r.brief, r.version, r.due>>
NewRun(b) == [brief |-> b, version |-> brief[b].version, due |-> brief[b].due,
              cadence |-> brief[b].cadence, epoch |-> activations[b],
              claimed |-> now, status |-> "running", pipeline |-> "none",
              booked |-> 0, called |-> 0]
KeyFree(b) == \A i \in 1 .. Len(runs) : DispatchKey(runs[i]) # DispatchKey(NewRun(b))

(* Mutant: the next due time is counted from the one that was due. *)
RearmedFromDue(b) ==
  [brief[b] EXCEPT !.status = IF @ = "active" /\ brief[b].cadence = 0 THEN "paused" ELSE @,
                   !.due = IF brief[b].cadence = 0 THEN Never ELSE @ + brief[b].cadence]

(* Mutant: a one-time brief stays active. *)
StaysDue(b) ==
  [brief[b] EXCEPT !.due = IF brief[b].cadence = 0 THEN @ ELSE now + brief[b].cadence]

(* What a claim leaves of the brief: paused, or due a cadence from now. *)
Rearmed(b) ==
  IF brief[b].cadence = 0
  THEN [brief[b] EXCEPT !.status = "paused", !.due = Never]
  ELSE [brief[b] EXCEPT !.due = now + brief[b].cadence]

RunsOf(b) == {i \in 1 .. Len(runs) : runs[i].brief = b}

(* _claim of a due brief, one transaction. *)
Claim(w) ==
  LET b == at[w].brief IN
  /\ pc[w] = "claim"
  /\ Claimable(b) /\ KeyFree(b)
  /\ runs' = Append(runs, NewRun(b))
  /\ brief' = [brief EXCEPT ![b] = Rearmed(b)]
  /\ granted' = IF brief[b].cadence = 0 THEN granted ELSE Bump(granted, b)
  /\ at' = [at EXCEPT ![w].run = Len(runs')]
  /\ Goto(w, "live")
  /\ UNCHANGED <<now, log, scope, queue, lock, budget, activations, cancelled>>

Unbound(b) == brief[b].status = "active" /\ b \in Project /\ ~brief[b].bound

(* A project brief without a subject is paused until it gets one. *)
PauseUnbound(w) ==
  LET b == at[w].brief IN
  /\ pc[w] = "claim"
  /\ Unbound(b)
  /\ brief' = [brief EXCEPT ![b].status = "paused", ![b].due = Never,
                            ![b].gate = "subject_required"]
  /\ Withdraw(b)
  /\ Leave(w)
  /\ UNCHANGED <<now, log, runs, scope, queue, budget, activations, granted>>

(* Not due any more, or out of scope: the brief is left as it is. *)
RefuseClaim(w) ==
  LET b == at[w].brief IN
  /\ pc[w] = "claim"
  /\ ~Unbound(b) /\ ~(Claimable(b) /\ KeyFree(b))
  /\ Leave(w)
  /\ UNCHANGED <<now, brief, log, runs, scope, queue, budget, history>>

-----------------------------------------------------------------------------
(* run_live: the run and its paid calls.                                   *)

InScope(b) == b \in Project => projectOn /\ b \in subjects
Quiet == UNCHANGED <<now, brief, log, scope, queue, lock, at, history>>
SetPipeline(w, s) == runs' = [runs EXCEPT ![at[w].run].pipeline = s]

(* _ensure_active_project, then the day's budget row. *)
GoLive(w) ==
  /\ pc[w] = "live"
  /\ InScope(Owner(w))
  /\ configured' = configured \cup {today}
  /\ Goto(w, "open")
  /\ Quiet /\ UNCHANGED <<runs, today, used>>

OpenRun(w) ==
  /\ pc[w] = "open"
  /\ SetPipeline(w, "running")
  /\ Goto(w, "work")
  /\ Quiet /\ UNCHANGED budget

(* Mutant: the guard reads the scope and does not hold it. *)
GuardReleased(w) == FALSE

(* The transport guard's FOR SHARE locks are held through the call. *)
GuardHeld(w) == pc[w] \in {"guarded", "calling"} /\ Owner(w) \in Project

(* An uncached call: the guard comes before the reservation. *)
EnterGuard(w) ==
  /\ pc[w] = "work"
  /\ InScope(Owner(w))
  /\ Goto(w, "guarded")
  /\ Quiet /\ UNCHANGED <<runs, budget>>

(* Mutant: the calls of a run are not counted. *)
AnyCall(w) == today \in configured

(* _run_call_gate, and DailyBudgetGuard.acquire with no limits set. *)
MayCall(w) == Mine(w).booked < MaxCalls /\ today \in configured

Reserve(w) ==
  /\ pc[w] = "guarded"
  /\ MayCall(w)
  /\ used' = Bump(used, today)
  /\ runs' = [runs EXCEPT ![at[w].run].booked = @ + 1]
  /\ Goto(w, "calling")
  /\ Quiet /\ UNCHANGED <<today, configured>>

(* The provider answers, or raises. *)
Call(w) ==
  /\ pc[w] = "calling"
  /\ \/ Goto(w, "work") /\ runs' = [runs EXCEPT ![at[w].run].called = @ + 1]
     \/ /\ Goto(w, "fail")
        /\ \E s \in {"running", "failed"} :
             runs' = [runs EXCEPT ![at[w].run].called = @ + 1, ![at[w].run].pipeline = s]
  /\ Quiet /\ UNCHANGED budget

(* Mutant: the run is reported before it is closed. *)
FinalizeUnsaved(w) ==
  /\ pc[w] = "work"
  /\ Goto(w, "report")
  /\ Quiet /\ UNCHANGED <<runs, budget>>

Finalize(w) ==
  /\ pc[w] = "work"
  /\ SetPipeline(w, "success")
  /\ Goto(w, "report")
  /\ Quiet /\ UNCHANGED budget

(* An exception; the runner closes the pipeline run it opened, if it can. *)
Raise(w) ==
  /\ pc[w] \in {"live", "open", "work", "guarded", "report"}
  /\ \/ UNCHANGED runs
     \/ Mine(w).pipeline = "running" /\ SetPipeline(w, "failed")
  /\ Goto(w, "fail")
  /\ Quiet /\ UNCHANGED budget

(* Mutant: a run is closed whatever its status is. *)
CloseAlways(i, s) == runs' = [runs EXCEPT ![i].status = s]

(* _finish, where status = 'running'. *)
CloseRun(i, s) == runs' = [runs EXCEPT ![i].status = IF @ = "running" THEN s ELSE @]

(* The success is committed, its acknowledgement may be lost. *)
Report(w) ==
  /\ pc[w] = "report"
  /\ CloseRun(at[w].run, "success")
  /\ \/ Leave(w)
     \/ Goto(w, "fail") /\ UNCHANGED <<lock, at>>
  /\ UNCHANGED <<now, brief, log, scope, queue, budget, history>>

FinishFailed(w) ==
  /\ pc[w] = "fail"
  /\ CloseRun(at[w].run, "failed")
  /\ Leave(w)
  /\ UNCHANGED <<now, brief, log, scope, queue, budget, history>>

-----------------------------------------------------------------------------
(* Environment: time, and operators who pause a project or a subject. They *)
(* wait for the guards that hold its row.                                  *)

Tick ==
  /\ now < MaxTime
  /\ now' = now + 1
  /\ UNCHANGED <<brief, log, runs, scope, flow, budget, history>>

Midnight ==
  /\ today < MaxDay
  /\ today' = today + 1
  /\ UNCHANGED <<now, brief, log, runs, scope, flow, configured, used, history>>

SwitchProject ==
  /\ \A w \in Workers : ~GuardHeld(w)
  /\ projectOn' = ~projectOn
  /\ UNCHANGED <<now, brief, log, runs, subjects, flow, budget, history>>

SwitchSubject(b) ==
  /\ \A w \in Workers : GuardHeld(w) => Owner(w) # b
  /\ subjects' = IF b \in subjects THEN subjects \ {b} ELSE subjects \cup {b}
  /\ UNCHANGED <<now, brief, log, runs, projectOn, flow, budget, history>>

UserAction(k) ==
  \E b \in Briefs :
    \/ \E c \in Cadences : Create(k, b, c) \/ Update(k, b, c)
    \/ Activate(k, b) \/ Pause(k, b) \/ Archive(k, b)

Proceed(w) ==
  \/ Claim(w) \/ PauseUnbound(w) \/ RefuseClaim(w)
  \/ GoLive(w) \/ OpenRun(w) \/ EnterGuard(w) \/ Reserve(w) \/ Call(w)
  \/ Finalize(w) \/ Raise(w) \/ Report(w) \/ FinishFailed(w)

Next ==
  \/ \E k \in Keys : UserAction(k)
  \/ Dispatch \/ OtherIntake \/ Tick \/ Midnight \/ SwitchProject
  \/ \E b \in Project : SwitchSubject(b)
  \/ \E w \in Workers :
       \/ \E b \in Briefs : StartFlow(w, b)
       \/ Proceed(w) \/ Crash(w) \/ LoseLock(w)

Spec == Init /\ [][Next]_vars
-----------------------------------------------------------------------------
(* Properties.                                                             *)

Applied(a, b) == Cardinality({k \in Keys : log[k] = [action |-> a, brief |-> b]})

(* What a user authorised is what runs, once. Every due time a brief was   *)
(* ever given, by an activation or by the claim of a cyclic brief, became  *)
(* exactly one run, or was withdrawn by a pause, or is still to come. A    *)
(* user action changes the brief once for each idempotency key, however    *)
(* often it is sent. The runs of one activation are of one version, as a   *)
(* brief is only edited while paused, and a cadence apart, whatever the    *)
(* dispatcher missed meanwhile; a one-time brief runs once: no catching up *)
(* after downtime (docs/RESEARCH_BRIEF_CONTROL_CENTER_V1.md:74).           *)
RunsAccounted ==
  /\ TypeOK
  /\ \A b \in Briefs :
       /\ granted[b] = Cardinality(RunsOf(b)) + cancelled[b]
                        + (IF brief[b].status = "active" THEN 1 ELSE 0)
       /\ activations[b] = Applied("activate", b)
       /\ brief[b].version = Applied("update", b) + Applied("create", b)
                             + (IF b \in Existing THEN 1 ELSE 0)
  /\ \A i, j \in 1 .. Len(runs) :
       i < j /\ runs[i].brief = runs[j].brief /\ runs[i].epoch = runs[j].epoch =>
         /\ runs[i].version = runs[j].version
         /\ runs[i].cadence > 0
         /\ runs[j].claimed >= runs[i].claimed + runs[i].cadence

Booked == [i \in 1 .. Len(runs) |-> runs[i].booked]

(* While a paid call of a project brief is reserved and made, its project  *)
(* and subject are active: pausing waits for the call, or stops it. No run *)
(* makes more than MaxCalls calls, each is booked before it is made and    *)
(* booked once, on some day.                                               *)
CallsBooked ==
  /\ \A w \in Workers : pc[w] \in {"guarded", "calling"} => InScope(Owner(w))
  /\ \A i \in 1 .. Len(runs) :
       runs[i].called <= runs[i].booked /\ runs[i].booked <= MaxCalls
  /\ SumFunctionOnSet(used, 0 .. MaxDay) = SumFunctionOnSet(Booked, 1 .. Len(runs))

(* A run is only reported a success when its pipeline run is closed as     *)
(* one, and a reported run is never rewritten, not even by the handler of  *)
(* a failure that comes after the report.                                  *)
ReportsTrue ==
  [][\A i \in 1 .. Len(runs) :
       /\ runs'[i].status = "success" => runs'[i].pipeline = "success"
       /\ runs[i].status # "running" => runs'[i].status = runs[i].status]_runs
=============================================================================
