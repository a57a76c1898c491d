-------------------------- MODULE AnalysisSchedule --------------------------
(***************************************************************************)
(* The scheduled parents of paid analysis (reviewed_dispatch.py and        *)
(* poll_pending_asr.py) and the child scripts they wait for, on one pool   *)
(* of Windmill workers. A parent keeps its worker while it waits, so the   *)
(* parents share a session advisory lock, the slot: one that does not get  *)
(* it ends deferred.                                                       *)
(*                                                                         *)
(* One action is one transaction, or one call of a parent to Windmill. A   *)
(* child's paid work is abstracted to what it leaves in the job table:     *)
(* L3Execution and ASRExecution have its steps.                            *)
(***************************************************************************)
EXTENDS Integers, FiniteSetsExt, SequencesExt, Ordering

CONSTANTS
  AsrItems, L3Items, \* reviewed inputs of the two stages, oldest approval first
  Broken,      \* those a child cannot prepare, such as a lost storage object
  AsrDispatchers, L3Dispatchers, Pollers, \* the three kinds of parent
  Children,    \* child jobs
  TaskKeys, AsrKey, \* L3 model and prompt configurations; the one key of ASR
  PoolSize,    \* ordinary Windmill workers
  SubmissionBatch, \* SUBMISSION_BATCH of a dispatcher
  PollBatch,       \* BATCH_SIZE of the poller
  PollLimit,   \* MAX_SCHEDULED_POLLS
  Faults,      \* which of "drop", "timeout", "death" and "fail" may happen
  NoParent, NoItem, NoKey

Items == AsrItems \cup L3Items
Dispatchers == AsrDispatchers \cup L3Dispatchers
Parents == Dispatchers \cup Pollers

ASSUME ItemAssumption ==
  /\ IsFiniteSet(Items) /\ Items \subseteq Nat /\ NoItem \notin Items
  /\ AsrItems \cap L3Items = {} /\ Broken \subseteq Items

ASSUME JobAssumption ==
  /\ IsFiniteSet(Parents) /\ IsFiniteSet(Children) /\ NoParent \notin Parents
  /\ AsrKey \in TaskKeys /\ NoKey \notin TaskKeys
  /\ Faults \subseteq {"drop", "timeout", "death", "fail"}

ASSUME PoolAssumption ==
  /\ PoolSize \in Nat \ {0} /\ PollLimit \in Nat
  /\ SubmissionBatch \in Nat \ {0} /\ PollBatch \in Nat \ {0}

VARIABLES
  approved,    \* items whose latest review is active and still fits
  cfg,         \* the L3 configuration children read
  job,         \* job[i][k]: the execution job of item i under key k
  polls,       \* polls[i]: poll_count of the item's job
  aged,        \* the items of pending jobs, by updated_at
  slot,        \* holder of the scheduler slot
  parent,      \* parent[p]: its step, the rows it has left and its attempts
  child,       \* child[c]: its step, item, key and the parent waiting for it
  abandoned    \* history: items whose running child lost its parent

pool == <<slot, parent, child>>
paid == <<job, polls, aged>>
poolVars == <<approved, cfg, paid, pool, abandoned>>

(* failed stands for every job the poller leaves alone: submitting too.    *)
JobState == {"none", "pending", "completed", "failed"}
Idle == [at |-> "off", rows |-> << >>, tries |-> 0]
Free == [at |-> "free", item |-> NoItem, key |-> NoKey, owner |-> NoParent]

PoolTypeOK ==
  /\ approved \subseteq Items /\ cfg \in TaskKeys
  /\ job \in [Items -> [TaskKeys -> JobState]]
  /\ polls \in [Items -> 0 .. PollLimit]
  /\ aged \in Seq(AsrItems) /\ IsInjective(aged)
  /\ Range(aged) = {i \in Items : \E k \in TaskKeys : job[i][k] = "pending"}
  /\ slot \in Parents \cup {NoParent}
  /\ parent \in [Parents -> [at : {"off", "queued", "running", "waiting"},
                             rows : Seq(Items), tries : Nat]]
  /\ child \in [Children -> [at : {"free", "queued", "ready", "ended"},
                             item : Items \cup {NoItem}, key : TaskKeys \cup {NoKey},
                             owner : Parents \cup {NoParent}]]
  /\ abandoned \subseteq Items

PoolInit ==
  /\ approved \in SUBSET Items /\ cfg \in TaskKeys
  /\ job = [i \in Items |-> [k \in TaskKeys |-> "none"]]
  /\ polls = [i \in Items |-> 0] /\ aged = << >>
  /\ slot = NoParent
  /\ parent = [p \in Parents |-> Idle]
  /\ child = [c \in Children |-> Free]
  /\ abandoned = {}

-----------------------------------------------------------------------------
(* The pool.                                                               *)

OnWorker(p) == parent[p].at \in {"running", "waiting"}

WorkerFree ==
  Cardinality({p \in Parents : OnWorker(p)})
    + Cardinality({c \in Children : child[c].at = "ready"}) < PoolSize

SetParent(p, r) == parent' = [parent EXCEPT ![p] = r]
SetChild(c, r) == child' = [child EXCEPT ![c] = r]

-----------------------------------------------------------------------------
(* Parents: run_scheduled, dispatch_reviewed and the poller's main.        *)

Fire(p) ==
  /\ parent[p].at = "off"
  /\ SetParent(p, [Idle EXCEPT !.at = "queued"])
  /\ UNCHANGED <<approved, cfg, paid, slot, child, abandoned>>

Jobs(i) == {k \in TaskKeys : job[i][k] # "none"}

(* The age limit of a job is left out: it ends a poll series earlier. *)
Eligible(i) == polls[i] < PollLimit

(* Mutant: only as many of the oldest as a batch holds are looked at. *)
FixedPrefix(p) ==
  LET rows == InOrder(approved \cap (IF p \in L3Dispatchers THEN L3Items ELSE AsrItems))
  IN SubSeq(rows, 1, IF Len(rows) < SubmissionBatch THEN Len(rows) ELSE SubmissionBatch)

(* _candidates: every approved item of the stage, oldest approval first.   *)
Candidates(p) ==
  InOrder(approved \cap (IF p \in L3Dispatchers THEN L3Items ELSE AsrItems))

(* _pending: the jobs that were updated longest ago.                       *)
Pending ==
  LET due == Pick(aged, {n \in 1 .. Len(aged) : Eligible(aged[n])}) IN
  SubSeq(due, 1, IF Len(due) < PollBatch THEN Len(due) ELSE PollBatch)

(* Mutant: a parent runs without the slot. *)
AnySlot(p) == slot' = IF slot = NoParent THEN p ELSE slot

(* pg_try_advisory_lock. *)
TakeSlot(p) == slot = NoParent /\ slot' = p

StartParent(p) ==
  /\ parent[p].at = "queued" /\ WorkerFree
  /\ TakeSlot(p)
  /\ SetParent(p, [at |-> "running", tries |-> 0,
                   rows |-> IF p \in Pollers THEN Pending ELSE Candidates(p)])
  /\ UNCHANGED <<approved, cfg, paid, child, abandoned>>

Defer(p) ==
  /\ parent[p].at = "queued" /\ WorkerFree
  /\ slot # NoParent
  /\ SetParent(p, Idle)
  /\ UNCHANGED <<approved, cfg, paid, slot, child, abandoned>>

HasRow(p) ==
  /\ parent[p].at = "running"
  /\ parent[p].rows # << >>
  /\ p \in Dispatchers => parent[p].tries < SubmissionBatch

Row(p) == Head(parent[p].rows)

(* Mutant: only the exact task key is looked up. *)
KnownByKey(i) == job[i][cfg] # "none"

(* _existing: by task key, or by video and content under any key.          *)
Known(i) == Jobs(i) # {}

(* A dispatcher passes over what has a job and what it finds out of date.  *)
Skip(p) ==
  /\ HasRow(p) /\ p \in Dispatchers
  /\ Known(Row(p)) \/ Row(p) \notin approved
  /\ SetParent(p, [parent[p] EXCEPT !.rows = Tail(@)])
  /\ UNCHANGED <<approved, cfg, paid, slot, child, abandoned>>

(* It rechecks the review of an ASR item, of an L3 item only the evidence. *)
CallChild(p) ==
  /\ HasRow(p)
  /\ p \in Dispatchers => ~Known(Row(p))
  /\ p \in AsrDispatchers => Row(p) \in approved
  /\ \E c \in Children :
       /\ child[c].at = "free"
       /\ SetChild(c, [Free EXCEPT !.at = "queued", !.item = Row(p), !.owner = p])
  /\ SetParent(p, [parent[p] EXCEPT !.at = "waiting"])
  /\ UNCHANGED <<approved, cfg, paid, slot, abandoned>>

(* dispatched or failed: both count against a dispatcher's batch. *)
Answered(p) == [parent[p] EXCEPT !.at = "running", !.rows = Tail(@), !.tries = @ + 1]

Return(p) ==
  /\ parent[p].at = "waiting"
  /\ \E c \in Children :
       child[c].at = "ended" /\ child[c].owner = p /\ SetChild(c, Free)
  /\ SetParent(p, Answered(p))
  /\ UNCHANGED <<approved, cfg, paid, slot, abandoned>>

(* A child nobody waits for: gone if it was queued, else it runs on until  *)
(* it is killed.                                                           *)
Orphan(c) ==
  IF child[c].at = "ready" THEN [child[c] EXCEPT !.owner = NoParent] ELSE Free

Abandon(p) ==
  abandoned' = abandoned \cup
    {child[c].item : c \in {x \in Children : child[x].owner = p /\ child[x].at = "ready"}}

(* run_script times out and cancels the child. *)
GiveUp(p) ==
  /\ "timeout" \in Faults
  /\ parent[p].at = "waiting"
  /\ \E c \in Children : child[c].owner = p /\ SetChild(c, Orphan(c))
  /\ Abandon(p)
  /\ SetParent(p, Answered(p))
  /\ UNCHANGED <<approved, cfg, paid, slot>>

ReleaseSlot(p) == slot' = IF slot = p THEN NoParent ELSE slot

Finish(p) ==
  /\ parent[p].at = "running" /\ ~HasRow(p)
  /\ SetParent(p, Idle) /\ ReleaseSlot(p)
  /\ UNCHANGED <<approved, cfg, paid, child, abandoned>>

(* The parent's process dies: PostgreSQL releases its slot. *)
Die(p) ==
  /\ "death" \in Faults /\ OnWorker(p)
  /\ SetParent(p, Idle) /\ ReleaseSlot(p)
  /\ child' = [c \in Children |-> IF child[c].owner = p THEN Orphan(c) ELSE child[c]]
  /\ Abandon(p)
  /\ UNCHANGED <<approved, cfg, paid>>

(* The connection of the slot is lost while its parent waits for a child.  *)
DropSlot(p) ==
  /\ "drop" \in Faults /\ slot = p
  /\ slot' = NoParent
  /\ UNCHANGED <<approved, cfg, paid, parent, child, abandoned>>

-----------------------------------------------------------------------------
(* Children: run_reviewed_asr.py and run_reviewed_l3.py.                   *)

End(c) ==
  IF child[c].owner = NoParent THEN Free
  ELSE [Free EXCEPT !.at = "ended", !.item = child[c].item, !.owner = child[c].owner]

KeyOf(i) == IF i \in L3Items THEN cfg ELSE AsrKey

(* It reads the configuration, the review and the stored object.           *)
StartChild(c) ==
  /\ child[c].at = "queued" /\ WorkerFree
  /\ SetChild(c, IF child[c].item \in approved \ Broken
                 THEN [child[c] EXCEPT !.at = "ready", !.key = KeyOf(child[c].item)]
                 ELSE End(c))
  /\ UNCHANGED <<approved, cfg, paid, slot, parent, abandoned>>

Without(i) == Pick(aged, {n \in 1 .. Len(aged) : aged[n] # i})

(* The outcome s of a call, with the job's new updated_at. *)
Record(i, k, s) ==
  /\ s = "pending" => i \in AsrItems
  /\ job' = [job EXCEPT ![i][k] = s]
  /\ aged' = IF s = "pending" THEN Append(Without(i), i) ELSE Without(i)

(* The coordinator: one job for a task key. *)
Submit(c) ==
  /\ child[c].at = "ready" /\ job[child[c].item][child[c].key] = "none"
  /\ \E s \in JobState \ {"none"} : Record(child[c].item, child[c].key, s)
  /\ SetChild(c, End(c))
  /\ UNCHANGED <<approved, cfg, polls, slot, parent, abandoned>>

Resume(c) ==
  LET i == child[c].item IN
  /\ child[c].at = "ready" /\ job[i][child[c].key] = "pending" /\ Eligible(i)
  /\ polls' = [polls EXCEPT ![i] = @ + 1]
  /\ \E s \in JobState \ {"none"} : Record(i, child[c].key, s)
  /\ SetChild(c, End(c))
  /\ UNCHANGED <<approved, cfg, slot, parent, abandoned>>

(* A terminal job, or one whose polls are spent, is returned as it is.     *)
Repeat(c) ==
  LET s == job[child[c].item][child[c].key] IN
  /\ child[c].at = "ready"
  /\ s \in {"completed", "failed"} \/ (s = "pending" /\ ~Eligible(child[c].item))
  /\ SetChild(c, End(c))
  /\ UNCHANGED <<approved, cfg, paid, slot, parent, abandoned>>

(* It is killed, or fails before it has a job.                             *)
Fail(c) ==
  /\ "fail" \in Faults /\ child[c].at = "ready"
  /\ SetChild(c, End(c))
  /\ UNCHANGED <<approved, cfg, paid, slot, parent, abandoned>>

-----------------------------------------------------------------------------
(* Reviewers and operators.                                                *)

Review(i) ==
  /\ approved' = IF i \in approved THEN approved \ {i} ELSE approved \cup {i}
  /\ UNCHANGED <<cfg, paid, pool, abandoned>>

Configure(k) ==
  /\ k # cfg /\ cfg' = k
  /\ UNCHANGED <<approved, paid, pool, abandoned>>

ParentStep(p) ==
  \/ StartParent(p) \/ Defer(p) \/ Skip(p) \/ CallChild(p) \/ Return(p) \/ Finish(p)

ChildStep(c) == StartChild(c) \/ Submit(c) \/ Resume(c) \/ Repeat(c)

Fault ==
  \/ \E p \in Parents : GiveUp(p) \/ Die(p) \/ DropSlot(p)
  \/ \E c \in Children : Fail(c)

Operator ==
  \/ \E i \in Items : Review(i)
  \/ \E k \in TaskKeys : Configure(k)

PoolNext ==
  \/ \E p \in Parents : Fire(p) \/ ParentStep(p)
  \/ \E c \in Children : ChildStep(c)
  \/ Fault \/ Operator

PoolSpec == PoolInit /\ [][PoolNext]_poolVars
-----------------------------------------------------------------------------
(* Properties.                                                             *)

(* Parents that wait never hold the whole pool: a queued child has a       *)
(* worker it can get (the slot, reviewed_dispatch.py scheduler_slot).      *)
ChildCanRun ==
  (\E c \in Children : child[c].at = "queued") =>
    Cardinality({p \in Parents : parent[p].at = "waiting"}) < PoolSize

(* One reviewed input is bought under one configuration: a new model or    *)
(* prompt does not buy it again (reviewed_dispatch.py _existing), unless a *)
(* parent died or gave up while the input's child ran. The order by age    *)
(* names each pending job once (the types).                                *)
BoughtOnce ==
  /\ PoolTypeOK
  /\ \A i \in Items \ abandoned : Cardinality(Jobs(i)) <= 1

(* Whatever is lost, a child belongs to one parent, which waits for it and *)
(* for no other, or runs on for an input that counts as abandoned; and an  *)
(* ASR input has no job but under its one key.                             *)
ChildrenAccounted ==
  /\ \A c \in Children :
       IF child[c].owner # NoParent
       THEN /\ parent[child[c].owner].at = "waiting"
            /\ \A d \in Children : child[d].owner = child[c].owner => d = c
       ELSE child[c].at # "free" => child[c].at = "ready" /\ child[c].item \in abandoned
  /\ \A i \in AsrItems : Jobs(i) \subseteq {AsrKey}
=============================================================================
