------------------------------ MODULE MCCollection ------------------------------
(***************************************************************************)
(* An instance for TLC of what collects videos and comments: the golden    *)
(* intake, the plan of its detail requests, the plan of a research brief   *)
(* and the comment batches that select for L3. They are different jobs and *)
(* one run checks them side by side: part says what moves. The intake has  *)
(* two parts, jobs of one day where any statement may fail, and jobs over  *)
(* midnight that may overlap as the session of the lock may drop while     *)
(* nothing else fails or expires.                                          *)
(***************************************************************************)
EXTENDS CommentPipeline, GoldenIntake, VideoFetchPlan, BriefPlan

VARIABLE part

CONSTANTS j1, j2, w1, w2, b1, b2, s1, s2, k1, k2

(* Who meets whom: a scheduled job the dashboard's, which skips the cache  *)
(* and whose ceiling only one of them fits; and a manual job one that asks *)
(* for the billboard only. Over midnight, two scheduled jobs.              *)
Manual == Plan("manual", TRUE, FALSE, FALSE, 2, 60)
Dashboard == Plan("dashboard", TRUE, FALSE, TRUE, 2, 60)
Billboard == Plan("dashboard", FALSE, FALSE, FALSE, 1, 0)
MCPairs(p) ==
  IF p = "faults" THEN {<<ScheduledPlan, Dashboard>>, <<Dashboard, ScheduledPlan>>,
                        <<Manual, Billboard>>, <<Billboard, Manual>>}
  ELSE {<<ScheduledPlan, ScheduledPlan>>}

(* Video 2 was found by both discovery runs, whose settings name two keys. *)
MCSourceOf == b1 :> s1 @@ b2 :> s2
MCVideosOf == b1 :> {1, 2} @@ b2 :> {2}
MCKeyOf == b1 :> k1 @@ b2 :> k2

Symmetry == Permutations({w1, w2}) \cup Permutations({j1, j2})

batchVars == vars

(* Of the videos of the batches 2 has L2 state of its own, and waits for   *)
(* its first score.                                                        *)
MCInit ==
  /\ Init /\ IntakeInit /\ PlanInit /\ BriefPlanInit
  /\ part \in {"batches", "lost", "faults", "overlap", "plan", "brief"}
  /\ level = <<1, 2>> /\ score = IF part = "lost" THEN <<7, 7>> ELSE <<7, NoScore>>
  /\ part # "plan" => purpose = "batch50"
  /\ part # "brief" => pageSize = 2
  /\ <<job[j1].plan, job[j2].plan>> \in MCPairs(part)

(* Bounds on what interleaves. Of the steps of a worker some follow at     *)
(* once, failures among them: while every session holds its lock these are *)
(* the steps on rows that only its own batch reads, and the wait for the   *)
(* lock; where one is lost, those that do not write a row of an item or a  *)
(* run, and no run is marked failed. What others do beside a worker or a   *)
(* job comes when it is about to be read, a page's expiry between two jobs *)
(* that take turns. While no lock is lost rows are numbered from 1, which  *)
(* leaves out no more than another name.                                   *)
OwnSteps == {"lock", "open", "create", "visit", "begin", "reconcile", "fetch", "unknown",
             "collected", "featured", "insert", "finish"}
AtOnce(steps) == \A w \in Workers : pc[w] \in steps => pc'[w] # pc[w]
ReadSoon == \E w \in Workers : pc[w] \in {"extract", "promote"}
OwnJobSteps == {"create", "record", "score", "flag", "finish", "cost", "summary"}
OthersFind ==
  inserted' # inserted /\ job' = job => \E j \in Jobs : At(j, "ingest") /\ job[j].stage = "discovery"

MCNext ==
  /\ UNCHANGED part
  /\ \/ /\ part = "batches" /\ Next /\ UNCHANGED <<intakeVars, planVars, briefPlanVars>>
        /\ UNCHANGED losses /\ AtOnce(OwnSteps) /\ (pc' = pc => ReadSoon)
        /\ \A b \in Batches : Made(b)' # {} => 1 \in Made(b)'
        /\ \A e \in eligible' : [e EXCEPT !.row = 1] \in eligible'
        /\ evidence'[1] # evidence[1] \/ quota'[1][k2] # quota[1][k2] => pc' # pc
     \/ /\ part = "lost" /\ Next /\ UNCHANGED <<intakeVars, planVars, briefPlanVars>>
        /\ AtOnce({"fetch", "ingest", "commit"})
        /\ \A w \in Workers : Batch(w)' # b1
        /\ \A r \in Runs : runs'[r] # "failed"
        /\ evidence' # evidence \/ quota' # quota => pc' # pc
     \/ /\ part = "faults" /\ IntakeNext /\ UNCHANGED <<batchVars, planVars, briefPlanVars>>
        /\ day' = day /\ ~lapses'.lock /\ OthersFind
        /\ cache' # cache /\ job' = job => lock = NoJob /\ \E j \in Jobs : At(j, "start")
     \/ /\ part = "overlap" /\ IntakeNext /\ UNCHANGED <<batchVars, planVars, briefPlanVars>>
        /\ lapses'.count > 0 => lapses'.lock
        /\ OthersFind /\ \A j \in Jobs : job[j].pc \in OwnJobSteps => job'[j].pc # job[j].pc
        /\ \A q \in Requests : cache[q] # NoPage => cache'[q] # NoPage
     \/ part = "plan" /\ PlanNext /\ UNCHANGED <<batchVars, intakeVars, briefPlanVars>>
     \/ part = "brief" /\ BriefPlanNext /\ UNCHANGED <<batchVars, intakeVars, planVars>>

MCSpec == MCInit /\ [][MCNext]_<<part, batchVars, intakeVars, planVars, briefPlanVars>>
=============================================================================
