------------------------ MODULE L3ExecutionLiveness ------------------------
(***************************************************************************)
(* What L3Execution eventually does: a run that is not killed goes on, and *)
(* somebody runs every task again, which is how                            *)
(* docs/L3_EXECUTION_CONTROL_V1.md recovers an interrupted task.           *)
(***************************************************************************)
EXTENDS L3Execution

(* Run k again with the inputs of its job, as the L3 worker does. *)
Rerun(k) ==
  \E w \in Workers :
    /\ Start(w)
    /\ req'[w] = [key |-> k, est |-> jobs[k].est, day |-> NoDay]

LiveSpec ==
  /\ Spec
  /\ \A w \in Workers : WF_vars(Proceed(w))
  /\ \A k \in Tasks : SF_vars(Rerun(k))

(* From some moment on no process dies and no connection drops; a step the *)
(* code takes by itself may look like either.                              *)
Calm ==
  <>[][\A w \in Workers : Abort(w) \/ LoseLock(w) => Proceed(w)]_vars

(* Interrupted work recovers. The lock is always given back: no run,       *)
(* however it ends, blocks paid execution for good. And once a cost is     *)
(* recorded, running the task again closes its job.                        *)
TasksRecover ==
  /\ \A w \in Workers : lock = w ~> lock # w
  /\ Calm => \A k \in Tasks : costs[k].status # "none" ~> jobs[k].status \in Terminal
=============================================================================
