------------------------ MODULE ASRExecutionLiveness ------------------------
(***************************************************************************)
(* What ASRExecution eventually does when poll_pending_asr.py runs the     *)
(* scheduled worker again and again for the tasks the provider accepted.   *)
(***************************************************************************)
EXTENDS ASRExecution

(* Mutant: the selection leaves out jobs whose last poll failed. *)
DueWithoutError(k) ==
  k \in Scheduled /\ jobs[k].status \in Pending /\ jobs[k].error = "none"

(* The jobs _pending selects; those past their limit are only counted. *)
Due(k) == k \in Scheduled /\ jobs[k].status \in Pending /\ ~LimitReached(k)

Resume(k) ==
  \E w \in Workers, n \in RunPolls :
    /\ Due(k) /\ n > 0
    /\ Start(w)
    /\ req' = [req EXCEPT ![w] = [key |-> k, quote |-> jobs[k].quote,
                                  day |-> jobs[k].day, polls |-> n,
                                  polling |-> FALSE]]

LiveSpec ==
  /\ Spec
  /\ \A w \in Workers : WF_vars(Proceed(w))
  /\ \A k \in Tasks : SF_vars(Resume(k))

(* From some moment on no process dies and no connection drops; a step the *)
(* code takes by itself may look like either.                              *)
Calm ==
  <>[][\A w \in Workers : Abort(w) \/ LoseLock(w) => Proceed(w)]_vars

(* A task the provider accepted is fetched, or its polls run out and it is *)
(* left to an operator; no crash and no failed poll makes it forgotten.    *)
AcceptedTaskResolves ==
  Calm => \A k \in Scheduled :
    jobs[k].status \in Pending ~>
      \/ jobs[k].status \in Terminal
      \/ jobs[k].error = "poll_limit_reached"
      \/ LimitReached(k)
=============================================================================
