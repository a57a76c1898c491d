---------------------------- MODULE SubjectRelevance ----------------------------
(***************************************************************************)
(* The relevance of videos to one subject of a project: the gate of        *)
(* l0l1/subject_relevance.py, the runs of l0l1/runner.py that pay for      *)
(* details and score by it (l0l1/scoring.py), and the people who change    *)
(* the subject's terms or correct a decision (mutate_project_subject.py of *)
(* the dashboard's backend).                                               *)
(*                                                                         *)
(* An evaluation is one transaction: it locks the subject for share, reads *)
(* the terms, then the texts and the decisions there are, then writes its  *)
(* own under a condition. A text is the set of the words found in it.      *)
(***************************************************************************)
EXTENDS FiniteSets

CONSTANTS
  Runs, Videos,
  Texts,        \* what a video's title, description and account may say
  TermSets,     \* what the subject's terms may be
  ActionKeys,   \* keys of requests that may arrive more than once
  OnceOnly,     \* the key of a request that does not
  NoRow, NoDecision

VARIABLES
  terms,      \* research_subject_term, active
  text,       \* source_video and source_account, as last ingested
  relevance,  \* project_video_subject_relevance
  audit,      \* decision of a video's last project_video_subject_relevance_audit
  run,        \* a project run of l0l1/runner.py
  scores,     \* project_video_subject_score
  claimed,    \* research_user_action: the ActionKeys that are there
  said,       \* history: the texts that a video has had
  reviewed,   \* history: the last decision of a reviewer
  held        \* history: a video's decisions since a run's preflight read it

relevanceVars == <<terms, text, relevance, audit, run, scores, claimed, said, reviewed, held>>

Answers == {"pending", "relevant", "irrelevant"}
Rows == [decision : Answers, source : {"rule", "manual"}]

ASSUME NoRowAssumption == NoRow \notin Rows

Idle == [stage |-> "discovery", step |-> "lock", terms |-> NoRow, read |-> NoRow,
         decisions |-> [v \in Videos |-> NoDecision]]

RelevanceInit ==
  /\ terms \in TermSets
  /\ text \in [Videos -> Texts]
  /\ relevance = [v \in Videos |-> NoRow]
  /\ audit = [v \in Videos |-> NoDecision]
  /\ run = [r \in Runs |-> Idle]
  /\ scores = {}
  /\ claimed = {}
  /\ said = [v \in Videos |-> {text[v]}]
  /\ reviewed = [v \in Videos |-> NoDecision]
  /\ held = [r \in Runs |-> [v \in Videos |-> {}]]

(* Exclusions are decisive; without a match a candidate stays pending.     *)
Classify(words, t) ==
  CASE t.exclusions \cap words # {} -> "irrelevant"
    [] /\ t.exclusions \cap words = {} /\ t.aliases \cap words # {}
       /\ t.places = {} \/ t.places \cap words # {} -> "relevant"
    [] OTHER -> "pending"

DecisionOf(row) == IF row = NoRow THEN NoDecision ELSE row.decision

Preflighted(r) ==
  \/ run[r].stage = "detail_preflight" /\ run[r].step = "write"
  \/ run[r].stage = "detail"

(* The history that a step which writes rows leaves behind.                *)
Hold(rows) ==
  held' = [r \in Runs |-> [v \in Videos |->
             IF Preflighted(r)
             THEN held[r][v] \cup {DecisionOf(rows[v])} ELSE held[r][v]]]

(* ----------------------------- evaluation ------------------------------ *)

Relevant(r) == {v \in Videos : run[r].decisions[v] = "relevant"}
Candidates(r) == IF run[r].stage = "discovery" THEN Videos ELSE Relevant(r)
Stages == {"discovery", "detail_preflight", "detail_enrichment"}

Sharing(r) == run[r].step \in {"read", "write"}

(* Mutant: the subject is not locked. *)
SubjectNeverHeld == FALSE

(* An evaluation in progress holds the subject for share.                  *)
SubjectHeld == \E r \in Runs : Sharing(r)

(* _terms                                                                  *)
LockSubject(r) ==
  /\ run[r].stage \in Stages /\ run[r].step = "lock"
  /\ run' = [run EXCEPT ![r].step = "read", ![r].terms = terms]
  /\ UNCHANGED <<terms, text, relevance, audit, scores, claimed, said, reviewed, held>>

ReadRows(r) ==
  /\ run[r].stage \in Stages /\ run[r].step = "read"
  /\ run' = [run EXCEPT ![r].step = "write",
               ![r].read = [v \in Candidates(r) |-> [words |-> text[v], row |-> relevance[v]]]]
  /\ held' = IF run[r].stage = "detail_preflight"
             THEN [held EXCEPT ![r] = [v \in Videos |-> {DecisionOf(relevance[v])}]] ELSE held
  /\ UNCHANGED <<terms, text, relevance, audit, scores, claimed, said, reviewed>>

Manual(row) == row # NoRow /\ row.source = "manual"
Result(r, v) == Classify(run[r].read[v].words, run[r].terms)

(* Mutant: the run goes by what it computed, not by what is stored. *)
ComputedDecision(r, v) ==
  IF Manual(run[r].read[v].row) THEN run[r].read[v].row.decision ELSE Result(r, v)

(* A reviewer's decision stands, whether it was there when the rows were   *)
(* read or came between that and the conditional upsert.                   *)
DurableDecision(r, v) ==
  IF Manual(run[r].read[v].row) THEN run[r].read[v].row.decision
  ELSE IF Manual(relevance[v]) THEN relevance[v].decision
  ELSE Result(r, v)

(* The rule decides where no reviewer has.                                 *)
Upsert(r, v) == ~Manual(run[r].read[v].row) /\ ~Manual(relevance[v])

NextStage(r, decisions) ==
  CASE run[r].stage = "discovery" /\ (\E v \in Videos : decisions[v] = "relevant")
         -> {"detail_preflight", "score"}
    [] run[r].stage = "detail_preflight" /\ (\E v \in Videos : decisions[v] = "relevant")
         -> {"detail", "score"}
    [] OTHER -> {"score"}

(* The upserts, their audit and the commit. Details are skipped when they  *)
(* are not asked for or only wanted for videos that are new.               *)
WriteRows(r) ==
  LET rows == [v \in Videos |->
                 IF v \in Candidates(r) /\ Upsert(r, v)
                 THEN [decision |-> Result(r, v), source |-> "rule"] ELSE relevance[v]]
      decisions == [v \in Videos |->
                      IF v \in Candidates(r) THEN DurableDecision(r, v) ELSE run[r].decisions[v]] IN
  /\ run[r].stage \in Stages /\ run[r].step = "write"
  /\ relevance' = rows
  /\ audit' = [v \in Videos |->
                 IF v \in Candidates(r) /\ ~Manual(run[r].read[v].row)
                 THEN DurableDecision(r, v) ELSE audit[v]]
  /\ \E stage \in NextStage(r, decisions) :
       run' = [run EXCEPT ![r] = [Idle EXCEPT !.stage = stage, !.decisions = decisions]]
  /\ Hold(rows)
  /\ UNCHANGED <<terms, text, scores, claimed, said, reviewed>>

(* ------------------------------- the run ------------------------------- *)

(* The paid detail call of what is relevant; its text comes by Ingest.     *)
FetchDetails(r) ==
  /\ run[r].stage = "detail"
  /\ run' = [run EXCEPT ![r].stage = "detail_enrichment"]
  /\ UNCHANGED <<terms, text, relevance, audit, scores, claimed, said, reviewed, held>>

(* The row as the scorer locks it, and the trigger of the score table.     *)
Eligible(v) == DecisionOf(relevance[v]) = "relevant"

(* score_run of the videos that the run holds to be relevant.              *)
ScoreRun(r) ==
  /\ run[r].stage = "score"
  /\ scores' = scores \cup {[video |-> v, run |-> r] : v \in {w \in Relevant(r) : Eligible(w)}}
  /\ run' = [run EXCEPT ![r].stage = "done"]
  /\ UNCHANGED <<terms, text, relevance, audit, claimed, said, reviewed, held>>

(* An exception of any step: its transaction is rolled back.               *)
FailRunOf(r) ==
  /\ run[r].stage # "done"
  /\ run' = [run EXCEPT ![r] = [Idle EXCEPT !.stage = "done"]]
  /\ UNCHANGED <<terms, text, relevance, audit, scores, claimed, said, reviewed, held>>

(* ------------------------------- people -------------------------------- *)

(* Mutant: the request is executed whenever it arrives. *)
FreshAlways(k) == k \in ActionKeys \cup {OnceOnly}

(* _claim inserts the key in the transaction of the action, under the lock *)
(* of the project that _writer takes; when it is there the first outcome   *)
(* is the answer, or there is a conflict: nothing changes either way.      *)
Fresh(k) == k \notin claimed

Claim(k) == Fresh(k) /\ claimed' = claimed \cup ({k} \cap ActionKeys)

(* update_terms: waits for the subject, replaces the terms and, when they  *)
(* differ, takes back what rules decided.                                  *)
UpdateTerms(k, t) ==
  LET invalidated == {v \in Videos : t # terms /\ relevance[v] # NoRow /\ ~Manual(relevance[v])}
      rows == [v \in Videos |-> IF v \in invalidated THEN [relevance[v] EXCEPT !.decision = "pending"]
                                ELSE relevance[v]] IN
  /\ ~SubjectHeld
  /\ Claim(k)
  /\ terms' = t
  /\ relevance' = rows
  /\ audit' = [v \in Videos |-> IF v \in invalidated THEN "pending" ELSE audit[v]]
  /\ Hold(rows)
  /\ UNCHANGED <<text, run, scores, said, reviewed>>

(* correct_relevance, and correct of the store, which has no key.          *)
CorrectRelevance(k, v, decision) ==
  LET rows == [relevance EXCEPT ![v] = [decision |-> decision, source |-> "manual"]] IN
  /\ relevance[v] # NoRow
  /\ Claim(k)
  /\ relevance' = rows
  /\ audit' = [audit EXCEPT ![v] = decision]
  /\ reviewed' = IF k \in claimed THEN reviewed
                 ELSE [reviewed EXCEPT ![v] = decision]
  /\ Hold(rows)
  /\ UNCHANGED <<terms, text, run, scores, said>>

(* Any run's ingest gives the video another text.                          *)
IngestText(v, words) ==
  /\ words # text[v]
  /\ text' = [text EXCEPT ![v] = words]
  /\ said' = [said EXCEPT ![v] = @ \cup {words}]
  /\ UNCHANGED <<terms, relevance, audit, run, scores, claimed, reviewed, held>>

RelevanceNext ==
  \/ \E r \in Runs :
       LockSubject(r) \/ ReadRows(r) \/ WriteRows(r) \/ FetchDetails(r) \/ ScoreRun(r) \/ FailRunOf(r)
  \/ \E k \in ActionKeys \cup {OnceOnly} :
       \/ \E t \in TermSets : UpdateTerms(k, t)
       \/ \E v \in Videos, d \in Answers : CorrectRelevance(k, v, d)
  \/ \E v \in Videos, words \in Texts : IngestText(v, words)

RelevanceSpec == RelevanceInit /\ [][RelevanceNext]_relevanceVars

-----------------------------------------------------------------------------
(* ----------------------------- properties ------------------------------ *)

(* Decisions are justified and take effect. What a rule decided follows    *)
(* from the terms as they are now and a text the video has had; what a     *)
(* reviewer decided is still what the reviewer said last, though a request *)
(* may arrive again; and the last line of the audit says what the row      *)
(* says. A detail call is paid for a video only if the stored decision has *)
(* been that it is relevant at some moment since the preflight read it: a  *)
(* correction before that counts, and one that comes between the read and  *)
(* the write of a decision that rules have made as well.                   *)
DecisionsHold ==
  /\ \A v \in Videos : relevance[v] # NoRow =>
       /\ IF Manual(relevance[v]) THEN relevance[v].decision = reviewed[v]
          ELSE /\ reviewed[v] = NoDecision
               /\ \/ relevance[v].decision = "pending"
                  \/ \E words \in said[v] : relevance[v].decision = Classify(words, terms)
       /\ audit[v] = relevance[v].decision
  /\ \A r \in Runs : run[r].stage = "detail" =>
       \A v \in Relevant(r) : "relevant" \in held[r][v]
=============================================================================
