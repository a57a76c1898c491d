----------------------------- MODULE ProfileDrafts -----------------------------
(***************************************************************************)
(* The drafts of a subject's profile, between the page that submits them   *)
(* and the backend: SubjectProfilePanel.tsx, mutate_subject_profile.py and *)
(* get_subject_profiles.py.                                                *)
(*                                                                         *)
(* The panel keeps the key of a submission whose fate it does not know, in *)
(* memory and in the browser's session storage, and submits the same       *)
(* content again under it. Opening the subject anew makes another panel;   *)
(* the calls of the one before may still be answered to it. A behaviour is *)
(* shorter than the 24 hours after which a stored key is dropped.          *)
(***************************************************************************)
EXTENDS Naturals, FiniteSets

CONSTANTS
  DraftContents,
  MaxSubmits, MaxPanels,
  RoleChanges,   \* whether the user's role may change
  NoDraft

VARIABLES
  manager,   \* whether the user is an owner or admin of the project
  drafts,    \* research_subject_profile_version: [key, content, version]
  call,      \* the submissions, and what has become of each
  storage,   \* sessionStorage: the pending draft
  panel,     \* the mounted panel
  history,   \* its request for the profiles
  told,      \* history: what the user was told is saved
  settled    \* history: the keys whose fate came back

draftVars == <<manager, drafts, call, storage, panel, history, told, settled>>

Draft(k, c) == [key |-> k, content |-> c]
NoLoad == [step |-> "idle"]

(* A draft of another manager, whose content the user may submit as well.  *)
Other(c) == [key |-> 0, content |-> c, version |-> 1]

FreshPanel(n, pending) ==
  [number |-> n, viewer |-> FALSE, pending |-> pending, intent |-> NoDraft, busy |-> FALSE]

DraftsInit ==
  /\ manager = TRUE
  /\ \E c \in DraftContents : drafts = {Other(c)}
  /\ call = <<>>
  /\ storage = NoDraft
  /\ panel = FreshPanel(1, NoDraft)
  /\ history = [step |-> "asked", full |-> FALSE, pending |-> NoDraft]
  /\ told = {} /\ settled = {}

Calls == DOMAIN call
NextCall == Cardinality(Calls) + 1

(* ------------------------------ the panel ------------------------------ *)

(* clearPendingDraft: the memory of the panel it belongs to, and storage.  *)
Cleared(p) == [p EXCEPT !.pending = NoDraft]

(* load; a later one makes the panel ignore an earlier one's result.       *)
Load(full) == history' = [step |-> "asked", full |-> full,
                          pending |-> IF full THEN panel'.pending ELSE NoDraft]

(* createDraft: nothing else may be pending; the key of what is pending is *)
(* used again. It is stored before the call is made.                       *)
SubmitDraft(c) ==
  LET k == IF panel.pending = NoDraft THEN NextCall ELSE panel.pending.key IN
  /\ NextCall <= MaxSubmits
  /\ ~panel.busy /\ panel.viewer
  /\ panel.intent \in {NoDraft, c}
  /\ panel.pending # NoDraft => panel.pending.content = c
  /\ storage' = Draft(k, c)
  /\ panel' = [panel EXCEPT !.pending = Draft(k, c), !.intent = c, !.busy = TRUE]
  /\ call' = [i \in 1..NextCall |->
                IF i \in Calls THEN call[i]
                ELSE [key |-> k, content |-> c, from |-> panel.number, at |-> "sent", awaited |-> TRUE]]
  /\ UNCHANGED <<manager, drafts, history, told, settled>>

Awaited(i) == call[i].awaited
Hear(i) == call' = [call EXCEPT ![i].awaited = FALSE]
Mounted(i) == call[i].from = panel.number

(* The answer of mutate: saved, or an error that the panel knows. Storage  *)
(* is cleared by a panel that is mounted no longer, too.                   *)
Answer(i) ==
  /\ Awaited(i) /\ call[i].at \in {"saved", "denied"}
  /\ Hear(i)
  /\ storage' = NoDraft
  /\ settled' = settled \cup {call[i].key}
  /\ IF Mounted(i)
     THEN /\ panel' = [Cleared(panel) EXCEPT !.intent = NoDraft, !.busy = FALSE]
          /\ IF call[i].at = "saved"
             THEN /\ told' = told \cup {Draft(call[i].key, call[i].content)}
                  /\ Load(TRUE)
             ELSE UNCHANGED <<told, history>>
     ELSE UNCHANGED <<panel, told, history>>
  /\ UNCHANGED <<manager, drafts>>

(* Any other error: a timeout, or an answer lost on its way.               *)
NoAnswer(i) ==
  /\ Awaited(i)
  /\ Hear(i)
  /\ IF Mounted(i) THEN panel' = [panel EXCEPT !.busy = FALSE] /\ Load(TRUE)
     ELSE UNCHANGED <<panel, history>>
  /\ UNCHANGED <<manager, drafts, storage, told, settled>>

(* The subject is opened anew; reloading the page ends what is awaited.    *)
Remount(reload) ==
  /\ panel.number < MaxPanels
  /\ panel' = FreshPanel(panel.number + 1, storage)
  /\ Load(FALSE)
  /\ call' = [i \in Calls |-> IF reload THEN [call[i] EXCEPT !.awaited = FALSE] ELSE call[i]]
  /\ UNCHANGED <<manager, drafts, storage, told, settled>>

(* ----------------------------- the backend ----------------------------- *)

(* Mutant: a version of the same content counts as the receipt. *)
ReceiptByContent(pending) == \E d \in drafts : d.content = pending.content

(* The action under this key has saved a version.                          *)
Receipt(pending) == \E d \in drafts : d.key = pending.key

Claimed(k) == \E d \in drafts : d.key = k

(* create_draft of mutate_subject_profile: a manager's, once a key; under  *)
(* the lock of the project that _manager takes.                            *)
ExecuteDraft(i) ==
  /\ call[i].at = "sent"
  /\ IF ~manager THEN call' = [call EXCEPT ![i].at = "denied"] /\ UNCHANGED drafts
     ELSE /\ call' = [call EXCEPT ![i].at = "saved"]
          /\ drafts' = IF Claimed(call[i].key) THEN drafts
                       ELSE drafts \cup {[key |-> call[i].key, content |-> call[i].content,
                                          version |-> Cardinality(drafts) + 1]}
  /\ UNCHANGED <<manager, storage, panel, history, told, settled>>

LoseDraft(i) ==
  /\ call[i].at = "sent"
  /\ call' = [call EXCEPT ![i].at = "lost"]
  /\ UNCHANGED <<manager, drafts, storage, panel, history, told, settled>>

(* get_subject_profiles: one snapshot of role, versions and receipt.       *)
ReadProfiles ==
  /\ history.step = "asked"
  /\ history' = [step |-> "read", full |-> history.full, pending |-> history.pending,
                 manages |-> manager, profiles |-> drafts,
                 saved |-> /\ manager /\ history.full /\ history.pending # NoDraft
                           /\ Receipt(history.pending)]
  /\ UNCHANGED <<manager, drafts, call, storage, panel, told, settled>>

(* The result: without the role nothing stays pending. A manager goes on   *)
(* to ask for the history.                                                 *)
TakeProfiles ==
  /\ history.step = "read"
  /\ panel' = [(IF history.manages THEN panel ELSE Cleared(panel)) EXCEPT !.viewer = history.manages]
  /\ storage' = IF ~history.manages /\ panel.pending # NoDraft THEN NoDraft ELSE storage
  /\ IF history.manages /\ ~history.full THEN Load(TRUE)
     ELSE history' = IF history.saved THEN [history EXCEPT !.step = "compare"] ELSE NoLoad
  /\ UNCHANGED <<manager, drafts, call, told, settled>>

(* The receipt names a version of the pending content.                     *)
Confirms(pending) ==
  \E d \in history.profiles : Receipt(pending) /\ d.content = pending.content

(* The receipt of what is still pending, compared by its intent hash.      *)
ConfirmDraft ==
  LET mine == panel.pending # NoDraft /\ panel.pending.key = history.pending.key IN
  /\ history.step = "compare"
  /\ history' = NoLoad
  /\ IF mine /\ Confirms(panel.pending)
     THEN /\ told' = told \cup {panel.pending}
          /\ settled' = settled \cup {panel.pending.key}
          /\ panel' = [Cleared(panel) EXCEPT !.intent = NoDraft]
          /\ storage' = NoDraft
     ELSE UNCHANGED <<told, settled, panel, storage>>
  /\ UNCHANGED <<manager, drafts, call>>

ChangeRole ==
  /\ RoleChanges
  /\ manager' = ~manager
  /\ UNCHANGED <<drafts, call, storage, panel, history, told, settled>>

DraftsNext ==
  \/ \E c \in DraftContents : SubmitDraft(c)
  \/ \E i \in Calls : Answer(i) \/ NoAnswer(i) \/ ExecuteDraft(i) \/ LoseDraft(i)
  \/ \E reload \in BOOLEAN : Remount(reload)
  \/ ReadProfiles \/ TakeProfiles \/ ConfirmDraft \/ ChangeRole

DraftsSpec == DraftsInit /\ [][DraftsNext]_draftVars

-----------------------------------------------------------------------------
(* ----------------------------- properties ------------------------------ *)

(* What the user is told is saved is saved, by that submission and once,   *)
(* though another version of the same content may exist, answers get lost  *)
(* and a submission is sent again from another panel.                      *)
SavedIsMine ==
  /\ \A d, e \in drafts : d.key = e.key => d = e
  /\ \A t \in told : \E d \in drafts : d.key = t.key /\ d.content = t.content
=============================================================================
