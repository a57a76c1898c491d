-------------------------- MODULE AccountAuthorization --------------------------
(***************************************************************************)
(* Which accounts a project may use, and the provider grants beneath a     *)
(* verified relation: the two triggers of src/db/schema.sql that keep      *)
(* account_authorization in step with project_account_relation, and the    *)
(* rules of projects/account_rules.py that a use is decided by.            *)
(*                                                                         *)
(* A writer is one transaction of one statement, any that SQL allows. It   *)
(* takes its row locks one by one: the update of a relation holds the      *)
(* relation and then wants its grants, the write of a grant holds the      *)
(* grant and then wants its relation for share. A writer may be aborted at *)
(* any moment, as PostgreSQL does with one of two that wait on each other. *)
(***************************************************************************)
EXTENDS Naturals

CONSTANTS
  Relations, Grants, Writers,
  Unverified,  \* statuses of a relation besides verified
  Ended,       \* statuses of a grant that is over
  Windows,     \* [from, until] of relations and grants; a large until stands for null
  MaxClock,    \* bound
  NoGrant, NoImage

ASSUME AccountAuthorizationAssumption ==
  /\ Unverified \subseteq {"proposed", "pending", "rejected", "revoked"}
  /\ "revoked" \in Ended /\ Ended \subseteq {"expired", "revoked"}
  /\ Windows \subseteq [from : Nat, until : Nat] /\ MaxClock \in Nat

VARIABLES
  relations,      \* project_account_relation, committed
  authorization,  \* account_authorization, committed
  writer,         \* a writer's transaction and its locks
  clock           \* what a transaction that begins now has as now()

authorizationVars == <<relations, authorization, writer, clock>>

OpenGrant == {"draft", "active"}

RelationRows == [verification : Unverified \cup {"verified"}, window : Windows]
GrantRows == [relation : Relations, status : OpenGrant \cup Ended, window : Windows]

ASSUME NoGrantAssumption == NoGrant \notin GrantRows /\ NoImage \notin Grants

NoWriter == [step |-> "idle", now |-> 0, relation |-> NoImage, grant |-> NoImage, row |-> NoImage,
             todo |-> {}, took |-> {}]

AuthorizationInit ==
  /\ relations \in [Relations -> [verification : Unverified, window : Windows]]
  /\ authorization = [g \in Grants |-> NoGrant]
  /\ writer = [w \in Writers |-> NoWriter]
  /\ clock = 0

(* --------------------------- rules of a use ---------------------------- *)

InWindow(x, at) == x.from <= at /\ at < x.until
Within(inner, outer) == outer.from <= inner.from /\ inner.until <= outer.until

(* ProjectAccountRelation.is_active and AccountAuthorization.is_active     *)
RelationActive(r, at) == relations[r].verification = "verified" /\ InWindow(relations[r].window, at)
GrantActive(g, at) ==
  authorization[g] # NoGrant /\ authorization[g].status = "active" /\ InWindow(authorization[g].window, at)

(* can_use_private_account_data, of the scope that the grant is for.       *)
CanUsePrivateData(g, at) == GrantActive(g, at) /\ RelationActive(authorization[g].relation, at)

(* -------------------------------- writers ------------------------------ *)

Done(w) == [writer EXCEPT ![w] = NoWriter]

(* BEGIN, which fixes now().                                               *)
BeginWrite(w) ==
  /\ writer[w].step = "idle"
  /\ writer' = [writer EXCEPT ![w].step = "begun", ![w].now = clock]
  /\ UNCHANGED <<relations, authorization, clock>>

RelationHeld(r) == \E z \in Writers : writer[z].step = "cascade" /\ writer[z].relation = r

(* Mutant: the trigger reads the relation without FOR SHARE. *)
NeverShared(r) == FALSE

RelationShared(r) ==
  \E z \in Writers : /\ writer[z].step = "checked"
                     /\ writer[z].row.status \in OpenGrant /\ writer[z].row.relation = r

GrantHeld(g) == \E z \in Writers : writer[z].grant = g \/ g \in writer[z].took

(* When an update of a relation takes its grants down.                     *)
Cascades(old, new) ==
  \/ new.verification # "verified" /\ new.verification # old.verification
  \/ new.window # old.window

OpenUnder(r) ==
  {g \in Grants : authorization[g] # NoGrant
                  /\ authorization[g].relation = r /\ authorization[g].status \in OpenGrant}

(* The update of the relation's row; its trigger then sees these grants.   *)
LockRelation(w, r, row) ==
  /\ writer[w].step = "begun"
  /\ ~RelationHeld(r) /\ ~RelationShared(r)
  /\ writer' = [writer EXCEPT
       ![w] = [@ EXCEPT !.step = "cascade", !.relation = r, !.row = row,
                        !.todo = IF Cascades(relations[r], row) THEN OpenUnder(r) ELSE {}]]
  /\ UNCHANGED <<relations, authorization, clock>>

(* revoke_authorizations_for_inactive_relation waits for a grant that is   *)
(* being written, and passes over it if it no longer is one to revoke.     *)
CascadeTo(w, g) ==
  /\ g \in writer[w].todo
  /\ ~GrantHeld(g)
  /\ writer' = [writer EXCEPT ![w].todo = @ \ {g},
                              ![w].took = @ \cup ({g} \cap OpenUnder(writer[w].relation))]
  /\ UNCHANGED <<relations, authorization, clock>>

(* The commit, with every grant that the trigger has revoked.              *)
CommitRelation(w) ==
  /\ writer[w].step = "cascade" /\ writer[w].todo = {}
  /\ relations' = [relations EXCEPT ![writer[w].relation] = writer[w].row]
  /\ authorization' = [g \in Grants |-> IF g \in writer[w].took
                         THEN [authorization[g] EXCEPT !.status = "revoked"] ELSE authorization[g]]
  /\ writer' = Done(w)
  /\ UNCHANGED clock

(* An insert or update of a grant locks its row before its trigger runs.   *)
LockGrant(w, g) ==
  /\ writer[w].step = "begun"
  /\ ~GrantHeld(g)
  /\ writer' = [writer EXCEPT ![w].step = "check", ![w].grant = g]
  /\ UNCHANGED <<relations, authorization, clock>>

(* enforce_authorization_relation_not_inactive on the relation's last      *)
(* committed row, with the now() of this transaction's BEGIN.              *)
MayStand(old, new, now) ==
  LET relation == relations[new.relation] IN
  /\ old # NoGrant /\ old.status \in Ended => new.status \in Ended
  /\ new.status = "active" =>
       /\ RelationActive(new.relation, now)
       /\ Within(new.window, relation.window)
  /\ new.status = "draft" => relation.verification \notin {"rejected", "revoked"}

(* The trigger waits for the relation for share, and keeps it.             *)
CheckRelation(w, row) ==
  /\ writer[w].step = "check"
  /\ row.status \in OpenGrant => ~RelationHeld(row.relation)
  /\ writer' = IF MayStand(authorization[writer[w].grant], row, writer[w].now)
               THEN [writer EXCEPT ![w].step = "checked", ![w].row = row] ELSE Done(w)
  /\ UNCHANGED <<relations, authorization, clock>>

CommitGrant(w) ==
  /\ writer[w].step = "checked"
  /\ authorization' = [authorization EXCEPT ![writer[w].grant] = writer[w].row]
  /\ writer' = Done(w)
  /\ UNCHANGED <<relations, clock>>

(* A deadlock is broken, or the connection is lost.                        *)
AbortWrite(w) ==
  /\ writer[w].step # "idle"
  /\ writer' = Done(w)
  /\ UNCHANGED <<relations, authorization, clock>>

Advance ==
  /\ clock < MaxClock
  /\ clock' = clock + 1
  /\ UNCHANGED <<relations, authorization, writer>>

AuthorizationNext ==
  \/ \E w \in Writers :
       \/ BeginWrite(w)
       \/ \E r \in Relations, row \in RelationRows : LockRelation(w, r, row)
       \/ \E g \in Grants : CascadeTo(w, g) \/ LockGrant(w, g)
       \/ \E row \in GrantRows : CheckRelation(w, row)
       \/ CommitRelation(w) \/ CommitGrant(w) \/ AbortWrite(w)
  \/ Advance

AuthorizationSpec == AuthorizationInit /\ [][AuthorizationNext]_authorizationVars

-----------------------------------------------------------------------------
(* ----------------------------- properties ------------------------------ *)

(* A grant alone decides a use at any time from now on: one that is active *)
(* has a verified relation whose window holds its own, and a draft has one *)
(* that is neither rejected nor revoked, whichever of the two was written  *)
(* last and whatever their writers waited for.                             *)
GrantsFollowRelation ==
  \A g \in Grants : authorization[g] # NoGrant =>
    /\ \A at \in clock .. MaxClock + 1 : GrantActive(g, at) => CanUsePrivateData(g, at)
    /\ authorization[g].status = "draft" =>
         relations[authorization[g].relation].verification \notin {"rejected", "revoked"}
=============================================================================
