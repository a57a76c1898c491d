----------------------------- MODULE ProjectAccess -----------------------------
(***************************************************************************)
(* Members of projects and the sharing of video evidence between them:     *)
(* mutate_project_collaboration.py of the dashboard's backend, over        *)
(* research_project_member, project_video_share_grant and                  *)
(* project_access_event of src/db/schema.sql.                              *)
(*                                                                         *)
(* A request is one transaction. Its now() is fixed by BEGIN and is both   *)
(* what "effective_from <= now()" reads members with and the effective_from*)
(* of the row it adds, but the project is locked by a later statement: the *)
(* order of the locks need not be that of the timestamps.                  *)
(***************************************************************************)
EXTENDS Naturals, Sequences, FiniteSets, SequencesExt

CONSTANTS
  Projects,      \* numbers, for UUIDs are compared
  Actors, Roles,
  Sessions,      \* requests that may run at once
  FirstMembers,  \* rows that provisioning wrote, from time 0
  MaxTime,       \* bound: transactions begun
  MaxGrants,     \* bound: grants offered
  NoRole, NoRequest

ASSUME ProjectAccessAssumption ==
  /\ Projects \subseteq Nat /\ MaxTime \in Nat /\ MaxGrants \in Nat
  /\ {"owner", "admin"} \subseteq Roles

(* A project is provisioned with an owner, and nobody twice.               *)
ASSUME FirstMembersAssumption ==
  /\ FirstMembers \subseteq [project : Projects, actor : Actors, role : Roles,
                             status : {"active", "revoked"}, from : {0}]
  /\ \A m, n \in FirstMembers : m.project = n.project /\ m.actor = n.actor => m = n
  /\ \A p \in Projects : \E m \in FirstMembers :
       m.project = p /\ m.role = "owner" /\ m.status = "active"
  /\ NoRole \notin Roles

VARIABLES
  open,       \* projects that are active, in an active organization
  members,    \* research_project_member
  grants,     \* project_video_share_grant in order of id, each with its history
  events,     \* project_access_event: who did what to a member or a grant, and when
  tx,         \* the transaction of a session
  time,       \* the now() of the last BEGIN
  overtaken   \* history: projects whose lock a transaction got before an older one

accessVars == <<open, members, grants, events, tx, time, overtaken>>

OpenStatus == {"offered", "active"}
NoTx == [step |-> "idle", request |-> NoRequest, at |-> 0, locked |-> {}]

AccessInit ==
  /\ open = Projects
  /\ members = FirstMembers
  /\ grants = <<>>
  /\ events = {}
  /\ tx = [s \in Sessions |-> NoTx]
  /\ time = 0
  /\ overtaken = {}

(* ------------------------------- reading ------------------------------- *)

RowsOf(p, a, at) == {m \in members : m.project = p /\ m.actor = a /\ m.from <= at}

(* _role: the latest row that now() has reached decides alone.             *)
Latest(rows) == CHOOSE m \in rows : \A n \in rows : n.from <= m.from
RoleIn(rows) ==
  IF rows # {} /\ Latest(rows).status = "active" THEN Latest(rows).role ELSE NoRole
RoleAt(p, a, at) == RoleIn(RowsOf(p, a, at))

(* Mutant: whoever asks may manage. *)
Anybody(role) == TRUE

IsManager(role) == role \in {"owner", "admin"}

(* Mutant: a row that a newer one replaced still counts. *)
OtherOwnerEver(p, a, at) ==
  \E b \in Actors \ {a} : \E m \in RowsOf(p, b, at) : m.role = "owner" /\ m.status = "active"

(* _require_other_owner                                                    *)
OtherOwner(p, a, at) == \E b \in Actors \ {a} : RoleAt(p, b, at) = "owner"

(* ------------------------------- requests ------------------------------ *)

Transitions == {"share_accept", "share_decline", "share_revoke"}
MemberRequests ==
  [action : {"member_set"}, project : Projects, actor : Actors, target : Actors, role : Roles]
    \cup [action : {"member_revoke"}, project : Projects, actor : Actors, target : Actors]
OfferRequests ==
  {r \in [action : {"share_offer"}, project : Projects, actor : Actors, to : Projects] : r.to # r.project}
GrantRequests ==
  [action : Transitions, project : Projects, actor : Actors, grant : DOMAIN grants]

Doing(s, action) == tx[s].step = "act" /\ tx[s].request.action = action

(* BEGIN, which fixes now().                                               *)
BeginRequest(s, r) ==
  /\ tx[s].step = "idle"
  /\ time < MaxTime
  /\ time' = time + 1
  /\ tx' = [tx EXCEPT ![s] = [NoTx EXCEPT !.step = "lock", !.request = r, !.at = time + 1]]
  /\ UNCHANGED <<open, members, grants, events, overtaken>>

ToLock(r) == {r.project} \cup (IF r.action = "share_offer" THEN {r.to} ELSE {})
Held(p, s) == \E z \in Sessions \ {s} : p \in tx[z].locked

End(s) == [tx EXCEPT ![s] = NoTx]

(* _project, in the order of the UUIDs: an inactive project ends it.       *)
LockProject(s) ==
  LET left == ToLock(tx[s].request) \ tx[s].locked
      p == Min(left) IN
  /\ tx[s].step = "lock"
  /\ ~Held(p, s)
  /\ tx' = IF p \notin open THEN End(s)
           ELSE [tx EXCEPT ![s].locked = @ \cup {p}, ![s].step = IF left = {p} THEN "act" ELSE "lock"]
  /\ overtaken' = IF p \in open /\ \E e \in events : e.project = p /\ e.at > tx[s].at
                  THEN overtaken \cup {p} ELSE overtaken
  /\ UNCHANGED <<open, members, grants, events, time>>

(* _manager, on the role that now() reads once the project is locked.      *)
MyRole(s) == RoleAt(tx[s].request.project, tx[s].request.actor, tx[s].at)

Refuse(s) ==
  /\ tx[s].step = "act" /\ ~IsManager(MyRole(s))
  /\ tx' = End(s)
  /\ UNCHANGED <<open, members, grants, events, time, overtaken>>

Row(s, role, status) ==
  [project |-> tx[s].request.project, actor |-> tx[s].request.target, role |-> role,
   status |-> status, from |-> tx[s].at]

(* _event: what a request did, in its own transaction.                     *)
Event(s, action, subject) ==
  [action |-> action, project |-> tx[s].request.project, actor |-> tx[s].request.actor,
   subject |-> subject, at |-> tx[s].at]

(* Mutant: an admin gives and takes the roles that only an owner may. *)
OwnersLeft(s, old, new) ==
  old = "owner" /\ new # "owner" => OtherOwner(tx[s].request.project, tx[s].request.target, tx[s].at)

(* The two conditions under which a manager may give or take a role.       *)
MayChange(s, old, new) ==
  /\ MyRole(s) = "owner" \/ {old, new} \cap {"owner", "admin"} = {}
  /\ old = "owner" /\ new # "owner" => OtherOwner(tx[s].request.project, tx[s].request.target, tx[s].at)

(* _member_set: a role that is held already changes nothing.               *)
MemberSet(s) ==
  LET r == tx[s].request
      old == RoleAt(r.project, r.target, tx[s].at) IN
  /\ Doing(s, "member_set") /\ IsManager(MyRole(s))
  /\ IF MayChange(s, old, r.role) /\ old # r.role
     THEN /\ members' = members \cup {Row(s, r.role, "active")}
          /\ events' = events \cup {Event(s, r.action, r.target)}
     ELSE UNCHANGED <<members, events>>
  /\ tx' = End(s)
  /\ UNCHANGED <<open, grants, time, overtaken>>

(* _member_revoke                                                          *)
MemberRevoke(s) ==
  LET r == tx[s].request
      old == RoleAt(r.project, r.target, tx[s].at) IN
  /\ Doing(s, "member_revoke") /\ IsManager(MyRole(s))
  /\ IF old # NoRole /\ MayChange(s, old, NoRole)
     THEN /\ members' = members \cup {Row(s, old, "revoked")}
          /\ events' = events \cup {Event(s, r.action, r.target)}
     ELSE UNCHANGED <<members, events>>
  /\ tx' = End(s)
  /\ UNCHANGED <<open, grants, time, overtaken>>

(* ------------------------------- sharing ------------------------------- *)

(* Mutant: the grant is read without FOR UPDATE. *)
GrantAlwaysFree(i, s) == TRUE

(* FOR UPDATE waits for the session that read the grant before.            *)
GrantFree(i, s) ==
  \A z \in Sessions \ {s} : ~(tx[z].step = "update" /\ tx[z].request.grant = i)

OpenGrants(source, target) ==
  {i \in DOMAIN grants : grants[i].source = source /\ grants[i].target = target
                         /\ grants[i].status \in OpenStatus}

Closed(g, status, event) == [g EXCEPT !.status = status, !.log = Append(@, event)]

(* _share_offer: a grant that expired while open is revoked first.         *)
ShareOffer(s) ==
  LET r == tx[s].request
      old == OpenGrants(r.project, r.to)
      new == [source |-> r.project, target |-> r.to, status |-> "offered", expired |-> FALSE,
              log |-> <<"share_offer">>] IN
  /\ Doing(s, "share_offer") /\ IsManager(MyRole(s))
  /\ \A i \in old : GrantFree(i, s)
  /\ Len(grants) < MaxGrants
  /\ IF \E i \in old : ~grants[i].expired
     THEN UNCHANGED <<grants, events>>
     ELSE /\ grants' = Append([i \in DOMAIN grants |-> IF i \in old
                                THEN Closed(grants[i], "revoked", "share_revoke") ELSE grants[i]], new)
          /\ events' = events \cup {Event(s, "share_revoke", i) : i \in old}
                              \cup {Event(s, r.action, Len(grants) + 1)}
  /\ tx' = End(s)
  /\ UNCHANGED <<open, members, time, overtaken>>

(* _share_transition locks the grant; whoever it concerns may go on.       *)
Allowed(s, g) ==
  LET r == tx[s].request IN
  /\ r.project \in {g.source, g.target}
  /\ IF r.action = "share_revoke" THEN g.status \in OpenStatus
     ELSE r.project = g.target /\ g.status = "offered" /\ ~g.expired
  /\ r.action = "share_accept" => g.source \in open

ReadGrant(s) ==
  LET i == tx[s].request.grant IN
  /\ tx[s].step = "act" /\ tx[s].request.action \in Transitions
  /\ IsManager(MyRole(s))
  /\ GrantFree(i, s)
  /\ tx' = IF Allowed(s, grants[i]) THEN [tx EXCEPT ![s].step = "update"] ELSE End(s)
  /\ UNCHANGED <<open, members, grants, events, time, overtaken>>

After(action) ==
  CASE action = "share_accept" -> "active"
    [] action = "share_decline" -> "declined"
    [] action = "share_revoke" -> "revoked"

WriteGrant(s) ==
  LET r == tx[s].request IN
  /\ tx[s].step = "update"
  /\ grants' = [grants EXCEPT ![r.grant] = Closed(@, After(r.action), r.action)]
  /\ events' = events \cup {Event(s, r.action, r.grant)}
  /\ tx' = End(s)
  /\ UNCHANGED <<open, members, time, overtaken>>

(* ------------------------------- outside ------------------------------- *)

Expire(i) ==
  /\ grants[i].status \in OpenStatus /\ ~grants[i].expired
  /\ grants' = [grants EXCEPT ![i].expired = TRUE]
  /\ UNCHANGED <<open, members, events, tx, time, overtaken>>

(* An operator pauses or resumes a project, which needs its row.           *)
Pause(p) ==
  /\ \A s \in Sessions : p \notin tx[s].locked
  /\ open' = IF p \in open THEN open \ {p} ELSE open \cup {p}
  /\ UNCHANGED <<members, grants, events, tx, time, overtaken>>

(* The request's connection is lost.                                       *)
Drop(s) ==
  /\ tx[s].step # "idle"
  /\ tx' = End(s)
  /\ UNCHANGED <<open, members, grants, events, time, overtaken>>

AccessNext ==
  \/ \E s \in Sessions :
       \/ \E r \in MemberRequests \cup OfferRequests \cup GrantRequests : BeginRequest(s, r)
       \/ LockProject(s) \/ Refuse(s) \/ MemberSet(s) \/ MemberRevoke(s)
       \/ ShareOffer(s) \/ ReadGrant(s) \/ WriteGrant(s) \/ Drop(s)
  \/ \E i \in DOMAIN grants : Expire(i)
  \/ \E p \in Projects : Pause(p)

AccessSpec == AccessInit /\ [][AccessNext]_accessVars

-----------------------------------------------------------------------------
(* ----------------------------- properties ------------------------------ *)

HasOwner(p) == \E a \in Actors : RoleAt(p, a, time) = "owner"

(* A project keeps an owner: what the lock of the project is said to       *)
(* prevent (mutate_project_collaboration.py:75).                           *)
LastOwnerStays == \A p \in Projects : HasOwner(p)

(* The role an actor had when an event of then took effect.                *)
RoleBefore(p, a, then) ==
  RoleIn({m \in members : m.project = p /\ m.actor = a /\ m.from < then})

DoneByManager(e) == RoleBefore(e.project, e.actor, e.at) \in {"owner", "admin"}

(* A row of a member that a request added: the event of it, done by an     *)
(* owner when the row or the one before makes or made a manager.           *)
GivenRightly(m) ==
  \E e \in events :
    /\ e.action \in {"member_set", "member_revoke"}
    /\ e.project = m.project /\ e.subject = m.actor /\ e.at = m.from
    /\ m.project \notin overtaken /\ {m.role, RoleBefore(m.project, m.actor, m.from)} \cap {"owner", "admin"} # {} =>
         RoleBefore(m.project, e.actor, e.at) = "owner"

Told(i, action, projects) ==
  \E e \in events : e.action = action /\ e.subject = i /\ e.project \in projects

(* Whoever reads a project's videos was given that by who could give it.   *)
(* Every row of a member has the event of its request, every grant that of *)
(* its source's offer, and of its target's acceptance or refusal and of    *)
(* either's revocation; who did it managed that project just before, and   *)
(* was an owner where a manager was made or unmade. All that, and that the *)
(* project has an owner, as long as no request gets a project's lock after *)
(* one that began later has taken effect there. A grant goes from offered  *)
(* to accepted to closed, once each, whoever else was closing it           *)
(* meanwhile, and a pair of projects has one open grant.                   *)
AccessAsAgreed ==
  /\ \A p \in Projects \ overtaken : HasOwner(p)
  /\ \A e \in events : e.project \notin overtaken => DoneByManager(e)
  /\ \A m \in members \ FirstMembers : GivenRightly(m)
  /\ \A i \in DOMAIN grants :
       LET g == grants[i] IN
       /\ Told(i, "share_offer", {g.source})
       /\ g.status = "active" => Told(i, "share_accept", {g.target})
       /\ g.status = "declined" => Told(i, "share_decline", {g.target})
       /\ g.status = "revoked" => Told(i, "share_revoke", {g.source, g.target})
       /\ g.log \in
            CASE g.status = "offered" -> {<<"share_offer">>}
              [] g.status = "active" -> {<<"share_offer", "share_accept">>}
              [] g.status = "declined" -> {<<"share_offer", "share_decline">>}
              [] g.status = "revoked" -> {<<"share_offer", "share_revoke">>,
                                          <<"share_offer", "share_accept", "share_revoke">>}
  /\ \A p, q \in Projects : Cardinality(OpenGrants(p, q)) <= 1
=============================================================================
