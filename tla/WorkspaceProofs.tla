---------------------------- MODULE WorkspaceProofs ----------------------------
(***************************************************************************)
(* Proofs about a project's workspace, for any number of accounts, grants, *)
(* writers, videos, runs, cards, profiles, members and sessions:           *)
(* AccountAuthorization, SubjectRelevance, DecisionLoop and ProjectAccess, *)
(* each with an inductive invariant of its own and one lemma per action.   *)
(***************************************************************************)
EXTENDS ProjectAccess, DecisionLoop, SubjectRelevance, AccountAuthorization,
        FiniteSetTheorems, SequenceTheorems, TLAPS

-----------------------------------------------------------------------------
(* Accounts. A grant row fits a relation row when both triggers would let  *)
(* the two stand; the transactions in progress keep what they have locked  *)
(* fit for their commit.                                                   *)

RowFits(row, relation) ==
  /\ row.status = "active" =>
       relation.verification = "verified" /\ Within(row.window, relation.window)
  /\ row.status = "draft" => relation.verification \notin {"rejected", "revoked"}

WriterRows ==
  [step : {"idle", "begun", "cascade", "check", "checked"}, now : Nat,
   relation : Relations \cup {NoImage}, grant : Grants \cup {NoImage},
   row : RelationRows \cup GrantRows \cup {NoImage},
   todo : SUBSET Grants, took : SUBSET Grants]

AuthorizationTypes ==
  /\ relations \in [Relations -> RelationRows]
  /\ authorization \in [Grants -> GrantRows \cup {NoGrant}]
  /\ writer \in [Writers -> WriterRows]
  /\ clock \in Nat

(* What a transaction has in hand at each of its steps. *)
WriterFits(w) ==
  /\ writer[w].step # "cascade" => writer[w].took = {}
  /\ writer[w].step = "cascade" =>
       /\ writer[w].relation \in Relations /\ writer[w].row \in RelationRows
       /\ Cascades(relations[writer[w].relation], writer[w].row) =>
            OpenUnder(writer[w].relation) \subseteq writer[w].todo \cup writer[w].took
       /\ \A g \in writer[w].took : authorization[g] # NoGrant
  /\ writer[w].step \in {"check", "checked"} <=> writer[w].grant # NoImage
  /\ writer[w].step = "checked" =>
       writer[w].row \in GrantRows /\ RowFits(writer[w].row, relations[writer[w].row.relation])

(* Of two transactions, what one holds the other does not write. *)
Holds(w, g) == writer[w].grant = g \/ g \in writer[w].took
Apart(w, z) ==
  /\ \A g \in Grants : Holds(w, g) /\ Holds(z, g) => w = z
  /\ /\ writer[w].step = "cascade" /\ writer[z].step = "cascade"
     /\ writer[w].relation = writer[z].relation
     => w = z
  /\ /\ writer[w].step = "cascade" /\ writer[z].step = "checked"
     /\ writer[z].row.status \in OpenGrant
     => writer[w].relation # writer[z].row.relation

AuthorizationInv ==
  /\ AuthorizationTypes
  /\ \A g \in Grants : authorization[g] # NoGrant =>
       RowFits(authorization[g], relations[authorization[g].relation])
  /\ \A w \in Writers : WriterFits(w)
  /\ \A w, z \in Writers : Apart(w, z)

USE NoGrantAssumption, AccountAuthorizationAssumption

(* One field of a writer's row at a time.                                  *)
LEMMA WriterRowFields ==
  ASSUME NEW x \in WriterRows
  PROVE  /\ \A step \in {"idle", "begun", "cascade", "check", "checked"} :
              [x EXCEPT !.step = step] \in WriterRows
         /\ \A r \in Relations : [x EXCEPT !.relation = r] \in WriterRows
         /\ \A row \in RelationRows \cup GrantRows : [x EXCEPT !.row = row] \in WriterRows
         /\ \A todo \in SUBSET Grants : [x EXCEPT !.todo = todo] \in WriterRows
         /\ \A took \in SUBSET Grants : [x EXCEPT !.took = took] \in WriterRows
  BY DEF WriterRows

LEMMA AuthorizationInitInv == AuthorizationInit => AuthorizationInv
<1> SUFFICES ASSUME AuthorizationInit PROVE AuthorizationInv
  OBVIOUS
<1> USE DEF AuthorizationInit, NoWriter
<1>1. AuthorizationTypes
  BY DEF AuthorizationTypes, RelationRows, WriterRows
<1>2. \A w \in Writers : WriterFits(w)
  BY DEF WriterFits
<1>3. \A w, z \in Writers : Apart(w, z)
  BY DEF Apart, Holds
<1> QED
  BY <1>1, <1>2, <1>3 DEF AuthorizationInv

(* A transaction that ends lets go of everything.                          *)
LEMMA DoneInv ==
  ASSUME AuthorizationInv, NEW w \in Writers, writer' = Done(w),
         UNCHANGED <<relations, authorization, clock>>
  PROVE  AuthorizationInv'
<1> USE DEF AuthorizationInv, Done, NoWriter
<1>1. AuthorizationTypes'
  BY DEF AuthorizationTypes, WriterRows
<1>2. \A z \in Writers : WriterFits(z)'
  BY DEF WriterFits, AuthorizationTypes, WriterRows, OpenUnder
<1>3. \A y, z \in Writers : Apart(y, z)'
  BY DEF Apart, Holds, AuthorizationTypes, WriterRows
<1> QED
  BY <1>1, <1>2, <1>3

LEMMA BeginWriteInv ==
  ASSUME AuthorizationInv, NEW w \in Writers, BeginWrite(w)
  PROVE  AuthorizationInv'
<1> USE DEF AuthorizationInv, BeginWrite
<1>1. AuthorizationTypes'
  <2>1. writer[w] \in WriterRows /\ clock \in Nat
    BY DEF AuthorizationTypes
  <2>2. writer'[w] \in WriterRows
    BY <2>1 DEF AuthorizationTypes, WriterRows, OpenUnder
  <2>3. writer' = [writer EXCEPT ![w] = writer'[w]]
    BY DEF AuthorizationTypes
  <2> QED
    BY <2>2, <2>3 DEF AuthorizationTypes
<1>2. \A z \in Writers : WriterFits(z)'
  BY DEF WriterFits, AuthorizationTypes, WriterRows, OpenUnder
<1>3. \A y, z \in Writers : Apart(y, z)'
  BY DEF Apart, Holds, AuthorizationTypes, WriterRows
<1> QED
  BY <1>1, <1>2, <1>3

LEMMA LockRelationInv ==
  ASSUME AuthorizationInv, NEW w \in Writers, NEW r \in Relations, NEW row \in RelationRows,
         LockRelation(w, r, row)
  PROVE  AuthorizationInv'
<1> USE DEF AuthorizationInv, LockRelation
<1>1. AuthorizationTypes'
  <2>1. writer[w] \in WriterRows /\ clock \in Nat
    BY DEF AuthorizationTypes
  <2>2. writer'[w] \in WriterRows
    <3> DEFINE todo == IF Cascades(relations[r], row) THEN OpenUnder(r) ELSE {}
    <3>1. todo \in SUBSET Grants
      BY DEF OpenUnder
    <3>2. writer'[w] = [writer[w] EXCEPT !.step = "cascade", !.relation = r, !.row = row, !.todo = todo]
      BY DEF AuthorizationTypes
    <3> DEFINE x1 == [writer[w] EXCEPT !.step = "cascade"]
               x2 == [x1 EXCEPT !.relation = r]
               x3 == [x2 EXCEPT !.row = row]
    <3>3. x1 \in WriterRows
      BY <2>1, WriterRowFields
    <3>4. x2 \in WriterRows
      <4> HIDE DEF x1
      <4> QED
        BY <3>3, WriterRowFields
    <3>5. x3 \in WriterRows
      <4> HIDE DEF x2
      <4> QED
        BY <3>4, WriterRowFields
    <3>6. [x3 EXCEPT !.todo = todo] \in WriterRows
      <4> HIDE DEF x3, todo
      <4> QED
        BY <3>1, <3>5, WriterRowFields
    <3> HIDE DEF todo
    <3> QED
      BY <2>1, <3>2, <3>6
  <2>3. writer' = [writer EXCEPT ![w] = writer'[w]]
    BY DEF AuthorizationTypes
  <2> QED
    BY <2>2, <2>3 DEF AuthorizationTypes
<1>2. \A z \in Writers : WriterFits(z)'
  BY DEF WriterFits, AuthorizationTypes, WriterRows, OpenUnder
<1>3. \A y, z \in Writers : Apart(y, z)'
  BY DEF Apart, Holds, AuthorizationTypes, WriterRows, RelationHeld, RelationShared, WriterFits
<1> QED
  BY <1>1, <1>2, <1>3

LEMMA CascadeToInv ==
  ASSUME AuthorizationInv, NEW w \in Writers, NEW g \in Grants, CascadeTo(w, g)
  PROVE  AuthorizationInv'
<1> USE DEF AuthorizationInv, CascadeTo
<1>1. AuthorizationTypes'
  <2>1. writer[w] \in WriterRows /\ clock \in Nat
    BY DEF AuthorizationTypes
  <2>2. writer'[w] \in WriterRows
    <3> DEFINE took == writer[w].took \cup ({g} \cap OpenUnder(writer[w].relation))
               todo == writer[w].todo \ {g}
    <3>1. took \in SUBSET Grants /\ todo \in SUBSET Grants
      BY <2>1 DEF WriterRows
    <3>2. writer'[w] = [writer[w] EXCEPT !.todo = todo, !.took = took]
      BY DEF AuthorizationTypes
    <3> DEFINE x == [writer[w] EXCEPT !.todo = todo]
    <3>3. x \in WriterRows
      <4> HIDE DEF todo, took
      <4> QED
        BY <2>1, <3>1, WriterRowFields
    <3>4. [x EXCEPT !.took = took] \in WriterRows
      <4> HIDE DEF x, took
      <4> QED
        BY <3>1, <3>3, WriterRowFields
    <3> HIDE DEF todo, took
    <3> QED
      BY <2>1, <3>2, <3>4
  <2>3. writer' = [writer EXCEPT ![w] = writer'[w]]
    BY DEF AuthorizationTypes
  <2> QED
    BY <2>2, <2>3 DEF AuthorizationTypes
<1>2. \A z \in Writers : WriterFits(z)'
  BY DEF WriterFits, AuthorizationTypes, WriterRows, OpenUnder
<1>3. \A y, z \in Writers : Apart(y, z)'
  BY DEF Apart, Holds, AuthorizationTypes, WriterRows, GrantHeld
<1> QED
  BY <1>1, <1>2, <1>3

LEMMA LockGrantInv ==
  ASSUME AuthorizationInv, NEW w \in Writers, NEW g \in Grants, LockGrant(w, g)
  PROVE  AuthorizationInv'
<1> USE DEF AuthorizationInv, LockGrant
<1>1. AuthorizationTypes'
  <2>1. writer[w] \in WriterRows /\ clock \in Nat
    BY DEF AuthorizationTypes
  <2>2. writer'[w] \in WriterRows
    BY <2>1 DEF AuthorizationTypes, WriterRows, OpenUnder
  <2>3. writer' = [writer EXCEPT ![w] = writer'[w]]
    BY DEF AuthorizationTypes
  <2> QED
    BY <2>2, <2>3 DEF AuthorizationTypes
<1>2. \A z \in Writers : WriterFits(z)'
  BY DEF WriterFits, AuthorizationTypes, WriterRows, OpenUnder
<1>3. \A y, z \in Writers : Apart(y, z)'
  BY DEF Apart, Holds, AuthorizationTypes, WriterRows, GrantHeld
<1> QED
  BY <1>1, <1>2, <1>3

LEMMA CheckRelationInv ==
  ASSUME AuthorizationInv, NEW w \in Writers, NEW row \in GrantRows, CheckRelation(w, row)
  PROVE  AuthorizationInv'
<1>1. CASE writer' = Done(w)
  BY <1>1, DoneInv DEF CheckRelation
<1>2. CASE /\ MayStand(authorization[writer[w].grant], row, writer[w].now)
           /\ writer' = [writer EXCEPT ![w].step = "checked", ![w].row = row]
  <2> USE <1>2 DEF AuthorizationInv, CheckRelation
  <2>1. AuthorizationTypes'
    <3>1. writer[w] \in WriterRows
      BY DEF AuthorizationTypes
    <3>2. writer'[w] \in WriterRows
      <4> DEFINE x == [writer[w] EXCEPT !.step = "checked"]
      <4>1. x \in WriterRows
        BY <3>1, WriterRowFields
      <4>2. [x EXCEPT !.row = row] \in WriterRows
        <5> HIDE DEF x
        <5> QED
          BY <4>1, WriterRowFields
      <4>3. writer'[w] = [writer[w] EXCEPT !.step = "checked", !.row = row]
        BY DEF AuthorizationTypes
      <4> QED
        BY <4>2, <4>3
    <3>3. writer' = [writer EXCEPT ![w] = writer'[w]]
      BY DEF AuthorizationTypes
    <3> QED
      BY <3>2, <3>3 DEF AuthorizationTypes
  <2>2. RowFits(row, relations[row.relation])
    BY DEF MayStand, RelationActive, RowFits
  <2>3. \A z \in Writers : WriterFits(z)'
    BY <2>2 DEF WriterFits, AuthorizationTypes, WriterRows, OpenUnder
  <2>4. \A y, z \in Writers : Apart(y, z)'
    BY DEF Apart, Holds, AuthorizationTypes, WriterRows, RelationHeld
  <2> QED
    BY <2>1, <2>3, <2>4
<1> QED
  BY <1>1, <1>2 DEF CheckRelation

LEMMA CommitGrantInv ==
  ASSUME AuthorizationInv, NEW w \in Writers, CommitGrant(w)
  PROVE  AuthorizationInv'
<1>g. PICK g \in Grants, row \in GrantRows : g = writer[w].grant /\ row = writer[w].row
  BY DEF CommitGrant, AuthorizationInv, WriterFits, AuthorizationTypes, WriterRows
<1> USE DEF AuthorizationInv, CommitGrant, Done, NoWriter
<1>1. AuthorizationTypes'
  BY <1>g DEF AuthorizationTypes, WriterRows
<1>2. authorization' = [authorization EXCEPT ![g] = row] /\ relations' = relations
  BY <1>g
<1>3. RowFits(row, relations[row.relation])
  BY <1>g DEF WriterFits
<1>4. \A h \in Grants : authorization'[h] # NoGrant =>
        RowFits(authorization'[h], relations'[authorization'[h].relation])
  BY <1>2, <1>3 DEF AuthorizationTypes
<1>5. \A z \in Writers : writer[z].step = "cascade" =>
        OpenUnder(writer[z].relation)' \subseteq OpenUnder(writer[z].relation)
  <2> SUFFICES ASSUME NEW z \in Writers, writer[z].step = "cascade", NEW r \in Relations,
                      r = writer[z].relation, NEW h \in OpenUnder(r)'
               PROVE  h \in OpenUnder(r)
    BY DEF WriterFits
  <2>1. h # g
    BY <1>g, <1>2 DEF OpenUnder, Apart, AuthorizationTypes
  <2> QED
    BY <1>2, <2>1 DEF OpenUnder, AuthorizationTypes
<1>6. \A z \in Writers : WriterFits(z)'
  <2>1. WriterFits(w)'
    BY <1>g DEF WriterFits, AuthorizationTypes
  <2>2. ASSUME NEW z \in Writers, z # w PROVE WriterFits(z)'
    <3>1. writer'[z] = writer[z] /\ relations' = relations
      BY <2>2 DEF AuthorizationTypes
    <3>2. \A h \in writer[z].took : authorization[h] # NoGrant => authorization'[h] # NoGrant
      BY <1>2 DEF AuthorizationTypes, WriterRows
    <3> QED
      BY <1>5, <3>1, <3>2 DEF WriterFits, Cascades, RowFits
  <2> QED
    BY <2>1, <2>2
<1>7. \A y, z \in Writers : Apart(y, z)'
  BY DEF Apart, Holds, AuthorizationTypes, WriterRows
<1> QED
  BY <1>1, <1>4, <1>6, <1>7

(* The trigger has taken every open grant that no longer would fit.        *)
LEMMA CommitRelationInv ==
  ASSUME AuthorizationInv, NEW w \in Writers, CommitRelation(w)
  PROVE  AuthorizationInv'
<1>r. PICK r \in Relations, row \in RelationRows, took \in SUBSET Grants :
        r = writer[w].relation /\ row = writer[w].row /\ took = writer[w].took
  BY DEF CommitRelation, AuthorizationInv, WriterFits, AuthorizationTypes, WriterRows
<1>1. /\ relations \in [Relations -> RelationRows] /\ authorization \in [Grants -> GrantRows \cup {NoGrant}]
      /\ writer \in [Writers -> WriterRows]
      /\ \A g \in took : authorization[g] \in GrantRows
      /\ Cascades(relations[r], row) => OpenUnder(r) \subseteq took
  BY <1>r DEF AuthorizationInv, AuthorizationTypes, CommitRelation, WriterFits
<1>2. /\ relations' = [relations EXCEPT ![r] = row]
      /\ \A g \in took : authorization'[g] = [authorization[g] EXCEPT !.status = "revoked"]
      /\ \A g \in Grants \ took : authorization'[g] = authorization[g]
      /\ authorization' = [g \in Grants |-> authorization'[g]]
      /\ writer' = Done(w) /\ clock' = clock
  BY <1>r DEF CommitRelation
<1>3. \A g \in took : authorization'[g] \in GrantRows /\ authorization'[g].status = "revoked"
  <2> SUFFICES ASSUME NEW g \in took
               PROVE  authorization'[g] \in GrantRows /\ authorization'[g].status = "revoked"
    OBVIOUS
  <2>1. PICK x \in GrantRows : x = authorization[g]
    BY <1>1
  <2>2. authorization'[g] = [x EXCEPT !.status = "revoked"]
    BY <1>2, <2>1
  <2> QED
    BY <2>2 DEF GrantRows
<1>4. AuthorizationTypes'
  <2>1. \A g \in Grants : authorization'[g] \in GrantRows \cup {NoGrant}
    BY <1>1, <1>2, <1>3
  <2>2. writer' \in [Writers -> WriterRows]
    BY <1>1, <1>2 DEF Done, NoWriter, WriterRows
  <2>3. relations' \in [Relations -> RelationRows]
    BY <1>1, <1>2
  <2>4. authorization' \in [Grants -> GrantRows \cup {NoGrant}]
    BY <1>2, <2>1
  <2> QED
    BY <1>2, <2>2, <2>3, <2>4 DEF AuthorizationTypes, AuthorizationInv
(* A row that fitted the old relation fits the new one if nothing cascades. *)
<1>5. ASSUME NEW x \in GrantRows, x.relation = r, RowFits(x, relations[r]),
             ~Cascades(relations[r], row)
      PROVE  RowFits(x, row)
  BY <1>5, <1>1 DEF RowFits, Cascades, RelationRows
<1>6. \A x : x.status \in Ended => \A y : RowFits(x, y)
  BY DEF RowFits
<1>7. ASSUME NEW g \in Grants, authorization'[g] # NoGrant
      PROVE  RowFits(authorization'[g], relations'[authorization'[g].relation])
  <2>1. CASE g \in took
    BY <1>3, <1>6, <2>1
  <2>2. CASE g \notin took
    <3>1. authorization'[g] = authorization[g] /\ authorization[g] \in GrantRows
      BY <1>1, <1>2, <1>7, <2>2
    <3>2. RowFits(authorization[g], relations[authorization[g].relation])
      BY <1>7, <3>1 DEF AuthorizationInv
    <3>3. CASE authorization[g].relation # r
      BY <1>1, <1>2, <3>1, <3>2, <3>3 DEF GrantRows
    <3>4. CASE authorization[g].relation = r
      <4>1. relations'[r] = row
        BY <1>1, <1>2
      <4>2. CASE authorization[g].status \in OpenGrant
        <5>1. g \in OpenUnder(r)
          BY <3>1, <3>4, <4>2 DEF OpenUnder
        <5>2. ~Cascades(relations[r], row)
          BY <1>1, <2>2, <5>1
        <5> QED
          BY <1>5, <3>1, <3>2, <3>4, <4>1, <5>2
      <4>3. CASE authorization[g].status \in Ended
        BY <1>6, <3>1, <4>3
      <4> QED
        BY <3>1, <4>2, <4>3 DEF GrantRows
    <3> QED
      BY <3>3, <3>4
  <2> QED
    BY <2>1, <2>2
<1>8. WriterFits(w)'
  BY <1>1, <1>2 DEF WriterFits, Done, NoWriter
<1>9. ASSUME NEW z \in Writers, z # w PROVE WriterFits(z)'
  <2>1. writer'[z] = writer[z] /\ WriterFits(z) /\ Apart(w, z) /\ Apart(z, w)
    BY <1>1, <1>2, <1>9 DEF Done, AuthorizationInv
  <2>2. CASE writer[z].step = "cascade"
    <3>1. PICK q \in Relations : q = writer[z].relation
      BY <2>1, <2>2 DEF WriterFits
    <3>2. q # r /\ relations'[q] = relations[q]
      BY <1>r, <1>1, <1>2, <1>9, <2>1, <2>2, <3>1 DEF Apart, CommitRelation
    <3>3. OpenUnder(q)' \subseteq OpenUnder(q)
      <4> SUFFICES ASSUME NEW g \in OpenUnder(q)' PROVE g \in OpenUnder(q)
        OBVIOUS
      <4>1. g \in Grants \ took
        BY <1>3 DEF OpenUnder, OpenGrant
      <4> QED
        BY <1>2, <4>1 DEF OpenUnder
    <3>4. \A g \in writer[z].took : authorization'[g] # NoGrant
      BY <1>1, <1>2, <1>3, <2>1, <2>2 DEF WriterFits, WriterRows
    <3> QED
      BY <2>1, <2>2, <3>1, <3>2, <3>3, <3>4 DEF WriterFits
  <2>3. CASE writer[z].step = "checked"
    <3>1. PICK x \in GrantRows : x = writer[z].row
      BY <2>1, <2>3 DEF WriterFits
    <3>2. RowFits(x, relations[x.relation])
      BY <2>1, <2>3, <3>1 DEF WriterFits
    <3>3. RowFits(x, relations'[x.relation])
      <4>1. CASE x.status \in OpenGrant
        <5>1. x.relation # r
          BY <1>r, <2>1, <2>3, <3>1, <4>1 DEF Apart, CommitRelation
        <5> QED
          BY <1>1, <1>2, <3>2, <5>1 DEF GrantRows
      <4>2. CASE x.status \in Ended
        BY <1>6, <4>2
      <4> QED
        BY <4>1, <4>2 DEF GrantRows
    <3> QED
      BY <2>1, <2>3, <3>1, <3>3 DEF WriterFits
  <2>4. CASE writer[z].step \notin {"cascade", "checked"}
    BY <2>1, <2>4 DEF WriterFits
  <2> QED
    BY <2>2, <2>3, <2>4
<1>10. \A y, z \in Writers : Apart(y, z)'
  <2>1. writer'[w] = NoWriter /\ \A z \in Writers \ {w} : writer'[z] = writer[z]
    BY <1>1, <1>2 DEF Done
  <2>2. \A y, z \in Writers : Apart(y, z)
    BY DEF AuthorizationInv
  <2> QED
    BY <2>1, <2>2 DEF Apart, Holds, NoWriter
<1> QED
  BY <1>4, <1>7, <1>8, <1>9, <1>10 DEF AuthorizationInv

LEMMA AuthorizationNextInv ==
  AuthorizationInv /\ [AuthorizationNext]_authorizationVars => AuthorizationInv'
<1> SUFFICES ASSUME AuthorizationInv, [AuthorizationNext]_authorizationVars
             PROVE  AuthorizationInv'
  OBVIOUS
<1>1. CASE UNCHANGED <<relations, authorization, writer>> /\ clock' \in Nat
  <2>1. AuthorizationTypes'
    BY <1>1 DEF AuthorizationInv, AuthorizationTypes
  <2>2. \A z \in Writers : WriterFits(z)'
    BY <1>1 DEF AuthorizationInv, WriterFits, OpenUnder
  <2>3. \A y, z \in Writers : Apart(y, z)'
    BY <1>1 DEF AuthorizationInv, Apart, Holds
  <2> QED
    BY <1>1, <2>1, <2>2, <2>3 DEF AuthorizationInv
<1>2. ASSUME NEW w \in Writers, AbortWrite(w)
      PROVE  AuthorizationInv'
  BY <1>2, DoneInv DEF AbortWrite
<1>3. CASE Advance
  BY <1>1, <1>3 DEF Advance, AuthorizationInv, AuthorizationTypes
<1>4. CASE UNCHANGED authorizationVars
  BY <1>1, <1>4 DEF authorizationVars, AuthorizationInv, AuthorizationTypes
<1> QED
  BY <1>2, <1>3, <1>4, BeginWriteInv, LockRelationInv, CascadeToInv, LockGrantInv,
     CheckRelationInv, CommitRelationInv, CommitGrantInv DEF AuthorizationNext

(* Whatever order relations and grants are written in, and whatever their  *)
(* writers wait for, a grant alone decides a use: one that is active has a *)
(* verified relation around it.                                            *)
THEOREM GrantsAreSafe == AuthorizationSpec => []GrantsFollowRelation
<1>1. AuthorizationInv => GrantsFollowRelation
  <2> SUFFICES ASSUME AuthorizationInv, NEW g \in Grants, authorization[g] # NoGrant
               PROVE  /\ \A at \in clock .. MaxClock + 1 : GrantActive(g, at) => CanUsePrivateData(g, at)
                      /\ authorization[g].status = "draft" =>
                           relations[authorization[g].relation].verification \notin {"rejected", "revoked"}
    BY DEF GrantsFollowRelation
  <2>1. RowFits(authorization[g], relations[authorization[g].relation])
    BY DEF AuthorizationInv
  <2>2. /\ authorization[g].window \in [from : Nat, until : Nat]
        /\ relations[authorization[g].relation].window \in [from : Nat, until : Nat]
    BY DEF AuthorizationInv, AuthorizationTypes, GrantRows, RelationRows
  <2>3. ASSUME NEW at \in clock .. MaxClock + 1, GrantActive(g, at)
        PROVE  CanUsePrivateData(g, at)
    <3>1. at \in Nat
      BY DEF AuthorizationInv, AuthorizationTypes
    <3> QED
      BY <2>1, <2>2, <2>3, <3>1
         DEF GrantActive, CanUsePrivateData, RelationActive, RowFits, InWindow, Within
  <2> QED
    BY <2>1, <2>3 DEF RowFits
<1> QED
  BY <1>1, AuthorizationInitInv, AuthorizationNextInv, PTL DEF AuthorizationSpec

-----------------------------------------------------------------------------
(* Relevance. While an evaluation shares the subject its terms are those   *)
(* that hold; what it has read of a video was said of it, and for a        *)
(* preflight the decision that it read is part of what was held since.     *)

RowRead == [words : Texts, row : Rows \cup {NoRow}]
RunRows ==
  [stage : Stages \cup {"detail", "score", "done"}, step : {"lock", "read", "write"},
   terms : TermSets \cup {NoRow}, read : {NoRow} \cup UNION {[C -> RowRead] : C \in SUBSET Videos},
   decisions : [Videos -> Answers \cup {NoDecision}]]

RelevanceTypes ==
  /\ terms \in TermSets
  /\ text \in [Videos -> Texts]
  /\ relevance \in [Videos -> Rows \cup {NoRow}]
  /\ audit \in [Videos -> Answers \cup {NoDecision}]
  /\ run \in [Runs -> RunRows]
  /\ DOMAIN said = Videos /\ DOMAIN reviewed = Videos
  /\ DOMAIN held = Runs /\ \A r \in Runs : DOMAIN held[r] = Videos

RowInv(v) ==
  /\ text[v] \in said[v]
  /\ relevance[v] = NoRow => reviewed[v] = NoDecision
  /\ relevance[v] # NoRow =>
       /\ IF Manual(relevance[v]) THEN relevance[v].decision = reviewed[v]
          ELSE /\ reviewed[v] = NoDecision
               /\ \/ relevance[v].decision = "pending"
                  \/ \E words \in said[v] : relevance[v].decision = Classify(words, terms)
       /\ audit[v] = relevance[v].decision

RunInv(r) ==
  /\ run[r].step \in {"read", "write"} => run[r].terms = terms /\ run[r].stage \in Stages
  /\ run[r].step = "write" =>
       /\ run[r].read \in [Candidates(r) -> RowRead]
       /\ \A v \in Candidates(r) : run[r].read[v].words \in said[v]
       /\ run[r].stage = "detail_preflight" =>
            \A v \in Candidates(r) : DecisionOf(run[r].read[v].row) \in held[r][v]
  /\ run[r].stage = "detail" => \A v \in Relevant(r) : "relevant" \in held[r][v]

RelevanceInv ==
  /\ RelevanceTypes
  /\ \A v \in Videos : RowInv(v)
  /\ \A r \in Runs : RunInv(r)

USE NoRowAssumption

LEMMA RelevanceInitInv == RelevanceInit => RelevanceInv
<1> SUFFICES ASSUME RelevanceInit PROVE RelevanceInv
  OBVIOUS
<1> USE DEF RelevanceInit, Idle
<1>1. RelevanceTypes
  BY DEF RelevanceTypes, RunRows, Stages
<1>2. \A v \in Videos : RowInv(v)
  BY DEF RowInv
<1>3. \A r \in Runs : RunInv(r)
  BY DEF RunInv
<1> QED
  BY <1>1, <1>2, <1>3 DEF RelevanceInv

(* A step of run r that leaves the rows and the history alone.             *)
LEMMA RunStepInv ==
  ASSUME RelevanceInv, NEW r \in Runs, NEW x \in RunRows, run' = [run EXCEPT ![r] = x],
         RunInv(r)', \A q \in Runs \ {r} : held'[q] = held[q],
         DOMAIN held' = Runs, DOMAIN held'[r] = Videos,
         UNCHANGED <<terms, text, relevance, audit, said, reviewed>>
  PROVE  RelevanceInv'
<1>1. RelevanceTypes'
  BY DEF RelevanceInv, RelevanceTypes
<1>2. \A v \in Videos : RowInv(v)'
  BY DEF RelevanceInv, RowInv, Manual, Classify
<1>3. ASSUME NEW q \in Runs, q # r PROVE RunInv(q)'
  <2>1. run'[q] = run[q] /\ held'[q] = held[q] /\ RunInv(q)
    BY <1>3 DEF RelevanceInv, RelevanceTypes
  <2> QED
    BY <2>1 DEF RunInv, Candidates, Relevant, DecisionOf
<1> QED
  BY <1>1, <1>2, <1>3 DEF RelevanceInv

LEMMA RunActionsInv ==
  ASSUME RelevanceInv, NEW r \in Runs,
         LockSubject(r) \/ FetchDetails(r) \/ ScoreRun(r) \/ FailRunOf(r)
  PROVE  RelevanceInv'
<1>0. run[r] \in RunRows /\ run \in [Runs -> RunRows] /\ terms \in TermSets
  BY DEF RelevanceInv, RelevanceTypes
<1>1. CASE LockSubject(r)
  <2>1. PICK x \in RunRows : x = [run[r] EXCEPT !.step = "read", !.terms = terms]
    BY <1>0 DEF RunRows
  <2>2. run' = [run EXCEPT ![r] = x] /\ run'[r] = x
    BY <1>0, <1>1, <2>1 DEF LockSubject
  <2>3. RunInv(r)'
    BY <1>0, <1>1, <2>1, <2>2 DEF LockSubject, RunInv, Stages, RunRows
  <2> QED
    BY <1>1, <2>2, <2>3, RunStepInv DEF LockSubject, RelevanceInv, RelevanceTypes
<1>2. CASE FetchDetails(r)
  <2>1. PICK x \in RunRows : x = [run[r] EXCEPT !.stage = "detail_enrichment"]
    BY <1>0 DEF RunRows, Stages
  <2>2. run' = [run EXCEPT ![r] = x] /\ run'[r] = x
    BY <1>0, <1>2, <2>1 DEF FetchDetails
  <2>3. run[r].step = "lock"
    BY <1>0, <1>2 DEF FetchDetails, RelevanceInv, RunInv, Stages, RunRows
  <2>4. RunInv(r)'
    BY <1>0, <1>2, <2>1, <2>2, <2>3 DEF RunInv, RunRows
  <2> QED
    BY <1>2, <2>2, <2>4, RunStepInv DEF FetchDetails, RelevanceInv, RelevanceTypes
<1>3. CASE ScoreRun(r)
  <2>1. PICK x \in RunRows : x = [run[r] EXCEPT !.stage = "done"]
    BY <1>0 DEF RunRows, Stages
  <2>2. run' = [run EXCEPT ![r] = x] /\ run'[r] = x
    BY <1>0, <1>3, <2>1 DEF ScoreRun
  <2>3. run[r].step = "lock"
    BY <1>0, <1>3 DEF ScoreRun, RelevanceInv, RunInv, Stages, RunRows
  <2>4. RunInv(r)'
    BY <1>0, <1>3, <2>1, <2>2, <2>3 DEF RunInv, RunRows
  <2> QED
    BY <1>3, <2>2, <2>4, RunStepInv DEF ScoreRun, RelevanceInv, RelevanceTypes
<1>4. CASE FailRunOf(r)
  <2>1. PICK x \in RunRows : x = [Idle EXCEPT !.stage = "done"]
    BY DEF RunRows, Stages, Idle
  <2>2. run' = [run EXCEPT ![r] = x] /\ run'[r] = x
    BY <1>0, <1>4, <2>1 DEF FailRunOf
  <2>3. RunInv(r)'
    BY <2>1, <2>2 DEF RunInv, Idle
  <2> QED
    BY <1>4, <2>2, <2>3, RunStepInv DEF FailRunOf, RelevanceInv, RelevanceTypes
<1> QED
  BY <1>1, <1>2, <1>3, <1>4

LEMMA ReadRowsInv ==
  ASSUME RelevanceInv, NEW r \in Runs, ReadRows(r)
  PROVE  RelevanceInv'
<1>0. /\ run[r] \in RunRows /\ run \in [Runs -> RunRows] /\ text \in [Videos -> Texts]
      /\ relevance \in [Videos -> Rows \cup {NoRow}] /\ DOMAIN held = Runs
      /\ \A q \in Runs : DOMAIN held[q] = Videos
  BY DEF RelevanceInv, RelevanceTypes
<1> DEFINE read == [v \in Candidates(r) |-> [words |-> text[v], row |-> relevance[v]]]
<1>1. Candidates(r) \in SUBSET Videos
  BY DEF Candidates, Relevant
<1>2. read \in [Candidates(r) -> RowRead]
  BY <1>0, <1>1 DEF RowRead
<1>3. PICK x \in RunRows : x = [run[r] EXCEPT !.step = "write", !.read = read]
  <2>1. read \in UNION {[C -> RowRead] : C \in SUBSET Videos}
    BY <1>1, <1>2
  <2> HIDE DEF read
  <2> QED
    BY <1>0, <2>1 DEF RunRows
<1>4. run' = [run EXCEPT ![r] = x] /\ run'[r] = x
  BY <1>0, <1>3 DEF ReadRows
<1>5. /\ x.stage = run[r].stage /\ x.terms = run[r].terms /\ x.decisions = run[r].decisions
      /\ x.step = "write" /\ x.read = read
  <2> HIDE DEF read
  <2> QED
    BY <1>0, <1>3 DEF RunRows
<1>6. Candidates(r)' = Candidates(r)
  <2>1. Relevant(r)' = Relevant(r)
    BY <1>4, <1>5 DEF Relevant
  <2> HIDE DEF read
  <2> QED
    BY <1>4, <1>5, <2>1 DEF Candidates
<1>7. RunInv(r)'
  <2>1. x.stage \in Stages /\ x.terms = terms /\ terms' = terms /\ said' = said
    BY <1>5 DEF ReadRows, RelevanceInv, RunInv
  <2>2. \A v \in Candidates(r) : text[v] \in said[v]
    BY <1>1 DEF RelevanceInv, RowInv
  <2>3. x.stage = "detail_preflight" =>
          \A v \in Candidates(r) : DecisionOf(relevance[v]) \in held'[r][v]
    BY <1>0, <1>1, <1>5 DEF ReadRows
  <2>4. x.stage # "detail"
    BY <2>1 DEF Stages
  <2> QED
    <3>1. run'[r].step = "write" /\ run'[r].stage = x.stage /\ run'[r].terms = terms' /\ run'[r].read = read
      BY <1>4, <1>5, <2>1
    <3>2. run'[r].read \in [Candidates(r)' -> RowRead]
      BY <1>2, <1>6, <3>1
    <3>3. \A v \in Candidates(r)' : run'[r].read[v].words = text[v] /\ run'[r].read[v].row = relevance[v]
      BY <1>6, <3>1
    <3> HIDE DEF read
    <3>4. \A v \in Candidates(r)' : run'[r].read[v].words \in said'[v]
      BY <1>6, <2>1, <2>2, <3>3
    <3>5. run'[r].stage = "detail_preflight" =>
            \A v \in Candidates(r)' : DecisionOf(run'[r].read[v].row) \in held'[r][v]
      BY <1>6, <2>3, <3>1, <3>3
    <3> QED
      BY <2>1, <2>4, <3>1, <3>2, <3>4, <3>5 DEF RunInv
<1>8. /\ \A q \in Runs \ {r} : held'[q] = held[q]
      /\ DOMAIN held' = Runs /\ DOMAIN held'[r] = Videos
  BY <1>0 DEF ReadRows
<1> QED
  BY <1>4, <1>7, <1>8, RunStepInv DEF ReadRows

(* What a rule may write: rows of the current terms and of a text the      *)
(* video has had, while a reviewer's rows stand.                           *)
LEMMA WriteRowsInv ==
  ASSUME RelevanceInv, NEW r \in Runs, WriteRows(r)
  PROVE  RelevanceInv'
<1>0. /\ run[r] \in RunRows /\ run \in [Runs -> RunRows] /\ RunInv(r)
      /\ relevance \in [Videos -> Rows \cup {NoRow}]
      /\ audit \in [Videos -> Answers \cup {NoDecision}]
      /\ DOMAIN held = Runs /\ \A q \in Runs : DOMAIN held[q] = Videos
      /\ \A v \in Videos : RowInv(v)
  BY DEF RelevanceInv, RelevanceTypes
<1>1. /\ run[r].stage \in Stages /\ run[r].step = "write" /\ run[r].terms = terms
      /\ run[r].read \in [Candidates(r) -> RowRead]
      /\ \A v \in Candidates(r) : run[r].read[v].words \in said[v]
  BY <1>0 DEF WriteRows, RunInv
<1>2. Candidates(r) \subseteq Videos
  BY DEF Candidates, Relevant
<1>3. \A v \in Candidates(r) : Result(r, v) \in Answers /\ Result(r, v) = Classify(run[r].read[v].words, terms)
  BY <1>1 DEF Result, Classify, Answers
<1> DEFINE rows == [v \in Videos |->
                 IF v \in Candidates(r) /\ Upsert(r, v)
                 THEN [decision |-> Result(r, v), source |-> "rule"] ELSE relevance[v]]
           decisions == [v \in Videos |->
                      IF v \in Candidates(r) THEN DurableDecision(r, v) ELSE run[r].decisions[v]]
           newAudit == [v \in Videos |->
                 IF v \in Candidates(r) /\ ~Manual(run[r].read[v].row)
                 THEN DurableDecision(r, v) ELSE audit[v]]
<1>4. /\ relevance' = rows /\ audit' = newAudit
      /\ UNCHANGED <<terms, text, said, reviewed>>
      /\ held' = [q \in Runs |-> [v \in Videos |->
                   IF Preflighted(q) THEN held[q][v] \cup {DecisionOf(rows[v])} ELSE held[q][v]]]
  BY DEF WriteRows, Hold
<1>5. PICK stage \in NextStage(r, decisions) :
        run' = [run EXCEPT ![r] = [Idle EXCEPT !.stage = stage, !.decisions = decisions]]
  BY Zenon DEF WriteRows
<1>6. \A v \in Candidates(r) : DurableDecision(r, v) \in Answers
  <2> SUFFICES ASSUME NEW v \in Candidates(r) PROVE DurableDecision(r, v) \in Answers
    OBVIOUS
  <2>1. run[r].read[v].row \in Rows \cup {NoRow} /\ relevance[v] \in Rows \cup {NoRow}
    BY <1>0, <1>1, <1>2 DEF RowRead
  <2> QED
    BY <1>3, <2>1 DEF DurableDecision, Manual, Rows
<1>7. decisions \in [Videos -> Answers \cup {NoDecision}]
  BY <1>0, <1>6 DEF RunRows
<1>8. /\ stage \in {"detail_preflight", "detail", "score"}
      /\ stage = "detail" => run[r].stage = "detail_preflight"
  BY <1>1, <1>5 DEF NextStage, Stages
<1>9. PICK x \in RunRows :
        /\ x = [Idle EXCEPT !.stage = stage, !.decisions = decisions]
        /\ x.stage = stage /\ x.step = "lock" /\ x.decisions = decisions
  <2>0. Idle \in RunRows /\ Idle.step = "lock"
    BY DEF RunRows, Stages, Idle
  <2>1. PICK y \in RunRows : y = [Idle EXCEPT !.stage = stage] /\ y.stage = stage /\ y.step = "lock"
    <3>1. stage \in Stages \cup {"detail", "score", "done"}
      BY <1>8 DEF Stages
    <3> HIDE DEF Stages
    <3>2. /\ [Idle EXCEPT !.stage = stage] \in RunRows
          /\ [Idle EXCEPT !.stage = stage].stage = stage
          /\ [Idle EXCEPT !.stage = stage].step = "lock"
      BY <2>0, <3>1 DEF RunRows
    <3> QED
      BY <3>2
  <2> HIDE DEF decisions
  <2>2. /\ [y EXCEPT !.decisions = decisions] \in RunRows
        /\ [y EXCEPT !.decisions = decisions].stage = stage
        /\ [y EXCEPT !.decisions = decisions].step = "lock"
        /\ [y EXCEPT !.decisions = decisions].decisions = decisions
    BY <1>7, <2>1 DEF RunRows
  <2> QED
    BY <2>1, <2>2
<1>10. run' = [run EXCEPT ![r] = x] /\ run'[r] = x
  BY <1>0, <1>5, <1>9
<1>11. \A v \in Videos : RowInv(v)'
  <2> SUFFICES ASSUME NEW v \in Videos PROVE RowInv(v)'
    OBVIOUS
  <2>0. RowInv(v) /\ relevance'[v] = rows[v] /\ audit'[v] = newAudit[v]
    BY <1>0, <1>4
  <2>1. CASE v \in Candidates(r) /\ Upsert(r, v)
    <3>1. /\ relevance'[v] = [decision |-> Result(r, v), source |-> "rule"]
          /\ audit'[v] = Result(r, v)
      BY <2>0, <2>1 DEF Upsert, DurableDecision
    <3>2. relevance'[v] \in Rows /\ ~Manual(relevance'[v])
      BY <1>3, <2>1, <3>1 DEF Rows, Manual
    <3>3. reviewed[v] = NoDecision
      BY <2>0, <2>1 DEF RowInv, Upsert
    <3>4. \E words \in said[v] : relevance'[v].decision = Classify(words, terms)
      BY <1>1, <1>3, <2>1, <3>1
    <3>5. Manual(relevance[v])' <=> Manual(relevance'[v])
      BY DEF Manual
    <3> QED
      BY <1>4, <2>0, <3>1, <3>2, <3>3, <3>4, <3>5 DEF RowInv, Classify
  <2>2. CASE ~(v \in Candidates(r) /\ Upsert(r, v))
    <3>1. relevance'[v] = relevance[v]
      BY <2>0, <2>2
    <3>2. audit'[v] = audit[v] \/ (Manual(relevance[v]) /\ audit'[v] = relevance[v].decision)
      BY <2>0, <2>2 DEF Upsert, DurableDecision
    <3>3. Manual(relevance[v])' <=> Manual(relevance[v])
      BY <3>1 DEF Manual
    <3> HIDE DEF rows, newAudit
    <3> QED
      BY <1>4, <2>0, <3>1, <3>2, <3>3 DEF RowInv, Classify
  <2> QED
    BY <2>1, <2>2
<1>12. RelevanceTypes'
  <2>1. rows \in [Videos -> Rows \cup {NoRow}]
    BY <1>0, <1>3 DEF Rows
  <2>2. newAudit \in [Videos -> Answers \cup {NoDecision}]
    BY <1>0, <1>6
  <2>3. DOMAIN held' = Runs /\ \A q \in Runs : DOMAIN held'[q] = Videos
    BY <1>4
  <2> HIDE DEF rows, newAudit, decisions
  <2> QED
    BY <1>0, <1>4, <1>10, <2>1, <2>2, <2>3 DEF RelevanceInv, RelevanceTypes
<1>13. \A q \in Runs, v \in Videos : held[q][v] \subseteq held'[q][v]
  BY <1>4
<1>14. RunInv(r)'
  <2>1. ASSUME x.stage = "detail", NEW v \in Relevant(r)'
        PROVE  "relevant" \in held'[r][v]
    <3>1. run[r].stage = "detail_preflight" /\ Preflighted(r)
      BY <1>1, <1>8, <1>9, <2>1 DEF Preflighted
    <3>2. v \in Videos /\ decisions[v] = "relevant"
      BY <1>9, <1>10 DEF Relevant
    <3>3. v \in Candidates(r)
      BY <3>1, <3>2 DEF Candidates, Relevant
    <3>4. DurableDecision(r, v) = "relevant"
      BY <3>2, <3>3
    <3>5. held'[r][v] = held[r][v] \cup {DecisionOf(rows[v])}
      BY <1>4, <3>1, <3>2
    <3>6. CASE Manual(run[r].read[v].row)
      <4>1. DecisionOf(run[r].read[v].row) = "relevant"
        BY <3>4, <3>6 DEF DurableDecision, DecisionOf, Manual
      <4> QED
        BY <1>0, <1>1, <3>1, <3>3, <3>5, <4>1 DEF RunInv
    <3>7. CASE ~Manual(run[r].read[v].row) /\ Manual(relevance[v])
      <4>1. rows[v] = relevance[v] /\ DecisionOf(relevance[v]) = "relevant"
        BY <3>2, <3>4, <3>7 DEF DurableDecision, DecisionOf, Manual, Upsert
      <4> QED
        BY <3>5, <4>1
    <3>8. CASE Upsert(r, v)
      <4>1. rows[v] = [decision |-> "relevant", source |-> "rule"]
        BY <3>2, <3>3, <3>4, <3>8 DEF Upsert, DurableDecision
      <4>2. rows[v] \in Rows
        BY <4>1 DEF Rows, Answers
      <4>3. DecisionOf(rows[v]) = "relevant"
        BY <4>1, <4>2 DEF DecisionOf
      <4> QED
        BY <3>5, <4>3
    <3> QED
      BY <3>6, <3>7, <3>8 DEF Upsert
  <2> HIDE DEF rows, newAudit, decisions
  <2> QED
    BY <1>9, <1>10, <2>1 DEF RunInv
<1>15. ASSUME NEW q \in Runs, q # r PROVE RunInv(q)'
  <2>1. run'[q] = run[q] /\ RunInv(q) /\ said' = said /\ terms' = terms
    BY <1>0, <1>4, <1>10, <1>15 DEF RelevanceInv
  <2>2. Candidates(q)' = Candidates(q) /\ Relevant(q)' = Relevant(q)
    BY <2>1 DEF Candidates, Relevant
  <2>3. Candidates(q) \subseteq Videos /\ Relevant(q) \subseteq Videos
    BY DEF Candidates, Relevant
  <2> HIDE DEF rows, newAudit, decisions
  <2> QED
    BY <1>13, <1>15, <2>1, <2>2, <2>3 DEF RunInv, DecisionOf
<1> QED
  BY <1>11, <1>12, <1>14, <1>15 DEF RelevanceInv

(* A step outside the runs: rows and history may change, the history only  *)
(* grows.                                                                  *)
LEMMA OthersInv ==
  ASSUME RelevanceInv, run' = run, RelevanceTypes', \A v \in Videos : RowInv(v)',
         \A q \in Runs, v \in Videos : held[q][v] \subseteq held'[q][v],
         \A v \in Videos : said[v] \subseteq said'[v],
         terms' = terms \/ ~SubjectHeld
  PROVE  RelevanceInv'
<1>1. ASSUME NEW q \in Runs PROVE RunInv(q)'
  <2>1. RunInv(q) /\ Candidates(q)' = Candidates(q) /\ Relevant(q)' = Relevant(q)
    BY DEF RelevanceInv, Candidates, Relevant
  <2>2. Candidates(q) \subseteq Videos /\ Relevant(q) \subseteq Videos
    BY DEF Candidates, Relevant
  <2>3. run[q].step \in {"read", "write"} => terms' = terms
    BY DEF SubjectHeld, Sharing
  <2> QED
    BY <2>1, <2>2, <2>3 DEF RunInv, DecisionOf
<1> QED
  BY <1>1 DEF RelevanceInv

LEMMA UpdateTermsInv ==
  ASSUME RelevanceInv, NEW k, NEW t \in TermSets, UpdateTerms(k, t)
  PROVE  RelevanceInv'
<1>0. /\ relevance \in [Videos -> Rows \cup {NoRow}]
      /\ audit \in [Videos -> Answers \cup {NoDecision}]
      /\ DOMAIN held = Runs /\ \A q \in Runs : DOMAIN held[q] = Videos
      /\ \A v \in Videos : RowInv(v)
  BY DEF RelevanceInv, RelevanceTypes
<1> DEFINE invalidated == {v \in Videos : t # terms /\ relevance[v] # NoRow /\ ~Manual(relevance[v])}
           rows == [v \in Videos |-> IF v \in invalidated THEN [relevance[v] EXCEPT !.decision = "pending"]
                                     ELSE relevance[v]]
<1>1. /\ terms' = t /\ relevance' = rows
      /\ audit' = [v \in Videos |-> IF v \in invalidated THEN "pending" ELSE audit[v]]
      /\ held' = [q \in Runs |-> [v \in Videos |->
                   IF Preflighted(q) THEN held[q][v] \cup {DecisionOf(rows[v])} ELSE held[q][v]]]
      /\ UNCHANGED <<text, run, said, reviewed>>
      /\ ~SubjectHeld
  BY DEF UpdateTerms, Hold
<1>2. \A v \in invalidated : /\ relevance'[v] \in Rows /\ ~Manual(relevance'[v])
                              /\ relevance'[v].decision = "pending" /\ audit'[v] = "pending"
  <2> SUFFICES ASSUME NEW v \in invalidated
               PROVE  /\ relevance'[v] \in Rows /\ ~Manual(relevance'[v])
                      /\ relevance'[v].decision = "pending" /\ audit'[v] = "pending"
    OBVIOUS
  <2>1. PICK x \in Rows : x = relevance[v] /\ ~Manual(x) /\ v \in Videos
    BY <1>0
  <2>2. relevance'[v] = [x EXCEPT !.decision = "pending"]
    BY <1>1, <2>1
  <2> QED
    BY <1>1, <2>1, <2>2 DEF Rows, Manual, Answers
<1>3. \A v \in Videos \ invalidated : relevance'[v] = relevance[v] /\ audit'[v] = audit[v]
  BY <1>1
<1>4. RelevanceTypes'
  <2>1. \A v \in Videos : relevance'[v] \in Rows \cup {NoRow} /\ audit'[v] \in Answers \cup {NoDecision}
    BY <1>0, <1>2, <1>3 DEF Answers
  <2>2. relevance' = [v \in Videos |-> relevance'[v]] /\ audit' = [v \in Videos |-> audit'[v]]
    BY <1>1
  <2>3. relevance' \in [Videos -> Rows \cup {NoRow}] /\ audit' \in [Videos -> Answers \cup {NoDecision}]
    BY <2>1, <2>2
  <2>4. DOMAIN held' = Runs /\ \A q \in Runs : DOMAIN held'[q] = Videos
    BY <1>1
  <2> HIDE DEF rows
  <2> QED
    BY <1>1, <2>3, <2>4 DEF RelevanceInv, RelevanceTypes
<1>5. ASSUME NEW v \in Videos PROVE RowInv(v)'
  <2>1. Manual(relevance[v])' <=> Manual(relevance'[v])
    BY DEF Manual
  <2>2. CASE v \in invalidated
    BY <1>0, <1>1, <1>2, <2>1, <2>2 DEF RowInv
  <2>3. CASE v \notin invalidated
    <3>1. relevance'[v] = relevance[v] /\ audit'[v] = audit[v] /\ RowInv(v)
      BY <1>0, <1>3, <2>3
    <3>2. terms' = terms \/ relevance[v] = NoRow \/ Manual(relevance[v])
      BY <1>1, <2>3
    <3> HIDE DEF rows, invalidated
    <3> QED
      BY <1>1, <2>1, <3>1, <3>2 DEF RowInv, Classify
  <2> QED
    BY <2>2, <2>3
<1>6. \A q \in Runs, v \in Videos : held[q][v] \subseteq held'[q][v]
  BY <1>1
<1> QED
  <2> HIDE DEF rows, invalidated
  <2> QED
    BY <1>1, <1>4, <1>5, <1>6, OthersInv

LEMMA CorrectRelevanceInv ==
  ASSUME RelevanceInv, NEW k, NEW v \in Videos, NEW d \in Answers, CorrectRelevance(k, v, d)
  PROVE  RelevanceInv'
<1>0. /\ relevance \in [Videos -> Rows \cup {NoRow}]
      /\ audit \in [Videos -> Answers \cup {NoDecision}]
      /\ DOMAIN held = Runs /\ \A q \in Runs : DOMAIN held[q] = Videos
      /\ DOMAIN reviewed = Videos
      /\ \A u \in Videos : RowInv(u)
  BY DEF RelevanceInv, RelevanceTypes
<1> DEFINE row == [decision |-> d, source |-> "manual"]
           rows == [relevance EXCEPT ![v] = row]
<1>1. /\ relevance' = rows /\ audit' = [audit EXCEPT ![v] = d]
      /\ reviewed' = [reviewed EXCEPT ![v] = d]
      /\ held' = [q \in Runs |-> [u \in Videos |->
                   IF Preflighted(q) THEN held[q][u] \cup {DecisionOf(rows[u])} ELSE held[q][u]]]
      /\ UNCHANGED <<terms, text, run, said>>
  BY DEF CorrectRelevance, Hold, Claim, Fresh
<1>2. row \in Rows /\ Manual(row)
  BY DEF Rows, Manual
<1>3. RelevanceTypes'
  <2>1. DOMAIN held' = Runs /\ \A q \in Runs : DOMAIN held'[q] = Videos
    BY <1>1
  <2>2. rows \in [Videos -> Rows \cup {NoRow}]
    BY <1>0, <1>2
  <2> HIDE DEF rows
  <2> QED
    BY <1>0, <1>1, <2>1, <2>2 DEF RelevanceInv, RelevanceTypes
<1>4. ASSUME NEW u \in Videos PROVE RowInv(u)'
  <2>1. Manual(relevance[u])' <=> Manual(relevance'[u])
    BY DEF Manual
  <2>2. CASE u = v
    <3>1. relevance'[u] = row /\ audit'[u] = d /\ reviewed'[u] = d
      BY <1>0, <1>1, <2>2
    <3> QED
      BY <1>0, <1>1, <1>2, <2>1, <3>1 DEF RowInv
  <2>3. CASE u # v
    <3>1. relevance'[u] = relevance[u] /\ audit'[u] = audit[u] /\ reviewed'[u] = reviewed[u] /\ RowInv(u)
      BY <1>0, <1>1, <2>3
    <3> HIDE DEF rows
    <3> QED
      BY <1>1, <2>1, <3>1 DEF RowInv, Classify
  <2> QED
    BY <2>2, <2>3
<1>5. \A q \in Runs, u \in Videos : held[q][u] \subseteq held'[q][u]
  BY <1>1
<1> QED
  <2> HIDE DEF rows
  <2> QED
    BY <1>1, <1>3, <1>4, <1>5, OthersInv

LEMMA IngestTextInv ==
  ASSUME RelevanceInv, NEW v \in Videos, NEW words \in Texts, IngestText(v, words)
  PROVE  RelevanceInv'
<1>0. text \in [Videos -> Texts] /\ DOMAIN said = Videos /\ \A u \in Videos : RowInv(u)
  BY DEF RelevanceInv, RelevanceTypes
<1>1. /\ text' = [text EXCEPT ![v] = words] /\ said' = [said EXCEPT ![v] = said[v] \cup {words}]
      /\ UNCHANGED <<terms, relevance, audit, run, reviewed, held>>
  BY DEF IngestText
<1>2. RelevanceTypes'
  BY <1>0, <1>1 DEF RelevanceInv, RelevanceTypes
<1>3. \A u \in Videos : said[u] \subseteq said'[u] /\ text'[u] \in said'[u]
  BY <1>0, <1>1 DEF RowInv
<1>4. ASSUME NEW u \in Videos PROVE RowInv(u)'
  BY <1>0, <1>1, <1>3 DEF RowInv, Manual, Classify
<1> QED
  BY <1>1, <1>2, <1>3, <1>4, OthersInv

LEMMA RelevanceNextInv == RelevanceInv /\ [RelevanceNext]_relevanceVars => RelevanceInv'
<1> SUFFICES ASSUME RelevanceInv, [RelevanceNext]_relevanceVars PROVE RelevanceInv'
  OBVIOUS
<1>1. CASE UNCHANGED relevanceVars
  <2>1. RelevanceTypes'
    BY <1>1 DEF relevanceVars, RelevanceInv, RelevanceTypes
  <2>2. \A v \in Videos : RowInv(v)'
    BY <1>1 DEF relevanceVars, RelevanceInv, RowInv, Manual, Classify
  <2> QED
    BY <1>1, <2>1, <2>2, OthersInv DEF relevanceVars
<1> QED
  BY <1>1, RunActionsInv, ReadRowsInv, WriteRowsInv, UpdateTermsInv, CorrectRelevanceInv, IngestTextInv
     DEF RelevanceNext

(* A stored decision follows from the terms that hold or is what a reviewer *)
(* said last, and a detail call was preceded by a decision that the video  *)
(* is relevant: for any number of videos and runs, and whoever corrects    *)
(* what between an evaluation's read and its write.                        *)
THEOREM DecisionsAreJustified == RelevanceSpec => []DecisionsHold
<1>1. RelevanceInv => DecisionsHold
  BY DEF RelevanceInv, RowInv, RunInv, DecisionsHold
<1> QED
  BY <1>1, RelevanceInitInv, RelevanceNextInv, PTL DEF RelevanceSpec

-----------------------------------------------------------------------------
(* Decision cards. A card fits its binding, the profile that is bound is   *)
(* past its draft and says what was copied, and the versions of a          *)
(* publication's metric count its observations.                            *)

BindingFits(b) ==
  /\ b.profile \in Profiles
  /\ profiles[b.profile] # NoProfile /\ profiles[b.profile].status # "draft"
  /\ profiles[b.profile].content = b.content /\ b.content \in Cleared

Quotes(c, review) ==
  /\ review.observation \in DOMAIN observations
  /\ review.snapshot = observations[review.observation]
  /\ publications[review.snapshot.publication] = c

CardInv(c) ==
  /\ cards[c].required => cards[c].decision = "adopt"
  /\ cards[c].decision = "adopt" /\ ~cards[c].required =>
       c \in LegacyCards /\ cards[c].subject = LegacySubject
  /\ BoundTo(cards[c], bindings[c])
  /\ bindings[c] # NoBinding => BindingFits(bindings[c])
  /\ cards[c].status = "reviewed" => Quotes(c, cards[c].review)

MetricInv ==
  /\ \A i \in DOMAIN observations :
       /\ observations[i].publication \in DOMAIN publications
       /\ \A v \in 1 .. observations[i].version :
            \E j \in Versions(observations[i].publication) : j <= i /\ observations[j].version = v
  /\ \A p \in DOMAIN publications : \A v \in 1 .. Cardinality(Versions(p)) :
       \E j \in Versions(p) : observations[j].version = v

LoopTypes ==
  /\ DOMAIN cards = Cards /\ DOMAIN bindings = Cards
  /\ profiles \in [Profiles -> ProfileRows \cup {NoProfile}]
  /\ publications \in Seq(Cards)
  /\ observations \in Seq([publication : Nat, version : Nat, value : Values])

LoopInv ==
  /\ LoopTypes
  /\ \A c \in Cards : Exists(c) => CardInv(c)
  /\ MetricInv

USE DecisionLoopAssumption, NoBindingAssumption, NoProfileAssumption

LEMMA LoopInitInv == LoopInit => LoopInv
<1> SUFFICES ASSUME LoopInit PROVE LoopInv
  OBVIOUS
<1> USE DEF LoopInit
<1>1. LoopTypes
  BY DEF LoopTypes
<1>2. ASSUME NEW c \in Cards, Exists(c) PROVE CardInv(c)
  <2>1. c \in LegacyCards /\ cards[c] = Card("adopt", LegacySubject, FALSE) /\ bindings[c] = NoBinding
    BY <1>2 DEF Exists
  <2> QED
    BY <2>1 DEF CardInv, Card, FirstStatus, BoundTo
<1>3. MetricInv
  BY DEF MetricInv
<1> QED
  BY <1>1, <1>2, <1>3 DEF LoopInv

(* Cards that stay keep what they rest on if it only grows.                *)
LEMMA SameCard ==
  ASSUME LoopInv, NEW c \in Cards, Exists(c), cards'[c] = cards[c], bindings'[c] = bindings[c],
         UNCHANGED <<profiles, publications, observations>>
  PROVE  CardInv(c)'
  BY DEF LoopInv, CardInv, BoundTo, BindingFits, Quotes

LEMMA SameMetric ==
  ASSUME LoopInv, UNCHANGED <<publications, observations>>
  PROVE  MetricInv'
  BY DEF LoopInv, MetricInv, Versions

(* An update of a card, from the application or below it.                  *)
LEMMA StoreCardInv ==
  ASSUME LoopInv, NEW c \in Cards, NEW n, StoreCard(c, n),
         UNCHANGED <<bindings, profiles, publications, observations>>
  PROVE  LoopInv'
<1>1. LoopTypes'
  BY DEF LoopInv, LoopTypes, StoreCard
<1>2. cards'[c] = n /\ \A d \in Cards \ {c} : cards'[d] = cards[d]
  BY DEF LoopInv, LoopTypes, StoreCard
<1>3. CardInv(c)
  BY DEF LoopInv, StoreCard
<1>4. CardInv(c)'
  <2>1. n.required => n.decision = "adopt"
    BY <1>3 DEF StoreCard, RequirementKept, CardInv
  <2>2. n.decision = "adopt" /\ ~n.required => c \in LegacyCards /\ n.subject = LegacySubject
    BY <1>3 DEF StoreCard, RequirementKept, CardInv
  <2>3. BoundTo(n, bindings[c])
    BY DEF StoreCard
  <2>4. bindings[c] # NoBinding => BindingFits(bindings[c])
    BY <1>3 DEF CardInv
  <2>5. n.status = "reviewed" => Quotes(c, n.review)
    BY DEF StoreCard, ReviewSnapshotExact, Quotes
  <2> QED
    BY <1>2, <2>1, <2>2, <2>3, <2>4, <2>5 DEF CardInv, BoundTo, BindingFits, Quotes
<1>5. ASSUME NEW d \in Cards, d # c, Exists(d)' PROVE CardInv(d)'
  BY <1>2, <1>5, SameCard DEF Exists
<1> QED
  BY <1>1, <1>4, <1>5, SameMetric DEF LoopInv

(* A card gets a row and a binding in one transaction.                     *)
LEMMA BindCardInv ==
  ASSUME LoopInv, NEW c \in Cards, NEW n, NEW b,
         cards' = [cards EXCEPT ![c] = n], bindings' = [bindings EXCEPT ![c] = b],
         UNCHANGED <<profiles, publications, observations>>,
         n.required <=> n.decision = "adopt", BoundTo(n, b), n.status # "reviewed",
         b # NoBinding => BindingFits(b)
  PROVE  LoopInv'
<1>1. LoopTypes'
  BY DEF LoopInv, LoopTypes
<1>2. /\ cards'[c] = n /\ bindings'[c] = b
      /\ \A d \in Cards \ {c} : cards'[d] = cards[d] /\ bindings'[d] = bindings[d]
  BY DEF LoopInv, LoopTypes
<1>3. CardInv(c)'
  BY <1>2 DEF CardInv, BoundTo, BindingFits
<1>4. ASSUME NEW d \in Cards, d # c, Exists(d)' PROVE CardInv(d)'
  BY <1>2, <1>4, SameCard DEF Exists
<1> QED
  BY <1>1, <1>3, <1>4, SameMetric DEF LoopInv

LEMMA CardActionsInv ==
  ASSUME LoopInv, NEW c \in Cards,
         \/ \E d \in Decisions, s \in Subjects \cup {NoSubject} : CreateCard(c, d, s)
         \/ \E p \in Profiles : AdoptCard(c, SubjectOf[p], p)
         \/ \E s \in Subjects \cup {NoSubject} : UpdateCard(c, s)
         \/ \E next \in {"adopted", "archived"} : SetCardStatus(c, next)
         \/ \E i \in DOMAIN observations : RecordReview(c, i)
         \/ \E n \in CardRows : DirectUpdate(c, n) \/ \E p \in Profiles : DirectAdopt(c, n, p)
  PROVE  LoopInv'
<1>1. ASSUME NEW d \in Decisions, NEW s \in Subjects \cup {NoSubject}, CreateCard(c, d, s)
      PROVE  LoopInv'
  <2> DEFINE n == Card(d, s, FALSE)
  <2>1. n.decision = d /\ ~n.required
    BY DEF Card
  <2>2. n.status # "reviewed" /\ BoundTo(n, NoBinding)
    BY <1>1 DEF CreateCard, InsertCard, CardChecks
  <2>3. cards' = [cards EXCEPT ![c] = n] /\ bindings' = [bindings EXCEPT ![c] = NoBinding]
    BY <1>1 DEF CreateCard, InsertCard
  <2>4. d # "adopt" /\ UNCHANGED <<profiles, publications, observations>>
    BY <1>1 DEF CreateCard
  <2> HIDE DEF n
  <2> QED
    BY <2>1, <2>2, <2>3, <2>4, BindCardInv
<1>2. ASSUME NEW p \in Profiles, AdoptCard(c, SubjectOf[p], p)
      PROVE  LoopInv'
  <2> DEFINE n == Card("adopt", SubjectOf[p], TRUE)
  <2>1. n.decision = "adopt" /\ n.required
    BY DEF Card
  <2>2. n.status # "reviewed" /\ BoundTo(n, Binding(p))
    BY <1>2 DEF AdoptCard, InsertCard, CardChecks
  <2>3. cards' = [cards EXCEPT ![c] = n] /\ bindings' = [bindings EXCEPT ![c] = Binding(p)]
    BY <1>2 DEF AdoptCard, InsertCard
  <2>4. BindingFits(Binding(p)) /\ UNCHANGED <<profiles, publications, observations>>
    BY <1>2 DEF AdoptCard, ProfileFor, Bindable, Binding, BindingFits
  <2> HIDE DEF n
  <2> QED
    BY <2>1, <2>2, <2>3, <2>4, BindCardInv
<1>3. ASSUME NEW n \in CardRows, NEW p \in Profiles, DirectAdopt(c, n, p)
      PROVE  LoopInv'
  <2>1. n.required /\ n.decision = "adopt" /\ n.status # "reviewed"
    BY <1>3 DEF DirectAdopt, CardChecks, CardRows
  <2>2. BoundTo(n, Binding(p))
    BY <1>3 DEF DirectAdopt, BoundTo, Bindable, Binding
  <2>3. BindingFits(Binding(p))
    BY <1>3 DEF DirectAdopt, Bindable, Binding, BindingFits
  <2> QED
    BY <1>3, <2>1, <2>2, <2>3, BindCardInv DEF DirectAdopt
<1>4. ASSUME NEW n, StoreCard(c, n), UNCHANGED <<bindings, profiles, publications, observations>>
      PROVE  LoopInv'
  BY <1>4, StoreCardInv
<1>5. ASSUME NEW s \in Subjects \cup {NoSubject}, UpdateCard(c, s) PROVE LoopInv'
  BY <1>4, <1>5 DEF UpdateCard
<1>6. ASSUME NEW next \in {"adopted", "archived"}, SetCardStatus(c, next) PROVE LoopInv'
  BY <1>4, <1>6 DEF SetCardStatus
<1>7. ASSUME NEW i \in DOMAIN observations, RecordReview(c, i) PROVE LoopInv'
  <2> DEFINE m == [cards[c] EXCEPT !.status = "reviewed",
                     !.review = [observation |-> i, snapshot |-> observations[i]]]
  <2>1. StoreCard(c, m)
    BY <1>7, Zenon DEF RecordReview
  <2>2. UNCHANGED <<bindings, profiles, publications, observations>>
    BY <1>7 DEF RecordReview
  <2> HIDE DEF m
  <2> QED
    BY <1>4, <2>1, <2>2
<1>8. ASSUME NEW n \in CardRows, DirectUpdate(c, n) PROVE LoopInv'
  <2>1. PICK m : StoreCard(c, m)
    BY <1>8 DEF DirectUpdate
  <2> QED
    BY <1>4, <1>8, <2>1 DEF DirectUpdate
<1> QED
  BY <1>1, <1>2, <1>3, <1>5, <1>6, <1>7, <1>8

(* An approved profile keeps its content; a bound one is past its draft.   *)
LEMMA ProfilesInv ==
  ASSUME LoopInv, NEW p \in Profiles, NEW n \in ProfileRows, profiles' = [profiles EXCEPT ![p] = n],
         profiles[p] # NoProfile => Lifecycle(profiles[p], n),
         UNCHANGED <<cards, bindings, publications, observations>>
  PROVE  LoopInv'
<1>1. LoopTypes'
  BY DEF LoopInv, LoopTypes
<1>2. profiles'[p] = n /\ \A q \in Profiles \ {p} : profiles'[q] = profiles[q]
  BY DEF LoopInv, LoopTypes
<1>3. ASSUME NEW c \in Cards, Exists(c)' PROVE CardInv(c)'
  <2>1. CardInv(c)
    BY <1>3 DEF LoopInv, Exists
  <2>2. bindings[c] # NoBinding => BindingFits(bindings[c])'
    BY <1>2, <2>1 DEF CardInv, BindingFits, Lifecycle
  <2> QED
    BY <2>1, <2>2 DEF CardInv, BoundTo, Quotes
<1> QED
  BY <1>1, <1>3, SameMetric DEF LoopInv

LEMMA ProfileActionsInv ==
  ASSUME LoopInv, NEW p \in Profiles,
         \/ \E content \in Contents : CreateDraft(p, content)
         \/ Approve(p) \/ Supersede(p) \/ Revoke(p)
         \/ \E n \in ProfileRows : DirectProfile(p, n)
  PROVE  LoopInv'
<1>1. ASSUME NEW content \in Contents, CreateDraft(p, content) PROVE LoopInv'
  BY <1>1, ProfilesInv DEF CreateDraft, ProfileRows
<1>2. ASSUME NEW n \in ProfileRows, StoreProfile(p, n) PROVE LoopInv'
  BY <1>2, ProfilesInv DEF StoreProfile
<1>3. ASSUME NEW status \in {"approved", "superseded", "revoked"}, Become(p, status), From(p, {"draft", "approved"})
      PROVE  LoopInv'
  <2>1. profiles[p] \in ProfileRows
    BY <1>3 DEF LoopInv, LoopTypes, From
  <2>2. [profiles[p] EXCEPT !.status = status] \in ProfileRows
    BY <2>1 DEF ProfileRows
  <2> QED
    BY <1>2, <1>3, <2>2 DEF Become
<1>4. CASE Approve(p) \/ Supersede(p) \/ Revoke(p)
  BY <1>3, <1>4 DEF Approve, Supersede, Revoke, From
<1> QED
  BY <1>1, <1>2, <1>4 DEF DirectProfile, ProfileRows

LEMMA PublicationInv ==
  ASSUME LoopInv, NEW c \in Cards, CreatePublication(c)
  PROVE  LoopInv'
<1>0. publications \in Seq(Cards) /\ publications' = Append(publications, c)
      /\ UNCHANGED <<cards, bindings, profiles, observations, accepted>>
  BY DEF CreatePublication, LoopInv, LoopTypes
<1>1. LoopTypes'
  BY <1>0 DEF LoopInv, LoopTypes
<1>2. /\ \A i \in DOMAIN publications : i \in DOMAIN publications' /\ publications'[i] = publications[i]
      /\ \A i \in DOMAIN publications' : i \in DOMAIN publications \/ i = Len(publications) + 1
  BY <1>0
<1>3. \A p : Versions(p)' = Versions(p)
  BY <1>0 DEF Versions
<1>4. Versions(Len(publications) + 1) = {}
  <2>1. Len(publications) + 1 \notin DOMAIN publications
    BY <1>0
  <2> QED
    BY <2>1 DEF LoopInv, MetricInv, Versions
<1>5. MetricInv'
  <2>1. \A i \in DOMAIN observations :
          /\ observations[i].publication \in DOMAIN publications'
          /\ \A v \in 1 .. observations[i].version :
               \E j \in Versions(observations[i].publication) : j <= i /\ observations[j].version = v
    BY <1>2 DEF LoopInv, MetricInv
  <2>2. \A p \in DOMAIN publications' : \A v \in 1 .. Cardinality(Versions(p)) :
          \E j \in Versions(p) : observations[j].version = v
    <3> SUFFICES ASSUME NEW p \in DOMAIN publications', NEW v \in 1 .. Cardinality(Versions(p))
                 PROVE  \E j \in Versions(p) : observations[j].version = v
      OBVIOUS
    <3>1. CASE p \in DOMAIN publications
      BY <3>1 DEF LoopInv, MetricInv
    <3>2. CASE p = Len(publications) + 1
      <4>1. Cardinality(Versions(p)) = 0
        BY <1>4, <3>2, FS_EmptySet
      <4> QED
        BY <4>1
    <3> QED
      BY <1>2, <3>1, <3>2
  <2> QED
    BY <1>0, <1>3, <2>1, <2>2 DEF MetricInv
<1>6. ASSUME NEW d \in Cards, Exists(d)' PROVE CardInv(d)'
  <2>1. CardInv(d)
    BY <1>0, <1>6 DEF LoopInv, Exists
  <2>2. cards[d].status = "reviewed" => Quotes(d, cards[d].review)'
    <3>1. \A i \in DOMAIN observations : observations[i].publication \in DOMAIN publications
      BY DEF LoopInv, MetricInv
    <3> QED
      BY <1>0, <1>2, <2>1, <3>1 DEF CardInv, Quotes
  <2> QED
    BY <1>0, <2>1, <2>2 DEF CardInv, BoundTo, BindingFits
<1> QED
  BY <1>1, <1>5, <1>6 DEF LoopInv

(* The next version is one more than there are.                            *)
LEMMA MetricStepInv ==
  ASSUME LoopInv, NEW p \in DOMAIN publications, NEW value \in Values, RecordDailyMetric(p, value)
  PROVE  LoopInv'
<1> DEFINE n == Len(observations) + 1
           k == Cardinality(Versions(p)) + 1
           o == [publication |-> p, version |-> k, value |-> value]
<1>0. /\ observations \in Seq([publication : Nat, version : Nat, value : Values])
      /\ publications \in Seq(Cards)
      /\ observations' = Append(observations, o)
      /\ UNCHANGED <<cards, bindings, profiles, publications, accepted>>
  BY DEF RecordDailyMetric, LoopInv, LoopTypes
<1>1. IsFiniteSet(Versions(p)) /\ Cardinality(Versions(p)) \in Nat /\ n \notin Versions(p)
  <2>1. IsFiniteSet(1 .. Len(observations)) /\ Versions(p) \subseteq 1 .. Len(observations)
    <3>1. Len(observations) \in Nat /\ DOMAIN observations = 1 .. Len(observations)
      BY <1>0
    <3>2. PICK m \in Nat : m = Len(observations)
      BY <3>1
    <3>3. IsFiniteSet(1 .. m)
      BY <3>2, FS_Interval
    <3> QED
      BY <3>1, <3>2, <3>3 DEF Versions
  <2>2. IsFiniteSet(Versions(p))
    BY <2>1, FS_Subset
  <2> QED
    BY <1>0, <2>1, <2>2, FS_CardinalityType
<1>2. /\ n \in Nat /\ k \in Nat /\ p \in Nat
      /\ o \in [publication : Nat, version : Nat, value : Values]
      /\ DOMAIN observations = 1 .. n - 1 /\ DOMAIN observations' = 1 .. n
      /\ observations'[n] = o /\ \A i \in 1 .. n - 1 : observations'[i] = observations[i]
  BY <1>0, <1>1
<1>3. LoopTypes'
  BY <1>0, <1>2 DEF LoopInv, LoopTypes
<1> HIDE DEF o
<1>4. o.publication = p /\ o.version = k
  BY DEF o
<1> HIDE DEF n, k
<1>5. /\ Versions(p)' = Versions(p) \cup {n}
      /\ \A q : q # p => Versions(q)' = Versions(q)
  <2>1. \A q : Versions(q)' = {i \in 1 .. n : observations'[i].publication = q}
    BY <1>2 DEF Versions
  <2>2. \A q : Versions(q) = {i \in 1 .. n - 1 : observations[i].publication = q}
    BY <1>2 DEF Versions
  <2>3. n \in 1 .. n /\ \A i \in 1 .. n : i = n \/ i \in 1 .. n - 1
    BY <1>1, <1>2 DEF n
  <2>4. 1 .. n - 1 \subseteq 1 .. n
    BY <1>2
  <2> QED
    BY <1>2, <1>4, <2>1, <2>2, <2>3, <2>4
<1>6. Cardinality(Versions(p) \cup {n}) = k
  BY <1>1, FS_AddElement DEF k
<1>7. \A v \in 1 .. k : \E j \in Versions(p)' : observations'[j].version = v
  <2> SUFFICES ASSUME NEW v \in 1 .. k PROVE \E j \in Versions(p)' : observations'[j].version = v
    OBVIOUS
  <2>1. CASE v = k
    BY <1>2, <1>4, <1>5, <2>1
  <2>2. CASE v # k
    <3>1. v \in 1 .. Cardinality(Versions(p))
      BY <1>1, <2>2 DEF k
    <3>2. PICK j \in Versions(p) : observations[j].version = v
      BY <3>1 DEF LoopInv, MetricInv
    <3>3. observations'[j].version = v
      BY <1>2, <3>2 DEF Versions
    <3> QED
      BY <1>5, <3>3
  <2> QED
    BY <2>1, <2>2
<1>8. \A q : Versions(q) \subseteq Versions(q)' /\ Versions(q) \subseteq 1 .. n - 1
  BY <1>2, <1>5 DEF Versions
<1>9. MetricInv'
  <2>1. ASSUME NEW i \in 1 .. n, NEW q, q = observations'[i].publication
        PROVE  /\ q \in DOMAIN publications
               /\ \A v \in 1 .. observations'[i].version :
                    \E j \in Versions(q)' : j <= i /\ observations'[j].version = v
    <3>1. CASE i = n
      <4>1. \A j \in Versions(p)' : j <= n
        BY <1>2, <1>5, <1>8
      <4> QED
        BY <1>2, <1>4, <1>7, <2>1, <3>1, <4>1
    <3>2. CASE i # n
      <4>1. i \in 1 .. n - 1 /\ q = observations[i].publication /\ observations'[i] = observations[i]
        BY <1>2, <2>1, <3>2
      <4>2. /\ q \in DOMAIN publications
            /\ \A v \in 1 .. observations[i].version :
                 \E j \in Versions(q) : j <= i /\ observations[j].version = v
        BY <1>2, <4>1 DEF LoopInv, MetricInv
      <4>3. \A j \in Versions(q) : j \in Versions(q)' /\ observations'[j] = observations[j]
        BY <1>2, <1>8
      <4> QED
        BY <4>1, <4>2, <4>3
    <3> QED
      BY <3>1, <3>2
  <2>2. ASSUME NEW q \in DOMAIN publications, NEW v \in 1 .. Cardinality(Versions(q)')
        PROVE  \E j \in Versions(q)' : observations'[j].version = v
    <3>1. CASE q = p
      BY <1>5, <1>6, <1>7, <2>2, <3>1
    <3>2. CASE q # p
      <4>1. Versions(q)' = Versions(q)
        BY <1>5, <3>2
      <4>2. PICK j \in Versions(q) : observations[j].version = v
        BY <2>2, <4>1 DEF LoopInv, MetricInv
      <4> QED
        BY <1>2, <1>8, <4>1, <4>2
    <3> QED
      BY <3>1, <3>2
  <2>3. (\A i \in DOMAIN observations :
          /\ observations[i].publication \in DOMAIN publications
          /\ \A v \in 1 .. observations[i].version :
               \E j \in Versions(observations[i].publication) : j <= i /\ observations[j].version = v)'
    <3>1. ASSUME NEW i \in 1 .. n
          PROVE  /\ observations'[i].publication \in DOMAIN publications
                 /\ \A v \in 1 .. observations'[i].version :
                      \E j \in {x \in DOMAIN observations' :
                                 observations'[x].publication = observations'[i].publication} :
                        j <= i /\ observations'[j].version = v
      <4>1. PICK q : q = observations'[i].publication
        OBVIOUS
      <4>2. /\ q \in DOMAIN publications
            /\ \A v \in 1 .. observations'[i].version :
                 \E j \in Versions(q)' : j <= i /\ observations'[j].version = v
        BY <2>1, <4>1
      <4> QED
        BY <4>1, <4>2 DEF Versions
    <3> QED
      BY <1>0, <1>2, <3>1 DEF Versions
  <2>4. (\A q \in DOMAIN publications : \A v \in 1 .. Cardinality(Versions(q)) :
          \E j \in Versions(q) : observations[j].version = v)'
    BY <1>0, <2>2
  <2> QED
    BY <2>3, <2>4 DEF MetricInv
<1>10. ASSUME NEW d \in Cards, Exists(d)' PROVE CardInv(d)'
  <2>1. CardInv(d)
    BY <1>0, <1>10 DEF LoopInv, Exists
  <2>2. cards[d].status = "reviewed" => Quotes(d, cards[d].review)'
    <3> SUFFICES ASSUME cards[d].status = "reviewed"
                 PROVE  Quotes(d, cards[d].review)'
      OBVIOUS
    <3>1. Quotes(d, cards[d].review)
      BY <2>1 DEF CardInv
    <3>2. /\ cards'[d].review = cards[d].review /\ publications' = publications
          /\ \A i \in DOMAIN observations : i \in DOMAIN observations' /\ observations'[i] = observations[i]
      BY <1>0, <1>2
    <3> QED
      BY <3>1, <3>2 DEF Quotes
  <2> QED
    BY <1>0, <2>1, <2>2 DEF CardInv, BoundTo, BindingFits
<1> QED
  BY <1>3, <1>9, <1>10 DEF LoopInv

LEMMA LoopNextInv == LoopInv /\ [LoopNext]_loopVars => LoopInv'
<1> SUFFICES ASSUME LoopInv, [LoopNext]_loopVars PROVE LoopInv'
  OBVIOUS
<1>1. CASE UNCHANGED <<cards, bindings, profiles, publications, observations>>
  <2>1. LoopTypes'
    BY <1>1 DEF LoopInv, LoopTypes
  <2>2. \A c \in Cards : Exists(c)' => CardInv(c)'
    BY <1>1, SameCard DEF Exists
  <2> QED
    BY <1>1, <2>1, <2>2, SameMetric DEF LoopInv
<1>2. CASE UNCHANGED loopVars \/ AcceptVideo \/ RejectVideo
  BY <1>1, <1>2 DEF loopVars, AcceptVideo, RejectVideo
<1> QED
  BY <1>2, CardActionsInv, ProfileActionsInv, PublicationInv, MetricStepInv DEF LoopNext

(* What a card rests on is there and unchanged, whatever the application   *)
(* or a direct statement did to cards, profiles and observations since.    *)
THEOREM CardsStayGrounded == LoopSpec => []CardsAreGrounded
<1>1. LoopInv => CardsAreGrounded
  <2> SUFFICES ASSUME LoopInv, NEW c \in Cards, Exists(c)
               PROVE  /\ cards[c].decision = "adopt" =>
                           IF cards[c].required
                           THEN /\ bindings[c] # NoBinding
                                /\ bindings[c].subject = cards[c].subject
                                /\ bindings[c].content \in Cleared
                                /\ profiles[bindings[c].profile].content = bindings[c].content
                                /\ profiles[bindings[c].profile].status # "draft"
                           ELSE c \in LegacyCards /\ cards[c].subject = LegacySubject
                      /\ cards[c].status = "reviewed" =>
                           LET r == cards[c].review IN
                           /\ r.snapshot = observations[r.observation]
                           /\ publications[r.snapshot.publication] = c
                           /\ \A v \in 1 .. r.snapshot.version :
                                \E i \in Versions(r.snapshot.publication) :
                                  i <= r.observation /\ observations[i].version = v
    BY DEF CardsAreGrounded
  <2>1. CardInv(c)
    BY DEF LoopInv
  <2>2. cards[c].decision = "adopt" =>
          IF cards[c].required
          THEN /\ bindings[c] # NoBinding
               /\ bindings[c].subject = cards[c].subject
               /\ bindings[c].content \in Cleared
               /\ profiles[bindings[c].profile].content = bindings[c].content
               /\ profiles[bindings[c].profile].status # "draft"
          ELSE c \in LegacyCards /\ cards[c].subject = LegacySubject
    BY <2>1 DEF CardInv, BoundTo, BindingFits
  <2>3. ASSUME cards[c].status = "reviewed"
        PROVE  LET r == cards[c].review IN
               /\ r.snapshot = observations[r.observation]
               /\ publications[r.snapshot.publication] = c
               /\ \A v \in 1 .. r.snapshot.version :
                    \E i \in Versions(r.snapshot.publication) :
                      i <= r.observation /\ observations[i].version = v
    BY <2>1, <2>3 DEF CardInv, Quotes, LoopInv, MetricInv
  <2> QED
    BY <2>2, <2>3
<1> QED
  BY <1>1, LoopInitInv, LoopNextInv, PTL DEF LoopSpec

-----------------------------------------------------------------------------
(* Members and grants. While a project is locked nobody else writes its    *)
(* members, so unless it was overtaken the holder's now() is past all of   *)
(* its rows; a grant that a transition has read keeps its status until the *)
(* transition writes it.                                                   *)

Requests ==
  MemberRequests \cup OfferRequests
    \cup [action : Transitions, project : Projects, actor : Actors, grant : Nat]

GrantRecords ==
  [source : Projects, target : Projects, status : {"offered", "active", "declined", "revoked"},
   expired : BOOLEAN,
   log : {<<"share_offer">>, <<"share_offer", "share_accept">>, <<"share_offer", "share_decline">>,
          <<"share_offer", "share_revoke">>, <<"share_offer", "share_accept", "share_revoke">>}]

AccessTypes ==
  /\ open \subseteq Projects
  /\ \A m \in members : m.from \in Nat /\ m.from <= time
  /\ grants \in Seq(GrantRecords)
  /\ tx \in [Sessions -> [step : {"idle", "lock", "act", "update"},
                          request : Requests \cup {NoRequest}, at : Nat, locked : SUBSET Projects]]
  /\ time \in Nat

(* A session at work has a request, has begun by now, and once it acts it  *)
(* holds what it needs; a transition that may write found its grant open.  *)
SessionInv(s) ==
  /\ tx[s].step # "idle" => tx[s].request \in Requests
  /\ tx[s].step # "idle" /\ tx[s].request.action \in Transitions =>
       tx[s].request.grant \in DOMAIN grants
  /\ tx[s].at <= time
  /\ tx[s].step = "idle" => tx[s].locked = {}
  /\ tx[s].step \in {"act", "update"} => ToLock(tx[s].request) \subseteq tx[s].locked
  /\ tx[s].step = "update" =>
       /\ tx[s].request.action \in Transitions
       /\ grants[tx[s].request.grant].status \in
            (IF tx[s].request.action = "share_revoke" THEN OpenStatus ELSE {"offered"})

(* The holder of a project's lock has reached every row of its members.    *)
Reached(s) ==
  \A p \in tx[s].locked \ overtaken : \A m \in members : m.project = p => m.from <= tx[s].at

(* Two sessions hold different projects and update different grants.       *)
Exclusive(s, z) ==
  s # z =>
    /\ tx[s].locked \cap tx[z].locked = {}
    /\ tx[s].step = "update" /\ tx[z].step = "update" => tx[s].request.grant # tx[z].request.grant

(* Every row that a request added has its event.                           *)
RowsTold ==
  \A m \in members \ FirstMembers : \E e \in events : e.project = m.project /\ e.at = m.from

(* The history of a grant tells its status.                                *)
LogFits(g) ==
  g.log \in
    CASE g.status = "offered" -> {<<"share_offer">>}
      [] g.status = "active" -> {<<"share_offer", "share_accept">>}
      [] g.status = "declined" -> {<<"share_offer", "share_decline">>}
      [] g.status = "revoked" -> {<<"share_offer", "share_revoke">>,
                                  <<"share_offer", "share_accept", "share_revoke">>}

SamePair(i, j) ==
  /\ grants[i].source = grants[j].source /\ grants[i].target = grants[j].target
  /\ grants[i].status \in OpenStatus /\ grants[j].status \in OpenStatus

GrantsInv ==
  /\ \A i \in DOMAIN grants : LogFits(grants[i])
  /\ \A i, j \in DOMAIN grants : SamePair(i, j) => i = j

AccessInv ==
  /\ AccessTypes
  /\ \A s \in Sessions : SessionInv(s) /\ Reached(s)
  /\ \A s, z \in Sessions : Exclusive(s, z)
  /\ \A p \in Projects \ overtaken : HasOwner(p)
  /\ GrantsInv

LEMMA AccessInitInv == AccessInit => AccessInv
<1> SUFFICES ASSUME AccessInit PROVE AccessInv
  OBVIOUS
<1> USE DEF AccessInit
<1>1. AccessTypes
  <2>1. \A m \in FirstMembers : m.from = 0
    BY FirstMembersAssumption
  <2>2. NoTx \in [step : {"idle", "lock", "act", "update"},
                  request : Requests \cup {NoRequest}, at : Nat, locked : SUBSET Projects]
    BY DEF NoTx
  <2> QED
    BY <2>1, <2>2 DEF AccessTypes
<1>2. \A s \in Sessions : SessionInv(s) /\ Reached(s)
  BY DEF SessionInv, Reached, NoTx
<1>3. \A s, z \in Sessions : Exclusive(s, z)
  BY DEF Exclusive, NoTx
<1>4. ASSUME NEW p \in Projects PROVE HasOwner(p)
  <2>1. PICK m \in FirstMembers : m.project = p /\ m.role = "owner" /\ m.status = "active"
    BY FirstMembersAssumption
  <2>2. m.actor \in Actors /\ m.from = 0
    BY FirstMembersAssumption
  <2>3. RowsOf(p, m.actor, time) = {m}
    BY <2>1, <2>2, FirstMembersAssumption DEF RowsOf
  <2>4. Latest({m}) = m
    BY DEF Latest
  <2>5. RoleAt(p, m.actor, time) = "owner"
    BY <2>1, <2>3, <2>4 DEF RoleAt, RoleIn
  <2> QED
    BY <2>2, <2>5 DEF HasOwner
<1>5. GrantsInv
  BY DEF GrantsInv
<1> QED
  BY <1>1, <1>2, <1>3, <1>4, <1>5 DEF AccessInv

(* A later now() reads the members as it did when no row is newer.         *)
LEMMA SameRoles ==
  ASSUME NEW p, NEW a, NEW at \in Nat, NEW now \in Nat, at <= now,
         \A m \in members : m.from \in Nat,
         \A m \in members : m.project = p => m.from <= at
  PROVE  RoleAt(p, a, now) = RoleAt(p, a, at)
<1>1. RowsOf(p, a, now) = RowsOf(p, a, at)
  BY DEF RowsOf
<1> QED
  BY <1>1 DEF RoleAt

(* Owners stay when no member changes and now() does not go back.          *)
LEMMA SameOwners ==
  ASSUME AccessTypes, members' = members, time' \in Nat, time <= time', NEW p, HasOwner(p)
  PROVE  HasOwner(p)'
<1>1. PICK a \in Actors : RoleAt(p, a, time) = "owner"
  BY DEF HasOwner
<1>2. RowsOf(p, a, time)' = RowsOf(p, a, time)
  BY DEF RowsOf, AccessTypes
<1>3. RoleAt(p, a, time)' = "owner"
  BY <1>1, <1>2 DEF RoleAt
<1> QED
  BY <1>3 DEF HasOwner

(* Ending a transaction.                                                   *)
LEMMA EndInv ==
  ASSUME AccessInv, NEW s \in Sessions, tx' = End(s),
         UNCHANGED <<open, members, grants, time, overtaken>>
  PROVE  AccessInv'
<1> USE DEF AccessInv
<1>1. tx'[s] = NoTx /\ \A z \in Sessions \ {s} : tx'[z] = tx[z]
  BY DEF End, AccessTypes
<1>2. AccessTypes'
  <2>1. NoTx \in [step : {"idle", "lock", "act", "update"},
                  request : Requests \cup {NoRequest}, at : Nat, locked : SUBSET Projects]
    BY DEF NoTx
  <2>2. UNCHANGED <<Requests, GrantRecords>>
    BY DEF Requests, GrantRecords
  <2> HIDE DEF AccessInv
  <2> QED
    BY <2>1, <2>2 DEF AccessInv, AccessTypes, End
<1>3. ASSUME NEW z \in Sessions PROVE (SessionInv(z) /\ Reached(z))'
  <2>1. SessionInv(z) /\ Reached(z)
    OBVIOUS
  <2>2. CASE z = s
    BY <1>1, <2>2 DEF SessionInv, Reached, NoTx, AccessTypes
  <2>3. CASE z # s
    BY <1>1, <2>1, <2>3 DEF SessionInv, Reached
  <2> QED
    BY <2>2, <2>3
<1>4. ASSUME NEW y \in Sessions, NEW z \in Sessions PROVE Exclusive(y, z)'
  BY <1>1 DEF Exclusive, NoTx
<1>5. \A p \in Projects \ overtaken' : HasOwner(p)'
  BY SameOwners DEF AccessTypes
<1>6. GrantsInv'
  BY DEF GrantsInv, SamePair
<1> QED
  BY <1>2, <1>3, <1>4, <1>5, <1>6

LEMMA BeginRequestInv ==
  ASSUME AccessInv, NEW s \in Sessions,
         NEW r \in MemberRequests \cup OfferRequests \cup GrantRequests, BeginRequest(s, r)
  PROVE  AccessInv'
<1> USE DEF BeginRequest
<1>0. AccessTypes
  BY DEF AccessInv
<1>1. tx'[s] = [NoTx EXCEPT !.step = "lock", !.request = r, !.at = time + 1]
      /\ \A z \in Sessions \ {s} : tx'[z] = tx[z]
  BY <1>0 DEF AccessTypes
<1>2. r \in Requests /\ (r.action \in Transitions => r.grant \in DOMAIN grants)
  <2>1. CASE r \in GrantRequests
    BY <1>0, <2>1 DEF GrantRequests, Requests, AccessTypes
  <2>2. CASE r \in MemberRequests \cup OfferRequests
    BY <2>2 DEF MemberRequests, OfferRequests, Requests, Transitions
  <2> QED
    BY <2>1, <2>2
<1>3. AccessTypes'
  <2>1. [NoTx EXCEPT !.step = "lock", !.request = r, !.at = time + 1]
          \in [step : {"idle", "lock", "act", "update"},
               request : Requests \cup {NoRequest}, at : Nat, locked : SUBSET Projects]
    <3>1. time + 1 \in Nat
      BY <1>0 DEF AccessTypes
    <3> QED
      BY <1>2, <3>1 DEF NoTx
  <2>2. UNCHANGED <<Requests, GrantRecords>>
    BY DEF Requests, GrantRecords
  <2>3. \A m \in members' : m.from \in Nat /\ m.from <= time'
    BY <1>0 DEF AccessTypes
  <2>4. tx' \in [Sessions -> [step : {"idle", "lock", "act", "update"},
                             request : Requests \cup {NoRequest}, at : Nat, locked : SUBSET Projects]]
    BY <1>0, <2>1 DEF AccessTypes
  <2> QED
    BY <1>0, <2>2, <2>3, <2>4 DEF AccessTypes
<1>4. ASSUME NEW z \in Sessions PROVE (SessionInv(z) /\ Reached(z))'
  <2>1. SessionInv(z) /\ Reached(z)
    BY DEF AccessInv
  <2>2. CASE z = s
    BY <1>0, <1>1, <1>2, <2>2 DEF SessionInv, Reached, NoTx, AccessTypes
  <2>3. CASE z # s
    <3>1. tx[z].at \in Nat /\ tx'[z] = tx[z]
      BY <1>0, <1>1, <2>3 DEF AccessTypes
    <3> QED
      BY <1>0, <2>1, <2>3, <3>1 DEF SessionInv, Reached, AccessTypes
  <2> QED
    BY <2>2, <2>3
<1>5. ASSUME NEW y \in Sessions, NEW z \in Sessions PROVE Exclusive(y, z)'
  BY <1>1 DEF Exclusive, NoTx, AccessInv
<1>6. \A p \in Projects \ overtaken' : HasOwner(p)'
  BY <1>0, SameOwners DEF AccessInv, AccessTypes
<1>7. GrantsInv'
  BY DEF GrantsInv, SamePair, AccessInv
<1> QED
  BY <1>3, <1>4, <1>5, <1>6, <1>7 DEF AccessInv

(* What the lock of a project finds: nobody else holds it, and if it is    *)
(* not overtaken no row of its members is newer than the holder's now().   *)
LEMMA LockProjectInv ==
  ASSUME AccessInv, RowsTold, NEW s \in Sessions, LockProject(s)
  PROVE  AccessInv'
<1>0. AccessTypes /\ SessionInv(s) /\ tx[s].step = "lock"
  BY DEF AccessInv, LockProject
<1> DEFINE left == ToLock(tx[s].request) \ tx[s].locked
<1>1. PICK p :
        /\ ~Held(p, s)
        /\ tx' = IF p \notin open THEN End(s)
                 ELSE [tx EXCEPT ![s].locked = @ \cup {p},
                                 ![s].step = IF left = {p} THEN "act" ELSE "lock"]
        /\ overtaken' = IF p \in open /\ \E e \in events : e.project = p /\ e.at > tx[s].at
                        THEN overtaken \cup {p} ELSE overtaken
        /\ UNCHANGED <<open, members, grants, time>>
  <2> DEFINE first == Min(left)
  <2>1. /\ ~Held(first, s)
        /\ tx' = IF first \notin open THEN End(s)
                 ELSE [tx EXCEPT ![s].locked = @ \cup {first},
                                 ![s].step = IF left = {first} THEN "act" ELSE "lock"]
        /\ overtaken' = IF first \in open /\ \E e \in events : e.project = first /\ e.at > tx[s].at
                        THEN overtaken \cup {first} ELSE overtaken
        /\ UNCHANGED <<open, members, grants, time>>
    BY ZenonT(60) DEF LockProject
  <2> HIDE DEF first
  <2> QED
    BY <2>1
<1>2. CASE p \notin open
  <2>1. tx' = End(s) /\ overtaken' = overtaken
    BY <1>1, <1>2
  <2>2. UNCHANGED <<open, members, grants, time, overtaken>>
    BY <1>1, <2>1
  <2> QED
    BY <2>1, <2>2, EndInv
<1>3. CASE p \in open
  <2>1. p \in Projects /\ overtaken \subseteq overtaken'
    BY <1>0, <1>1, <1>3 DEF AccessTypes
  <2>2. /\ tx'[s].step = IF left = {p} THEN "act" ELSE "lock"
        /\ tx'[s].locked = tx[s].locked \cup {p}
        /\ tx'[s].request = tx[s].request /\ tx'[s].at = tx[s].at
        /\ \A z \in Sessions \ {s} : tx'[z] = tx[z]
    <3> HIDE DEF left
    <3> QED
      BY <1>0, <1>1, <1>3 DEF AccessTypes
  <2>3. AccessTypes'
    <3>1. UNCHANGED <<Requests, GrantRecords>>
      BY DEF Requests, GrantRecords
    <3>2. tx' \in [Sessions -> [step : {"idle", "lock", "act", "update"},
                               request : Requests \cup {NoRequest}, at : Nat, locked : SUBSET Projects]]
      <4> DEFINE next == IF left = {p} THEN "act" ELSE "lock"
                 TxRows == [step : {"idle", "lock", "act", "update"},
                            request : Requests \cup {NoRequest}, at : Nat, locked : SUBSET Projects]
      <4>1. next \in {"act", "lock"}
        OBVIOUS
      <4>2. tx' = [tx EXCEPT ![s].locked = @ \cup {p}, ![s].step = next]
        BY <1>1, <1>3
      <4> HIDE DEF next
      <4>3. tx[s] \in TxRows /\ tx[s].locked \cup {p} \subseteq Projects
        BY <1>0, <2>1 DEF AccessTypes
      <4>4. [tx[s] EXCEPT !.locked = @ \cup {p}, !.step = next] \in TxRows
        BY <4>1, <4>3
      <4> QED
        BY <1>0, <4>2, <4>4 DEF AccessTypes
    <3> QED
      BY <1>0, <1>1, <3>1, <3>2 DEF AccessTypes
  <2>4. ASSUME NEW z \in Sessions PROVE (SessionInv(z) /\ Reached(z))'
    <3>1. SessionInv(z) /\ Reached(z)
      BY DEF AccessInv
    <3>2. CASE z # s
      BY <1>1, <2>1, <2>2, <3>1, <3>2 DEF SessionInv, Reached
    <3>3. CASE z = s
      <4>1. left = {p} => ToLock(tx[s].request) \subseteq tx[s].locked \cup {p}
        OBVIOUS
      <4>2. SessionInv(s)'
        <5>1. tx'[s].step \in {"act", "update"} => ToLock(tx'[s].request) \subseteq tx'[s].locked
          <6> HIDE DEF left
          <6> QED
            BY <2>2, <4>1
        <5>2. tx'[s].step \in {"lock", "act"}
          <6> HIDE DEF left
          <6> QED
            BY <2>2
        <5> QED
          BY <1>0, <1>1, <2>2, <5>1, <5>2 DEF SessionInv, ToLock
      <4>3. Reached(s)'
        <5>1. ASSUME NEW q \in tx'[s].locked \ overtaken', NEW m \in members, m.project = q
              PROVE  m.from <= tx[s].at
          <6>1. CASE q = p
            <7>1. m.from \in Nat /\ tx[s].at \in Nat
              BY <1>0, <5>1 DEF AccessTypes
            <7>2. CASE m \in FirstMembers
              BY <7>1, <7>2, FirstMembersAssumption
            <7>3. CASE m \notin FirstMembers
              <8>1. PICK e \in events : e.project = p /\ e.at = m.from
                BY <5>1, <6>1, <7>3 DEF RowsTold
              <8>2. ~(e.at > tx[s].at)
                BY <1>1, <1>3, <5>1, <6>1, <8>1
              <8> QED
                BY <7>1, <8>1, <8>2
            <7> QED
              BY <7>2, <7>3
          <6>2. CASE q # p
            BY <2>1, <2>2, <3>1, <3>3, <5>1, <6>2 DEF Reached
          <6> QED
            BY <6>1, <6>2
        <5> QED
          BY <1>1, <2>2, <5>1 DEF Reached
      <4> QED
        BY <3>3, <4>2, <4>3
    <3> QED
      BY <3>2, <3>3
  <2>5. ASSUME NEW y \in Sessions, NEW z \in Sessions PROVE Exclusive(y, z)'
    <3>1. Exclusive(y, z)
      BY DEF AccessInv
    <3>2. \A x \in Sessions \ {s} : p \notin tx[x].locked
      BY <1>1 DEF Held
    <3>3. tx'[s].step # "update" /\ (s # z => tx'[z] = tx[z]) /\ (s # y => tx'[y] = tx[y])
      BY <2>2
    <3> QED
      BY <2>2, <3>1, <3>2, <3>3 DEF Exclusive
  <2>6. \A q \in Projects \ overtaken' : HasOwner(q)'
    BY <1>0, <1>1, <2>1, SameOwners DEF AccessInv, AccessTypes
  <2>7. GrantsInv'
    BY <1>1 DEF GrantsInv, SamePair, AccessInv
  <2> QED
    BY <2>3, <2>4, <2>5, <2>6, <2>7 DEF AccessInv
<1> QED
  BY <1>2, <1>3

(* A row of the locked project for the target of the request, written only *)
(* when another owner is seen if it takes the role of one.                 *)
LEMMA MemberRowInv ==
  ASSUME AccessInv, NEW s \in Sessions, tx[s].step = "act", NEW role, NEW status,
         members' = members \cup {Row(s, role, status)},
         RoleAt(tx[s].request.project, tx[s].request.target, tx[s].at) = "owner"
           => OtherOwner(tx[s].request.project, tx[s].request.target, tx[s].at),
         tx' = End(s), UNCHANGED <<open, grants, time, overtaken>>
  PROVE  AccessInv'
<1>0. AccessTypes /\ SessionInv(s) /\ Reached(s)
  BY DEF AccessInv
<1>1. PICK r \in Requests : r = tx[s].request
  BY <1>0 DEF SessionInv
<1>2. PICK at \in Nat : at = tx[s].at /\ at <= time
  BY <1>0 DEF SessionInv, AccessTypes
<1>3. PICK row : row = Row(s, role, status)
  OBVIOUS
<1>4. row.project = r.project /\ row.actor = r.target /\ row.from = at
  BY <1>1, <1>2, <1>3 DEF Row
<1>5. members' = members \cup {row} /\ time \in Nat
  BY <1>0, <1>3 DEF AccessTypes
<1>6. tx'[s] = NoTx /\ \A z \in Sessions \ {s} : tx'[z] = tx[z]
  BY <1>0 DEF End, AccessTypes
<1>7. r.project \in tx[s].locked
  BY <1>0, <1>1 DEF SessionInv, ToLock
<1>8. AccessTypes'
  <2>1. NoTx \in [step : {"idle", "lock", "act", "update"},
                  request : Requests \cup {NoRequest}, at : Nat, locked : SUBSET Projects]
    BY DEF NoTx
  <2>2. UNCHANGED <<Requests, GrantRecords>>
    BY DEF Requests, GrantRecords
  <2>3. \A m \in members' : m.from \in Nat /\ m.from <= time'
    BY <1>0, <1>2, <1>4, <1>5 DEF AccessTypes
  <2>4. tx' \in [Sessions -> [step : {"idle", "lock", "act", "update"},
                             request : Requests \cup {NoRequest}, at : Nat, locked : SUBSET Projects]]
    BY <1>0, <2>1 DEF AccessTypes, End
  <2> QED
    BY <1>0, <2>2, <2>3, <2>4 DEF AccessTypes
<1>9. ASSUME NEW z \in Sessions PROVE (SessionInv(z) /\ Reached(z))'
  <2>1. CASE z = s
    BY <1>0, <1>6, <2>1 DEF SessionInv, Reached, NoTx, AccessTypes
  <2>2. CASE z # s
    <3>1. SessionInv(z) /\ Reached(z) /\ Exclusive(s, z)
      BY DEF AccessInv
    <3>2. r.project \notin tx[z].locked
      BY <1>7, <2>2, <3>1 DEF Exclusive
    <3>3. tx'[z] = tx[z]
      BY <1>6, <2>2
    <3>4. SessionInv(z)'
      BY <3>1, <3>3 DEF SessionInv
    <3>5. Reached(z)'
      BY <1>4, <1>5, <3>1, <3>2, <3>3 DEF Reached
    <3> QED
      BY <3>4, <3>5
  <2> QED
    BY <2>1, <2>2
<1>10. ASSUME NEW y \in Sessions, NEW z \in Sessions PROVE Exclusive(y, z)'
  BY <1>6 DEF Exclusive, NoTx, AccessInv
<1>11. ASSUME NEW p \in Projects \ overtaken' PROVE HasOwner(p)'
  <2>1. HasOwner(p)
    BY DEF AccessInv
  <2>2. \A a : p # r.project \/ a # r.target => RowsOf(p, a, time)' = RowsOf(p, a, time)
    BY <1>4, <1>5 DEF RowsOf
  <2>3. \A a : p # r.project \/ a # r.target => (RoleAt(p, a, time) = "owner" => RoleAt(p, a, time)' = "owner")
    BY <2>2 DEF RoleAt
  <2>4. CASE p # r.project
    BY <2>1, <2>3, <2>4 DEF HasOwner
  <2>5. CASE p = r.project
    <3>1. \A m \in members : m.from \in Nat
      BY <1>0 DEF AccessTypes
    <3>2. \A m \in members : m.project = p => m.from <= at
      BY <1>0, <1>2, <1>7, <2>5 DEF Reached
    <3>3. \A a : RoleAt(p, a, time) = RoleAt(p, a, at)
      BY <1>2, <1>5, <3>1, <3>2, SameRoles
    <3>4. PICK a \in Actors : RoleAt(p, a, time) = "owner" /\ a # r.target
      <4>1. PICK b \in Actors : RoleAt(p, b, time) = "owner"
        BY <2>1 DEF HasOwner
      <4>2. CASE b = r.target
        <5>1. OtherOwner(p, r.target, at)
          BY <1>1, <1>2, <2>5, <3>3, <4>1, <4>2
        <5> QED
          BY <3>3, <5>1 DEF OtherOwner
      <4> QED
        BY <4>1, <4>2
    <3> QED
      BY <2>3, <3>4 DEF HasOwner
  <2> QED
    BY <2>4, <2>5
<1>12. GrantsInv'
  BY DEF GrantsInv, SamePair, AccessInv
<1> QED
  BY <1>8, <1>9, <1>10, <1>11, <1>12 DEF AccessInv

LEMMA MembersInv ==
  ASSUME AccessInv, NEW s \in Sessions, MemberSet(s) \/ MemberRevoke(s)
  PROVE  AccessInv'
<1> DEFINE r == tx[s].request
           old == RoleAt(r.project, r.target, tx[s].at)
<1>1. tx[s].step = "act" /\ tx' = End(s) /\ UNCHANGED <<open, grants, time, overtaken>>
  BY DEF MemberSet, MemberRevoke, Doing
<1>2. CASE members' = members
  BY <1>1, <1>2, EndInv
<1>3. ASSUME MemberSet(s), members' # members PROVE AccessInv'
  <2>1. MayChange(s, old, r.role) /\ old # r.role /\ members' = members \cup {Row(s, r.role, "active")}
    BY <1>3 DEF MemberSet
  <2>2. old = "owner" => OtherOwner(r.project, r.target, tx[s].at)
    BY <2>1 DEF MayChange
  <2> QED
    BY <1>1, <2>1, <2>2, MemberRowInv
<1>4. ASSUME MemberRevoke(s), members' # members PROVE AccessInv'
  <2>1. MayChange(s, old, NoRole) /\ members' = members \cup {Row(s, old, "revoked")}
    BY <1>4 DEF MemberRevoke
  <2>2. NoRole # "owner"
    BY FirstMembersAssumption, ProjectAccessAssumption
  <2>3. old = "owner" => OtherOwner(r.project, r.target, tx[s].at)
    BY <2>1, <2>2 DEF MayChange
  <2> QED
    BY <1>1, <2>1, <2>3, MemberRowInv
<1> QED
  BY <1>2, <1>3, <1>4

(* ReadGrant: the status that a transition goes on from.                   *)
LEMMA ReadGrantInv ==
  ASSUME AccessInv, NEW s \in Sessions, ReadGrant(s)
  PROVE  AccessInv'
<1>0. AccessTypes /\ SessionInv(s)
  BY DEF AccessInv
<1>1. PICK r \in Requests : r = tx[s].request
  BY <1>0 DEF SessionInv, ReadGrant
<1>2. /\ tx[s].step = "act" /\ r.action \in Transitions /\ GrantFree(r.grant, s)
      /\ tx' = IF Allowed(s, grants[r.grant]) THEN [tx EXCEPT ![s].step = "update"] ELSE End(s)
      /\ UNCHANGED <<open, members, grants, time, overtaken>>
  BY <1>1 DEF ReadGrant
<1>3. CASE ~Allowed(s, grants[r.grant])
  BY <1>2, <1>3, EndInv
<1>4. CASE Allowed(s, grants[r.grant])
  <2>1. tx' = [tx EXCEPT ![s].step = "update"]
    BY <1>2, <1>4
  <2>2. /\ tx'[s].step = "update" /\ tx'[s].request = r /\ tx'[s].at = tx[s].at
        /\ tx'[s].locked = tx[s].locked
        /\ \A z \in Sessions \ {s} : tx'[z] = tx[z]
    BY <1>0, <1>1, <2>1 DEF AccessTypes
  <2>3. AccessTypes'
    <3>1. UNCHANGED <<Requests, GrantRecords>>
      BY DEF Requests, GrantRecords
    <3>2. tx' \in [Sessions -> [step : {"idle", "lock", "act", "update"},
                               request : Requests \cup {NoRequest}, at : Nat, locked : SUBSET Projects]]
      BY <1>0, <2>1 DEF AccessTypes
    <3> QED
      BY <1>0, <1>2, <3>1, <3>2 DEF AccessTypes
  <2>4. grants[r.grant].status \in (IF r.action = "share_revoke" THEN OpenStatus ELSE {"offered"})
    BY <1>1, <1>4 DEF Allowed
  <2>5. ASSUME NEW z \in Sessions PROVE (SessionInv(z) /\ Reached(z))'
    <3>1. SessionInv(z) /\ Reached(z)
      BY DEF AccessInv
    <3>2. CASE z # s
      BY <1>2, <2>2, <3>1, <3>2 DEF SessionInv, Reached
    <3>3. CASE z = s
      BY <1>1, <1>2, <2>2, <2>4, <3>1, <3>3 DEF SessionInv, Reached
    <3> QED
      BY <3>2, <3>3
  <2>6. ASSUME NEW y \in Sessions, NEW z \in Sessions PROVE Exclusive(y, z)'
    <3>1. Exclusive(y, z)
      BY DEF AccessInv
    <3>2. (s # z => tx'[z] = tx[z]) /\ (s # y => tx'[y] = tx[y])
      BY <2>2
    <3> QED
      BY <1>2, <2>2, <3>1, <3>2 DEF Exclusive, GrantFree
  <2>7. \A p \in Projects \ overtaken' : HasOwner(p)'
    BY <1>0, <1>2, SameOwners DEF AccessInv, AccessTypes
  <2>8. GrantsInv'
    BY <1>2 DEF GrantsInv, SamePair, AccessInv
  <2> QED
    BY <2>3, <2>5, <2>6, <2>7, <2>8 DEF AccessInv
<1> QED
  BY <1>3, <1>4

(* A step that changes grants and ends at most one transaction: the grants *)
(* another transition holds keep their status.                             *)
LEMMA GrantStepInv ==
  ASSUME AccessInv, GrantsInv', grants' \in Seq(GrantRecords),
         DOMAIN grants \subseteq DOMAIN grants',
         UNCHANGED <<open, members, time, overtaken>>,
         tx' = tx \/ \E s \in Sessions : tx' = End(s),
         \A z \in Sessions : tx'[z].step = "update" =>
           grants'[tx'[z].request.grant].status = grants[tx'[z].request.grant].status
  PROVE  AccessInv'
<1>0. AccessTypes
  BY DEF AccessInv
<1>1. \A z \in Sessions : tx'[z] = tx[z] \/ tx'[z] = NoTx
  BY <1>0 DEF AccessTypes, End
<1>2. AccessTypes'
  <2>1. UNCHANGED <<Requests, GrantRecords>>
    BY DEF Requests, GrantRecords
  <2>2. NoTx \in [step : {"idle", "lock", "act", "update"},
                  request : Requests \cup {NoRequest}, at : Nat, locked : SUBSET Projects]
    BY DEF NoTx
  <2>3. tx' \in [Sessions -> [step : {"idle", "lock", "act", "update"},
                             request : Requests \cup {NoRequest}, at : Nat, locked : SUBSET Projects]]
    BY <1>0, <2>2 DEF AccessTypes, End
  <2> QED
    BY <1>0, <2>1, <2>3 DEF AccessTypes
<1>3. ASSUME NEW z \in Sessions PROVE (SessionInv(z) /\ Reached(z))'
  <2>1. SessionInv(z) /\ Reached(z)
    BY DEF AccessInv
  <2>2. CASE tx'[z] = NoTx
    BY <1>0, <2>2 DEF SessionInv, Reached, NoTx, AccessTypes
  <2>3. CASE tx'[z] = tx[z]
    BY <2>1, <2>3 DEF SessionInv, Reached
  <2> QED
    BY <1>1, <2>2, <2>3
<1>4. ASSUME NEW y \in Sessions, NEW z \in Sessions PROVE Exclusive(y, z)'
  <2>1. Exclusive(y, z)
    BY DEF AccessInv
  <2> QED
    BY <1>1, <2>1 DEF Exclusive, NoTx
<1>5. \A p \in Projects \ overtaken' : HasOwner(p)'
  BY <1>0, SameOwners DEF AccessInv, AccessTypes
<1> QED
  BY <1>2, <1>3, <1>4, <1>5 DEF AccessInv

LEMMA ExpireInv ==
  ASSUME AccessInv, NEW i \in DOMAIN grants, Expire(i)
  PROVE  AccessInv'
<1>0. grants \in Seq(GrantRecords)
  BY DEF AccessInv, AccessTypes
<1>1. grants' = [grants EXCEPT ![i].expired = TRUE] /\ UNCHANGED <<open, members, tx, time, overtaken>>
  BY DEF Expire
<1>2. [grants[i] EXCEPT !.expired = TRUE] \in GrantRecords
  <2>1. grants[i] \in GrantRecords
    BY <1>0, ElementOfSeq
  <2> QED
    BY <2>1 DEF GrantRecords
<1>3. grants' \in Seq(GrantRecords)
  BY <1>0, <1>1, <1>2, ExceptSeq
<1>4. DOMAIN grants' = DOMAIN grants
  BY <1>0, <1>1
<1>5. ASSUME NEW j \in DOMAIN grants
      PROVE  /\ grants'[j].source = grants[j].source /\ grants'[j].target = grants[j].target
             /\ grants'[j].status = grants[j].status /\ grants'[j].log = grants[j].log
  BY <1>0, <1>1, ElementOfSeq DEF GrantRecords
<1>6. GrantsInv'
  <2>1. \A j \in DOMAIN grants : LogFits(grants'[j])
    <3> SUFFICES ASSUME NEW j \in DOMAIN grants PROVE LogFits(grants'[j])
      OBVIOUS
    <3>1. LogFits(grants[j])
      BY DEF AccessInv, GrantsInv
    <3>2. PICK g, h : g = grants[j] /\ h = grants'[j]
      OBVIOUS
    <3>3. h.status = g.status /\ h.log = g.log
      BY <1>5, <3>2
    <3>4. LogFits(h)
      BY <3>1, <3>2, <3>3 DEF LogFits
    <3> QED
      BY <3>2, <3>4
  <2>2. \A j, k \in DOMAIN grants : SamePair(j, k)' => j = k
    BY <1>5 DEF AccessInv, GrantsInv, SamePair
  <2> QED
    BY <1>4, <2>1, <2>2 DEF GrantsInv, LogFits
<1>7. \A z \in Sessions : tx'[z].step = "update" =>
        grants'[tx'[z].request.grant].status = grants[tx'[z].request.grant].status
  BY <1>1, <1>5 DEF AccessInv, SessionInv
<1> QED
  BY <1>1, <1>3, <1>4, <1>6, <1>7, GrantStepInv

LEMMA AppendToOne == ASSUME NEW x, NEW y PROVE Append(<<x>>, y) = <<x, y>>
<1> DEFINE S == {x, y}
<1>1. <<x>> \in Seq(S) /\ <<x, y>> \in Seq(S)
  OBVIOUS
<1>2. Append(<<x>>, y) \in Seq(S) /\ Len(Append(<<x>>, y)) = 2
  BY <1>1, AppendProperties
<1>3. \A i \in 1 .. 2 : Append(<<x>>, y)[i] = <<x, y>>[i]
  BY <1>1, AppendProperties
<1> QED
  BY <1>1, <1>2, <1>3, SeqEqual

LEMMA AppendToTwo == ASSUME NEW x, NEW y, NEW z PROVE Append(<<x, y>>, z) = <<x, y, z>>
<1> DEFINE S == {x, y, z}
<1>1. <<x, y>> \in Seq(S) /\ <<x, y, z>> \in Seq(S)
  OBVIOUS
<1>2. Append(<<x, y>>, z) \in Seq(S) /\ Len(Append(<<x, y>>, z)) = 3
  BY <1>1, AppendProperties
<1>3. \A i \in 1 .. 3 : Append(<<x, y>>, z)[i] = <<x, y, z>>[i]
  BY <1>1, AppendProperties
<1> QED
  BY <1>1, <1>2, <1>3, SeqEqual

(* WriteGrant: the log gets the event that the status read allows.         *)
LEMMA WriteGrantInv ==
  ASSUME AccessInv, NEW s \in Sessions, WriteGrant(s)
  PROVE  AccessInv'
<1>0. grants \in Seq(GrantRecords) /\ SessionInv(s) /\ tx[s].step = "update"
  BY DEF AccessInv, AccessTypes, WriteGrant
<1>1. PICK action, i : action = tx[s].request.action /\ i = tx[s].request.grant
  OBVIOUS
<1>2. /\ i \in DOMAIN grants /\ action \in Transitions
      /\ grants[i].status \in (IF action = "share_revoke" THEN OpenStatus ELSE {"offered"})
  BY <1>0, <1>1 DEF SessionInv
<1>3. grants' = [grants EXCEPT ![i] = Closed(@, After(action), action)] /\ tx' = End(s)
      /\ UNCHANGED <<open, members, time, overtaken>>
  BY <1>1 DEF WriteGrant
<1>4. PICK g \in GrantRecords : g = grants[i]
  BY <1>0, <1>2, ElementOfSeq
<1>5. LogFits(g)
  BY <1>2, <1>4 DEF AccessInv, GrantsInv
<1>6. PICK h : h = Closed(g, After(action), action)
  OBVIOUS
<1>7. /\ h.source = g.source /\ h.target = g.target /\ h.expired = g.expired
      /\ h.status = After(action) /\ h.log = Append(g.log, action)
  BY <1>6 DEF Closed, GrantRecords
<1>8. /\ Append(<<"share_offer">>, "share_accept") = <<"share_offer", "share_accept">>
      /\ Append(<<"share_offer">>, "share_decline") = <<"share_offer", "share_decline">>
      /\ Append(<<"share_offer">>, "share_revoke") = <<"share_offer", "share_revoke">>
      /\ Append(<<"share_offer", "share_accept">>, "share_revoke")
           = <<"share_offer", "share_accept", "share_revoke">>
  BY AppendToOne, AppendToTwo
<1>9. LogFits(h) /\ h.status \in {"active", "declined", "revoked"}
  <2>1. CASE action = "share_accept"
    <3>1. g.log = <<"share_offer">>
      BY <1>2, <1>4, <1>5, <2>1 DEF LogFits
    <3> QED
      BY <1>7, <1>8, <2>1, <3>1 DEF LogFits, After
  <2>2. CASE action = "share_decline"
    <3>1. g.log = <<"share_offer">>
      BY <1>2, <1>4, <1>5, <2>2 DEF LogFits
    <3> QED
      BY <1>7, <1>8, <2>2, <3>1 DEF LogFits, After
  <2>3. CASE action = "share_revoke"
    <3>1. CASE g.status = "offered"
      <4>1. g.log = <<"share_offer">>
        BY <1>5, <3>1 DEF LogFits
      <4>2. h.status = "revoked" /\ h.log = <<"share_offer", "share_revoke">>
        BY <1>7, <1>8, <2>3, <4>1 DEF After
      <4> QED
        BY <4>2 DEF LogFits
    <3>2. CASE g.status = "active"
      <4>1. g.log = <<"share_offer", "share_accept">>
        BY <1>5, <3>2 DEF LogFits
      <4>2. h.status = "revoked" /\ h.log = <<"share_offer", "share_accept", "share_revoke">>
        BY <1>7, <1>8, <2>3, <4>1 DEF After
      <4> QED
        BY <4>2 DEF LogFits
    <3> QED
      BY <1>2, <1>4, <2>3, <3>1, <3>2 DEF OpenStatus
  <2> QED
    BY <1>2, <2>1, <2>2, <2>3 DEF Transitions
<1>10. h \in GrantRecords
  <2>1. h = [g EXCEPT !.status = h.status, !.log = h.log]
    BY <1>6, <1>7 DEF Closed
  <2>2. h.log \in {<<"share_offer">>, <<"share_offer", "share_accept">>, <<"share_offer", "share_decline">>,
                   <<"share_offer", "share_revoke">>, <<"share_offer", "share_accept", "share_revoke">>}
    BY <1>9 DEF LogFits
  <2>3. PICK status, log : status = h.status /\ log = h.log
    OBVIOUS
  <2> QED
    BY <1>9, <2>1, <2>2, <2>3 DEF GrantRecords
<1>11. DOMAIN grants' = DOMAIN grants /\ grants'[i] = h
       /\ \A j \in DOMAIN grants \ {i} : grants'[j] = grants[j]
  BY <1>0, <1>2, <1>3, <1>4, <1>6
<1>12. grants' \in Seq(GrantRecords)
  BY <1>0, <1>2, <1>3, <1>4, <1>6, <1>10, ExceptSeq
<1>13. GrantsInv'
  <2>1. \A j \in DOMAIN grants : LogFits(grants'[j])
    BY <1>9, <1>11 DEF AccessInv, GrantsInv
  <2>2. g.status \in OpenStatus
    BY <1>2, <1>4 DEF OpenStatus
  <2>3. \A j, k \in DOMAIN grants : SamePair(j, k)' => SamePair(j, k)
    BY <1>4, <1>7, <1>11, <2>2 DEF SamePair
  <2> QED
    BY <1>11, <2>1, <2>3 DEF AccessInv, GrantsInv, LogFits
<1>14. ASSUME NEW z \in Sessions, tx'[z].step = "update"
       PROVE  grants'[tx'[z].request.grant].status = grants[tx'[z].request.grant].status
  <2>1. z # s /\ tx'[z] = tx[z]
    BY <1>3, <1>14 DEF AccessInv, AccessTypes, End, NoTx
  <2>2. tx[z].request.grant # i /\ tx[z].request.grant \in DOMAIN grants
    BY <1>0, <1>1, <1>14, <2>1 DEF AccessInv, Exclusive, SessionInv
  <2> QED
    BY <1>11, <2>1, <2>2
<1> QED
  BY <1>3, <1>11, <1>12, <1>13, <1>14, GrantStepInv

(* ShareOffer: what stays open of the pair is revoked, then one is added.  *)
LEMMA ShareOfferInv ==
  ASSUME AccessInv, NEW s \in Sessions, ShareOffer(s)
  PROVE  AccessInv'
<1>0. grants \in Seq(GrantRecords) /\ SessionInv(s)
  BY DEF AccessInv, AccessTypes
<1>1. PICK r \in Requests : r = tx[s].request
  BY <1>0 DEF SessionInv, ShareOffer, Doing
<1>2. r.action = "share_offer" /\ r.project \in Projects /\ r.to \in Projects
  BY <1>1 DEF ShareOffer, Doing, Requests, MemberRequests, OfferRequests, Transitions
<1> DEFINE old == OpenGrants(r.project, r.to)
           new == [source |-> r.project, target |-> r.to, status |-> "offered", expired |-> FALSE,
                   log |-> <<"share_offer">>]
           kept == [i \in DOMAIN grants |->
                      IF i \in old THEN Closed(grants[i], "revoked", "share_revoke") ELSE grants[i]]
<1>3. /\ tx' = End(s) /\ UNCHANGED <<open, members, time, overtaken>>
      /\ \A i \in old : GrantFree(i, s)
      /\ grants' = IF \E i \in old : ~grants[i].expired THEN grants ELSE Append(kept, new)
  BY <1>1 DEF ShareOffer
<1>4. CASE grants' = grants
  BY <1>3, <1>4, EndInv
<1>5. CASE grants' = Append(kept, new)
  <2> DEFINE n == Len(grants)
  <2>0. n \in Nat /\ DOMAIN grants = 1 .. n /\ grants \in [1 .. n -> GrantRecords]
    BY <1>0, LenProperties
  <2>1. ASSUME NEW i \in DOMAIN grants, i \in old
        PROVE  /\ kept[i] \in GrantRecords /\ kept[i].status = "revoked" /\ LogFits(kept[i])
    <3>1. PICK g \in GrantRecords : g = grants[i]
      BY <2>0, <2>1
    <3>2. g.status \in OpenStatus /\ LogFits(g)
      BY <2>1, <3>1 DEF OpenGrants, AccessInv, GrantsInv
    <3>3. PICK h : h = Closed(g, "revoked", "share_revoke")
      OBVIOUS
    <3>4. h.status = "revoked" /\ h.log = Append(g.log, "share_revoke")
      BY <3>1, <3>3 DEF Closed, GrantRecords
    <3>5. h.log \in {<<"share_offer", "share_revoke">>, <<"share_offer", "share_accept", "share_revoke">>}
      <4>1. CASE g.status = "offered"
        BY <3>2, <3>4, <4>1, AppendToOne DEF LogFits
      <4>2. CASE g.status = "active"
        BY <3>2, <3>4, <4>2, AppendToTwo DEF LogFits
      <4> QED
        BY <3>2, <4>1, <4>2 DEF OpenStatus
    <3>6. PICK log : log = h.log
      OBVIOUS
    <3>7. h = [g EXCEPT !.status = "revoked", !.log = log]
      BY <3>3, <3>4, <3>6 DEF Closed
    <3>8. h \in GrantRecords
      BY <3>5, <3>6, <3>7 DEF GrantRecords
    <3>9. LogFits(h)
      BY <3>4, <3>5 DEF LogFits
    <3> QED
      BY <2>1, <3>1, <3>3, <3>4, <3>8, <3>9
  <2>2. \A i \in DOMAIN grants \ old : kept[i] = grants[i]
    OBVIOUS
  <2>3. new \in GrantRecords /\ LogFits(new)
    BY <1>2 DEF GrantRecords, LogFits
  <2>4. new.source = r.project /\ new.target = r.to
    OBVIOUS
  <2>5. \A i \in 1 .. n : kept[i] \in GrantRecords
    BY <2>0, <2>1, <2>2
  <2>6. DOMAIN kept = 1 .. n /\ kept \in [1 .. n -> GrantRecords]
    BY <2>0, <2>5
  <2> HIDE DEF kept, new
  <2>7. kept \in Seq(GrantRecords) /\ Len(kept) = n
    <3>1. kept \in Seq(GrantRecords)
      BY <2>0, <2>6 DEF Seq
    <3> QED
      BY <2>0, <2>6, <3>1, LenProperties
  <2>8. /\ grants' \in Seq(GrantRecords) /\ DOMAIN grants' = 1 .. (n + 1)
        /\ grants'[n + 1] = new /\ \A i \in DOMAIN grants : grants'[i] = kept[i]
    <3>1. /\ grants' \in Seq(GrantRecords) /\ Len(grants') = n + 1 /\ grants'[n + 1] = new
          /\ \A i \in 1 .. n : grants'[i] = kept[i]
      BY <1>5, <2>3, <2>7, AppendProperties
    <3> QED
      BY <2>0, <3>1, LenProperties
  <2>9. GrantsInv'
    <3>1. \A i \in DOMAIN grants' : i = n + 1 \/ i \in DOMAIN grants
      BY <2>0, <2>8
    <3>2. \A i \in DOMAIN grants' : LogFits(grants'[i])
      BY <2>1, <2>2, <2>3, <2>8, <3>1 DEF AccessInv, GrantsInv
    <3>3. ASSUME NEW i \in DOMAIN grants, grants'[i].status \in OpenStatus
          PROVE  i \notin old /\ grants'[i] = grants[i]
                 /\ ~(grants'[i].source = r.project /\ grants'[i].target = r.to)
      <4>1. i \notin old
        BY <2>1, <2>8, <3>3 DEF OpenStatus
      <4> QED
        BY <2>2, <2>8, <3>3, <4>1 DEF OpenGrants
    <3>4. ASSUME NEW i \in DOMAIN grants', NEW j \in DOMAIN grants', SamePair(i, j)'
          PROVE  i = j
      <4>1. /\ grants'[i].source = grants'[j].source /\ grants'[i].target = grants'[j].target
            /\ grants'[i].status \in OpenStatus /\ grants'[j].status \in OpenStatus
        BY <3>4 DEF SamePair, OpenStatus
      <4>2. CASE i \in DOMAIN grants /\ j \in DOMAIN grants
        BY <3>3, <4>1, <4>2 DEF SamePair, AccessInv, GrantsInv
      <4>3. CASE i = n + 1 \/ j = n + 1
        BY <2>4, <2>8, <3>1, <3>3, <4>1, <4>3
      <4> QED
        BY <3>1, <4>2, <4>3
    <3> QED
      BY <3>2, <3>4 DEF GrantsInv, LogFits
  <2>10. ASSUME NEW z \in Sessions, tx'[z].step = "update"
         PROVE  grants'[tx'[z].request.grant].status = grants[tx'[z].request.grant].status
    <3>1. z # s /\ tx'[z] = tx[z]
      BY <1>3, <2>10 DEF AccessInv, AccessTypes, End, NoTx
    <3>2. tx[z].request.grant \in DOMAIN grants \ old
      BY <1>3, <2>10, <3>1 DEF AccessInv, GrantFree, SessionInv
    <3> QED
      BY <2>2, <2>8, <3>1, <3>2
  <2>11. DOMAIN grants \subseteq DOMAIN grants'
    BY <2>0, <2>8
  <2> QED
    BY <1>3, <2>8, <2>9, <2>10, <2>11, GrantStepInv
<1> QED
  BY <1>3, <1>4, <1>5

LEMMA PauseInv ==
  ASSUME AccessInv, NEW p \in Projects, Pause(p)
  PROVE  AccessInv'
<1>0. AccessTypes
  BY DEF AccessInv
<1>1. open' \subseteq Projects /\ UNCHANGED <<members, grants, tx, time, overtaken>>
  BY <1>0 DEF Pause, AccessTypes
<1>2. AccessTypes'
  <2>1. UNCHANGED <<Requests, GrantRecords>>
    BY DEF Requests, GrantRecords
  <2> QED
    BY <1>0, <1>1, <2>1 DEF AccessTypes
<1>3. \A z \in Sessions : SessionInv(z)' /\ Reached(z)'
  BY <1>1 DEF AccessInv, SessionInv, Reached
<1>4. \A y, z \in Sessions : Exclusive(y, z)'
  BY <1>1 DEF AccessInv, Exclusive
<1>5. \A q \in Projects \ overtaken' : HasOwner(q)'
  BY <1>0, <1>1, SameOwners DEF AccessInv, AccessTypes
<1>6. GrantsInv'
  BY <1>1 DEF GrantsInv, SamePair, AccessInv
<1> QED
  BY <1>2, <1>3, <1>4, <1>5, <1>6 DEF AccessInv

LEMMA AccessNextInv == AccessInv /\ RowsTold /\ [AccessNext]_accessVars => AccessInv'
<1> SUFFICES ASSUME AccessInv, RowsTold, [AccessNext]_accessVars PROVE AccessInv'
  OBVIOUS
<1>1. CASE UNCHANGED accessVars
  <2>1. UNCHANGED <<open, members, grants, tx, time, overtaken>>
    BY <1>1 DEF accessVars
  <2>2. grants \in Seq(GrantRecords) /\ GrantsInv'
    BY <2>1 DEF AccessInv, AccessTypes, GrantsInv, SamePair
  <2>3. \A z \in Sessions : tx'[z].step = "update" =>
          grants'[tx'[z].request.grant].status = grants[tx'[z].request.grant].status
    BY <2>1
  <2> QED
    BY <2>1, <2>2, <2>3, GrantStepInv
<1>2. ASSUME NEW s \in Sessions, Refuse(s) \/ Drop(s) PROVE AccessInv'
  BY <1>2, EndInv DEF Refuse, Drop
<1>3. ASSUME NEW s \in Sessions, LockProject(s) PROVE AccessInv'
  BY <1>3, LockProjectInv
<1>4. ASSUME NEW s \in Sessions, ReadGrant(s) PROVE AccessInv'
  BY <1>4, ReadGrantInv
<1>5. ASSUME NEW s \in Sessions, WriteGrant(s) PROVE AccessInv'
  BY <1>5, WriteGrantInv
<1>6. ASSUME NEW s \in Sessions, ShareOffer(s) PROVE AccessInv'
  BY <1>6, ShareOfferInv
<1> QED
  BY <1>1, <1>2, <1>3, <1>4, <1>5, <1>6, BeginRequestInv, MembersInv, ExpireInv, PauseInv DEF AccessNext

(* Who did what. The now() of a session is nobody else's and older than no *)
(* event of a project it holds, unless that was overtaken: what the roles  *)
(* were just before an event is what its session read, and stays.          *)

OwnTime(s) ==
  tx[s].step # "idle" =>
    /\ \A m \in members : m.from # tx[s].at
    /\ \A e \in events : e.at # tx[s].at

Different(s, z) ==
  s # z /\ tx[s].step # "idle" /\ tx[z].step # "idle" => tx[s].at # tx[z].at

(* A transition that may write is a manager's until it writes.             *)
Manages(s) == tx[s].step = "update" => IsManager(MyRole(s))

(* It writes for a project that the grant concerns.                        *)
Concerned(s) ==
  tx[s].step = "update" =>
    LET g == grants[tx[s].request.grant] IN
    /\ tx[s].request.project \in {g.source, g.target}
    /\ tx[s].request.action # "share_revoke" => tx[s].request.project = g.target

Past(s) ==
  \A p \in tx[s].locked \ overtaken : \A e \in events : e.project = p => e.at <= tx[s].at

GrantTold(i) ==
  LET g == grants[i] IN
  /\ Told(i, "share_offer", {g.source})
  /\ g.status = "active" => Told(i, "share_accept", {g.target})
  /\ g.status = "declined" => Told(i, "share_decline", {g.target})
  /\ g.status = "revoked" => Told(i, "share_revoke", {g.source, g.target})

EventsInv ==
  /\ \A e \in events : e.at \in Nat /\ e.at <= time
  /\ \A s \in Sessions : OwnTime(s) /\ Manages(s) /\ Concerned(s) /\ Past(s)
  /\ \A s, z \in Sessions : Different(s, z)
  /\ \A e \in events : e.project \notin overtaken => DoneByManager(e)
  /\ \A m \in members \ FirstMembers : GivenRightly(m)
  /\ \A i \in DOMAIN grants : GrantTold(i)

LEMMA EventsTellRows == EventsInv => RowsTold
BY DEF EventsInv, RowsTold, GivenRightly

LEMMA EventsInitInv == AccessInit => EventsInv
BY DEF AccessInit, EventsInv, OwnTime, Different, Manages, Concerned, Past, NoTx

(* A session that goes on with its request reads the role it read.         *)
LEMMA SameRole ==
  ASSUME UNCHANGED members, NEW z \in Sessions,
         tx'[z].request = tx[z].request, tx'[z].at = tx[z].at
  PROVE  MyRole(z)' = MyRole(z)
<1>1. PICK p, a, at : p = tx[z].request.project /\ a = tx[z].request.actor /\ at = tx[z].at
  OBVIOUS
<1>2. RowsOf(p, a, at)' = RowsOf(p, a, at)
  BY DEF RowsOf
<1> QED
  BY <1>1, <1>2 DEF MyRole, RoleAt

(* New rows that are no older than the events of their project leave what  *)
(* the roles were before those events.                                     *)
LEMMA SameBefore ==
  ASSUME AccessTypes, EventsInv, members \subseteq members', NEW e \in events,
         \A m \in members' : m.from \in Nat,
         \A m \in members' \ members : m.project = e.project => e.at <= m.from,
         NEW a
  PROVE  RoleBefore(e.project, a, e.at)' = RoleBefore(e.project, a, e.at)
<1>1. e.at \in Nat
  BY DEF EventsInv
<1>2. {m \in members' : m.project = e.project /\ m.actor = a /\ m.from < e.at}
        = {m \in members : m.project = e.project /\ m.actor = a /\ m.from < e.at}
  BY <1>1 DEF AccessTypes
<1> QED
  BY <1>2 DEF RoleBefore

(* What was told stays told, as long as new rows are no older.             *)
LEMMA HistoryStays ==
  ASSUME AccessTypes, EventsInv, members \subseteq members', events \subseteq events',
         overtaken \subseteq overtaken', \A m \in members' : m.from \in Nat,
         \A m \in members' \ members : m.project \notin overtaken' =>
           \A e \in events : e.project = m.project => e.at <= m.from
  PROVE  /\ \A e \in events : e.project \notin overtaken' => DoneByManager(e)'
         /\ \A m \in members \ FirstMembers : GivenRightly(m)'
<1>1. ASSUME NEW e \in events, e.project \notin overtaken', NEW a
      PROVE  RoleBefore(e.project, a, e.at)' = RoleBefore(e.project, a, e.at)
  BY <1>1, SameBefore
<1>2. ASSUME NEW e \in events, e.project \notin overtaken' PROVE DoneByManager(e)'
  <2>1. DoneByManager(e)
    BY <1>2 DEF EventsInv
  <2> QED
    BY <1>1, <1>2, <2>1 DEF DoneByManager
<1>3. ASSUME NEW m \in members \ FirstMembers PROVE GivenRightly(m)'
  <2>1. PICK e \in events :
          /\ e.action \in {"member_set", "member_revoke"}
          /\ e.project = m.project /\ e.subject = m.actor /\ e.at = m.from
          /\ m.project \notin overtaken
               /\ {m.role, RoleBefore(m.project, m.actor, m.from)} \cap {"owner", "admin"} # {} =>
             RoleBefore(m.project, e.actor, e.at) = "owner"
    BY DEF EventsInv, GivenRightly
  <2>2. CASE m.project \in overtaken'
    BY <2>1, <2>2 DEF GivenRightly
  <2>3. CASE m.project \notin overtaken'
    <3>1. /\ RoleBefore(m.project, m.actor, m.from)' = RoleBefore(m.project, m.actor, m.from)
          /\ RoleBefore(m.project, e.actor, e.at)' = RoleBefore(m.project, e.actor, e.at)
      BY <1>1, <2>1, <2>3
    <3> QED
      BY <2>1, <2>3, <3>1 DEF GivenRightly
  <2> QED
    BY <2>2, <2>3
<1> QED
  BY <1>2, <1>3

(* A step that adds neither a row nor an event and closes no grant.        *)
LEMMA QuietInv ==
  ASSUME AccessTypes, EventsInv, UNCHANGED <<members, events>>,
         overtaken \subseteq overtaken', time' \in Nat, time <= time',
         DOMAIN grants' = DOMAIN grants,
         \A i \in DOMAIN grants :
           /\ grants'[i].source = grants[i].source /\ grants'[i].target = grants[i].target
           /\ grants'[i].status = grants[i].status,
         \A s \in Sessions : (OwnTime(s) /\ Manages(s) /\ Concerned(s) /\ Past(s))',
         \A s, z \in Sessions : Different(s, z)'
  PROVE  EventsInv'
<1>1. \A e \in events' : e.at \in Nat /\ e.at <= time'
  BY DEF EventsInv, AccessTypes
<1>2. /\ \A e \in events' : e.project \notin overtaken' => DoneByManager(e)'
      /\ \A m \in members' \ FirstMembers : GivenRightly(m)'
  BY HistoryStays DEF AccessTypes
<1>3. \A i \in DOMAIN grants' : GrantTold(i)'
  BY DEF EventsInv, GrantTold, Told
<1> QED
  BY <1>1, <1>2, <1>3 DEF EventsInv

(* Before an event of its own a session finds the roles that it read.      *)
LEMMA BeforeIsNow ==
  ASSUME AccessInv, EventsInv, NEW s \in Sessions, tx[s].step \in {"act", "update"},
         NEW p, p = tx[s].request.project, p \notin overtaken, NEW at, at = tx[s].at,
         members \subseteq members', \A m \in members' \ members : m.from = at, NEW a
  PROVE  RoleBefore(p, a, at)' = RoleAt(p, a, at)
<1>1. p \in tx[s].locked /\ at \in Nat /\ (\A m \in members : m.from \in Nat)
  BY DEF AccessInv, AccessTypes, SessionInv, ToLock
<1>2. \A m \in members : m.project = p => m.from <= at /\ m.from # at
  BY <1>1 DEF AccessInv, Reached, EventsInv, OwnTime
<1>3. {m \in members' : m.project = p /\ m.actor = a /\ m.from < at} = RowsOf(p, a, at)
  BY <1>1, <1>2 DEF RowsOf
<1> QED
  BY <1>3 DEF RoleBefore, RoleAt

(* A transaction ends. What it leaves carries its project, actor and now() *)
(* and is a manager's.                                                     *)
LEMMA EndEventsInv ==
  ASSUME AccessInv, EventsInv, NEW s \in Sessions, tx' = End(s),
         UNCHANGED <<time, overtaken>>, members \subseteq members', events \subseteq events',
         \A m \in members' \ members : m.project = tx[s].request.project /\ m.from = tx[s].at,
         \A e \in events' \ events : /\ e.project = tx[s].request.project
                                     /\ e.actor = tx[s].request.actor /\ e.at = tx[s].at,
         members' # members \/ events' # events =>
           tx[s].step \in {"act", "update"} /\ IsManager(MyRole(s)),
         \A m \in members' \ members : m \notin FirstMembers => GivenRightly(m)',
         DOMAIN grants \subseteq DOMAIN grants',
         \A i \in DOMAIN grants :
           grants'[i].source = grants[i].source /\ grants'[i].target = grants[i].target,
         \A i \in DOMAIN grants' : GrantTold(i)'
  PROVE  EventsInv'
<1>1. PICK p, at : p = tx[s].request.project /\ at = tx[s].at
  OBVIOUS
<1>2. at \in Nat /\ at <= time /\ (\A m \in members : m.from \in Nat) /\ AccessTypes
  BY <1>1 DEF AccessInv, AccessTypes, SessionInv
<1>3. tx'[s] = NoTx /\ \A z \in Sessions \ {s} : tx'[z] = tx[z]
  BY <1>2 DEF End, AccessTypes
<1>4. /\ \A m \in members' \ members : m.project = p /\ m.from = at
      /\ \A e \in events' \ events : e.project = p /\ e.at = at /\ e.actor = tx[s].request.actor
  BY <1>1
<1>5. \A e \in events' : e.at \in Nat /\ e.at <= time'
  BY <1>2, <1>4 DEF EventsInv
<1>6. members' # members \/ events' # events => p \in tx[s].locked
  BY <1>1 DEF AccessInv, SessionInv, ToLock
<1>7. ASSUME NEW z \in Sessions PROVE (OwnTime(z) /\ Manages(z) /\ Concerned(z) /\ Past(z))'
  <2>1. CASE z = s
    BY <1>3, <2>1 DEF OwnTime, Manages, Concerned, Past, NoTx
  <2>2. CASE z # s
    <3>1. tx'[z] = tx[z] /\ OwnTime(z) /\ Manages(z) /\ Concerned(z) /\ Past(z)
         /\ Different(s, z) /\ Exclusive(s, z)
      BY <1>3, <2>2 DEF EventsInv, AccessInv
    <3>2. members' # members \/ events' # events => tx[s].step # "idle" /\ p \notin tx[z].locked
      BY <1>6, <2>2, <3>1 DEF Exclusive
    <3>3. OwnTime(z)'
      BY <1>1, <1>4, <2>2, <3>1, <3>2 DEF OwnTime, Different
    <3>4. Past(z)'
      BY <1>4, <3>1, <3>2 DEF Past
    <3>5. Manages(z)'
      <4>1. SUFFICES ASSUME tx[z].step = "update" PROVE IsManager(MyRole(z)')
        BY <3>1 DEF Manages
      <4>2. PICK q, b, now : q = tx[z].request.project /\ b = tx[z].request.actor /\ now = tx[z].at
        OBVIOUS
      <4>3. q \in tx[z].locked
        BY <4>1, <4>2 DEF AccessInv, SessionInv, ToLock
      <4>4. RowsOf(q, b, now)' = RowsOf(q, b, now)
        BY <1>4, <3>2, <4>3 DEF RowsOf
      <4>5. MyRole(z)' = MyRole(z)
        BY <3>1, <4>2, <4>4 DEF MyRole, RoleAt
      <4> QED
        BY <3>1, <4>1, <4>5 DEF Manages
    <3>6. Concerned(z)'
      BY <3>1 DEF AccessInv, SessionInv, Concerned
    <3> QED
      BY <3>3, <3>4, <3>5, <3>6
  <2> QED
    BY <2>1, <2>2
<1>8. ASSUME NEW y \in Sessions, NEW z \in Sessions PROVE Different(y, z)'
  BY <1>3 DEF EventsInv, Different, NoTx
<1>9. \A m \in members' : m.from \in Nat
  BY <1>2, <1>4
<1>10. ASSUME NEW m \in members' \ members, m.project \notin overtaken', NEW e \in events,
              e.project = m.project
       PROVE  e.at <= m.from
  BY <1>1, <1>4, <1>6, <1>10 DEF EventsInv, Past
<1>11. /\ \A e \in events : e.project \notin overtaken' => DoneByManager(e)'
       /\ \A m \in members \ FirstMembers : GivenRightly(m)'
  BY <1>2, <1>9, <1>10, HistoryStays
<1>12. ASSUME NEW e \in events' \ events, e.project \notin overtaken' PROVE DoneByManager(e)'
  <2>1. RoleBefore(p, e.actor, at)' = RoleAt(p, e.actor, at)
    BY <1>1, <1>4, <1>12, BeforeIsNow
  <2>2. IsManager(RoleAt(p, e.actor, at))
    BY <1>1, <1>4, <1>12 DEF MyRole
  <2> QED
    BY <1>1, <1>4, <1>12, <2>1, <2>2 DEF DoneByManager, IsManager
<1> QED
  BY <1>5, <1>7, <1>8, <1>11, <1>12 DEF EventsInv

(* A transaction that ends without effect.                                 *)
LEMMA NoEffectInv ==
  ASSUME AccessInv, EventsInv, NEW s \in Sessions, tx' = End(s),
         UNCHANGED <<members, grants, events, time, overtaken>>
  PROVE  EventsInv'
<1>1. \A i \in DOMAIN grants' : GrantTold(i)'
  BY DEF EventsInv, GrantTold, Told
<1> QED
  BY <1>1, EndEventsInv

LEMMA BeginEventsInv ==
  ASSUME AccessInv, EventsInv, NEW s \in Sessions,
         NEW r \in MemberRequests \cup OfferRequests \cup GrantRequests, BeginRequest(s, r)
  PROVE  EventsInv'
<1>1. AccessTypes /\ \A z \in Sessions : tx[z].at <= time /\ tx[z].at \in Nat
  BY DEF AccessInv, AccessTypes, SessionInv
<1>2. /\ tx'[s].step = "lock" /\ tx'[s].at = time + 1 /\ tx'[s].locked = {}
      /\ \A z \in Sessions \ {s} : tx'[z] = tx[z]
      /\ UNCHANGED <<open, members, grants, events, overtaken>> /\ time' = time + 1
  BY <1>1 DEF BeginRequest, NoTx, AccessTypes
<1>3. time \in Nat /\ (\A m \in members : m.from \in Nat /\ m.from <= time)
      /\ \A e \in events : e.at \in Nat /\ e.at <= time
  BY <1>1 DEF AccessTypes, EventsInv
<1>4. ASSUME NEW z \in Sessions PROVE (OwnTime(z) /\ Manages(z) /\ Concerned(z) /\ Past(z))'
  <2>1. CASE z = s
    <3>1. OwnTime(s)'
      BY <1>2, <1>3 DEF OwnTime
    <3> QED
      BY <1>2, <2>1, <3>1 DEF Manages, Concerned, Past
  <2>2. CASE z # s
    <3>1. OwnTime(z) /\ Manages(z) /\ Concerned(z) /\ Past(z) /\ tx'[z] = tx[z]
      BY <1>2, <2>2 DEF EventsInv
    <3>2. MyRole(z)' = MyRole(z)
      BY <1>2, <3>1, SameRole
    <3> QED
      BY <1>2, <3>1, <3>2 DEF OwnTime, Manages, Concerned, Past
  <2> QED
    BY <2>1, <2>2
<1>5. ASSUME NEW y \in Sessions, NEW z \in Sessions PROVE Different(y, z)'
  <2>1. Different(y, z)
    BY DEF EventsInv
  <2> QED
    BY <1>1, <1>2, <1>3, <2>1 DEF Different
<1> QED
  BY <1>1, <1>2, <1>3, <1>4, <1>5, QuietInv

(* The lock of a project: no event of it is newer, or it is overtaken.     *)
LEMMA LockEventsInv ==
  ASSUME AccessInv, EventsInv, NEW s \in Sessions, LockProject(s)
  PROVE  EventsInv'
<1>0. AccessTypes /\ tx[s].step = "lock"
  BY DEF AccessInv, LockProject
<1>1. PICK p, next :
        /\ tx' = IF p \notin open THEN End(s)
                 ELSE [tx EXCEPT ![s].locked = @ \cup {p}, ![s].step = next]
        /\ next \in {"act", "lock"}
        /\ overtaken' = IF p \in open /\ \E e \in events : e.project = p /\ e.at > tx[s].at
                        THEN overtaken \cup {p} ELSE overtaken
        /\ UNCHANGED <<open, members, grants, events, time>>
  <2> DEFINE left == ToLock(tx[s].request) \ tx[s].locked
             first == Min(left)
             to == IF left = {first} THEN "act" ELSE "lock"
  <2>1. /\ tx' = IF first \notin open THEN End(s)
                 ELSE [tx EXCEPT ![s].locked = @ \cup {first}, ![s].step = to]
        /\ overtaken' = IF first \in open /\ \E e \in events : e.project = first /\ e.at > tx[s].at
                        THEN overtaken \cup {first} ELSE overtaken
        /\ UNCHANGED <<open, members, grants, events, time>>
    BY ZenonT(60) DEF LockProject
  <2>2. to \in {"act", "lock"}
    OBVIOUS
  <2> HIDE DEF first, to
  <2> QED
    BY <2>1, <2>2
<1>2. CASE p \notin open
  <2>1. tx' = End(s) /\ UNCHANGED <<members, grants, events, time, overtaken>>
    BY <1>1, <1>2
  <2> QED
    BY <2>1, NoEffectInv
<1>3. CASE p \in open
  <2>1. overtaken \subseteq overtaken'
    BY <1>1, <1>3
  <2>2. /\ tx'[s].step = next /\ tx'[s].locked = tx[s].locked \cup {p} /\ tx'[s].at = tx[s].at
        /\ \A z \in Sessions \ {s} : tx'[z] = tx[z]
    BY <1>0, <1>1, <1>3 DEF AccessTypes
  <2>3. tx[s].at \in Nat /\ \A e \in events : e.at \in Nat
    BY <1>0 DEF AccessTypes, EventsInv
  <2>4. ASSUME NEW z \in Sessions PROVE (OwnTime(z) /\ Manages(z) /\ Concerned(z) /\ Past(z))'
    <3>1. OwnTime(z) /\ Manages(z) /\ Concerned(z) /\ Past(z)
      BY DEF EventsInv
    <3>2. CASE z = s
      <4>1. Past(s)'
        <5>1. ASSUME NEW q \in tx'[s].locked \ overtaken', NEW e \in events, e.project = q
              PROVE  e.at <= tx[s].at
          <6>1. CASE q = p
            <7>1. ~(e.at > tx[s].at)
              BY <1>1, <1>3, <5>1, <6>1
            <7> QED
              BY <2>3, <7>1
          <6>2. CASE q # p
            BY <2>1, <2>2, <3>1, <3>2, <5>1, <6>2 DEF Past
          <6> QED
            BY <6>1, <6>2
        <5> QED
          BY <1>1, <2>2, <5>1 DEF Past
      <4>2. OwnTime(s)'
        BY <1>0, <1>1, <2>2, <3>1, <3>2 DEF OwnTime
      <4>3. Manages(s)'
        BY <1>1, <2>2 DEF Manages
      <4>4. Concerned(s)'
        BY <1>1, <2>2 DEF Concerned
      <4> QED
        BY <3>2, <4>1, <4>2, <4>3, <4>4
    <3>3. CASE z # s
      <4>1. tx'[z] = tx[z]
        BY <2>2, <3>3
      <4>2. MyRole(z)' = MyRole(z)
        BY <1>1, <4>1, SameRole
      <4> QED
        BY <1>1, <2>1, <3>1, <4>1, <4>2 DEF OwnTime, Manages, Concerned, Past
    <3> QED
      BY <3>2, <3>3
  <2>5. ASSUME NEW y \in Sessions, NEW z \in Sessions PROVE Different(y, z)'
    <3>1. Different(y, z)
      BY DEF EventsInv
    <3> QED
      BY <1>0, <1>1, <2>2, <3>1 DEF Different
  <2>6. time' \in Nat /\ time <= time' /\ UNCHANGED <<members, events, grants>>
    BY <1>0, <1>1 DEF AccessTypes
  <2> QED
    BY <1>0, <2>1, <2>4, <2>5, <2>6, QuietInv
<1> QED
  BY <1>2, <1>3

(* The row a request adds and the event of it.                             *)
LEMMA RowEventInv ==
  ASSUME AccessInv, EventsInv, NEW s \in Sessions, tx[s].step = "act", IsManager(MyRole(s)),
         NEW role, NEW status, NEW action \in {"member_set", "member_revoke"},
         members' = members \cup {Row(s, role, status)},
         events' = events \cup {Event(s, action, tx[s].request.target)},
         {role, RoleAt(tx[s].request.project, tx[s].request.target, tx[s].at)}
           \cap {"owner", "admin"} # {} => MyRole(s) = "owner",
         tx' = End(s), UNCHANGED <<open, grants, time, overtaken>>
  PROVE  EventsInv'
<1>1. PICK p, a, at : p = tx[s].request.project /\ a = tx[s].request.target /\ at = tx[s].at
  OBVIOUS
<1>2. PICK row : row = Row(s, role, status)
  OBVIOUS
<1>3. PICK e : e = Event(s, action, a)
  OBVIOUS
<1>4. /\ members' = members \cup {row} /\ row.project = p /\ row.actor = a
      /\ row.role = role /\ row.from = at
  BY <1>1, <1>2 DEF Row
<1>5. /\ events' = events \cup {e} /\ e.action = action /\ e.project = p /\ e.subject = a /\ e.at = at
      /\ e.actor = tx[s].request.actor
  BY <1>1, <1>3 DEF Event
<1>6. GivenRightly(row)'
  <2>1. CASE p \in overtaken'
    BY <1>4, <1>5, <2>1 DEF GivenRightly
  <2>2. CASE p \notin overtaken'
    <3>1. /\ RoleBefore(p, a, at)' = RoleAt(p, a, at)
          /\ RoleBefore(p, e.actor, at)' = RoleAt(p, e.actor, at)
      BY <1>1, <1>4, <2>2, BeforeIsNow
    <3>2. RoleAt(p, e.actor, at) = MyRole(s)
      BY <1>1, <1>5 DEF MyRole
    <3>3. {role, RoleAt(p, a, at)} \cap {"owner", "admin"} # {} => MyRole(s) = "owner"
      BY <1>1
    <3> QED
      BY <1>4, <1>5, <3>1, <3>2, <3>3 DEF GivenRightly
  <2> QED
    BY <2>1, <2>2
<1>7. \A i \in DOMAIN grants' : GrantTold(i)'
  BY <1>5 DEF EventsInv, GrantTold, Told
<1> QED
  BY <1>1, <1>4, <1>5, <1>6, <1>7, EndEventsInv

LEMMA MembersEventsInv ==
  ASSUME AccessInv, EventsInv, NEW s \in Sessions, MemberSet(s) \/ MemberRevoke(s)
  PROVE  EventsInv'
<1> DEFINE r == tx[s].request
           old == RoleAt(r.project, r.target, tx[s].at)
<1>1. /\ tx[s].step = "act" /\ IsManager(MyRole(s)) /\ tx' = End(s)
      /\ UNCHANGED <<open, grants, time, overtaken>>
  BY DEF MemberSet, MemberRevoke, Doing
<1>2. CASE UNCHANGED <<members, events>>
  BY <1>1, <1>2, NoEffectInv
<1>3. ASSUME MemberSet(s), ~UNCHANGED <<members, events>> PROVE EventsInv'
  <2>1. /\ MayChange(s, old, r.role) /\ members' = members \cup {Row(s, r.role, "active")}
        /\ events' = events \cup {Event(s, r.action, r.target)} /\ r.action = "member_set"
    BY <1>3 DEF MemberSet, Doing
  <2>2. {r.role, old} \cap {"owner", "admin"} # {} => MyRole(s) = "owner"
    BY <2>1 DEF MayChange
  <2> QED
    BY <1>1, <2>1, <2>2, RowEventInv
<1>4. ASSUME MemberRevoke(s), ~UNCHANGED <<members, events>> PROVE EventsInv'
  <2>1. /\ MayChange(s, old, NoRole) /\ members' = members \cup {Row(s, old, "revoked")}
        /\ events' = events \cup {Event(s, r.action, r.target)} /\ r.action = "member_revoke"
    BY <1>4 DEF MemberRevoke, Doing
  <2>2. {old, old} \cap {"owner", "admin"} # {} => MyRole(s) = "owner"
    BY <2>1 DEF MayChange
  <2> QED
    BY <1>1, <2>1, <2>2, RowEventInv
<1> QED
  BY <1>2, <1>3, <1>4

(* A transition found a manager: it reads the role before the grant.       *)
LEMMA ReadGrantEventsInv ==
  ASSUME AccessInv, EventsInv, NEW s \in Sessions, ReadGrant(s)
  PROVE  EventsInv'
<1>0. AccessTypes
  BY DEF AccessInv
<1>1. /\ tx[s].step = "act" /\ IsManager(MyRole(s))
      /\ \/ tx' = End(s)
         \/ tx' = [tx EXCEPT ![s].step = "update"] /\ Allowed(s, grants[tx[s].request.grant])
      /\ UNCHANGED <<open, members, grants, events, time, overtaken>>
  BY DEF ReadGrant
<1>2. CASE tx' = End(s)
  BY <1>1, <1>2, NoEffectInv
<1>3. CASE tx' = [tx EXCEPT ![s].step = "update"] /\ Allowed(s, grants[tx[s].request.grant])
  <2>1. /\ \A z \in Sessions : tx'[z].request = tx[z].request /\ tx'[z].at = tx[z].at
                               /\ tx'[z].locked = tx[z].locked
      /\ tx'[s].step = "update" /\ \A z \in Sessions \ {s} : tx'[z] = tx[z]
    BY <1>0, <1>3 DEF AccessTypes
  <2>2. ASSUME NEW z \in Sessions PROVE (OwnTime(z) /\ Manages(z) /\ Concerned(z) /\ Past(z))'
    <3>1. OwnTime(z) /\ Manages(z) /\ Concerned(z) /\ Past(z)
      BY DEF EventsInv
    <3>2. MyRole(z)' = MyRole(z)
      BY <1>1, <2>1, SameRole
    <3>3. Concerned(z)'
      BY <1>1, <1>3, <2>1, <3>1 DEF Concerned, Allowed
    <3> QED
      BY <1>1, <2>1, <3>1, <3>2, <3>3 DEF OwnTime, Manages, Past
  <2>3. ASSUME NEW y \in Sessions, NEW z \in Sessions PROVE Different(y, z)'
    <3>1. Different(y, z)
      BY DEF EventsInv
    <3> QED
      BY <1>1, <2>1, <3>1 DEF Different
  <2>4. time' \in Nat /\ time <= time'
    BY <1>0, <1>1 DEF AccessTypes
  <2> QED
    BY <1>0, <1>1, <2>2, <2>3, <2>4, QuietInv
<1> QED
  BY <1>1, <1>2, <1>3

LEMMA WriteGrantEventsInv ==
  ASSUME AccessInv, EventsInv, NEW s \in Sessions, WriteGrant(s)
  PROVE  EventsInv'
<1>0. grants \in Seq(GrantRecords) /\ SessionInv(s) /\ Manages(s) /\ Concerned(s) /\ tx[s].step = "update"
  BY DEF AccessInv, EventsInv, AccessTypes, WriteGrant
<1>1. PICK action, i, p : action = tx[s].request.action /\ i = tx[s].request.grant
                          /\ p = tx[s].request.project
  OBVIOUS
<1>2. PICK e : e = Event(s, action, i)
  OBVIOUS
<1>3. /\ i \in DOMAIN grants /\ action \in Transitions /\ IsManager(MyRole(s))
      /\ UNCHANGED <<members, time, overtaken>> /\ tx' = End(s)
      /\ grants' = [grants EXCEPT ![i] = Closed(@, After(action), action)]
      /\ events' = events \cup {e}
  BY <1>0, <1>1, <1>2 DEF SessionInv, Manages, WriteGrant
<1>4. /\ e.action = action /\ e.subject = i /\ e.project = p /\ e.at = tx[s].at
      /\ e.actor = tx[s].request.actor
  BY <1>1, <1>2 DEF Event
<1>5. PICK g \in GrantRecords : g = grants[i]
  BY <1>0, <1>3, ElementOfSeq
<1>6. /\ DOMAIN grants' = DOMAIN grants /\ \A j \in DOMAIN grants \ {i} : grants'[j] = grants[j]
      /\ grants'[i].source = g.source /\ grants'[i].target = g.target
      /\ grants'[i].status = After(action)
  BY <1>0, <1>3, <1>5 DEF Closed, GrantRecords
<1>7. p \in {g.source, g.target} /\ (action # "share_revoke" => p = g.target)
  BY <1>0, <1>1, <1>5 DEF Concerned
<1>8. GrantTold(i)'
  <2>1. Told(i, "share_offer", {g.source})'
    BY <1>3, <1>5 DEF EventsInv, GrantTold, Told
  <2>2. action = "share_revoke" => Told(i, "share_revoke", {g.source, g.target})'
    BY <1>3, <1>4, <1>7 DEF Told
  <2>3. action # "share_revoke" => Told(i, action, {g.target})'
    BY <1>3, <1>4, <1>7 DEF Told
  <2> QED
    BY <1>3, <1>6, <2>1, <2>2, <2>3 DEF GrantTold, After, Transitions
<1>9. ASSUME NEW j \in DOMAIN grants' PROVE GrantTold(j)'
  <2>1. CASE j = i
    BY <1>8, <2>1
  <2>2. CASE j # i
    BY <1>3, <1>6, <1>9, <2>2 DEF EventsInv, GrantTold, Told
  <2> QED
    BY <2>1, <2>2
<1>10. /\ \A m \in members' \ members : FALSE
       /\ \A j \in DOMAIN grants :
            grants'[j].source = grants[j].source /\ grants'[j].target = grants[j].target
  BY <1>3, <1>5, <1>6
<1>11. \A x \in events' \ events : x.project = tx[s].request.project
                                /\ x.actor = tx[s].request.actor /\ x.at = tx[s].at
  BY <1>1, <1>3, <1>4
<1> QED
  BY <1>0, <1>3, <1>6, <1>9, <1>10, <1>11, EndEventsInv

(* ShareOffer: the grants it closes and the one it adds, each with its     *)
(* event; old ones are of the offering project.                            *)
LEMMA ShareOfferEventsInv ==
  ASSUME AccessInv, EventsInv, NEW s \in Sessions, ShareOffer(s)
  PROVE  EventsInv'
<1>0. grants \in Seq(GrantRecords) /\ SessionInv(s)
  BY DEF AccessInv, AccessTypes
<1>1. PICK r \in Requests : r = tx[s].request
  BY <1>0 DEF SessionInv, ShareOffer, Doing
<1> DEFINE old == OpenGrants(r.project, r.to)
           new == [source |-> r.project, target |-> r.to, status |-> "offered", expired |-> FALSE,
                   log |-> <<"share_offer">>]
           kept == [i \in DOMAIN grants |->
                      IF i \in old THEN Closed(grants[i], "revoked", "share_revoke") ELSE grants[i]]
           n == Len(grants)
           added == {Event(s, "share_revoke", i) : i \in old} \cup {Event(s, "share_offer", n + 1)}
<1>2. /\ tx[s].step = "act" /\ IsManager(MyRole(s)) /\ r.action = "share_offer"
      /\ tx' = End(s) /\ UNCHANGED <<open, members, time, overtaken>>
      /\ \/ UNCHANGED <<grants, events>>
         \/ grants' = Append(kept, new) /\ events' = events \cup added
  BY <1>1 DEF ShareOffer, Doing
<1>3. CASE UNCHANGED <<grants, events>>
  BY <1>2, <1>3, NoEffectInv
<1>4. CASE grants' = Append(kept, new) /\ events' = events \cup added
  <2>0. n \in Nat /\ DOMAIN grants = 1 .. n /\ \A i \in 1 .. n : grants[i] \in GrantRecords
    BY <1>0, LenProperties, ElementOfSeq
  <2>1. ASSUME NEW i \in 1 .. n
        PROVE  /\ kept[i].source = grants[i].source /\ kept[i].target = grants[i].target
               /\ kept[i].status = IF i \in old THEN "revoked" ELSE grants[i].status
    <3>1. PICK g \in GrantRecords : g = grants[i]
      BY <2>0
    <3>2. PICK h : h = Closed(g, "revoked", "share_revoke")
      OBVIOUS
    <3>3. h.source = g.source /\ h.target = g.target /\ h.status = "revoked"
      BY <3>2 DEF Closed, GrantRecords
    <3>4. kept[i] = IF i \in old THEN h ELSE g
      BY <2>0, <3>1, <3>2
    <3> HIDE DEF kept, old
    <3> QED
      BY <3>1, <3>3, <3>4
  <2>2. \A i \in old : i \in 1 .. n /\ grants[i].source = r.project
    BY <2>0 DEF OpenGrants
  <2>3. new.source = r.project /\ new.status = "offered"
    OBVIOUS
  <2>4. DOMAIN kept = 1 .. n
    BY <2>0
  <2>5. ASSUME NEW x \in added
        PROVE  x.project = r.project /\ x.actor = tx[s].request.actor /\ x.at = tx[s].at
    BY <1>1 DEF Event
  <2>6. ASSUME NEW i \in old
        PROVE  \E x \in added : x.action = "share_revoke" /\ x.subject = i /\ x.project = r.project
    <3>1. Event(s, "share_revoke", i) \in added
      OBVIOUS
    <3> QED
      BY <1>1, <3>1 DEF Event
  <2>7. \E x \in added : x.action = "share_offer" /\ x.subject = n + 1 /\ x.project = r.project
    <3>1. Event(s, "share_offer", n + 1) \in added
      OBVIOUS
    <3> QED
      BY <1>1, <3>1 DEF Event
  <2> HIDE DEF kept, new, added, old, n
  <2>8. /\ DOMAIN grants' = 1 .. (n + 1) /\ grants'[n + 1] = new
        /\ \A i \in 1 .. n : grants'[i] = kept[i]
    <3>1. kept \in Seq({kept[i] : i \in 1 .. n} \cup {new}) /\ Len(kept) = n
      <4>1. kept \in [1 .. n -> {kept[i] : i \in 1 .. n} \cup {new}]
        BY <2>4 DEF kept
      <4>2. kept \in Seq({kept[i] : i \in 1 .. n} \cup {new})
        BY <2>0, <4>1 DEF Seq
      <4> QED
        BY <2>0, <2>4, <4>2, LenProperties
    <3>2. /\ Len(grants') = n + 1 /\ grants'[n + 1] = new
          /\ grants' \in Seq({kept[i] : i \in 1 .. n} \cup {new})
          /\ \A i \in 1 .. n : grants'[i] = kept[i]
      BY <1>4, <3>1, AppendProperties
    <3> QED
      BY <3>2, LenProperties
  <2>9. ASSUME NEW i \in DOMAIN grants' PROVE GrantTold(i)'
    <3>1. CASE i = n + 1
      <4>1. Told(i, "share_offer", {r.project})'
        BY <1>4, <2>7, <3>1 DEF Told
      <4> QED
        BY <2>3, <2>8, <3>1, <4>1 DEF GrantTold
    <3>2. CASE i \in old
      <4>1. Told(i, "share_revoke", {r.project})'
        BY <1>4, <2>6, <3>2 DEF Told
      <4>2. GrantTold(i) /\ i \in 1 .. n
        BY <2>0, <2>2, <3>2 DEF EventsInv
      <4>3. /\ grants'[i].source = grants[i].source /\ grants'[i].target = grants[i].target
            /\ grants'[i].status = "revoked" /\ grants[i].source = r.project
        BY <2>1, <2>2, <2>8, <3>2, <4>2
      <4> QED
        BY <1>4, <4>1, <4>2, <4>3 DEF GrantTold, Told
    <3>3. CASE i \in (1 .. n) \ old
      <4>1. /\ grants'[i].source = grants[i].source /\ grants'[i].target = grants[i].target
            /\ grants'[i].status = grants[i].status /\ GrantTold(i)
        BY <2>0, <2>1, <2>8, <3>3 DEF EventsInv
      <4> QED
        BY <1>4, <4>1 DEF GrantTold, Told
    <3> QED
      BY <2>0, <2>8, <3>1, <3>2, <3>3
  <2>10. \A x \in events' \ events : x.project = tx[s].request.project
                                 /\ x.actor = tx[s].request.actor /\ x.at = tx[s].at
    BY <1>1, <1>4, <2>5
  <2>11. /\ DOMAIN grants \subseteq DOMAIN grants'
         /\ \A i \in DOMAIN grants :
              grants'[i].source = grants[i].source /\ grants'[i].target = grants[i].target
    BY <2>0, <2>1, <2>8
  <2> QED
    BY <1>2, <1>4, <2>9, <2>10, <2>11, EndEventsInv
<1> QED
  BY <1>2, <1>3, <1>4

(* Expire, Pause and a step that changes nothing.                          *)
LEMMA OutsideEventsInv ==
  ASSUME AccessInv, EventsInv, UNCHANGED <<members, events, tx, time, overtaken>>,
         DOMAIN grants' = DOMAIN grants,
         \A i \in DOMAIN grants :
           /\ grants'[i].source = grants[i].source /\ grants'[i].target = grants[i].target
           /\ grants'[i].status = grants[i].status
  PROVE  EventsInv'
<1>1. AccessTypes
  BY DEF AccessInv
<1>2. ASSUME NEW z \in Sessions PROVE (OwnTime(z) /\ Manages(z) /\ Concerned(z) /\ Past(z))'
  <2>1. OwnTime(z) /\ Manages(z) /\ Concerned(z) /\ Past(z) /\ SessionInv(z)
    BY DEF EventsInv, AccessInv
  <2>2. MyRole(z)' = MyRole(z)
    BY SameRole
  <2> QED
    BY <2>1, <2>2 DEF OwnTime, Manages, Concerned, Past, SessionInv
<1>3. \A y, z \in Sessions : Different(y, z)'
  BY DEF EventsInv, Different
<1>4. time' \in Nat /\ time <= time'
  BY <1>1 DEF AccessTypes
<1> QED
  BY <1>1, <1>2, <1>3, <1>4, QuietInv

LEMMA ExpireEventsInv ==
  ASSUME AccessInv, EventsInv, NEW i \in DOMAIN grants, Expire(i)
  PROVE  EventsInv'
<1>0. grants \in Seq(GrantRecords)
  BY DEF AccessInv, AccessTypes
<1>1. grants' = [grants EXCEPT ![i].expired = TRUE] /\ UNCHANGED <<open, members, events, tx, time, overtaken>>
  BY DEF Expire
<1>2. /\ DOMAIN grants' = DOMAIN grants
      /\ \A j \in DOMAIN grants :
           /\ grants'[j].source = grants[j].source /\ grants'[j].target = grants[j].target
           /\ grants'[j].status = grants[j].status
  BY <1>0, <1>1, ElementOfSeq DEF GrantRecords
<1> QED
  BY <1>1, <1>2, OutsideEventsInv

LEMMA EventsNextInv == AccessInv /\ EventsInv /\ [AccessNext]_accessVars => EventsInv'
<1> SUFFICES ASSUME AccessInv, EventsInv, [AccessNext]_accessVars PROVE EventsInv'
  OBVIOUS
<1>1. CASE UNCHANGED accessVars
  BY <1>1, OutsideEventsInv DEF accessVars
<1>2. ASSUME NEW s \in Sessions, Refuse(s) \/ Drop(s) PROVE EventsInv'
  BY <1>2, NoEffectInv DEF Refuse, Drop
<1>3. ASSUME NEW p \in Projects, Pause(p) PROVE EventsInv'
  BY <1>3, OutsideEventsInv DEF Pause
<1> QED
  BY <1>1, <1>2, <1>3, BeginEventsInv, LockEventsInv, MembersEventsInv, ShareOfferEventsInv,
     ReadGrantEventsInv, WriteGrantEventsInv, ExpireEventsInv DEF AccessNext

(* What a project that no request overtook shows in its events was done by *)
(* who managed it, and a role that manages was given and taken by an owner;*)
(* it has an owner; a grant was offered by its source and accepted by its  *)
(* target, and closed once.                                                *)
THEOREM AccessStaysAgreed == AccessSpec => []AccessAsAgreed
<1>1. AccessInv /\ EventsInv => AccessAsAgreed
  <2> SUFFICES ASSUME AccessInv, EventsInv PROVE AccessAsAgreed
    OBVIOUS
  <2>1. \A i \in DOMAIN grants :
          LET g == grants[i] IN
          /\ Told(i, "share_offer", {g.source})
          /\ g.status = "active" => Told(i, "share_accept", {g.target})
          /\ g.status = "declined" => Told(i, "share_decline", {g.target})
          /\ g.status = "revoked" => Told(i, "share_revoke", {g.source, g.target})
          /\ g.log \in
               CASE g.status = "offered" -> {<<"share_offer">>}
                 [] g.status = "active" -> {<<"share_offer", "share_accept">>}
                 [] g.status = "declined" -> {<<"share_offer", "share_decline">>}
                 [] g.status = "revoked" -> {<<"share_offer", "share_revoke">>,
                                             <<"share_offer", "share_accept", "share_revoke">>}
    BY DEF AccessInv, GrantsInv, LogFits, EventsInv, GrantTold
  <2>2. ASSUME NEW p \in Projects, NEW q \in Projects PROVE Cardinality(OpenGrants(p, q)) <= 1
    <3>1. CASE OpenGrants(p, q) = {}
      BY <3>1, FS_EmptySet
    <3>2. ASSUME NEW i \in OpenGrants(p, q) PROVE Cardinality(OpenGrants(p, q)) <= 1
      <4>1. OpenGrants(p, q) = {i}
        BY <3>2 DEF OpenGrants, AccessInv, GrantsInv, SamePair
      <4>2. Cardinality({i}) = 1
        BY FS_Singleton
      <4> QED
        BY <4>1, <4>2
    <3> QED
      BY <3>1, <3>2
  <2> QED
    BY <2>1, <2>2 DEF AccessAsAgreed, AccessInv, EventsInv
<1>2. AccessInit => AccessInv /\ EventsInv
  BY AccessInitInv, EventsInitInv
<1>3. AccessInv /\ EventsInv /\ [AccessNext]_accessVars => AccessInv' /\ EventsInv'
  BY AccessNextInv, EventsNextInv, EventsTellRows
<1> QED
  BY <1>1, <1>2, <1>3, PTL DEF AccessSpec
=============================================================================
