----------------------------- MODULE ResearchState -----------------------------
(***************************************************************************)
(* What users of the research dashboard keep: collections, the monitoring  *)
(* of assets and saved filters (mutate_research_state.py of its backend).  *)
(*                                                                         *)
(* A request is one transaction. It claims its key in research_user_action,*)
(* writes its rows one by one and stores its outcome; a request whose      *)
(* answer is lost is sent again under its key. A transaction that comes    *)
(* upon a row that another has written waits until that one ends; when two *)
(* wait for each other, PostgreSQL ends one.                               *)
(***************************************************************************)
EXTENDS Integers, FiniteSets, Functions

CONSTANTS
  Desks,         \* sessions of the backend
  StateKeys,     \* idempotency keys
  Owners,        \* users on the writer allowlist, with one collection each
  StateRequests, \* [owner, action, names]
  NoAction

ASSUME ResearchAssumption ==
  /\ IsFiniteSet(StateKeys)
  /\ \A r \in StateRequests : r.owner \in Owners /\ IsFiniteSet(r.names)
  /\ NoAction \notin [key : StateKeys, request : StateRequests, count : Nat]

VARIABLES
  actions,     \* research_user_action: key to request and changed_count
  collections, \* collection: the owners whose collection exists
  items,       \* collection_item: the assets of each owner's collection
  stored,      \* the request that last wrote an asset's status or a filter
  desk,        \* a session's transaction
  answered     \* history: the outcomes that users have seen

researchVars == <<actions, collections, items, stored, desk, answered>>

NoWork == [step |-> "idle"]

(* The actions that leave their last request in the row.                   *)
Overwrites == {"set_monitoring", "save_filter"}

(* The rows that more than one request writes.                             *)
KeyRow(k) == <<"key", k, k>>
CollectionRow(u) == <<"collection", u, u>>
RowFor(r, name) ==
  CASE r.action = "set_monitoring" -> <<"asset", name, name>>
    [] r.action = "save_filter" -> <<"filter", r.owner, name>>
    [] OTHER -> <<"item", r.owner, name>>

StoredRows == {RowFor(r, n) : r \in {q \in StateRequests : q.action \in Overwrites},
                              n \in UNION {q.names : q \in StateRequests}}

ResearchInit ==
  /\ actions = [k \in StateKeys |-> NoAction]
  /\ collections = {}
  /\ items = [u \in Owners |-> {}]
  /\ stored = [x \in StoredRows |-> NoAction]
  /\ desk = [s \in Desks |-> NoWork]
  /\ answered = {}

Written(s) == IF desk[s].step = "idle" THEN {} ELSE desk[s].rows
FreeOf(s, row) == \A t \in Desks \ {s} : row \notin Written(t)

(* main: the request is valid, and its sender is on the allowlist.         *)
SendRequest(s, k, r) ==
  /\ desk[s].step = "idle"
  /\ desk' = [desk EXCEPT ![s] = [step |-> "claim", key |-> k, request |-> r,
                                  rows |-> {}, todo |-> {}, count |-> 0]]
  /\ UNCHANGED <<actions, collections, items, stored, answered>>

Outcome(k, r, n) == [key |-> k, request |-> r, count |-> n]
Mine(s) == desk[s].request

(* Mutant: a claim that has not been committed is not seen. *)
ClaimableAtOnce(s) == desk[s].key \in StateKeys

(* The insert waits for another's insert of the same key.                  *)
Claimable(s) == FreeOf(s, KeyRow(desk[s].key))

(* _existing_or_claim: the first outcome is the answer, of the same        *)
(* request; of another it is a conflict.                                   *)
ClaimKey(s) ==
  LET k == desk[s].key IN
  /\ desk[s].step = "claim"
  /\ Claimable(s)
  /\ \/ /\ actions[k] = NoAction
        /\ desk' = [desk EXCEPT ![s].step = "open", ![s].rows = {KeyRow(k)}]
        /\ UNCHANGED answered
     \/ /\ actions[k] # NoAction
        /\ desk' = [desk EXCEPT ![s] = NoWork]
        /\ answered' = IF actions[k].request = Mine(s) THEN answered \cup {actions[k]} ELSE answered
  /\ UNCHANGED <<actions, collections, items, stored>>

(* The first statement of the action. Adding makes the collection where    *)
(* there is none, waiting for another that makes it; removing goes by the  *)
(* rows there are when the statement begins.                               *)
OpenBatch(s) ==
  LET r == Mine(s) IN
  /\ desk[s].step = "open"
  /\ r.action = "add_to_collection" => FreeOf(s, CollectionRow(r.owner))
  /\ desk' = [desk EXCEPT
       ![s].step = "rows",
       ![s].todo = IF r.action = "remove_from_collection" THEN r.names \cap items[r.owner] ELSE r.names,
       ![s].rows = IF r.action = "add_to_collection" /\ r.owner \notin collections
                   THEN @ \cup {CollectionRow(r.owner)} ELSE @]
  /\ UNCHANGED <<actions, collections, items, stored, answered>>

(* on conflict do nothing, a delete that finds its row, or an update.      *)
Changes(r, name) ==
  CASE r.action = "add_to_collection" -> name \notin items[r.owner]
    [] r.action = "remove_from_collection" -> name \in items[r.owner]
    [] OTHER -> TRUE

ChangeRow(s, name) ==
  LET r == Mine(s) IN
  /\ desk[s].step = "rows" /\ name \in desk[s].todo
  /\ FreeOf(s, RowFor(r, name))
  /\ desk' = IF Changes(r, name)
             THEN [desk EXCEPT ![s].todo = @ \ {name}, ![s].rows = @ \cup {RowFor(r, name)},
                               ![s].count = @ + 1]
             ELSE [desk EXCEPT ![s].todo = @ \ {name}]
  /\ UNCHANGED <<actions, collections, items, stored, answered>>

Touched(s) == {n \in Mine(s).names : RowFor(Mine(s), n) \in desk[s].rows}

(* _finish and the commit. The answer may not arrive.                      *)
FinishRequest(s, heard) ==
  LET r == Mine(s)
      done == Outcome(desk[s].key, r, desk[s].count) IN
  /\ desk[s].step = "rows" /\ desk[s].todo = {}
  /\ actions' = [actions EXCEPT ![desk[s].key] = done]
  /\ collections' = {u \in Owners : u \in collections \/ CollectionRow(u) \in desk[s].rows}
  /\ items' = [u \in Owners |->
                 IF u # r.owner THEN items[u]
                 ELSE IF r.action = "add_to_collection" THEN items[u] \cup Touched(s)
                 ELSE IF r.action = "remove_from_collection" THEN items[u] \ Touched(s)
                 ELSE items[u]]
  /\ stored' = [x \in StoredRows |-> IF x \in desk[s].rows THEN r ELSE stored[x]]
  /\ answered' = IF heard THEN answered \cup {done} ELSE answered
  /\ desk' = [desk EXCEPT ![s] = NoWork]

(* A deadlock that PostgreSQL breaks, an error, or a lost connection.      *)
AbortRequest(s) ==
  /\ desk[s].step # "idle"
  /\ desk' = [desk EXCEPT ![s] = NoWork]
  /\ UNCHANGED <<actions, collections, items, stored, answered>>

ResearchNext ==
  \E s \in Desks :
    \/ \E k \in StateKeys, r \in StateRequests : SendRequest(s, k, r)
    \/ ClaimKey(s) \/ OpenBatch(s) \/ AbortRequest(s)
    \/ \E n \in UNION {q.names : q \in StateRequests} : ChangeRow(s, n)
    \/ \E heard \in BOOLEAN : FinishRequest(s, heard)

ResearchSpec == ResearchInit /\ [][ResearchNext]_researchVars

-----------------------------------------------------------------------------
(* ----------------------------- properties ------------------------------ *)

(* The net of what an owner's requests report to have changed.             *)
NetOf(u, x) ==
  IF x = NoAction \/ x.request.owner # u THEN 0
  ELSE IF x.request.action = "add_to_collection" THEN x.count
  ELSE IF x.request.action = "remove_from_collection" THEN 0 - x.count
  ELSE 0
Reported(u) == SumFunctionOnSet([k \in StateKeys |-> NetOf(u, actions[k])], StateKeys)

(* A request takes effect once, however often and from wherever it is      *)
(* sent: every answer under a key is the one that is stored, and the items *)
(* of a collection are exactly what the stored answers say was added and   *)
(* removed, so that none was counted twice (mutate_research_state.py:171). *)
ActionsHappenOnce ==
  /\ \A x \in answered : x = actions[x.key]
  /\ \A u \in Owners : Cardinality(items[u]) = Reported(u)
=============================================================================
