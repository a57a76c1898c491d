------------------------------- MODULE MCDesk -------------------------------
(***************************************************************************)
(* Instances for TLC of what stands between collected evidence and a paid  *)
(* call, and of what people keep at the dashboard: the media of a video,   *)
(* the review of its audio, the review of its L3 evidence and its local    *)
(* page; what users keep, their drafts of profiles, and the supplier's     *)
(* daily totals. They write different tables and read none of each         *)
(* other's, so one run checks them side by side: part says which moves.    *)
(***************************************************************************)
EXTENDS L3Review, MediaIngestion, MediaReview, ResearchState, ProfileDrafts, LocalReview, SupplierSpend, TLC

VARIABLE part

CONSTANTS a1, a2, m1, e1, k1, k2, t1, t2, j1, j2

(* In every part two actors of one kind meet, which a1 and a2 stand for.   *)
Symmetry == Permutations({a1, a2}) \cup Permutations({k1, k2})

(* Two films that share a sound; only one of the redirect chains is good.  *)
MCSoundsOf == "film1" :> {"s1"} @@ "film2" :> {"s1", "s2"}
MCChains == {<<"cdn", "edge">>, <<"cdn", "cdn", "cdn", "cdn", "cdn">>, <<"elsewhere">>}

(* The parts of the evidence, one of which may be unfit.                   *)
MCParts == <<"text", "features">>
MCValuesOf == [text |-> {1, 2}, features |-> {Unfit, 1}]
Row(c, q) == [maxCost |-> c, maxRequests |-> q, spent |-> 0, used |-> 0, currency |-> "CNY"]
MCBudgets == {NoBudget, Row(1, NoLimit), Row(NoLimit, 1), [Row(1, 1) EXCEPT !.currency = "USD"]}
MCEstimates == {1, NoEstimate}

(* Requests that meet in a collection, an asset and a filter.              *)
Ask(u, a, n) == [owner |-> u, action |-> a, names |-> n]
MCRequests ==
  {Ask("u1", "add_to_collection", {"x", "y"}), Ask("u1", "add_to_collection", {"x"}),
   Ask("u1", "remove_from_collection", {"x", "y"}), Ask("u1", "set_monitoring", {"x", "y"}),
   Ask("u2", "save_filter", {"x"})}

reviewVars == vars
evidenceVars == <<reviewVars, ingestionVars, mediaReviewVars>>
deskVars == <<researchVars, draftVars, localVars, spendVars>>

MCInit ==
  /\ Init /\ IngestionInit /\ MediaReviewInit
  /\ ResearchInit /\ DraftsInit /\ LocalInit /\ SpendInit
  /\ part \in {"review", "ingestion", "media review", "state", "drafts", "viewer", "spend"}
  /\ part = "review" => origin = "o1"
  /\ part # "review" => budget = NoBudget /\ Fit(content) /\ content["text"] = 1
  /\ part \in {"state", "drafts", "viewer", "spend"} => origin = "o1"
  /\ part # "drafts" => drafts = {Other("c1")}
  /\ part # "viewer" => evidence = Expected

EvidenceNext ==
  /\ UNCHANGED deskVars
  /\ \/ part = "review" /\ Next /\ UNCHANGED <<ingestionVars, mediaReviewVars>>
     \/ part = "ingestion" /\ IngestionNext /\ UNCHANGED <<reviewVars, mediaReviewVars>>
     \/ part = "media review" /\ MediaReviewNext /\ UNCHANGED <<reviewVars, ingestionVars>>

DeskNext ==
  /\ UNCHANGED evidenceVars
  /\ \/ part = "state" /\ ResearchNext /\ UNCHANGED <<draftVars, localVars, spendVars>>
     \/ part = "drafts" /\ DraftsNext /\ UNCHANGED <<researchVars, localVars, spendVars>>
     \/ part = "viewer" /\ LocalNext /\ UNCHANGED <<researchVars, draftVars, spendVars>>
     \/ part = "spend" /\ SpendNext /\ UNCHANGED <<researchVars, draftVars, localVars>>

MCNext == UNCHANGED part /\ (EvidenceNext \/ DeskNext)

MCSpec == MCInit /\ [][MCNext]_<<part, evidenceVars, deskVars>>
=============================================================================
