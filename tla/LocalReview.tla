------------------------------ MODULE LocalReview ------------------------------
(***************************************************************************)
(* The local page on which a reviewer reads L3 evidence: LocalReviewApp    *)
(* and its threading HTTP server, src/src/douyin_research/l3/              *)
(* local_review.py.                                                        *)
(*                                                                         *)
(* The page is opened with a one-time token in the fragment of its URL.    *)
(* The token buys one session cookie, the cookie one response with the     *)
(* evidence. Every request has a thread of its own; the app looks at the   *)
(* time and at the session before it takes the lock. All tabs of the       *)
(* browser share its cookies.                                              *)
(***************************************************************************)
EXTENDS Naturals, FiniteSets

CONSTANTS
  Tabs,          \* each has one request under way at most
  Fingerprints,  \* what the evidence of the video may be
  Expected,      \* the fingerprint that the page is started for
  Lifetime,      \* ttl_seconds, in ticks
  EndOfTime,     \* bound: the clock
  NoEvidence, NoCookie

ASSUME LifetimeAssumption == Lifetime \in Nat

VARIABLES
  clock,      \* the monotonic clock
  evidence,   \* the evidence of the video in the database
  candidate,  \* the evidence held by the app
  viewer,     \* the process: starting, listening, draining, ended
  token,      \* whether the bootstrap token is still good
  session,    \* _session_token
  cookie,     \* the cookie that the browser holds
  tab,        \* the request of each tab
  shown       \* history: responses with evidence

localVars == <<clock, evidence, candidate, viewer, token, session, cookie, tab, shown>>

NoRequestYet == [step |-> "idle"]

LocalInit ==
  /\ clock = 0
  /\ evidence \in Fingerprints
  /\ candidate = NoEvidence
  /\ viewer = "starting"
  /\ token = TRUE
  /\ session = NoCookie /\ cookie = NoCookie
  /\ tab = [t \in Tabs |-> NoRequestYet]
  /\ shown = {}

(* LocalReviewApp.expired; the app and the timer start at 0.               *)
Expired == clock >= Lifetime

(* Ingest and transcripts go on while the page is open.                    *)
ChangeEvidence(f) ==
  /\ evidence' = f
  /\ UNCHANGED <<clock, candidate, viewer, token, session, cookie, tab, shown>>

PassTime ==
  /\ viewer # "starting" /\ clock < EndOfTime
  /\ clock' = clock + 1
  /\ UNCHANGED <<evidence, candidate, viewer, token, session, cookie, tab, shown>>

(* The candidate is assembled once and compared with what Windmill showed. *)
AsExpected(f) == f = Expected

(* main: the app, the server, the browser, which may fail to open.         *)
OpenViewer ==
  /\ viewer = "starting"
  /\ \/ AsExpected(evidence) /\ candidate' = evidence /\ viewer' = "listening"
     \/ viewer' = "ended" /\ UNCHANGED candidate
  /\ UNCHANGED <<clock, evidence, token, session, cookie, tab, shown>>

(* The timer stops the server; no request is accepted from then on.        *)
StopViewer ==
  /\ viewer = "listening" /\ Expired
  /\ viewer' = "draining"
  /\ UNCHANGED <<clock, evidence, candidate, token, session, cookie, tab, shown>>

(* main returns: the request threads are daemons and die with the process. *)
ExitViewer ==
  /\ viewer \in {"listening", "draining"}
  /\ viewer' = "ended"
  /\ candidate' = NoEvidence /\ session' = NoCookie
  /\ tab' = [t \in Tabs |-> NoRequestYet]
  /\ UNCHANGED <<clock, evidence, token, cookie, shown>>

Live == viewer \in {"listening", "draining"}
Advance(t, step) == tab' = [tab EXCEPT ![t].step = step]
Forbidden(t) == tab' = [tab EXCEPT ![t] = NoRequestYet]

(* ---------------------------- POST /session ---------------------------- *)

(* do_POST of the page's script with the token of its URL, which any tab   *)
(* that was opened on that URL has. Time is looked at here, once.          *)
PostSession(t) ==
  /\ viewer = "listening" /\ tab[t].step = "idle"
  /\ ~Expired
  /\ tab' = [tab EXCEPT ![t] = [step |-> "token"]]
  /\ UNCHANGED <<clock, evidence, candidate, viewer, token, session, cookie, shown>>

(* Mutant: the token is not used up. *)
TokenKept == TRUE

TokenAfter == FALSE

(* establish_session, under the lock.                                      *)
EstablishSession(t) ==
  /\ Live /\ tab[t].step = "token"
  /\ IF token THEN /\ token' = TokenAfter
                   /\ session' = t
                   /\ tab' = [tab EXCEPT ![t] = [step |-> "granted", cookie |-> t]]
     ELSE Forbidden(t) /\ UNCHANGED <<token, session>>
  /\ UNCHANGED <<clock, evidence, candidate, viewer, cookie, shown>>

(* The response sets the cookie, or gets lost.                             *)
SetCookie(t) ==
  /\ Live /\ tab[t].step = "granted"
  /\ cookie' \in {cookie, tab[t].cookie}
  /\ tab' = [tab EXCEPT ![t] = NoRequestYet]
  /\ UNCHANGED <<clock, evidence, candidate, viewer, token, session, shown>>

(* ----------------------------- GET /review ----------------------------- *)

(* do_GET looks at the time before it looks at the path.                   *)
GetReview(t) ==
  /\ viewer = "listening" /\ tab[t].step = "idle"
  /\ ~Expired
  /\ tab' = [tab EXCEPT ![t] = [step |-> "review", cookie |-> cookie]]
  /\ UNCHANGED <<clock, evidence, candidate, viewer, token, session, cookie, shown>>

(* consume_session, before the lock.                                       *)
LookAtSession(t) ==
  /\ Live /\ tab[t].step = "review"
  /\ IF Expired \/ session = NoCookie \/ tab[t].cookie = NoCookie THEN Forbidden(t)
     ELSE tab' = [tab EXCEPT ![t] = [step |-> "lock", cookie |-> tab[t].cookie, at |-> clock]]
  /\ UNCHANGED <<clock, evidence, candidate, viewer, token, session, cookie, shown>>

(* Mutant: the session that was there before the lock is enough. *)
WasThere(t) == tab[t].cookie # NoCookie

(* The session is there, and it is the cookie's.                           *)
SessionIsMine(t) == session # NoCookie /\ session = tab[t].cookie

(* consume_session, under the lock.                                        *)
ConsumeSession(t) ==
  /\ Live /\ tab[t].step = "lock"
  /\ IF SessionIsMine(t) THEN session' = NoCookie /\ Advance(t, "render")
     ELSE Forbidden(t) /\ UNCHANGED session
  /\ UNCHANGED <<clock, evidence, candidate, viewer, token, cookie, shown>>

(* render_review_html: the page clears itself after what is left of the    *)
(* time, counted from here.                                                *)
TimeLeft == IF Expired THEN 0 ELSE Lifetime - clock

ShowEvidence(t) ==
  /\ Live /\ tab[t].step = "render"
  /\ shown' = shown \cup {[tab |-> t, evidence |-> candidate, asked |-> tab[t].at,
                           clears |-> clock + TimeLeft]}
  /\ Forbidden(t)
  /\ UNCHANGED <<clock, evidence, candidate, viewer, token, session, cookie>>

LocalNext ==
  \/ \E f \in Fingerprints : ChangeEvidence(f)
  \/ PassTime \/ OpenViewer \/ StopViewer \/ ExitViewer
  \/ \E t \in Tabs :
       \/ PostSession(t) \/ EstablishSession(t) \/ SetCookie(t)
       \/ GetReview(t) \/ LookAtSession(t) \/ ConsumeSession(t) \/ ShowEvidence(t)

LocalSpec == LocalInit /\ [][LocalNext]_localVars

-----------------------------------------------------------------------------
(* ----------------------------- properties ------------------------------ *)

(* However many tabs ask at once, and although time and session are looked *)
(* at before the lock, the evidence leaves the process once at most: the   *)
(* expected evidence, to a request that was made in time. The page clears  *)
(* itself at the end of the lifetime, or at once if that has passed.       *)
ShownOnce ==
  /\ Cardinality(shown) <= 1
  /\ \A s \in shown :
       /\ s.evidence = Expected /\ s.asked < Lifetime
       /\ s.clears >= Lifetime
       /\ s.clears = Lifetime \/ s.clears <= clock
=============================================================================
