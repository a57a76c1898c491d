------------------------------ MODULE DeskProofs ------------------------------
(***************************************************************************)
(* Proofs about what stands between collected evidence and a paid call, and*)
(* about what people keep at the dashboard, for any reviewers, workers,    *)
(* tabs, parts and rows. By component, each with its inductive invariant,  *)
(* a lemma for each action and its theorems: LocalReview, SupplierSpend,   *)
(* MediaReview, L3Review, MediaIngestion, ProfileDrafts, ResearchState.    *)
(***************************************************************************)
EXTENDS L3Review, MediaIngestion, MediaReview, ResearchState, ProfileDrafts, LocalReview,
        SupplierSpend, SetLemmas, SequenceTheorems

LEMMA AtMostOne ==
  ASSUME NEW S, \A x, y \in S : x = y
  PROVE  IsFiniteSet(S) /\ Cardinality(S) <= 1
<1>1. CASE S = {}
  BY <1>1, FS_EmptySet
<1>2. CASE S # {}
  <2>1. PICK x : S = {x}
    BY <1>2
  <2>2. IsFiniteSet({x}) /\ Cardinality({x}) = 1
    BY FS_Singleton
  <2> QED
    BY <2>1, <2>2
<1> QED
  BY <1>1, <1>2

-----------------------------------------------------------------------------
(* The local page. The right to see the evidence is one thing that changes *)
(* its form: the token, the session, a request that renders, what is shown.*)

TabRows ==
  [step : {"idle", "token"}] \cup [step : {"granted", "review"}, cookie : Tabs \cup {NoCookie}]
    \cup [step : {"lock", "render"}, cookie : Tabs \cup {NoCookie}, at : Nat]

Rendering(t) == tab[t].step = "render"

OneRight ==
  /\ token => session = NoCookie
  /\ token \/ session # NoCookie => shown = {} /\ \A t \in Tabs : ~Rendering(t)
  /\ \A t, u \in Tabs : Rendering(t) /\ Rendering(u) => t = u
  /\ \A t \in Tabs : Rendering(t) => shown = {}
  /\ \A a, b \in shown : a = b

ShownFits(s) ==
  /\ s.evidence = Expected /\ s.asked < Lifetime /\ s.clears \in Nat
  /\ s.clears >= Lifetime /\ (s.clears = Lifetime \/ s.clears <= clock)

LocalInv ==
  /\ clock \in Nat /\ tab \in [Tabs -> TabRows] /\ session \in Tabs \cup {NoCookie}
  /\ cookie \in Tabs \cup {NoCookie}
  /\ Live => candidate = Expected
  /\ \A t \in Tabs : tab[t].step \in {"lock", "render"} => tab[t].at \in Nat /\ tab[t].at < Lifetime
  /\ OneRight
  /\ \A s \in shown : ShownFits(s)

(* A request moves on and renders nothing by that. *)
LEMMA TabGoes ==
  ASSUME LocalInv, NEW t \in Tabs, NEW r \in TabRows, tab' = [tab EXCEPT ![t] = r],
         r.step # "render", r.step = "lock" => r.at \in Nat /\ r.at < Lifetime,
         UNCHANGED <<clock, candidate, viewer, shown>>,
         cookie' \in Tabs \cup {NoCookie},
         \/ UNCHANGED <<token, session>>
         \/ token /\ ~token' /\ session' \in Tabs
  PROVE  LocalInv'
<1>1. tab' \in [Tabs -> TabRows] /\ tab'[t] = r /\ \A u \in Tabs : u # t => tab'[u] = tab[u]
  BY DEF LocalInv
<1>2. \A u \in Tabs : Rendering(u)' => Rendering(u)
  BY <1>1 DEF Rendering
<1>3. OneRight'
  BY <1>2 DEF LocalInv, OneRight
<1>4. \A u \in Tabs : tab'[u].step \in {"lock", "render"} =>
                        tab'[u].at \in Nat /\ tab'[u].at < Lifetime
  BY <1>1 DEF LocalInv
<1>5. session' \in Tabs \cup {NoCookie}
  BY DEF LocalInv
<1> QED
  BY <1>1, <1>3, <1>4, <1>5 DEF LocalInv, Live, ShownFits

LEMMA LocalSteps ==
  ASSUME LocalInv, [LocalNext]_localVars
  PROVE  LocalInv'
<1> USE DEF localVars
<1>1. ASSUME NEW t \in Tabs, PostSession(t) \/ GetReview(t)
      PROVE  LocalInv'
  <2>1. PICK r \in TabRows : r.step \in {"token", "review"} /\ tab' = [tab EXCEPT ![t] = r]
    BY <1>1 DEF PostSession, GetReview, TabRows, LocalInv
  <2>2. UNCHANGED <<clock, candidate, viewer, token, session, cookie, shown>>
    BY <1>1 DEF PostSession, GetReview
  <2> QED
    BY <2>1, <2>2, TabGoes DEF LocalInv
<1>2. ASSUME NEW t \in Tabs, EstablishSession(t)
      PROVE  LocalInv'
  <2>1. PICK r \in TabRows : r.step \in {"granted", "idle"} /\ tab' = [tab EXCEPT ![t] = r]
    BY <1>2 DEF EstablishSession, Forbidden, NoRequestYet, TabRows
  <2>2. \/ UNCHANGED <<token, session>>
        \/ token /\ ~token' /\ session' \in Tabs
    BY <1>2 DEF EstablishSession, TokenAfter
  <2>3. UNCHANGED <<clock, candidate, viewer, cookie, shown>>
    BY <1>2 DEF EstablishSession
  <2> QED
    BY <2>1, <2>2, <2>3, TabGoes DEF LocalInv
<1>3. ASSUME NEW t \in Tabs, SetCookie(t)
      PROVE  LocalInv'
  <2>1. tab[t] \in [step : {"granted", "review"}, cookie : Tabs \cup {NoCookie}]
    BY <1>3 DEF SetCookie, LocalInv, TabRows
  <2>2. cookie' \in Tabs \cup {NoCookie} /\ UNCHANGED <<clock, candidate, viewer, token, session, shown>>
    BY <1>3, <2>1 DEF SetCookie, LocalInv
  <2>3. PICK r \in TabRows : r.step = "idle" /\ tab' = [tab EXCEPT ![t] = r]
    BY <1>3 DEF SetCookie, NoRequestYet, TabRows
  <2> QED
    BY <2>2, <2>3, TabGoes
<1>4. ASSUME NEW t \in Tabs, LookAtSession(t)
      PROVE  LocalInv'
  <2>1. /\ tab[t] \in [step : {"granted", "review"}, cookie : Tabs \cup {NoCookie}]
        /\ clock \in Nat
    BY <1>4 DEF LookAtSession, LocalInv, TabRows
  <2>2. UNCHANGED <<clock, candidate, viewer, token, session, cookie, shown>>
    BY <1>4 DEF LookAtSession
  <2>3. CASE Forbidden(t)
    <3>1. PICK r \in TabRows : r.step = "idle" /\ tab' = [tab EXCEPT ![t] = r]
      BY <2>3 DEF Forbidden, NoRequestYet, TabRows
    <3> QED
      BY <2>2, <3>1, TabGoes DEF LocalInv
  <2>4. CASE ~Expired /\ tab' = [tab EXCEPT ![t] = [step |-> "lock", cookie |-> tab[t].cookie,
                                                     at |-> clock]]
    <3>1. PICK r \in TabRows : r.step = "lock" /\ r.at = clock /\ tab' = [tab EXCEPT ![t] = r]
      BY <2>1, <2>4 DEF TabRows
    <3>2. clock < Lifetime
      BY <2>1, <2>4, LifetimeAssumption DEF Expired
    <3> QED
      BY <2>1, <2>2, <3>1, <3>2, TabGoes DEF LocalInv
  <2> QED
    BY <1>4, <2>3, <2>4 DEF LookAtSession
<1>5. ASSUME NEW t \in Tabs, ConsumeSession(t)
      PROVE  LocalInv'
  <2>1. /\ tab[t] \in [step : {"lock", "render"}, cookie : Tabs \cup {NoCookie}, at : Nat]
        /\ tab \in [Tabs -> TabRows] /\ tab[t].at < Lifetime
    BY <1>5 DEF ConsumeSession, LocalInv, TabRows
  <2>2. UNCHANGED <<clock, candidate, viewer, token, cookie, shown>>
    BY <1>5 DEF ConsumeSession
  <2>3. CASE Forbidden(t) /\ UNCHANGED session
    <3>1. PICK r \in TabRows : r.step = "idle" /\ tab' = [tab EXCEPT ![t] = r]
      BY <2>3 DEF Forbidden, NoRequestYet, TabRows
    <3> QED
      BY <2>2, <2>3, <3>1, TabGoes DEF LocalInv
  <2>4. CASE SessionIsMine(t) /\ session' = NoCookie /\ Advance(t, "render")
    <3>1. PICK r \in TabRows : /\ r.step = "render" /\ r.at = tab[t].at
                               /\ tab' = [tab EXCEPT ![t] = r]
      <4>1. [tab[t] EXCEPT !.step = "render"] \in TabRows
        BY <2>1 DEF TabRows
      <4>2. [tab[t] EXCEPT !.step = "render"].step = "render"
            /\ [tab[t] EXCEPT !.step = "render"].at = tab[t].at
        BY <2>1
      <4> QED
        BY <2>4, <4>1, <4>2 DEF Advance
    <3>2. tab' \in [Tabs -> TabRows] /\ tab'[t] = r /\ \A u \in Tabs : u # t => tab'[u] = tab[u]
      BY <2>1, <3>1
    <3>3. session # NoCookie /\ ~token /\ shown = {} /\ \A u \in Tabs : ~Rendering(u)
      BY <2>4 DEF SessionIsMine, LocalInv, OneRight
    <3>4. OneRight'
      BY <2>2, <2>4, <3>2, <3>3 DEF OneRight, Rendering
    <3>5. \A u \in Tabs : tab'[u].step \in {"lock", "render"} =>
                            tab'[u].at \in Nat /\ tab'[u].at < Lifetime
      BY <2>1, <3>1, <3>2 DEF LocalInv
    <3> QED
      BY <2>2, <2>4, <3>2, <3>3, <3>4, <3>5 DEF LocalInv, Live
  <2> QED
    BY <1>5, <2>3, <2>4 DEF ConsumeSession
<1>6. ASSUME NEW t \in Tabs, ShowEvidence(t)
      PROVE  LocalInv'
  <2>1. /\ Live /\ candidate = Expected /\ clock \in Nat /\ tab \in [Tabs -> TabRows]
        /\ Rendering(t) /\ shown = {} /\ ~token /\ session = NoCookie
        /\ tab[t].at < Lifetime /\ OneRight
    BY <1>6 DEF ShowEvidence, LocalInv, OneRight, Rendering
  <2>0. PICK s : s = [tab |-> t, evidence |-> candidate, asked |-> tab[t].at,
                      clears |-> clock + TimeLeft]
    OBVIOUS
  <2>2. shown' = {s} /\ UNCHANGED <<clock, candidate, viewer, token, session, cookie>>
    BY <1>6, <2>0, <2>1 DEF ShowEvidence
  <2>3. clock + TimeLeft \in Nat /\ clock + TimeLeft >= Lifetime
        /\ (clock + TimeLeft = Lifetime \/ clock + TimeLeft <= clock)
    BY <2>1, LifetimeAssumption DEF TimeLeft, Expired
  <2>4. s.evidence = Expected /\ s.asked < Lifetime /\ s.clears = clock + TimeLeft
    BY <2>0, <2>1
  <2>5. ShownFits(s)'
    BY <2>2, <2>3, <2>4 DEF ShownFits
  <2>6. PICK r \in TabRows : r.step = "idle" /\ tab' = [tab EXCEPT ![t] = r]
    BY <1>6 DEF ShowEvidence, Forbidden, NoRequestYet, TabRows
  <2>7. tab' \in [Tabs -> TabRows] /\ tab'[t] = r /\ \A u \in Tabs : u # t => tab'[u] = tab[u]
    BY <2>1, <2>6
  <2>8. \A u \in Tabs : ~Rendering(u)'
    BY <2>1, <2>6, <2>7 DEF OneRight, Rendering
  <2>9. OneRight'
    BY <2>1, <2>2, <2>8 DEF OneRight
  <2>10. \A u \in Tabs : tab'[u].step \in {"lock", "render"} =>
                           tab'[u].at \in Nat /\ tab'[u].at < Lifetime
    BY <2>6, <2>7 DEF LocalInv
  <2>11. \A x \in shown' : ShownFits(x)'
    BY <2>2, <2>5
  <2> QED
    BY <2>2, <2>7, <2>9, <2>10, <2>11 DEF LocalInv, Live
<1>7. CASE PassTime
  <2>1. clock \in Nat /\ clock' = clock + 1 /\ \A s \in shown : ShownFits(s)
    BY <1>7 DEF PassTime, LocalInv
  <2>2. \A s \in shown : ShownFits(s)'
    BY <2>1 DEF ShownFits
  <2> QED
    BY <1>7, <2>1, <2>2 DEF PassTime, LocalInv, OneRight, Live, Rendering
<1>8. CASE \/ \E f \in Fingerprints : ChangeEvidence(f)
           \/ OpenViewer \/ StopViewer \/ UNCHANGED localVars
  <2>1. /\ Live' => candidate' = Expected
        /\ UNCHANGED <<clock, token, session, cookie, tab, shown>>
    BY <1>8 DEF ChangeEvidence, OpenViewer, StopViewer, LocalInv, Live, AsExpected
  <2> QED
    BY <2>1 DEF LocalInv, OneRight, Rendering, ShownFits
<1>9. CASE ExitViewer
  <2>1. /\ ~Live' /\ session' = NoCookie /\ UNCHANGED <<clock, token, cookie, shown>>
        /\ tab' = [t \in Tabs |-> NoRequestYet]
    BY <1>9 DEF ExitViewer, Live
  <2>2. NoRequestYet \in TabRows /\ NoRequestYet.step = "idle"
    BY DEF NoRequestYet, TabRows
  <2>3. tab' \in [Tabs -> TabRows] /\ \A t \in Tabs : tab'[t].step = "idle"
    BY <2>1, <2>2
  <2>4. OneRight'
    BY <2>1, <2>3 DEF LocalInv, OneRight, Rendering
  <2> QED
    BY <2>1, <2>3, <2>4 DEF LocalInv, ShownFits
<1> QED
  BY <1>1, <1>2, <1>3, <1>4, <1>5, <1>6, <1>7, <1>8, <1>9 DEF LocalNext

LEMMA LocalStarts == LocalInit => LocalInv
<1>1. NoRequestYet \in TabRows /\ NoRequestYet.step = "idle"
  BY DEF NoRequestYet, TabRows
<1>2. LocalInit => tab \in [Tabs -> TabRows] /\ \A t \in Tabs : tab[t].step = "idle"
  BY <1>1 DEF LocalInit
<1> QED
  BY <1>2 DEF LocalInit, LocalInv, OneRight, Rendering, Live

(* However many tabs ask and in whatever order their threads get the lock, *)
(* the evidence is shown once at most, as the page was started for it, to  *)
(* a request made in time (local_review.py consume_session).               *)
THEOREM EvidenceIsShownOnce == LocalSpec => []ShownOnce
<1>1. LocalInv => ShownOnce
  <2> SUFFICES ASSUME LocalInv PROVE ShownOnce
    OBVIOUS
  <2>1. Cardinality(shown) <= 1
    BY AtMostOne DEF LocalInv, OneRight
  <2> QED
    BY <2>1 DEF LocalInv, ShownFits, ShownOnce
<1> QED
  BY <1>1, LocalStarts, LocalSteps, PTL DEF LocalSpec

-----------------------------------------------------------------------------
(* The supplier's totals. While no lock was lost, one job is at work, and  *)
(* what it brings is later than all that was offered.                      *)

Snapshots == [date : Nat, asOf : Nat, fetched : Nat]
SyncRows ==
  [step : {"idle", "asked"}] \cup [step : {"counted"}, asOf : Nat]
    \cup [step : {"parsed"}, snapshot : Snapshots]

SnapshotFits(s) ==
  /\ s \in Snapshots /\ s.date = DayOf(s.asOf) /\ s.date \in SpendDays
  /\ s.asOf <= s.fetched /\ s.fetched <= now /\ s.fetched - s.asOf <= Transit

SyncFits(j) ==
  /\ ~dropped /\ sync[j].step # "idle" => syncLock = j
  /\ sync[j].step = "counted" =>
       /\ sync[j].asOf \in Nat /\ sync[j].asOf <= now
       /\ ~dropped => \A o \in offered : o.asOf <= sync[j].asOf
  /\ sync[j].step = "parsed" =>
       /\ SnapshotFits(sync[j].snapshot)
       /\ ~dropped => \A o \in offered : /\ o.asOf <= sync[j].snapshot.asOf
                                         /\ o.fetched <= sync[j].snapshot.fetched

OfferFits(s) ==
  /\ SnapshotFits(s) /\ daily[s.date] # NoSnapshot
  /\ s.fetched <= daily[s.date].fetched
  /\ ~dropped => s.asOf <= daily[s.date].asOf

SpendInv ==
  /\ now \in Nat /\ now <= LastTick /\ dropped \in BOOLEAN
  /\ daily \in [SpendDays -> Snapshots \cup {NoSnapshot}] /\ sync \in [SyncJobs -> SyncRows]
  /\ \A d \in SpendDays : daily[d] # NoSnapshot => daily[d] \in offered /\ daily[d].date = d
  /\ \A s \in offered : OfferFits(s)
  /\ \A j \in SyncJobs : SyncFits(j)

LEMMA DaysGrow ==
  ASSUME NEW m \in Nat, NEW n \in Nat, m <= n
  PROVE  DayOf(m) \in Nat /\ DayOf(n) \in Nat /\ DayOf(m) <= DayOf(n)
<1>1. DayLength \in Nat /\ DayLength > 0
  BY SpendAssumption
<1>2. PICK p, q, r, s \in Int :
        /\ p = m \div DayLength /\ q = n \div DayLength
        /\ r = m % DayLength /\ s = n % DayLength
        /\ m = DayLength * p + r /\ 0 <= r /\ r < DayLength
        /\ n = DayLength * q + s /\ 0 <= s /\ s < DayLength
  BY <1>1
<1>3. p >= 0 /\ q >= 0
  BY <1>1, <1>2
<1>4. p <= q
  <2> SUFFICES ASSUME q + 1 <= p PROVE FALSE
    BY <1>2
  <2>1. DayLength * (q + 1) <= DayLength * p
    BY <1>1, <1>2
  <2> QED
    BY <1>1, <1>2, <2>1
<1> QED
  BY <1>2, <1>3, <1>4 DEF DayOf

(* A job moves on, while the rows and what was offered stay.               *)
LEMMA SyncGoes ==
  ASSUME SpendInv, NEW j \in SyncJobs, NEW r \in SyncRows, sync' = [sync EXCEPT ![j] = r],
         UNCHANGED <<now, daily, offered, dropped>>, SyncFits(j)',
         syncLock' = syncLock \/ syncLock \in {j, NoJob}
  PROVE  SpendInv'
<1>1. sync' \in [SyncJobs -> SyncRows] /\ sync'[j] = r /\ \A q \in SyncJobs : q # j => sync'[q] = sync[q]
  BY DEF SpendInv
<1>2. ASSUME NEW q \in SyncJobs, q # j PROVE SyncFits(q)'
  <2>1. SyncFits(q) /\ sync'[q] = sync[q]
    BY <1>1, <1>2 DEF SpendInv
  <2>2. ~dropped /\ sync[q].step # "idle" => syncLock' = q
    BY <1>2, <2>1, SpendAssumption DEF SyncFits
  <2> QED
    BY <2>1, <2>2 DEF SyncFits, SnapshotFits
<1>3. \A s \in offered : OfferFits(s)'
  BY DEF SpendInv, OfferFits, SnapshotFits
<1> QED
  BY <1>1, <1>2, <1>3 DEF SpendInv

LEMMA IdleSyncIs == IdleSync \in SyncRows /\ IdleSync.step = "idle"
  BY DEF IdleSync, SyncRows

LEMMA SpendSteps ==
  ASSUME SpendInv, [SpendNext]_spendVars
  PROVE  SpendInv'
<1>1. CASE Tick
  <2>1. /\ now \in Nat /\ now' \in Nat /\ now <= now' /\ now' <= LastTick
        /\ UNCHANGED <<syncLock, sync, daily, offered, dropped>>
    BY <1>1, SpendAssumption DEF Tick, SpendInv
  <2>2. ASSUME NEW s, SnapshotFits(s) PROVE SnapshotFits(s)'
    BY <2>1, <2>2 DEF SnapshotFits, Snapshots
  <2>3. \A s \in offered : OfferFits(s)'
    BY <2>1, <2>2 DEF SpendInv, OfferFits
  <2>4. ASSUME NEW j \in SyncJobs PROVE SyncFits(j)'
    <3>1. SyncFits(j) /\ sync'[j] = sync[j]
      BY <2>1 DEF SpendInv
    <3>2. PICK x : x = sync[j].snapshot
      OBVIOUS
    <3>3. SnapshotFits(x) => SnapshotFits(x)'
      BY <2>2
    <3> QED
      BY <2>1, <3>1, <3>2, <3>3 DEF SyncFits
  <2> QED
    BY <2>1, <2>3, <2>4 DEF SpendInv
<1>2. ASSUME NEW j \in SyncJobs, BeginSync(j)
      PROVE  SpendInv'
  <2>1. /\ sync[j].step = "idle" /\ syncLock = NoJob /\ syncLock' = j
        /\ UNCHANGED <<now, daily, offered, dropped>>
        /\ sync' = [sync EXCEPT ![j].step = "asked"]
    BY <1>2 DEF BeginSync, LockFree
  <2>2. sync \in [SyncJobs -> SyncRows] /\ sync[j] \in [step : {"idle", "asked"}]
    BY <2>1 DEF SpendInv, SyncRows
  <2>3. PICK r \in SyncRows : r.step = "asked" /\ sync' = [sync EXCEPT ![j] = r]
    BY <2>1, <2>2 DEF SyncRows
  <2>4. sync'[j] = r
    BY <2>2, <2>3
  <2>5. SyncFits(j)'
    BY <2>1, <2>3, <2>4 DEF SyncFits
  <2> QED
    BY <2>1, <2>3, <2>5, SyncGoes
<1>3. ASSUME NEW j \in SyncJobs, DropSession(j)
      PROVE  SpendInv'
  <2>1. dropped' = TRUE /\ UNCHANGED <<now, sync, daily, offered>>
    BY <1>3 DEF DropSession
  <2>2. \A s \in offered : OfferFits(s)'
    BY <2>1 DEF SpendInv, OfferFits, SnapshotFits
  <2>3. \A q \in SyncJobs : SyncFits(q)'
    BY <2>1 DEF SpendInv, SyncFits, SnapshotFits
  <2> QED
    BY <2>1, <2>2, <2>3 DEF SpendInv
<1>4. ASSUME NEW j \in SyncJobs, SupplierCounts(j)
      PROVE  SpendInv'
  <2>1. /\ sync[j].step = "asked" /\ UNCHANGED <<now, syncLock, daily, offered, dropped>>
        /\ now \in Nat /\ sync \in [SyncJobs -> SyncRows] /\ SyncFits(j)
    BY <1>4 DEF SupplierCounts, SpendInv
  <2>2. PICK r \in SyncRows : r.step = "counted" /\ r.asOf = now /\ sync' = [sync EXCEPT ![j] = r]
    BY <1>4, <2>1 DEF SupplierCounts, SyncRows
  <2>3. sync'[j] = r
    BY <2>1, <2>2
  <2>4. \A o \in offered : o.asOf <= now
    BY <2>1 DEF SpendInv, OfferFits, SnapshotFits, Snapshots
  <2>5. SyncFits(j)'
    BY <2>1, <2>2, <2>3, <2>4 DEF SyncFits
  <2> QED
    BY <2>1, <2>2, <2>5, SyncGoes
<1>5. ASSUME NEW j \in SyncJobs, TakeAnswer(j)
      PROVE  SpendInv'
  <2>1. /\ sync[j].step = "counted" /\ UNCHANGED <<now, syncLock, daily, offered, dropped>>
        /\ now \in Nat /\ now <= LastTick /\ sync \in [SyncJobs -> SyncRows] /\ SyncFits(j)
    BY <1>5 DEF TakeAnswer, SpendInv
  <2>2. PICK n \in Nat : n = sync[j].asOf /\ n <= now /\ now - n <= Transit
    BY <1>5, <2>1 DEF TakeAnswer, SyncFits
  <2>3. PICK s \in Snapshots : s = Snapshot(n) /\ s.date = DayOf(n) /\ s.asOf = n /\ s.fetched = now
    <3>1. DayOf(n) \in Nat
      BY <2>1, <2>2, DaysGrow
    <3> DEFINE s == [date |-> DayOf(n), asOf |-> n, fetched |-> now]
    <3>2. s \in Snapshots /\ s.date = DayOf(n) /\ s.asOf = n /\ s.fetched = now
      BY <2>1, <3>1 DEF Snapshots
    <3>3. s = Snapshot(n)
      BY DEF Snapshot
    <3> QED
      BY <3>2, <3>3
  <2>4. DayOf(n) \in SpendDays
    <3>1. DayOf(0) <= DayOf(n) /\ DayOf(n) <= DayOf(LastTick)
      BY <2>1, <2>2, DaysGrow, SpendAssumption
    <3>2. DayOf(0) \in Nat /\ DayOf(n) \in Nat /\ DayOf(LastTick) \in Nat
      BY <2>2, DaysGrow, SpendAssumption
    <3> QED
      BY <3>1, <3>2 DEF SpendDays
  <2>5. SnapshotFits(s)'
    BY <2>1, <2>2, <2>3, <2>4 DEF SnapshotFits
  <2>6. PICK r \in SyncRows : r.step = "parsed" /\ r.snapshot = s /\ sync' = [sync EXCEPT ![j] = r]
    BY <1>5, <2>2, <2>3 DEF TakeAnswer, SyncRows
  <2>7. sync'[j] = r
    BY <2>1, <2>6
  <2>8. \A o \in offered : o.fetched <= now
    BY DEF SpendInv, OfferFits, SnapshotFits
  <2>9. SyncFits(j)'
    BY <2>1, <2>2, <2>3, <2>5, <2>6, <2>7, <2>8 DEF SyncFits
  <2> QED
    BY <2>1, <2>6, <2>9, SyncGoes
<1>6. ASSUME NEW j \in SyncJobs, FailSync(j)
      PROVE  SpendInv'
  <2>1. UNCHANGED <<now, daily, offered, dropped>> /\ sync' = [sync EXCEPT ![j] = IdleSync]
        /\ (syncLock' = syncLock \/ syncLock = j) /\ sync \in [SyncJobs -> SyncRows]
    BY <1>6 DEF FailSync, EndSync, SpendInv
  <2>2. sync'[j] = IdleSync
    BY <2>1
  <2>3. SyncFits(j)'
    BY <2>2, IdleSyncIs DEF SyncFits
  <2> QED
    BY <2>1, <2>3, IdleSyncIs, SyncGoes
<1>7. ASSUME NEW j \in SyncJobs, Upsert(j)
      PROVE  SpendInv'
  <2>1. /\ sync[j].step = "parsed" /\ UNCHANGED <<now, dropped>>
        /\ sync' = [sync EXCEPT ![j] = IdleSync]
        /\ syncLock' = IF syncLock = j THEN NoJob ELSE syncLock
        /\ sync \in [SyncJobs -> SyncRows] /\ SyncFits(j)
        /\ daily \in [SpendDays -> Snapshots \cup {NoSnapshot}]
        /\ \A o \in offered : OfferFits(o)
        /\ \A d \in SpendDays : daily[d] # NoSnapshot => daily[d] \in offered /\ daily[d].date = d
    BY <1>7 DEF Upsert, EndSync, SpendInv
  <2>2. PICK s \in Snapshots : s = sync[j].snapshot /\ SnapshotFits(s)
    BY <2>1 DEF SyncFits, SnapshotFits
  <2>3. PICK d \in SpendDays : d = s.date
    BY <2>2 DEF SnapshotFits
  <2>4. PICK row \in Snapshots :
          /\ row = IF daily[d] = NoSnapshot \/ daily[d].fetched <= s.fetched THEN s ELSE daily[d]
          /\ row # NoSnapshot
    BY <2>1, SpendAssumption DEF Snapshots
  <2>5. daily' = [daily EXCEPT ![d] = row] /\ offered' = offered \cup {s}
    BY <1>7, <2>2, <2>3, <2>4 DEF Upsert, Replaces
  <2>6. /\ daily' \in [SpendDays -> Snapshots \cup {NoSnapshot}] /\ daily'[d] = row
        /\ \A e \in SpendDays : e # d => daily'[e] = daily[e]
    BY <2>1, <2>4, <2>5
  <2>7. row \in offered' /\ row.date = d
    BY <2>1, <2>3, <2>4, <2>5
  <2>8. \A e \in SpendDays : daily'[e] # NoSnapshot => daily'[e] \in offered' /\ daily'[e].date = e
    BY <2>1, <2>5, <2>6, <2>7
  <2>9. ~dropped => \A o \in offered : o.asOf <= s.asOf /\ o.fetched <= s.fetched
    BY <2>1, <2>2 DEF SyncFits
  <2>10. ASSUME NEW o \in offered PROVE OfferFits(o)'
    <3>1. /\ o \in Snapshots /\ o.date \in SpendDays /\ daily[o.date] # NoSnapshot
          /\ o.fetched <= daily[o.date].fetched
          /\ ~dropped => o.asOf <= daily[o.date].asOf
      BY <2>1 DEF OfferFits, SnapshotFits
    <3>2. CASE o.date = d
      <4>1. daily[d] \in Snapshots /\ daily[d] \in offered
        BY <2>1, <3>1, <3>2
      <4>2. o.fetched <= row.fetched
        BY <2>4, <3>1, <3>2, <4>1 DEF Snapshots
      <4>3. ~dropped => o.asOf <= row.asOf
        BY <2>4, <2>9, <4>1
      <4> QED
        BY <2>1, <2>4, <2>6, <3>1, <3>2, <4>2, <4>3 DEF OfferFits, SnapshotFits
    <3>3. CASE o.date # d
      BY <2>1, <2>6, <3>1, <3>3 DEF OfferFits, SnapshotFits
    <3> QED
      BY <3>2, <3>3
  <2>11. OfferFits(s)'
    <3>1. s.fetched <= row.fetched /\ (~dropped => s.asOf <= row.asOf)
      <4>1. CASE daily[d] = NoSnapshot \/ daily[d].fetched <= s.fetched
        <5>1. row = s
          BY <2>4, <4>1
        <5> QED
          BY <2>2, <5>1 DEF Snapshots
      <4>2. CASE daily[d] # NoSnapshot /\ ~(daily[d].fetched <= s.fetched)
        <5>1. row = daily[d] /\ daily[d] \in offered
          BY <2>1, <2>4, <4>2
        <5>2. dropped
          BY <2>9, <4>2, <5>1
        <5> QED
          BY <2>2, <4>2, <5>1, <5>2 DEF Snapshots
      <4> QED
        BY <4>1, <4>2
    <3>2. SnapshotFits(s)'
      BY <2>1, <2>2 DEF SnapshotFits
    <3> QED
      BY <2>1, <2>3, <2>4, <2>6, <3>1, <3>2 DEF OfferFits
  <2>12. ASSUME NEW q \in SyncJobs PROVE SyncFits(q)'
    <3>1. CASE q = j
      <4>1. sync'[q] = IdleSync
        BY <2>1, <3>1
      <4> QED
        BY <4>1, IdleSyncIs DEF SyncFits
    <3>2. CASE q # j
      <4>1. sync'[q] = sync[q] /\ SyncFits(q)
        BY <2>1, <3>2 DEF SpendInv
      <4>2. dropped \/ sync[q].step = "idle"
        BY <2>1, <3>2, <4>1 DEF SyncFits
      <4> QED
        BY <2>1, <4>1, <4>2 DEF SyncFits, SnapshotFits
    <3> QED
      BY <3>1, <3>2
  <2>13. sync' \in [SyncJobs -> SyncRows]
    BY <2>1, IdleSyncIs
  <2> QED
    BY <2>1, <2>5, <2>6, <2>8, <2>10, <2>11, <2>12, <2>13 DEF SpendInv
<1>8. CASE UNCHANGED spendVars
  <2>1. UNCHANGED <<now, syncLock, sync, daily, offered, dropped>>
    BY <1>8 DEF spendVars
  <2>2. \A s \in offered : OfferFits(s)'
    BY <2>1 DEF SpendInv, OfferFits, SnapshotFits
  <2>3. \A j \in SyncJobs : SyncFits(j)'
    BY <2>1 DEF SpendInv, SyncFits, SnapshotFits
  <2> QED
    BY <2>1, <2>2, <2>3 DEF SpendInv
<1> QED
  BY <1>1, <1>2, <1>3, <1>4, <1>5, <1>6, <1>7, <1>8 DEF SpendNext

LEMMA SpendStarts == SpendInit => SpendInv
<1> SUFFICES ASSUME SpendInit PROVE SpendInv
  OBVIOUS
<1>1. \A j \in SyncJobs : sync[j] = IdleSync
  BY DEF SpendInit
<1>2. sync \in [SyncJobs -> SyncRows] /\ \A j \in SyncJobs : SyncFits(j)
  BY <1>1, IdleSyncIs DEF SpendInit, SyncFits
<1>3. daily \in [SpendDays -> Snapshots \cup {NoSnapshot}] /\ \A d \in SpendDays : daily[d] = NoSnapshot
  BY DEF SpendInit
<1>4. now = 0 /\ offered = {} /\ dropped = FALSE
  BY DEF SpendInit
<1>5. now \in Nat /\ now <= LastTick
  BY <1>4, SpendAssumption
<1>6. dropped \in BOOLEAN
  BY <1>4
<1> QED
  BY <1>2, <1>3, <1>4, <1>5, <1>6 DEF SpendInv

(* The row of a day is the snapshot fetched last; while no lock was lost   *)
(* its total is the largest that was reported, and a fresh row is as old   *)
(* as it says (daily_spend.py upsert_supplier_daily_spend).                *)
THEOREM LatestTotalsAreKept == SpendSpec => []LatestKept
<1>1. SpendInv => LatestKept
  <2> SUFFICES ASSUME SpendInv PROVE LatestKept
    OBVIOUS
  <2>1. ASSUME NEW row \in ShownToday, Fresh2h(row)
        PROVE  now - row.asOf <= StaleAfter + Transit
    <3>1. PICK d \in SpendDays : row = daily[d] /\ row # NoSnapshot
      BY DEF ShownToday
    <3>2. SnapshotFits(row) /\ now \in Nat
      BY <3>1 DEF SpendInv, OfferFits
    <3> QED
      BY <2>1, <3>2, SpendAssumption DEF SnapshotFits, Snapshots, Fresh2h
  <2> QED
    BY <2>1 DEF SpendInv, OfferFits, LatestKept
<1> QED
  BY <1>1, SpendStarts, SpendSteps, PTL DEF SpendSpec

-----------------------------------------------------------------------------
(* The reviews of audio. A row keeps its origin and is never active again; *)
(* what a worker has found of it therefore stays true of it.               *)

ReviewRows == [shown : Origins, active : BOOLEAN, at : Nat]
LookRows ==
  [step : {"idle"}] \cup [step : {"shown", "insert"}, asset : AudioAssets,
                          version : ReviewVersions, shown : Origins]
Locking == {"enter", "load", "create", "insert", "match", "matched", "send"}
DeliveryRows ==
  [step : Locking \cup {"canonical", "sign", "signed", "lock"}, asset : AudioAssets,
   version : ReviewVersions, url : Origins, before : ReviewRows \cup {NoReview}]

(* Of a worker d with the delivery x, its review row, the holder h of the  *)
(* lock and the fingerprint j of the job: what it has asserted holds.      *)
Justified(d, x, row, h, j) ==
  /\ x.step \in Locking => h = d
  /\ x.step \in Locking \cup {"sign", "signed", "lock"} => row # NoReview /\ row.shown = x.url
  /\ x.step \in Locking => x.before # NoReview
  /\ x.step = "enter" => (row.active => x.before.active)
  /\ x.step \in Locking \ {"enter"} => x.before.active
  /\ x.step = "send" => j = x.url

MediaReviewInv ==
  /\ origin \in Origins
  /\ reviews \in [AudioAssets \X ReviewVersions -> ReviewRows \cup {NoReview}]
  /\ look \in [MediaReviewers -> LookRows]
  /\ delivery \in [Deliverers -> DeliveryRows \cup {NoDelivery}]
  /\ jobOf \in [AudioAssets -> Origins \cup {NoReview}]
  /\ \A d \in Deliverers, a \in AudioAssets, v \in ReviewVersions :
       delivery[d].step # "idle" /\ delivery[d].asset = a /\ delivery[d].version = v =>
         Justified(d, delivery[d], reviews[<<a, v>>], holder, jobOf[a])

LEMMA MaxIs ==
  ASSUME NEW S, S \subseteq Nat, IsFiniteSet(S), S # {}
  PROVE  Max(S) \in S /\ \A x \in S : x <= Max(S)
<1>1. PICK m \in S : \A x \in S : x <= m
  BY Largest
<1>2. \A x \in S : m >= x
  BY <1>1
<1> QED
  BY <1>2 DEF Max

LEMMA ImageIsFinite ==
  ASSUME NEW S, IsFiniteSet(S), NEW f
  PROVE  IsFiniteSet({f[x] : x \in S})
<1> DEFINE T == {f[x] : x \in S}
           g == [x \in S |-> f[x]]
<1>1. g \in Surjection(S, T)
  BY DEF Surjection
<1> QED
  BY <1>1, FS_Surjection

LEMMA NextAtIs ==
  ASSUME MediaReviewInv, NEW a \in AudioAssets
  PROVE  NextAt(a) \in Nat
<1> DEFINE R == {reviews[<<a, v>>] : v \in ReviewVersions} \ {NoReview}
           S == {0} \cup {row.at : row \in R}
<1>1. IsFiniteSet({reviews[<<a, v>>] : v \in ReviewVersions})
  <2> DEFINE f == [v \in ReviewVersions |-> reviews[<<a, v>>]]
  <2>1. IsFiniteSet({f[v] : v \in ReviewVersions})
    BY MediaReviewAssumption, ImageIsFinite
  <2>2. {f[v] : v \in ReviewVersions} = {reviews[<<a, v>>] : v \in ReviewVersions}
    OBVIOUS
  <2> QED
    BY <2>1, <2>2
<1>2. IsFiniteSet(R)
  BY <1>1, FS_Subset
<1>3. R \subseteq ReviewRows
  BY DEF MediaReviewInv
<1> HIDE DEF R
<1>4. IsFiniteSet({row.at : row \in R})
  <2> DEFINE f == [row \in R |-> row.at]
  <2>1. IsFiniteSet({f[row] : row \in R})
    BY <1>2, ImageIsFinite
  <2>2. {f[row] : row \in R} = {row.at : row \in R}
    OBVIOUS
  <2> QED
    BY <2>1, <2>2
<1>5. IsFiniteSet({0}) /\ IsFiniteSet(S)
  BY <1>4, FS_Singleton, FS_Union
<1>6. S \subseteq Nat /\ S # {}
  BY <1>3 DEF ReviewRows
<1>7. Max(S) \in Nat
  BY <1>5, <1>6, MaxIs
<1> HIDE DEF S
<1> QED
  BY <1>7 DEF NextAt, Rows, S, R

(* The row of each version only gains: it comes to be, and is revoked.     *)
LEMMA RowsGrow ==
  ASSUME MediaReviewInv, UNCHANGED <<origin, deliveryVars>>,
         look' \in [MediaReviewers -> LookRows],
         reviews' \in [AudioAssets \X ReviewVersions -> ReviewRows \cup {NoReview}],
         \A p \in AudioAssets \X ReviewVersions : reviews[p] # NoReview =>
           /\ reviews'[p] # NoReview /\ reviews'[p].shown = reviews[p].shown
           /\ reviews'[p].active => reviews[p].active
  PROVE  MediaReviewInv'
<1>1. UNCHANGED <<origin, delivery, jobOf, holder>>
  BY DEF deliveryVars
<1>2. ASSUME NEW d \in Deliverers, NEW a \in AudioAssets, NEW v \in ReviewVersions,
             delivery[d].step # "idle", delivery[d].asset = a, delivery[d].version = v
      PROVE  Justified(d, delivery[d], reviews'[<<a, v>>], holder, jobOf[a])
  <2>1. Justified(d, delivery[d], reviews[<<a, v>>], holder, jobOf[a])
    BY <1>2 DEF MediaReviewInv
  <2>2. <<a, v>> \in AudioAssets \X ReviewVersions
    OBVIOUS
  <2>3. reviews[<<a, v>>] # NoReview =>
           /\ reviews'[<<a, v>>] # NoReview /\ reviews'[<<a, v>>].shown = reviews[<<a, v>>].shown
           /\ reviews'[<<a, v>>].active => reviews[<<a, v>>].active
    BY <2>2
  <2> QED
    BY <2>1, <2>3 DEF Justified, Locking
<1> QED
  BY <1>1, <1>2 DEF MediaReviewInv

(* A worker goes on to what it may; only who holds the lock writes the job.*)
LEMMA DeliveryGoes ==
  ASSUME MediaReviewInv, Settings, NEW d \in Deliverers, NEW r \in DeliveryRows \cup {NoDelivery},
         delivery' = [delivery EXCEPT ![d] = r],
         jobOf' \in [AudioAssets -> Origins \cup {NoReview}],
         jobOf' = jobOf \/ holder = d,
         holder' = holder \/ holder \in {d, NoReview},
         \A a \in AudioAssets, v \in ReviewVersions :
           r.step # "idle" /\ r.asset = a /\ r.version = v =>
             Justified(d, r, reviews[<<a, v>>], holder', jobOf'[a])
  PROVE  MediaReviewInv'
<1>1. UNCHANGED <<origin, reviews, look>>
  BY DEF Settings
<1>2. /\ delivery' \in [Deliverers -> DeliveryRows \cup {NoDelivery}] /\ delivery'[d] = r
      /\ \A q \in Deliverers : q # d => delivery'[q] = delivery[q]
  BY DEF MediaReviewInv
<1>3. ASSUME NEW q \in Deliverers, NEW a \in AudioAssets, NEW v \in ReviewVersions,
             delivery'[q].step # "idle", delivery'[q].asset = a, delivery'[q].version = v
      PROVE  Justified(q, delivery'[q], reviews[<<a, v>>], holder', jobOf'[a])
  <2>1. CASE q = d
    BY <1>2, <1>3, <2>1
  <2>2. CASE q # d
    <3>1. delivery'[q] = delivery[q] /\ Justified(q, delivery[q], reviews[<<a, v>>], holder, jobOf[a])
      BY <1>2, <1>3, <2>2 DEF MediaReviewInv
    <3>2. CASE delivery[q].step \in Locking
      <4>1. holder = q
        BY <3>1, <3>2 DEF Justified
      <4>2. holder' = q /\ jobOf' = jobOf
        BY <2>2, <4>1, MediaReviewAssumption
      <4> QED
        BY <3>1, <4>1, <4>2
    <3>3. CASE delivery[q].step \notin Locking
      BY <3>1, <3>3 DEF Justified, Locking
    <3> QED
      BY <3>2, <3>3
  <2> QED
    BY <2>1, <2>2
<1> QED
  BY <1>1, <1>2, <1>3 DEF MediaReviewInv

(* What is known of a worker that is at work. *)
LEMMA DeliveryIs ==
  ASSUME MediaReviewInv, NEW d \in Deliverers, delivery[d].step # "idle"
  PROVE  /\ delivery[d] \in DeliveryRows
         /\ \E a \in AudioAssets, v \in ReviewVersions :
              /\ delivery[d].asset = a /\ delivery[d].version = v
              /\ Review(d) = reviews[<<a, v>>] /\ JobKey(d) = a
              /\ reviews[<<a, v>>] \in ReviewRows \cup {NoReview}
              /\ Justified(d, delivery[d], reviews[<<a, v>>], holder, jobOf[a])
<1>1. delivery[d] \in DeliveryRows
  BY DEF MediaReviewInv, NoDelivery
<1>2. PICK a \in AudioAssets, v \in ReviewVersions : delivery[d].asset = a /\ delivery[d].version = v
  BY <1>1 DEF DeliveryRows
<1>3. Review(d) = reviews[<<a, v>>] /\ JobKey(d) = a
  BY <1>2 DEF Review, JobKey
<1>4. <<a, v>> \in AudioAssets \X ReviewVersions
  OBVIOUS
<1>5. reviews[<<a, v>>] \in ReviewRows \cup {NoReview}
  BY <1>4 DEF MediaReviewInv
<1>6. Justified(d, delivery[d], reviews[<<a, v>>], holder, jobOf[a])
  BY <1>2 DEF MediaReviewInv
<1> QED
  BY <1>1, <1>2, <1>3, <1>5, <1>6

LEMMA StepIs ==
  ASSUME NEW x \in DeliveryRows, NEW s \in Locking \cup {"canonical", "sign", "signed", "lock"}
  PROVE  /\ [x EXCEPT !.step = s] \in DeliveryRows /\ [x EXCEPT !.step = s].step = s
         /\ [x EXCEPT !.step = s].asset = x.asset /\ [x EXCEPT !.step = s].version = x.version
         /\ [x EXCEPT !.step = s].url = x.url /\ [x EXCEPT !.step = s].before = x.before
  BY DEF DeliveryRows

LEMMA QuitKeeps ==
  ASSUME MediaReviewInv, NEW d \in Deliverers, Quit(d), Settings, UNCHANGED jobOf
  PROVE  MediaReviewInv'
<1>1. NoDelivery.step = "idle"
  BY DEF NoDelivery
<1>2. jobOf' \in [AudioAssets -> Origins \cup {NoReview}]
  BY DEF MediaReviewInv
<1>3. delivery' = [delivery EXCEPT ![d] = NoDelivery] /\ (holder' = holder \/ holder = d)
  BY DEF Quit, Holds
<1> QED
  BY <1>1, <1>2, <1>3, DeliveryGoes

(* A worker goes on to step s, of which all is so that is to be. *)
LEMMA GoOnKeeps ==
  ASSUME MediaReviewInv, NEW d \in Deliverers, NEW s \in Locking \cup {"canonical", "sign", "signed", "lock"},
         delivery[d].step # "idle", GoOn(d, s), Settings, UNCHANGED holder,
         jobOf' \in [AudioAssets -> Origins \cup {NoReview}], jobOf' = jobOf \/ holder = d,
         \A a \in AudioAssets, v \in ReviewVersions :
           delivery[d].asset = a /\ delivery[d].version = v
             /\ Justified(d, delivery[d], reviews[<<a, v>>], holder, jobOf[a]) =>
               Justified(d, [delivery[d] EXCEPT !.step = s], reviews[<<a, v>>], holder, jobOf'[a])
  PROVE  MediaReviewInv'
<1>1. delivery[d] \in DeliveryRows
  BY DeliveryIs
<1>2. PICK r \in DeliveryRows :
        /\ r = [delivery[d] EXCEPT !.step = s]
        /\ r.asset = delivery[d].asset /\ r.version = delivery[d].version
  BY <1>1, StepIs
<1>3. delivery' = [delivery EXCEPT ![d] = r]
  BY <1>2 DEF GoOn
<1>4. ASSUME NEW a \in AudioAssets, NEW v \in ReviewVersions, r.asset = a, r.version = v
      PROVE  Justified(d, r, reviews[<<a, v>>], holder', jobOf'[a])
  <2>1. Justified(d, delivery[d], reviews[<<a, v>>], holder, jobOf[a])
    BY <1>2, <1>4 DEF MediaReviewInv
  <2> QED
    BY <1>2, <1>4, <2>1
<1> QED
  BY <1>2, <1>3, <1>4, DeliveryGoes

LEMMA ReviewSteps ==
  ASSUME MediaReviewInv,
         \/ \E r \in MediaReviewers :
              \/ \E a \in AudioAssets, v \in ReviewVersions : Look(r, a, v)
              \/ Approve(r) \/ Store(r)
         \/ \E a \in AudioAssets, v \in ReviewVersions : Revoke(a, v)
         \/ \E o \in Origins : Reconfigure(o)
  PROVE  MediaReviewInv'
<1>0. /\ origin \in Origins /\ look \in [MediaReviewers -> LookRows]
      /\ reviews \in [AudioAssets \X ReviewVersions -> ReviewRows \cup {NoReview}]
      /\ NoLook \in LookRows
  BY DEF MediaReviewInv, NoLook, LookRows
<1>1. ASSUME NEW r \in MediaReviewers, NEW a \in AudioAssets, NEW v \in ReviewVersions, Look(r, a, v)
      PROVE  MediaReviewInv'
  <2>1. PICK x \in LookRows : look' = [look EXCEPT ![r] = x]
    BY <1>0, <1>1 DEF Look, LookRows
  <2>2. look' \in [MediaReviewers -> LookRows] /\ UNCHANGED <<origin, reviews, deliveryVars>>
    BY <1>0, <1>1, <2>1 DEF Look
  <2> QED
    BY <1>0, <2>2, RowsGrow
<1>2. ASSUME NEW r \in MediaReviewers, Approve(r)
      PROVE  MediaReviewInv'
  <2>1. look[r].step = "shown" /\ look[r] \in LookRows
    BY <1>0, <1>2 DEF Approve
  <2>2. [look[r] EXCEPT !.step = "insert"] \in LookRows
    BY <2>1 DEF LookRows
  <2>3. look' \in [MediaReviewers -> LookRows] /\ UNCHANGED <<origin, reviews, deliveryVars>>
    BY <1>0, <1>2, <2>2 DEF Approve
  <2> QED
    BY <1>0, <2>3, RowsGrow
<1>3. ASSUME NEW r \in MediaReviewers, Store(r)
      PROVE  MediaReviewInv'
  <2>1. /\ look[r] \in [step : {"shown", "insert"}, asset : AudioAssets,
                        version : ReviewVersions, shown : Origins]
    BY <1>0, <1>3 DEF Store, LookRows
  <2>2. PICK a \in AudioAssets, v \in ReviewVersions, o \in Origins :
          look[r].asset = a /\ look[r].version = v /\ look[r].shown = o
    BY <2>1
  <2>3. NextAt(a) \in Nat
    BY NextAtIs
  <2>4. PICK p \in AudioAssets \X ReviewVersions : p = <<a, v>>
    OBVIOUS
  <2>5. PICK x \in ReviewRows : x = [shown |-> o, active |-> TRUE, at |-> NextAt(a)]
    BY <2>3 DEF ReviewRows
  <2>6. /\ reviews' = IF reviews[p] = NoReview THEN [reviews EXCEPT ![p] = x] ELSE reviews
        /\ look' = [look EXCEPT ![r] = NoLook] /\ UNCHANGED <<origin, deliveryVars>>
    BY <1>3, <2>2, <2>4, <2>5 DEF Store, Absent
  <2>7. look' \in [MediaReviewers -> LookRows]
    BY <1>0, <2>6
  <2>8. /\ reviews' \in [AudioAssets \X ReviewVersions -> ReviewRows \cup {NoReview}]
        /\ \A q \in AudioAssets \X ReviewVersions : reviews[q] # NoReview => reviews'[q] = reviews[q]
    BY <1>0, <2>6
  <2> QED
    BY <2>6, <2>7, <2>8, RowsGrow
<1>4. ASSUME NEW a \in AudioAssets, NEW v \in ReviewVersions, Revoke(a, v)
      PROVE  MediaReviewInv'
  <2>1. PICK p \in AudioAssets \X ReviewVersions : p = <<a, v>>
    OBVIOUS
  <2>2. /\ reviews[p] # NoReview /\ reviews[p] \in ReviewRows
        /\ UNCHANGED <<origin, look, deliveryVars>>
    BY <1>0, <1>4, <2>1 DEF Revoke
  <2>3. PICK x \in ReviewRows : x = [reviews[p] EXCEPT !.active = FALSE] /\ x.shown = reviews[p].shown
                                /\ x.active = FALSE
    <3> DEFINE x == [reviews[p] EXCEPT !.active = FALSE]
    <3>1. x \in ReviewRows
      BY <2>2 DEF ReviewRows
    <3>2. x.shown = reviews[p].shown /\ x.active = FALSE
      BY <2>2 DEF ReviewRows
    <3> QED
      BY <3>1, <3>2
  <2>4. reviews' = [reviews EXCEPT ![p] = x]
    BY <1>4, <2>1, <2>3 DEF Revoke
  <2>5. x # NoReview
    BY MediaReviewAssumption DEF ReviewRows
  <2>6. /\ reviews' \in [AudioAssets \X ReviewVersions -> ReviewRows \cup {NoReview}]
        /\ reviews'[p] = x
        /\ \A q \in AudioAssets \X ReviewVersions : q # p => reviews'[q] = reviews[q]
    BY <1>0, <2>4
  <2>7. ASSUME NEW q \in AudioAssets \X ReviewVersions, reviews[q] # NoReview
        PROVE  /\ reviews'[q] # NoReview /\ reviews'[q].shown = reviews[q].shown
               /\ reviews'[q].active => reviews[q].active
    BY <2>3, <2>5, <2>6, <2>7
  <2> QED
    BY <1>0, <2>2, <2>6, <2>7, RowsGrow
<1>5. ASSUME NEW o \in Origins, Reconfigure(o)
      PROVE  MediaReviewInv'
  <2>1. origin' = o /\ UNCHANGED <<reviews, look, delivery, jobOf, holder>>
    BY <1>5 DEF Reconfigure, deliveryVars
  <2> QED
    BY <2>1 DEF MediaReviewInv
<1> QED
  BY <1>1, <1>2, <1>3, <1>4, <1>5

LEMMA DeliverKeeps ==
  ASSUME MediaReviewInv, NEW d \in Deliverers, NEW a \in AudioAssets, NEW v \in ReviewVersions,
         NEW byHand \in BOOLEAN, Deliver(d, a, v, byHand)
  PROVE  MediaReviewInv'
<1>1. PICK r \in DeliveryRows : r.step = "canonical" /\ delivery' = [delivery EXCEPT ![d] = r]
  BY DEF Deliver, DeliveryRows, MediaReviewInv
<1>2. UNCHANGED <<jobOf, holder>> /\ Settings
  BY DEF Deliver
<1>3. \A j : Justified(d, r, j, holder, j)
  BY <1>1 DEF Justified, Locking
<1>4. \A x, h, j : Justified(d, r, x, h, j)
  BY <1>1 DEF Justified, Locking
<1>5. jobOf' \in [AudioAssets -> Origins \cup {NoReview}]
  BY <1>2 DEF MediaReviewInv
<1> QED
  BY <1>1, <1>2, <1>4, <1>5, DeliveryGoes

LEMMA AssertKeeps ==
  ASSUME MediaReviewInv, NEW d \in Deliverers, AssertDelivery(d)
  PROVE  MediaReviewInv'
<1>1. /\ delivery[d].step \in {"canonical", "signed", "enter", "create", "match"}
      /\ UNCHANGED jobOf /\ Settings
  BY DEF AssertDelivery, AfterAssert
<1>2. CASE Quit(d)
  BY <1>1, <1>2, QuitKeeps
<1>3. CASE Deliverable(d) /\ GoOn(d, AfterAssert[delivery[d].step]) /\ UNCHANGED holder
  <2>1. PICK s \in {"sign", "lock", "load", "insert", "matched"} :
          /\ s = AfterAssert[delivery[d].step]
          /\ s = "sign" => delivery[d].step = "canonical"
          /\ s = "lock" => delivery[d].step = "signed"
          /\ s = "load" => delivery[d].step = "enter"
          /\ s = "insert" => delivery[d].step = "create"
          /\ s = "matched" => delivery[d].step = "match"
    BY <1>1 DEF AfterAssert
  <2>2. delivery[d] \in DeliveryRows /\ delivery[d].step # "idle"
    BY <1>1, DeliveryIs
  <2>3. jobOf' \in [AudioAssets -> Origins \cup {NoReview}]
    BY <1>1 DEF MediaReviewInv
  <2>4. s \in Locking \cup {"canonical", "sign", "signed", "lock"}
    BY DEF Locking
  <2>5. ASSUME NEW a \in AudioAssets, NEW v \in ReviewVersions,
               delivery[d].asset = a, delivery[d].version = v,
               Justified(d, delivery[d], reviews[<<a, v>>], holder, jobOf[a])
        PROVE  Justified(d, [delivery[d] EXCEPT !.step = s], reviews[<<a, v>>], holder, jobOf'[a])
    <3>1. /\ reviews[<<a, v>>] # NoReview /\ reviews[<<a, v>>].active
          /\ reviews[<<a, v>>].shown = delivery[d].url
      BY <1>3, <2>5 DEF Deliverable, Found, Review
    <3> DEFINE r == [delivery[d] EXCEPT !.step = s]
    <3>2. r.step = s /\ r.url = delivery[d].url /\ r.before = delivery[d].before
      BY <2>2, <2>4, StepIs
    <3> HIDE DEF r
    <3> QED
      BY <2>1, <2>5, <3>1, <3>2 DEF Justified, Locking, r
  <2> QED
    BY <1>1, <1>3, <2>1, <2>2, <2>3, <2>4, <2>5, GoOnKeeps
<1> QED
  BY <1>2, <1>3 DEF AssertDelivery

LEMMA LockKeeps ==
  ASSUME MediaReviewInv, NEW d \in Deliverers, TakeLock(d)
  PROVE  MediaReviewInv'
<1>1. /\ delivery[d].step = "lock" /\ holder = NoReview /\ holder' = d /\ UNCHANGED jobOf /\ Settings
  BY DEF TakeLock
<1>2. PICK a \in AudioAssets, v \in ReviewVersions :
        /\ delivery[d].asset = a /\ delivery[d].version = v
        /\ Review(d) = reviews[<<a, v>>] /\ reviews[<<a, v>>] \in ReviewRows \cup {NoReview}
        /\ Justified(d, delivery[d], reviews[<<a, v>>], holder, jobOf[a])
  BY <1>1, DeliveryIs
<1>3. delivery[d] \in DeliveryRows
  BY <1>1, DeliveryIs
<1>4. reviews[<<a, v>>] # NoReview /\ reviews[<<a, v>>].shown = delivery[d].url
  BY <1>1, <1>2 DEF Justified
<1>5. PICK row \in ReviewRows : row = reviews[<<a, v>>] /\ row # NoReview
  BY <1>2, <1>4
<1>6. PICK r \in DeliveryRows :
        /\ r = [delivery[d] EXCEPT !.step = "enter", !.before = row]
        /\ r.step = "enter" /\ r.before = row /\ r.url = delivery[d].url
        /\ r.asset = a /\ r.version = v
  <2> DEFINE r == [delivery[d] EXCEPT !.step = "enter", !.before = row]
  <2>1. r \in DeliveryRows
    BY <1>3 DEF DeliveryRows, Locking
  <2>2. /\ r.step = "enter" /\ r.before = row /\ r.url = delivery[d].url
        /\ r.asset = a /\ r.version = v
    BY <1>2, <1>3 DEF DeliveryRows
  <2> QED
    BY <2>1, <2>2
<1>7. delivery' = [delivery EXCEPT ![d] = r]
  BY <1>2, <1>5, <1>6 DEF TakeLock
<1>8. Justified(d, r, row, d, jobOf'[a])
  BY <1>4, <1>5, <1>6 DEF Justified, Locking
<1>9. jobOf' \in [AudioAssets -> Origins \cup {NoReview}]
  BY <1>1 DEF MediaReviewInv
<1>10. \A b \in AudioAssets, w \in ReviewVersions : r.asset = b /\ r.version = w =>
         Justified(d, r, reviews[<<b, w>>], holder', jobOf'[b])
  BY <1>1, <1>5, <1>6, <1>8
<1> QED
  BY <1>1, <1>6, <1>7, <1>9, <1>10, DeliveryGoes

LEMMA DeliverySteps ==
  ASSUME MediaReviewInv, NEW d \in Deliverers,
         Sign(d) \/ LoadJob(d) \/ MatchJob(d) \/ CreateJob(d) \/ EndDelivery(d)
  PROVE  MediaReviewInv'
<1>0. Settings /\ jobOf \in [AudioAssets -> Origins \cup {NoReview}] /\ delivery[d].step # "idle"
  BY DEF MediaReviewInv, Sign, LoadJob, MatchJob, CreateJob, EndDelivery
<1>1. CASE Sign(d)
  <2>1. delivery[d].step = "sign" /\ GoOn(d, "signed") /\ UNCHANGED <<jobOf, holder>>
    BY <1>1 DEF Sign
  <2>2. ASSUME NEW row, NEW j, Justified(d, delivery[d], row, holder, j)
        PROVE  Justified(d, [delivery[d] EXCEPT !.step = "signed"], row, holder, j)
    <3>1. delivery[d] \in DeliveryRows
      BY <1>0, DeliveryIs
    <3> QED
      BY <2>1, <2>2, <3>1 DEF Justified, Locking, DeliveryRows
  <2>3. jobOf' \in [AudioAssets -> Origins \cup {NoReview}]
    BY <1>0, <2>1
  <2> QED
    BY <1>0, <2>1, <2>2, <2>3, GoOnKeeps
<1>2. CASE LoadJob(d)
  <2>1. PICK s \in {"create", "match"} : delivery[d].step = "load" /\ GoOn(d, s) /\ UNCHANGED <<jobOf, holder>>
    BY <1>2 DEF LoadJob
  <2>2. ASSUME NEW row, NEW j, Justified(d, delivery[d], row, holder, j)
        PROVE  Justified(d, [delivery[d] EXCEPT !.step = s], row, holder, j)
    <3>1. delivery[d] \in DeliveryRows
      BY <1>0, DeliveryIs
    <3> QED
      BY <2>1, <2>2, <3>1 DEF Justified, Locking, DeliveryRows
  <2>3. jobOf' \in [AudioAssets -> Origins \cup {NoReview}] /\ s \in Locking
    BY <1>0, <2>1 DEF Locking
  <2> QED
    BY <1>0, <2>1, <2>2, <2>3, GoOnKeeps
<1>3. CASE MatchJob(d)
  <2>1. CASE Quit(d)
    BY <1>0, <1>3, <2>1, QuitKeeps DEF MatchJob
  <2>2. CASE SameMedia(d) /\ GoOn(d, "send") /\ UNCHANGED holder
    <3>1. delivery[d].step = "matched" /\ UNCHANGED jobOf /\ delivery[d] \in DeliveryRows
      BY <1>0, <1>3, DeliveryIs DEF MatchJob
    <3>2. ASSUME NEW a \in AudioAssets, NEW v \in ReviewVersions,
                 delivery[d].asset = a, delivery[d].version = v,
                 Justified(d, delivery[d], reviews[<<a, v>>], holder, jobOf[a])
          PROVE  Justified(d, [delivery[d] EXCEPT !.step = "send"], reviews[<<a, v>>], holder, jobOf'[a])
      <4>1. jobOf[a] = reviews[<<a, v>>].shown
        BY <2>2, <3>2 DEF SameMedia, JobKey, Review
      <4> QED
        BY <3>1, <3>2, <4>1 DEF Justified, Locking, DeliveryRows
    <3>3. jobOf' \in [AudioAssets -> Origins \cup {NoReview}] /\ "send" \in Locking
      BY <1>0, <3>1 DEF Locking
    <3> QED
      BY <1>0, <2>2, <3>1, <3>2, <3>3, GoOnKeeps
  <2> QED
    BY <1>3, <2>1, <2>2 DEF MatchJob
<1>4. CASE CreateJob(d)
  <2>1. delivery[d].step = "insert" /\ GoOn(d, "send") /\ UNCHANGED holder /\ delivery[d] \in DeliveryRows
    BY <1>0, <1>4, DeliveryIs DEF CreateJob
  <2>2. PICK a \in AudioAssets, v \in ReviewVersions :
          /\ delivery[d].asset = a /\ delivery[d].version = v
          /\ Review(d) = reviews[<<a, v>>] /\ JobKey(d) = a
          /\ reviews[<<a, v>>] \in ReviewRows \cup {NoReview}
          /\ Justified(d, delivery[d], reviews[<<a, v>>], holder, jobOf[a])
    BY <1>0, DeliveryIs
  <2>3. /\ reviews[<<a, v>>] # NoReview /\ reviews[<<a, v>>].shown = delivery[d].url /\ holder = d
    BY <2>1, <2>2 DEF Justified, Locking
  <2>4. PICK o \in Origins : o = reviews[<<a, v>>].shown /\ o = delivery[d].url
    BY <2>2, <2>3 DEF ReviewRows
  <2>5. jobOf' = [jobOf EXCEPT ![a] = o]
    BY <1>4, <2>2, <2>4 DEF CreateJob
  <2>6. jobOf' \in [AudioAssets -> Origins \cup {NoReview}] /\ jobOf'[a] = o /\ "send" \in Locking
    BY <1>0, <2>5 DEF Locking
  <2>7. Justified(d, [delivery[d] EXCEPT !.step = "send"], reviews[<<a, v>>], holder, o)
    BY <2>1, <2>2, <2>3, <2>4 DEF Justified, Locking, DeliveryRows
  <2> QED
    BY <1>0, <2>1, <2>2, <2>3, <2>6, <2>7, GoOnKeeps
<1>5. CASE EndDelivery(d)
  BY <1>0, <1>5, QuitKeeps DEF EndDelivery
<1> QED
  BY <1>1, <1>2, <1>3, <1>4, <1>5

LEMMA MediaReviewSteps ==
  ASSUME MediaReviewInv, [MediaReviewNext]_mediaReviewVars
  PROVE  MediaReviewInv'
<1>1. CASE UNCHANGED mediaReviewVars
  BY <1>1 DEF mediaReviewVars, deliveryVars, MediaReviewInv
<1>2. CASE MediaReviewNext
  BY <1>2, ReviewSteps, DeliverKeeps, AssertKeeps, LockKeeps, DeliverySteps DEF MediaReviewNext
<1> QED
  BY <1>1, <1>2

LEMMA MediaReviewStarts == MediaReviewInit => MediaReviewInv
  BY DEF MediaReviewInit, MediaReviewInv, LookRows, NoLook, NoDelivery

(* Audio leaves under the origin approved for it, under the fingerprint of *)
(* its job, and by a review that was active when the worker took the lock, *)
(* whoever revokes, approves or reconfigures meanwhile                     *)
(* (media_review.py assert_reviewed_delivery).                             *)
THEOREM AudioGoesAsApproved == MediaReviewSpec => []DeliveredAsApproved
<1>1. MediaReviewInv => DeliveredAsApproved
  <2> SUFFICES ASSUME MediaReviewInv, NEW d \in Deliverers, delivery[d].step = "send"
               PROVE  /\ Review(d).shown = delivery[d].url
                      /\ jobOf[delivery[d].asset] = delivery[d].url
                      /\ delivery[d].before.active
    BY DEF DeliveredAsApproved
  <2>1. PICK a \in AudioAssets, v \in ReviewVersions :
          /\ delivery[d].asset = a /\ delivery[d].version = v
          /\ Review(d) = reviews[<<a, v>>]
          /\ Justified(d, delivery[d], reviews[<<a, v>>], holder, jobOf[a])
    BY DeliveryIs
  <2> QED
    BY <2>1 DEF Justified, Locking
<1> QED
  BY <1>1, MediaReviewStarts, MediaReviewSteps, PTL DEF MediaReviewSpec

-----------------------------------------------------------------------------
(* The review of evidence. The locks keep the approvals of one candidate,  *)
(* and those under one key, apart; what an approval names the parts have   *)
(* held together; and what is sent is what one of them names.              *)

BudgetRows ==
  [maxCost : Nat \cup {NoLimit}, maxRequests : Nat \cup {NoLimit}, spent : Nat, used : Nat,
   currency : STRING]
CandidateHeld == {"key", "begin", "read", "insert"}
KeyHeld == {"begin", "read", "insert"}
ApprovalRows ==
  [step : CandidateHeld \cup {"idle", "shown", "candidate"}, shown : Manifests \cup {NoRequest},
   key : Keys \cup {NoRequest}, stamp : Nat]
PartValues == UNION {ValuesOf[p] : p \in DOMAIN ValuesOf}
SendRows ==
  [step : {"idle", "assemble", "check", "send"}, request : Manifests \cup {NoRequest},
   read : Seq(PartValues), since : Nat]

(* Two approvals in progress.                                              *)
Apart(x, y) ==
  /\ x.step \in CandidateHeld /\ y.step \in CandidateHeld => x.shown # y.shown
  /\ x.step \in KeyHeld /\ y.step \in KeyHeld => x.key # y.key

(* An approval whose rows are A, where W is what the parts have held.      *)
ApprovalFits(x, A, W) ==
  /\ x.step # "idle" => x.shown.content \in W
  /\ x.step = "insert" => \A a \in A : a.key # x.key /\ a.manifest # x.shown

AnnotationFits(a, W) == a.stamp \in Nat /\ a.manifest.content \in W

(* A send with the bundle b, where the approvals are A.                    *)
SendFits(x, b, A) ==
  /\ x.step # "idle" => \E a \in A : a.manifest = x.request
  /\ x.step # "idle" => \E a \in A : a.stamp = x.since
  /\ x.step = "send" => b = x.request /\ \E a \in A : a.manifest = x.request /\ a.stamp >= x.since

ConsentInv ==
  /\ content \in Contents /\ (Fit(content) => content \in was)
  /\ review \in [Reviewers -> ApprovalRows] /\ send \in [Executors -> SendRows]
  /\ budget \in BudgetRows \cup {NoBudget}
  /\ IsFiniteSet(annotations) /\ \A a \in annotations : AnnotationFits(a, was)
  /\ \A r \in Reviewers : ApprovalFits(review[r], annotations, was)
  /\ \A q, r \in Reviewers : q # r => Apart(review[q], review[r])
  /\ \A e \in Executors : SendFits(send[e], Bundle(e), annotations)

LEMMA ApprovalGoes ==
  ASSUME ConsentInv, NEW r \in Reviewers, NEW x \in ApprovalRows, review' = [review EXCEPT ![r] = x],
         UNCHANGED <<content, annotations, send, budget, was>>,
         ApprovalFits(x, annotations, was),
         \A q \in Reviewers : q # r => Apart(x, review[q])
  PROVE  ConsentInv'
<1>1. /\ review' \in [Reviewers -> ApprovalRows] /\ review'[r] = x
      /\ \A q \in Reviewers : q # r => review'[q] = review[q]
  BY DEF ConsentInv
<1>2. \A q \in Reviewers : ApprovalFits(review'[q], annotations, was)
  BY <1>1 DEF ConsentInv
<1>3. \A p, q \in Reviewers : p # q => Apart(review'[p], review'[q])
  BY <1>1 DEF ConsentInv, Apart
<1>4. \A e \in Executors : Bundle(e)' = Bundle(e)
  BY DEF Bundle
<1> QED
  BY <1>1, <1>2, <1>3, <1>4 DEF ConsentInv

LEMMA SendGoes ==
  ASSUME ConsentInv, NEW e \in Executors, NEW x \in SendRows, send' = [send EXCEPT ![e] = x],
         UNCHANGED <<content, annotations, review, was>>, budget' \in BudgetRows \cup {NoBudget},
         SendFits(x, Bundle(e)', annotations)
  PROVE  ConsentInv'
<1>1. /\ send' \in [Executors -> SendRows] /\ send'[e] = x
      /\ \A f \in Executors : f # e => send'[f] = send[f]
  BY DEF ConsentInv
<1>2. \A f \in Executors : f # e => Bundle(f)' = Bundle(f)
  BY <1>1 DEF Bundle
<1>3. \A f \in Executors : SendFits(send'[f], Bundle(f)', annotations)
  BY <1>1, <1>2 DEF ConsentInv
<1> QED
  BY <1>1, <1>3 DEF ConsentInv

LEMMA LatestIs ==
  ASSUME ConsentInv, annotations # {}
  PROVE  Latest \in annotations /\ \A a \in annotations : a.stamp <= Latest.stamp
<1> DEFINE f == [a \in annotations |-> a.stamp]
           S == {f[a] : a \in annotations}
<1>1. IsFiniteSet(S)
  BY ImageIsFinite DEF ConsentInv
<1>2. \A a \in annotations : f[a] = a.stamp /\ a.stamp \in Nat
  BY DEF ConsentInv, AnnotationFits
<1>3. S \subseteq Nat /\ S # {}
  BY <1>2
<1>4. PICK m \in S : \A x \in S : x <= m
  BY <1>1, <1>3, Largest
<1>5. \E a \in annotations : \A b \in annotations : b.stamp <= a.stamp
  BY <1>2, <1>4
<1> QED
  BY <1>5 DEF Latest

LEMMA LastStampIs ==
  ASSUME ConsentInv
  PROVE  LastStamp \in Nat
<1> DEFINE f == [a \in annotations |-> a.stamp]
           g == [r \in Reviewers |-> review[r].stamp]
           A == {f[a] : a \in annotations}
           R == {g[r] : r \in Reviewers}
<1>1. A = {a.stamp : a \in annotations} /\ R = {review[r].stamp : r \in Reviewers}
  OBVIOUS
<1>2. IsFiniteSet(A) /\ IsFiniteSet(R)
  BY ImageIsFinite, ReviewAssumption DEF ConsentInv
<1>3. A \subseteq Nat /\ R \subseteq Nat
  BY DEF ConsentInv, AnnotationFits, ApprovalRows
<1> HIDE DEF A, R
<1>4. IsFiniteSet({0}) /\ IsFiniteSet({0} \cup A)
  BY <1>2, FS_Singleton, FS_Union
<1>5. IsFiniteSet({0} \cup A \cup R)
  BY <1>2, <1>4, FS_Union
<1>6. Max({0} \cup A \cup R) \in Nat
  <2> DEFINE S == {0} \cup A \cup R
  <2>1. S \subseteq Nat /\ S # {}
    BY <1>3
  <2> HIDE DEF S
  <2>2. Max(S) \in S
    BY <1>5, <2>1, MaxIs DEF S
  <2> QED
    BY <2>1, <2>2 DEF S
<1> QED
  BY <1>1, <1>6 DEF LastStamp

LEMMA ApprovalStepIs ==
  ASSUME ConsentInv, NEW r \in Reviewers, NEW s \in CandidateHeld \cup {"shown", "candidate"}
  PROVE  \E x \in ApprovalRows :
           /\ x = [review[r] EXCEPT !.step = s]
           /\ x.step = s /\ x.shown = review[r].shown /\ x.key = review[r].key
<1> DEFINE x == [review[r] EXCEPT !.step = s]
<1>1. review[r] \in ApprovalRows
  BY DEF ConsentInv
<1>2. x \in ApprovalRows /\ x.step = s /\ x.shown = review[r].shown /\ x.key = review[r].key
  BY <1>1 DEF ApprovalRows
<1> QED
  BY <1>2

LEMMA ApprovalSteps ==
  ASSUME ConsentInv, NEW r \in Reviewers,
         \/ \E v \in Versions : Prepare(r, v)
         \/ \E k \in Keys : Submit(r, k)
         \/ LockCandidate(r) \/ LockKey(r) \/ Begin(r) \/ Read(r) \/ Abandon(r)
  PROVE  ConsentInv'
<1>0. /\ UNCHANGED <<content, annotations, send, budget, was>>
      /\ review[r] \in ApprovalRows /\ ApprovalFits(review[r], annotations, was)
      /\ \A q \in Reviewers : q # r => Apart(review[r], review[q])
      /\ content \in Contents /\ (Fit(content) => content \in was)
  BY DEF ConsentInv, Prepare, Submit, LockCandidate, LockKey, Begin, Read, Abandon, To
<1>1. ASSUME NEW v \in Versions, Prepare(r, v)
      PROVE  ConsentInv'
  <2>1. Fit(content)
    BY <1>1 DEF Prepare
  <2>2. PICK m \in Manifests : m = Manifest(content, v) /\ m.content \in was
    <3>1. Manifest(content, v) \in Manifests
      <4>1. content \in {d \in Contents : Fit(d)}
        BY <1>0, <2>1
      <4> QED
        BY <4>1 DEF Manifests
    <3>2. Manifest(content, v).content = content
      BY DEF Manifest
    <3> QED
      BY <1>0, <2>1, <3>1, <3>2
  <2>3. PICK x \in ApprovalRows : /\ x = [IdleReview EXCEPT !.step = "shown", !.shown = m]
                                  /\ x.step = "shown" /\ x.shown = m
    <3> DEFINE x == [IdleReview EXCEPT !.step = "shown", !.shown = m]
    <3>1. x \in ApprovalRows
      BY DEF IdleReview, ApprovalRows, CandidateHeld
    <3>2. x.step = "shown" /\ x.shown = m
      BY DEF IdleReview
    <3> QED
      BY <3>1, <3>2
  <2>4. review' = [review EXCEPT ![r] = x]
    BY <1>1, <2>2, <2>3 DEF Prepare
  <2>5. ApprovalFits(x, annotations, was) /\ \A q \in Reviewers : Apart(x, review[q])
    BY <2>2, <2>3 DEF ApprovalFits, Apart, CandidateHeld, KeyHeld
  <2> QED
    BY <1>0, <2>3, <2>4, <2>5, ApprovalGoes
<1>2. ASSUME NEW k \in Keys, Submit(r, k)
      PROVE  ConsentInv'
  <2>1. PICK x \in ApprovalRows : /\ x = [review[r] EXCEPT !.step = "candidate", !.key = k]
                                  /\ x.step = "candidate" /\ x.shown = review[r].shown
    <3> DEFINE x == [review[r] EXCEPT !.step = "candidate", !.key = k]
    <3>1. x \in ApprovalRows
      BY <1>0 DEF ApprovalRows, CandidateHeld
    <3>2. x.step = "candidate" /\ x.shown = review[r].shown
      BY <1>0 DEF ApprovalRows
    <3> QED
      BY <3>1, <3>2
  <2>2. review' = [review EXCEPT ![r] = x] /\ review[r].step = "shown"
    BY <1>2, <2>1 DEF Submit, Step
  <2>3. ApprovalFits(x, annotations, was) /\ \A q \in Reviewers : Apart(x, review[q])
    BY <1>0, <2>1, <2>2 DEF ApprovalFits, Apart, CandidateHeld, KeyHeld
  <2> QED
    BY <1>0, <2>1, <2>2, <2>3, ApprovalGoes
<1>3. CASE LockCandidate(r)
  <2>1. PICK x \in ApprovalRows : /\ x = [review[r] EXCEPT !.step = "key"]
                                  /\ x.step = "key" /\ x.shown = review[r].shown
    BY ApprovalStepIs DEF CandidateHeld
  <2>2. review' = [review EXCEPT ![r] = x] /\ review[r].step = "candidate"
    BY <1>3, <2>1 DEF LockCandidate, To, Step
  <2>3. \A q \in Reviewers : q # r /\ review[q].step \in CandidateHeld => review[q].shown # x.shown
    BY <1>3, <2>1 DEF LockCandidate, Free, Step, CandidateHeld
  <2>4. ApprovalFits(x, annotations, was)
    BY <1>0, <2>1, <2>2 DEF ApprovalFits
  <2>5. \A q \in Reviewers : q # r => Apart(x, review[q])
    BY <2>1, <2>3 DEF Apart, KeyHeld
  <2> QED
    BY <1>0, <2>1, <2>2, <2>4, <2>5, ApprovalGoes
<1>4. CASE LockKey(r)
  <2>1. PICK x \in ApprovalRows : /\ x = [review[r] EXCEPT !.step = "begin"]
                                  /\ x.step = "begin" /\ x.shown = review[r].shown
                                  /\ x.key = review[r].key
    BY ApprovalStepIs DEF CandidateHeld
  <2>2. review' = [review EXCEPT ![r] = x] /\ review[r].step = "key"
    BY <1>4, <2>1 DEF LockKey, To, Step
  <2>3. \A q \in Reviewers : q # r /\ review[q].step \in KeyHeld => review[q].key # x.key
    BY <1>4, <2>1 DEF LockKey, Free, Step, KeyHeld
  <2>4. ApprovalFits(x, annotations, was)
    BY <1>0, <2>1, <2>2 DEF ApprovalFits
  <2>5. \A q \in Reviewers : q # r => Apart(x, review[q])
    BY <1>0, <2>1, <2>2, <2>3 DEF Apart, CandidateHeld
  <2> QED
    BY <1>0, <2>1, <2>2, <2>4, <2>5, ApprovalGoes
<1>5. CASE Begin(r)
  <2>1. PICK n \in Nat : n = LastStamp + 1
    BY LastStampIs
  <2>2. PICK x \in ApprovalRows : /\ x = [review[r] EXCEPT !.step = "read", !.stamp = n]
                                  /\ x.step = "read" /\ x.shown = review[r].shown
                                  /\ x.key = review[r].key
    <3> DEFINE x == [review[r] EXCEPT !.step = "read", !.stamp = n]
    <3>1. x \in ApprovalRows
      BY <1>0 DEF ApprovalRows, CandidateHeld
    <3>2. x.step = "read" /\ x.shown = review[r].shown /\ x.key = review[r].key
      BY <1>0 DEF ApprovalRows
    <3> QED
      BY <3>1, <3>2
  <2>3. review' = [review EXCEPT ![r] = x] /\ review[r].step = "begin"
    BY <1>5, <2>1, <2>2 DEF Begin, Step
  <2>4. ApprovalFits(x, annotations, was)
    BY <1>0, <2>2, <2>3 DEF ApprovalFits
  <2>5. \A q \in Reviewers : q # r => Apart(x, review[q])
    BY <1>0, <2>2, <2>3 DEF Apart, CandidateHeld, KeyHeld
  <2> QED
    BY <1>0, <2>2, <2>3, <2>4, <2>5, ApprovalGoes
<1>6. CASE Read(r)
  <2>0. review[r].step = "read"
    BY <1>6 DEF Read, Step
  <2>1. CASE ByKey(review[r].key) = {} /\ ByCandidate(review[r].shown) = {} /\ To(r, "insert")
    <3>1. PICK x \in ApprovalRows : /\ x = [review[r] EXCEPT !.step = "insert"]
                                    /\ x.step = "insert" /\ x.shown = review[r].shown
                                    /\ x.key = review[r].key
      BY ApprovalStepIs DEF CandidateHeld
    <3>2. review' = [review EXCEPT ![r] = x]
      BY <2>1, <3>1 DEF To
    <3>3. \A a \in annotations : a.key # x.key /\ a.manifest # x.shown
      BY <2>1, <3>1 DEF ByKey, ByCandidate
    <3>4. ApprovalFits(x, annotations, was)
      BY <1>0, <2>0, <3>1, <3>3 DEF ApprovalFits
    <3>5. \A q \in Reviewers : q # r => Apart(x, review[q])
      BY <1>0, <2>0, <3>1 DEF Apart, CandidateHeld, KeyHeld
    <3> QED
      BY <1>0, <3>1, <3>2, <3>4, <3>5, ApprovalGoes
  <2>2. CASE review' = [review EXCEPT ![r].step = "shown", ![r].stamp = 0]
    <3>1. PICK x \in ApprovalRows : /\ x = [review[r] EXCEPT !.step = "shown", !.stamp = 0]
                                    /\ x.step = "shown" /\ x.shown = review[r].shown
      <4> DEFINE x == [review[r] EXCEPT !.step = "shown", !.stamp = 0]
      <4>1. x \in ApprovalRows
        BY <1>0 DEF ApprovalRows, CandidateHeld
      <4>2. x.step = "shown" /\ x.shown = review[r].shown
        BY <1>0 DEF ApprovalRows
      <4> QED
        BY <4>1, <4>2
    <3>2. review' = [review EXCEPT ![r] = x]
      BY <2>2, <3>1
    <3>3. ApprovalFits(x, annotations, was) /\ \A q \in Reviewers : Apart(x, review[q])
      BY <1>0, <2>0, <3>1 DEF ApprovalFits, Apart, CandidateHeld, KeyHeld
    <3> QED
      BY <1>0, <3>1, <3>2, <3>3, ApprovalGoes
  <2> QED
    BY <1>6, <2>1, <2>2 DEF Read
<1>7. CASE Abandon(r)
  <2>1. IdleReview \in ApprovalRows /\ IdleReview.step = "idle"
    BY DEF IdleReview, ApprovalRows
  <2>2. review' = [review EXCEPT ![r] = IdleReview]
    BY <1>7 DEF Abandon
  <2>3. ApprovalFits(IdleReview, annotations, was) /\ \A q \in Reviewers : Apart(IdleReview, review[q])
    BY <2>1 DEF ApprovalFits, Apart, CandidateHeld, KeyHeld
  <2> QED
    BY <1>0, <2>1, <2>2, <2>3, ApprovalGoes
<1> QED
  BY <1>1, <1>2, <1>3, <1>4, <1>5, <1>6, <1>7

(* The insert adds one approval that no other has the key or the candidate *)
(* of: those that are about to insert hold other locks.                    *)
LEMMA InsertKeeps ==
  ASSUME ConsentInv, NEW r \in Reviewers, Insert(r)
  PROVE  ConsentInv'
<1>1. /\ UNCHANGED <<content, send, budget, was>> /\ review[r].step = "insert"
      /\ review[r] \in ApprovalRows /\ ApprovalFits(review[r], annotations, was)
      /\ IsFiniteSet(annotations) /\ \A a \in annotations : AnnotationFits(a, was)
  BY DEF ConsentInv, Insert, Step
<1>2. PICK n \in [stamp : Nat, key : Keys \cup {NoRequest}, manifest : Manifests \cup {NoRequest}] :
        /\ n = [stamp |-> review[r].stamp, key |-> review[r].key, manifest |-> review[r].shown]
        /\ n.stamp = review[r].stamp /\ n.key = review[r].key /\ n.manifest = review[r].shown
  <2> DEFINE n == [stamp |-> review[r].stamp, key |-> review[r].key, manifest |-> review[r].shown]
  <2>1. n \in [stamp : Nat, key : Keys \cup {NoRequest}, manifest : Manifests \cup {NoRequest}]
    BY <1>1 DEF ApprovalRows
  <2> QED
    BY <2>1
<1>3. annotations' \subseteq annotations \cup {n} /\ annotations \subseteq annotations'
  BY <1>2 DEF Insert
<1>4. IsFiniteSet(annotations')
  BY <1>1, <1>3, FS_AddElement, FS_Subset
<1>5. AnnotationFits(n, was)
  BY <1>1, <1>2 DEF AnnotationFits, ApprovalFits
<1>6. \A a \in annotations' : AnnotationFits(a, was)
  BY <1>1, <1>3, <1>5
<1>7. PICK x \in ApprovalRows : /\ x = [review[r] EXCEPT !.step = "shown", !.stamp = 0]
                                /\ x.step = "shown" /\ x.shown = review[r].shown
  <2> DEFINE x == [review[r] EXCEPT !.step = "shown", !.stamp = 0]
  <2>1. x \in ApprovalRows
    BY <1>1 DEF ApprovalRows, CandidateHeld
  <2>2. x.step = "shown" /\ x.shown = review[r].shown
    BY <1>1 DEF ApprovalRows
  <2> QED
    BY <2>1, <2>2
<1>8. /\ review' = [review EXCEPT ![r] = x] /\ review' \in [Reviewers -> ApprovalRows]
      /\ review'[r] = x /\ \A q \in Reviewers : q # r => review'[q] = review[q]
  BY <1>7 DEF Insert, ConsentInv
<1>9. \A q \in Reviewers : ApprovalFits(review'[q], annotations', was)
  <2>1. ApprovalFits(x, annotations', was)
    BY <1>1, <1>7 DEF ApprovalFits
  <2>2. ASSUME NEW q \in Reviewers, q # r
        PROVE  ApprovalFits(review[q], annotations', was)
    <3>1. ApprovalFits(review[q], annotations, was) /\ Apart(review[q], review[r])
      BY <2>2 DEF ConsentInv
    <3>2. review[q].step = "insert" => n.key # review[q].key /\ n.manifest # review[q].shown
      BY <1>1, <1>2, <3>1 DEF Apart, CandidateHeld, KeyHeld
    <3> QED
      BY <1>3, <3>1, <3>2 DEF ApprovalFits
  <2> QED
    BY <1>8, <2>1, <2>2
<1>10. \A p, q \in Reviewers : p # q => Apart(review'[p], review'[q])
  <2>1. \A q \in Reviewers : Apart(x, review[q]) /\ Apart(review[q], x)
    BY <1>7 DEF Apart, CandidateHeld, KeyHeld
  <2>2. \A p, q \in Reviewers : p # q => Apart(review[p], review[q])
    BY DEF ConsentInv
  <2> QED
    BY <1>8, <2>1, <2>2
<1>11. \A e \in Executors : SendFits(send'[e], Bundle(e)', annotations')
  <2>1. \A e \in Executors : Bundle(e)' = Bundle(e)
    BY <1>1 DEF Bundle
  <2>2. \A e \in Executors : SendFits(send[e], Bundle(e), annotations)
    BY DEF ConsentInv
  <2> QED
    BY <1>1, <1>3, <2>1, <2>2 DEF SendFits
<1> QED
  BY <1>1, <1>4, <1>6, <1>8, <1>9, <1>10, <1>11 DEF ConsentInv

LEMMA RewriteKeeps ==
  ASSUME ConsentInv, NEW p \in DOMAIN ValuesOf, NEW x \in ValuesOf[p], Rewrite(p, x)
  PROVE  ConsentInv'
<1>1. UNCHANGED <<annotations, review, send, budget>> /\ was \subseteq was' /\ (Fit(content') => content' \in was')
  BY DEF Rewrite
<1>2. content' \in Contents
  BY DEF ConsentInv, Contents, Rewrite
<1>3. (Fit(content) => content \in was)'
  BY <1>1 DEF Fit
<1>4. \A a \in annotations : AnnotationFits(a, was')
  BY <1>1 DEF ConsentInv, AnnotationFits
<1>5. \A r \in Reviewers : ApprovalFits(review[r], annotations, was')
  BY <1>1 DEF ConsentInv, ApprovalFits
<1>6. \A e \in Executors : SendFits(send[e], Bundle(e)', annotations)
  BY <1>1 DEF ConsentInv, Bundle
<1> QED
  BY <1>1, <1>2, <1>3, <1>4, <1>5, <1>6 DEF ConsentInv

(* An executor that goes back to idle, whatever it has booked.             *)
LEMMA SendEnds ==
  ASSUME ConsentInv, NEW e \in Executors, send' = [send EXCEPT ![e] = IdleSend],
         UNCHANGED <<content, annotations, review, was>>, budget' \in BudgetRows \cup {NoBudget}
  PROVE  ConsentInv'
<1>1. IdleSend \in SendRows /\ IdleSend.step = "idle"
  BY DEF IdleSend, SendRows
<1>2. SendFits(IdleSend, Bundle(e)', annotations)
  BY <1>1 DEF SendFits
<1> QED
  BY <1>1, <1>2, SendGoes

LEMMA SendSteps ==
  ASSUME ConsentInv, NEW e \in Executors,
         \/ \E m \in Manifests : Request(e, m)
         \/ Refuse(e) \/ ReadPart(e) \/ AssertReview(e) \/ AssertAgain(e)
         \/ \E est \in Estimates : Send(e, est)
  PROVE  ConsentInv'
<1>0. /\ send[e] \in SendRows /\ SendFits(send[e], Bundle(e), annotations)
      /\ budget \in BudgetRows \cup {NoBudget} /\ content \in Contents
      /\ \A a \in annotations : a.stamp \in Nat
  BY DEF ConsentInv, AnnotationFits
<1>1. ASSUME NEW m \in Manifests, Request(e, m)
      PROVE  ConsentInv'
  <2>1. Latest \in annotations /\ \E a \in annotations : a.manifest = m
    BY <1>1, LatestIs DEF Request
  <2>2. PICK s \in Nat : s = Latest.stamp
    BY <1>0, <2>1
  <2>3. PICK x \in SendRows :
          /\ x = [IdleSend EXCEPT !.step = "assemble", !.request = m, !.since = s]
          /\ x.step = "assemble" /\ x.request = m /\ x.since = s
    <3> DEFINE x == [IdleSend EXCEPT !.step = "assemble", !.request = m, !.since = s]
    <3>1. x \in SendRows
      <4>1. IdleSend \in SendRows
        BY DEF IdleSend, SendRows
      <4> QED
        BY <4>1 DEF SendRows
    <3>2. x.step = "assemble" /\ x.request = m /\ x.since = s
      BY DEF IdleSend
    <3> QED
      BY <3>1, <3>2
  <2>4. send' = [send EXCEPT ![e] = x] /\ UNCHANGED <<content, annotations, review, budget, was>>
    BY <1>1, <2>2, <2>3 DEF Request
  <2>5. SendFits(x, Bundle(e)', annotations)
    BY <2>1, <2>2, <2>3 DEF SendFits
  <2> QED
    BY <1>0, <2>3, <2>4, <2>5, SendGoes
<1>2. CASE Refuse(e)
  BY <1>0, <1>2, SendEnds DEF Refuse
<1>3. CASE ReadPart(e)
  <2> DEFINE p == Parts[Len(send[e].read) + 1]
  <2>0. UNCHANGED <<content, annotations, review, budget, was>> /\ send[e].step = "assemble"
    BY <1>3 DEF ReadPart
  <2>1. CASE content[p] = Unfit
    BY <1>0, <1>3, <2>0, <2>1, SendEnds DEF ReadPart
  <2>2. CASE content[p] # Unfit
    <3>1. p \in DOMAIN ValuesOf
      <4>1. Len(send[e].read) \in Nat /\ Len(send[e].read) < Len(Parts)
        BY <1>0, <1>3 DEF ReadPart, SendRows
      <4>2. Len(send[e].read) + 1 \in 1..Len(Parts)
        BY <4>1, ReviewAssumption
      <4> QED
        BY <4>2, ReviewAssumption
    <3>2. PICK v \in PartValues : v = content[p]
      BY <1>0, <3>1 DEF Contents, PartValues
    <3>3. PICK l \in Seq(PartValues) : l = Append(send[e].read, v)
      <4>1. send[e].read \in Seq(PartValues)
        BY <1>0 DEF SendRows
      <4>2. Append(send[e].read, v) \in Seq(PartValues)
        BY <3>2, <4>1, AppendProperties
      <4> QED
        BY <4>2
    <3>4. PICK x \in SendRows :
            /\ x = [send[e] EXCEPT !.read = l]
            /\ x.step = "assemble" /\ x.request = send[e].request /\ x.since = send[e].since
      <4> DEFINE x == [send[e] EXCEPT !.read = l]
      <4>1. x \in SendRows
        BY <1>0 DEF SendRows
      <4>2. x.step = "assemble" /\ x.request = send[e].request /\ x.since = send[e].since
        BY <1>0, <2>0 DEF SendRows
      <4> QED
        BY <4>1, <4>2
    <3>5. send' = [send EXCEPT ![e] = x]
      BY <1>3, <2>2, <3>2, <3>3, <3>4 DEF ReadPart
    <3>6. SendFits(x, Bundle(e)', annotations)
      BY <1>0, <2>0, <3>4 DEF SendFits
    <3> QED
      BY <1>0, <2>0, <3>4, <3>5, <3>6, SendGoes
  <2> QED
    BY <2>1, <2>2
<1>4. CASE AssertReview(e)
  <2>0. UNCHANGED <<content, annotations, review, budget, was>> /\ send[e].step = "assemble"
    BY <1>4 DEF AssertReview
  <2>1. PICK x \in SendRows :
          /\ x = [send[e] EXCEPT !.step = "check"]
          /\ x.step = "check" /\ x.request = send[e].request /\ x.since = send[e].since
    <3> DEFINE x == [send[e] EXCEPT !.step = "check"]
    <3>1. x \in SendRows
      BY <1>0 DEF SendRows
    <3>2. x.step = "check" /\ x.request = send[e].request /\ x.since = send[e].since
      BY <1>0 DEF SendRows
    <3> QED
      BY <3>1, <3>2
  <2>2. SendFits(x, Bundle(e)', annotations)
    BY <1>0, <2>0, <2>1 DEF SendFits
  <2>3. send' = [send EXCEPT ![e] = x] \/ send' = [send EXCEPT ![e] = IdleSend]
    BY <1>4, <2>1 DEF AssertReview
  <2> QED
    BY <1>0, <2>0, <2>1, <2>2, <2>3, SendGoes, SendEnds
<1>5. CASE AssertAgain(e)
  <2>0. UNCHANGED <<content, annotations, review, budget, was>> /\ send[e].step = "check"
    BY <1>5 DEF AssertAgain
  <2>1. CASE ~(Matches(e) /\ Reviewed(Bundle(e)))
    BY <1>0, <1>5, <2>0, <2>1, SendEnds DEF AssertAgain
  <2>2. CASE Matches(e) /\ Reviewed(Bundle(e))
    <3>1. PICK x \in SendRows :
            /\ x = [send[e] EXCEPT !.step = "send"] /\ x.step = "send" /\ x.read = send[e].read
            /\ x.request = send[e].request /\ x.since = send[e].since
      <4> DEFINE x == [send[e] EXCEPT !.step = "send"]
      <4>1. x \in SendRows
        BY <1>0 DEF SendRows
      <4>2. /\ x.step = "send" /\ x.read = send[e].read
            /\ x.request = send[e].request /\ x.since = send[e].since
        BY <1>0 DEF SendRows
      <4> QED
        BY <4>1, <4>2
    <3>2. send' = [send EXCEPT ![e] = x]
      BY <1>5, <2>2, <3>1 DEF AssertAgain
    <3>3. send'[e] = x
      BY <3>2 DEF ConsentInv
    <3>4. Bundle(e)' = Bundle(e)
      BY <3>1, <3>3 DEF Bundle
    <3>5. Latest \in annotations /\ Latest.manifest = x.request /\ Latest.stamp >= x.since
      <4>1. Latest \in annotations /\ \A a \in annotations : a.stamp <= Latest.stamp
        BY <2>2, LatestIs DEF Reviewed
      <4>2. \E a \in annotations : a.stamp = send[e].since
        BY <1>0, <2>0 DEF SendFits
      <4>3. Latest.manifest = x.request
        BY <2>2, <3>1 DEF Reviewed, Matches
      <4>4. Latest.stamp \in Nat /\ x.since \in Nat /\ x.since <= Latest.stamp
        BY <1>0, <3>1, <4>1, <4>2
      <4> QED
        BY <4>1, <4>3, <4>4
    <3>6. Bundle(e) = x.request /\ \E a \in annotations : a.manifest = x.request
      BY <2>2, <3>1, <3>5 DEF Matches
    <3>7. \E a \in annotations : a.stamp = x.since
      BY <1>0, <2>0, <3>1 DEF SendFits
    <3>8. SendFits(x, Bundle(e)', annotations)
      BY <3>1, <3>4, <3>5, <3>6, <3>7 DEF SendFits
    <3> QED
      BY <1>0, <2>0, <3>1, <3>2, <3>8, SendGoes
  <2> QED
    BY <2>1, <2>2
<1>6. ASSUME NEW est \in Estimates, Send(e, est)
      PROVE  ConsentInv'
  <2>0. Price(est) \in Nat
    BY ReviewAssumption DEF Price
  <2>1. budget' \in BudgetRows \cup {NoBudget}
    <3>1. CASE Reservable(est)
      <4>1. budget \in BudgetRows
        BY <1>0, <3>1 DEF Reservable
      <4>2. budget.used + 1 \in Nat /\ budget.spent + Price(est) \in Nat
        BY <2>0, <4>1 DEF BudgetRows
      <4>3. [budget EXCEPT !.used = @ + 1, !.spent = @ + Price(est)] \in BudgetRows
        BY <4>1, <4>2 DEF BudgetRows
      <4> QED
        BY <1>6, <3>1, <4>3 DEF Send
    <3>2. CASE ~Reservable(est)
      BY <1>0, <1>6, <3>2 DEF Send
    <3> QED
      BY <3>1, <3>2
  <2> QED
    BY <1>0, <1>6, <2>1, SendEnds DEF Send
<1> QED
  BY <1>1, <1>2, <1>3, <1>4, <1>5, <1>6

LEMMA ConsentSteps ==
  ASSUME ConsentInv, [Next]_vars
  PROVE  ConsentInv'
<1>1. CASE UNCHANGED vars
  <2>1. \A e \in Executors : Bundle(e)' = Bundle(e)
    BY <1>1 DEF vars, Bundle
  <2>2. UNCHANGED <<content, annotations, review, send, budget, was>>
    BY <1>1 DEF vars
  <2> QED
    BY <2>1, <2>2 DEF ConsentInv
<1>2. CASE Next
  BY <1>2, ApprovalSteps, InsertKeeps, SendSteps, RewriteKeeps DEF Next
<1> QED
  BY <1>1, <1>2

LEMMA ConsentStarts == Init => ConsentInv
<1> SUFFICES ASSUME Init PROVE ConsentInv
  OBVIOUS
<1>1. IdleReview \in ApprovalRows /\ IdleSend \in SendRows
  BY DEF IdleReview, ApprovalRows, IdleSend, SendRows
<1>2. /\ review \in [Reviewers -> ApprovalRows] /\ send \in [Executors -> SendRows]
      /\ \A r \in Reviewers : review[r].step = "idle"
      /\ \A e \in Executors : send[e].step = "idle"
  BY <1>1 DEF Init, IdleReview, IdleSend
<1>3. budget \in BudgetRows \cup {NoBudget}
  BY ReviewAssumption DEF Init, BudgetRows
<1>4. content \in Contents /\ (Fit(content) => content \in was) /\ annotations = {}
  BY DEF Init
<1>5. \A e \in Executors : SendFits(send[e], Bundle(e), annotations)
  BY <1>2 DEF SendFits
<1>6. \A r \in Reviewers : ApprovalFits(review[r], annotations, was)
  BY <1>2 DEF ApprovalFits
<1>7. \A q, r \in Reviewers : Apart(review[q], review[r])
  BY <1>2 DEF Apart, CandidateHeld, KeyHeld
<1> QED
  BY <1>2, <1>3, <1>4, <1>5, <1>6, <1>7, FS_EmptySet DEF ConsentInv

LEMMA ConsentInvariant == Spec => []ConsentInv
  BY ConsentStarts, ConsentSteps, PTL DEF Spec

(* Evidence that is about to be sent is what the video held at one moment, *)
(* and a review that none had superseded when the worker started approved  *)
(* it, however the parts were rewritten while they were read one by one    *)
(* (execution.py, evidence.py assemble and                                 *)
(* assert_persisted_l3_privacy_review).                                    *)
THEOREM EvidenceIsReviewed == Spec => []SentIsReviewed
<1>1. ConsentInv => SentIsReviewed
  BY DEF ConsentInv, SentIsReviewed, SendFits, AnnotationFits
<1> QED
  BY <1>1, ConsentInvariant, PTL

(* An approval that waited for another, on the candidate or on the key,    *)
(* sees its row: the insert never meets a unique index (review.py:241).    *)
THEOREM InsertsAreFresh == Spec => []WaiterSeesWinner
<1>1. ConsentInv => WaiterSeesWinner
  BY DEF ConsentInv, WaiterSeesWinner, Insertable, Step, ApprovalFits, ByKey, ByCandidate
<1> QED
  BY <1>1, ConsentInvariant, PTL

(* The preview of the budget says yes exactly where the price is known and *)
(* the checks and the reservation of an execution say yes, whatever the    *)
(* limits (review.py preview_budget against execution.py _reserve_budget). *)
THEOREM PreviewIsRight == Spec => []PreviewAgrees
<1>1. ASSUME ConsentInv PROVE PreviewAgrees
  <2> SUFFICES ASSUME NEW m \in Manifests, NEW est \in Estimates
               PROVE  Preview(m, est) = "budget_capacity_preview_only"
                        <=> est # NoEstimate /\ Sends(m, est)
    BY DEF PreviewAgrees
  <2>1. Fit(m.content)
    BY DEF Manifests, Manifest
  <2>2. CASE budget = NoBudget
    BY <2>2 DEF Preview, Sends, Reservable
  <2>3. CASE budget # NoBudget /\ est = NoEstimate
    BY <2>3 DEF Preview
  <2>4. CASE budget # NoBudget /\ est # NoEstimate
    <3>1. budget \in BudgetRows /\ est \in Nat /\ Price(est) = est
      BY <1>1, <2>4, ReviewAssumption DEF ConsentInv, Price
    <3>2. /\ WithinLimit(budget.maxRequests, budget.used + 1)
               <=> ~Exceeds(budget.maxRequests, budget.used + 1)
          /\ WithinLimit(budget.maxCost, budget.spent + est)
               <=> ~Exceeds(budget.maxCost, budget.spent + est)
      BY <3>1, ReviewAssumption DEF WithinLimit, Exceeds, BudgetRows
    <3>3. Reservable(est) <=>
            /\ budget.currency = Currency
            /\ ~Exceeds(budget.maxRequests, budget.used + 1)
            /\ ~Exceeds(budget.maxCost, budget.spent + est)
      BY <2>4, <3>1, <3>2 DEF Reservable
    <3> QED
      BY <2>1, <2>4, <3>3 DEF Preview, Sends, Reviewed
  <2> QED
    BY <2>2, <2>3, <2>4
<1> QED
  BY <1>1, ConsentInvariant, PTL

-----------------------------------------------------------------------------
(* The media of a video. The session of a worker is what the lock is: the  *)
(* holder alone writes items, so that the others' are closed for good. Of  *)
(* what a worker has in its hands, its step says how much is recorded.     *)

MediaRows == [kind : {"video", "audio"}, digest : Films \cup Sounds, parent : Films \cup {NoDigest}]
RunRows == [status : {"running", "success", "failed"},
            item : {"none", "running", "reused", "success", "failed"}]
Unstarted == {"idle", "close", "create"}
HandRows ==
  [step : Unstarted \cup Stages \cup {"item", "failed", "fail_run"}, session : BOOLEAN, run : Nat,
   film : Films \cup {NoDigest}, sound : Sounds \cup {NoDigest}]

FilmInHand == {"upload_video", "record_video", "extract", "upload_audio", "record_audio"}
FilmRecorded == {"extract", "upload_audio", "record_audio"}

(* A film and its sound, of the assets in S.                               *)
Paired(S) == \E a, b \in S : a.kind = "video" /\ b.kind = "audio" /\ b.parent = a.digest

(* An asset, of those in S, where the objects are O.                       *)
AssetFits(a, S, O) ==
  /\ a.digest \in O
  /\ a.kind = "video" => a.digest \in Films /\ a = Video(a.digest)
  /\ a.kind = "audio" => /\ a.parent \in Films /\ Video(a.parent) \in S
                         /\ a.digest \in SoundsOf[a.parent]

(* What a worker has in its hands, and the run it writes, of the runs R.   *)
HandFits(x, S, O) ==
  /\ x.step \in FilmInHand => x.film \in Films
  /\ x.step = "record_video" => x.film \in O
  /\ x.step \in FilmRecorded => Video(x.film) \in S
  /\ x.step \in {"upload_audio", "record_audio"} => x.sound \in SoundsOf[x.film]
  /\ x.step = "record_audio" => x.sound \in O
  /\ x.step \in {"reuse", "final", "finish"} => Paired(S)

RunFits(x, R) ==
  /\ x.step \in Unstarted => x.run = 0
  /\ x.step \notin Unstarted => x.run \in DOMAIN R
  /\ x.step = "finish" => R[x.run].item # "running"
  /\ x.step = "fail_run" => R[x.run].item = "failed"
  /\ x.session /\ x.step \notin Unstarted => R[x.run].status # "failed"
  /\ x.session /\ x.step = "item" => R[x.run].status = "running"

(* A run by itself, and its number i beside the worker x that has the lock.*)
RunIs(r, S) ==
  /\ r.status = "success" => Paired(S)
  /\ r.status = "failed" => r.item = "failed"
  /\ r.item = "running" => r.status = "running"
OnlyMine(x, R) == x.session /\ x.step # "close" => \A i \in DOMAIN R : R[i].item = "running" => i = x.run

OtherRuns(x, y) == x.run # 0 => x.run # y.run

IngestionInv ==
  /\ assets \in Seq(MediaRows) /\ runs \in Seq(RunRows) /\ worker \in [Workers -> HandRows]
  /\ \A i \in DOMAIN assets : AssetFits(assets[i], ToSet(assets), objects)
  /\ \A i \in DOMAIN runs : RunIs(runs[i], ToSet(assets))
  /\ \A w \in Workers : worker[w].session <=> lock = w
  /\ lock \in Workers \cup {NoWorker}
  /\ \A w \in Workers : HandFits(worker[w], ToSet(assets), objects)
  /\ \A w \in Workers : RunFits(worker[w], runs) /\ OnlyMine(worker[w], runs)
  /\ \A v, w \in Workers : v # w => OtherRuns(worker[v], worker[w])

LEMMA PairsAreThere ==
  CompletedPair <=> Paired(ToSet(assets))
  BY DEF CompletedPair, Paired, ToSet

(* What one worker does with its lock, to the runs and to the assets.      *)
LEMMA HandGoes ==
  ASSUME IngestionInv, NEW w \in Workers, NEW x \in HandRows, worker' = [worker EXCEPT ![w] = x],
         lock' \in Workers \cup {NoWorker}, x.session <=> lock' = w,
         lock' = lock \/ {lock, lock'} \subseteq {w, NoWorker},
         assets' \in Seq(MediaRows), ToSet(assets) \subseteq ToSet(assets'), objects \subseteq objects',
         \A i \in DOMAIN assets' : AssetFits(assets'[i], ToSet(assets'), objects'),
         runs' \in Seq(RunRows),
         \A i \in DOMAIN runs' : RunIs(runs'[i], ToSet(assets')),
         HandFits(x, ToSet(assets'), objects'), RunFits(x, runs'), OnlyMine(x, runs'),
         \A v \in Workers : v # w => OtherRuns(worker[v], x) /\ OtherRuns(x, worker[v]),
         \A v \in Workers : v # w => RunFits(worker[v], runs') /\ OnlyMine(worker[v], runs')
  PROVE  IngestionInv'
<1>1. /\ worker' \in [Workers -> HandRows] /\ worker'[w] = x
      /\ \A v \in Workers : v # w => worker'[v] = worker[v]
  BY DEF IngestionInv
<1>2. \A v \in Workers : worker'[v].session <=> lock' = v
  <2>1. \A v \in Workers : v # w => (worker[v].session <=> lock = v) /\ v # NoWorker
    BY MediaAssumption DEF IngestionInv
  <2>2. \A v \in Workers : v # w => (lock = v <=> lock' = v)
    BY <2>1
  <2> QED
    BY <1>1, <2>1, <2>2
<1>3. \A v \in Workers : HandFits(worker'[v], ToSet(assets'), objects')
  <2>1. ASSUME NEW v \in Workers, v # w
        PROVE  HandFits(worker[v], ToSet(assets'), objects')
    <3>1. HandFits(worker[v], ToSet(assets), objects)
      BY DEF IngestionInv
    <3>2. Paired(ToSet(assets)) => Paired(ToSet(assets'))
      BY DEF Paired
    <3> QED
      BY <3>1, <3>2 DEF HandFits
  <2> QED
    BY <1>1, <2>1
<1>4. \A v \in Workers : RunFits(worker'[v], runs') /\ OnlyMine(worker'[v], runs')
  BY <1>1
<1>5. \A u, v \in Workers : u # v => OtherRuns(worker'[u], worker'[v])
  <2>1. \A u, v \in Workers : u # v => OtherRuns(worker[u], worker[v])
    BY DEF IngestionInv
  <2> QED
    BY <1>1, <2>1
<1> QED
  BY <1>1, <1>2, <1>3, <1>4, <1>5 DEF IngestionInv

(* A step of a worker that writes nothing.                                 *)
LEMMA HandMoves ==
  ASSUME IngestionInv, NEW w \in Workers, NEW x \in HandRows, worker' = [worker EXCEPT ![w] = x],
         lock' \in Workers \cup {NoWorker}, x.session <=> lock' = w,
         lock' = lock \/ {lock, lock'} \subseteq {w, NoWorker},
         UNCHANGED <<runs, objects, assets>>,
         HandFits(x, ToSet(assets), objects), RunFits(x, runs), OnlyMine(x, runs),
         x.run = worker[w].run \/ x.run = 0
  PROVE  IngestionInv'
<1>1. \A v \in Workers : v # w => OtherRuns(worker[v], worker[w]) /\ OtherRuns(worker[w], worker[v])
  BY DEF IngestionInv
<1>2. \A v \in Workers : v # w => OtherRuns(worker[v], x) /\ OtherRuns(x, worker[v])
  BY <1>1 DEF OtherRuns
<1>3. /\ assets \in Seq(MediaRows) /\ runs \in Seq(RunRows)
      /\ \A i \in DOMAIN assets : AssetFits(assets[i], ToSet(assets), objects)
      /\ \A i \in DOMAIN runs : RunIs(runs[i], ToSet(assets))
      /\ \A v \in Workers : RunFits(worker[v], runs) /\ OnlyMine(worker[v], runs)
  BY DEF IngestionInv
<1>4. ToSet(assets') = ToSet(assets)
  BY DEF ToSet
<1> QED
  BY <1>2, <1>3, <1>4, HandGoes

LEMMA HandIs ==
  ASSUME IngestionInv, NEW w \in Workers
  PROVE  /\ worker[w] \in HandRows /\ (worker[w].session <=> lock = w)
         /\ HandFits(worker[w], ToSet(assets), objects)
         /\ RunFits(worker[w], runs) /\ OnlyMine(worker[w], runs)
         /\ lock \in Workers \cup {NoWorker} /\ w # NoWorker
  BY MediaAssumption DEF IngestionInv

LEMMA HandStepIs ==
  ASSUME IngestionInv, NEW w \in Workers,
         NEW s \in Unstarted \cup Stages \cup {"item", "failed", "fail_run"}
  PROVE  \E x \in HandRows :
           /\ x = [worker[w] EXCEPT !.step = s] /\ x.step = s
           /\ x.session = worker[w].session /\ x.run = worker[w].run
           /\ x.film = worker[w].film /\ x.sound = worker[w].sound
<1> DEFINE x == [worker[w] EXCEPT !.step = s]
<1>1. worker[w] \in HandRows
  BY HandIs
<1>2. x \in HandRows
  BY <1>1 DEF HandRows
<1>3. /\ x.step = s /\ x.session = worker[w].session /\ x.run = worker[w].run
      /\ x.film = worker[w].film /\ x.sound = worker[w].sound
  BY <1>1 DEF HandRows
<1> QED
  BY <1>2, <1>3

LEMMA LeaveGoes ==
  ASSUME IngestionInv, NEW w \in Workers, Leave(w)
  PROVE  \E x \in HandRows :
           /\ worker' = [worker EXCEPT ![w] = x] /\ x.run = 0 /\ x.step = "idle" /\ ~x.session
           /\ lock' \in Workers \cup {NoWorker} /\ lock' # w
           /\ lock' = lock \/ {lock, lock'} \subseteq {w, NoWorker}
<1>1. Idle \in HandRows /\ Idle.run = 0 /\ Idle.step = "idle" /\ ~Idle.session
  BY DEF Idle, HandRows, Unstarted
<1>2. lock \in Workers \cup {NoWorker} /\ w # NoWorker
  BY HandIs
<1>3. worker' = [worker EXCEPT ![w] = Idle] /\ lock' = IF lock = w THEN NoWorker ELSE lock
  BY DEF Leave
<1>4. lock' \in Workers \cup {NoWorker} /\ lock' # w
  BY <1>2, <1>3
<1>5. lock' = lock \/ {lock, lock'} \subseteq {w, NoWorker}
  BY <1>3
<1> QED
  BY <1>1, <1>3, <1>4, <1>5

LEMMA IdleFits ==
  ASSUME NEW x \in HandRows, x.run = 0, x.step = "idle", ~x.session, NEW R, NEW S, NEW O
  PROVE  HandFits(x, S, O) /\ RunFits(x, R) /\ OnlyMine(x, R)
  BY DEF HandFits, RunFits, OnlyMine, FilmInHand, FilmRecorded, Unstarted

LEMMA LeaveKeeps ==
  ASSUME IngestionInv, NEW w \in Workers, Leave(w), UNCHANGED <<runs, objects, assets>>
  PROVE  IngestionInv'
<1>1. PICK x \in HandRows :
        /\ worker' = [worker EXCEPT ![w] = x] /\ x.run = 0 /\ x.step = "idle" /\ ~x.session
        /\ lock' \in Workers \cup {NoWorker} /\ lock' # w
        /\ lock' = lock \/ {lock, lock'} \subseteq {w, NoWorker}
  BY LeaveGoes
<1>2. HandFits(x, ToSet(assets), objects) /\ RunFits(x, runs) /\ OnlyMine(x, runs)
  BY <1>1, IdleFits
<1> QED
  BY <1>1, <1>2, HandMoves

(* A worker goes on with what it has.                                      *)
LEMMA GotoKeeps ==
  ASSUME IngestionInv, NEW w \in Workers, NEW s \in Stages \cup {"failed", "fail_run"},
         Goto(w, s), UNCHANGED <<lock, runs, objects, assets>>,
         worker[w].step \notin Unstarted,
         HandFits([worker[w] EXCEPT !.step = s], ToSet(assets), objects),
         s = "finish" => runs[Run(w)].item # "running",
         s = "fail_run" => runs[Run(w)].item = "failed"
  PROVE  IngestionInv'
<1>1. PICK x \in HandRows :
        /\ x = [worker[w] EXCEPT !.step = s] /\ x.step = s
        /\ x.session = worker[w].session /\ x.run = worker[w].run
  BY HandStepIs
<1>2. worker' = [worker EXCEPT ![w] = x]
  BY <1>1 DEF Goto
<1>3. s \notin Unstarted /\ s # "close" /\ s # "item"
  BY DEF Unstarted, Stages
<1>4. RunFits(x, runs) /\ OnlyMine(x, runs)
  <2>1. RunFits(worker[w], runs) /\ OnlyMine(worker[w], runs) /\ worker[w].step # "close"
    BY HandIs DEF Unstarted
  <2> QED
    BY <1>1, <1>3, <2>1 DEF RunFits, OnlyMine, Run
<1>5. lock \in Workers \cup {NoWorker} /\ (x.session <=> lock = w)
  BY <1>1, HandIs
<1> QED
  BY <1>1, <1>2, <1>4, <1>5, HandMoves

LEMMA OnSessionKeeps ==
  ASSUME IngestionInv, NEW w \in Workers, NEW s \in Stages \cup {"failed", "fail_run"},
         OnSession(w, s), UNCHANGED <<runs, objects, assets>>,
         worker[w].step \notin Unstarted,
         HandFits([worker[w] EXCEPT !.step = s], ToSet(assets), objects),
         s = "finish" => runs[Run(w)].item # "running",
         s = "fail_run" => runs[Run(w)].item = "failed"
  PROVE  IngestionInv'
<1>1. CASE worker[w].session
  BY <1>1, GotoKeeps DEF OnSession
<1>2. CASE ~worker[w].session
  BY <1>2, LeaveKeeps DEF OnSession
<1> QED
  BY <1>1, <1>2

(* A worker writes the row of its own run, the item of it only if it has   *)
(* its session.                                                            *)
LEMMA RunGoes ==
  ASSUME IngestionInv, NEW w \in Workers, worker[w].step \notin Unstarted, NEW r \in RunRows,
         runs' = [runs EXCEPT ![Run(w)] = r], UNCHANGED assets, RunIs(r, ToSet(assets)),
         r.item = runs[Run(w)].item \/ worker[w].session
  PROVE  /\ runs' \in Seq(RunRows) /\ DOMAIN runs' = DOMAIN runs /\ runs'[Run(w)] = r
         /\ \A i \in DOMAIN runs' : RunIs(runs'[i], ToSet(assets'))
         /\ OnlyMine(worker[w], runs')
         /\ \A v \in Workers : v # w => RunFits(worker[v], runs') /\ OnlyMine(worker[v], runs')
<1>0. /\ runs \in Seq(RunRows) /\ Run(w) = worker[w].run /\ Run(w) \in DOMAIN runs
      /\ \A i \in DOMAIN runs : RunIs(runs[i], ToSet(assets))
      /\ OnlyMine(worker[w], runs) /\ ToSet(assets') = ToSet(assets)
  BY HandIs DEF IngestionInv, Run, RunFits, ToSet
<1>1. /\ runs' \in Seq(RunRows) /\ DOMAIN runs' = DOMAIN runs /\ runs'[Run(w)] = r
      /\ \A i \in DOMAIN runs : i # Run(w) => runs'[i] = runs[i]
  BY <1>0
<1>2. \A i \in DOMAIN runs' : RunIs(runs'[i], ToSet(assets'))
  BY <1>0, <1>1
<1>3. OnlyMine(worker[w], runs')
  BY <1>0, <1>1 DEF OnlyMine
<1>4. ASSUME NEW v \in Workers, v # w
      PROVE  RunFits(worker[v], runs') /\ OnlyMine(worker[v], runs')
  <2>1. /\ RunFits(worker[v], runs) /\ OnlyMine(worker[v], runs) /\ OtherRuns(worker[v], worker[w])
        /\ worker[v].session => ~worker[w].session
        /\ worker[v].step \notin Unstarted => worker[v].run \in DOMAIN runs
    BY <1>4 DEF IngestionInv, RunFits
  <2>2. worker[v].step \notin Unstarted => worker[v].run # 0
    BY <1>0, <2>1
  <2>3. RunFits(worker[v], runs')
    BY <1>0, <1>1, <2>1, <2>2 DEF RunFits, OtherRuns, Unstarted
  <2>4. OnlyMine(worker[v], runs')
    BY <1>0, <1>1, <2>1 DEF OnlyMine
  <2> QED
    BY <2>3, <2>4
<1> QED
  BY <1>1, <1>2, <1>3, <1>4

LEMMA ItemKeeps ==
  ASSUME IngestionInv, NEW w \in Workers, NEW s \in Stages \cup {"failed", "fail_run"},
         NEW o \in {"running", "reused", "success", "failed"},
         SetItem(w, o), OnSession(w, s), UNCHANGED <<objects, assets>>,
         worker[w].step \notin Unstarted, o = "running" => worker[w].step = "item",
         HandFits([worker[w] EXCEPT !.step = s], ToSet(assets), objects),
         s = "finish" => o # "running", s = "fail_run" => o = "failed"
  PROVE  IngestionInv'
<1>1. CASE ~worker[w].session
  BY <1>1, LeaveKeeps DEF SetItem, OnSession
<1>2. CASE worker[w].session
  <2>0. /\ runs \in Seq(RunRows) /\ Run(w) = worker[w].run /\ Run(w) \in DOMAIN runs
        /\ RunFits(worker[w], runs) /\ (worker[w].session <=> lock = w) /\ lock \in Workers \cup {NoWorker}
        /\ RunIs(runs[Run(w)], ToSet(assets)) /\ ToSet(assets') = ToSet(assets)
    BY HandIs DEF IngestionInv, Run, RunFits, ToSet
  <2>1. PICK r \in RunRows : /\ r = [runs[Run(w)] EXCEPT !.item = o]
                             /\ r.item = o /\ r.status = runs[Run(w)].status
    <3> DEFINE r == [runs[Run(w)] EXCEPT !.item = o]
    <3>1. runs[Run(w)] \in RunRows
      BY <2>0
    <3>2. r \in RunRows /\ r.item = o /\ r.status = runs[Run(w)].status
      BY <3>1 DEF RunRows
    <3> QED
      BY <3>2
  <2>2. runs' = [runs EXCEPT ![Run(w)] = r] /\ UNCHANGED lock
    BY <1>2, <2>1 DEF SetItem, OnSession
  <2>3. RunIs(r, ToSet(assets))
    BY <1>2, <2>0, <2>1 DEF RunIs, RunFits
  <2>4. /\ runs' \in Seq(RunRows) /\ DOMAIN runs' = DOMAIN runs /\ runs'[Run(w)] = r
        /\ \A i \in DOMAIN runs' : RunIs(runs'[i], ToSet(assets'))
        /\ OnlyMine(worker[w], runs')
        /\ \A v \in Workers : v # w => RunFits(worker[v], runs') /\ OnlyMine(worker[v], runs')
    BY <1>2, <2>2, <2>3, RunGoes
  <2>5. PICK x \in HandRows :
          /\ x = [worker[w] EXCEPT !.step = s] /\ x.step = s
          /\ x.session = worker[w].session /\ x.run = worker[w].run
    BY HandStepIs
  <2>6. worker' = [worker EXCEPT ![w] = x]
    BY <1>2, <2>5 DEF OnSession, Goto
  <2>7. s \notin Unstarted /\ s # "close" /\ s # "item" /\ worker[w].step # "close"
    BY DEF Unstarted, Stages
  <2>8. RunFits(x, runs')
    <3>1. x.run \in DOMAIN runs' /\ x.step = s /\ runs'[x.run] = r
      BY <2>0, <2>4, <2>5
    <3>2. r.item = o /\ r.status # "failed"
      BY <1>2, <2>0, <2>1 DEF RunFits
    <3> QED
      BY <2>7, <3>1, <3>2 DEF RunFits
  <2>9. OnlyMine(x, runs')
    BY <2>4, <2>5, <2>7 DEF OnlyMine
  <2>10. \A v \in Workers : v # w => OtherRuns(worker[v], x) /\ OtherRuns(x, worker[v])
    BY <2>5 DEF IngestionInv, OtherRuns
  <2>11. /\ assets \in Seq(MediaRows) /\ ToSet(assets) \subseteq ToSet(assets') /\ objects \subseteq objects'
         /\ \A i \in DOMAIN assets' : AssetFits(assets'[i], ToSet(assets'), objects')
    BY <2>0 DEF IngestionInv
  <2> QED
    BY <1>2, <2>0, <2>2, <2>4, <2>5, <2>6, <2>8, <2>9, <2>10, <2>11, HandGoes
<1> QED
  BY <1>1, <1>2

(* The row of a run is closed.                                             *)
LEMMA StatusIs ==
  ASSUME IngestionInv, NEW w \in Workers, worker[w].step \in {"finish", "fail_run"},
         NEW s \in {"success", "failed"}, s = "failed" <=> worker[w].step = "fail_run",
         runs' = [runs EXCEPT ![Run(w)].status = s], UNCHANGED assets
  PROVE  /\ runs' \in Seq(RunRows) /\ DOMAIN runs' = DOMAIN runs /\ runs'[Run(w)].status = s
         /\ \A i \in DOMAIN runs' : RunIs(runs'[i], ToSet(assets'))
         /\ OnlyMine(worker[w], runs')
         /\ \A v \in Workers : v # w => RunFits(worker[v], runs') /\ OnlyMine(worker[v], runs')
<1>0. /\ runs \in Seq(RunRows) /\ Run(w) = worker[w].run /\ Run(w) \in DOMAIN runs
      /\ RunFits(worker[w], runs) /\ HandFits(worker[w], ToSet(assets), objects)
      /\ RunIs(runs[Run(w)], ToSet(assets)) /\ worker[w].step \notin Unstarted
  BY HandIs DEF IngestionInv, Run, RunFits, Unstarted
<1>1. PICK r \in RunRows : /\ r = [runs[Run(w)] EXCEPT !.status = s]
                           /\ r.status = s /\ r.item = runs[Run(w)].item
  <2> DEFINE r == [runs[Run(w)] EXCEPT !.status = s]
  <2>1. runs[Run(w)] \in RunRows
    BY <1>0
  <2>2. r \in RunRows /\ r.status = s /\ r.item = runs[Run(w)].item
    BY <2>1 DEF RunRows
  <2> QED
    BY <2>2
<1>2. runs' = [runs EXCEPT ![Run(w)] = r]
  BY <1>1
<1>3. RunIs(r, ToSet(assets))
  BY <1>0, <1>1 DEF RunIs, RunFits, HandFits
<1> QED
  BY <1>0, <1>1, <1>2, <1>3, RunGoes

LEMMA FinishKeeps ==
  ASSUME IngestionInv, NEW w \in Workers, (\E seen \in BOOLEAN : Finish(w, seen)) \/ FailRun(w)
  PROVE  IngestionInv'
<1>0. /\ worker[w].step \in {"finish", "fail_run"} /\ UNCHANGED <<objects, assets>>
      /\ ToSet(assets') = ToSet(assets)
  BY DEF Finish, FailRun, At, ToSet
<1>1. /\ assets' \in Seq(MediaRows) /\ ToSet(assets) \subseteq ToSet(assets') /\ objects \subseteq objects'
      /\ \A i \in DOMAIN assets' : AssetFits(assets'[i], ToSet(assets'), objects')
      /\ \A v \in Workers : v # w => /\ OtherRuns(worker[v], worker[w])
                                     /\ OtherRuns(worker[w], worker[v])
  BY <1>0 DEF IngestionInv
<1>2. PICK s \in {"success", "failed"} :
        /\ runs' = [runs EXCEPT ![Run(w)].status = s] /\ (s = "failed" <=> worker[w].step = "fail_run")
        /\ Leave(w) \/ (s = "success" /\ Goto(w, "failed") /\ UNCHANGED lock)
  <2>1. CASE FailRun(w)
    BY <2>1 DEF FailRun, At
  <2>2. ASSUME NEW seen \in BOOLEAN, Finish(w, seen)
        PROVE  /\ runs' = [runs EXCEPT ![Run(w)].status = "success"] /\ worker[w].step = "finish"
               /\ Leave(w) \/ (Goto(w, "failed") /\ UNCHANGED lock)
    BY <2>2 DEF Finish, At
  <2> QED
    BY <2>1, <2>2
<1>3. /\ runs' \in Seq(RunRows) /\ DOMAIN runs' = DOMAIN runs /\ runs'[Run(w)].status = s
      /\ \A i \in DOMAIN runs' : RunIs(runs'[i], ToSet(assets'))
      /\ OnlyMine(worker[w], runs')
      /\ \A v \in Workers : v # w => RunFits(worker[v], runs') /\ OnlyMine(worker[v], runs')
  BY <1>0, <1>2, StatusIs
<1>4. CASE Leave(w)
  <2>1. PICK x \in HandRows :
          /\ worker' = [worker EXCEPT ![w] = x] /\ x.run = 0 /\ x.step = "idle" /\ ~x.session
          /\ lock' \in Workers \cup {NoWorker} /\ lock' # w
          /\ lock' = lock \/ {lock, lock'} \subseteq {w, NoWorker}
    BY <1>4, LeaveGoes
  <2>2. HandFits(x, ToSet(assets'), objects') /\ RunFits(x, runs') /\ OnlyMine(x, runs')
    BY <2>1, IdleFits
  <2>3. \A v \in Workers : v # w => OtherRuns(worker[v], x) /\ OtherRuns(x, worker[v])
    BY <2>1 DEF OtherRuns
  <2> QED
    BY <1>1, <1>3, <2>1, <2>2, <2>3, HandGoes
<1>5. CASE s = "success" /\ Goto(w, "failed") /\ UNCHANGED lock
  <2>1. PICK x \in HandRows :
          /\ x = [worker[w] EXCEPT !.step = "failed"] /\ x.step = "failed"
          /\ x.session = worker[w].session /\ x.run = worker[w].run
    BY HandStepIs
  <2>2. worker' = [worker EXCEPT ![w] = x]
    BY <1>5, <2>1 DEF Goto
  <2>3. RunFits(worker[w], runs) /\ (worker[w].session <=> lock = w) /\ lock \in Workers \cup {NoWorker}
    BY HandIs
  <2>4. RunFits(x, runs')
    BY <1>0, <1>3, <1>5, <2>1, <2>3 DEF RunFits, Unstarted, Run
  <2>5. HandFits(x, ToSet(assets'), objects') /\ OnlyMine(x, runs')
    BY <1>0, <1>3, <2>1 DEF HandFits, OnlyMine, FilmInHand, FilmRecorded
  <2>6. \A v \in Workers : v # w => OtherRuns(worker[v], x) /\ OtherRuns(x, worker[v])
    BY <1>1, <2>1 DEF OtherRuns
  <2> QED
    BY <1>1, <1>3, <1>5, <2>1, <2>2, <2>3, <2>4, <2>5, <2>6, HandGoes
<1> QED
  BY <1>2, <1>4, <1>5

LEMMA TryLockKeeps ==
  ASSUME IngestionInv, NEW w \in Workers, TryLock(w)
  PROVE  IngestionInv'
<1>1. PICK x \in HandRows :
        /\ x = [Idle EXCEPT !.step = "close", !.session = TRUE]
        /\ x.step = "close" /\ x.session /\ x.run = 0
  <2> DEFINE x == [Idle EXCEPT !.step = "close", !.session = TRUE]
  <2>1. x \in HandRows
    BY DEF Idle, HandRows, Unstarted
  <2>2. x.step = "close" /\ x.session /\ x.run = 0
    BY DEF Idle
  <2> QED
    BY <2>1, <2>2
<1>2. /\ worker' = [worker EXCEPT ![w] = x] /\ lock = NoWorker /\ lock' = w
      /\ UNCHANGED <<runs, objects, assets>>
  BY <1>1 DEF TryLock
<1>3. HandFits(x, ToSet(assets), objects) /\ RunFits(x, runs) /\ OnlyMine(x, runs)
  BY <1>1 DEF HandFits, RunFits, OnlyMine, FilmInHand, FilmRecorded, Unstarted
<1> QED
  BY <1>1, <1>2, <1>3, HandMoves

LEMMA CloseKeeps ==
  ASSUME IngestionInv, NEW w \in Workers, CloseInterrupted(w)
  PROVE  IngestionInv'
<1>1. CASE ~worker[w].session
  BY <1>1, LeaveKeeps DEF CloseInterrupted, OnSession
<1>2. CASE worker[w].session
  <2>0. /\ runs \in Seq(RunRows) /\ worker[w].step = "close" /\ worker[w].run = 0
        /\ (worker[w].session <=> lock = w) /\ lock \in Workers \cup {NoWorker}
        /\ UNCHANGED <<lock, objects, assets>> /\ ToSet(assets') = ToSet(assets)
        /\ \A i \in DOMAIN runs : RunIs(runs[i], ToSet(assets))
    BY <1>2, HandIs DEF IngestionInv, CloseInterrupted, At, OnSession, RunFits, Unstarted, ToSet
  <2>1. PICK closed \in RunRows : /\ closed = [status |-> "failed", item |-> "failed"]
                                  /\ closed.status = "failed" /\ closed.item = "failed"
    <3> DEFINE closed == [status |-> "failed", item |-> "failed"]
    <3>1. closed \in RunRows
      BY DEF RunRows
    <3> QED
      BY <3>1
  <2>2. /\ runs' \in Seq(RunRows) /\ DOMAIN runs' = DOMAIN runs
        /\ \A i \in DOMAIN runs : runs'[i] = IF Interrupted(runs[i]) THEN closed ELSE runs[i]
    <3>1. runs' = [i \in DOMAIN runs |-> IF Interrupted(runs[i]) THEN closed ELSE runs[i]]
      BY <1>2, <2>1 DEF CloseInterrupted
    <3>2. PICK n \in Nat : DOMAIN runs = 1..n
      BY <2>0
    <3>3. \A i \in DOMAIN runs : runs[i] \in RunRows
      BY <2>0
    <3>4. runs' \in [1..n -> RunRows]
      BY <2>1, <3>1, <3>2, <3>3
    <3>5. runs' \in Seq(RunRows)
      BY <3>4
    <3> QED
      BY <3>1, <3>5
  <2>3. \A i \in DOMAIN runs' : RunIs(runs'[i], ToSet(assets')) /\ runs'[i].item # "running"
    BY <2>0, <2>1, <2>2 DEF RunIs, Interrupted
  <2>4. PICK x \in HandRows :
          /\ x = [worker[w] EXCEPT !.step = "create"] /\ x.step = "create"
          /\ x.session = worker[w].session /\ x.run = worker[w].run
    BY HandStepIs DEF Unstarted
  <2>5. worker' = [worker EXCEPT ![w] = x]
    BY <1>2, <2>4 DEF CloseInterrupted, OnSession, Goto
  <2>6. HandFits(x, ToSet(assets'), objects') /\ RunFits(x, runs') /\ OnlyMine(x, runs')
    BY <2>0, <2>3, <2>4 DEF HandFits, RunFits, OnlyMine, FilmInHand, FilmRecorded, Unstarted
  <2>7. \A v \in Workers : v # w => OtherRuns(worker[v], x) /\ OtherRuns(x, worker[v])
    BY <2>0, <2>4 DEF OtherRuns
  <2>8. ASSUME NEW v \in Workers, v # w
        PROVE  RunFits(worker[v], runs') /\ OnlyMine(worker[v], runs')
    <3>1. RunFits(worker[v], runs) /\ ~worker[v].session
      BY <1>2, <2>8 DEF IngestionInv
    <3> QED
      BY <2>1, <2>2, <2>3, <3>1 DEF RunFits, OnlyMine, Unstarted
  <2>9. /\ assets' \in Seq(MediaRows) /\ ToSet(assets) \subseteq ToSet(assets') /\ objects \subseteq objects'
        /\ \A i \in DOMAIN assets' : AssetFits(assets'[i], ToSet(assets'), objects')
    BY <2>0 DEF IngestionInv
  <2> QED
    BY <1>2, <2>0, <2>2, <2>3, <2>4, <2>5, <2>6, <2>7, <2>8, <2>9, HandGoes
<1> QED
  BY <1>1, <1>2

LEMMA CreateRunKeeps ==
  ASSUME IngestionInv, NEW w \in Workers, CreateRun(w)
  PROVE  IngestionInv'
<1>0. /\ runs \in Seq(RunRows) /\ worker[w].step = "create" /\ worker[w].run = 0
      /\ (worker[w].session <=> lock = w) /\ lock \in Workers \cup {NoWorker}
      /\ UNCHANGED <<lock, objects, assets>> /\ ToSet(assets') = ToSet(assets)
      /\ \A i \in DOMAIN runs : RunIs(runs[i], ToSet(assets))
      /\ worker[w] \in HandRows /\ OnlyMine(worker[w], runs)
  BY HandIs DEF IngestionInv, CreateRun, At, RunFits, Unstarted, ToSet
<1>1. PICK r \in RunRows : /\ r = [status |-> "running", item |-> "none"]
                           /\ r.status = "running" /\ r.item = "none"
  <2> DEFINE r == [status |-> "running", item |-> "none"]
  <2>1. r \in RunRows
    BY DEF RunRows
  <2> QED
    BY <2>1
<1>2. PICK n \in Nat : n = Len(runs) + 1
  BY <1>0
<1>3. /\ runs' \in Seq(RunRows) /\ DOMAIN runs' = DOMAIN runs \cup {n} /\ runs'[n] = r
      /\ n \notin DOMAIN runs /\ n # 0
      /\ \A i \in DOMAIN runs : runs'[i] = runs[i]
  <2>1. runs' = Append(runs, r)
    BY <1>1 DEF CreateRun
  <2>2. n # 0 /\ n \notin DOMAIN runs
    BY <1>0, <1>2
  <2> QED
    BY <1>0, <1>2, <2>1, <2>2, AppendProperties
<1>4. PICK x \in HandRows :
        /\ x = [worker[w] EXCEPT !.step = "item", !.run = n]
        /\ x.step = "item" /\ x.run = n /\ x.session = worker[w].session
  <2> DEFINE x == [worker[w] EXCEPT !.step = "item", !.run = n]
  <2>1. x \in HandRows
    BY <1>0 DEF HandRows
  <2>2. x.step = "item" /\ x.run = n /\ x.session = worker[w].session
    BY <1>0 DEF HandRows
  <2> QED
    BY <2>1, <2>2
<1>5. worker' = [worker EXCEPT ![w] = x]
  BY <1>2, <1>4 DEF CreateRun
<1>6. HandFits(x, ToSet(assets'), objects') /\ RunFits(x, runs')
  BY <1>1, <1>3, <1>4 DEF HandFits, RunFits, FilmInHand, FilmRecorded, Unstarted
<1>7. OnlyMine(x, runs')
  <2>1. worker[w].session => \A i \in DOMAIN runs : runs[i].item # "running"
    <3>1. \A i \in DOMAIN runs : i # 0
      BY <1>0
    <3> QED
      BY <1>0, <3>1 DEF OnlyMine
  <2> QED
    BY <1>1, <1>3, <1>4, <2>1 DEF OnlyMine
<1>8. \A i \in DOMAIN runs' : RunIs(runs'[i], ToSet(assets'))
  BY <1>0, <1>1, <1>3 DEF RunIs
<1>9. ASSUME NEW v \in Workers, v # w
      PROVE  /\ RunFits(worker[v], runs') /\ OnlyMine(worker[v], runs')
             /\ OtherRuns(worker[v], x) /\ OtherRuns(x, worker[v])
  <2>1. RunFits(worker[v], runs) /\ OnlyMine(worker[v], runs)
    BY <1>9 DEF IngestionInv
  <2>2. worker[v].run # n
    BY <1>3, <2>1 DEF RunFits
  <2>3. RunFits(worker[v], runs')
    BY <1>3, <2>1 DEF RunFits, Unstarted
  <2>4. OnlyMine(worker[v], runs')
    BY <1>1, <1>3, <2>1 DEF OnlyMine
  <2> QED
    BY <1>4, <2>2, <2>3, <2>4 DEF OtherRuns
<1>10. /\ assets' \in Seq(MediaRows) /\ ToSet(assets) \subseteq ToSet(assets') /\ objects \subseteq objects'
       /\ \A i \in DOMAIN assets' : AssetFits(assets'[i], ToSet(assets'), objects')
  BY <1>0 DEF IngestionInv
<1> QED
  BY <1>0, <1>3, <1>4, <1>5, <1>6, <1>7, <1>8, <1>9, <1>10, HandGoes

(* The newest film is one that is recorded.                                *)
LEMMA PartialIs ==
  ASSUME IngestionInv, Partial # NoDigest
  PROVE  Partial \in Films /\ Video(Partial) \in ToSet(assets)
<1> DEFINE own == {i \in DOMAIN assets : assets[i].kind = "video"}
<1>1. PICK n \in Nat : DOMAIN assets = 1..n
  BY DEF IngestionInv
<1>2. own \subseteq Nat /\ IsFiniteSet(own)
  BY <1>1, FS_Interval, FS_Subset
<1>3. own # {}
  BY DEF Partial
<1>4. Max(own) \in own
  BY <1>2, <1>3, MaxIs
<1>5. PICK i \in own : i = Max(own)
  BY <1>4
<1>6. Partial = assets[i].digest
  BY <1>3, <1>5 DEF Partial
<1>7. AssetFits(assets[i], ToSet(assets), objects) /\ assets[i] \in ToSet(assets) /\ assets[i].kind = "video"
  BY <1>5 DEF IngestionInv, ToSet
<1> QED
  BY <1>6, <1>7 DEF AssetFits

(* A worker uploads what it has: the bucket only grows.                    *)
LEMMA UploadKeeps ==
  ASSUME IngestionInv, NEW w \in Workers, NEW s \in {"record_video", "record_audio"},
         NEW digest, Upload(digest), Goto(w, s), UNCHANGED <<lock, runs, assets>>,
         worker[w].step \notin Unstarted,
         HandFits([worker[w] EXCEPT !.step = s], ToSet(assets), objects')
  PROVE  IngestionInv'
<1>1. PICK x \in HandRows :
        /\ x = [worker[w] EXCEPT !.step = s] /\ x.step = s
        /\ x.session = worker[w].session /\ x.run = worker[w].run
  BY HandStepIs DEF Stages
<1>2. worker' = [worker EXCEPT ![w] = x]
  BY <1>1 DEF Goto
<1>3. /\ RunFits(worker[w], runs) /\ OnlyMine(worker[w], runs) /\ (worker[w].session <=> lock = w)
      /\ lock \in Workers \cup {NoWorker}
  BY HandIs
<1>4. RunFits(x, runs) /\ OnlyMine(x, runs)
  BY <1>1, <1>3 DEF RunFits, OnlyMine, Unstarted
<1>5. objects \subseteq objects' /\ ToSet(assets') = ToSet(assets)
  BY DEF Upload, ToSet
<1>6. /\ assets \in Seq(MediaRows) /\ runs \in Seq(RunRows)
      /\ \A i \in DOMAIN runs : RunIs(runs[i], ToSet(assets))
      /\ \A v \in Workers : RunFits(worker[v], runs) /\ OnlyMine(worker[v], runs)
      /\ \A v \in Workers : v # w => OtherRuns(worker[v], worker[w]) /\ OtherRuns(worker[w], worker[v])
  BY DEF IngestionInv
<1>7. \A i \in DOMAIN assets : AssetFits(assets[i], ToSet(assets), objects')
  BY <1>5 DEF IngestionInv, AssetFits
<1>8. \A v \in Workers : v # w => OtherRuns(worker[v], x) /\ OtherRuns(x, worker[v])
  BY <1>1, <1>6 DEF OtherRuns
<1> QED
  BY <1>1, <1>2, <1>3, <1>4, <1>5, <1>6, <1>7, <1>8, HandGoes

(* A worker records an asset that fits, or finds it recorded.              *)
LEMMA RecordKeeps ==
  ASSUME IngestionInv, NEW w \in Workers, NEW s \in {"extract", "final"}, NEW a \in MediaRows,
         Record(w, a, s), worker[w].step \notin Unstarted,
         AssetFits(a, ToSet(assets), objects),
         HandFits([worker[w] EXCEPT !.step = s], ToSet(assets) \cup {a}, objects)
  PROVE  IngestionInv'
<1>0. assets \in Seq(MediaRows) /\ UNCHANGED <<lock, runs, objects>>
  BY DEF IngestionInv, Record
<1>1. assets' \in Seq(MediaRows) /\ ToSet(assets') = ToSet(assets) \cup {a}
  <2>1. CASE RowOf(a) = {}
    <3>1. assets' = Append(assets, a)
      BY <2>1 DEF Record
    <3>2. PICK n \in Nat : n = Len(assets) + 1 /\ DOMAIN assets = 1..(n - 1) /\ n - 1 \in Nat
      BY <1>0
    <3>3. /\ assets' \in Seq(MediaRows) /\ DOMAIN assets' = 1..n /\ assets'[n] = a
          /\ \A i \in DOMAIN assets : assets'[i] = assets[i]
      BY <1>0, <3>1, <3>2, AppendProperties
    <3>4. DOMAIN assets' = DOMAIN assets \cup {n}
      BY <3>2, <3>3
    <3> QED
      <4>1. ToSet(assets') = {assets'[i] : i \in DOMAIN assets} \cup {assets'[n]}
        BY <3>4 DEF ToSet
      <4>2. {assets'[i] : i \in DOMAIN assets} = ToSet(assets)
        BY <3>3 DEF ToSet
      <4> QED
        BY <3>3, <4>1, <4>2
  <2>2. CASE RowOf(a) # {}
    <3>1. assets' = assets
      BY <2>2 DEF Record
    <3>2. PICK i \in DOMAIN assets :
            assets[i].kind = a.kind /\ assets[i].digest = a.digest /\ assets[i].parent = a.parent
      BY <2>2 DEF Record, RowOf
    <3>3. assets[i] = a
      <4>1. assets[i] \in MediaRows
        BY <1>0
      <4> QED
        BY <3>2, <4>1 DEF MediaRows
    <3> QED
      BY <1>0, <3>1, <3>3 DEF ToSet
  <2> QED
    BY <2>1, <2>2
<1>2. PICK x \in HandRows :
        /\ x = [worker[w] EXCEPT !.step = s] /\ x.step = s
        /\ x.session = worker[w].session /\ x.run = worker[w].run
  BY HandStepIs DEF Stages
<1>3. worker' = [worker EXCEPT ![w] = x]
  BY <1>2 DEF Record, Goto
<1>4. /\ RunFits(worker[w], runs) /\ OnlyMine(worker[w], runs) /\ (worker[w].session <=> lock = w)
      /\ lock \in Workers \cup {NoWorker}
  BY HandIs
<1>5. RunFits(x, runs) /\ OnlyMine(x, runs)
  BY <1>2, <1>4 DEF RunFits, OnlyMine, Unstarted
<1>6. /\ runs \in Seq(RunRows)
      /\ \A i \in DOMAIN runs : RunIs(runs[i], ToSet(assets))
      /\ \A v \in Workers : RunFits(worker[v], runs) /\ OnlyMine(worker[v], runs)
      /\ \A v \in Workers : v # w => OtherRuns(worker[v], worker[w]) /\ OtherRuns(worker[w], worker[v])
      /\ \A i \in DOMAIN assets : AssetFits(assets[i], ToSet(assets), objects)
  BY DEF IngestionInv
<1>7. \A i \in DOMAIN runs : RunIs(runs[i], ToSet(assets'))
  BY <1>1, <1>6 DEF RunIs, Paired
<1>8. \A b \in ToSet(assets') : AssetFits(b, ToSet(assets'), objects)
  <2>1. \A b \in ToSet(assets) : AssetFits(b, ToSet(assets), objects)
    BY <1>6 DEF ToSet
  <2> QED
    BY <1>1, <2>1 DEF AssetFits
<1>9. \A i \in DOMAIN assets' : AssetFits(assets'[i], ToSet(assets'), objects)
  BY <1>8 DEF ToSet
<1>10. \A v \in Workers : v # w => OtherRuns(worker[v], x) /\ OtherRuns(x, worker[v])
  BY <1>2, <1>6 DEF OtherRuns
<1>11. HandFits(x, ToSet(assets'), objects') /\ ToSet(assets) \subseteq ToSet(assets')
  BY <1>0, <1>1, <1>2
<1>12. lock' \in Workers \cup {NoWorker} /\ (x.session <=> lock' = w) /\ lock' = lock
  BY <1>0, <1>2, <1>4
<1> QED
  BY <1>0, <1>1, <1>2, <1>3, <1>5, <1>6, <1>7, <1>9, <1>10, <1>11, <1>12, HandGoes

LEMMA StageSteps ==
  ASSUME IngestionInv, NEW w \in Workers,
         \/ InsertItem(w) \/ Existing(w) \/ Reuse(w) \/ FindSource(w) \/ Finalize(w)
         \/ Fail(w) \/ FailItem(w)
  PROVE  IngestionInv'
<1>0. /\ HandFits(worker[w], ToSet(assets), objects) /\ RunFits(worker[w], runs)
      /\ worker[w] \in HandRows
  BY HandIs
<1>1. ASSUME NEW s \in {"existing", "resume", "source", "download", "failed", "fail_run"}
      PROVE  HandFits([worker[w] EXCEPT !.step = s], ToSet(assets), objects)
  <2>0. s \in Unstarted \cup Stages \cup {"item", "failed", "fail_run"}
    BY DEF Stages
  <2>1. PICK x \in HandRows : x = [worker[w] EXCEPT !.step = s] /\ x.step = s
    BY <2>0, HandStepIs
  <2> QED
    BY <2>1 DEF HandFits, FilmInHand, FilmRecorded
<1>2. ASSUME NEW s \in {"reuse", "finish"}, Paired(ToSet(assets))
      PROVE  HandFits([worker[w] EXCEPT !.step = s], ToSet(assets), objects)
  <2>0. s \in Unstarted \cup Stages \cup {"item", "failed", "fail_run"}
    BY DEF Stages
  <2>1. PICK x \in HandRows : x = [worker[w] EXCEPT !.step = s] /\ x.step = s
    BY <2>0, HandStepIs
  <2> QED
    BY <1>2, <2>1 DEF HandFits, FilmInHand, FilmRecorded
<1>3. CASE InsertItem(w)
  <2>1. worker[w].step = "item" /\ SetItem(w, "running") /\ OnSession(w, "existing")
        /\ UNCHANGED <<objects, assets>>
    BY <1>3 DEF InsertItem, At
  <2> QED
    BY <1>1, <2>1, ItemKeeps DEF Unstarted, Stages
<1>4. CASE Existing(w)
  <2>1. PICK s \in {"reuse", "resume", "source"} :
          OnSession(w, s) /\ (s = "reuse" => Paired(ToSet(assets)))
    BY <1>4, PairsAreThere DEF Existing
  <2>2. worker[w].step = "existing" /\ UNCHANGED <<runs, objects, assets>>
    BY <1>4 DEF Existing, At
  <2>3. HandFits([worker[w] EXCEPT !.step = s], ToSet(assets), objects)
    BY <1>1, <1>2, <2>1
  <2> QED
    BY <2>1, <2>2, <2>3, OnSessionKeeps DEF Unstarted, Stages
<1>5. CASE Reuse(w)
  <2>1. worker[w].step = "reuse" /\ SetItem(w, "reused") /\ OnSession(w, "finish")
        /\ UNCHANGED <<objects, assets>>
    BY <1>5 DEF Reuse, At
  <2>2. Paired(ToSet(assets))
    BY <1>0, <2>1 DEF HandFits
  <2> QED
    BY <1>2, <2>1, <2>2, ItemKeeps DEF Unstarted, Stages
<1>6. CASE FindSource(w)
  <2>1. worker[w].step = "source" /\ OnSession(w, "download") /\ UNCHANGED <<runs, objects, assets>>
    BY <1>6 DEF FindSource, At
  <2> QED
    BY <1>1, <2>1, OnSessionKeeps DEF Unstarted, Stages
<1>7. CASE Finalize(w)
  <2>1. worker[w].step = "final" /\ SetItem(w, "success") /\ OnSession(w, "finish")
        /\ UNCHANGED <<objects, assets>>
    BY <1>7 DEF Finalize, At
  <2>2. Paired(ToSet(assets))
    BY <1>0, <2>1 DEF HandFits
  <2> QED
    BY <1>2, <2>1, <2>2, ItemKeeps DEF Unstarted, Stages
<1>8. CASE Fail(w)
  <2>1. worker[w].step \notin Unstarted /\ Goto(w, "failed")
        /\ UNCHANGED <<lock, runs, objects, assets>>
    BY <1>8 DEF Fail, Stages, Unstarted
  <2> QED
    BY <1>1, <2>1, GotoKeeps
<1>9. CASE FailItem(w)
  <2>1. worker[w].step = "failed" /\ SetItem(w, "failed") /\ OnSession(w, "fail_run")
        /\ UNCHANGED <<objects, assets>>
    BY <1>9 DEF FailItem, ItemFailed, At
  <2> QED
    BY <1>1, <2>1, ItemKeeps DEF Unstarted
<1> QED
  BY <1>3, <1>4, <1>5, <1>6, <1>7, <1>8, <1>9

(* What a worker fetches and makes.                                        *)
LEMMA FilmSteps ==
  ASSUME IngestionInv, NEW w \in Workers,
         \/ Resume(w) \/ \E chain \in Chains, film \in Films : Download(w, chain, film)
         \/ \E sound \in Sounds : Extract(w, sound)
  PROVE  IngestionInv'
<1>0. /\ HandFits(worker[w], ToSet(assets), objects) /\ RunFits(worker[w], runs)
      /\ worker[w] \in HandRows /\ OnlyMine(worker[w], runs)
      /\ (worker[w].session <=> lock = w) /\ lock \in Workers \cup {NoWorker}
  BY HandIs
<1>1. UNCHANGED <<lock, runs, objects, assets>>
  BY DEF Resume, Download, Extract
<1>2. ASSUME NEW film \in Films, NEW s \in {"extract", "upload_video"},
             worker' = [worker EXCEPT ![w].step = s, ![w].film = film],
             s = "extract" => Video(film) \in ToSet(assets), worker[w].step \notin Unstarted
      PROVE  IngestionInv'
  <2>1. PICK x \in HandRows :
          /\ x = [worker[w] EXCEPT !.step = s, !.film = film] /\ x.step = s /\ x.film = film
          /\ x.session = worker[w].session /\ x.run = worker[w].run
    <3> DEFINE x == [worker[w] EXCEPT !.step = s, !.film = film]
    <3>1. x \in HandRows
      BY <1>0 DEF HandRows, Stages
    <3>2. /\ x.step = s /\ x.film = film
          /\ x.session = worker[w].session /\ x.run = worker[w].run
      BY <1>0 DEF HandRows
    <3> QED
      BY <3>1, <3>2
  <2>2. worker' = [worker EXCEPT ![w] = x]
    BY <1>2, <2>1
  <2>3. HandFits(x, ToSet(assets), objects)
    BY <1>2, <2>1 DEF HandFits, FilmInHand, FilmRecorded
  <2>4. RunFits(x, runs) /\ OnlyMine(x, runs)
    BY <1>0, <1>2, <2>1 DEF RunFits, OnlyMine, Unstarted
  <2> QED
    BY <1>0, <1>1, <2>1, <2>2, <2>3, <2>4, HandMoves
<1>3. CASE Resume(w)
  <2>1. /\ worker[w].step = "resume" /\ Partial # NoDigest
        /\ worker' = [worker EXCEPT ![w].step = "extract", ![w].film = Partial]
    BY <1>3 DEF Resume, At
  <2>2. PICK film \in Films : film = Partial /\ Video(film) \in ToSet(assets)
    BY <2>1, PartialIs
  <2> QED
    BY <1>2, <2>1, <2>2 DEF Unstarted
<1>4. ASSUME NEW chain \in Chains, NEW film \in Films, Download(w, chain, film)
      PROVE  IngestionInv'
  BY <1>2, <1>4 DEF Download, At, Unstarted
<1>5. ASSUME NEW sound \in Sounds, Extract(w, sound)
      PROVE  IngestionInv'
  <2>1. PICK x \in HandRows :
          /\ x = [worker[w] EXCEPT !.step = "upload_audio", !.sound = sound]
          /\ x.step = "upload_audio" /\ x.film = worker[w].film /\ x.sound = sound
          /\ x.session = worker[w].session /\ x.run = worker[w].run
    <3> DEFINE x == [worker[w] EXCEPT !.step = "upload_audio", !.sound = sound]
    <3>1. x \in HandRows
      BY <1>0 DEF HandRows, Stages
    <3>2. /\ x.step = "upload_audio" /\ x.film = worker[w].film /\ x.sound = sound
          /\ x.session = worker[w].session /\ x.run = worker[w].run
      BY <1>0 DEF HandRows
    <3> QED
      BY <3>1, <3>2
  <2>2. /\ worker' = [worker EXCEPT ![w] = x] /\ worker[w].step = "extract"
        /\ sound \in SoundsOf[worker[w].film]
    BY <1>5, <2>1 DEF Extract, At
  <2>3. HandFits(x, ToSet(assets), objects)
    BY <1>0, <2>1, <2>2 DEF HandFits, FilmInHand, FilmRecorded
  <2>4. RunFits(x, runs) /\ OnlyMine(x, runs)
    BY <1>0, <2>1, <2>2 DEF RunFits, OnlyMine, Unstarted
  <2> QED
    BY <1>0, <1>1, <2>1, <2>2, <2>3, <2>4, HandMoves
<1> QED
  BY <1>3, <1>4, <1>5

LEMMA BucketSteps ==
  ASSUME IngestionInv, NEW w \in Workers,
         UploadVideo(w) \/ UploadAudio(w) \/ RecordVideo(w) \/ RecordAudio(w)
  PROVE  IngestionInv'
<1>0. /\ HandFits(worker[w], ToSet(assets), objects) /\ worker[w] \in HandRows
      /\ worker[w].step \in {"upload_video", "record_video", "upload_audio", "record_audio"}
      /\ worker[w].step \notin Unstarted
  BY HandIs DEF UploadVideo, UploadAudio, RecordVideo, RecordAudio, At, Unstarted
<1>1. worker[w].film \in Films
  BY <1>0 DEF HandFits, FilmInHand
<1>2. CASE UploadVideo(w)
  <2>1. /\ worker[w].step = "upload_video" /\ Upload(worker[w].film) /\ Goto(w, "record_video")
        /\ UNCHANGED <<lock, runs, assets>> /\ worker[w].film \in objects'
    BY <1>2 DEF UploadVideo, At, Upload
  <2>2. PICK x \in HandRows : /\ x = [worker[w] EXCEPT !.step = "record_video"]
                              /\ x.step = "record_video" /\ x.film = worker[w].film
    BY HandStepIs DEF Stages
  <2>3. HandFits(x, ToSet(assets), objects')
    BY <1>1, <2>1, <2>2 DEF HandFits, FilmInHand, FilmRecorded
  <2> QED
    BY <1>0, <2>1, <2>2, <2>3, UploadKeeps
<1>3. CASE UploadAudio(w)
  <2>1. /\ worker[w].step = "upload_audio" /\ Upload(worker[w].sound) /\ Goto(w, "record_audio")
        /\ UNCHANGED <<lock, runs, assets>> /\ worker[w].sound \in objects'
    BY <1>3 DEF UploadAudio, At, Upload
  <2>2. PICK x \in HandRows : /\ x = [worker[w] EXCEPT !.step = "record_audio"]
                              /\ x.step = "record_audio"
                              /\ x.film = worker[w].film /\ x.sound = worker[w].sound
    BY HandStepIs DEF Stages
  <2>3. HandFits(x, ToSet(assets), objects')
    BY <1>0, <1>1, <2>1, <2>2 DEF HandFits, FilmInHand, FilmRecorded
  <2> QED
    BY <1>0, <2>1, <2>2, <2>3, UploadKeeps
<1>4. CASE RecordVideo(w)
  <2>1. PICK a \in MediaRows : /\ a = Video(worker[w].film) /\ a.kind = "video"
                               /\ a.digest = worker[w].film
    <3> DEFINE a == Video(worker[w].film)
    <3>1. a \in MediaRows /\ a.kind = "video" /\ a.digest = worker[w].film
      BY <1>1 DEF Video, MediaRows
    <3> QED
      BY <3>1
  <2>2. worker[w].step = "record_video" /\ Record(w, a, "extract")
    BY <1>4, <2>1 DEF RecordVideo, At
  <2>3. AssetFits(a, ToSet(assets), objects)
    BY <1>0, <1>1, <2>1, <2>2 DEF AssetFits, HandFits
  <2>4. PICK x \in HandRows : /\ x = [worker[w] EXCEPT !.step = "extract"]
                              /\ x.step = "extract" /\ x.film = worker[w].film
    BY HandStepIs DEF Stages
  <2>5. HandFits(x, ToSet(assets) \cup {a}, objects)
    BY <1>1, <2>1, <2>4 DEF HandFits, FilmInHand, FilmRecorded
  <2> QED
    BY <1>0, <2>2, <2>3, <2>4, <2>5, RecordKeeps
<1>5. CASE RecordAudio(w)
  <2>1. /\ worker[w].step = "record_audio" /\ Video(worker[w].film) \in ToSet(assets)
        /\ worker[w].sound \in SoundsOf[worker[w].film] /\ worker[w].sound \in objects
        /\ worker[w].sound \in Sounds
    <3>1. worker[w].step = "record_audio"
      BY <1>5 DEF RecordAudio, At
    <3>2. /\ Video(worker[w].film) \in ToSet(assets) /\ worker[w].sound \in SoundsOf[worker[w].film]
          /\ worker[w].sound \in objects
      BY <1>0, <3>1 DEF HandFits, FilmRecorded
    <3>3. SoundsOf[worker[w].film] \subseteq Sounds
      BY <1>1, MediaAssumption
    <3> QED
      BY <3>1, <3>2, <3>3
  <2>2. PICK a \in MediaRows : /\ a = Audio(worker[w].film, worker[w].sound) /\ a.kind = "audio"
                               /\ a.digest = worker[w].sound /\ a.parent = worker[w].film
    <3> DEFINE a == Audio(worker[w].film, worker[w].sound)
    <3>1. a \in MediaRows /\ a.kind = "audio"
      BY <1>1, <2>1 DEF Audio, MediaRows
    <3>2. a.digest = worker[w].sound /\ a.parent = worker[w].film
      BY DEF Audio
    <3> QED
      BY <3>1, <3>2
  <2>3. Record(w, a, "final")
    BY <1>5, <2>2 DEF RecordAudio
  <2>4. AssetFits(a, ToSet(assets), objects)
    BY <1>1, <2>1, <2>2 DEF AssetFits
  <2>5. PICK x \in HandRows : x = [worker[w] EXCEPT !.step = "final"] /\ x.step = "final"
    BY HandStepIs DEF Stages
  <2>6. Paired(ToSet(assets) \cup {a})
    BY <2>1, <2>2 DEF Paired, Video
  <2>7. HandFits(x, ToSet(assets) \cup {a}, objects)
    BY <2>5, <2>6 DEF HandFits, FilmInHand, FilmRecorded
  <2> QED
    BY <1>0, <2>3, <2>4, <2>5, <2>7, RecordKeeps
<1> QED
  BY <1>2, <1>3, <1>4, <1>5

LEMMA LoseSessionKeeps ==
  ASSUME IngestionInv, NEW w \in Workers, LoseSession(w)
  PROVE  IngestionInv'
<1>0. /\ HandFits(worker[w], ToSet(assets), objects) /\ RunFits(worker[w], runs)
      /\ worker[w] \in HandRows /\ (worker[w].session <=> lock = w) /\ w # NoWorker
  BY HandIs
<1>1. PICK x \in HandRows :
        /\ x = [worker[w] EXCEPT !.session = FALSE] /\ ~x.session /\ x.step = worker[w].step
        /\ x.run = worker[w].run /\ x.film = worker[w].film /\ x.sound = worker[w].sound
  <2> DEFINE x == [worker[w] EXCEPT !.session = FALSE]
  <2>1. x \in HandRows
    BY <1>0 DEF HandRows
  <2>2. /\ ~x.session /\ x.step = worker[w].step
        /\ x.run = worker[w].run /\ x.film = worker[w].film /\ x.sound = worker[w].sound
    BY <1>0 DEF HandRows
  <2> QED
    BY <2>1, <2>2
<1>2. /\ worker' = [worker EXCEPT ![w] = x] /\ lock = w /\ lock' = NoWorker
      /\ UNCHANGED <<runs, objects, assets>>
  BY <1>0, <1>1 DEF LoseSession
<1>3. HandFits(x, ToSet(assets), objects) /\ RunFits(x, runs) /\ OnlyMine(x, runs)
  BY <1>0, <1>1 DEF HandFits, RunFits, OnlyMine
<1> QED
  BY <1>0, <1>1, <1>2, <1>3, HandMoves

LEMMA IngestionSteps ==
  ASSUME IngestionInv, [IngestionNext]_ingestionVars
  PROVE  IngestionInv'
<1>1. CASE UNCHANGED ingestionVars
  <2>1. UNCHANGED <<lock, worker, runs, objects, assets>> /\ ToSet(assets') = ToSet(assets)
    BY <1>1 DEF ingestionVars, ToSet
  <2> QED
    BY <2>1 DEF IngestionInv
<1>2. ASSUME NEW w \in Workers, Die(w)
      PROVE  IngestionInv'
  BY <1>2, LeaveKeeps DEF Die
<1>3. CASE IngestionNext
  BY <1>2, <1>3, TryLockKeeps, CloseKeeps, CreateRunKeeps, StageSteps, FilmSteps, BucketSteps,
     FinishKeeps, LoseSessionKeeps DEF IngestionNext
<1> QED
  BY <1>1, <1>3

LEMMA IngestionStarts == IngestionInit => IngestionInv
<1> SUFFICES ASSUME IngestionInit PROVE IngestionInv
  OBVIOUS
<1>1. Idle \in HandRows /\ Idle.run = 0 /\ Idle.step = "idle" /\ ~Idle.session
  BY DEF Idle, HandRows, Unstarted
<1>2. HandFits(Idle, ToSet(assets), objects) /\ RunFits(Idle, runs) /\ OnlyMine(Idle, runs)
  BY <1>1, IdleFits
<1>3. worker \in [Workers -> HandRows] /\ \A w \in Workers : worker[w] = Idle
  BY <1>1 DEF IngestionInit
<1>4. \A w \in Workers : worker[w].session <=> lock = w
  BY <1>1, <1>3, MediaAssumption DEF IngestionInit
<1>5. \A v, w \in Workers : OtherRuns(worker[v], worker[w])
  BY <1>1, <1>3 DEF OtherRuns
<1> QED
  BY <1>2, <1>3, <1>4, <1>5 DEF IngestionInit, IngestionInv

(* What is recorded is there and belongs together, what a run says of      *)
(* itself is so, and an item is running only in the hands of the worker    *)
(* that has the lock, whichever workers die, lose their session or go on   *)
(* without it (media_ingestion.py run).                                    *)
THEOREM MediaStaysWhole == IngestionSpec => []MediaIsWhole
<1>1. ASSUME IngestionInv PROVE MediaIsWhole
  <2>1. \A i \in DOMAIN assets :
          /\ assets[i].digest \in objects
          /\ assets[i].kind = "audio" =>
               /\ Video(assets[i].parent) \in ToSet(assets)
               /\ assets[i].digest \in SoundsOf[assets[i].parent]
    BY <1>1 DEF IngestionInv, AssetFits
  <2>2. \A i \in DOMAIN runs :
          /\ runs[i].status = "success" => CompletedPair
          /\ runs[i].status = "failed" => runs[i].item = "failed"
    BY <1>1, PairsAreThere DEF IngestionInv, RunIs
  <2>3. ASSUME NEW i \in DOMAIN runs, runs[i].item = "running", NEW w \in Workers,
               lock = w, ~At(w, "close")
        PROVE  i = Run(w)
    BY <1>1, <2>3 DEF IngestionInv, OnlyMine, At, Run
  <2> QED
    BY <2>1, <2>2, <2>3 DEF MediaIsWhole
<1> QED
  BY <1>1, IngestionStarts, IngestionSteps, PTL DEF IngestionSpec

-----------------------------------------------------------------------------
(* The drafts of a profile. A key is the number of the submission that it  *)
(* was made for, and whatever carries a key later, pending, stored, sent   *)
(* again or saved, has the content of that submission.                     *)

CallRows ==
  [key : Nat, content : DraftContents, from : Nat, at : {"sent", "saved", "denied", "lost"},
   awaited : BOOLEAN]

Bound(d, c) == d.key \in DOMAIN c /\ c[d.key].content = d.content
Pending(d, c) == d = NoDraft \/ Bound(d, c)
Saved(k, S) == \E d \in S : d.key = k

CallFits(x, c, S) == x \in CallRows /\ Bound(x, c) /\ (x.at = "saved" => Saved(x.key, S))

DraftsInv ==
  /\ \E n \in Nat : Calls = 1..n
  /\ \A i \in Calls : CallFits(call[i], call, drafts)
  /\ {"number", "pending"} \subseteq DOMAIN panel /\ panel.number \in Nat
  /\ Pending(panel.pending, call) /\ Pending(storage, call)
  /\ \A d \in drafts : d.key = 0 \/ Bound(d, call)
  /\ SavedIsMine

LEMMA NextCallIs ==
  ASSUME DraftsInv
  PROVE  \E n \in Nat : Calls = 1..n /\ NextCall = n + 1 /\ n + 1 \notin Calls /\ 0 \notin Calls
<1>1. PICK n \in Nat : Calls = 1..n
  BY DEF DraftsInv
<1>2. Cardinality(Calls) = n
  BY <1>1, FS_Interval
<1> QED
  BY <1>1, <1>2 DEF NextCall

(* What happens to calls, panel and storage; no draft is written.          *)
LEMMA PanelGoes ==
  ASSUME DraftsInv, \E n \in Nat : Calls' = 1..n,
         \A i \in Calls : i \in Calls' /\ call'[i].content = call[i].content,
         \A i \in Calls' : CallFits(call'[i], call', drafts),
         {"number", "pending"} \subseteq DOMAIN panel', panel'.number \in Nat,
         Pending(panel'.pending, call'), Pending(storage', call'),
         UNCHANGED drafts,
         \A t \in told' : t \in told \/ (Bound(t, call) /\ Saved(t.key, drafts))
  PROVE  DraftsInv'
<1>1. PICK n \in Nat : Calls = 1..n /\ 0 \notin Calls
  BY NextCallIs
<1>2. \A d : Bound(d, call) => Bound(d, call')
  BY DEF Bound, Calls
<1>3. \A d \in drafts : d.key = 0 \/ Bound(d, call')
  BY <1>2 DEF DraftsInv
<1>4. ASSUME NEW t, Bound(t, call), Saved(t.key, drafts)
      PROVE  \E d \in drafts : d.key = t.key /\ d.content = t.content
  <2>1. PICK d \in drafts : d.key = t.key
    BY <1>4 DEF Saved
  <2>2. d.key # 0
    BY <1>1, <1>4, <2>1 DEF Bound, Calls
  <2> QED
    BY <1>4, <2>1, <2>2 DEF DraftsInv, Bound
<1>5. SavedIsMine'
  BY <1>4 DEF DraftsInv, SavedIsMine
<1> QED
  BY <1>3, <1>5 DEF DraftsInv

LEMMA CallGoes ==
  ASSUME DraftsInv, NEW i \in Calls, NEW x \in CallRows,
         x.key = call[i].key, x.content = call[i].content, call' = [call EXCEPT ![i] = x],
         drafts \subseteq drafts', x.at = "saved" => Saved(x.key, drafts')
  PROVE  /\ \E n \in Nat : Calls' = 1..n
         /\ \A j \in Calls : j \in Calls' /\ call'[j].content = call[j].content
         /\ \A j \in Calls' : CallFits(call'[j], call', drafts')
<1>0. call[i] \in CallRows /\ CallFits(call[i], call, drafts)
  BY DEF DraftsInv, CallFits
<1>1. /\ Calls' = Calls /\ call'[i] = x
      /\ \A j \in Calls : j # i => call'[j] = call[j]
  BY DEF Calls
<1>2. \A j \in Calls : call'[j].content = call[j].content
  BY <1>1
<1>3. \A d : Bound(d, call) => Bound(d, call')
  BY <1>1, <1>2 DEF Bound, Calls
<1>4. CallFits(x, call', drafts')
  BY <1>0, <1>3 DEF CallFits, Bound
<1>5. \A j \in Calls : CallFits(call[j], call, drafts) => CallFits(call[j], call', drafts')
  BY <1>3 DEF CallFits, Saved
<1>6. \A j \in Calls' : CallFits(call'[j], call', drafts')
  BY <1>1, <1>4, <1>5 DEF DraftsInv
<1>7. \E n \in Nat : Calls' = 1..n
  BY <1>1 DEF DraftsInv
<1> QED
  BY <1>1, <1>2, <1>6, <1>7

(* An answer that is awaited no longer, or a call that came to an end.     *)
LEMMA HeardIs ==
  ASSUME DraftsInv, NEW i \in Calls
  PROVE  \E x \in CallRows : /\ x = [call[i] EXCEPT !.awaited = FALSE]
                             /\ x.key = call[i].key /\ x.content = call[i].content /\ x.at = call[i].at
<1> DEFINE x == [call[i] EXCEPT !.awaited = FALSE]
<1>1. call[i] \in CallRows
  BY DEF DraftsInv, CallFits
<1>2. x \in CallRows
  BY <1>1 DEF CallRows
<1>3. x.key = call[i].key /\ x.content = call[i].content /\ x.at = call[i].at
  BY <1>1 DEF CallRows
<1> QED
  BY <1>2, <1>3

LEMMA ReachedIs ==
  ASSUME DraftsInv, NEW i \in Calls, NEW a \in {"sent", "saved", "denied", "lost"}
  PROVE  \E x \in CallRows : /\ x = [call[i] EXCEPT !.at = a]
                             /\ x.key = call[i].key /\ x.content = call[i].content /\ x.at = a
<1> DEFINE x == [call[i] EXCEPT !.at = a]
<1>1. call[i] \in CallRows
  BY DEF DraftsInv, CallFits
<1>2. x \in CallRows
  BY <1>1 DEF CallRows
<1>3. x.key = call[i].key /\ x.content = call[i].content /\ x.at = a
  BY <1>1 DEF CallRows
<1> QED
  BY <1>2, <1>3

LEMMA DraftIs ==
  ASSUME NEW k, NEW c
  PROVE  \E d : d = Draft(k, c) /\ d.key = k /\ d.content = c
<1>1. Draft(k, c).key = k /\ Draft(k, c).content = c
  BY DEF Draft
<1> QED
  BY <1>1

LEMMA SubmitKeeps ==
  ASSUME DraftsInv, NEW c \in DraftContents, SubmitDraft(c)
  PROVE  DraftsInv'
<1>1. PICK n \in Nat : Calls = 1..n /\ NextCall = n + 1 /\ n + 1 \notin Calls /\ 0 \notin Calls
  BY NextCallIs
<1>2. PICK m \in Nat : m = n + 1
  OBVIOUS
<1>3. PICK k : k = IF panel.pending = NoDraft THEN NextCall ELSE panel.pending.key
  OBVIOUS
<1>4. k \in 1..m /\ (k # m => k \in Calls /\ call[k].content = c)
  BY <1>1, <1>2, <1>3 DEF SubmitDraft, DraftsInv, Pending, Bound, Calls
<1>5. PICK x \in CallRows :
        /\ x = [key |-> k, content |-> c, from |-> panel.number, at |-> "sent", awaited |-> TRUE]
        /\ x.key = k /\ x.content = c /\ x.at = "sent"
  <2> DEFINE x == [key |-> k, content |-> c, from |-> panel.number, at |-> "sent", awaited |-> TRUE]
  <2>1. k \in Nat /\ panel.number \in Nat
    BY <1>2, <1>4 DEF DraftsInv
  <2>2. x \in CallRows
    BY <2>1 DEF CallRows
  <2> QED
    BY <2>2
<1>6. call' = [i \in 1..m |-> IF i \in Calls THEN call[i] ELSE x]
  BY <1>1, <1>2, <1>3, <1>5 DEF SubmitDraft
<1>7. 1..m = Calls \cup {m} /\ m \notin Calls
  BY <1>1, <1>2
<1>8. Calls' = 1..m /\ call'[m] = x /\ \A i \in Calls : call'[i] = call[i]
  BY <1>6, <1>7 DEF Calls
<1>9. \A d : Bound(d, call) => Bound(d, call')
  BY <1>7, <1>8 DEF Bound, Calls
<1>10. call'[k].content = c /\ k \in Calls'
  BY <1>4, <1>5, <1>7, <1>8
<1>11. CallFits(x, call', drafts)
  BY <1>5, <1>10 DEF CallFits, Bound, Calls
<1>12. \A i \in Calls' : CallFits(call'[i], call', drafts)
  BY <1>7, <1>8, <1>9, <1>11 DEF DraftsInv, CallFits
<1>13. PICK p : p = Draft(k, c) /\ p.key = k /\ p.content = c
  BY DraftIs
<1>14. Pending(p, call')
  BY <1>10, <1>13 DEF Pending, Bound, Calls
<1>15. storage' = p /\ panel' = [panel EXCEPT !.pending = p, !.intent = c, !.busy = TRUE]
       /\ UNCHANGED <<drafts, told>>
  BY <1>3, <1>13 DEF SubmitDraft
<1>16. {"number", "pending"} \subseteq DOMAIN panel' /\ panel'.number \in Nat /\ panel'.pending = p
  BY <1>15 DEF DraftsInv
<1> QED
  BY <1>2, <1>7, <1>8, <1>12, <1>14, <1>15, <1>16, PanelGoes

LEMMA AnswerKeeps ==
  ASSUME DraftsInv, NEW i \in Calls, Answer(i) \/ NoAnswer(i)
  PROVE  DraftsInv'
<1>1. PICK x \in CallRows :
        /\ x = [call[i] EXCEPT !.awaited = FALSE]
        /\ x.key = call[i].key /\ x.content = call[i].content /\ x.at = call[i].at
  BY HeardIs
<1>2. CallFits(call[i], call, drafts)
  BY DEF DraftsInv
<1>3. call' = [call EXCEPT ![i] = x] /\ UNCHANGED drafts
  BY <1>1 DEF Answer, NoAnswer, Hear
<1>4. x.at = "saved" => Saved(x.key, drafts')
  BY <1>1, <1>2, <1>3 DEF CallFits
<1>5. /\ \E n \in Nat : Calls' = 1..n
      /\ \A j \in Calls : j \in Calls' /\ call'[j].content = call[j].content
      /\ \A j \in Calls' : CallFits(call'[j], call', drafts)
  BY <1>1, <1>3, <1>4, CallGoes
<1>6. Pending(panel.pending, call') /\ Pending(storage, call') /\ Pending(NoDraft, call')
  BY <1>5 DEF DraftsInv, Pending, Bound, Calls
<1>7. CASE Answer(i)
  <2>1. storage' = NoDraft /\ (panel' = panel \/ panel' = [Cleared(panel) EXCEPT !.intent = NoDraft, !.busy = FALSE])
    BY <1>7 DEF Answer
  <2>2. {"number", "pending"} \subseteq DOMAIN panel' /\ panel'.number \in Nat
        /\ panel'.pending \in {panel.pending, NoDraft}
    BY <2>1 DEF DraftsInv, Cleared
  <2>3. PICK d : d = Draft(call[i].key, call[i].content) /\ d.key = call[i].key /\ d.content = call[i].content
    BY DraftIs
  <2>4. told' = told \/ (told' = told \cup {d} /\ call[i].at = "saved")
    BY <1>7, <2>3 DEF Answer
  <2>5. Bound(d, call) /\ (call[i].at = "saved" => Saved(d.key, drafts))
    BY <1>2, <2>3 DEF CallFits, Bound
  <2> QED
    BY <1>3, <1>5, <1>6, <2>1, <2>2, <2>4, <2>5, PanelGoes
<1>8. CASE NoAnswer(i)
  <2>1. (panel' = panel \/ panel' = [panel EXCEPT !.busy = FALSE]) /\ UNCHANGED <<storage, told>>
    BY <1>8 DEF NoAnswer
  <2>2. {"number", "pending"} \subseteq DOMAIN panel' /\ panel'.number \in Nat
        /\ panel'.pending = panel.pending
    BY <2>1 DEF DraftsInv
  <2> QED
    BY <1>3, <1>5, <1>6, <2>1, <2>2, PanelGoes
<1> QED
  BY <1>7, <1>8

(* A version is saved under the key of its call, unless that has one.      *)
LEMMA ExecuteKeeps ==
  ASSUME DraftsInv, NEW i \in Calls, ExecuteDraft(i) \/ LoseDraft(i)
  PROVE  DraftsInv'
<1>0. /\ CallFits(call[i], call, drafts) /\ UNCHANGED <<storage, panel, told>>
      /\ Pending(panel.pending, call) /\ Pending(storage, call)
      /\ {"number", "pending"} \subseteq DOMAIN panel /\ panel.number \in Nat
  BY DEF DraftsInv, ExecuteDraft, LoseDraft
<1>1. ASSUME NEW a \in {"denied", "lost"}, call' = [call EXCEPT ![i].at = a], UNCHANGED drafts
      PROVE  DraftsInv'
  <2>1. PICK x \in CallRows :
          /\ x = [call[i] EXCEPT !.at = a]
          /\ x.key = call[i].key /\ x.content = call[i].content /\ x.at = a
    BY ReachedIs
  <2>2. call' = [call EXCEPT ![i] = x] /\ x.at # "saved" /\ drafts \subseteq drafts'
    BY <1>1, <2>1
  <2>3. /\ \E n \in Nat : Calls' = 1..n
        /\ \A j \in Calls : j \in Calls' /\ call'[j].content = call[j].content
        /\ \A j \in Calls' : CallFits(call'[j], call', drafts)
    BY <1>1, <2>1, <2>2, CallGoes
  <2>4. Pending(panel.pending, call') /\ Pending(storage, call')
    BY <1>0, <2>3 DEF Pending, Bound, Calls
  <2> QED
    BY <1>0, <1>1, <2>3, <2>4, PanelGoes
<1>2. CASE ExecuteDraft(i) /\ manager
  <2>1. PICK n : /\ n = [key |-> call[i].key, content |-> call[i].content,
                         version |-> Cardinality(drafts) + 1]
                 /\ n.key = call[i].key /\ n.content = call[i].content
    <3> DEFINE n == [key |-> call[i].key, content |-> call[i].content,
                     version |-> Cardinality(drafts) + 1]
    <3>1. n.key = call[i].key /\ n.content = call[i].content
      OBVIOUS
    <3> QED
      BY <3>1
  <2>2. /\ call' = [call EXCEPT ![i].at = "saved"]
        /\ drafts' = IF Claimed(call[i].key) THEN drafts ELSE drafts \cup {n}
    BY <1>2, <2>1 DEF ExecuteDraft
  <2>3. drafts \subseteq drafts' /\ Saved(call[i].key, drafts')
    BY <2>1, <2>2 DEF Claimed, Saved
  <2>4. PICK x \in CallRows :
          /\ x = [call[i] EXCEPT !.at = "saved"]
          /\ x.key = call[i].key /\ x.content = call[i].content /\ x.at = "saved"
    BY ReachedIs
  <2>5. call' = [call EXCEPT ![i] = x]
    BY <2>2, <2>4
  <2>6. /\ \E m \in Nat : Calls' = 1..m
        /\ \A j \in Calls : j \in Calls' /\ call'[j].content = call[j].content
        /\ \A j \in Calls' : CallFits(call'[j], call', drafts')
    BY <2>3, <2>4, <2>5, CallGoes
  <2>7. \A d : Bound(d, call) => Bound(d, call')
    BY <2>6 DEF Bound, Calls
  <2>8. Pending(panel.pending, call') /\ Pending(storage, call')
    BY <1>0, <2>7 DEF Pending
  <2>9. Bound(n, call)
    BY <1>0, <2>1 DEF CallFits, Bound
  <2>10. \A d \in drafts' : d.key = 0 \/ Bound(d, call')
    BY <2>2, <2>7, <2>9 DEF DraftsInv
  <2>11. SavedIsMine'
    <3>1. \A d, e \in drafts' : d.key = e.key => d = e
      BY <2>1, <2>2 DEF DraftsInv, SavedIsMine, Claimed
    <3>2. \A t \in told' : \E d \in drafts' : d.key = t.key /\ d.content = t.content
      BY <1>0, <2>3 DEF DraftsInv, SavedIsMine
    <3> QED
      BY <3>1, <3>2 DEF SavedIsMine
  <2> QED
    BY <1>0, <2>6, <2>8, <2>10, <2>11 DEF DraftsInv
<1>3. CASE ExecuteDraft(i) /\ ~manager
  BY <1>1, <1>3 DEF ExecuteDraft
<1>4. CASE LoseDraft(i)
  BY <1>1, <1>4 DEF LoseDraft
<1> QED
  BY <1>2, <1>3, <1>4

(* The panel alone: opened anew, or at the end of a load.                  *)
LEMMA PanelSteps ==
  ASSUME DraftsInv,
         \/ \E reload \in BOOLEAN : Remount(reload)
         \/ ReadProfiles \/ TakeProfiles \/ ConfirmDraft \/ ChangeRole
  PROVE  DraftsInv'
<1>0. /\ {"number", "pending"} \subseteq DOMAIN panel /\ panel.number \in Nat
      /\ Pending(panel.pending, call) /\ Pending(storage, call) /\ Pending(NoDraft, call)
      /\ \E n \in Nat : Calls = 1..n
      /\ \A i \in Calls : CallFits(call[i], call, drafts)
  BY DEF DraftsInv, Pending
<1>1. ASSUME NEW reload \in BOOLEAN, Remount(reload)
      PROVE  DraftsInv'
  <2>1. panel' = FreshPanel(panel.number + 1, storage) /\ UNCHANGED <<drafts, storage, told>>
    BY <1>1 DEF Remount
  <2>2. panel.number + 1 \in Nat
    BY <1>0
  <2>3. {"number", "pending"} \subseteq DOMAIN panel' /\ panel'.number \in Nat /\ panel'.pending = storage
    BY <2>1, <2>2 DEF FreshPanel
  <2>4. Calls' = Calls
    BY <1>1 DEF Remount, Calls
  <2>5. ASSUME NEW i \in Calls
        PROVE  \E x \in CallRows : /\ x = call'[i] /\ x.key = call[i].key
                                   /\ x.content = call[i].content /\ x.at = call[i].at
    <3>1. PICK x \in CallRows :
            /\ x = [call[i] EXCEPT !.awaited = FALSE]
            /\ x.key = call[i].key /\ x.content = call[i].content /\ x.at = call[i].at
      BY HeardIs
    <3>2. call[i] \in CallRows
      BY <1>0 DEF CallFits
    <3>3. call'[i] = IF reload THEN x ELSE call[i]
      BY <1>1, <3>1 DEF Remount
    <3> QED
      BY <3>1, <3>2, <3>3
  <2>6. \A i \in Calls : i \in Calls' /\ call'[i].content = call[i].content
    BY <2>4, <2>5
  <2>7. \A d : Bound(d, call) => Bound(d, call')
    BY <2>6 DEF Bound, Calls
  <2>8. \A i \in Calls' : CallFits(call'[i], call', drafts)
    <3> SUFFICES ASSUME NEW i \in Calls PROVE CallFits(call'[i], call', drafts)
      BY <2>4
    <3>1. PICK x \in CallRows : /\ x = call'[i] /\ x.key = call[i].key
                                /\ x.content = call[i].content /\ x.at = call[i].at
      BY <2>5
    <3>2. CallFits(call[i], call, drafts) /\ Bound(call[i], call')
      BY <1>0, <2>7 DEF CallFits
    <3> QED
      BY <3>1, <3>2 DEF CallFits, Bound
  <2>9. Pending(panel'.pending, call') /\ Pending(storage', call')
    BY <1>0, <2>1, <2>3, <2>7 DEF Pending
  <2> QED
    BY <1>0, <2>1, <2>3, <2>4, <2>6, <2>8, <2>9, PanelGoes
<1>2. CASE ReadProfiles \/ ChangeRole
  <2>1. UNCHANGED <<drafts, call, storage, panel, told>>
    BY <1>2 DEF ReadProfiles, ChangeRole
  <2> QED
    BY <1>0, <2>1, PanelGoes DEF Calls
<1>3. CASE TakeProfiles
  <2>1. /\ panel' = [(IF history.manages THEN panel ELSE Cleared(panel)) EXCEPT !.viewer = history.manages]
        /\ storage' = NoDraft \/ storage' = storage
        /\ UNCHANGED <<drafts, call, told>>
    BY <1>3 DEF TakeProfiles
  <2>2. {"number", "pending"} \subseteq DOMAIN panel' /\ panel'.number \in Nat
        /\ panel'.pending \in {panel.pending, NoDraft}
    BY <1>0, <2>1 DEF Cleared
  <2> QED
    BY <1>0, <2>1, <2>2, PanelGoes DEF Calls
<1>4. CASE ConfirmDraft
  <2>1. UNCHANGED <<drafts, call>>
    BY <1>4 DEF ConfirmDraft
  <2>2. CASE UNCHANGED <<told, panel, storage>>
    BY <1>0, <2>1, <2>2, PanelGoes DEF Calls
  <2>3. CASE ~UNCHANGED <<told, panel, storage>>
    <3>1. /\ told' = told \cup {panel.pending} /\ storage' = NoDraft
          /\ panel' = [Cleared(panel) EXCEPT !.intent = NoDraft]
          /\ panel.pending # NoDraft /\ Confirms(panel.pending)
      BY <1>4, <2>3 DEF ConfirmDraft
    <3>2. {"number", "pending"} \subseteq DOMAIN panel' /\ panel'.number \in Nat
          /\ panel'.pending = NoDraft
      BY <1>0, <3>1 DEF Cleared
    <3>3. Bound(panel.pending, call) /\ Saved(panel.pending.key, drafts)
      BY <1>0, <3>1 DEF Pending, Confirms, Receipt, Saved
    <3> QED
      BY <1>0, <2>1, <3>1, <3>2, <3>3, PanelGoes DEF Calls
  <2> QED
    BY <2>2, <2>3
<1> QED
  BY <1>1, <1>2, <1>3, <1>4

LEMMA DraftsSteps ==
  ASSUME DraftsInv, [DraftsNext]_draftVars
  PROVE  DraftsInv'
<1>1. CASE UNCHANGED draftVars
  BY <1>1 DEF draftVars, DraftsInv, SavedIsMine, Calls
<1>2. CASE DraftsNext
  BY <1>2, SubmitKeeps, AnswerKeeps, ExecuteKeeps, PanelSteps DEF DraftsNext
<1> QED
  BY <1>1, <1>2

LEMMA DraftsStart == DraftsInit => DraftsInv
<1> SUFFICES ASSUME DraftsInit PROVE DraftsInv
  OBVIOUS
<1>1. Calls = 1..0
  BY DEF DraftsInit, Calls
<1>2. {"number", "pending"} \subseteq DOMAIN panel /\ panel.number \in Nat /\ panel.pending = NoDraft
  BY DEF DraftsInit, FreshPanel
<1>3. \A d, e \in drafts : d.key = 0 /\ (d.key = e.key => d = e)
  BY DEF DraftsInit, Other
<1>4. Pending(panel.pending, call) /\ Pending(storage, call)
  BY <1>2 DEF DraftsInit, Pending
<1>5. SavedIsMine
  BY <1>3 DEF SavedIsMine, DraftsInit
<1> QED
  BY <1>1, <1>2, <1>3, <1>4, <1>5 DEF DraftsInv

(* What the user is told is saved is saved, once and by that submission,   *)
(* whatever answers are lost and from whichever panel it is sent again     *)
(* (SubjectProfilePanel.tsx, mutate_subject_profile.py).                   *)
THEOREM SavedAsTold == DraftsSpec => []SavedIsMine
<1>1. DraftsInv => SavedIsMine
  BY DEF DraftsInv
<1> QED
  BY <1>1, DraftsStart, DraftsSteps, PTL DEF DraftsSpec

-----------------------------------------------------------------------------
(* The state of the dashboard. A row that a transaction has written is in  *)
(* no other's hands, so that what it counted stays so until it ends.       *)

RowSpace ==
  {KeyRow(k) : k \in StateKeys} \cup {CollectionRow(u) : u \in Owners}
    \cup {RowFor(r, n) : r \in StateRequests, n \in UNION {q.names : q \in StateRequests}}
WorkRows ==
  [step : {"claim", "open", "rows"}, key : StateKeys, request : StateRequests,
   rows : SUBSET RowSpace, todo : SUBSET UNION {q.names : q \in StateRequests}, count : Nat]
Outcomes == [key : StateKeys, request : StateRequests, count : Nat]

TouchedBy(r, rows) == {n \in r.names : RowFor(r, n) \in rows}

(* The work x of a session, where the outcomes are A and the items I.      *)
WorkFits(x, A, I) ==
  x.step # "idle" =>
    /\ x \in WorkRows
    /\ x.step = "claim" => x.rows = {} /\ x.count = 0
    /\ x.step # "claim" => KeyRow(x.key) \in x.rows /\ A[x.key] = NoAction
    /\ x.step = "open" => x.rows = {KeyRow(x.key)} /\ x.count = 0
    /\ x.step = "rows" =>
         /\ x.count = Cardinality(TouchedBy(x.request, x.rows))
         /\ x.todo \subseteq x.request.names \ TouchedBy(x.request, x.rows)
         /\ x.request.action = "add_to_collection" =>
              TouchedBy(x.request, x.rows) \cap I[x.request.owner] = {}
         /\ x.request.action = "remove_from_collection" =>
              TouchedBy(x.request, x.rows) \subseteq I[x.request.owner]

HeldRows(x) == IF x.step = "idle" THEN {} ELSE x.rows

ResearchInv ==
  /\ actions \in [StateKeys -> Outcomes \cup {NoAction}]
  /\ \A k \in StateKeys : actions[k] # NoAction => actions[k].key = k
  /\ \A x \in answered : x.key \in StateKeys /\ x = actions[x.key] /\ x # NoAction
  /\ items \in [Owners -> SUBSET UNION {q.names : q \in StateRequests}]
  /\ \A u \in Owners : IsFiniteSet(items[u]) /\ Cardinality(items[u]) = Reported(u)
  /\ DOMAIN desk = Desks
  /\ \A s \in Desks : WorkFits(desk[s], actions, items)
  /\ \A s, t \in Desks : s # t => HeldRows(desk[s]) \cap HeldRows(desk[t]) = {}

(* What one session does that commits nothing.                             *)
LEMMA WorkGoes ==
  ASSUME ResearchInv, NEW s \in Desks, NEW x, desk' = [desk EXCEPT ![s] = x],
         UNCHANGED <<actions, items>>, WorkFits(x, actions, items),
         HeldRows(x) \subseteq HeldRows(desk[s]) \/ \A t \in Desks : t # s => HeldRows(x) \cap HeldRows(desk[t]) = {},
         \A y \in answered' : y \in answered \/ \E k \in StateKeys : y = actions[k] /\ y # NoAction
  PROVE  ResearchInv'
<1>1. DOMAIN desk' = Desks /\ desk'[s] = x /\ \A t \in Desks : t # s => desk'[t] = desk[t]
  BY DEF ResearchInv
<1>2. \A t \in Desks : WorkFits(desk'[t], actions, items)
  BY <1>1 DEF ResearchInv
<1>3. \A t, u \in Desks : t # u => HeldRows(desk'[t]) \cap HeldRows(desk'[u]) = {}
  <2>1. \A t \in Desks : t # s => HeldRows(x) \cap HeldRows(desk[t]) = {}
    BY DEF ResearchInv
  <2>2. \A t, u \in Desks : t # u => HeldRows(desk[t]) \cap HeldRows(desk[u]) = {}
    BY DEF ResearchInv
  <2> QED
    BY <1>1, <2>1, <2>2
<1>4. \A y \in answered' : y.key \in StateKeys /\ y = actions[y.key] /\ y # NoAction
  BY DEF ResearchInv
<1>5. \A u \in Owners : Reported(u)' = Reported(u)
  BY DEF Reported
<1> QED
  BY <1>1, <1>2, <1>3, <1>4, <1>5 DEF ResearchInv

LEMMA EndsWork ==
  ASSUME NEW A, NEW I
  PROVE  WorkFits(NoWork, A, I) /\ HeldRows(NoWork) = {}
  BY DEF WorkFits, NoWork, HeldRows

LEMMA RowsDiffer ==
  ASSUME NEW r, NEW n
  PROVE  /\ \A k : RowFor(r, n) # KeyRow(k)
         /\ \A u : RowFor(r, n) # CollectionRow(u)
         /\ \A m : RowFor(r, n) = RowFor(r, m) => n = m
  BY DEF RowFor, KeyRow, CollectionRow

(* Requests that add or remove an item of one owner write the same row.    *)
LEMMA ItemRowsMeet ==
  ASSUME NEW q, NEW r, q.owner = r.owner, NEW n,
         q.action \in {"add_to_collection", "remove_from_collection"},
         r.action \in {"add_to_collection", "remove_from_collection"}
  PROVE  RowFor(q, n) = RowFor(r, n)
  BY DEF RowFor

LEMMA KeyRowsDiffer == \A k, l : KeyRow(k) = KeyRow(l) => k = l
  BY DEF KeyRow

LEMMA OpenSteps ==
  ASSUME ResearchInv, NEW s \in Desks,
         \/ \E k \in StateKeys, r \in StateRequests : SendRequest(s, k, r)
         \/ ClaimKey(s) \/ AbortRequest(s)
  PROVE  ResearchInv'
<1>0. UNCHANGED <<actions, items>> /\ WorkFits(desk[s], actions, items)
  BY DEF ResearchInv, SendRequest, ClaimKey, AbortRequest
<1>1. ASSUME NEW k \in StateKeys, NEW r \in StateRequests, SendRequest(s, k, r)
      PROVE  ResearchInv'
  <2>1. PICK x \in WorkRows :
          /\ x = [step |-> "claim", key |-> k, request |-> r, rows |-> {}, todo |-> {}, count |-> 0]
          /\ x.step = "claim" /\ x.rows = {} /\ x.count = 0
    <3> DEFINE x == [step |-> "claim", key |-> k, request |-> r, rows |-> {}, todo |-> {}, count |-> 0]
    <3>1. x \in WorkRows
      BY DEF WorkRows
    <3> QED
      BY <3>1
  <2>2. desk' = [desk EXCEPT ![s] = x] /\ UNCHANGED answered
    BY <1>1, <2>1 DEF SendRequest
  <2>3. WorkFits(x, actions, items) /\ HeldRows(x) = {}
    BY <2>1 DEF WorkFits, HeldRows
  <2> QED
    BY <1>0, <2>2, <2>3, WorkGoes
<1>2. CASE ClaimKey(s)
  <2>0. desk[s].step = "claim" /\ desk[s] \in WorkRows /\ Claimable(s)
    BY <1>0, <1>2 DEF ClaimKey, WorkFits
  <2>1. CASE desk' = [desk EXCEPT ![s] = NoWork]
    <3>1. \A y \in answered' : y \in answered \/ (y = actions[desk[s].key] /\ y # NoAction)
      <4>1. CASE actions[desk[s].key] = NoAction /\ UNCHANGED answered
        BY <4>1
      <4>2. CASE actions[desk[s].key] # NoAction
                 /\ answered' = IF actions[desk[s].key].request = Mine(s)
                                THEN answered \cup {actions[desk[s].key]} ELSE answered
        BY <4>2
      <4> QED
        BY <1>2, <4>1, <4>2 DEF ClaimKey
    <3>2. desk[s].key \in StateKeys
      BY <2>0 DEF WorkRows
    <3> QED
      BY <1>0, <2>1, <3>1, <3>2, EndsWork, WorkGoes
  <2>2. CASE /\ actions[desk[s].key] = NoAction /\ UNCHANGED answered
             /\ desk' = [desk EXCEPT ![s].step = "open", ![s].rows = {KeyRow(desk[s].key)}]
    <3>0. desk[s].key \in StateKeys /\ desk[s].count = 0
      BY <1>0, <2>0 DEF WorkFits, WorkRows
    <3>1. PICK x \in WorkRows :
            /\ x = [desk[s] EXCEPT !.step = "open", !.rows = {KeyRow(desk[s].key)}]
            /\ x.step = "open" /\ x.rows = {KeyRow(x.key)} /\ x.key = desk[s].key
            /\ x.count = desk[s].count
      <4> DEFINE x == [desk[s] EXCEPT !.step = "open", !.rows = {KeyRow(desk[s].key)}]
      <4>1. {KeyRow(desk[s].key)} \in SUBSET RowSpace
        BY <3>0 DEF RowSpace
      <4>2. x \in WorkRows
        BY <2>0, <4>1 DEF WorkRows
      <4>3. x.step = "open" /\ x.key = desk[s].key /\ x.count = desk[s].count
            /\ x.rows = {KeyRow(desk[s].key)}
        BY <2>0 DEF WorkRows
      <4> QED
        BY <4>2, <4>3
    <3>2. desk' = [desk EXCEPT ![s] = x]
      BY <2>2, <3>1
    <3>3. WorkFits(x, actions, items)
      BY <2>2, <3>0, <3>1 DEF WorkFits
    <3>4. \A t \in Desks : t # s => HeldRows(x) \cap HeldRows(desk[t]) = {}
      BY <2>0, <3>1 DEF HeldRows, Claimable, FreeOf, Written
    <3> QED
      BY <1>0, <2>2, <3>2, <3>3, <3>4, WorkGoes
  <2> QED
    BY <1>2, <2>1, <2>2 DEF ClaimKey
<1>3. CASE AbortRequest(s)
  <2>1. desk' = [desk EXCEPT ![s] = NoWork] /\ UNCHANGED answered
    BY <1>3 DEF AbortRequest
  <2> QED
    BY <1>0, <2>1, EndsWork, WorkGoes
<1> QED
  BY <1>1, <1>2, <1>3

LEMMA OpenBatchKeeps ==
  ASSUME ResearchInv, NEW s \in Desks, OpenBatch(s)
  PROVE  ResearchInv'
<1>0. /\ UNCHANGED <<actions, items, answered>> /\ desk[s].step = "open"
      /\ WorkFits(desk[s], actions, items)
  BY DEF ResearchInv, OpenBatch
<1>1. /\ desk[s] \in WorkRows /\ desk[s].rows = {KeyRow(desk[s].key)} /\ desk[s].count = 0
      /\ actions[desk[s].key] = NoAction
  BY <1>0 DEF WorkFits
<1> DEFINE r == desk[s].request
           todo == IF r.action = "remove_from_collection" THEN r.names \cap items[r.owner] ELSE r.names
           made == IF r.action = "add_to_collection" /\ r.owner \notin collections
                   THEN {CollectionRow(r.owner)} ELSE {}
           rows == desk[s].rows \cup made
<1>2. r \in StateRequests /\ r.owner \in Owners
  BY <1>1, ResearchAssumption DEF WorkRows
<1>3. todo \in SUBSET UNION {q.names : q \in StateRequests} /\ rows \in SUBSET RowSpace
  <2>1. made \subseteq RowSpace
    BY <1>2 DEF RowSpace
  <2>2. todo \subseteq r.names
    OBVIOUS
  <2>3. desk[s].rows \subseteq RowSpace
    BY <1>1 DEF WorkRows
  <2> QED
    BY <1>2, <2>1, <2>2, <2>3
<1>4. PICK x \in WorkRows :
        /\ x = [desk[s] EXCEPT !.step = "rows", !.todo = todo, !.rows = rows]
        /\ x.step = "rows" /\ x.rows = rows /\ x.key = desk[s].key /\ x.request = r /\ x.count = 0
        /\ x.todo = todo
  <2> DEFINE x == [desk[s] EXCEPT !.step = "rows", !.todo = todo, !.rows = rows]
  <2> HIDE DEF r, todo, rows
  <2>1. x \in WorkRows
    BY <1>1, <1>3 DEF WorkRows
  <2>2. x.step = "rows" /\ x.rows = rows /\ x.key = desk[s].key /\ x.count = 0 /\ x.todo = todo
    BY <1>1 DEF WorkRows
  <2>3. x.request = desk[s].request
    BY <1>1 DEF WorkRows
  <2> QED
    BY <2>1, <2>2, <2>3 DEF r
<1>5. desk' = [desk EXCEPT ![s] = x]
  <2>1. CASE r.action = "add_to_collection" /\ r.owner \notin collections
    BY <1>4, <2>1 DEF OpenBatch, Mine
  <2>2. CASE ~(r.action = "add_to_collection" /\ r.owner \notin collections)
    BY <1>4, <2>2 DEF OpenBatch, Mine
  <2> QED
    BY <2>1, <2>2
<1>6. TouchedBy(r, rows) = {}
  BY <1>1, RowsDiffer DEF TouchedBy
<1>7. WorkFits(x, actions, items)
  <2>1. KeyRow(x.key) \in x.rows /\ actions[x.key] = NoAction
    BY <1>1, <1>4
  <2>2. TouchedBy(x.request, x.rows) = {} /\ x.count = 0 /\ x.todo \subseteq x.request.names
    BY <1>4, <1>6
  <2> HIDE DEF r, rows
  <2> QED
    BY <1>4, <2>1, <2>2, FS_EmptySet DEF WorkFits
<1>8. \A t \in Desks : t # s => HeldRows(x) \cap HeldRows(desk[t]) = {}
  <2>1. \A t \in Desks : t # s => desk[s].rows \cap HeldRows(desk[t]) = {}
    BY <1>0 DEF ResearchInv, HeldRows
  <2>2. \A t \in Desks : t # s => made \cap HeldRows(desk[t]) = {}
    <3>1. CASE r.action = "add_to_collection"
      BY <3>1 DEF OpenBatch, FreeOf, Written, Mine, HeldRows
    <3>2. CASE r.action # "add_to_collection"
      BY <3>2
    <3> QED
      BY <3>1, <3>2
  <2>3. HeldRows(x) = rows
    BY <1>4 DEF HeldRows
  <2> QED
    BY <2>1, <2>2, <2>3
<1> QED
  BY <1>0, <1>5, <1>7, <1>8, WorkGoes

LEMMA ChangeRowKeeps ==
  ASSUME ResearchInv, NEW s \in Desks, NEW n \in UNION {q.names : q \in StateRequests}, ChangeRow(s, n)
  PROVE  ResearchInv'
<1>0. /\ UNCHANGED <<actions, items, answered>> /\ desk[s].step = "rows" /\ n \in desk[s].todo
      /\ WorkFits(desk[s], actions, items) /\ FreeOf(s, RowFor(desk[s].request, n))
  BY DEF ResearchInv, ChangeRow, Mine
<1>1. /\ desk[s] \in WorkRows /\ KeyRow(desk[s].key) \in desk[s].rows /\ actions[desk[s].key] = NoAction
      /\ desk[s].count = Cardinality(TouchedBy(desk[s].request, desk[s].rows))
      /\ desk[s].todo \subseteq desk[s].request.names \ TouchedBy(desk[s].request, desk[s].rows)
  BY <1>0 DEF WorkFits
<1>2. PICK r \in StateRequests : r = desk[s].request
  BY <1>1 DEF WorkRows
<1>3. CASE ~Changes(r, n)
  <2>1. PICK x \in WorkRows :
          /\ x = [desk[s] EXCEPT !.todo = desk[s].todo \ {n}]
          /\ x.step = "rows" /\ x.rows = desk[s].rows /\ x.key = desk[s].key
          /\ x.request = r /\ x.count = desk[s].count /\ x.todo \subseteq desk[s].todo
    <3> DEFINE x == [desk[s] EXCEPT !.todo = desk[s].todo \ {n}]
    <3>1. x \in WorkRows
      BY <1>1 DEF WorkRows
    <3>2. /\ x.step = "rows" /\ x.rows = desk[s].rows /\ x.key = desk[s].key
          /\ x.request = r /\ x.count = desk[s].count /\ x.todo \subseteq desk[s].todo
      BY <1>0, <1>1, <1>2 DEF WorkRows
    <3> QED
      BY <3>1, <3>2
  <2>2. desk' = [desk EXCEPT ![s] = x]
    BY <1>2, <1>3, <2>1 DEF ChangeRow, Mine
  <2>3. WorkFits(x, actions, items)
    BY <1>0, <1>1, <1>2, <2>1 DEF WorkFits
  <2>4. HeldRows(x) = HeldRows(desk[s])
    BY <1>0, <2>1 DEF HeldRows
  <2> QED
    BY <1>0, <2>2, <2>3, <2>4, WorkGoes
<1>4. CASE Changes(r, n)
  <2> DEFINE rows == desk[s].rows \cup {RowFor(r, n)}
  <2>0. RowFor(r, n) \in RowSpace /\ rows \in SUBSET RowSpace
    BY <1>1 DEF RowSpace, WorkRows
  <2>1. desk[s].count + 1 \in Nat
    BY <1>1 DEF WorkRows
  <2>2. PICK x \in WorkRows :
          /\ x = [desk[s] EXCEPT !.todo = desk[s].todo \ {n}, !.rows = rows, !.count = desk[s].count + 1]
          /\ x.step = "rows" /\ x.rows = rows /\ x.key = desk[s].key
          /\ x.request = r /\ x.count = desk[s].count + 1 /\ x.todo = desk[s].todo \ {n}
    <3> DEFINE x == [desk[s] EXCEPT !.todo = desk[s].todo \ {n}, !.rows = rows,
                                    !.count = desk[s].count + 1]
    <3>1. desk[s].todo \ {n} \in SUBSET UNION {q.names : q \in StateRequests}
      BY <1>1 DEF WorkRows
    <3> HIDE DEF rows
    <3>2. x \in WorkRows
      BY <1>1, <2>0, <2>1, <3>1 DEF WorkRows
    <3>3. /\ x.step = "rows" /\ x.rows = rows /\ x.key = desk[s].key
          /\ x.request = r /\ x.todo = desk[s].todo \ {n}
      BY <1>0, <1>1, <1>2 DEF WorkRows
    <3>4. x.count = desk[s].count + 1
      BY <1>1 DEF WorkRows
    <3> QED
      BY <3>2, <3>3, <3>4
  <2>3. desk' = [desk EXCEPT ![s] = x]
    BY <1>2, <1>4, <2>2 DEF ChangeRow, Mine
  <2>4. \A t \in Desks : t # s => HeldRows(x) \cap HeldRows(desk[t]) = {}
    <3>1. \A t \in Desks : t # s => desk[s].rows \cap HeldRows(desk[t]) = {}
      BY <1>0 DEF ResearchInv, HeldRows
    <3>2. \A t \in Desks : t # s => RowFor(r, n) \notin HeldRows(desk[t])
      BY <1>0, <1>2 DEF FreeOf, Written, HeldRows
    <3>3. HeldRows(x) = rows
      BY <2>2 DEF HeldRows
    <3> QED
      BY <3>1, <3>2, <3>3
  <2>5. n \in r.names /\ n \notin TouchedBy(r, desk[s].rows)
    BY <1>0, <1>1, <1>2
  <2>6. TouchedBy(r, rows) = TouchedBy(r, desk[s].rows) \cup {n}
    BY <2>5, RowsDiffer DEF TouchedBy
  <2>7. Cardinality(TouchedBy(r, rows)) = desk[s].count + 1
    <3>1. IsFiniteSet(TouchedBy(r, desk[s].rows))
      BY FS_Subset, ResearchAssumption DEF TouchedBy
    <3>2. \A T : IsFiniteSet(T) /\ n \notin T => Cardinality(T \cup {n}) = Cardinality(T) + 1
      BY FS_AddElement
    <3>3. desk[s].count = Cardinality(TouchedBy(r, desk[s].rows))
      BY <1>1, <1>2
    <3> HIDE DEF rows
    <3> QED
      BY <2>5, <2>6, <3>1, <3>2, <3>3
  <2>8. /\ r.action = "add_to_collection" => TouchedBy(r, rows) \cap items[r.owner] = {}
        /\ r.action = "remove_from_collection" => TouchedBy(r, rows) \subseteq items[r.owner]
    <3>1. /\ r.action = "add_to_collection" => TouchedBy(r, desk[s].rows) \cap items[r.owner] = {}
          /\ r.action = "remove_from_collection" => TouchedBy(r, desk[s].rows) \subseteq items[r.owner]
      BY <1>0, <1>2 DEF WorkFits
    <3>2. /\ r.action = "add_to_collection" => n \notin items[r.owner]
          /\ r.action = "remove_from_collection" => n \in items[r.owner]
      BY <1>4 DEF Changes
    <3> HIDE DEF rows
    <3> QED
      BY <2>6, <3>1, <3>2
  <2>9. KeyRow(x.key) \in x.rows /\ actions[x.key] = NoAction
    BY <1>1, <2>2
  <2>10. x.todo \subseteq r.names \ TouchedBy(r, rows)
    <3> HIDE DEF rows
    <3> QED
      BY <1>1, <1>2, <2>2, <2>6
  <2> HIDE DEF rows
  <2>11. WorkFits(x, actions, items)
    BY <2>2, <2>7, <2>8, <2>9, <2>10 DEF WorkFits
  <2> QED
    BY <1>0, <2>3, <2>4, <2>11, WorkGoes
<1> QED
  BY <1>3, <1>4

(* The sum of what the requests report, when one more is stored.           *)
LEMMA ReportGrows ==
  ASSUME ResearchInv, NEW u \in Owners, NEW k \in StateKeys, NEW x \in Outcomes,
         actions[k] = NoAction, actions' = [actions EXCEPT ![k] = x]
  PROVE  Reported(u)' = Reported(u) + NetOf(u, x) /\ Reported(u) \in Int /\ NetOf(u, x) \in Int
<1> DEFINE f == [l \in StateKeys |-> NetOf(u, actions[l])]
           g == [l \in StateKeys |-> NetOf(u, actions'[l])]
<1>1. \A y \in Outcomes \cup {NoAction} : NetOf(u, y) \in Int
  BY DEF NetOf, Outcomes
<1>2. NetOf(u, NoAction) = 0
  BY DEF NetOf
<1>3. actions'[k] = x /\ \A l \in StateKeys : l # k => actions'[l] = actions[l]
  BY DEF ResearchInv
<1>4. \A l \in StateKeys : f[l] \in Int /\ g[l] \in Int
  BY <1>1, <1>3 DEF ResearchInv
<1>5. \A l \in StateKeys \ {k} : f[l] = g[l]
  BY <1>3
<1>6. f[k] = 0 /\ g[k] = NetOf(u, x)
  BY <1>2, <1>3
<1>7. Reported(u) = SumFunctionOnSet(f, StateKeys)
  BY DEF Reported
<1>8. Reported(u)' = SumFunctionOnSet(g, StateKeys)
  BY DEF Reported
<1>9. SumFunctionOnSet(f, StateKeys) \in Int
  BY <1>4, ResearchAssumption, SumType
<1>10. NetOf(u, x) \in Int
  BY <1>1
<1> HIDE DEF f, g
<1>11. SumFunctionOnSet(g, StateKeys) = SumFunctionOnSet(f, StateKeys) - f[k] + g[k]
  BY <1>4, <1>5, ResearchAssumption, SumChange
<1> QED
  BY <1>6, <1>7, <1>8, <1>9, <1>10, <1>11

LEMMA SizesAdd ==
  ASSUME NEW S, NEW T, IsFiniteSet(S), IsFiniteSet(T), S \cap T = {}
  PROVE  IsFiniteSet(S \cup T) /\ Cardinality(S \cup T) = Cardinality(S) + Cardinality(T)
<1>1. IsFiniteSet(S \cup T)
  BY FS_Union
<1>2. Cardinality(S \cup T) = Cardinality(S) + Cardinality(T) - Cardinality(S \cap T)
  BY FS_Union
<1>3. Cardinality(S \cap T) = 0 /\ Cardinality(S) \in Nat /\ Cardinality(T) \in Nat
  BY FS_EmptySet, FS_CardinalityType
<1> QED
  BY <1>1, <1>2, <1>3

(* The items of an owner, when a request ends.                             *)
LEMMA ItemsGo ==
  ASSUME ResearchInv, NEW s \in Desks, NEW heard \in BOOLEAN, FinishRequest(s, heard),
         NEW x \in Outcomes, x.request = desk[s].request, x.count = desk[s].count,
         NEW u \in Owners
  PROVE  /\ items'[u] \in SUBSET UNION {q.names : q \in StateRequests}
         /\ IsFiniteSet(items'[u])
         /\ Cardinality(items'[u]) = Cardinality(items[u]) + NetOf(u, x)
<1>0. /\ desk[s].step = "rows" /\ WorkFits(desk[s], actions, items) /\ x # NoAction
      /\ IsFiniteSet(items[u]) /\ items[u] \subseteq UNION {q.names : q \in StateRequests}
  BY ResearchAssumption DEF ResearchInv, FinishRequest, Outcomes
<1>1. PICK r \in StateRequests : r = desk[s].request
  BY <1>0 DEF WorkFits, WorkRows
<1>2. PICK T : T = TouchedBy(r, desk[s].rows)
  OBVIOUS
<1>3. /\ T \subseteq r.names /\ IsFiniteSet(T) /\ x.count = Cardinality(T) /\ Cardinality(T) \in Nat
      /\ r.action = "add_to_collection" => T \cap items[r.owner] = {}
      /\ r.action = "remove_from_collection" => T \subseteq items[r.owner]
  <2>1. T \subseteq r.names
    BY <1>2 DEF TouchedBy
  <2>2. IsFiniteSet(T) /\ Cardinality(T) \in Nat
    BY <2>1, ResearchAssumption, FS_Subset, FS_CardinalityType
  <2>3. /\ x.count = Cardinality(T)
        /\ r.action = "add_to_collection" => T \cap items[r.owner] = {}
        /\ r.action = "remove_from_collection" => T \subseteq items[r.owner]
    BY <1>0, <1>1, <1>2 DEF WorkFits
  <2> QED
    BY <2>1, <2>2, <2>3
<1>4. items'[u] = IF u # r.owner THEN items[u]
                  ELSE IF r.action = "add_to_collection" THEN items[u] \cup T
                  ELSE IF r.action = "remove_from_collection" THEN items[u] \ T
                  ELSE items[u]
  BY <1>1, <1>2 DEF FinishRequest, Mine, Touched, TouchedBy
<1>5. Cardinality(items[u]) \in Nat
  BY <1>0, FS_CardinalityType
<1>6. CASE u # r.owner
  BY <1>0, <1>1, <1>4, <1>5, <1>6 DEF NetOf
<1>7. CASE u = r.owner /\ r.action = "add_to_collection"
  <2>1. items'[u] = items[u] \cup T /\ items[u] \cap T = {}
    BY <1>3, <1>4, <1>7
  <2>2. Cardinality(items[u] \cup T) = Cardinality(items[u]) + Cardinality(T) /\ IsFiniteSet(items[u] \cup T)
    BY <1>0, <1>3, <2>1, SizesAdd
  <2>3. NetOf(u, x) = Cardinality(T)
    BY <1>0, <1>1, <1>3, <1>7 DEF NetOf
  <2> QED
    BY <1>0, <1>3, <2>1, <2>2, <2>3
<1>8. CASE u = r.owner /\ r.action = "remove_from_collection"
  <2>1. items'[u] = items[u] \ T /\ T \subseteq items[u] /\ IsFiniteSet(items[u] \ T)
    BY <1>0, <1>3, <1>4, <1>8, FS_Subset
  <2>2. (items[u] \ T) \cup T = items[u] /\ (items[u] \ T) \cap T = {}
    BY <2>1
  <2>3. Cardinality((items[u] \ T) \cup T) = Cardinality(items[u] \ T) + Cardinality(T)
    BY <1>3, <2>1, <2>2, SizesAdd
  <2>4. Cardinality(items[u] \ T) \in Nat
    BY <2>1, FS_CardinalityType
  <2>5. NetOf(u, x) = 0 - Cardinality(T)
    BY <1>0, <1>1, <1>3, <1>8 DEF NetOf
  <2>6. Cardinality(items[u]) = Cardinality(items[u] \ T) + Cardinality(T)
    BY <2>2, <2>3
  <2> QED
    BY <1>0, <1>3, <1>5, <2>1, <2>4, <2>5, <2>6
<1>9. CASE u = r.owner /\ r.action \notin {"add_to_collection", "remove_from_collection"}
  BY <1>0, <1>1, <1>4, <1>5, <1>9 DEF NetOf
<1> QED
  BY <1>6, <1>7, <1>8, <1>9

(* A request ends: the rows it wrote are in no other's hands, so what the  *)
(* others counted in its collection is as they found it.                   *)
LEMMA FinishRequestKeeps ==
  ASSUME ResearchInv, NEW s \in Desks, NEW heard \in BOOLEAN, FinishRequest(s, heard)
  PROVE  ResearchInv'
<1>0. /\ desk[s].step = "rows" /\ WorkFits(desk[s], actions, items)
      /\ desk' = [desk EXCEPT ![s] = NoWork]
  BY DEF ResearchInv, FinishRequest
<1>1. /\ desk[s] \in WorkRows /\ KeyRow(desk[s].key) \in desk[s].rows /\ actions[desk[s].key] = NoAction
  BY <1>0 DEF WorkFits
<1>2. PICK k \in StateKeys : k = desk[s].key
  BY <1>1 DEF WorkRows
<1>3. PICK r \in StateRequests : r = desk[s].request
  BY <1>1 DEF WorkRows
<1>4. PICK x \in Outcomes : /\ x = Outcome(k, r, desk[s].count)
                            /\ x.key = k /\ x.request = r /\ x.count = desk[s].count
  <2> DEFINE x == Outcome(k, r, desk[s].count)
  <2>1. desk[s].count \in Nat
    BY <1>1 DEF WorkRows
  <2>2. x \in Outcomes
    BY <2>1 DEF Outcome, Outcomes
  <2>3. x.key = k /\ x.request = r /\ x.count = desk[s].count
    BY DEF Outcome
  <2> QED
    BY <2>2, <2>3
<1>5. /\ actions' = [actions EXCEPT ![k] = x] /\ actions[k] = NoAction /\ x # NoAction
      /\ answered' = IF heard THEN answered \cup {x} ELSE answered
  BY <1>1, <1>2, <1>3, <1>4, ResearchAssumption DEF FinishRequest, Mine, Outcomes
<1>6. /\ actions' \in [StateKeys -> Outcomes \cup {NoAction}] /\ actions'[k] = x
      /\ \A l \in StateKeys : l # k => actions'[l] = actions[l]
  BY <1>5 DEF ResearchInv
<1>7. \A l \in StateKeys : actions'[l] # NoAction => actions'[l].key = l
  BY <1>4, <1>6 DEF ResearchInv
<1>8. \A y \in answered' : y.key \in StateKeys /\ y = actions'[y.key] /\ y # NoAction
  <2>1. \A y \in answered : y.key \in StateKeys /\ y = actions[y.key] /\ y # NoAction
    BY DEF ResearchInv
  <2>2. \A y \in answered : y.key # k
    BY <1>5, <2>1
  <2> QED
    BY <1>4, <1>5, <1>6, <2>1, <2>2
<1>9. ASSUME NEW u \in Owners
      PROVE  /\ items'[u] \in SUBSET UNION {q.names : q \in StateRequests} /\ IsFiniteSet(items'[u])
             /\ Cardinality(items'[u]) = Reported(u)'
  <2>1. /\ items'[u] \in SUBSET UNION {q.names : q \in StateRequests} /\ IsFiniteSet(items'[u])
        /\ Cardinality(items'[u]) = Cardinality(items[u]) + NetOf(u, x)
    BY <1>3, <1>4, ItemsGo
  <2>2. Reported(u)' = Reported(u) + NetOf(u, x)
    BY <1>5, ReportGrows
  <2>3. Cardinality(items[u]) = Reported(u)
    BY DEF ResearchInv
  <2> QED
    BY <2>1, <2>2, <2>3
<1>10. items' \in [Owners -> SUBSET UNION {q.names : q \in StateRequests}]
  BY <1>9 DEF FinishRequest
<1>11. /\ DOMAIN desk' = Desks /\ desk'[s] = NoWork
       /\ \A t \in Desks : t # s => desk'[t] = desk[t]
  BY <1>0 DEF ResearchInv
<1>12. ASSUME NEW t \in Desks, t # s
       PROVE  WorkFits(desk[t], actions', items')
  <2>1. WorkFits(desk[t], actions, items) /\ HeldRows(desk[s]) \cap HeldRows(desk[t]) = {}
    BY <1>12 DEF ResearchInv
  <2>2. SUFFICES ASSUME desk[t].step # "idle" PROVE WorkFits(desk[t], actions', items')
    BY DEF WorkFits
  <2>3. desk[t] \in WorkRows /\ desk[s].rows \cap desk[t].rows = {}
    BY <1>0, <2>1, <2>2 DEF WorkFits, HeldRows
  <2>4. desk[t].step # "claim" => KeyRow(desk[t].key) \in desk[t].rows /\ actions'[desk[t].key] = NoAction
    <3>1. desk[t].key \in StateKeys
      BY <2>3 DEF WorkRows
    <3>2. desk[t].step # "claim" => KeyRow(desk[t].key) \in desk[t].rows /\ actions[desk[t].key] = NoAction
      BY <2>1, <2>2 DEF WorkFits
    <3>3. desk[t].step # "claim" => desk[t].key # k
      BY <1>1, <1>2, <2>3, <3>2
    <3> QED
      BY <1>6, <3>1, <3>2, <3>3
  <2>5. PICK q \in StateRequests : q = desk[t].request
    BY <2>3 DEF WorkRows
  <2>6. ASSUME q.action \in {"add_to_collection", "remove_from_collection"},
               NEW n \in TouchedBy(q, desk[t].rows)
        PROVE  n \in items'[q.owner] <=> n \in items[q.owner]
    <3>1. q.owner \in Owners
      BY ResearchAssumption
    <3>2. q.owner = r.owner /\ r.action \in {"add_to_collection", "remove_from_collection"}
             => n \notin Touched(s)
      BY <1>3, <2>3, <2>6, ItemRowsMeet DEF Touched, TouchedBy, Mine
    <3> QED
      BY <1>3, <3>1, <3>2 DEF FinishRequest, Mine
  <2>7. desk[t].step = "rows" =>
          /\ q.action = "add_to_collection" => TouchedBy(q, desk[t].rows) \cap items'[q.owner] = {}
          /\ q.action = "remove_from_collection" => TouchedBy(q, desk[t].rows) \subseteq items'[q.owner]
    <3>1. desk[t].step = "rows" =>
            /\ q.action = "add_to_collection" => TouchedBy(q, desk[t].rows) \cap items[q.owner] = {}
            /\ q.action = "remove_from_collection" => TouchedBy(q, desk[t].rows) \subseteq items[q.owner]
      BY <2>1, <2>5 DEF WorkFits
    <3> QED
      BY <2>6, <3>1
  <2> QED
    BY <2>1, <2>4, <2>5, <2>7 DEF WorkFits
<1>13. \A t \in Desks : WorkFits(desk'[t], actions', items')
  BY <1>11, <1>12, EndsWork
<1>14. \A t, u \in Desks : t # u => HeldRows(desk'[t]) \cap HeldRows(desk'[u]) = {}
  <2>1. \A t, u \in Desks : t # u => HeldRows(desk[t]) \cap HeldRows(desk[u]) = {}
    BY DEF ResearchInv
  <2> QED
    BY <1>11, <2>1, EndsWork
<1> QED
  BY <1>6, <1>7, <1>8, <1>9, <1>10, <1>11, <1>13, <1>14 DEF ResearchInv

LEMMA ResearchSteps ==
  ASSUME ResearchInv, [ResearchNext]_researchVars
  PROVE  ResearchInv'
<1>1. CASE UNCHANGED researchVars
  <2>1. UNCHANGED <<actions, items, desk, answered>>
    BY <1>1 DEF researchVars
  <2>2. \A u \in Owners : Reported(u)' = Reported(u)
    BY <2>1 DEF Reported
  <2> QED
    BY <2>1, <2>2 DEF ResearchInv
<1>2. CASE ResearchNext
  BY <1>2, OpenSteps, OpenBatchKeeps, ChangeRowKeeps, FinishRequestKeeps DEF ResearchNext
<1> QED
  BY <1>1, <1>2

LEMMA ResearchStarts == ResearchInit => ResearchInv
<1> SUFFICES ASSUME ResearchInit PROVE ResearchInv
  OBVIOUS
<1>1. /\ \A k \in StateKeys : actions[k] = NoAction
      /\ actions \in [StateKeys -> Outcomes \cup {NoAction}]
      /\ items \in [Owners -> SUBSET UNION {q.names : q \in StateRequests}]
      /\ answered = {} /\ DOMAIN desk = Desks /\ \A s \in Desks : desk[s] = NoWork
  BY DEF ResearchInit
<1>2. ASSUME NEW u \in Owners
      PROVE  IsFiniteSet(items[u]) /\ Cardinality(items[u]) = Reported(u)
  <2> DEFINE f == [k \in StateKeys |-> NetOf(u, actions[k])]
  <2>1. items[u] = {}
    BY DEF ResearchInit
  <2>2. \A k \in StateKeys : f[k] = 0
    BY <1>1 DEF NetOf
  <2>3. Reported(u) = SumFunctionOnSet(f, StateKeys)
    BY DEF Reported
  <2> HIDE DEF f
  <2>4. Reported(u) = 0
    BY <2>2, <2>3, ResearchAssumption, SumZero
  <2> QED
    BY <2>1, <2>4, FS_EmptySet
<1>3. \A s \in Desks : WorkFits(desk[s], actions, items) /\ HeldRows(desk[s]) = {}
  BY <1>1, EndsWork
<1> QED
  BY <1>1, <1>2, <1>3 DEF ResearchInv

(* A request takes effect once: every answer under a key is the stored one,*)
(* and a collection holds exactly what the stored answers say was added    *)
(* and removed, for any users, keys and sessions, however often requests   *)
(* are sent again, wait for each other's rows or are broken off            *)
(* (mutate_research_state.py).                                             *)
THEOREM RequestsHappenOnce == ResearchSpec => []ActionsHappenOnce
<1>1. ResearchInv => ActionsHappenOnce
  BY DEF ResearchInv, ActionsHappenOnce
<1> QED
  BY <1>1, ResearchStarts, ResearchSteps, PTL DEF ResearchSpec
=============================================================================
