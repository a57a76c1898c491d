----------------------------- MODULE SupplierSpend -----------------------------
(***************************************************************************)
(* The supplier's daily totals: the hourly job sync_daily_spend.py, the    *)
(* snapshots it stores (providers/daily_spend.py) and the dashboard pages  *)
(* that read them.                                                         *)
(*                                                                         *)
(* The total of a day only grows while the supplier counts it, so a total  *)
(* is modelled by the instant of the supplier's count. Days are the        *)
(* supplier's. One job runs at a time under a session advisory lock, which *)
(* vanishes with its connection while the job goes on.                     *)
(***************************************************************************)
EXTENDS Naturals, FiniteSets

CONSTANTS
  SyncJobs,    \* scheduled and manual runs of the script
  DayLength,   \* ticks of a supplier day
  Transit,     \* ticks an answer may take; a slower one times out
  StaleAfter,  \* ticks until a snapshot is shown as stale (two hours)
  LastTick,    \* bound: the clock
  NoSnapshot, NoJob

ASSUME SpendAssumption ==
  /\ DayLength \in Nat \ {0} /\ LastTick \in Nat /\ Transit \in Nat /\ StaleAfter \in Nat
  /\ NoJob \notin SyncJobs
  /\ NoSnapshot \notin [date : Nat, asOf : Nat, fetched : Nat]

VARIABLES
  now,       \* the clock
  syncLock,  \* holder of the advisory lock LOCK_NAME
  sync,      \* the jobs
  daily,     \* supplier_daily_spend: the row of each day
  offered,   \* history: the snapshots that upserts offered
  dropped    \* history: whether a job has lost the lock it held

spendVars == <<now, syncLock, sync, daily, offered, dropped>>

DayOf(t) == t \div DayLength
SpendDays == DayOf(0)..DayOf(LastTick)
IdleSync == [step |-> "idle"]

SpendInit ==
  /\ now = 0
  /\ syncLock = NoJob
  /\ sync = [j \in SyncJobs |-> IdleSync]
  /\ daily = [d \in SpendDays |-> NoSnapshot]
  /\ offered = {} /\ dropped = FALSE

Tick ==
  /\ now < LastTick
  /\ now' = now + 1
  /\ UNCHANGED <<syncLock, sync, daily, offered, dropped>>

(* The context manager unlocks however the job ends; on a connection that  *)
(* is gone this raises instead.                                            *)
EndSync(j) ==
  /\ sync' = [sync EXCEPT ![j] = IdleSync]
  /\ syncLock' = IF syncLock = j THEN NoJob ELSE syncLock

(* Mutant: the answer of pg_try_advisory_lock is not looked at. *)
LockTaken(holder) == TRUE

(* pg_try_advisory_lock does not wait: a second job raises.                *)
LockFree(holder) == holder = NoJob

(* _single_sync, and the request that follows.                             *)
BeginSync(j) ==
  /\ sync[j].step = "idle"
  /\ LockFree(syncLock)
  /\ syncLock' = j
  /\ sync' = [sync EXCEPT ![j].step = "asked"]
  /\ UNCHANGED <<now, daily, offered, dropped>>

DropSession(j) ==
  /\ syncLock = j
  /\ syncLock' = NoJob
  /\ dropped' = TRUE
  /\ UNCHANGED <<now, sync, daily, offered>>

(* The supplier counts its current day.                                    *)
SupplierCounts(j) ==
  /\ sync[j].step = "asked"
  /\ sync' = [sync EXCEPT ![j] = [step |-> "counted", asOf |-> now]]
  /\ UNCHANGED <<now, syncLock, daily, offered, dropped>>

(* parse_tikhub_daily_usage: the answer, with the time it is parsed at.    *)
Snapshot(asOf) == [date |-> DayOf(asOf), asOf |-> asOf, fetched |-> now]

TakeAnswer(j) ==
  /\ sync[j].step = "counted"
  /\ now - sync[j].asOf <= Transit
  /\ sync' = [sync EXCEPT ![j] = [step |-> "parsed", snapshot |-> Snapshot(sync[j].asOf)]]
  /\ UNCHANGED <<now, syncLock, daily, offered, dropped>>

(* An HTTP error, a timeout, a response that is refused, a database error: *)
(* the job ends and stores nothing.                                        *)
FailSync(j) ==
  /\ sync[j].step # "idle"
  /\ EndSync(j)
  /\ UNCHANGED <<now, daily, offered, dropped>>

(* Mutant: the later write wins. *)
MayReplace(row, snapshot) == TRUE

(* where supplier_daily_spend.fetched_at <= excluded.fetched_at            *)
Replaces(row, snapshot) == row.fetched <= snapshot.fetched

(* upsert_supplier_daily_spend, on a connection of its own.                *)
Upsert(j) ==
  LET s == sync[j].snapshot
      row == daily[s.date] IN
  /\ sync[j].step = "parsed"
  /\ daily' = [daily EXCEPT ![s.date] = IF row = NoSnapshot THEN s
                                        ELSE IF Replaces(row, s) THEN s ELSE row]
  /\ offered' = offered \cup {s}
  /\ EndSync(j)
  /\ UNCHANGED <<now, dropped>>

SpendNext ==
  \/ Tick
  \/ \E j \in SyncJobs :
       \/ BeginSync(j) \/ DropSession(j) \/ SupplierCounts(j) \/ TakeAnswer(j)
       \/ FailSync(j) \/ Upsert(j)

SpendSpec == SpendInit /\ [][SpendNext]_spendVars

-----------------------------------------------------------------------------
(* What the home page and the operations page make of the rows.            *)

Fresh2h(row) == now - row.fetched <= StaleAfter
CurrentDay(d) == d = DayOf(now)

(* _daily_supplier_spend, today: the rows of the supplier's current day.   *)
ShownToday == {daily[d] : d \in {e \in SpendDays : CurrentDay(e)}} \ {NoSnapshot}

(* ----------------------------- properties ------------------------------ *)

(* Jobs may overlap once a connection is lost, and a slow answer may be    *)
(* stored after a quick one. The row of a day is always the snapshot that  *)
(* was fetched last; as long as no lock was lost its total is the largest  *)
(* the supplier reported, and what a page shows as fresh is not older than *)
(* it claims by more than the time an answer may take.                     *)
LatestKept ==
  /\ \A s \in offered :
       /\ s.fetched <= daily[s.date].fetched
       /\ ~dropped => s.asOf <= daily[s.date].asOf
  /\ \A row \in ShownToday : Fresh2h(row) => now - row.asOf <= StaleAfter + Transit
=============================================================================
