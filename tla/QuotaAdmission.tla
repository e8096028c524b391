---------------------------- MODULE QuotaAdmission ----------------------------
(***************************************************************************)
(* The request quota of an API key: check_quota_and_admit                  *)
(* (crates/conduit-bin/src/wiring_postgres_auth.rs) and                    *)
(* admit_postgres_request (crates/conduit-db/src/pg_quota_admission.rs).   *)
(* The callers are requests of one key and one profile, in any process.    *)
(* A caller reads the clock and computes its window first, waits for the   *)
(* key's advisory lock, counts the admissions of that window, and inserts  *)
(* its own with the time it read at the beginning.                         *)
(***************************************************************************)
EXTENDS Integers, FiniteSets

CONSTANTS Callers,    \* requests of the key
          Kind,       \* the quota's period: "all_time", "past" or "calendar"
          Span,       \* length of the past duration, or of a calendar bucket
          Amount,     \* calendar buckets that a window covers
          Limit,      \* quota.requests; negative for no limit
          MaxClock    \* bound on the clock

QuotaConstants ==
  /\ IsFiniteSet(Callers)
  /\ Kind \in {"all_time", "past", "calendar"}
  /\ Span \in Nat \ {0} /\ Amount \in Nat \ {0}
  /\ Limit \in Int /\ MaxClock \in Nat

ASSUME QuotaIsSound == QuotaConstants

VARIABLES
  clock,    \* Utc::now
  stamp,    \* stamp[c]: what caller c read as the time
  at,       \* at[c]: created_at of its row in api_key_quota_admissions
  locked,   \* who holds the advisory lock of the key
  pc        \* pc[c]: the step caller c is at

quotaVars == <<clock, stamp, at, locked, pc>>

Never == -1
Nobody == {}
Times == 0..MaxClock
Steps == {"idle", "usage", "lock", "count", "insert", "admitted", "refused", "failed"}

TypeOK ==
  /\ clock \in Times
  /\ stamp \in [Callers -> Times]
  /\ at \in [Callers -> Times \cup {Never}]
  /\ locked \in SUBSET Callers
  /\ pc \in [Callers -> Steps]

Goto(c, step) == pc' = [pc EXCEPT ![c] = step]

\* QuotaPeriod::window of an instant, as the set of the instants it covers.
Window(t) ==
  CASE Kind = "all_time" -> {s \in Times: s <= t}
    [] Kind = "past"     -> {s \in Times: t - Span <= s /\ s <= t}
    [] OTHER             -> {s \in Times: /\ (t \div Span) - (Amount - 1) <= s \div Span
                                          /\ s \div Span <= t \div Span}

Admissions(W) == {c \in Callers: at[c] \in W}

QuotaInit ==
  /\ clock = 0
  /\ stamp = [c \in Callers |-> 0]
  /\ at = [c \in Callers |-> Never]
  /\ locked = Nobody
  /\ pc = [c \in Callers |-> "idle"]

Arrive(c) ==
  /\ pc[c] = "idle"
  /\ stamp' = [stamp EXCEPT ![c] = clock]
  /\ Goto(c, "usage")
  /\ UNCHANGED <<clock, at, locked>>

\* The tokens and the cost logged so far may already exceed the quota.
CheckUsage(c) ==
  /\ pc[c] = "usage"
  /\ Goto(c, "lock") \/ Goto(c, "refused")
  /\ UNCHANGED <<clock, stamp, at, locked>>

\* A faulty version: the transaction does not wait for the lock.
NoLock(c) ==
  /\ pc[c] = "lock"
  /\ Goto(c, "count")
  /\ UNCHANGED <<clock, stamp, at, locked>>

\* pg_advisory_xact_lock
Lock(c) ==
  /\ pc[c] = "lock" /\ locked = Nobody
  /\ locked' = {c}
  /\ Goto(c, "count")
  /\ UNCHANGED <<clock, stamp, at>>

\* A faulty version: the refusal leaves the transaction, and its lock, open.
CountKeepingLock(c) ==
  /\ pc[c] = "count"
  /\ Goto(c, IF Limit >= 0 /\ Cardinality(Admissions(Window(stamp[c]))) >= Limit
             THEN "refused" ELSE "insert")
  /\ UNCHANGED <<clock, stamp, at, locked>>

\* The rollback of a refused request releases the lock.
Count(c) ==
  /\ pc[c] = "count"
  /\ IF Limit >= 0 /\ Cardinality(Admissions(Window(stamp[c]))) >= Limit
     THEN Goto(c, "refused") /\ locked' = locked \ {c}
     ELSE Goto(c, "insert") /\ UNCHANGED locked
  /\ UNCHANGED <<clock, stamp, at>>

\* The row is committed, and the answer of the commit may be lost.
Insert(c) ==
  /\ pc[c] = "insert"
  /\ at' = [at EXCEPT ![c] = stamp[c]]
  /\ locked' = locked \ {c}
  /\ Goto(c, "admitted") \/ Goto(c, "failed")
  /\ UNCHANGED <<clock, stamp>>

\* A call fails, or the request is dropped: the transaction rolls back.
Fail(c) ==
  /\ pc[c] \in {"usage", "lock", "count", "insert"}
  /\ locked' = locked \ {c}
  /\ Goto(c, "failed")
  /\ UNCHANGED <<clock, stamp, at>>

ClockTicks ==
  /\ clock < MaxClock
  /\ clock' = clock + 1
  /\ UNCHANGED <<stamp, at, locked, pc>>

Answer(c) == CheckUsage(c) \/ Lock(c) \/ Count(c) \/ Insert(c)

QuotaNext == ClockTicks \/ \E c \in Callers: Arrive(c) \/ Answer(c) \/ Fail(c)

QuotaSpec == QuotaInit /\ [][QuotaNext]_quotaVars

\* The database answers, and a free lock goes to somebody who waits for it.
QuotaFairSpec == QuotaSpec /\ \A c \in Callers: WF_quotaVars(Answer(c))

----------------------------------------------------------------------------
(* Properties                                                              *)

\* No window of the period, whenever it is looked at, holds more admissions
\* than the quota allows (admit_postgres_request serialises the key's requests).
NoOvershoot ==
  Limit >= 0 => \A t \in Times: Cardinality(Admissions(Window(t))) <= Limit

\* A request that has begun is answered: the lock is never left behind.
EveryCallAnswered ==
  \A c \in Callers: pc[c] = "lock" ~> pc[c] \in {"admitted", "refused", "failed"}

----------------------------------------------------------------------------
(* The inductive invariant for calendar windows of one bucket              *)

\* Whoever is past the lock holds it, and nobody else does.
LockHeld == \A c \in Callers: pc[c] \in {"count", "insert"} => locked = {c}

\* A caller that is about to insert has found room in its window, and the
\* lock keeps it.
RoomFound ==
  Limit >= 0 => \A c \in Callers:
    pc[c] = "insert" => Cardinality(Admissions(Window(stamp[c]))) < Limit

QuotaInv == TypeOK /\ LockHeld /\ RoomFound /\ NoOvershoot
=============================================================================
