------------------------ MODULE SubscriptionLifecycle ------------------------
(***************************************************************************)
(* The periods of subscriptions and their allowance buckets: assignment,   *)
(* renewal with carry-over, pause, resume, cancellation, expiry            *)
(* (conduit-bin/src/wiring_postgres_billing.rs), while requests reserve,   *)
(* return and consume allowance (usage_charge_settler_postgres.rs).        *)
(*                                                                         *)
(* Every operation is one transaction that locks the subscription's row.   *)
(* The database decides what is due; everything else uses the clock of the *)
(* process, which may lag.  A subscription has one quota rule: the buckets *)
(* of several rules are treated alike and apart.                           *)
(***************************************************************************)
EXTENDS DrawDown, FiniteSets

CONSTANTS Subs,      \* subscription ids
          Period,    \* length of a period
          Grant,     \* amount_micros of the rule, in units of one hold
          Cap,       \* rollover_cap_micros; 0 is rollover mode none
          CarryFor,  \* carry_duration_seconds
          Skew,      \* how far a process may be behind the database
          MaxTime    \* bound on the clock

ASSUME SubsAssumption == IsFiniteSet(Subs) /\ Subs \subseteq Nat
ASSUME PlanAssumption == {Period, Grant} \subseteq Nat \ {0}
                         /\ {Cap, CarryFor, Skew, MaxTime} \subseteq Nat

VARIABLES
  now,      \* now() of the database
  enabled,  \* subscription_plans.status
  sub,      \* sub[s]: a row of user_subscriptions
  bucket    \* subscription_allowance_buckets, by subscription, period and source

vars == <<now, enabled, sub, bucket>>

NoSource == -1
Unassigned == [status |-> "none", auto |-> FALSE, start |-> 0, end |-> 0]

\* The two unique keys: a period's own bucket, and what is carried into it.
Base(s, start) == [sub |-> s, start |-> start, src |-> NoSource]
CarryOf(i, start) == [sub |-> i.sub, start |-> start, src |-> i.start]

Clock == {t \in 0..now: now - t <= Skew}
InUse == {"active", "paused"}
Of(s) == {i \in DOMAIN bucket: i.sub = s}

TypeOK ==
  /\ now \in 0..MaxTime /\ enabled \in BOOLEAN
  /\ sub \in [Subs -> [status: InUse \cup {"none", "cancel_pending", "expired"},
                       auto: BOOLEAN, start: Nat, end: Nat]]
  /\ \A i \in DOMAIN bucket:
       /\ i \in [sub: Subs, start: Nat, src: Nat \cup {NoSource}]
       /\ bucket[i] \in [end: Nat, expires: Nat, granted: Nat, consumed: Nat, reserved: Nat,
                         status: InUse \cup {"draining", "expired"}]

\* The rows of f, and those of g whose keys f does not have
OrElse(f, g) == [i \in DOMAIN f \cup DOMAIN g |-> IF i \in DOMAIN f THEN f[i] ELSE g[i]]

\* A faulty version: what is held is not subtracted.
UnusedOrHeld(b) == Monus(b.granted, b.consumed)

Unused(b) == Monus(b.granted, b.consumed + b.reserved)

Fresh(end, expires, amount, status) ==
  [end |-> end, expires |-> expires, granted |-> amount, consumed |-> 0, reserved |-> 0,
   status |-> status]

Retired(b) == [b EXCEPT !.status = IF b.reserved > 0 THEN "draining" ELSE "expired"]

----------------------------------------------------------------------------
(* issue_period_buckets                                                    *)

Carry(b) == Least(Unused(b), Cap)

\* Rows that exist already are kept.  The bucket of the last period is
\* retired, and so is whatever has expired.
Issue(s, start, end, status, source, t) ==
  LET issued == OrElse(bucket, [i \in {Base(s, start)} |-> Fresh(end, end, Grant, status)])
      sources == {i \in {Base(s, source)} \cap DOMAIN issued: issued[i].status \in InUse}
      carried == {i \in sources: Carry(issued[i]) > 0 /\ issued[i].end + CarryFor > t}
      rolled == OrElse(issued,
        [j \in {CarryOf(i, start): i \in carried} |->
           LET b == issued[Base(s, j.src)]
           IN Fresh(end, b.end + CarryFor, Carry(b), status)])
      Over(i) == i.sub = s /\ rolled[i].status \in InUse /\ rolled[i].expires <= t
  IN [i \in DOMAIN rolled |-> IF i \in sources \/ Over(i) THEN Retired(rolled[i]) ELSE rolled[i]]

\* The rows an UPDATE with this WHERE clause touches.
Rows(s, from) == {i \in Of(s): bucket[i].status \in from}

----------------------------------------------------------------------------
(* Operations                                                              *)

Assign(s) ==
  /\ sub[s].status = "none" /\ enabled
  /\ \E t \in Clock, auto \in BOOLEAN:
       /\ sub' = [sub EXCEPT ![s] = [status |-> "active", auto |-> auto,
                                     start |-> t, end |-> t + Period]]
       /\ bucket' = Issue(s, t, t + Period, "active", NoSource, t)
  /\ UNCHANGED <<now, enabled>>

\* refresh_locked: periods that have passed entirely are skipped.
Refreshed(s, t) ==
  /\ sub[s].status \in InUse /\ enabled
  /\ sub[s].end <= t
  /\ LET start == sub[s].end + Period * ((t - sub[s].end) \div Period)
     IN /\ sub' = [sub EXCEPT ![s].start = start, ![s].end = start + Period]
        /\ bucket' = Issue(s, start, start + Period, sub[s].status, sub[s].start, t)

Refresh(s) ==
  /\ \E t \in Clock: Refreshed(s, t)
  /\ UNCHANGED <<now, enabled>>

\* A faulty version: paused buckets are overlooked.
ExpiredActive(s) ==
  /\ sub' = [sub EXCEPT ![s].status = "expired", ![s].auto = FALSE]
  /\ bucket' = OrElse([i \in Rows(s, {"active"}) |-> Retired(bucket[i])], bucket)

Expired(s) ==
  /\ sub' = [sub EXCEPT ![s].status = "expired", ![s].auto = FALSE]
  /\ bucket' = OrElse([i \in Rows(s, InUse) |-> Retired(bucket[i])], bucket)

DueSubs == {s \in Subs: sub[s].status \in InUse \cup {"cancel_pending"} /\ sub[s].end <= now}

\* A faulty version: the plan is not looked at.
RenewsAny(s) == sub[s].status \in InUse /\ sub[s].auto

Renews(s) == sub[s].status \in InUse /\ sub[s].auto /\ enabled

\* process_due_subscriptions takes the least id that is due.  It comes back
\* to one whose end its own clock has not reached.
Due(s) ==
  /\ s \in DueSubs /\ \A x \in DueSubs: s <= x
  /\ IF Renews(s) THEN \E t \in Clock: Refreshed(s, t) ELSE Expired(s)
  /\ UNCHANGED <<now, enabled>>

Pause(s) ==
  /\ sub[s].status = "active"
  /\ sub' = [sub EXCEPT ![s].status = "paused"]
  /\ bucket' = OrElse([i \in Rows(s, InUse) |-> [bucket[i] EXCEPT !.status = "paused"]], bucket)
  /\ UNCHANGED <<now, enabled>>

\* A faulty version: those that expired meanwhile are forgotten.
UnpausedUnexpired(b, t) == IF b.expires > t THEN [b EXCEPT !.status = "active"] ELSE b

\* Paused buckets are used again, or retired if they expired meanwhile.
Unpaused(b, t) == IF b.expires > t THEN [b EXCEPT !.status = "active"] ELSE Retired(b)

Restart(s, t, source) ==
  /\ sub' = [sub EXCEPT ![s].status = "active", ![s].start = t, ![s].end = t + Period]
  /\ bucket' = Issue(s, t, t + Period, "active", source, t)

\* reactivate_subscription, within the period or after its end
Resume(s) ==
  /\ sub[s].status = "paused" /\ enabled
  /\ \E t \in Clock:
       \/ /\ sub[s].end > t
          /\ sub' = [sub EXCEPT ![s].status = "active"]
          /\ bucket' = OrElse([i \in Rows(s, {"paused"}) |-> Unpaused(bucket[i], t)], bucket)
       \/ sub[s].end <= t /\ Restart(s, t, sub[s].start)
  /\ UNCHANGED <<now, enabled>>

Renew(s) ==
  /\ sub[s].status = "expired" /\ enabled
  /\ \E t \in Clock: Restart(s, t, NoSource)
  /\ UNCHANGED <<now, enabled>>

Cancel(s) ==
  /\ sub[s].status \in InUse
  /\ sub' = [sub EXCEPT ![s].status = "cancel_pending", ![s].auto = FALSE]
  /\ IF sub[s].status = "paused"
     THEN \E t \in Clock: bucket' = OrElse([i \in Rows(s, {"paused"}) |-> Unpaused(bucket[i], t)], bucket)
     ELSE UNCHANGED bucket
  /\ UNCHANGED <<now, enabled>>

SetAutoRenew(s) ==
  /\ sub[s].status \in InUse
  /\ sub' = [sub EXCEPT ![s].auto = ~@]
  /\ UNCHANGED <<now, enabled, bucket>>

\* update_subscription_plan
SwitchPlan == enabled' = ~enabled /\ UNCHANGED <<now, sub, bucket>>

----------------------------------------------------------------------------
(* What requests do to a bucket                                            *)

Spendable(i) ==
  /\ sub[i.sub].status \in {"active", "cancel_pending"}
  /\ bucket[i].status = "active" /\ Unused(bucket[i]) > 0

Hold(i) ==
  /\ Spendable(i)
  /\ \E t \in Clock: i.start <= t /\ t < bucket[i].expires
  /\ bucket' = [bucket EXCEPT ![i].reserved = @ + 1]
  /\ UNCHANGED <<now, enabled, sub>>

\* A released, expired or captured hold; a draining bucket ends with its last.
EndHold(i, taken) ==
  /\ bucket[i].reserved > 0
  /\ LET b == [bucket[i] EXCEPT !.reserved = @ - 1, !.consumed = @ + taken]
     IN bucket' = [bucket EXCEPT ![i] = IF b.status = "draining" THEN Retired(b) ELSE b]
  /\ UNCHANGED <<now, enabled, sub>>

\* A charge above its estimate, incurred at some time within the bucket's.
Overage(i) ==
  /\ Spendable(i) /\ i.start <= now
  /\ bucket' = [bucket EXCEPT ![i].consumed = @ + 1]
  /\ UNCHANGED <<now, enabled, sub>>

Tick == now < MaxTime /\ now' = now + 1 /\ UNCHANGED <<enabled, sub, bucket>>

----------------------------------------------------------------------------

Init ==
  /\ now = 0 /\ enabled = TRUE
  /\ sub = [s \in Subs |-> Unassigned]
  /\ bucket = << >>

Next ==
  \/ \E s \in Subs: Assign(s) \/ Refresh(s) \/ Due(s) \/ Pause(s) \/ Resume(s) \/ Renew(s)
                    \/ Cancel(s) \/ SetAutoRenew(s)
  \/ \E i \in DOMAIN bucket: Hold(i) \/ EndHold(i, 0) \/ EndHold(i, 1) \/ Overage(i)
  \/ SwitchPlan
  \/ Tick

Spec == Init /\ [][Next]_vars

\* The job runs every minute, and the clocks of processes catch up.
FairSpec == Spec /\ WF_vars(\E s \in Subs: Due(s))

----------------------------------------------------------------------------
(* Properties                                                              *)

\* Allowance is spent once: what has been carried over is neither consumed
\* nor held in the bucket it came from, then or later.
CarriedOnce ==
  \A i \in DOMAIN bucket:
    LET b == bucket[Base(i.sub, i.src)]
    IN i.src # NoSource => b.consumed + b.reserved + bucket[i].granted <= b.granted

\* The carried-over buckets of earlier periods that a resumption after the
\* end of the period leaves paused: it issues the new period's buckets, which
\* retires the last period's own, and unpauses nothing.
LeftPaused(i) ==
  /\ i.src # NoSource /\ i.start < sub[i.sub].start
  /\ sub[i.sub].status \in {"active", "cancel_pending"}

\* However renewals, pauses, resumptions, cancellations, expiry and the job
\* follow each other, a subscription that is paused or over has no allowance
\* that requests can take, only one period's own allowance is in use, and a
\* bucket that drains has something to wait for.  No bucket stays paused when
\* its subscription is not, except for those of LeftPaused.
BucketsFollow ==
  /\ \A s \in Subs: Cardinality({i \in Of(s): i.src = NoSource /\ bucket[i].status \in InUse}) <= 1
  /\ \A i \in DOMAIN bucket:
       /\ bucket[i].status = "active" => sub[i.sub].status \in {"active", "cancel_pending"}
       /\ bucket[i].status = "paused" => sub[i.sub].status = "paused" \/ LeftPaused(i)
       /\ bucket[i].status = "draining" => bucket[i].reserved > 0

\* The job gets to every subscription whose period is over: it is renewed or
\* expires.
DueIsProcessed == \A s \in Subs: s \in DueSubs ~> s \notin DueSubs

\* "resumed.remaining_allowance": a subscription that is in use again has
\* back all allowance that has not expired.
ResumedIsUsable ==
  \A i \in DOMAIN bucket:
    sub[i.sub].status \in {"active", "cancel_pending"} /\ bucket[i].expires > now
      => bucket[i].status # "paused"
=============================================================================
