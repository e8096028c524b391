# Conduit API: a TLA+ verification of its request and billing core

Conduit API is a self-hosted gateway in front of AI providers.  It admits a
request of an API key, routes it to a channel of some provider, streams the
answer back, meters the usage and charges it to the wallet of a project.  This
directory models the parts in which a mistake costs money or capacity and which
tests hardly reach: admission of a request, its attempts at providers, metering,
settlement, the project wallet and the subscriptions behind it, under
concurrency, crashes, time-outs and retries.

Paths below are relative to the repository; `bin/` abbreviates
`crates/conduit-bin/src/`.

## 1. Inventory of the system

| Component | State | Operations | What is hard | What makes it correct |
|---|---|---|---|---|
| Project wallet (`bin/usage_charge_settler_postgres.rs`, migrations 7, 8, 26) | `project_wallets` with two snapshot columns, reservations, allocations, buckets, ledger, charge events | `reserve_request`, `release_request`, `settle_usage`, `record_unsettled`, `cleanup_expired_reservations`, `reconcile_missing`, `grant_project_credit` | clocks read before the wallet lock, lost replies, expiry racing capture, several settlers of one usage, triggers that keep sums | no overdraft, no oversold bucket, exact snapshots, one charge per usage, every hold ends |
| Metering journal (`bin/usage_recovery.rs`) | `journal.wal`, `*.ready`, `*.tmp`, `*.quarantine`, slots in memory, receipts in PostgreSQL | `open`, `reserve`, `release`, `put_ready`, `ack`, `replay`, `handoff` | torn writes, power loss, request and replay task on the same event, retention, capacity | what is accepted is never lost, metered once, bounded |
| Usage recorder (`bin/usage_log_recorder.rs`) | per-request metadata, API key slots | `admit_request`, `reserve_request`, `record_success`, `abandon_request` | release of a request that did produce usage; leases running out | the order slot, hold, usage, settlement, release |
| Charge outbox (same file as the wallet) | `usage_charge_outbox`: status, attempts, next time | workers, `mark_outbox_completed`, `mark_outbox_failed`, gap repair | crash between commit and mark, dead letters, head-of-line blocking | every usage is settled or visible as failed |
| Subscription lifecycle (`bin/wiring_postgres_billing.rs`) | subscriptions, periods, allowance buckets | issue, rollover, pause, resume, expire, `process_due_subscriptions` | retirement of a bucket with open holds, carry-over | no allowance is lost or granted twice |
| Credit redemption (`bin/wiring_postgres_redemption.rs`) | batch, codes, receipts, ledger | create, redeem, replay, revoke | waiting for the code's lock past its end, lost replies, members leaving | pays at most its limit, once per user, never after its end |
| Channel limiter (`crates/conduit-orchestrator/src/channel_limiter.rs`, a library type; `src/middlewares/channel_limiter.rs`, what the pipeline installs) | atomic counters of active and queued calls; a count per channel | acquire or enqueue, wait, time out, release | release racing a time-out; hooks of several execution modes | never above the limit, no lost slot |
| Quota admission (`crates/conduit-db/src/pg_quota_admission.rs`) | admissions per key and window | admit | counting under concurrency | never above the quota |
| Orchestrator, pipeline, load balancer | candidates, attempts, circuit breakers, request rows, leases of API keys | admit, execute, retry, stream, cancel, clean up | futures dropped at an await, late commits, probes of half-open circuits | what a request took is given back; the retry loop ends |
| Maintenance (`bin/maintenance_claim.rs`, `maintenance.rs`) | claims with leases | claim, renew, complete | lease lost while running | one owner at a time |
| Scheduler, transformers, HTTP, GraphQL, auth, cache, storage, frontend | adapters, conversions, UI | | | not modelled, see section 8 |

How they interact on one request: the recorder takes a **journal slot**
(`UsageJournal::reserve`), then a **hold** on the wallet (`reserve_request`);
the orchestrator executes the request; on success the recorder puts the metered
event into the journal (`put_ready`), hands it off to PostgreSQL (usage log and
outbox row in one transaction) and acknowledges it, and the outbox workers
settle the charge and **capture** the hold; on failure or cancellation the hold
and the slot are released.  Background tasks replay the journal, settle what
the workers missed, sweep lapsed reservations and collect old usage logs.

The hazards of this code, each at its line and with the properties that would
catch it, are in `PROJECT.json`.

## 2. Plan

Done: the wallet (`ProjectWallet`, `DrawDown`, `DrawDownLoop`), the journal
(`UsageJournal`), the outbox with its abstract specification (`ChargeOutbox`,
`ChargePromise`), the life of a request, which composes slot, lease, hold and
metering (`RequestLifecycle`), subscriptions (`SubscriptionLifecycle`), row locks
and connections (`WalletLocks`), attempts and their guards (`AttemptGuards`),
quota, redemption, the limiter type (`ChannelLimiter`, `AdmissionRoom`), and the
proofs of section 6.

The proofs cover every safety property of the runs; what is left of the plan is, in
this order:

1. Maintenance claims (`bin/maintenance_claim.rs`): a date claim around a running
   claim, renewal, take-over from a stalled owner.
2. Liveness of `RequestLifecycle`: everything a request took comes back.  It needs
   a smaller instance than the safety run has.
3. Refinements between components: that a settlement of `ProjectWallet` is one step
   of `ChargePromise`, and that the journal of `RequestLifecycle` is an abstraction
   of `UsageJournal`.
4. The choice of candidates in the orchestrator, as far as it keeps state.

## 3. Modules

| Module | Role |
|---|---|
| `Sums`, `SumLemmas` | the sum of a function with finite domain, by the folds of the community modules; lemmas about it |
| `DrawDown` | the draw-down of an amount from ordered sources, as a set of allocations |
| `DrawDownLoop` | the loop of the code as a state machine; it computes the one draw-down of that definition (proved, not run) |
| `ProjectWallet`, `ProjectWalletProofs`, `MCProjectWallet` | wallet, reservations, allocations, buckets and charges of one project |
| `WalletLocks`, `MCWalletLocks` | inside the wallet's transactions: gate, connection, row and advisory locks |
| `UsageJournal`, `UsageJournalProofs`, `MCUsageJournal` | journal, replay task, handoff, retention, faults |
| `ChargePromise` | abstract: what becomes of a recorded usage |
| `ChargeOutbox`, `ChargeOutboxProofs`, `MCChargeOutbox` | outbox rows, workers, reconciler, retention; implements `ChargePromise` |
| `RequestLifecycle`, `RequestLifecycleProofs`, `MCRequestLifecycle` | one request from admission to its last record: composes journal slot, lease, hold, row and metering |
| `AttemptGuards`, `MCAttemptGuards` | the retry loop over channels with circuit breaker, channel slots and rate admission |
| `AdmissionRoom` | abstract: a room with bounded places and a bounded line |
| `ChannelLimiter` | the lock-free limiter type, step by step; implements `AdmissionRoom` (proved, not run) |
| `QuotaAdmission`, `MCQuotaAdmission` | the request quota of an API key |
| `CreditRedemption`, `MCCreditRedemption` | a redemption code |
| `SubscriptionLifecycle`, `MCSubscriptionLifecycle` | periods, carry-over and allowance buckets |
| `AllowanceProofs` | proofs about allowance: `DrawDown`, `DrawDownLoop` and `SubscriptionLifecycle` |
| `LockingProofs` | proofs about what is decided under a lock: `WalletLocks`, `QuotaAdmission` and `CreditRedemption` |
| `ChannelSlotsProofs` | proofs about the slots of a channel: `ChannelLimiter` and `AttemptGuards` |

Operators introduced by "A faulty version" are plausible bugs of the
definition that follows; no specification uses them.  They show that a property
can fail.  Properties under the heading "What comments and documents say, and
the model refutes" are checked by no run; section 7 says how to see them fail.

The modules share the system by its seams.  `RequestLifecycle` treats a wallet
reservation, a journal write and a settlement as steps that succeed, fail or
commit late; what they do is the subject of `ProjectWallet`, `UsageJournal` and
`ChargeOutbox`.  `ChargeOutbox` takes a settlement as a step that charges or
fails; `ProjectWallet` lets any number of settlers settle at any time, which
includes what the outbox does.  `WalletLocks` has the locks of the transactions
that `ProjectWallet` takes as atomic, and no money.  `SubscriptionLifecycle` has
the buckets over many periods and the holds only as amounts.

### ProjectWallet

All transactions on a wallet lock its row first and keep every row lock to
their commit, so **a transaction is one action**.  What the code reads before it
gets the lock is a parameter: `t` is the clock read by `reserve_request` and the
cleanup before they queue, any time up to `now`.  A failing transaction is
rolled back and therefore is no step, but a committed one whose reply is lost is
(`Reply`): the caller then believes it was refused and may retry or release.

| Action | Code |
|---|---|
| `AdmitWithoutReservation` | the early returns of `reserve_request` |
| `ReuseReservation` | an existing request key |
| `ReserveShadow`, `ReserveFunds`, `RefuseFunds` | the three outcomes of the transaction, each with the sweep of lapsed reservations it starts with |
| `ReleaseRequest` | `release_request` |
| `CleanupExpired` | `cleanup_expired_reservations`, `expire_pg_wallet_reservations` |
| `PersistUsage` | the usage log is persisted (by the journal's handoff) |
| `SettleUsage` | `settle_usage` with `begin_`/`finish_pg_reservation_capture` and `settle_persisted_allocations`; `keyed` says whether the reservation key is presented |
| `RecordUnsettled` | `record_unsettled` |
| `GrantCredit` | `grant_project_credit` and redemptions, once per idempotency key |
| `RetireBucket`, `PauseBucket`, `ResumeBucket` | what the lifecycle does to the bucket of an existing period |
| `Tick` | the clock (external) |

The triggers of migration 26 are part of the actions (`CreditReservedAfter`, the
balance updates).  CHECK constraints of the tables are *not* guards: the
invariants show that they never have to fire.  Any number of settlers is covered
because nothing in the model limits who settles; the outbox only restricts this.

Abstractions: one wallet, active, with the buckets its requests may draw on;
prices, currencies and tokens come to an amount; each bucket belongs to a
subscription of its own whose status is folded into the bucket's, and has started
when the model starts.  Buckets shared by wallets are serialised by their row
locks, whose order is the subject of `WalletLocks`.

### UsageJournal

Each operation under the journal's mutex is one action; the health check before
it, the handoff and the acknowledgement are separate, so requests, the replay
task, retention and crashes interleave there.

| Action | Code |
|---|---|
| `CheckHealthy`, `TakeSlot` | `reserve`: before and under the mutex |
| `Release` | `release` |
| `PutReady`, `PutReadyFails` | `put_ready` / `write_event` and its error paths |
| `HandoffLive`, `DeferLive`, `AckLive` | the request's own handoff and acknowledgement |
| `ReplayList`, `ReplaySkip`, `ReplayHandoff`, `ReplayDefer`, `ReplayQuarantine`, `ReplayAck` | `replay`, file by file |
| `CompleteOutbox` | `mark_outbox_completed`; every other status is "pending" here |
| `CollectUsage` | retention of usage logs |
| `Crash`, `Restart` | end of the process (external); `open` with `restore_indexes` |

The log is abstracted to what `restore_indexes` makes of it: the unacknowledged
events of the readable prefix, whether an unreadable line ends the prefix, and
the bytes of the file.  Faults are chosen by a constant: `"power"` (a crash may
cut the last append short and lose directory entries that were not synced),
`"put"` (a write of `put_ready` fails, at any point), `"ack"` (the append or the
removal of an acknowledgement fails).  Without any of them a crash is a killed
process: what was written stays.  `Inexact` names the events whose `total_cost`
(an `f64`) JSON does not read back as it was written.  A request key is used
once; identity and version errors of the files, which the code cannot produce
itself, are left out.

### ChargeOutbox

Each database call of handler, worker and reconciler is a step; between two of
them the process may end, and the others run.  A fault is a call that fails, or
one that commits and whose reply is lost.

| Action | Code |
|---|---|
| `RecordUsage`, `Handler` | the usage log is inserted, by the handoff together with its row (`Journalled`) or alone; then `enqueue` and the bounded queue |
| `ReceiveJob`, `Worker` | the settlement workers: settle, `mark_outbox_completed`, `mark_outbox_failed` with back-off and dead letter |
| `Reconciler` | `reconcile_missing`: pending rows, then the gaps, one settlement after the other |
| `Ripen`, `BackOffEnds`, `HoldLapses` | time: a gap is old enough, a row is due again, the hold of a row is gone |
| `Collect` | `delete_created_at_in_batches` |
| `Shutdown`, `Restart` | end of the process at any step |

`ChargePromise` sees of all this one value per usage: owed, charged, dead letter
or lost.  A usage that was not recorded together with its row may be lost to
retention before the gap repair finds it, if retention is set that short.

### RequestLifecycle

A request is a future that may be dropped at each await; a stream, once open,
belongs to a task of its own.  A call that inserts something has a second step at
which the request learns of it, so it can give up in between and the commit
arrives late.

| Action group | Code |
|---|---|
| `Admit` | `admit_request`: journal slot, lease of the API key, cleanup guard, hold, `metering_pending` mark |
| `Serve` | the two command flows of the orchestrator and the stream finalizer |
| `Close` | `record_success`, `record_failed_request`, release of hold and lease, in their order |
| `Drop`, `RunTask` | drop of the future, with or without an armed guard, and the clean-up task the guard spawns |
| `Background` | late commits, the sweep of holds, `mark_stale_processing_postgres`, replay, capture |
| `Crash`, `Tick` | end of the process, clock |

All requests share one API key.  Time is in units; a deadline bounds how long the
clock may run before the code acts.  Contents of requests and the slot counters of
SQLite deployments are left out.

### AttemptGuards

The hooks of the middlewares, each one a step, for the three execution modes
(buffered, live stream, aggregated stream), inside the retry loop of the pipeline
and the walk over candidates.  A channel stands for one circuit key; a cooldown is
running, elapsed or absent; the rate window and Retry-After are a choice.
Additional retryable codes of a channel and errors of transformers are left out.

### SubscriptionLifecycle, QuotaAdmission, CreditRedemption, WalletLocks, ChannelLimiter

One action per operation of the code; the comment at the head of each module says
what is one step and why.  In `SubscriptionLifecycle` the database's clock decides
what is due and a process clock that may lag decides the rest; `SwitchPlan`
enables and disables the plan.  `QuotaAdmission` reads its clock before it waits
for the advisory lock, as the code does.  `CreditRedemption` has one transaction per
submission, so that one user may submit twice at once, and decides by what it
reads after it has the code's row.  In `WalletLocks` a transaction is the list of
resources its statements take, which depends on the buckets it finds; the deadlock
detector of PostgreSQL is external.  In `ChannelLimiter` every load,
`compare_exchange` and `fetch_add` is a step.

## 4. Runs

| Run | Question | Bounds |
|---|---|---|
| `wallet_contention` | is money conserved and never promised twice when two requests share a bucket and the credit? | 2 requests, 1 bucket of 2, one grant, amounts 1 and 3 (below and above the bucket, so that estimates are exceeded, covered by both sources, or not covered), soft mode (usage without a hold is admitted and settled too), TTL 1, so that reservations lapse while they are captured |
| `wallet_draw_down` | does a hold cover the estimate when several buckets are drawn, in all modes; do all holds end, do all draining buckets expire? | 1 request, 2 buckets with different ends, amounts 0, 1, 2, 4; no admission after `LastAdmission`, so that the last hold can lapse before `MaxTime` |
| `journal_power` | is an accepted event safe across power failures, metered once, does a torn log stop admission, do promised slots suffice? | 2 requests and one with an oversized event, room for 2 slots, 2 crashes (one may tear the log, a second one meets the torn log) |
| `journal_faults` | are ready files kept when writes fail, and is every accepted event metered in the end? | 2 requests, the first one inexact, batches of one file, 2 mishaps |
| `outbox_faults` | is what the rows say of a usage true, through a fault and a restart at any step, and is it a behaviour of `ChargePromise`? | 2 usages, one journalled with a hold and one in the gap, 1 worker, a queue of 1, 4 attempts |
| `outbox_liveness` | is every row resolved and every chargeable usage charged? | the same, with a key of another project on the journalled one, so that it can never be settled, passes of 1 row, 2 attempts |
| `lifecycle` | do outcome, meter, leases and deadlines agree, and do slots end with their requests? | a stream and a buffered request on one lease; a fault or a crash, or both when the fault is an acceptance whose event is in the log already |
| `quota` | is the quota of a calendar window kept and every call answered? | 3 calls, quota 1, window of 2, clock to 3 |
| `redemption` | does a code pay within its terms? | 3 submissions at once, by any of 3 users (also all by one), 2 projects, 2 redemptions, a clock that passes the expiry once |
| `subscription` | is allowance carried once and used in one period, and is every due subscription moved on? | 1 subscription through two renewals, a process that lags by 1 |
| `locks` | which transactions may deadlock, who keeps connections, and does everybody end? | 4 workloads of 3 transactions, 2 processes, pools of 2 |
| `guards` | are channels within their limit, slots and probes given back, and do requests end? | 2 requests on 2 channels, one limited to 1, one retry each way, circuits open after 2 errors, one request aggregates or forwards a stream, the other is buffered, each may be dropped |

Deadlock is checked where the system never stops (`outbox_*`, `guards`); in the
others requests, grants and time are finite and each is used once, so a model that
has done everything stops.  Symmetry is used in `wallet_contention`, where all
requests may use all buckets, and in `redemption`, where users, projects and
submissions are interchangeable; neither run has a liveness property.  The bounds are named in the modules (`MaxTime`, `MaxClock`,
`LastAdmission`, `LastArrival`, `MaxMishaps`, `MaxFaults`, `MaxRestarts`,
`MaxCalls`).  Two actors are enough for races on a shared row, since each sees the
others only through the row; the proofs of section 6 remove the bounds for the
properties they cover.

Some properties leave a window out on purpose, because the code has a gap there
that section 7 describes: `SlotsFollowOwners` (drops before the guard is armed),
`SlotsGivenBack` and `ProbeHandedBack` (requests that vanish without a hook),
`DeadlinesAlign` (streams), `LogIsAuthoritative` (failing writes), `BucketsFollow`
(carried-over buckets that a resumption after the period's end leaves paused,
`LeftPaused`).  `KeepsPromise` is checked where every gap can be settled.  The hazards
of `PROJECT.json` carry a note where their property stops short of such a window.
`OnlyHopelessDie` is stated for instances whose attempts outnumber their faults.

## 5. Fairness

| Specification | Assumed | Why the code justifies it |
|---|---|---|
| `ProjectWallet!FairSpec` | the clock advances, the cleanup runs | `start_reconciler` loops on a supervised task and only logs errors; nothing is assumed of requests, since a process may die |
| `UsageJournal!FairSpec` | steps of the replay task and restarts (weak); a handoff tried infinitely often succeeds, and so does a quarantine (strong) | the task runs on a timer for the life of the process; PostgreSQL answers again and again |
| `ChargeOutbox!FairSpec` | spawned tasks are polled, time passes, a stopped process is started again | tokio tasks; faults are bounded |
| `QuotaAdmission!QuotaFairSpec` | a call that can go on is answered | PostgreSQL grants a free lock to a waiter |
| `SubscriptionLifecycle!FairSpec` | the due job runs | a scheduled job, every minute |
| `WalletLocks!FairSpec` | statements are executed, the detector runs | `deadlock_timeout` |
| `AttemptGuards!FairSpec` | the future of a request is polled | upstream client and streams have time-outs of their own |

## 6. Theorems

Proved for all values of the constants under the named assumptions of the
modules: finite sets of requests, buckets, usages, transactions; amounts, sizes and
times natural numbers.  Every safety property of every run, invariant or action
property, is a theorem, some of them under a hypothesis that is given and explained
below.  A proof about one component is in `<component>Proofs`.
Three proof modules treat related components together: `AllowanceProofs`
(subscriptions, draw-down), `LockingProofs` (locks, quota, redemption) and
`ChannelSlotsProofs` (attempts, limiter).  They extend these components, whose
definitions have different names for that reason, or take one by `INSTANCE` with
the assumption as a hypothesis (`Loop!BoundsType`; `ChannelLimiter`, which is in no
run either, has `LimiterAssumption`).  Assumptions that a theorem
repeats as a hypothesis (`QuotaConstants`, `CodeAssumption`, `GuardConstants`,
`LocksAssumption`) are `ASSUME`d by the component's module, so TLC evaluates them on
the instance of each run.

| Component | Inductive invariants | Properties of the runs that follow |
|---|---|---|
| Wallet | `IInv`, `Accounts` | `NoOverdraft`, `ReservedSnapshot`, `BucketsNotOversold`, `RowsFollowStatus`, `ChargesExplainSpending`, `ChargedOnce`, `HoldCoversEstimate` |
| Locks | `LockInv` | `NoReverseCycle`, `GateSparesPool` |
| Journal | `TablesInv`, `SessionInv`, `KillInv`, `PowerInv`, `BoundInv` | `MeteredOnce`, `AcceptedIndexed`, `LogIsAuthoritative`, `SlotsSuffice` |
| Outbox | `OutboxInv`, `RetryInv` | `SettledIsCharged`, `CompletedIsFinal`, `ImplementsPromise`, `OnlyHopelessDie` |
| Request | `LifecycleInv`, `TimedInv` | `LeasesWithinLimit`, `OutcomesAreMetered`, `AcceptedIsProtected`, `DeadlinesAlign`, `SlotsFollowOwners` |
| Attempts | `GuardInv` | `WithinLimit`, `SlotsGivenBack`, `ProbeHandedBack` |
| Subscriptions | `SubInv` | `CarriedOnce`, `BucketsFollow` |
| Quota | `QuotaInv` | `NoOvershoot` |
| Redemption | `RedemptionInv` | `PaysAtMost`, `NothingAfterEnd`, `MembersOnly` |

*Draw-down.* `DrawDownUnique`: at most one allocation satisfies the definition.
`LoopIsDrawDown`, `LoopIsTheDrawDown`: the loop ends with it.  The loop
invariant says that what was taken so far is exact on the prefix and that
something remains only if the prefix is exhausted.

*Wallet.* `NoOverdraft` is not inductive: that a capture leaves enough credit for
the other holds follows only when the snapshot is known to be their sum, and
that the snapshot stays exact only when an open reservation has neither
captured nor released anything.  The inductive invariant `IInv` is `TypeOK`,
`NoOverdraft` and `Books`, which joins the exact snapshot, the bucket sums,
draining buckets and the rows that follow the status.  Its preservation is shown
once for the closing of any set of reservations (release, expiry, the sweep
inside a reservation) and then per action; sums change at one request only, by
the lemmas of `SumLemmas`.

`Accounts` adds the money.  What the buckets consumed is the sum of what the
charges took from subscriptions, and the balance is what was granted less what
they took from the credit (`EveryMicroIsBilled`); a step changes the two sides of
such an equation at one bucket or source and one request, and moves both by the
same amount.  That a funded hold is worth exactly its amount (`Whole`) is the other
part: together with `Books` it gives that a capture within the estimate finds
everything it was promised (`HoldsCoverTheirEstimate`).  `UsageIsChargedOnce` is
about single steps and needs only which rows an action may write.

*Locks.* `LockInv` orders what transactions lock into stages: gate; connection;
the rows found by a key (key, event, code, subscription); wallet and groups;
reservations and buckets.  A transaction locks at most one thing of each stage but
the last, stage by stage (`Before`); whoever spends locks a reservation or bucket
only under the wallet, and whoever has a gate takes its connection only under it
(`Needs`).  A circle of waiting transactions would have to stay within the last
stage, where all of them but the subscription's transitions hold the same wallet;
hence `WalletSideIsAcyclic`, and for the connections `GateHoldsOneConnection`.
That every plan of the code is such a plan is shown per kind of transaction.

*Journal.* `TablesInv` ties receipt, usage log and outbox
(`EventsAreMeteredOnce`, `FenceHolds`); `SessionInv` says that who acknowledges
has handed off and who is admitted has a slot and no files (`SlotsAreKept`).
With them, two invariants about the events that are accepted and not handed off:
`KillInv` without power failures, under all other faults (`AcceptedStaysIndexed`),
and `PowerInv` with power failures but no failing write and no inexact event
(`LogStaysAuthoritative`).  The two hypotheses are exactly what section 7 shows to
be needed.  `BoundInv` is about capacity: log, files and promised slots together
stay within `MaxBytes` while the journal admits requests.  The bound is not inductive
alone, because acknowledgements grow the log without a slot of their own and a
restart makes files out of the log: a slot has to be worth both lines and the file,
and a stopped process has to leave room for the files its log implies.
`SlotsAreSufficient` has the hypothesis `Faults \subseteq {"power"}`: a write that
fails half-way leaves bytes that no slot paid for.

*Outbox.* `OutboxInv` adds to `CompletedIsCharged` and `CollectedIsCharged` what
each task knows: whoever is about to mark a row completed has seen the charge, a
row exists only with its log, and what is queued or worked on is recorded.  From
it `SettledWasCharged`, `CompletedRowsStay`, and the refinement
`OutboxImplementsPromise`: every step of handlers, workers, reconciler, retention
and restart is a step of `ChargePromise` or a stutter.

`RetryInv` counts: each failed attempt of a usage that could still be charged has
an excuse of its own, which is a fault, the one attempt of its own worker, or the
one attempt in the pass during which its hold lapsed.  `DeadLettersAreHopeless`
follows when `MaxAttempts > MaxFaults + 2`: a dead letter that owes its charge could
never be settled.  Its other hypothesis, `Limit > Cardinality(Usages)`, says that a
pass takes all pending rows and gaps: the code repairs at most a batch per pass,
and a row that waits for several passes may meet its lapsed hold more than once.
Both are properties of an instance, not of the code; `OnlyHopelessDie` says so where
it is defined.

*Limiter.* `LimiterInv` says that the two counters are the numbers of permits and
queue slots, that every call is counted once, and that a value loaded for a
`compare_exchange` was below the limit: when the exchange succeeds, the counter
still is.  From it `CountersAreExact`, `CallsAreCounted`, `LimiterLimits` and the
refinement `LimiterImplementsRoom`.

*Attempts.* `GuardInv`: a request that says it holds a slot is between taking it
and the first hook that gives it back, a request that says it is the probe is one
the breaker will still hear of, and a channel's counter is at least the number of
its holders and at most its limit (`AttemptsWithinLimit`).  It is not equal to them,
because of the requests that vanish (section 7); `SlotsReturn` and
`ProbesAreHandedBack` say that no other step loses or doubles anything.

*Subscriptions.* `SubInv`: a bucket that was carried over has a source which is
never used again and has room for what was taken from it, even for the holds that
are still open on it; only the current period's bucket is in use; and a paused bucket
has a paused subscription, or was carried over from before the subscription's present
period (`LeftPaused`, the case of section 7 at :614).  The first part is why `AllowanceCarriedOnce` survives late captures: what is held is not carried.
The proof treats issuing and retiring buckets once, for rollover, renewal,
resumption and the due loop, and for any lag of their clocks.

*Quota.* `CalendarQuotaHolds`: with calendar windows of one bucket, admissions of
a window never exceed its quota.  The invariant is that whoever holds the lock has
counted at least what the window of its clock contains.  `Amount = 1` and
`Kind = "calendar"` are hypotheses because section 7 shows rolling windows to
overshoot.

*Redemption.* `RedemptionInv`: who is past the lock holds the code's row and has
the time at which it got it; what it found out (active, not expired, no receipt of
its user, a redemption left, membership) is still true when it commits, since
everybody who could change it needs that lock or the member's row.  A code is used
up exactly when its last receipt is written, which is what makes its end final.

*Request.* `LifecycleInv` says how far a request must have come for each mark it
left (`Stage`).  From it `KeyLimitHolds`, `OutcomesWereMetered`,
`AcceptedWasProtected`, which is about the `metering_pending` mark and not the hold: a
future dropped between acceptance and handoff releases its hold.  An event that a
failed `put_ready` left in the log is not accepted until a restart finds it there, and
its row keeps the mark.  `TimedInv` adds the deadlines of buffered requests, all
measured from their arrival: they are over when their timeout is, and the lease
ends no earlier than one taken on arrival; and that a request which gave its slot
back never has it again.  From it `DeadlinesAgree` and `SlotsEndWithOwners`.

Only model-checked: the liveness properties (`HoldsEventuallyClose`,
`DrainingEventuallyExpires`, `EventuallyMetered`, `RowsAreResolved`, `KeepsPromise`,
`EveryCallAnswered`, `DueIsProcessed`, `AllEnd`, `EveryRequestEnds`), which need
fairness and `ENABLED`, out of the prover's reach.

## 7. Where the code and its documentation disagree

Each of these was met as a counterexample of TLC.  They are not among the runs,
which are kept to what holds; the last column says how to see one: the module's
constants and the property to check.

| Place | What happens | What is said | To see it |
|---|---|---|---|
| `bin/usage_recovery.rs:290` | an append that fails half-way marks the journal unhealthy, but requests admitted before still append behind the torn line, are told they are accepted, and are never read back | :82 "The fsynced append log is authoritative" | `journal_power` with `Faults = {"put"}`, `AcceptedInLog` |
| `bin/usage_recovery.rs:336` | a failed acknowledgement leaves such a line and does not stop admission | `docs/knowledge/backend.md:532`: a failed write stops admission | `Faults = {"ack"}`, `BrokenStopsAdmission` |
| `bin/usage_recovery.rs:143` | the checksum is taken of the re-serialised payload; a cost that JSON reads back one unit off makes a sound frame, and all behind it, unreadable | :82 as above | `Inexact = {1}`, `Faults = {}`, `AcceptedInLog` |
| `bin/usage_recovery.rs:147` | with a torn tail the ready files are not rebuilt from the readable prefix | :115 "Ready-file renames are only indexes and are rebuilt from this log" | `Faults = {"power"}`, `AcceptedIndexed` |
| `bin/usage_charge_settler_postgres.rs:451` | the gap repair returns on the first usage that cannot be settled, each time at the same one; those behind it are never charged | :426 the gap is repaired after 15 minutes | `ChargeOutbox`, `FairSpec`, `Journalled = Keyed = {}`, `Poison = {1}`, `EventuallyCharged` |
| `crates/conduit-orchestrator/src/channel_limiter.rs:237` | a newcomer takes a released permit although others wait | :8 "bounded FIFO queue" | `ChannelLimiter`, 3 callers, `MaxConcurrent = 1`, `QueueSize = 2`, `MaxCalls = 4`, `FirstComeFirstServed` |
| `bin/wiring_postgres_auth.rs:53` | the clock is read before the wait for the lock; with a rolling window a call counts an older window than it falls into | `crates/conduit-db/src/pg_quota_admission.rs:31` "Serialize admissions for one API key" | `quota` with `Kind = "past"`, `MaxClock = 2`, `NoOvershoot` |
| `bin/usage_log_recorder.rs:768` | a future dropped while it waits for its lease, before the cleanup guard is armed (:795), keeps its journal slot for the life of the process | `orchestrator.rs:611` "The borrowed guard closes that cancellation window" | `lifecycle` with `SlotsHaveOwners` |
| `crates/conduit-orchestrator/src/outbound_stream.rs:822` | a stream's deadline is not passed on to the forwarder, which takes 600 s from the start of the stream; lease and hold end 300 s after `llm_request_timeout` | `docs/knowledge/backend.md:579`: deadlines of streams, leases and holds are aligned | one stream, `Timeout = 2`, `Slack = 1`, `StreamBudget = 2`, `MaxTime = 5`, `LeaseCoversStream` |
| `bin/wiring_postgres_billing.rs:614` | a subscription resumed after the end of its period leaves the carried-over bucket paused | the test at :3795 expects all that was left after a resumption; it resumes within the period, and nothing is said of a later one | `CarryFor = 3`, `Skew = 0`, `MaxTime = 4`, `ResumedIsUsable` |
| `circuit_breaker.rs:232` | a late local error of any request clears the probe flag, and a second probe is admitted | :10 "exactly one provider probe is admitted" | `AttemptGuards`, 3 requests on 1 channel, `MaxErrors = 1`, `OneProbe` |
| `circuit_breaker.rs:163` | the breaker hears nothing of the end of a live stream; if it was the probe, the circuit stays half-open and refuses everyone | :11 "A successful response resets the error count immediately" | mode `"live"`, `MaxErrors = 1`, `ProbeHasOwner` |
| `crates/conduit-pipeline/src/pipeline.rs:1957` | a success of an aggregated stream runs no hook that gives the channel's slot back | `middlewares/channel_limiter.rs:165` "Release the concurrency slot after a successful response" | mode `"aggregate"`, a limited channel, `SlotsExact` |
| `middlewares/channel_limiter.rs:159` | a handler dropped at the provider's await keeps its slot | `pipeline.rs:2796` permits stay aligned with the upstream's lifetime | mode `"plain"`, `Drops = TRUE`, `SlotsExact` |

As long as the machine keeps its power the ready files still hold the events of
the first three: `AcceptedStaysIndexed` proves it under all the other faults.

## 8. Not modelled

The components with status `not_modelled` in `PROJECT.json`.  Maintenance claims
are planned (section 2).  Transformers, HTTP and GraphQL surfaces,
authentication, storage adapters and the frontend, which are most of the
repository's lines, are conversions or I/O without protocol state; the load
balancer's scores are floating-point arithmetic.  Of the orchestrator and the
pipeline, the modelled part is the control of attempts, streams and clean-up; the
choice of candidates and the rewriting of requests and answers are not.  Within
the modelled parts, left out are: contents of metadata and logs, currency
conversion, several currencies, the API key's user checks (they decide only
whether a hold is made), file system errors while the journal opens (the process
then does not start), access grants of subscriptions, hashing of codes, time
zones of calendar windows.
