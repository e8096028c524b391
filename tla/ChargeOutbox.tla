----------------------------- MODULE ChargeOutbox -----------------------------
(***************************************************************************)
(* From a recorded usage to its charge: the outbox row, the queue and the  *)
(* settlement workers of one process, the reconciler that retries what     *)
(* they leave behind, the repair of usages that have no row, and retention *)
(* (crates/conduit-bin/src/usage_charge_settler_postgres.rs,               *)
(* wiring_postgres_system_operations.rs).                                  *)
(*                                                                         *)
(* The settlement transaction itself is the subject of ProjectWallet; here *)
(* it charges a usage or fails.  Each database call is one step, because   *)
(* the process may die between two of them and the other tasks run in      *)
(* between.  A fault is a call that fails, or one that commits and whose   *)
(* reply is lost; faults and restarts are bounded.                         *)
(***************************************************************************)
EXTENDS Integers, Sequences, FiniteSets

CONSTANTS Usages,         \* ids of usage logs
          Journalled,     \* those recorded by the journal's handoff, row included
          Keyed,          \* those whose request holds a reservation
          Foreign,        \* keyed ones whose key names another project's reservation
          Poison,         \* those whose settlement always fails
          QueueCapacity,  \* capacity of the settlement queue
          WorkerCount,    \* permits of the settlement workers
          Limit,          \* rows the reconciler takes in one pass
          MaxAttempts,    \* failed attempts that make a row a dead letter
          MaxFaults,      \* bound on faults
          MaxRestarts     \* bound on restarts of the process

ASSUME UsagesAssumption == Usages \subseteq Nat /\ IsFiniteSet(Usages)
ASSUME KindsAssumption == Journalled \subseteq Usages /\ Keyed \subseteq Usages
                          /\ Foreign \subseteq Keyed /\ Poison \subseteq Usages
ASSUME LimitsAssumption == QueueCapacity \in Nat \ {0} /\ WorkerCount \in Nat \ {0}
                           /\ Limit \in Nat \ {0} /\ MaxAttempts \in Nat \ {0}
                           /\ MaxFaults \in Nat /\ MaxRestarts \in Nat

VARIABLES
  log,       \* log[u]: the usage_logs row: "none", "logged" or "collected"
  ripe,      \* usages logged longer ago than the repair waits
  charged,   \* usages with a row in customer_charge_events
  hold,      \* hold[u]: the reservation its key names
  box,       \* box[u]: the usage_charge_outbox row
  handler,   \* handler[u]: where the request's call of settle_usage stands
  queue,     \* the settlement queue
  job,       \* job[u]: where the queued settlement stands
  rec,       \* the reconciler: its step and the ids it still has to look at
  up,        \* the settlement tasks run; FALSE while the process shuts down
  faults, restarts

dbVars == <<log, ripe, charged, hold, box>>
taskVars == <<handler, queue, job, rec, up>>
vars == <<log, ripe, charged, hold, box, handler, queue, job, rec, up, faults, restarts>>

Holds == {"none", "open", "stale", "gone", "used", "foreign"}
RowStatuses == {"absent", "pending", "completed", "failed"}
Rows == [status: RowStatuses, attempts: Nat, due: BOOLEAN]
HandlerSteps == {"idle", "persist", "send", "direct", "done"}
JobSteps == {"idle", "queued", "taken", "settle", "completed", "failed"}
RecSteps == {"sleep", "select", "row", "settle", "completed", "failed", "repair"}
RecStates == [step: RecSteps, ids: SUBSET Usages, keyed: BOOLEAN, repaired: Nat]

TypeOK ==
  /\ log \in [Usages -> {"none", "logged", "collected"}]
  /\ ripe \subseteq Usages
  /\ charged \subseteq Usages
  /\ hold \in [Usages -> Holds]
  /\ box \in [Usages -> Rows]
  /\ handler \in [Usages -> HandlerSteps]
  /\ queue \in Seq(Usages)
  /\ job \in [Usages -> JobSteps]
  /\ rec \in RecStates
  /\ up \in BOOLEAN
  /\ faults \in 0..MaxFaults
  /\ restarts \in 0..MaxRestarts

NoRow == [status |-> "absent", attempts |-> 0, due |-> FALSE]
NewRow == [status |-> "pending", attempts |-> 0, due |-> TRUE]
Asleep == [step |-> "sleep", ids |-> {}, keyed |-> FALSE, repaired |-> 0]

\* The first n of a set of ids in ascending order, and the first of all.
Lowest(n, S) == {u \in S: Cardinality({v \in S: v < u}) < n}
IsFirst(u, S) == u \in S /\ \A v \in S: u <= v

----------------------------------------------------------------------------
(* The calls to the database                                               *)

Fault == faults < MaxFaults /\ faults' = faults + 1
NoFault == faults' = faults

\* settle_usage charges u: its unique charge event exists already, or it is
\* settled with the hold of its key, or from the funds of the wallet.
CanSettle(u, keyed) == u \notin Poison /\ (u \in charged \/ ~keyed \/ hold[u] = "open")

Commit(u, keyed) ==
  /\ charged' = charged \cup {u}
  /\ hold' = [hold EXCEPT ![u] = IF keyed /\ u \notin charged THEN "used" ELSE @]

SettleUsage(u, keyed, ok) ==
  \/ ok /\ CanSettle(u, keyed) /\ Commit(u, keyed) /\ NoFault
  \/ ~ok /\ ~CanSettle(u, keyed) /\ NoFault /\ UNCHANGED <<charged, hold>>
  \/ ~ok /\ Fault /\ UNCHANGED <<charged, hold>>
  \/ ~ok /\ Fault /\ CanSettle(u, keyed) /\ Commit(u, keyed)

\* A faulty version: a late failure overwrites a completed row.
MarkedFailedAlways(u) ==
  [box EXCEPT ![u] = [status |-> IF box[u].attempts + 1 >= MaxAttempts THEN "failed" ELSE "pending",
                      attempts |-> box[u].attempts + 1, due |-> FALSE]]

MarkedFailed(u) ==
  IF box[u].status \in {"absent", "completed"} THEN box
  ELSE [box EXCEPT ![u] = [status |-> IF box[u].attempts + 1 >= MaxAttempts
                                      THEN "failed" ELSE "pending",
                           attempts |-> box[u].attempts + 1, due |-> FALSE]]

MarkedCompleted(u) ==
  IF box[u].status = "absent" THEN box ELSE [box EXCEPT ![u].status = "completed"]

\* The result of an UPDATE: done, done with its reply lost, or not done.
Update(new) ==
  \/ box' = new /\ NoFault
  \/ box' \in {box, new} /\ Fault

----------------------------------------------------------------------------
(* The request: record the usage, persist the row, queue the job           *)

\* handoff commits the usage and its row; insert_usage only the usage.
\* The journal's replay hands off without a request waiting for it.
RecordUsage(u) ==
  /\ log[u] = "none"
  /\ log' = [log EXCEPT ![u] = "logged"]
  /\ box' = [box EXCEPT ![u] = IF u \in Journalled THEN NewRow ELSE @]
  /\ \/ handler' = [handler EXCEPT ![u] = "persist"]
     \/ u \in Journalled /\ UNCHANGED handler
  /\ UNCHANGED <<ripe, charged, hold, queue, job, rec, up, faults, restarts>>

\* An existing row keeps its status; a completed one ends the call.
Persisted(u) == [box EXCEPT ![u] = IF @.status = "absent" THEN NewRow ELSE @]

PersistOutbox(u) ==
  /\ handler[u] = "persist"
  /\ \/ /\ box' = Persisted(u)
        /\ NoFault
        /\ handler' = [handler EXCEPT ![u] = IF box[u].status = "completed" THEN "done" ELSE "send"]
     \/ /\ box' \in {box, Persisted(u)}
        /\ Fault
        /\ handler' = [handler EXCEPT ![u] = "direct"]
  /\ UNCHANGED <<log, ripe, charged, hold, queue, job, rec, up, restarts>>

\* send waits for room; it fails once the receiver is gone.
SendJob(u) ==
  /\ handler[u] = "send"
  /\ IF up
     THEN /\ Len(queue) < QueueCapacity
          /\ queue' = Append(queue, u)
          /\ job' = [job EXCEPT ![u] = "queued"]
          /\ handler' = [handler EXCEPT ![u] = "done"]
     ELSE /\ handler' = [handler EXCEPT ![u] = "direct"]
          /\ UNCHANGED <<queue, job>>
  /\ UNCHANGED <<dbVars, rec, up, faults, restarts>>

\* The synchronous settlement leaves the row as it is.
SettleDirectly(u) ==
  /\ handler[u] = "direct"
  /\ \E ok \in BOOLEAN: SettleUsage(u, u \in Keyed, ok)
  /\ handler' = [handler EXCEPT ![u] = "done"]
  /\ UNCHANGED <<log, ripe, box, queue, job, rec, up, restarts>>

----------------------------------------------------------------------------
(* The settlement workers                                                  *)

Running == {u \in Usages: job[u] \in {"settle", "completed", "failed"}}

\* The dispatcher takes the next job, and then waits for a permit.
ReceiveJob ==
  /\ up /\ queue # <<>>
  /\ \A u \in Usages: job[u] # "taken"
  /\ job' = [job EXCEPT ![Head(queue)] = "taken"]
  /\ queue' = Tail(queue)
  /\ UNCHANGED <<dbVars, handler, rec, up, faults, restarts>>

StartWorker(u) ==
  /\ up /\ job[u] = "taken"
  /\ Cardinality(Running) < WorkerCount
  /\ job' = [job EXCEPT ![u] = "settle"]
  /\ UNCHANGED <<dbVars, handler, queue, rec, up, faults, restarts>>

\* A faulty version: whatever settle_usage returns, the row is completed.
WorkerAlwaysCompletes(u) ==
  /\ up /\ job[u] = "settle"
  /\ \E ok \in BOOLEAN: SettleUsage(u, u \in Keyed, ok)
  /\ job' = [job EXCEPT ![u] = "completed"]
  /\ UNCHANGED <<log, ripe, box, handler, queue, rec, up, restarts>>

WorkerSettles(u) ==
  /\ up /\ job[u] = "settle"
  /\ \E ok \in BOOLEAN:
       /\ SettleUsage(u, u \in Keyed, ok)
       /\ job' = [job EXCEPT ![u] = IF ok THEN "completed" ELSE "failed"]
  /\ UNCHANGED <<log, ripe, box, handler, queue, rec, up, restarts>>

\* A failed acknowledgement is only logged; the permit is dropped either way.
WorkerAcknowledges(u) ==
  /\ up /\ job[u] \in {"completed", "failed"}
  /\ Update(IF job[u] = "completed" THEN MarkedCompleted(u) ELSE MarkedFailed(u))
  /\ job' = [job EXCEPT ![u] = "idle"]
  /\ UNCHANGED <<log, ripe, charged, hold, handler, queue, rec, up, restarts>>

----------------------------------------------------------------------------
(* The reconciler                                                          *)

\* A cycle starts with the expiry of the holds whose time is over.
Cleanup ==
  /\ up /\ rec.step = "sleep"
  /\ \/ hold' = [u \in Usages |-> IF hold[u] = "stale" THEN "gone" ELSE hold[u]] /\ NoFault
     \/ UNCHANGED hold /\ Fault
  /\ rec' = [rec EXCEPT !.step = "select"]
  /\ UNCHANGED <<log, ripe, charged, box, handler, queue, job, up, restarts>>

\* A faulty version: only rows that a worker has tried are taken.
PendingTried == {u \in Usages: box[u].status = "pending" /\ box[u].due /\ box[u].attempts > 0}

Pending == {u \in Usages: box[u].status = "pending" /\ box[u].due}

SelectPending ==
  /\ up /\ rec.step = "select"
  /\ \/ /\ rec' = [Asleep EXCEPT !.step = "row", !.ids = Lowest(Limit, Pending)]
        /\ NoFault
     \/ rec' = Asleep /\ Fault
  /\ UNCHANGED <<dbVars, handler, queue, job, up, restarts>>

\* A faulty version: the key of a hold that is gone is tried again.
AlwaysKeyed(u) == u \in Keyed

\* The key is dropped when its hold is gone or never existed.
EffectivelyKeyed(u) == u \in Keyed /\ hold[u] \notin {"gone", "none"}

\* One row is read: it is refused, or settled with the key that still holds.
ReconcileRow(u) ==
  /\ up /\ rec.step = "row" /\ IsFirst(u, rec.ids)
  /\ \/ /\ rec' = IF log[u] = "logged" /\ hold[u] # "foreign"
                   THEN [rec EXCEPT !.step = "settle", !.keyed = EffectivelyKeyed(u)]
                   ELSE [rec EXCEPT !.step = "failed"]
        /\ NoFault
     \/ rec' = Asleep /\ Fault
  /\ UNCHANGED <<dbVars, handler, queue, job, up, restarts>>

\* What was read may have changed when it is settled.
ReconcileSettle(u) ==
  /\ up /\ rec.step = "settle" /\ IsFirst(u, rec.ids)
  /\ \E ok \in BOOLEAN:
       /\ SettleUsage(u, rec.keyed, ok)
       /\ rec' = [rec EXCEPT !.step = IF ok THEN "completed" ELSE "failed"]
  /\ UNCHANGED <<log, ripe, box, handler, queue, job, up, restarts>>

\* The mark of a row.  When it fails, the whole pass ends.
ReconcileMark(u) ==
  /\ up /\ rec.step \in {"completed", "failed"} /\ IsFirst(u, rec.ids)
  /\ LET ok == rec.step = "completed"
         new == IF ok THEN MarkedCompleted(u) ELSE MarkedFailed(u)
     IN \/ /\ box' = new /\ NoFault
           /\ rec' = [rec EXCEPT !.step = "row", !.ids = @ \ {u},
                                !.repaired = @ + (IF ok THEN 1 ELSE 0)]
        \/ /\ box' \in {box, new} /\ Fault
           /\ rec' = Asleep
  /\ UNCHANGED <<log, ripe, charged, hold, handler, queue, job, up, restarts>>

\* A faulty version: a usage without a row is left to the workers.
NoGaps == {}

\* Usages older than the repair's delay with neither charge nor row.
Gaps == {u \in ripe: log[u] = "logged" /\ u \notin charged /\ box[u].status = "absent"}

\* A pass that repaired a full batch starts over at once, without cleanup.
PassOver(repaired) == [Asleep EXCEPT !.step = IF repaired >= Limit THEN "select" ELSE "sleep"]

SelectGaps ==
  /\ up /\ rec.step = "row" /\ rec.ids = {}
  /\ \/ /\ rec.repaired >= Limit
        /\ rec' = PassOver(rec.repaired) /\ NoFault
     \/ /\ rec.repaired < Limit
        /\ rec' = [rec EXCEPT !.step = "repair", !.ids = Lowest(Limit - rec.repaired, Gaps)]
        /\ NoFault
     \/ rec.repaired < Limit /\ rec' = Asleep /\ Fault
  /\ UNCHANGED <<dbVars, handler, queue, job, up, restarts>>

\* A usage that cannot be settled ends the pass; one that retention took is skipped.
RepairGap(u) ==
  /\ up /\ rec.step = "repair" /\ IsFirst(u, rec.ids)
  /\ \/ /\ log[u] = "logged"
        /\ \E ok \in BOOLEAN:
             /\ SettleUsage(u, FALSE, ok)
             /\ rec' = IF ok THEN [rec EXCEPT !.ids = @ \ {u}, !.repaired = @ + 1] ELSE Asleep
     \/ /\ log[u] # "logged"
        /\ rec' = [rec EXCEPT !.ids = @ \ {u}]
        /\ NoFault /\ UNCHANGED <<charged, hold>>
  /\ UNCHANGED <<log, ripe, box, handler, queue, job, up, restarts>>

EndPass ==
  /\ up /\ rec.step = "repair" /\ rec.ids = {}
  /\ rec' = PassOver(rec.repaired)
  /\ UNCHANGED <<dbVars, handler, queue, job, up, faults, restarts>>

----------------------------------------------------------------------------
(* Time, retention, shutdown and restart                                   *)

Ripen(u) ==
  /\ log[u] = "logged" /\ u \notin ripe
  /\ ripe' = ripe \cup {u}
  /\ UNCHANGED <<log, charged, hold, box, taskVars, faults, restarts>>

\* available_at of a row whose last attempt failed has passed.
BackOffEnds(u) ==
  /\ box[u].status = "pending" /\ ~box[u].due
  /\ box' = [box EXCEPT ![u].due = TRUE]
  /\ UNCHANGED <<log, ripe, charged, hold, taskVars, faults, restarts>>

HoldLapses(u) ==
  /\ hold[u] = "open"
  /\ hold' = [hold EXCEPT ![u] = "stale"]
  /\ UNCHANGED <<log, ripe, charged, box, taskVars, faults, restarts>>

\* A faulty version: retention does not look at the outbox.
CollectAny(u) ==
  /\ log[u] = "logged" /\ u \in ripe
  /\ log' = [log EXCEPT ![u] = "collected"]
  /\ UNCHANGED <<ripe, charged, hold, box, taskVars, faults, restarts>>

\* Retention spares the usages whose row is not completed.
Collect(u) ==
  /\ log[u] = "logged" /\ u \in ripe
  /\ box[u].status \in {"absent", "completed"}
  /\ log' = [log EXCEPT ![u] = "collected"]
  /\ UNCHANGED <<ripe, charged, hold, box, taskVars, faults, restarts>>

\* Cancelling the tasks drops the queue, the workers and the reconciler.
Shutdown ==
  /\ up /\ restarts < MaxRestarts
  /\ up' = FALSE
  /\ queue' = <<>>
  /\ job' = [u \in Usages |-> "idle"]
  /\ rec' = Asleep
  /\ UNCHANGED <<dbVars, handler, faults, restarts>>

\* The process dies, orderly or not, and starts again.
Restart ==
  /\ restarts < MaxRestarts
  /\ restarts' = restarts + 1
  /\ up' = TRUE
  /\ queue' = <<>>
  /\ job' = [u \in Usages |-> "idle"]
  /\ handler' = [u \in Usages |-> IF handler[u] = "idle" THEN "idle" ELSE "done"]
  /\ rec' = Asleep
  /\ UNCHANGED <<dbVars, faults>>

----------------------------------------------------------------------------

Init ==
  /\ log = [u \in Usages |-> "none"]
  /\ ripe = {} /\ charged = {}
  /\ hold \in [Usages -> Holds]
  /\ \A u \in Usages: hold[u] \in IF u \in Foreign THEN {"foreign"}
                                  ELSE IF u \in Keyed THEN {"open", "gone", "none"} ELSE {"none"}
  /\ box = [u \in Usages |-> NoRow]
  /\ handler = [u \in Usages |-> "idle"]
  /\ queue = <<>>
  /\ job = [u \in Usages |-> "idle"]
  /\ rec = Asleep
  /\ up = TRUE
  /\ faults = 0 /\ restarts = 0

Handler(u) == PersistOutbox(u) \/ SendJob(u) \/ SettleDirectly(u)
Worker(u) == StartWorker(u) \/ WorkerSettles(u) \/ WorkerAcknowledges(u)
Reconciler ==
  \/ Cleanup \/ SelectPending \/ SelectGaps \/ EndPass
  \/ \E u \in Usages: ReconcileRow(u) \/ ReconcileSettle(u) \/ ReconcileMark(u) \/ RepairGap(u)

Next ==
  \/ \E u \in Usages: \/ RecordUsage(u) \/ Handler(u) \/ Worker(u)
                      \/ Ripen(u) \/ BackOffEnds(u) \/ HoldLapses(u) \/ Collect(u)
  \/ ReceiveJob \/ Reconciler \/ Shutdown \/ Restart

Spec == Init /\ [][Next]_vars

\* Spawned tasks are polled until they end, time passes, and a process that
\* shuts down is started again.
Fairness ==
  /\ \A u \in Usages: /\ WF_vars(Handler(u)) /\ WF_vars(Worker(u))
                      /\ WF_vars(Ripen(u)) /\ WF_vars(BackOffEnds(u))
  /\ WF_vars(ReceiveJob) /\ WF_vars(Reconciler) /\ WF_vars(~up /\ Restart)

FairSpec == Spec /\ Fairness

----------------------------------------------------------------------------
(* Properties                                                              *)

\* A row says completed only when the usage has its charge event, whoever of
\* the worker, the reconciler and the request settled it (mark_outbox_completed).
CompletedIsCharged == \A u \in Usages: box[u].status = "completed" => u \in charged

\* A completed row is never reopened or buried by a failure recorded late
\* (the condition status<>'completed' of mark_outbox_failed).
CompletedIsFinal ==
  [][\A u \in Usages: box[u].status = "completed" => box'[u].status = "completed"]_vars

\* Retention takes the log of a usage handed off by the journal only after it
\* was charged (delete_created_at_in_batches).
CollectedIsCharged == \A u \in Journalled: log[u] = "collected" => u \in charged

\* Together: whoever trusts the row, or no longer has the log, finds the charge.
SettledIsCharged == CompletedIsCharged /\ CollectedIsCharged

\* A dead letter that owes its charge cannot be settled at all: a lapsed or
\* lost hold never uses up the attempts of a usage that could be charged
\* (reconcile_missing drops the key of a hold that is gone).  Stated for
\* instances with MaxAttempts > MaxFaults + 2 and Limit > Cardinality(Usages).
OnlyHopelessDie ==
  \A u \in Usages: box[u].status = "failed" /\ u \notin charged /\ log[u] = "logged"
                    => u \in Poison \cup Foreign

\* Every row that waits is in the end completed or given up on, in spite of
\* lost jobs, lost replies and restarts (reconcile_missing).
RowsAreResolved ==
  \A u \in Usages: (box[u].status = "pending") ~> (box[u].status \in {"completed", "failed"})

\* Every usage that can be settled is charged, through its row or by the
\* repair of the gap between the two inserts, unless retention was faster than
\* the repair (reconcile_missing).
EventuallyCharged ==
  \A u \in Usages \ (Poison \cup Foreign):
    (log[u] = "logged") ~> (u \in charged \/ (u \notin Journalled /\ log[u] = "collected"))

----------------------------------------------------------------------------
(* The inductive invariant behind the safety properties                    *)

\* Whoever is about to mark a row completed has seen the usage charged.
AboutToComplete ==
  \A u \in Usages:
    job[u] = "completed" \/ (rec.step = "completed" /\ IsFirst(u, rec.ids)) => u \in charged

\* Nothing is known of a usage before it is recorded.
NothingBeforeTheLog ==
  \A u \in Usages: log[u] = "none" =>
     /\ box[u] = NoRow /\ u \notin charged /\ u \notin ripe
     /\ handler[u] = "idle" /\ job[u] = "idle" /\ u \notin rec.ids
     /\ \A i \in 1..Len(queue): queue[i] # u

\* The journal's handoff leaves no usage without a row, and a dead letter
\* has used up its attempts.
RowsFollowLogs ==
  /\ \A u \in Journalled: log[u] # "none" => box[u].status # "absent"
  /\ \A u \in Usages: box[u].status = "failed" => box[u].attempts >= MaxAttempts

OutboxInv ==
  /\ TypeOK /\ CompletedIsCharged /\ CollectedIsCharged
  /\ AboutToComplete /\ NothingBeforeTheLog /\ RowsFollowLogs

----------------------------------------------------------------------------
(* The promise this implements                                             *)

\* Where a usage stands: a charge outweighs everything else.
Standing(u) ==
  IF u \in charged THEN "charged"
  ELSE IF log[u] = "collected" THEN "lost"
  ELSE IF box[u].status = "failed" THEN "dead"
  ELSE IF log[u] = "logged" THEN "owed" ELSE "none"

P == INSTANCE ChargePromise WITH bill <- [u \in Usages |-> Standing(u)],
                                 Fenced <- Journalled

\* The tables show every step of the settlement machinery as a step of the
\* promise: no charge is taken back, nothing fenced is lost.
ImplementsPromise == P!PromiseSafety

\* The whole promise: under FairSpec no usage is owed for ever, and one that can
\* be charged is.
KeepsPromise == P!Promise /\ EventuallyCharged
=============================================================================
