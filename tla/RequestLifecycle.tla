--------------------------- MODULE RequestLifecycle ---------------------------
(***************************************************************************)
(* The life of a request between admission and terminal recording, and     *)
(* what it holds meanwhile: a journal slot, a lease of its API key's       *)
(* concurrency, and a wallet hold (UsageLogRecorder in                     *)
(* conduit-bin/src/usage_log_recorder.rs, the admission guards and the two *)
(* command flows of conduit-orchestrator/src/orchestrator.rs, the stream   *)
(* finalizer of outbound_stream.rs).                                       *)
(*                                                                         *)
(* A request is a future that may be dropped at each await: by the HTTP    *)
(* timeout, or because the client went away.  A stream that has opened     *)
(* belongs to a task of its own instead, with its own deadlines.  Every    *)
(* database call is a step; one that inserts something has a second step   *)
(* at which the request learns of it.                                      *)
(*                                                                         *)
(* All requests use one API key.  Time passes in units; a deadline is an   *)
(* upper bound on how long the clock may run before the code acts.         *)
(***************************************************************************)
EXTENDS Integers, FiniteSets

CONSTANTS Requests,
          Streams,        \* those with stream: true
          Unmetered,      \* those whose response has nothing to meter
          Limit,          \* the key's concurrency limit
          Timeout,        \* llm_request_timeout
          Slack,          \* the 300 s that leases and holds last longer
          StreamBudget,   \* the 600 s a stream may take when its context names no deadline
          LastArrival,    \* bound on the time at which a request may arrive
          MaxTime,        \* bound on the clock
          MaxFaults       \* bound on failed calls and crashes

ASSUME RequestsAssumption == IsFiniteSet(Requests) /\ Streams \subseteq Requests
                             /\ Unmetered \subseteq Requests
ASSUME TimesAssumption == {Limit, Timeout, Slack, StreamBudget} \subseteq Nat \ {0}
                          /\ {LastArrival, MaxTime, MaxFaults} \subseteq Nat

VARIABLES
  now,       \* the clock
  pc,        \* pc[r]: the step request r is at
  began,     \* began[r]: when it arrived
  opened,    \* opened[r]: when its stream was opened
  slot,      \* JournalState.reserved
  lease,     \* lease[r]: expires_at of its row in api_key_concurrency_leases
  hold,      \* hold[r]: status of its row in project_wallet_reservations
  until,     \* until[r]: expires_at of that row, or of one on its way
  late,      \* requests dropped after the commit of their hold was sent
  row,       \* row[r]: requests.status; "stale" is a failed that the janitor wrote
  pending,   \* requests.metering_pending
  accepted,  \* requests whose event the journal has accepted
  logged,    \* those whose event a put_ready that failed has left in the log
  handed,    \* those whose event was handed off to PostgreSQL
  tasks,     \* the cleanup tasks that abandon_request has spawned
  client,    \* client[r]: what the client was told
  faults

dbVars == <<lease, hold, until, late, row, pending, handed>>
vars == <<now, pc, began, opened, slot, dbVars, accepted, logged, tasks, client, faults>>

None == -1
Expiries == {None} \cup Nat

\* The awaits of a request, in the order of the code.
Admitting == {"lease", "leased", "hold", "held"}
Running == {"pipeline", "stream"}
Failing == {"fail", "failHold", "failRow"}
Recording == {"record", "freeHold", "unmark", "handoff", "finish", "freeLease"}
Steps == {"new", "over"} \cup Admitting \cup Running \cup Failing \cup Recording

TypeOK ==
  /\ now \in 0..MaxTime
  /\ pc \in [Requests -> Steps]
  /\ began \in [Requests -> Nat] /\ opened \in [Requests -> Expiries]
  /\ lease \in [Requests -> Expiries] /\ until \in [Requests -> Expiries]
  /\ hold \in [Requests -> {"none", "open", "captured", "released", "expired"}]
  /\ row \in [Requests -> {"processing", "completed", "failed", "canceled", "stale"}]
  /\ client \in [Requests -> {"waiting", "done", "error", "gone"}]
  /\ slot \subseteq Requests /\ late \subseteq Requests /\ pending \subseteq Requests
  /\ handed \subseteq Requests /\ accepted \subseteq Requests /\ logged \subseteq Requests
  /\ tasks \subseteq {"lease", "hold"} \X Requests
  /\ faults \in 0..MaxFaults

Goto(r, step) == pc' = [pc EXCEPT ![r] = step]
Tell(r, what) == client' = [client EXCEPT ![r] = IF @ = "waiting" THEN what ELSE @]

\* A faulty version: the lease ends with the request's own timeout.
LeaseEndsEarly == Timeout

\* with_api_key_concurrency_lease_ttl and with_reservation_ttl
LeaseTTL == Timeout + Slack

\* A call fails and its error is reported or logged.
Fault == faults < MaxFaults /\ faults' = faults + 1
NoFault == UNCHANGED faults

Live == {r \in Requests: lease[r] > now}

----------------------------------------------------------------------------
(* Abandonment: what a dropped guard does                                  *)

\* A faulty version: the slot of the journal is forgotten.
AbandonTasks(r) ==
  /\ UNCHANGED slot
  /\ tasks' = tasks \cup {<<"lease", r>>, <<"hold", r>>}

\* The slot is returned at once; lease and hold are released by tasks.
Abandon(r) ==
  /\ slot' = slot \ {r}
  /\ tasks' = tasks \cup {<<"lease", r>>, <<"hold", r>>}

\* An error return drops the guard.
FailAdmission(r) == Abandon(r) /\ Goto(r, "over") /\ Tell(r, "error")

----------------------------------------------------------------------------
(* Admission                                                               *)

\* journal.reserve.
Reserve(r) ==
  /\ pc[r] = "new"
  /\ now <= LastArrival
  /\ began' = [began EXCEPT ![r] = now]
  /\ slot' = slot \cup {r}
  /\ Goto(r, "lease")
  /\ UNCHANGED <<now, opened, dbVars, accepted, logged, tasks, client, faults>>

\* The rows that are left after the cleanup that precedes the count.
Swept == [r \in Requests |-> IF lease[r] <= now THEN None ELSE lease[r]]

\* A faulty version: the limit itself is still let in.
GrantOneMore(r) ==
  /\ pc[r] = "lease"
  /\ Cardinality(Live) <= Limit
  /\ lease' = [Swept EXCEPT ![r] = now + LeaseTTL]
  /\ Goto(r, "leased")
  /\ UNCHANGED <<now, began, opened, slot, hold, until, late, row, pending, accepted, logged,
                 handed, tasks, client, faults>>

\* acquire_postgres_api_key_slot: one transaction under the key's advisory lock.
GrantLease(r) ==
  /\ pc[r] = "lease"
  /\ Cardinality(Live) < Limit
  /\ lease' = [Swept EXCEPT ![r] = now + LeaseTTL]
  /\ Goto(r, "leased")
  /\ UNCHANGED <<now, began, opened, slot, hold, until, late, row, pending, accepted, logged,
                 handed, tasks, client, faults>>

\* A refusal rolls the cleanup back.  A call that fails may have committed.
DenyLease(r) ==
  /\ pc[r] = "lease"
  /\ \/ Cardinality(Live) >= Limit /\ UNCHANGED lease /\ NoFault
     \/ UNCHANGED lease /\ Fault
     \/ Cardinality(Live) < Limit /\ lease' = [Swept EXCEPT ![r] = now + LeaseTTL] /\ Fault
  /\ slot' = slot \ {r}
  /\ Goto(r, "over") /\ Tell(r, "error")
  /\ UNCHANGED <<now, began, opened, hold, until, late, row, pending, accepted, logged, handed,
                 tasks>>

\* The lease is noted in the context, and the cleanup guard is armed.
ArmGuard(r) ==
  /\ pc[r] = "leased"
  /\ Goto(r, "hold")
  /\ UNCHANGED <<now, began, opened, slot, dbVars, accepted, logged, tasks, client, faults>>

OpenHold(r) ==
  /\ hold' = [hold EXCEPT ![r] = "open"]
  /\ until' = [until EXCEPT ![r] = now + LeaseTTL]

\* reserve_request: a hold is taken, or none is needed.
GrantHold(r) ==
  /\ pc[r] = "hold"
  /\ OpenHold(r) \/ UNCHANGED <<hold, until>>
  /\ Goto(r, "held")
  /\ UNCHANGED <<now, began, opened, slot, lease, late, row, pending, accepted, logged, handed,
                 tasks, client, faults>>

DenyHold(r) ==
  /\ pc[r] = "hold"
  /\ \/ UNCHANGED <<hold, until>> /\ NoFault
     \/ OpenHold(r) /\ Fault
  /\ FailAdmission(r)
  /\ UNCHANGED <<now, began, opened, lease, late, row, pending, accepted, logged, handed>>

\* A faulty version: the request is not marked before the upstream is called.
SkipMark(r) ==
  /\ pc[r] = "held"
  /\ Goto(r, "pipeline")
  /\ UNCHANGED <<now, began, opened, slot, dbVars, accepted, logged, tasks, client, faults>>

\* The request row is marked, and the guard of the command flow takes over.
MarkPending(r) ==
  /\ pc[r] = "held"
  /\ \/ /\ pending' = pending \cup {r}
        /\ Goto(r, "pipeline")
        /\ NoFault /\ UNCHANGED <<slot, tasks, client>>
     \/ /\ pending' \in {pending, pending \cup {r}}
        /\ Fault /\ FailAdmission(r)
  /\ UNCHANGED <<now, began, opened, lease, hold, until, late, row, accepted, logged, handed>>

----------------------------------------------------------------------------
(* The upstream call and the stream                                        *)

\* The pipeline returns an error, a response, or an open stream.
PipelineFails(r) ==
  /\ pc[r] = "pipeline"
  /\ Goto(r, "fail")
  /\ UNCHANGED <<now, began, opened, slot, dbVars, accepted, logged, tasks, client, faults>>

PipelineResponds(r) ==
  /\ pc[r] = "pipeline"
  /\ IF r \in Streams
     THEN Goto(r, "stream") /\ opened' = [opened EXCEPT ![r] = now]
     ELSE Goto(r, "record") /\ UNCHANGED opened
  /\ UNCHANGED <<now, began, slot, dbVars, accepted, logged, tasks, client, faults>>

\* A faulty version: the terminal event is forwarded like the others.
ForwardTerminal(r) ==
  /\ pc[r] = "stream"
  /\ \/ Goto(r, "record") /\ Tell(r, "done")
     \/ Goto(r, "record") /\ Tell(r, "gone")
  /\ UNCHANGED <<now, began, opened, slot, dbVars, accepted, logged, tasks, faults>>

\* The terminal event is kept back, or the client has gone and what was
\* collected is a complete response.
StreamCompletes(r) ==
  /\ pc[r] = "stream"
  /\ UNCHANGED client \/ Tell(r, "gone")
  /\ Goto(r, "record")
  /\ UNCHANGED <<now, began, opened, slot, dbVars, accepted, logged, tasks, faults>>

\* The client has gone, the upstream failed, or the deadline or the budget is over.
StreamBreaks(r) ==
  /\ pc[r] = "stream"
  /\ UNCHANGED client \/ Tell(r, "gone")
  /\ Goto(r, "fail")
  /\ UNCHANGED <<now, began, opened, slot, dbVars, accepted, logged, tasks, faults>>

\* Terminal event seen, but the chunks cannot be aggregated: close returns an error.
AggregationFails(r) ==
  /\ pc[r] = "stream"
  /\ Fault /\ FailAdmission(r)
  /\ UNCHANGED <<now, began, opened, dbVars, accepted, logged>>

----------------------------------------------------------------------------
(* record_failure and record_cancellation: errors of the calls are logged  *)

Deleted(r) == [lease EXCEPT ![r] = None]

FailLease(r) ==
  /\ pc[r] = "fail"
  /\ \/ lease' = Deleted(r) /\ NoFault
     \/ lease' \in {lease, Deleted(r)} /\ Fault
  /\ slot' = slot \ {r}
  /\ Goto(r, "failHold")
  /\ UNCHANGED <<now, began, opened, hold, until, late, row, pending, accepted, logged, handed,
                 tasks, client>>

\* release_request ends an open hold and leaves any other as it is.
Released(r) == [hold EXCEPT ![r] = IF @ = "open" THEN "released" ELSE @]

FailHold(r) ==
  /\ pc[r] = "failHold"
  /\ \/ hold' = Released(r) /\ NoFault
     \/ hold' \in {hold, Released(r)} /\ Fault
  /\ Goto(r, "failRow")
  /\ UNCHANGED <<now, began, opened, slot, lease, until, late, row, pending, accepted, logged,
                 handed, tasks, client>>

FailedStatus(r) == IF opened[r] # None /\ client[r] = "gone" THEN "canceled" ELSE "failed"

\* The row is closed and its mark removed in one update, unless the text of
\* the error speaks of durable metering; the guard is disarmed.
FailRow(r) ==
  /\ pc[r] = "failRow"
  /\ \/ /\ row[r] = "processing"
        /\ row' = [row EXCEPT ![r] = FailedStatus(r)]
        /\ pending' \in {pending, pending \ {r}}
        /\ NoFault
     \/ row[r] # "processing" /\ NoFault /\ UNCHANGED <<row, pending>>
     \/ Fault /\ UNCHANGED <<row, pending>>
  /\ Goto(r, "over") /\ Tell(r, "error")
  /\ UNCHANGED <<now, began, opened, slot, lease, hold, until, late, accepted, logged, handed,
                 tasks>>

----------------------------------------------------------------------------
(* record_success                                                          *)

\* Nothing to meter: slot and hold are released.
RecordUnmetered(r) ==
  /\ pc[r] = "record" /\ r \in Unmetered
  /\ slot' = slot \ {r}
  /\ Goto(r, "freeHold")
  /\ UNCHANGED <<now, began, opened, dbVars, accepted, logged, tasks, client, faults>>

FreeHold(r) ==
  /\ pc[r] = "freeHold"
  /\ \/ hold' = Released(r) /\ NoFault
     \/ hold' \in {hold, Released(r)} /\ Fault
  /\ Goto(r, "unmark")
  /\ UNCHANGED <<now, began, opened, slot, lease, until, late, row, pending, accepted, logged,
                 handed, tasks, client>>

Unmark(r) ==
  /\ pc[r] = "unmark"
  /\ \/ pending' = pending \ {r} /\ NoFault
     \/ UNCHANGED pending /\ Fault
  /\ Goto(r, "finish")
  /\ UNCHANGED <<now, began, opened, slot, lease, hold, until, late, row, accepted, logged, handed,
                 tasks, client>>

\* put_ready accepts the event, or its error ends the request.  It may fail
\* behind the append: the event is then in the log and has no ready file.
PutReady(r) ==
  /\ pc[r] = "record" /\ r \notin Unmetered
  /\ \/ /\ accepted' = accepted \cup {r}
        /\ slot' = slot \ {r}
        /\ Goto(r, "handoff")
        /\ NoFault /\ UNCHANGED <<logged, tasks, client>>
     \/ /\ logged' \in {logged, logged \cup {r}}
        /\ Fault /\ FailAdmission(r) /\ UNCHANGED accepted
  /\ UNCHANGED <<now, began, opened, dbVars>>

HandedOff(r) == handed' = handed \cup {r} /\ pending' = pending \ {r}

\* A faulty version: the error of the handoff is returned to the caller.
HandoffOrFail(r) ==
  /\ pc[r] = "handoff"
  /\ \/ HandedOff(r) /\ NoFault /\ Goto(r, "finish")
     \/ UNCHANGED <<handed, pending>> /\ Fault /\ Goto(r, "fail")
  /\ UNCHANGED <<now, began, opened, slot, lease, hold, until, late, row, accepted, logged,
                 tasks, client>>

\* handoff and the queueing of the charge; an error leaves it to the replay.
Handoff(r) ==
  /\ pc[r] = "handoff"
  /\ \/ HandedOff(r) /\ NoFault
     \/ HandedOff(r) /\ Fault
     \/ UNCHANGED <<handed, pending>> /\ Fault
  /\ Goto(r, "finish")
  /\ UNCHANGED <<now, began, opened, slot, lease, hold, until, late, row, accepted, logged,
                 tasks, client>>

Finish(r) ==
  /\ pc[r] = "finish"
  /\ \/ row' = [row EXCEPT ![r] = IF @ = "processing" THEN "completed" ELSE @] /\ NoFault
     \/ UNCHANGED row /\ Fault
  /\ Goto(r, "freeLease")
  /\ UNCHANGED <<now, began, opened, slot, lease, hold, until, late, pending, accepted, logged,
                 handed, tasks, client>>

\* The guard is disarmed, and the client gets its response or terminal event.
FreeLease(r) ==
  /\ pc[r] = "freeLease"
  /\ \/ lease' = Deleted(r) /\ NoFault
     \/ lease' \in {lease, Deleted(r)} /\ Fault
  /\ Goto(r, "over") /\ Tell(r, "done")
  /\ UNCHANGED <<now, began, opened, slot, hold, until, late, row, pending, accepted, logged,
                 handed, tasks>>

----------------------------------------------------------------------------
(* Drops, timeouts and crashes                                             *)

\* Without a guard nothing is cleaned up.
DropUnguarded(r) ==
  /\ pc[r] \in {"lease", "leased"}
  /\ Goto(r, "over") /\ Tell(r, "gone")
  /\ UNCHANGED <<now, began, opened, slot, dbVars, accepted, logged, tasks, faults>>

\* The commit of the hold may be on its way, with an expiry that was
\* computed before it.
DropWhileHolding(r) ==
  /\ pc[r] = "hold"
  /\ Abandon(r) /\ Goto(r, "over") /\ Tell(r, "gone")
  /\ \/ late' = late \cup {r} /\ until' = [until EXCEPT ![r] = now + LeaseTTL]
     \/ UNCHANGED <<late, until>>
  /\ UNCHANGED <<now, began, opened, lease, hold, row, pending, accepted, logged, handed, faults>>

\* A dropped future, or the finalizer of a stream after 10 s or at shutdown.
DropGuarded(r) ==
  /\ pc[r] \in {"held"} \cup Running \cup Failing \cup Recording
  /\ Abandon(r) /\ Goto(r, "over")
  /\ Tell(r, "gone") \/ (opened[r] # None /\ Tell(r, "error"))
  /\ UNCHANGED <<now, began, opened, dbVars, accepted, logged, faults>>

\* The process dies, or is started again because a failed put_ready has
\* stopped admission.  The journal is opened with all events of its log.
Crash ==
  /\ Fault \/ (logged # {} /\ NoFault)
  /\ pc' = [r \in Requests |-> IF pc[r] = "new" THEN "new" ELSE "over"]
  /\ client' = [r \in Requests |-> IF client[r] = "waiting" /\ pc[r] # "new"
                                   THEN "gone" ELSE client[r]]
  /\ slot' = {} /\ tasks' = {}
  /\ accepted' = accepted \cup logged /\ logged' = {}
  /\ UNCHANGED <<now, began, opened, dbVars>>

----------------------------------------------------------------------------
(* What runs in the background                                             *)

RunTask(task) ==
  /\ task \in tasks
  /\ LET r == task[2]
     IN \/ NoFault /\ lease' = (IF task[1] = "lease" THEN Deleted(r) ELSE lease)
                   /\ hold' = (IF task[1] = "hold" THEN Released(r) ELSE hold)
        \/ Fault /\ UNCHANGED <<lease, hold>>
  /\ tasks' = tasks \ {task}
  /\ UNCHANGED <<now, pc, began, opened, slot, until, late, row, pending, accepted, logged,
                 handed, client>>

\* The commit that was on its way arrives, after what the cleanup did.
LateCommit(r) ==
  /\ r \in late
  /\ hold' = [hold EXCEPT ![r] = "open"] /\ late' = late \ {r}
  /\ UNCHANGED <<now, pc, began, opened, slot, lease, until, row, pending, accepted, logged,
                 handed, tasks, client, faults>>

\* The reconciler releases the holds whose time is over.
ExpireHold(r) ==
  /\ hold[r] = "open" /\ until[r] <= now
  /\ hold' = [hold EXCEPT ![r] = "expired"]
  /\ UNCHANGED <<now, pc, began, opened, slot, lease, until, late, row, pending, accepted, logged,
                 handed, tasks, client, faults>>

\* A faulty version: a request is stale that has not written for a while.
MarkIdle(r) ==
  /\ pc[r] # "new" /\ row[r] = "processing" /\ began[r] < now
  /\ row' = [row EXCEPT ![r] = "stale"]
  /\ UNCHANGED <<now, pc, began, opened, slot, lease, hold, until, late, pending, accepted, logged,
                 handed, tasks, client, faults>>

\* mark_stale_processing: activity_until lasts for llm_request_timeout.
MarkStale(r) ==
  /\ pc[r] # "new" /\ row[r] = "processing" /\ began[r] + Timeout < now
  /\ row' = [row EXCEPT ![r] = "stale"]
  /\ UNCHANGED <<now, pc, began, opened, slot, lease, hold, until, late, pending, accepted, logged,
                 handed, tasks, client, faults>>

\* The replay task hands off what a request has left behind.
Replay(r) ==
  /\ r \in accepted \ handed
  /\ HandedOff(r)
  /\ UNCHANGED <<now, pc, began, opened, slot, lease, hold, until, late, row, accepted, logged,
                 tasks, client, faults>>

\* A settlement worker captures the hold of a usage that was handed off.
Capture(r) ==
  /\ r \in handed /\ hold[r] = "open" /\ until[r] > now
  /\ hold' = [hold EXCEPT ![r] = "captured"]
  /\ UNCHANGED <<now, pc, began, opened, slot, lease, until, late, row, pending, accepted, logged,
                 handed, tasks, client, faults>>

\* The clock waits for the deadlines: the HTTP timeout of a handler, and the
\* deadline of the forwarding loop, which counts from the opening of the stream.
Handling == {r \in Requests: pc[r] \notin {"new", "over"} /\ opened[r] = None}

Tick ==
  /\ now < MaxTime
  /\ \A r \in Handling: now < began[r] + Timeout
  /\ \A r \in Requests: opened[r] # None /\ pc[r] # "over" => now < opened[r] + StreamBudget
  /\ now' = now + 1
  /\ UNCHANGED <<pc, began, opened, slot, dbVars, accepted, logged, tasks, client, faults>>

----------------------------------------------------------------------------

Init ==
  /\ now = 0
  /\ pc = [r \in Requests |-> "new"]
  /\ began = [r \in Requests |-> 0]
  /\ opened = [r \in Requests |-> None]
  /\ slot = {} /\ late = {} /\ pending = {} /\ accepted = {} /\ logged = {} /\ handed = {}
  /\ tasks = {}
  /\ lease = [r \in Requests |-> None]
  /\ hold = [r \in Requests |-> "none"]
  /\ until = [r \in Requests |-> None]
  /\ row = [r \in Requests |-> "processing"]
  /\ client = [r \in Requests |-> "waiting"]
  /\ faults = 0

Admit(r) == Reserve(r) \/ GrantLease(r) \/ DenyLease(r) \/ ArmGuard(r) \/ GrantHold(r)
            \/ DenyHold(r) \/ MarkPending(r)
Serve(r) == PipelineFails(r) \/ PipelineResponds(r) \/ StreamCompletes(r) \/ StreamBreaks(r)
            \/ AggregationFails(r)
Close(r) == FailLease(r) \/ FailHold(r) \/ FailRow(r) \/ RecordUnmetered(r) \/ FreeHold(r)
            \/ Unmark(r) \/ PutReady(r) \/ Handoff(r) \/ Finish(r) \/ FreeLease(r)
Drop(r) == DropUnguarded(r) \/ DropWhileHolding(r) \/ DropGuarded(r)
Background(r) == LateCommit(r) \/ ExpireHold(r) \/ MarkStale(r) \/ Replay(r) \/ Capture(r)

Next ==
  \/ \E r \in Requests: Admit(r) \/ Serve(r) \/ Close(r) \/ Drop(r) \/ Background(r)
  \/ \E task \in tasks: RunTask(task)
  \/ Crash
  \/ Tick

Spec == Init /\ [][Next]_vars

----------------------------------------------------------------------------
(* Properties                                                              *)

\* No interleaving of acquisitions, releases, expiries and crashes gives a
\* key more live leases than its limit.
LeasesWithinLimit == Cardinality(Live) <= Limit

\* A request with a buffered response is served only as long as its lease is
\* live, so that the limit of its key is one on what really runs: the deadline
\* of the handler and that of the lease are computed in different places.
LeaseCoversRequest == \A r \in Requests \ Streams: pc[r] \in Running => lease[r] > now

\* "A successful terminal is released only after durable accounting
\* acceptance": a client that was told success has been metered.
SuccessIsMetered == \A r \in Requests \ Unmetered: client[r] = "done" => r \in accepted

\* Retention may take a request row that is not marked: an event that still
\* has to be handed off keeps the mark of its request.
AcceptedIsProtected == accepted \ handed \subseteq pending

\* The janitor closes only what has ended: activity_until covers the time a
\* buffered request may take (mark_stale_processing_postgres).
StaleIsOver == \A r \in Requests \ Streams: row[r] = "stale" => pc[r] = "over"

\* However a request ends, its slot of the journal ends with it: by error, drop
\* or time-out, at every await but the one before the cleanup guard is armed.
SlotsFollowOwners ==
  [][\A r \in slot': pc'[r] = "over" => pc[r] \in {"lease", "leased", "over"}]_vars

\* A request that the recorder closed as failed or canceled is not charged.
FailedIsFree == \A r \in Requests: row[r] \in {"failed", "canceled"} => r \notin accepted

\* What a client was told and what the row says agree with the meter: success
\* is metered, failure is free.
OutcomesAreMetered == SuccessIsMetered /\ FailedIsFree

\* The deadlines of handler, lease and janitor, computed in three places, agree
\* for buffered requests.
DeadlinesAlign == LeaseCoversRequest /\ StaleIsOver

\* The invariant that carries these: how far a request has come decides
\* whether it is marked, metered, and recorded as failed.
Unaccepted == {"new"} \cup Admitting \cup Running \cup Failing \cup {"record", "freeHold", "unmark"}

Stage(r) ==
  /\ pc[r] \in Unaccepted => r \notin accepted
  /\ pc[r] \in Running \cup {"record"} => r \in pending
  /\ pc[r] = "handoff" => r \in accepted
  /\ pc[r] \in {"freeHold", "unmark"} => r \in Unmetered
  /\ pc[r] \in {"finish", "freeLease"} => r \in accepted \cup Unmetered
  /\ row[r] \in {"failed", "canceled"} => pc[r] = "over" /\ r \notin accepted \cup logged
  /\ r \in logged => pc[r] = "over" /\ r \in pending \ accepted
  /\ r \in accepted \ handed => r \in pending
  /\ client[r] = "done" => r \in accepted \cup Unmetered

LifecycleInv == TypeOK /\ (\A r \in Requests: Stage(r)) /\ LeasesWithinLimit

----------------------------------------------------------------------------
(* What comments and documents say, and the model refutes.                 *)

\* "The borrowed guard closes that cancellation window" (orchestrator.rs:614): a
\* slot of the journal belongs to a request that is still there.
SlotsHaveOwners == \A r \in slot: pc[r] # "over"

\* The deadlines of streams, leases and holds are aligned (backend.md:579): a
\* request that is served, streams included, has a live lease.
LeaseCoversStream == \A r \in Requests: pc[r] \in Running => lease[r] > now
=============================================================================
