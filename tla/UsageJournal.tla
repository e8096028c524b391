----------------------------- MODULE UsageJournal -----------------------------
(***************************************************************************)
(* The durable metering journal of one instance and its handoff to         *)
(* PostgreSQL (crates/conduit-bin/src/usage_recovery.rs, as the recorder   *)
(* and the replay task use it).  A request key stands for the request, for *)
(* its metered event and for the files named after it.                     *)
(*                                                                         *)
(* What an operation does under the journal's mutex is one action.  The    *)
(* health check of reserve, the handoff and the acknowledgement are steps  *)
(* of their own: requests, the replay task and crashes interleave there.   *)
(*                                                                         *)
(* The log is abstracted to what restore_indexes makes of it: the events   *)
(* of its readable prefix that are not acknowledged, whether a line that   *)
(* it does not accept ends this prefix, and the bytes of the file.         *)
(***************************************************************************)
EXTENDS Sums, Integers

CONSTANTS Requests,   \* request keys, numbered in the order of the file names
          Size,       \* Size[r]: bytes of the event of r
          Inexact,    \* events whose total_cost is not read back as written
          MaxEvent,   \* max_event_bytes
          Overhead,   \* what a frame of the log adds to an event
          AckFrame,   \* bytes of an acknowledgement in the log
          Margin,     \* the 1024 bytes that reserve adds per event
          MaxBytes,   \* max_bytes
          BatchSize,  \* replay_batch_size
          Faults,     \* what may go wrong: "power", "put", "ack"
          MaxMishaps  \* bound on the crashes and failed acknowledgements

ASSUME KeysFinite == IsFiniteSet(Requests) /\ Requests \subseteq Nat
ASSUME SizesType == Size \in [Requests -> Nat \ {0}] /\ Inexact \subseteq Requests
ASSUME BytesType == /\ {MaxEvent, Overhead, AckFrame, Margin, MaxBytes} \subseteq Nat
                    /\ Overhead <= Margin
                    /\ \A r \in Requests : AckFrame <= Size[r]
ASSUME ReplayType == BatchSize \in Nat \ {0} /\ MaxMishaps \in Nat
ASSUME FaultsType == Faults \subseteq {"power", "put", "ack"}

VARIABLES
  up,          \* the process runs and has opened the journal
  healthy,     \* UsageJournal.healthy
  reserved,    \* JournalState.reserved
  phase,       \* where each request stands
  accepted,    \* the requests whose put_ready returned Ok
  log,         \* journal.wal: readable prefix, broken line, bytes
  ready,       \* the *.ready files
  tmp,         \* the *.tmp files
  quarantine,  \* the *.quarantine files
  unsynced,    \* the ready files whose directory entry is not on disk yet
  batch,       \* the files the replay task has listed and not yet treated
  replaying,   \* the event it has handed off and not yet acknowledged
  receipt,     \* usage_recovery_receipts: which copy's hash was stored
  inserted,    \* how many usage_logs rows were inserted for the event
  kept,        \* the events whose usage_logs row still exists
  outbox,      \* usage_charge_outbox.status
  mishaps      \* how many crashes and failed acknowledgements there were

files == <<log, ready, tmp, quarantine, unsynced>>
tables == <<receipt, inserted, kept, outbox>>
memory == <<up, healthy, reserved, phase, batch, replaying>>
vars == <<memory, accepted, files, tables, mishaps>>

Nobody == -1
-----------------------------------------------------------------------------
\* The log file.

EmptyLog == [pending |-> {}, broken |-> FALSE, bytes |-> 0]

\* A frame of which only a part was written.
TornAppend(l) == [l EXCEPT !.broken = TRUE, !.bytes = @ + 1]

\* append(Ready): the checksum is computed again from the parsed payload, so
\* restore_indexes does not accept an inexact event.
AppendReady(l, r) ==
  [pending |-> IF l.broken \/ r \in Inexact THEN l.pending ELSE l.pending \cup {r},
   broken  |-> l.broken \/ r \in Inexact,
   bytes   |-> l.bytes + Size[r] + Overhead]

\* append(Ack).
AppendAck(l, r) ==
  [l EXCEPT !.pending = IF l.broken THEN @ ELSE @ \ {r}, !.bytes = @ + AckFrame]

\* What the files of a set of events come to.
SizeOf(S) == Sum([r \in Requests |-> IF r \in S THEN Size[r] ELSE 0])

DiskBytes(l) == l.bytes + SizeOf(ready) + SizeOf(tmp) + SizeOf(quarantine)

\* A faulty version: reserve forgets that an event is written twice.
SlotForFile == MaxEvent + Margin

\* What reserve sets aside per event: its line in the log and its file.
Slot == 2 * MaxEvent + Margin

Init ==
  /\ up = TRUE
  /\ healthy = TRUE
  /\ reserved = {}
  /\ phase = [r \in Requests |-> "idle"]
  /\ accepted = {}
  /\ log = EmptyLog
  /\ ready = {} /\ tmp = {} /\ quarantine = {} /\ unsynced = {}
  /\ batch = {} /\ replaying = Nobody
  /\ receipt = [r \in Requests |-> "none"]
  /\ inserted = [r \in Requests |-> 0]
  /\ kept = {}
  /\ outbox = [r \in Requests |-> "none"]
  /\ mishaps = 0

-----------------------------------------------------------------------------
\* reserve: the health check comes before the mutex.
CheckHealthy(r) ==
  /\ up
  /\ phase[r] = "idle"
  /\ healthy
  /\ phase' = [phase EXCEPT ![r] = "checked"]
  /\ UNCHANGED <<up, healthy, reserved, batch, replaying, accepted, files, tables, mishaps>>

\* A faulty version: the files are not looked at.
IdleSlots == reserved = {}

\* Under the mutex, reserve empties the log when nobody needs it.
Idle == reserved = {} /\ ready \cup tmp \cup quarantine = {}

TakeSlot(r) ==
  /\ up
  /\ phase[r] = "checked"
  /\ log' = IF Idle THEN EmptyLog ELSE log
  /\ IF DiskBytes(log') + (Cardinality(reserved) + 1) * Slot <= MaxBytes
     THEN /\ reserved' = reserved \cup {r}
          /\ phase' = [phase EXCEPT ![r] = "admitted"]
     ELSE /\ phase' = [phase EXCEPT ![r] = "idle"]
          /\ UNCHANGED reserved
  /\ UNCHANGED <<up, healthy, batch, replaying, accepted, ready, tmp, quarantine,
                 unsynced, tables, mishaps>>

\* release: the request failed, was cancelled or used nothing that is metered.
Release(r) ==
  /\ up
  /\ phase[r] \in {"admitted", "failed"}
  /\ reserved' = reserved \ {r}
  /\ phase' = [phase EXCEPT ![r] = "closed"]
  /\ UNCHANGED <<up, healthy, batch, replaying, accepted, files, tables, mishaps>>

\* put_ready succeeds: the event is in the log and has its ready file.
PutReady(r) ==
  /\ up
  /\ phase[r] = "admitted"
  /\ Size[r] <= MaxEvent
  /\ log' = AppendReady(log, r)
  /\ ready' = ready \cup {r}
  /\ unsynced' = unsynced \cup {r}
  /\ reserved' = reserved \ {r}
  /\ accepted' = accepted \cup {r}
  /\ phase' = [phase EXCEPT ![r] = "accepted"]
  /\ UNCHANGED <<up, healthy, batch, replaying, tmp, quarantine, tables, mishaps>>

\* put_ready fails: the event is too large, or the append, the temporary file
\* or the rename fails, each after what came before it.
PutReadyFails(r) ==
  /\ up
  /\ phase[r] = "admitted"
  /\ \/ /\ Size[r] > MaxEvent
        /\ UNCHANGED <<log, tmp>>
     \/ /\ "put" \in Faults
        /\ Size[r] <= MaxEvent
        /\ \/ log' \in {log, TornAppend(log)} /\ UNCHANGED tmp
           \/ log' = AppendReady(log, r) /\ tmp' \in {tmp, tmp \cup {r}}
  /\ healthy' = FALSE
  /\ phase' = [phase EXCEPT ![r] = "failed"]
  /\ UNCHANGED <<up, reserved, batch, replaying, accepted, ready, quarantine, unsynced,
                 tables, mishaps>>

-----------------------------------------------------------------------------
\* handoff: one transaction, serialised per event by the receipt row.

\* The receipt has the hash of another copy, which differs when the event
\* does not survive a round trip through its file.
Conflict(r, copy) == r \in Inexact /\ receipt[r] \notin {"none", copy}

\* The receipt names a usage log that is gone although it was not settled.
Unfenced(r) == receipt[r] # "none" /\ r \notin kept /\ outbox[r] # "completed"

\* A faulty version: the receipt's usage_log_id is not looked at.
HandoffAgain(r, copy) ==
  /\ ~Conflict(r, copy) /\ ~Unfenced(r)
  /\ receipt' = [receipt EXCEPT ![r] = copy]
  /\ inserted' = [inserted EXCEPT ![r] = @ + 1]
  /\ kept' = kept \cup {r}
  /\ outbox' = [outbox EXCEPT ![r] = IF @ = "none" THEN "pending" ELSE @]

Handoff(r, copy) ==
  /\ ~Conflict(r, copy) /\ ~Unfenced(r)
  /\ IF receipt[r] = "none"
     THEN /\ receipt' = [receipt EXCEPT ![r] = copy]
          /\ inserted' = [inserted EXCEPT ![r] = @ + 1]
          /\ kept' = kept \cup {r}
          /\ outbox' = [outbox EXCEPT ![r] = IF @ = "none" THEN "pending" ELSE @]
     ELSE UNCHANGED tables

\* The request hands its event off; it learns of the commit or it does not.
HandoffLive(r) ==
  /\ up
  /\ phase[r] = "accepted"
  /\ Handoff(r, "memory")
  /\ \E p \in {"handed", "closed"} : phase' = [phase EXCEPT ![r] = p]
  /\ UNCHANGED <<up, healthy, reserved, batch, replaying, accepted, files, mishaps>>

\* The handoff fails: the event is left to the replay task.
DeferLive(r) ==
  /\ up
  /\ phase[r] = "accepted"
  /\ phase' = [phase EXCEPT ![r] = "closed"]
  /\ UNCHANGED <<up, healthy, reserved, batch, replaying, accepted, files, tables, mishaps>>

\* ack, under the mutex.  Nothing is written when the ready file is gone.
Ack(r) ==
  IF r \in ready
  THEN /\ log' = AppendAck(log, r)
       /\ ready' = ready \ {r}
       /\ unsynced' = unsynced \cup {r}
       /\ UNCHANGED <<tmp, quarantine, mishaps>>
  ELSE UNCHANGED <<files, mishaps>>

\* ack fails: the append, or the removal of the ready file.
AckFails(r) ==
  /\ "ack" \in Faults
  /\ mishaps < MaxMishaps
  /\ r \in ready
  /\ log' \in {log, TornAppend(log), AppendAck(log, r)}
  /\ mishaps' = mishaps + 1
  /\ UNCHANGED <<ready, tmp, quarantine, unsynced>>

AckLive(r) ==
  /\ up
  /\ phase[r] = "handed"
  /\ Ack(r) \/ AckFails(r)
  /\ phase' = [phase EXCEPT ![r] = "closed"]
  /\ UNCHANGED <<up, healthy, reserved, batch, replaying, accepted, tables>>

-----------------------------------------------------------------------------
\* replay: list the ready files, then treat them in the order of their names.
ReplayList ==
  /\ up
  /\ batch = {}
  /\ ready # {}
  /\ batch' = {r \in ready : Cardinality({q \in ready : q < r}) < BatchSize}
  /\ UNCHANGED <<up, healthy, reserved, phase, replaying, accepted, files, tables, mishaps>>

\* The next file of the batch.
Turn(r) ==
  /\ up
  /\ replaying = Nobody
  /\ r \in batch
  /\ \A q \in batch : r <= q

\* The file is gone meanwhile: its request acknowledged the event itself.
ReplaySkip(r) ==
  /\ Turn(r)
  /\ r \notin ready
  /\ batch' = batch \ {r}
  /\ UNCHANGED <<up, healthy, reserved, phase, replaying, accepted, files, tables, mishaps>>

\* The handoff commits; when its reply is lost, this round of replay ends.
ReplayHandoff(r) ==
  /\ Turn(r)
  /\ r \in ready
  /\ Handoff(r, "file")
  /\ \/ replaying' = r /\ UNCHANGED batch
     \/ batch' = {} /\ UNCHANGED replaying
  /\ UNCHANGED <<up, healthy, reserved, phase, accepted, files, mishaps>>

\* PostgreSQL fails: the round ends.
ReplayDefer ==
  /\ up
  /\ replaying = Nobody
  /\ batch # {}
  /\ batch' = {}
  /\ UNCHANGED <<up, healthy, reserved, phase, replaying, accepted, files, tables, mishaps>>

\* A faulty version: the file is not moved out of the way of the next ones.
ReplayQuarantineStays(r) ==
  /\ Turn(r)
  /\ r \in ready
  /\ Conflict(r, "file") \/ Unfenced(r)
  /\ healthy' = FALSE
  /\ batch' = {}
  /\ UNCHANGED <<up, reserved, phase, replaying, accepted, files, tables, mishaps>>

\* The handoff reports a payload conflict or asks for manual reconciliation.
ReplayQuarantine(r) ==
  /\ Turn(r)
  /\ r \in ready
  /\ Conflict(r, "file") \/ Unfenced(r)
  /\ ready' = ready \ {r}
  /\ quarantine' = quarantine \cup {r}
  /\ unsynced' = unsynced \cup {r}
  /\ healthy' = FALSE
  /\ batch' = {}
  /\ UNCHANGED <<up, reserved, phase, replaying, accepted, log, tmp, tables, mishaps>>

ReplayAck ==
  /\ up
  /\ replaying # Nobody
  /\ \/ Ack(replaying) /\ batch' = batch \ {replaying}
     \/ AckFails(replaying) /\ batch' = {}
  /\ replaying' = Nobody
  /\ UNCHANGED <<up, healthy, reserved, phase, accepted, tables>>

-----------------------------------------------------------------------------
\* The settlement of the usage completes its outbox row.
CompleteOutbox(r) ==
  /\ outbox[r] = "pending"
  /\ outbox' = [outbox EXCEPT ![r] = "completed"]
  /\ UNCHANGED <<memory, accepted, files, receipt, inserted, kept, mishaps>>

\* A faulty version: retention takes no notice of the outbox.
CollectAnyUsage(r) ==
  /\ r \in kept
  /\ kept' = kept \ {r}
  /\ UNCHANGED <<memory, accepted, files, receipt, inserted, outbox, mishaps>>

\* Retention deletes the usage log unless its outbox row is not completed.
CollectUsage(r) ==
  /\ r \in kept
  /\ outbox[r] = "completed"
  /\ kept' = kept \ {r}
  /\ UNCHANGED <<memory, accepted, files, receipt, inserted, outbox, mishaps>>

\* The process ends.  After a power failure the directory entries that were
\* not synced may be there or not, and an append may have been cut short.
Crash ==
  /\ up
  /\ mishaps < MaxMishaps
  /\ mishaps' = mishaps + 1
  /\ up' = FALSE
  /\ reserved' = {} /\ batch' = {} /\ replaying' = Nobody
  /\ phase' = [r \in Requests |-> IF phase[r] = "idle" THEN "idle" ELSE "closed"]
  /\ IF "power" \in Faults
     THEN /\ \E S \in SUBSET unsynced : ready' = (ready \ unsynced) \cup S
          /\ log' \in {log, TornAppend(log)}
     ELSE UNCHANGED <<ready, log>>
  /\ UNCHANGED <<healthy, accepted, tmp, quarantine, unsynced, tables>>

\* A faulty version: the ready files are rebuilt from the readable prefix in any case.
RestartFromPrefix ==
  /\ ~up
  /\ up' = TRUE
  /\ healthy' = (quarantine = {} /\ ~log.broken)
  /\ tmp' = {}
  /\ ready' = log.pending
  /\ unsynced' = (ready \ log.pending) \cup (log.pending \ ready)
  /\ UNCHANGED <<reserved, phase, batch, replaying, accepted, log, quarantine, tables, mishaps>>

\* open and restore_indexes: the ready files are rebuilt from the log, unless
\* a line is not accepted; then they stay as they are and admission is stopped.
Restart ==
  /\ ~up
  /\ up' = TRUE
  /\ IF log.broken
     THEN /\ healthy' = FALSE
          /\ unsynced' = {}
          /\ UNCHANGED <<ready, tmp>>
     ELSE /\ healthy' = (quarantine = {})
          /\ tmp' = {}
          /\ ready' = log.pending
          /\ unsynced' = (ready \ log.pending) \cup (log.pending \ ready)
  /\ UNCHANGED <<reserved, phase, batch, replaying, accepted, log, quarantine, tables, mishaps>>

Next ==
  \/ \E r \in Requests :
       \/ CheckHealthy(r) \/ TakeSlot(r) \/ Release(r)
       \/ PutReady(r) \/ PutReadyFails(r)
       \/ HandoffLive(r) \/ DeferLive(r) \/ AckLive(r)
       \/ ReplaySkip(r) \/ ReplayHandoff(r) \/ ReplayQuarantine(r)
       \/ CompleteOutbox(r) \/ CollectUsage(r)
  \/ ReplayList \/ ReplayDefer \/ ReplayAck
  \/ Crash \/ Restart

Spec == Init /\ [][Next]_vars

\* The replay task is supervised and runs on a timer, a stopped instance is
\* started again, and PostgreSQL is not unreachable forever.
FairReplay ==
  /\ WF_vars(Restart) /\ WF_vars(ReplayList) /\ WF_vars(ReplayAck)
  /\ \A r \in Requests :
       /\ WF_vars(ReplaySkip(r))
       /\ SF_vars(ReplayHandoff(r) /\ replaying' = r)
       /\ SF_vars(ReplayQuarantine(r))

FairSpec == Spec /\ FairReplay

-----------------------------------------------------------------------------
(***************************************************************************)
(* Types of the journal's state.                                           *)
(***************************************************************************)
TypeOK ==
  /\ up \in BOOLEAN /\ healthy \in BOOLEAN
  /\ reserved \subseteq Requests
  /\ phase \in [Requests -> {"idle", "checked", "admitted", "accepted", "failed",
                             "handed", "closed"}]
  /\ accepted \subseteq Requests
  /\ log \in [pending : SUBSET Requests, broken : BOOLEAN, bytes : Nat]
  /\ ready \subseteq Requests /\ tmp \subseteq Requests
  /\ quarantine \subseteq Requests /\ unsynced \subseteq Requests
  /\ batch \subseteq Requests /\ replaying \in Requests \cup {Nobody}
  /\ receipt \in [Requests -> {"none", "memory", "file"}]
  /\ inserted \in [Requests -> Nat]
  /\ kept \subseteq Requests
  /\ outbox \in [Requests -> {"none", "pending", "completed"}]
  /\ mishaps \in 0..MaxMishaps

(***************************************************************************)
(* The log is authoritative: an event that put_ready accepted and that is  *)
(* not handed off yet can be read back from the log, so that no crash and  *)
(* no lost directory entry loses it.                                       *)
(***************************************************************************)
AcceptedInLog == \A r \in accepted : receipt[r] = "none" => r \in log.pending

(***************************************************************************)
(* An accepted event that is not handed off has its ready file while the   *)
(* process runs, so the replay task will find it.                          *)
(***************************************************************************)
AcceptedIndexed ==
  up => \A r \in accepted : receipt[r] = "none" => r \in ready

(***************************************************************************)
(* A log that restore_indexes will not read to its end admits no request.  *)
(***************************************************************************)
BrokenStopsAdmission == up /\ log.broken => ~healthy

(***************************************************************************)
(* "The fsynced append log is authoritative": what it must hold can be     *)
(* read back, and nothing is admitted behind a line that cannot.           *)
(***************************************************************************)
LogIsAuthoritative == AcceptedInLog /\ BrokenStopsAdmission

(***************************************************************************)
(* Every accepted event is metered in the end, whatever is still listed    *)
(* before it, whoever failed to acknowledge and however often the process  *)
(* was killed.                                                             *)
(***************************************************************************)
EventuallyMetered ==
  \A r \in Requests : (r \in accepted) ~> (receipt[r] # "none")

(***************************************************************************)
(* The receipt's fence holds: replay never has to ask for manual           *)
(* reconciliation, as retention spares usage that is not settled.          *)
(***************************************************************************)
NeverUnfenced == \A r \in Requests : ~Unfenced(r)

(***************************************************************************)
(* Metered once: neither the race of a request with the replay task, nor a *)
(* lost reply, a crash, a failed acknowledgement or the collection of a    *)
(* settled usage log makes a second usage log for the same event, and the  *)
(* fence that sees to it never fails.                                      *)
(***************************************************************************)
MeteredOnce == NeverUnfenced /\ \A r \in Requests : inserted[r] <= 1

(***************************************************************************)
(* The journal is bounded: the files and the slots that are promised stay  *)
(* within max_bytes, although acknowledgements are appended without a slot *)
(* of their own.                                                           *)
(***************************************************************************)
Bounded ==
  up /\ healthy => DiskBytes(log) + Cardinality(reserved) * Slot <= MaxBytes

(***************************************************************************)
(* put_ready finds its slot and no older file under its name, so it cannot *)
(* stop the whole instance with an identity error.                         *)
(***************************************************************************)
PutFindsSlot ==
  \A r \in Requests : up /\ phase[r] = "admitted" => r \in reserved /\ r \notin ready

(***************************************************************************)
(* Slots are promises that are kept: every admitted request has one, and   *)
(* the bytes it stands for are there when the event is written.            *)
(***************************************************************************)
SlotsSuffice == Bounded /\ PutFindsSlot
=============================================================================
