---------------------------- MODULE ChannelLimiter ----------------------------
(***************************************************************************)
(* The admission limiter of one channel                                    *)
(* (crates/conduit-orchestrator/src/channel_limiter.rs): five atomic       *)
(* counters and no lock.  Every load, compare_exchange, fetch_add and      *)
(* fetch_sub is a step of its own, so the callers interleave between them. *)
(*                                                                         *)
(* A caller is one request at a time: it calls try_acquire,                *)
(* try_acquire_or_enqueue or try_reserve_queue_slot, may hold a permit or  *)
(* a queue slot, and gives it back by release, drop, promotion or timeout. *)
(***************************************************************************)
EXTENDS Integers, FiniteSets

CONSTANTS Callers,        \* requests for the channel
          MaxConcurrent,  \* max_concurrent
          QueueSize,      \* queue_size; 0 selects soft mode
          QueueTimeout,   \* whether queue_timeout_ms is set
          MaxCalls        \* bound on the calls made

\* What the theorems of ChannelSlotsProofs assume of these.
LimiterAssumption == /\ IsFiniteSet(Callers)
                     /\ MaxConcurrent \in Nat \ {0} /\ QueueSize \in Nat
                     /\ QueueTimeout \in BOOLEAN /\ MaxCalls \in Nat

VARIABLES
  active, queued,               \* ChannelLimiterState.active and .queued
  admitted, rejected, timeout,  \* its cumulative counters
  pc,       \* pc[c]: the step caller c is at
  seen,     \* seen[c]: the counter it loaded for its compare_exchange
  before,   \* history: <<d, e>> when waiter d got its queue slot before waiter e did
  calls     \* calls made so far

limiterVars == <<active, queued, admitted, rejected, timeout, pc, seen, before, calls>>
counters == <<admitted, rejected, timeout>>

Steps == {"idle", "soft", "load", "cas", "countPermit", "holding",
          "loadQueue", "casQueue", "countSlot", "waiting", "reject",
          "promote", "casPromote", "promoted", "countTimeout"}

\* The callers that own a permit, those that own a queue slot, and those
\* whose call has not been counted yet.  A promoted waiter owns both for a while.
Permits == {c \in Callers: pc[c] \in {"countPermit", "holding", "promoted"}}
Slots == {c \in Callers: pc[c] \in {"countSlot", "waiting", "promote", "casPromote", "promoted"}}
Uncounted == {c \in Callers: pc[c] \in {"soft", "load", "cas", "countPermit",
                                        "loadQueue", "casQueue", "countSlot", "reject"}}

LimiterTypeOK ==
  /\ active \in Nat /\ queued \in Nat
  /\ admitted \in Nat /\ rejected \in Nat /\ timeout \in Nat
  /\ pc \in [Callers -> Steps]
  /\ seen \in [Callers -> Nat]
  /\ before \subseteq Callers \X Callers
  /\ calls \in Nat

Soft == QueueSize = 0

At(c, step) == pc[c] = step
MoveTo(c, step) == pc' = [pc EXCEPT ![c] = step]

----------------------------------------------------------------------------

\* try_acquire and try_acquire_or_enqueue
Acquire(c) ==
  /\ At(c, "idle") /\ calls < MaxCalls
  /\ calls' = calls + 1
  /\ MoveTo(c, IF Soft THEN "soft" ELSE "load")
  /\ UNCHANGED <<active, queued, counters, seen, before>>

\* try_reserve_queue_slot
ReserveSlot(c) ==
  /\ At(c, "idle") /\ calls < MaxCalls
  /\ calls' = calls + 1
  /\ MoveTo(c, IF Soft THEN "reject" ELSE "loadQueue")
  /\ UNCHANGED <<active, queued, counters, seen, before>>

\* soft mode only counts
SoftAdmit(c) ==
  /\ At(c, "soft")
  /\ active' = active + 1
  /\ MoveTo(c, "countPermit")
  /\ UNCHANGED <<queued, counters, seen, before, calls>>

\* No free slot: try_acquire gives up, try_acquire_or_enqueue asks for a
\* place in the queue.
LoadActive(c) ==
  /\ At(c, "load")
  /\ IF active >= MaxConcurrent
     THEN /\ MoveTo(c, "reject") \/ MoveTo(c, "loadQueue")
          /\ UNCHANGED seen
     ELSE MoveTo(c, "cas") /\ seen' = [seen EXCEPT ![c] = active]
  /\ UNCHANGED <<active, queued, counters, before, calls>>

CasActive(c) ==
  /\ At(c, "cas")
  /\ IF active = seen[c]
     THEN active' = active + 1 /\ MoveTo(c, "countPermit")
     ELSE MoveTo(c, "load") /\ UNCHANGED active
  /\ UNCHANGED <<queued, counters, seen, before, calls>>

\* reserve_queue_slot_locked
LoadQueued(c) ==
  /\ At(c, "loadQueue")
  /\ IF queued >= QueueSize
     THEN MoveTo(c, "reject") /\ UNCHANGED seen
     ELSE MoveTo(c, "casQueue") /\ seen' = [seen EXCEPT ![c] = queued]
  /\ UNCHANGED <<active, queued, counters, before, calls>>

CasQueued(c) ==
  /\ At(c, "casQueue")
  /\ IF queued = seen[c]
     THEN queued' = queued + 1 /\ before' = before \cup {<<d, c>>: d \in Slots \ Permits} /\ MoveTo(c, "countSlot")
     ELSE MoveTo(c, "loadQueue") /\ UNCHANGED <<queued, before>>
  /\ UNCHANGED <<active, counters, seen, calls>>

\* Both a permit and a queue slot count as admitted.
CountAdmitted(c) ==
  /\ pc[c] \in {"countPermit", "countSlot"}
  /\ admitted' = admitted + 1
  /\ MoveTo(c, IF At(c, "countPermit") THEN "holding" ELSE "waiting")
  /\ UNCHANGED <<active, queued, rejected, timeout, seen, before, calls>>

CountRejected(c) ==
  /\ At(c, "reject")
  /\ rejected' = rejected + 1
  /\ MoveTo(c, "idle")
  /\ UNCHANGED <<active, queued, admitted, timeout, seen, before, calls>>

\* try_promote_at: a waiter polls for a free slot.  In "promote" it is in the
\* loop after a compare_exchange that failed.
PromoteLoad(c) ==
  /\ pc[c] \in {"waiting", "promote"}
  /\ IF active >= MaxConcurrent
     THEN MoveTo(c, "waiting") /\ UNCHANGED seen
     ELSE MoveTo(c, "casPromote") /\ seen' = [seen EXCEPT ![c] = active]
  /\ UNCHANGED <<active, queued, counters, before, calls>>

Without(c) == {pair \in before: c # pair[1] /\ c # pair[2]}

PromoteCas(c) ==
  /\ At(c, "casPromote")
  /\ IF active = seen[c]
     THEN active' = active + 1 /\ before' = Without(c) /\ MoveTo(c, "promoted")
     ELSE MoveTo(c, "promote") /\ UNCHANGED <<active, before>>
  /\ UNCHANGED <<queued, counters, seen, calls>>

\* The promoted waiter gives its queue slot back.
FreeSlot(c) ==
  /\ At(c, "promoted")
  /\ queued' = queued - 1
  /\ MoveTo(c, "holding")
  /\ UNCHANGED <<active, counters, seen, before, calls>>

\* check_timeout once the waiter's time is over.
TimeOut(c) ==
  /\ At(c, "waiting") /\ QueueTimeout
  /\ queued' = queued - 1 /\ before' = Without(c)
  /\ MoveTo(c, "countTimeout")
  /\ UNCHANGED <<active, counters, seen, calls>>

CountTimeout(c) ==
  /\ At(c, "countTimeout")
  /\ timeout' = timeout + 1
  /\ MoveTo(c, "idle")
  /\ UNCHANGED <<active, queued, admitted, rejected, seen, before, calls>>

\* release or drop of a queue slot
Abandon(c) ==
  /\ At(c, "waiting")
  /\ queued' = queued - 1 /\ before' = Without(c)
  /\ MoveTo(c, "idle")
  /\ UNCHANGED <<active, counters, seen, calls>>

\* release or drop of a permit
Release(c) ==
  /\ At(c, "holding")
  /\ active' = active - 1
  /\ MoveTo(c, "idle")
  /\ UNCHANGED <<queued, counters, seen, before, calls>>

----------------------------------------------------------------------------

LimiterInit ==
  /\ active = 0 /\ queued = 0
  /\ admitted = 0 /\ rejected = 0 /\ timeout = 0
  /\ pc = [c \in Callers |-> "idle"]
  /\ seen = [c \in Callers |-> 0]
  /\ before = {}
  /\ calls = 0

LimiterNext ==
  \E c \in Callers:
    \/ Acquire(c) \/ ReserveSlot(c) \/ SoftAdmit(c) \/ LoadActive(c) \/ CasActive(c)
    \/ LoadQueued(c) \/ CasQueued(c) \/ CountAdmitted(c) \/ CountRejected(c)
    \/ PromoteLoad(c) \/ PromoteCas(c) \/ FreeSlot(c)
    \/ TimeOut(c) \/ CountTimeout(c) \/ Abandon(c) \/ Release(c)

LimiterSpec == LimiterInit /\ [][LimiterNext]_limiterVars

----------------------------------------------------------------------------
(* Properties                                                              *)

\* The two counters are exactly the permits and the queue slots that callers
\* own, at every step of every interleaving: no slot leaks, none is returned
\* twice (release_once of ChannelPermit and ChannelQueueSlot).
CountersExact == active = Cardinality(Permits) /\ queued = Cardinality(Slots)

\* Every call that was made is counted once, as admitted or as rejected.
CallsCounted == admitted + rejected + Cardinality(Uncounted) = calls

\* What hard mode is for: the limits hold at every step, also while a waiter
\* is promoted (try_take_free_slot_hard, reserve_queue_slot_locked).
LimitsHold == ~Soft => Cardinality(Permits) <= MaxConcurrent /\ Cardinality(Slots) <= QueueSize

\* "counts + bounded FIFO queue": whoever gets a permit is the one that has
\* waited longest, if somebody waits.
FirstComeFirstServed ==
  [][\A c \in Callers: c \in Permits' \ Permits =>
       \A d \in (Slots \ Permits) \ {c}: <<c, d>> \in before]_limiterVars

----------------------------------------------------------------------------
(* The inductive invariant                                                 *)

\* A compare_exchange is tried only with a value that was below the limit.
SeenBelow ==
  \A c \in Callers: /\ pc[c] \in {"cas", "casPromote"} => seen[c] < MaxConcurrent
                    /\ pc[c] = "casQueue" => seen[c] < QueueSize
                    /\ pc[c] = "soft" => Soft

CountersBounded == ~Soft => active <= MaxConcurrent /\ queued <= QueueSize

LimiterInv == LimiterTypeOK /\ CountersExact /\ CallsCounted /\ SeenBelow /\ CountersBounded

----------------------------------------------------------------------------

\* The lock-free steps implement the room: a caller is inside when it owns a
\* permit and waits when it owns a slot only.
Room == INSTANCE AdmissionRoom WITH inside <- Permits, waiting <- Slots \ Permits

ImplementsRoom == Room!RoomSpec
=============================================================================
