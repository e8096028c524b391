--------------------------- MODULE AttemptGuards ---------------------------
(***************************************************************************)
(* One provider attempt and the guards every attempt passes: the model     *)
(* circuit breaker, the per-channel concurrency counter and the rate       *)
(* admission, run as a middleware chain by the pipeline                    *)
(* (conduit-pipeline/src/pipeline.rs), inside the retry loop that walks    *)
(* from candidate to candidate.                                            *)
(*                                                                         *)
(* The guards are process-wide maps behind one mutex each; the hooks of a  *)
(* request are synchronous but those of two requests interleave, so each   *)
(* hook is a step.  A request remembers its slot only in its own context:  *)
(* when its future is dropped at an await, the context goes with it.       *)
(*                                                                         *)
(* Abstractions.  A channel stands for one circuit key (channel, model,    *)
(* credential).  Time is what it does to a cooldown: it is running, it has *)
(* elapsed, or there is none.  The error counter is compared only with     *)
(* MaxErrors and stops there.  Whether the rate admission lets an attempt  *)
(* through (its RPM window and the provider's Retry-After) is a choice.    *)
(***************************************************************************)
EXTENDS Integers, Sequences, FiniteSets

CONSTANTS
  Requests,       \* callers, each with one request at a time
  Tracked,        \* those whose balancing strategy is "circuit-breaker"
  Candidates,     \* the channels in the order they are tried, without repetition
  Limit,          \* channel_max_concurrent of each channel, 0 for unlimited
  MaxErrors,      \* failures in a row that open a circuit
  SameRetries,    \* max_single_channel_retries
  ChannelRetries, \* max_channel_retries
  Modes,          \* the execution modes that the requests of each caller use
  Drops           \* whether a handler's future may be dropped

Channels == {Candidates[i] : i \in 1..Len(Candidates)}

GuardConstants ==
  /\ IsFiniteSet(Requests) /\ Tracked \subseteq Requests
  /\ Candidates \in Seq(Channels) /\ Candidates # <<>>
  /\ Cardinality(Channels) = Len(Candidates)
  /\ Limit \in [Channels -> Nat]
  /\ MaxErrors \in Nat \ {0}
  /\ SameRetries \in Nat /\ ChannelRetries \in Nat
  /\ Modes \in [Requests -> SUBSET {"plain", "aggregate", "live"}]
  /\ Drops \in BOOLEAN

ASSUME ConstantsAssumption == GuardConstants

VARIABLES
  circuit,  \* the breaker's CircuitState of each channel
  slots,    \* the limiter's in-flight counter of each channel
  req       \* each caller's request: where it is and what its context holds

vars == <<circuit, slots, req>>

Idle == [pc |-> "idle", mode |-> "plain", at |-> 1, same |-> 0,
         slot |-> FALSE, probe |-> FALSE, err |-> "none"]

\* No entry in the map and an entry after a success behave alike.
Closed == [errors |-> 0, cooldown |-> "none", probe |-> FALSE]

Errors == {"none", "circuit", "local", "timeout", "client", "server", "transport"}

TypeOK ==
  /\ circuit \in [Channels -> [errors : 0..MaxErrors, probe : BOOLEAN,
                               cooldown : {"none", "running", "elapsed"}]]
  /\ slots \in [Channels -> Nat]
  /\ req \in [Requests ->
       [pc : {"idle", "breaker", "slot", "rate", "upstream", "streaming", "okslot",
              "okbreaker", "finish", "unslot", "unbreaker", "wait"},
        mode : {"plain", "aggregate", "live"}, at : 1..Len(Candidates),
        same : 0..SameRetries, slot : BOOLEAN, probe : BOOLEAN, err : Errors]]

Init ==
  /\ circuit = [c \in Channels |-> Closed]
  /\ slots = [c \in Channels |-> 0]
  /\ req = [r \in Requests |-> Idle]

Chan(r) == Candidates[req[r].at]

Goto(r, pc) == req' = [req EXCEPT ![r].pc = pc]

\* A hook or the provider failed: the error hooks run, last middleware first.
Fail(r, e) == req' = [req EXCEPT ![r].pc = "unslot", ![r].err = e]

-----------------------------------------------------------------------------
(* The request chain: breaker, concurrency slot, rate admission.           *)

Start(r) ==
  /\ req[r].pc = "idle"
  /\ \E m \in Modes[r] : req' = [req EXCEPT ![r] = [Idle EXCEPT !.pc = "breaker", !.mode = m]]
  /\ UNCHANGED <<circuit, slots>>

Refuses(c) ==
  \/ circuit[c].cooldown = "running"
  \/ circuit[c].cooldown = "none" /\ circuit[c].probe

PassBreaker(r) ==
  LET c == Chan(r) IN
  /\ req[r].pc = "breaker"
  /\ \/ /\ r \in Tracked /\ Refuses(c)
        /\ Fail(r, "circuit")
        /\ UNCHANGED circuit
     \/ /\ r \in Tracked /\ circuit[c].cooldown = "elapsed"
        /\ circuit' = [circuit EXCEPT ![c].cooldown = "none", ![c].probe = TRUE]
        /\ req' = [req EXCEPT ![r].pc = "slot", ![r].probe = TRUE]
     \/ /\ r \notin Tracked \/ circuit[c] = [circuit[c] EXCEPT !.cooldown = "none", !.probe = FALSE]
        /\ Goto(r, "slot")
        /\ UNCHANGED circuit
  /\ UNCHANGED slots

TakeSlot(r) ==
  LET c == Chan(r) IN
  /\ req[r].pc = "slot"
  /\ \/ /\ Limit[c] = 0
        /\ Goto(r, "rate")
        /\ UNCHANGED slots
     \/ /\ Limit[c] > 0 /\ slots[c] >= Limit[c]
        /\ Fail(r, "local")
        /\ UNCHANGED slots
     \/ /\ slots[c] < Limit[c]
        /\ slots' = [slots EXCEPT ![c] = @ + 1]
        /\ req' = [req EXCEPT ![r].pc = "rate", ![r].slot = TRUE]
  /\ UNCHANGED circuit

AdmitRate(r) ==
  /\ req[r].pc = "rate"
  /\ Goto(r, "upstream") \/ Fail(r, "local")
  /\ UNCHANGED <<circuit, slots>>

-----------------------------------------------------------------------------
(* What the provider does.                                                 *)

\* A complete response runs the response hooks; an aggregated stream never
\* does; a live stream is handed over with its first event.
Respond(r) ==
  /\ req[r].pc = "upstream"
  /\ \/ req[r].mode = "plain" /\ Goto(r, "okslot")
     \/ req[r].mode = "aggregate" /\ req' = [req EXCEPT ![r] = Idle]
     \/ req[r].mode = "aggregate" /\ \E e \in {"transport", "local"} : Fail(r, e)
     \/ req[r].mode = "live" /\ Goto(r, "streaming")
  /\ UNCHANGED <<circuit, slots>>

UpstreamFails(r) ==
  /\ req[r].pc = "upstream"
  /\ \E e \in {"timeout", "client", "server", "transport"} : Fail(r, e)
  /\ UNCHANGED <<circuit, slots>>

\* The live stream ends, for whatever reason: the cleanup's hooks release the
\* slot, and no hook of the breaker runs.
StreamClosesOnly(r) ==
  /\ req[r].pc = "streaming"
  /\ req' = [req EXCEPT ![r] = Idle]
  /\ UNCHANGED <<circuit, slots>>

ReleaseAny(r) ==
  /\ slots' = IF Limit[Chan(r)] > 0 /\ slots[Chan(r)] > 0
              THEN [slots EXCEPT ![Chan(r)] = @ - 1] ELSE slots

\* release_slot: only the holder of the flag decrements, and clears it.
ReleaseSlot(r) ==
  /\ slots' = IF req[r].slot THEN [slots EXCEPT ![Chan(r)] = @ - 1] ELSE slots

StreamCloses(r) ==
  /\ req[r].pc = "streaming"
  /\ ReleaseSlot(r)
  /\ req' = [req EXCEPT ![r] = Idle]
  /\ UNCHANGED circuit

OkSlot(r) ==
  /\ req[r].pc = "okslot"
  /\ ReleaseSlot(r)
  /\ req' = [req EXCEPT ![r].pc = "okbreaker", ![r].slot = FALSE]
  /\ UNCHANGED circuit

OkBreaker(r) ==
  /\ req[r].pc = "okbreaker"
  /\ circuit' = IF r \in Tracked THEN [circuit EXCEPT ![Chan(r)] = Closed] ELSE circuit
  /\ req' = [req EXCEPT ![r].pc = "finish", ![r].probe = FALSE]
  /\ UNCHANGED slots

\* The response is transformed for the client, which may still fail.
Finish(r) ==
  /\ req[r].pc = "finish"
  /\ \/ req' = [req EXCEPT ![r] = Idle]
     \/ \E e \in {"transport", "local"} : Fail(r, e)
  /\ UNCHANGED <<circuit, slots>>

-----------------------------------------------------------------------------
(* The error hooks and the retry loop.                                     *)

Unslot(r) ==
  /\ req[r].pc = "unslot"
  /\ ReleaseSlot(r)
  /\ req' = [req EXCEPT ![r].pc = "unbreaker", ![r].slot = FALSE]
  /\ UNCHANGED circuit

RecordedKeepingProbe(s, e) ==
  IF e \in {"circuit", "local", "timeout"} THEN s
  ELSE IF e = "client" THEN Closed
  ELSE LET n == IF s.errors < MaxErrors THEN s.errors + 1 ELSE MaxErrors
       IN  IF s.probe \/ n = MaxErrors
           THEN [errors |-> n, cooldown |-> "running", probe |-> FALSE]
           ELSE [s EXCEPT !.errors = n]

\* on_outbound_raw_error on the circuit s: the breaker's own refusals are
\* ignored, local errors and timeouts only give a probe back, a provider's 4xx
\* closes the circuit, and any other failure is counted.
Recorded(s, e) ==
  CASE e = "circuit" -> s
    [] e \in {"local", "timeout"} ->
         IF s.probe THEN [s EXCEPT !.probe = FALSE, !.cooldown = "elapsed"] ELSE s
    [] e = "client" -> Closed
    [] e \in {"server", "transport"} ->
         LET n == IF s.errors < MaxErrors THEN s.errors + 1 ELSE MaxErrors
         IN  IF s.probe \/ n = MaxErrors
             THEN [errors |-> n, cooldown |-> "running", probe |-> FALSE]
             ELSE [s EXCEPT !.errors = n]

\* Retried on the same channel: a retryable status always; the live loop also
\* repeats transport failures and timeouts.
SameChannel(r) ==
  /\ req[r].same < SameRetries
  /\ \/ req[r].err = "server"
     \/ req[r].mode = "live" /\ req[r].err \in {"transport", "timeout"}

NextChannel(r) ==
  /\ req[r].at <= ChannelRetries
  /\ req[r].at < Len(Candidates)

Waiting(q) == [q EXCEPT !.pc = "wait", !.probe = FALSE, !.err = "none"]

AgainUncounted(r) ==
  IF SameChannel(r) THEN Waiting(req[r])
  ELSE IF NextChannel(r) THEN [Waiting(req[r]) EXCEPT !.at = @ + 1, !.same = 0]
  ELSE Idle

\* The same channel again, the next one, or the answer to the caller.
Again(r) ==
  IF SameChannel(r) THEN [Waiting(req[r]) EXCEPT !.same = @ + 1]
  ELSE IF NextChannel(r) THEN [Waiting(req[r]) EXCEPT !.at = @ + 1, !.same = 0]
  ELSE Idle

Unbreaker(r) ==
  /\ req[r].pc = "unbreaker"
  /\ circuit' = IF r \in Tracked
                THEN [circuit EXCEPT ![Chan(r)] = Recorded(@, req[r].err)] ELSE circuit
  /\ req' = [req EXCEPT ![r] = Again(r)]
  /\ UNCHANGED slots

\* The retry delay is over.
Wake(r) ==
  /\ req[r].pc = "wait"
  /\ Goto(r, "breaker")
  /\ UNCHANGED <<circuit, slots>>

\* The caller disconnects, or an outer timeout fires, while the future awaits
\* the provider or the retry delay: no hook runs.
Drop(r) ==
  /\ Drops
  /\ req[r].pc \in {"upstream", "wait"}
  /\ req' = [req EXCEPT ![r] = Idle]
  /\ UNCHANGED <<circuit, slots>>

\* The cooldown's instant passes.
Elapse(c) ==
  /\ circuit[c].cooldown = "running"
  /\ circuit' = [circuit EXCEPT ![c].cooldown = "elapsed"]
  /\ UNCHANGED <<slots, req>>

Step(r) ==
  \/ PassBreaker(r) \/ TakeSlot(r) \/ AdmitRate(r)
  \/ Respond(r) \/ UpstreamFails(r) \/ StreamCloses(r)
  \/ OkSlot(r) \/ OkBreaker(r) \/ Finish(r)
  \/ Unslot(r) \/ Unbreaker(r) \/ Wake(r)

Next ==
  \/ \E r \in Requests : Start(r) \/ Step(r) \/ Drop(r)
  \/ \E c \in Channels : Elapse(c)

Spec == Init /\ [][Next]_vars

\* A request that was accepted is run to its end: the runtime polls its future,
\* and the provider's client and the stream have timeouts of their own.
FairSpec == Spec /\ \A r \in Requests : WF_vars(Step(r))

-----------------------------------------------------------------------------
Holders(c) == {r \in Requests : req[r].slot /\ Chan(r) = c}

\* However hooks of several requests interleave, and whatever was dropped, a
\* limited channel never serves more attempts at once than its limit: a slot is
\* never given back twice (channel_limiter.rs:83-112, 123-163).
WithinLimit ==
  \A c \in Channels : Limit[c] > 0 => Cardinality(Holders(c)) <= Limit[c]

\* A request whose future is dropped at the provider, or whose stream is
\* aggregated, ends without any hook.
Vanishes(r) == req[r].pc = "upstream" /\ req'[r].pc = "idle"

\* Nothing else loses or doubles a slot: in every other step, of whatever mode
\* and on whatever error path, the counter of a channel and the attempts that
\* hold a slot on it change together ("release the concurrency slot after a
\* successful response", "after a failed attempt", after a live stream).
SlotsGivenBack ==
  [][\/ \E r \in Requests : Vanishes(r)
     \/ \A c \in Channels : slots'[c] - slots[c] = Cardinality(Holders(c)') - Cardinality(Holders(c))]_vars

\* A half-open circuit has a probe that can still decide it: one of the requests
\* under way took the probe (circuit_breaker.rs:160-163).  Without it every later
\* request is refused for good.
ProbeHasOwner ==
  \A c \in Channels : circuit[c].probe => \E r \in Requests : req[r].probe /\ Chan(r) = c

\* A probe is lost only with a request that vanishes or with a live stream, of
\* whose end the breaker hears nothing: every other end of a probe decides the
\* circuit or opens it for the next probe (circuit_breaker.rs:177-268).
ProbeHandedBack ==
  [][\/ \E r \in Requests : Vanishes(r) \/ (req[r].pc = "streaming" /\ req'[r].pc = "idle")
     \/ ProbeHasOwner => ProbeHasOwner']_vars

\* The retry loop ends: a request that keeps failing is answered after its
\* budget of retries and channels (pipeline.rs:1130-1307, orchestrator.rs:1969-2054).
EveryRequestEnds ==
  \A r \in Requests : req[r].pc # "idle" ~> req[r].pc = "idle"

-----------------------------------------------------------------------------
(* What the comments of the code say, and the model refutes.               *)

\* "Release the concurrency slot after a successful response"
\* (middlewares/channel_limiter.rs:165), whatever the mode and whoever leaves.
SlotsExact == \A c \in Channels : slots[c] = Cardinality(Holders(c))

\* "HalfOpen: exactly one provider probe is admitted" (circuit_breaker.rs:10).
OneProbe ==
  \A c \in Channels : Cardinality({r \in Requests : req[r].probe /\ Chan(r) = c}) <= 1
=============================================================================
