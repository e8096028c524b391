---------------------------- MODULE ChargePromise ----------------------------
(***************************************************************************)
(* What the settlement machinery promises for a usage once it is recorded: *)
(* it is charged, or it ends as a dead letter that an operator can see and *)
(* that may still be charged late; a charge is never taken back.  Only a   *)
(* usage whose record was not committed together with its outbox row may   *)
(* be lost to retention.                                                   *)
(***************************************************************************)
CONSTANTS Usages,   \* usage logs
          Fenced    \* those recorded together with their outbox row

VARIABLE bill       \* bill[u]: where the usage stands

Standings == {"none", "owed", "charged", "dead", "lost"}

PromiseTypeOK == bill \in [Usages -> Standings]

Move(u, from, to) ==
  /\ bill[u] \in from
  /\ bill' = [bill EXCEPT ![u] = to]

Incur(u) == Move(u, {"none"}, "owed")

Charge(u) == Move(u, {"owed", "dead", "lost"}, "charged")

GiveUp(u) == Move(u, {"owed"}, "dead")

Lose(u) == u \notin Fenced /\ Move(u, {"owed"}, "lost")

PromiseInit == bill = [u \in Usages |-> "none"]

PromiseNext == \E u \in Usages: Incur(u) \/ Charge(u) \/ GiveUp(u) \/ Lose(u)

Resolve(u) == Charge(u) \/ GiveUp(u) \/ Lose(u)

\* The safety part of the promise.
PromiseSafety == PromiseInit /\ [][PromiseNext]_bill

\* The whole promise: no usage is owed for ever.
Promise == PromiseSafety /\ \A u \in Usages: WF_bill(bill[u] = "owed" /\ Resolve(u))
=============================================================================
