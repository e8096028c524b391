----------------------------- MODULE WalletLocks -----------------------------
(***************************************************************************)
(* What the billing transactions of one project wait for: the gate of its  *)
(* wallet and a connection in their process, and rows and advisory locks   *)
(* in PostgreSQL, in the order in which their statements take them         *)
(* (usage_charge_settler_postgres.rs, wiring_postgres_billing.rs,          *)
(* wiring_postgres_redemption.rs).  Locks are kept to the end and granted  *)
(* first come, first served.  The buckets are of subscriptions of the      *)
(* project: a subscription has one.                                        *)
(***************************************************************************)
EXTENDS Naturals, SequencesExt

CONSTANTS Procs,     \* processes
          Txs,       \* transactions
          Requests,  \* requests, grants and transitions they are for
          Jobs,      \* workloads: process, kind and request of each transaction
          Pool,      \* connections of a process
          Spending   \* the buckets, in the order of ORDER BY class, expires_at, id

\* The transactions that queue at the gate, and the others
GatedKinds == {"reserve", "settle", "release", "cleanup"}
Kinds == GatedKinds \cup {"grant", "redeem", "lifecycle"}

Buckets == ToSet(Spending)

LocksAssumption ==
  /\ Pool \in Nat \ {0}
  /\ Spending \in Seq(Buckets) /\ IsInjective(Spending)
  /\ Jobs \subseteq [Txs -> [proc: Procs, kind: Kinds, req: Requests]]

ASSUME LocksAreSound == LocksAssumption

GateOf(p) == <<"gate", p>>
ConnOf(p) == <<"conn", p>>
Wallet == <<"wallet">>
KeyOf(q) == <<"key", q>>
EventOf(q) == <<"event", q>>
ReservationOf(q) == <<"reservation", q>>
BucketOf(b) == <<"bucket", b>>
Subscription == <<"subscription">>
Groups == <<"groups">>
Code == <<"code">>

Resources ==
  {GateOf(p): p \in Procs} \cup {ConnOf(p): p \in Procs}
    \cup {KeyOf(q): q \in Requests} \cup {EventOf(q): q \in Requests}
    \cup {ReservationOf(q): q \in Requests} \cup {BucketOf(b): b \in Buckets}
    \cup {Wallet, Subscription, Groups, Code}

VARIABLES
  job,    \* the workload
  queue,  \* queue[r]: who has or waits for r, in the order of asking
  plan,   \* plan[t]: what t has yet to ask for
  asked,  \* asked[t]: what t has asked for last
  state   \* "new", "open", "ended"

vars == <<job, queue, plan, asked, state>>

----------------------------------------------------------------------------
(* The orders in which locks are taken                                     *)

Rows(bs) == [i \in DOMAIN bs |-> BucketOf(bs[i])]

\* Statements without ORDER BY touch any buckets in any order.
Arrangements == SetToAllKPermutations(Buckets)
AnyRows == {Rows(bs): bs \in Arrangements}

Place(b) == CHOOSE i \in DOMAIN Spending: Spending[i] = b
OrderedRows ==
  {Rows(bs): bs \in {c \in Arrangements:
                     \A i, j \in DOMAIN c: i < j => Place(c[i]) < Place(c[j])}}

\* A faulty version: the connection is taken before the gate.
ConnFirst(t) == <<ConnOf(job[t].proc), GateOf(job[t].proc)>>

\* wallet_gates.acquire, then pool.begin
Gated(t) == <<GateOf(job[t].proc), ConnOf(job[t].proc)>>

\* The locks of A, then those of B
Then(A, B) == UNION {{a \o b: b \in B}: a \in A}

\* expire_pg_wallet_reservations
ExpirePlans == {<< >>} \cup Then({<<ReservationOf(q)>>: q \in Requests}, AnyRows)

ReservePlans(t) ==
  {Gated(t) \o <<KeyOf(job[t].req), Wallet>> \o e \o Rows(Spending): e \in ExpirePlans}

\* A faulty version: a price is looked up on another connection.
SettleNested(t) ==
  {Gated(t) \o <<EventOf(job[t].req), Wallet, ConnOf(job[t].proc)>>}

\* The buckets of the allocations, then those for what the hold did not cover.
SettlePlans(t) ==
  LET held == {<< >>} \cup Then({<<ReservationOf(job[t].req)>>}, OrderedRows)
  IN  Then(Then({Gated(t) \o <<EventOf(job[t].req), Wallet>>}, held), {<< >>, Rows(Spending)})

\* A faulty version: the reservation before the wallet, which the trigger on
\* its status updates.
ReleaseReversed(t) ==
  {Gated(t) \o <<ReservationOf(job[t].req)>> \o rows \o <<Wallet>>: rows \in AnyRows}

ReleasePlans(t) ==
  {Gated(t) \o <<Wallet, ReservationOf(job[t].req)>> \o rows: rows \in AnyRows}

CleanupPlans(t) == {Gated(t) \o <<Wallet>> \o e: e \in ExpirePlans}

\* grant_project_credit and redeem_code have no gate.
GrantPlans(t) == {<<ConnOf(job[t].proc), KeyOf(job[t].req), Wallet>>}
RedeemPlans(t) == {<<ConnOf(job[t].proc), Code, Wallet>>}

\* Transitions of the subscription, with or without a new period
LifecyclePlans(t) ==
  Then(Then({<<ConnOf(job[t].proc), Subscription>>}, {<< >>, <<Groups>>}), AnyRows)

Plans(t) ==
  CASE job[t].kind = "reserve" -> ReservePlans(t)
    [] job[t].kind = "settle" -> SettlePlans(t)
    [] job[t].kind = "release" -> ReleasePlans(t)
    [] job[t].kind = "cleanup" -> CleanupPlans(t)
    [] job[t].kind = "grant" -> GrantPlans(t)
    [] job[t].kind = "redeem" -> RedeemPlans(t)
    [] job[t].kind = "lifecycle" -> LifecyclePlans(t)

----------------------------------------------------------------------------
(* PostgreSQL and the pool                                                 *)

IsConn(r) == r \in {ConnOf(p): p \in Procs}
Capacity(r) == IF IsConn(r) THEN Pool ELSE 1

Has(t, r) == \E i \in DOMAIN queue[r]: i <= Capacity(r) /\ queue[r][i] = t

\* t has what it asked for last, at each of its places in the queue.
Granted(t) ==
  \A i \in DOMAIN queue[asked[t]]: queue[asked[t]][i] = t => i <= Capacity(asked[t])

\* The database knows of rows and advisory locks only.
Blocks(u, t) == asked[t][1] \notin {"gate", "conn"} /\ Has(u, asked[t])

\* Transactions of S that wait for each other in the database
Deadlocks(S) ==
  {C \in SUBSET {t \in S: ~Granted(t)}: C # {} /\ \A t \in C: \E u \in C: Blocks(u, t)}

\* The queue s without t, which is in it at most once
Without(s, t) ==
  IF t \in ToSet(s) THEN RemoveAt(s, CHOOSE i \in DOMAIN s: s[i] = t) ELSE s

Leave(t) ==
  /\ queue' = [r \in Resources |-> Without(queue[r], t)]
  /\ plan' = [plan EXCEPT ![t] = << >>]
  /\ asked' = [asked EXCEPT ![t] = Code]
  /\ state' = [state EXCEPT ![t] = "ended"]
  /\ UNCHANGED job

Begin(t) ==
  /\ state[t] = "new"
  /\ state' = [state EXCEPT ![t] = "open"]
  /\ \E s \in Plans(t): plan' = [plan EXCEPT ![t] = s]
  /\ UNCHANGED <<job, queue, asked>>

\* What t has already is not asked for again, except a further connection.
Ask(t) ==
  /\ plan[t] # << >> /\ Granted(t)
  /\ LET r == Head(plan[t])
     IN /\ queue' = IF Has(t, r) /\ ~IsConn(r) THEN queue
                    ELSE [queue EXCEPT ![r] = Append(@, t)]
        /\ asked' = [asked EXCEPT ![t] = r]
  /\ plan' = [plan EXCEPT ![t] = Tail(@)]
  /\ UNCHANGED <<job, state>>

\* Commit, or an error that the code meets with what it has locked.
End(t) == state[t] = "open" /\ plan[t] = << >> /\ Granted(t) /\ Leave(t)

\* The deadlock detector ends one transaction of a cycle with an error.
Detect(t) ==
  /\ ~Granted(t)
  /\ \E C \in Deadlocks(Txs): t \in C /\ Deadlocks(C) = {C}
  /\ Leave(t)

----------------------------------------------------------------------------

Init ==
  /\ job \in Jobs
  /\ queue = [r \in Resources |-> << >>]
  /\ plan = [t \in Txs |-> << >>]
  /\ asked = [t \in Txs |-> Code]
  /\ state = [t \in Txs |-> "new"]

Next == \E t \in Txs: Begin(t) \/ Ask(t) \/ End(t) \/ Detect(t)

Spec == Init /\ [][Next]_vars

\* Statements are executed, and the detector runs after deadlock_timeout.
FairSpec ==
  /\ Spec
  /\ \A t \in Txs: WF_vars(Ask(t) \/ End(t))
  /\ WF_vars(\E t \in Txs: Detect(t))

----------------------------------------------------------------------------
(* Properties                                                              *)

WalletSide == {t \in Txs: job[t].kind # "lifecycle"}

\* "reserve and capture cannot form a reverse-order deadlock cycle": nor can
\* releases, clean-ups, grants and redemptions, in whatever order they touch
\* the buckets.  A deadlock takes a transition of a subscription.
NoReverseCycle == Deadlocks(WalletSide) = {}

\* However many settlements, reservations and releases wait for one wallet,
\* they occupy one connection of their process.
GateSparesPool ==
  \A p \in Procs: \A s, t \in Txs:
    /\ {job[s].kind, job[t].kind} \subseteq GatedKinds
    /\ Has(s, ConnOf(p)) /\ Has(t, ConnOf(p))
    => s = t

\* No transaction waits forever: neither for a lock, nor for a gate or a
\* connection, about which the database knows nothing.
AllEnd == \A t \in Txs: state[t] = "open" ~> state[t] = "ended"
=============================================================================
