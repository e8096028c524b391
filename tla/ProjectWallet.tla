---------------------------- MODULE ProjectWallet ----------------------------
(***************************************************************************)
(* One project wallet and the transactions that move its money:            *)
(* reservation at admission, capture at settlement, release, expiry,       *)
(* credit grants and the retirement of allowance buckets                   *)
(* (crates/conduit-bin/src/usage_charge_settler_postgres.rs, with the      *)
(* triggers of migrations/postgres/000026).                                *)
(*                                                                         *)
(* Every transaction locks the wallet row first and holds its row locks    *)
(* until it commits, so a transaction is one action.  What a transaction   *)
(* read before it got the lock is a parameter of the action: the clock t   *)
(* may lag behind now, because the code reads it before it queues for the  *)
(* wallet.  A transaction that fails is rolled back and changes nothing.   *)
(*                                                                         *)
(* A request key stands for a request and for the usage log it produces.   *)
(* Micros are natural numbers; prices, currencies and token counts are     *)
(* abstracted to the amount they come to.                                  *)
(***************************************************************************)
EXTENDS DrawDown

CONSTANTS Requests,   \* request keys
          Buckets,    \* allowance buckets, numbered in the order they are drawn
          Credit,     \* the source "project_credit", next to the buckets
          Granted,    \* Granted[b]: granted_micros of bucket b
          BucketEnd,  \* BucketEnd[b]: expires_at of bucket b
          Eligible,   \* Eligible[r]: the buckets that may pay for request r
          Credits,    \* idempotency keys of grants and redemptions
          Amounts,    \* the micros an estimate, a charge or a grant may come to
          Modes,      \* enforcement modes in use: "shadow", "soft", "hard"
          TTL,        \* reservation_ttl
          GapDelay,   \* age at which a usage log without outbox row is repaired
          LastAdmission,  \* bound: no request is admitted after this time
          MaxTime         \* bound on the clock

ASSUME RequestsFinite == IsFiniteSet(Requests)
ASSUME BucketsFinite == IsFiniteSet(Buckets) /\ Buckets \subseteq Nat
ASSUME CreditIsNoBucket == Credit \notin Buckets
ASSUME CreditsFinite == IsFiniteSet(Credits)
ASSUME GrantedType == Granted \in [Buckets -> Nat] /\ BucketEnd \in [Buckets -> Nat]
ASSUME AmountsType == Amounts \subseteq Nat
ASSUME TimesType == TTL \in Nat /\ GapDelay \in Nat /\ LastAdmission \in Nat /\ MaxTime \in Nat

\* The sources an allocation row can draw on.
Sources == Buckets \cup {Credit}

\* Statuses in which a reservation still holds funds.  "capturing" never
\* outlives the settlement transaction, so no committed state shows it.
Open == {"reserved", "shadow_reserved"}
\* Statuses in which it has settled its holds, and those that never had any.
Closed == {"released", "expired", "captured", "partially_captured", "capture_failed"}
Unfunded == {"none", "shadow_reserved", "soft_insufficient"}
Statuses == Open \cup Closed \cup Unfunded

VARIABLES
  now,             \* the clock
  creditBalance,   \* project_wallets.credit_balance_micros
  creditReserved,  \* project_wallets.credit_reserved_micros
  credited,        \* the positive ledger entries, by idempotency key
  reservation,     \* project_wallet_reservations, by request key
  alloc,           \* project_wallet_reservation_allocations, by request and source
  bucket,          \* subscription_allowance_buckets
  admission,       \* what admission told the request
  used,            \* requests whose usage log is persisted
  incurredAt,      \* usage_logs.created_at
  charge           \* customer_charge_events with charge_settlements, by usage log

vars == <<now, creditBalance, creditReserved, credited, reservation, alloc,
          bucket, admission, used, incurredAt, charge>>

-----------------------------------------------------------------------------
NoRow == [reserved |-> 0, captured |-> 0, released |-> 0]
NoCharge == [status |-> "none", amount |-> 0, subscription |-> 0, credit |-> 0]

\* What an allocation row still holds.
Outstanding(row) == Monus(Monus(row.reserved, row.captured), row.released)

\* A faulty version: what is reserved can be sold again.
AvailableDespiteHolds(b, row) == Monus(Granted[b], row.consumed)

\* What a bucket row can still give.
Available(b, row) == Monus(Monus(Granted[b], row.consumed), row.reserved)

\* A faulty version: the reserved credit is not subtracted.
WholeBalance(balance, reserved) == balance

\* LockedWallet::available_credit.
AvailableCredit(balance, reserved) == Monus(balance, reserved)

-----------------------------------------------------------------------------
\* Closing the reservations of a set E without charging them.

\* The reservations that are past their expiry at time t.
Lapsed(t) == {q \in Requests : /\ reservation[q].status \in Open
                               /\ reservation[q].expires <= t}

\* A faulty version: the allocation row is not updated.
RowKept(row) == row

ReleasedRow(row) == [row EXCEPT !.released = @ + Outstanding(row)]

AllocAfter(E) ==
  [q \in Requests |->
     IF q \in E THEN [s \in Sources |-> ReleasedRow(alloc[q][s])] ELSE alloc[q]]

\* A faulty version: the status of a draining bucket is left alone.
UnreserveOnly(row, back, touched) == [row EXCEPT !.reserved = Monus(@, back)]

\* A bucket row from which back micros of reservations are taken off; a
\* draining bucket whose last hold goes away expires.
Unreserve(row, back, touched) ==
  LET left == Monus(row.reserved, back)
  IN  [reserved |-> left,
       consumed |-> row.consumed,
       status   |-> IF touched /\ row.status = "draining" /\ left = 0
                    THEN "expired" ELSE row.status]

\* A bucket row that has n more micros reserved, or consumed.
Reserve(row, n) == [row EXCEPT !.reserved = @ + n]
Consume(row, n) == [row EXCEPT !.consumed = @ + n]

BucketAfter(E) ==
  [b \in Buckets |->
     Unreserve(bucket[b],
               Sum([q \in Requests |-> IF q \in E THEN Outstanding(alloc[q][b]) ELSE 0]),
               \E q \in E : alloc[q][b].reserved > 0)]

\* A faulty version: the holds are returned, the status is not updated.
ReservationKept(E, final) == reservation

ReservationAfter(E, final) ==
  [q \in Requests |->
     IF q \in E THEN [reservation[q] EXCEPT !.status = final] ELSE reservation[q]]

\* A faulty version: no trigger on the status.
SnapshotKept(E) == creditReserved

\* The status trigger: the project-credit rows of a reservation that leaves
\* the open statuses come off the wallet's snapshot.
CreditReservedAfter(E) ==
  creditReserved
    - Sum([q \in Requests |-> IF q \in E THEN alloc[q][Credit].reserved ELSE 0])

CloseReservations(E, final) ==
  /\ alloc' = AllocAfter(E)
  /\ bucket' = BucketAfter(E)
  /\ reservation' = ReservationAfter(E, final)
  /\ creditReserved' = CreditReservedAfter(E)

-----------------------------------------------------------------------------
Init ==
  /\ now = 0
  /\ creditBalance = 0
  /\ creditReserved = 0
  /\ credited = [c \in Credits |-> 0]
  /\ reservation = [r \in Requests |-> [status |-> "none", amount |-> 0, expires |-> 0]]
  /\ alloc = [r \in Requests |-> [s \in Sources |-> NoRow]]
  /\ bucket = [b \in Buckets |-> [reserved |-> 0, consumed |-> 0, status |-> "active"]]
  /\ admission = [r \in Requests |-> "none"]
  /\ used = {}
  /\ incurredAt = [r \in Requests |-> 0]
  /\ charge = [r \in Requests |-> NoCharge]

Tick ==
  /\ now < MaxTime
  /\ now' = now + 1
  /\ UNCHANGED <<creditBalance, creditReserved, credited, reservation, alloc,
                 bucket, admission, used, incurredAt, charge>>

\* A grant or a redemption: a positive ledger entry, once per idempotency key.
\* The ledger trigger adds it to the balance.
GrantCredit(c, amount) ==
  /\ credited[c] = 0
  /\ amount > 0
  /\ credited' = [credited EXCEPT ![c] = amount]
  /\ creditBalance' = creditBalance + amount
  /\ UNCHANGED <<now, creditReserved, reservation, alloc, bucket, admission,
                 used, incurredAt, charge>>

-----------------------------------------------------------------------------
\* reserve_request.

\* A request key is admitted, or admitted again after an error.
MayReserve(r) ==
  /\ admission[r] \in {"none", "rejected"}
  /\ now <= LastAdmission

\* The early returns before the transaction: no API key user, no retail price
\* or a zero estimate admit without a hold; hard enforcement rejects the
\* unpriced model.
AdmitWithoutReservation(r) ==
  /\ MayReserve(r)
  /\ \E a \in {"unheld"} \cup (IF "hard" \in Modes THEN {"rejected"} ELSE {}) :
       admission' = [admission EXCEPT ![r] = a]
  /\ UNCHANGED <<now, creditBalance, creditReserved, credited, reservation,
                 alloc, bucket, used, incurredAt, charge>>

\* The request key already has a reservation: it is reused while it is open
\* and unexpired, and refused otherwise.
ReuseReservation(r, t) ==
  /\ MayReserve(r)
  /\ reservation[r].status # "none"
  /\ admission' = [admission EXCEPT ![r] =
                     IF /\ reservation[r].status \in Open
                        /\ reservation[r].expires > t
                     THEN "held" ELSE "rejected"]
  /\ UNCHANGED <<now, creditBalance, creditReserved, credited, reservation,
                 alloc, bucket, used, incurredAt, charge>>

\* The caller learns what the transaction did, or the reply is lost after the
\* commit and the caller sees an error.
Reply(r, told) ==
  \E a \in {told, "rejected"} : admission' = [admission EXCEPT ![r] = a]

\* The reservation row that reserve_request inserts, after the sweep of E.
InsertReservation(E, r, status, amount, t) ==
  reservation' = [ReservationAfter(E, "expired") EXCEPT ![r] =
                    [status |-> status, amount |-> amount, expires |-> t + TTL]]

ReserveShadow(r, amount, t) ==
  /\ MayReserve(r)
  /\ reservation[r].status = "none"
  /\ "shadow" \in Modes
  /\ amount > 0
  /\ LET E == Lapsed(t)
     IN  /\ InsertReservation(E, r, "shadow_reserved", amount, t)
         /\ alloc' = AllocAfter(E)
         /\ bucket' = BucketAfter(E)
         /\ creditReserved' = CreditReservedAfter(E)
  /\ Reply(r, "held")
  /\ UNCHANGED <<now, creditBalance, credited, used, incurredAt, charge>>

\* What the buckets that may pay for r can give, given the bucket rows rows,
\* at time t.
Offer(rows, r, t) ==
  [b \in Buckets |-> IF /\ b \in Eligible[r]
                        /\ rows[b].status = "active"
                        /\ BucketEnd[b] > t
                     THEN Available(b, rows[b]) ELSE 0]

\* The credit that is free once the sweep of E has returned its holds.  The
\* code subtracts the outstanding amounts from the snapshot it read.
FreeCredit(E) ==
  AvailableCredit(creditBalance,
    Monus(creditReserved,
          Sum([q \in Requests |->
                 IF q \in E THEN Outstanding(alloc[q][Credit]) ELSE 0])))

\* The allocation rows of a new reservation: take from the buckets, the rest
\* from the wallet's credit.
HeldRows(take, amount) ==
  [s \in Sources |-> IF s = Credit
                     THEN [NoRow EXCEPT !.reserved = amount - Sum(take)]
                     ELSE [NoRow EXCEPT !.reserved = take[s]]]

ReserveFunds(r, amount, t) ==
  /\ MayReserve(r)
  /\ reservation[r].status = "none"
  /\ Modes \cap {"soft", "hard"} # {}
  /\ amount > 0
  /\ LET E == Lapsed(t)
         rows == BucketAfter(E)
         offer == Offer(rows, r, t)
     IN  /\ Sum(offer) + FreeCredit(E) >= amount
         /\ \E take \in DrawDowns(Buckets, offer, amount) :
              /\ alloc' = [AllocAfter(E) EXCEPT ![r] = HeldRows(take, amount)]
              /\ bucket' = [b \in Buckets |-> Reserve(rows[b], take[b])]
              /\ creditReserved' = CreditReservedAfter(E) + (amount - Sum(take))
         /\ InsertReservation(E, r, "reserved", amount, t)
  /\ Reply(r, "held")
  /\ UNCHANGED <<now, creditBalance, credited, used, incurredAt, charge>>

\* Not enough funds: soft enforcement records it and admits without a hold;
\* hard enforcement rejects, which rolls the sweep back too.
RefuseFunds(r, amount, t) ==
  /\ MayReserve(r)
  /\ reservation[r].status = "none"
  /\ amount > 0
  /\ LET E == Lapsed(t)
     IN  /\ Sum(Offer(BucketAfter(E), r, t)) + FreeCredit(E) < amount
         /\ \/ /\ "soft" \in Modes
               /\ InsertReservation(E, r, "soft_insufficient", amount, t)
               /\ alloc' = AllocAfter(E)
               /\ bucket' = BucketAfter(E)
               /\ creditReserved' = CreditReservedAfter(E)
               /\ Reply(r, "unheld")
            \/ /\ "hard" \in Modes
               /\ admission' = [admission EXCEPT ![r] = "rejected"]
               /\ UNCHANGED <<reservation, alloc, bucket, creditReserved>>
  /\ UNCHANGED <<now, creditBalance, credited, used, incurredAt, charge>>

-----------------------------------------------------------------------------
\* release_request: called when a request fails, is cancelled or abandoned,
\* possibly after its usage was persisted.
ReleaseRequest(r) ==
  /\ admission[r] # "none"
  /\ reservation[r].status \in Open
  /\ CloseReservations({r}, "released")
  /\ UNCHANGED <<now, creditBalance, credited, admission, used, incurredAt, charge>>

\* cleanup_expired_reservations, for this wallet.
CleanupExpired(t) ==
  /\ Lapsed(t) # {}
  /\ CloseReservations(Lapsed(t), "expired")
  /\ UNCHANGED <<now, creditBalance, credited, admission, used, incurredAt, charge>>

\* An admitted request completes and its usage log is persisted.
PersistUsage(r) ==
  /\ admission[r] \in {"held", "unheld"}
  /\ r \notin used
  /\ used' = used \cup {r}
  /\ incurredAt' = [incurredAt EXCEPT ![r] = now]
  /\ UNCHANGED <<now, creditBalance, creditReserved, credited, reservation,
                 alloc, bucket, admission, charge>>

-----------------------------------------------------------------------------
\* settle_usage.

\* A faulty version: ON CONFLICT DO UPDATE in place of DO NOTHING.
RecordUnsettledAgain(r) ==
  /\ r \in used
  /\ charge' = [charge EXCEPT ![r] = [NoCharge EXCEPT !.status = "unbilled"]]
  /\ UNCHANGED <<now, creditBalance, creditReserved, credited, reservation,
                 alloc, bucket, admission, used, incurredAt>>

\* record_unsettled: the request has no user or no published price.
RecordUnsettled(r) ==
  /\ r \in used
  /\ charge[r].status = "none"
  /\ charge' = [charge EXCEPT ![r].status = "unbilled"]
  /\ UNCHANGED <<now, creditBalance, creditReserved, credited, reservation,
                 alloc, bucket, admission, used, incurredAt>>

\* The statuses for which the reconciler settles without the reservation key.
HoldGone == {"expired", "released", "capture_failed", "soft_insufficient"}

\* begin_pg_reservation_capture accepts the key.
Capturable(r) ==
  /\ admission[r] = "held"
  /\ reservation[r].status \in Open
  /\ reservation[r].expires > now

\* Settlement without a key: admission gave none, the reconciler found the
\* hold gone, or the gap repair found no outbox row.
SettlesUnkeyed(r) ==
  \/ admission[r] = "unheld"
  \/ reservation[r].status \in HoldGone
  \/ incurredAt[r] + GapDelay <= now

\* A faulty version: the funds are selected anew, as for usage without a hold.
HeldNothing(r, keyed) == [b \in Buckets |-> 0]

\* What the reservation still holds, per bucket, and in credit.
Held(r, keyed) ==
  [b \in Buckets |-> IF keyed THEN Outstanding(alloc[r][b]) ELSE 0]
HeldCredit(r, keyed) == IF keyed THEN Outstanding(alloc[r][Credit]) ELSE 0

\* A faulty version: the hold is given back but what was taken is not consumed.
CapturedUnconsumed(r, keyed, take) ==
  [b \in Buckets |->
     Unreserve(bucket[b], Held(r, keyed)[b], keyed /\ alloc[r][b].reserved > 0)]

\* The buckets after the held rows are captured (take) and released (the rest).
CapturedBuckets(r, keyed, take) ==
  [b \in Buckets |->
     Consume(Unreserve(bucket[b], Held(r, keyed)[b], keyed /\ alloc[r][b].reserved > 0),
             take[b])]

\* An allocation row after capturing take of what it held, releasing the rest
\* and adding extra drawn beyond the estimate.
CapturedRow(row, take, extra) ==
  [reserved |-> row.reserved + extra,
   captured |-> row.captured + take + extra,
   released |-> row.released + (Outstanding(row) - take)]

\* finish_pg_reservation_capture.
FinalStatus(amount, shortfall) ==
  IF shortfall = 0 THEN "captured"
  ELSE IF amount - shortfall > 0 THEN "partially_captured"
  ELSE "capture_failed"

SettleUsage(r, amount, keyed) ==
  /\ r \in used
  /\ charge[r].status = "none"
  /\ IF keyed THEN Capturable(r) ELSE SettlesUnkeyed(r)
  /\ \E take \in DrawDowns(Buckets, Held(r, keyed), amount) :
       LET need1 == amount - Sum(take)
           creditTake == Least(need1, HeldCredit(r, keyed))
           need2 == need1 - creditTake
           rows == CapturedBuckets(r, keyed, take)
       IN  \E extra \in DrawDowns(Buckets, Offer(rows, r, incurredAt[r]), need2) :
             LET need3 == need2 - Sum(extra)
                 creditExtra == Least(need3, AvailableCredit(creditBalance, creditReserved))
                 shortfall == need3 - creditExtra
             IN  /\ bucket' = [b \in Buckets |-> Consume(rows[b], extra[b])]
                 /\ creditBalance' = creditBalance - (creditTake + creditExtra)
                 /\ charge' = [charge EXCEPT ![r] =
                      [status |-> IF shortfall = 0 THEN "settled" ELSE "insufficient_funds",
                       amount |-> amount,
                       subscription |-> Sum(take) + Sum(extra),
                       credit |-> creditTake + creditExtra]]
                 /\ IF keyed
                    THEN /\ alloc' = [alloc EXCEPT ![r] =
                              [s \in Sources |->
                                 IF s = Credit
                                 THEN CapturedRow(alloc[r][s], creditTake, creditExtra)
                                 ELSE CapturedRow(alloc[r][s], take[s], extra[s])]]
                         /\ creditReserved' = creditReserved + creditExtra
                              - (alloc[r][Credit].reserved + creditExtra)
                         /\ reservation' = [reservation EXCEPT ![r].status =
                              FinalStatus(amount, shortfall)]
                    ELSE UNCHANGED <<alloc, creditReserved, reservation>>
  /\ UNCHANGED <<now, credited, admission, used, incurredAt>>

-----------------------------------------------------------------------------
\* The subscription lifecycle, as far as it touches the bucket of an existing
\* period: each bucket is that of a subscription of its own.
RetiredStatus(row) == IF row.reserved > 0 THEN "draining" ELSE "expired"

\* The subscription expires, or its next period is issued.
RetireBucket(b) ==
  /\ bucket[b].status \in {"active", "paused"}
  /\ bucket' = [bucket EXCEPT ![b].status = RetiredStatus(bucket[b])]
  /\ UNCHANGED <<now, creditBalance, creditReserved, credited, reservation,
                 alloc, admission, used, incurredAt, charge>>

PauseBucket(b) ==
  /\ bucket[b].status = "active"
  /\ bucket' = [bucket EXCEPT ![b].status = "paused"]
  /\ UNCHANGED <<now, creditBalance, creditReserved, credited, reservation,
                 alloc, admission, used, incurredAt, charge>>

\* Resuming and cancelling a paused subscription.
ResumeBucket(b) ==
  /\ bucket[b].status = "paused"
  /\ bucket' = [bucket EXCEPT ![b].status =
                  IF BucketEnd[b] > now THEN "active" ELSE RetiredStatus(bucket[b])]
  /\ UNCHANGED <<now, creditBalance, creditReserved, credited, reservation,
                 alloc, admission, used, incurredAt, charge>>

-----------------------------------------------------------------------------
Cleanup == \E t \in 0..now : CleanupExpired(t)

Next ==
  \/ Tick
  \/ \E c \in Credits, amount \in Amounts : GrantCredit(c, amount)
  \/ \E r \in Requests : \/ AdmitWithoutReservation(r)
                         \/ ReleaseRequest(r)
                         \/ PersistUsage(r)
                         \/ RecordUnsettled(r)
  \/ \E r \in Requests, t \in 0..now : ReuseReservation(r, t)
  \/ \E r \in Requests, amount \in Amounts, t \in 0..now :
       \/ ReserveShadow(r, amount, t)
       \/ ReserveFunds(r, amount, t)
       \/ RefuseFunds(r, amount, t)
  \/ Cleanup
  \/ \E r \in Requests, amount \in Amounts, keyed \in BOOLEAN :
       SettleUsage(r, amount, keyed)
  \/ \E b \in Buckets : RetireBucket(b) \/ PauseBucket(b) \/ ResumeBucket(b)

Spec == Init /\ [][Next]_vars

\* The reconciler sweeps expired reservations in an endless loop, and time
\* passes: neither is ever blocked by the rest of the system.
FairSpec == Spec /\ WF_vars(Tick) /\ WF_vars(Cleanup)

-----------------------------------------------------------------------------
Row == [reserved : Nat, captured : Nat, released : Nat]
BucketRow == [reserved : Nat, consumed : Nat,
              status : {"active", "paused", "draining", "expired"}]
ReservationRow == [status : Statuses, amount : Nat, expires : Nat]
ChargeRow == [status : {"none", "settled", "insufficient_funds", "unbilled"},
              amount : Nat, subscription : Nat, credit : Nat]

(***************************************************************************)
(* Types.  creditReserved is a natural number: the CHECK constraint of     *)
(* project_wallets never has to refuse a trigger's update.                 *)
(***************************************************************************)
TypeOK ==
  /\ now \in Nat
  /\ creditBalance \in Nat
  /\ creditReserved \in Nat
  /\ credited \in [Credits -> Nat]
  /\ reservation \in [Requests -> ReservationRow]
  /\ alloc \in [Requests -> [Sources -> Row]]
  /\ bucket \in [Buckets -> BucketRow]
  /\ admission \in [Requests -> {"none", "held", "unheld", "rejected"}]
  /\ used \subseteq Requests
  /\ incurredAt \in [Requests -> Nat]
  /\ charge \in [Requests -> ChargeRow]

(***************************************************************************)
(* No overdraft: every micro of credit promised to an open reservation is  *)
(* in the balance, whatever else is settled, granted or swept meanwhile    *)
(* (reserve_request checks the funds, settle_usage spends them later).     *)
(***************************************************************************)
NoOverdraft == creditReserved <= creditBalance

(***************************************************************************)
(* The two snapshot columns the triggers maintain are what the ledger and  *)
(* the open reservations add up to ("triggers make the snapshots           *)
(* impossible to bypass", migration 000026).                               *)
(***************************************************************************)
OpenCredit ==
  [r \in Requests |->
     IF reservation[r].status \in Open THEN alloc[r][Credit].reserved ELSE 0]
ReservedSnapshot == creditReserved = Sum(OpenCredit)
LedgerSnapshot ==
  creditBalance + Sum([r \in Requests |-> charge[r].credit]) = Sum(credited)

(***************************************************************************)
(* A bucket is never oversold: what it has paid and what it still owes to  *)
(* reservations stays within its grant, and its reserved_micros is exactly *)
(* what the allocation rows still hold, although reservations draw from,   *)
(* capture from and release to the same bucket in any order.               *)
(***************************************************************************)
BucketHolds(b) == [r \in Requests |-> Outstanding(alloc[r][b])]
BucketsNotOversold ==
  \A b \in Buckets :
    /\ bucket[b].reserved = Sum(BucketHolds(b))
    /\ bucket[b].consumed + bucket[b].reserved <= Granted[b]

(***************************************************************************)
(* A draining bucket still has a hold to wait for, so it cannot be left    *)
(* draining for ever (the CASE in release, expiry and capture).            *)
(***************************************************************************)
DrainingHasHolds ==
  \A b \in Buckets : bucket[b].status = "draining" => bucket[b].reserved > 0

(***************************************************************************)
(* Allocation rows follow the reservation's status: there are none without *)
(* a funded hold, an open hold is neither captured nor released, and a     *)
(* closed one is captured or released to the last micro, so nothing is     *)
(* left locked or returned twice.                                          *)
(***************************************************************************)
RowFollows(status, row) ==
  /\ status = "reserved" => row.captured = 0 /\ row.released = 0
  /\ status \in Unfunded => row = NoRow
  /\ status \in Closed => row.reserved = row.captured + row.released
RowsFollowStatus ==
  \A r \in Requests : \A s \in Sources :
    RowFollows(reservation[r].status, alloc[r][s])

(***************************************************************************)
(* Every micro taken is billed once: what the buckets gave is what the     *)
(* charges say they took from subscriptions, the ledger balance is what    *)
(* was granted less what they say they took from the credit, and a charge  *)
(* is funded in full exactly when it says it is settled.                   *)
(***************************************************************************)
ChargesExplainSpending ==
  /\ LedgerSnapshot
  /\ Sum([b \in Buckets |-> bucket[b].consumed])
       = Sum([r \in Requests |-> charge[r].subscription])
  /\ \A r \in Requests :
       CASE charge[r].status = "settled" ->
              charge[r].subscription + charge[r].credit = charge[r].amount
         [] charge[r].status = "insufficient_funds" ->
              charge[r].subscription + charge[r].credit < charge[r].amount
         [] OTHER -> charge[r].subscription + charge[r].credit = 0

(***************************************************************************)
(* Usage is charged once: a charge event never changes, a closed           *)
(* reservation is never reopened or reused, and the balance only ever      *)
(* drops by the credit of a charge event made in the same transaction, for *)
(* every order of workers, retries and repairs that settle the same usage. *)
(***************************************************************************)
ChargedOnce ==
  [][/\ \A r \in Requests : charge[r].status # "none" => charge'[r] = charge[r]
     /\ \A r \in Requests : reservation[r].status \notin Open \cup {"none"} =>
                              reservation'[r] = reservation[r]
     /\ creditBalance' < creditBalance =>
          \E r \in Requests : /\ charge[r].status = "none"
                              /\ charge'[r].credit = creditBalance - creditBalance']_vars

(***************************************************************************)
(* A hold is worth its amount: capturing a funded reservation for no more  *)
(* than its estimate never comes out short, whatever happened to the       *)
(* buckets and to the wallet since admission.                              *)
(***************************************************************************)
HoldCoversEstimate ==
  [][\A r \in Requests :
       /\ reservation[r].status = "reserved"
       /\ charge'[r].status # charge[r].status
       /\ reservation'[r].status # "reserved"
       /\ charge'[r].amount <= reservation[r].amount
       => charge'[r].status = "settled"]_vars

(***************************************************************************)
(* No funds stay locked: every open reservation is captured, released or   *)
(* swept, and every draining bucket expires ("a runtime shutting down      *)
(* before this task runs cannot leave funds reserved indefinitely",        *)
(* abandon_request).                                                       *)
(***************************************************************************)
HoldsEventuallyClose ==
  \A r \in Requests :
    (reservation[r].status \in Open) ~> (reservation[r].status \notin Open)
DrainingEventuallyExpires ==
  \A b \in Buckets :
    (bucket[b].status = "draining") ~> (bucket[b].status = "expired")
=============================================================================
