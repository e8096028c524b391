--------------------------- MODULE AllowanceProofs ---------------------------
(***************************************************************************)
(* Proofs about allowance: how it is drawn and where it goes.              *)
(*                                                                         *)
(* The draw-down loop of reserve_request computes the one take that        *)
(* DrawDowns describes, for any number of sources (DrawDownLoop).  For any *)
(* number of subscriptions and any plan, what is carried over is spent     *)
(* once, and the buckets follow their subscription                         *)
(* (SubscriptionLifecycle).                                                *)
(***************************************************************************)
EXTENDS SubscriptionLifecycle, SumLemmas

CONSTANTS N, MaxAvail, MaxAmount
VARIABLES avail, amount, remaining, at, take

Loop == INSTANCE DrawDownLoop

\* The operators of the instance are those of DrawDown.
LEMMA LoopOperators ==
  /\ \A f: Loop!Sum(f) = Sum(f)
  /\ \A a, b: Loop!Least(a, b) = Least(a, b)
  /\ \A S, have, need: Loop!DrawDowns(S, have, need) = DrawDowns(S, have, need)
<1>1. \A S: Loop!Cardinality(S) = Cardinality(S)
  BY DEF Loop!Cardinality, Cardinality, Loop!IsFiniteSet, IsFiniteSet
<1>2. \A f: Loop!Sum(f) = Sum(f)
  BY <1>1 DEF Loop!Sum, Sum, Loop!Tokens, Tokens, Loop!TokensOf, TokensOf
<1>3. \A a, b: Loop!Least(a, b) = Least(a, b)
  BY DEF Loop!Least, Least
<1>4. \A S, have, need: Loop!DrawDowns(S, have, need) = DrawDowns(S, have, need)
  BY <1>2, <1>3 DEF Loop!DrawDowns, DrawDowns
<1> QED BY <1>2, <1>3, <1>4

(***************************************************************************)
(* There is at most one way to draw an amount in order.                    *)
(***************************************************************************)
THEOREM DrawDownUnique ==
  ASSUME NEW S \in SUBSET Nat, IsFiniteSet(S),
         NEW have \in [S -> Nat], NEW need \in Nat,
         NEW t \in DrawDowns(S, have, need), NEW u \in DrawDowns(S, have, need)
  PROVE  t = u
<1>1. ASSUME NEW v \in DrawDowns(S, have, need)
      PROVE  /\ v \in [S -> Nat]
             /\ \A b \in S : v[b] \in Nat /\ v[b] <= have[b]
             /\ Sum(v) = Least(need, Sum(have))
             /\ \A b, c \in S : b < c /\ v[c] > 0 => v[b] = have[b]
  <2>1. v \in [S -> 0..need]
    BY DEF DrawDowns
  <2> QED
    BY <2>1 DEF DrawDowns
<1>2. ASSUME NEW v \in DrawDowns(S, have, need), NEW w \in DrawDowns(S, have, need),
             NEW b \in S, v[b] < w[b]
      PROVE  FALSE
  <2>1. /\ v \in [S -> Nat] /\ w \in [S -> Nat] /\ Sum(v) = Sum(w)
        /\ \A a \in S : v[a] \in Nat /\ w[a] \in Nat /\ have[a] \in Nat
    BY <1>1
  <2>2. PICK c \in S : ~(v[c] <= w[c])
    <3>1. SUFFICES ASSUME \A a \in S : v[a] <= w[a]
                   PROVE  FALSE
      BY Zenon
    <3>2. \A a \in S : v[a] = w[a]
      BY <2>1, <3>1, SumMonotone
    <3> QED
      BY <3>2, <2>1, <1>2
  <2>3. v[c] > w[c] /\ b # c
    BY <2>1, <2>2, <1>2
  <2>4. CASE b < c
    <3>1. v[c] > 0
      BY <2>1, <2>3
    <3>2. v[b] = have[b] /\ w[b] <= have[b]
      BY <1>1, <2>4, <3>1
    <3> QED
      BY <3>2, <2>1, <1>2
  <2>5. CASE c < b
    <3>1. w[b] > 0
      BY <2>1, <1>2
    <3>2. w[c] = have[c] /\ v[c] <= have[c]
      BY <1>1, <2>5, <3>1
    <3> QED
      BY <3>2, <2>1, <2>3
  <2>6. b < c \/ c < b
    BY <2>3
  <2> QED
    BY <2>4, <2>5, <2>6
<1>3. \A b \in S : t[b] = u[b]
  <2> TAKE b \in S
  <2>1. t[b] \in Nat /\ u[b] \in Nat
    BY <1>1
  <2>2. ~(t[b] < u[b]) /\ ~(u[b] < t[b])
    BY <1>2
  <2> QED
    BY <2>1, <2>2
<1>4. t \in [S -> Nat] /\ u \in [S -> Nat]
  BY <1>1
<1>5. t = [b \in S |-> t[b]] /\ u = [b \in S |-> u[b]]
  BY <1>4
<1> QED
  BY <1>3, <1>5, Zenon

-----------------------------------------------------------------------------
(***************************************************************************)
(* The loop invariant holds at every step.                                 *)
(***************************************************************************)
LEMMA LoopInvHolds ==
  ASSUME Loop!BoundsType
  PROVE  Loop!Spec => [](Loop!TypeOK /\ Loop!LoopInv)
<1>0. IsFiniteSet(Loop!Src) /\ N \in Nat
  BY FS_Interval DEF Loop!BoundsType, Loop!Src
<1>1. Loop!Init => Loop!TypeOK /\ Loop!LoopInv
  <2> SUFFICES ASSUME Loop!Init PROVE Loop!TypeOK /\ Loop!LoopInv
    OBVIOUS
  <2>1. Loop!TypeOK
    BY DEF Loop!BoundsType, Loop!Init, Loop!TypeOK
  <2>2. \A b \in Loop!Src : take[b] = 0
    BY DEF Loop!Init
  <2>3. Sum(take) = 0
    BY <2>1, <2>2, SumZero DEF Loop!TypeOK
  <2>4. \A b \in Loop!Src : b \in Nat /\ ~(b < at) /\ avail[b] \in Nat
    BY <2>1 DEF Loop!Init, Loop!Src, Loop!TypeOK
  <2> QED
    BY <2>1, <2>2, <2>3, <2>4, LoopOperators DEF Loop!Init, Loop!TypeOK, Loop!LoopInv
<1>2. Loop!TypeOK /\ Loop!LoopInv /\ [Loop!Next]_Loop!vars => Loop!TypeOK' /\ Loop!LoopInv'
  <2> SUFFICES ASSUME Loop!TypeOK, Loop!LoopInv, [Loop!Next]_Loop!vars
               PROVE  Loop!TypeOK' /\ Loop!LoopInv'
    OBVIOUS
  <2>1. CASE Loop!Break
    <3>1. Loop!TypeOK'
      BY <1>0, <2>1 DEF Loop!Break, Loop!TypeOK
    <3>2. Loop!Done' /\ remaining' = 0
      BY <2>1 DEF Loop!Break, Loop!Done
    <3> QED
      BY <2>1, <3>1, <3>2 DEF Loop!Break, Loop!LoopInv
  <2>2. CASE Loop!Draw
    <3> DEFINE t == Least(remaining, avail[at])
    <3>0. Loop!Least(remaining, avail[at]) = t
      BY LoopOperators
    <3>1. /\ at \in Loop!Src /\ at \in Nat /\ at' = at + 1
          /\ take' = [take EXCEPT ![at] = t]
          /\ remaining' = remaining - t
          /\ UNCHANGED <<avail, amount>> /\ remaining > 0 /\ ~Loop!Done
      BY <1>0, <2>2, <3>0 DEF Loop!Draw, Loop!Done, Loop!TypeOK, Loop!Src
    <3>2. /\ t \in Nat /\ t <= remaining /\ t <= avail[at]
          /\ t < remaining => t = avail[at]
      BY <3>1 DEF Loop!TypeOK, Least
    <3> HIDE DEF t
    <3>3. /\ take' \in [Loop!Src -> Nat] /\ take'[at] = t
          /\ \A b \in Loop!Src \ {at} : take'[b] = take[b]
      BY <3>1, <3>2 DEF Loop!TypeOK
    <3>4. Loop!TypeOK'
      BY <1>0, <3>1, <3>2, <3>3 DEF Loop!TypeOK, Loop!Src
    <3>5. take[at] = 0
      BY <3>1 DEF Loop!LoopInv
    <3>6. Sum(take') + remaining' = amount'
      <4> DEFINE old == take
                 new == take'
      <4>1. old \in [Loop!Src -> Nat] /\ new \in [Loop!Src -> Nat] /\ \A b \in Loop!Src \ {at} : new[b] = old[b]
        BY <3>3 DEF Loop!TypeOK
      <4>2. old[at] = 0 /\ new[at] = t /\ Sum(old) + remaining = amount
        BY <3>3, <3>5, LoopOperators DEF Loop!LoopInv
      <4> HIDE DEF old, new
      <4>3. /\ Sum(old) \in Nat /\ Sum(new) \in Nat
            /\ Sum(new) + old[at] = Sum(old) + new[at]
        BY <1>0, <3>1, <4>1, SumUpdate
      <4>4. Sum(new) + remaining' = amount'
        BY <4>2, <4>3, <3>1, <3>2 DEF Loop!TypeOK
      <4> QED
        BY <4>4 DEF new
    <3>7. \A b \in Loop!Src : b \in Nat /\ take[b] \in Nat /\ avail[b] \in Nat
      BY DEF Loop!TypeOK, Loop!Src
    <3>8. \A b \in Loop!Src : take'[b] <= avail'[b]
      BY <3>1, <3>2, <3>3 DEF Loop!LoopInv
    <3>9. \A b \in Loop!Src : b >= at' => take'[b] = 0
      BY <3>1, <3>3, <3>7 DEF Loop!LoopInv
    <3>10. \A b \in Loop!Src : b < at => take[b] = avail[b]
      BY <3>1 DEF Loop!LoopInv
    <3>11. \A b \in Loop!Src : b < at' /\ remaining' > 0 => take'[b] = avail'[b]
      <4> SUFFICES ASSUME NEW b \in Loop!Src, b < at', remaining' > 0
                   PROVE  take'[b] = avail'[b]
        OBVIOUS
      <4>1. CASE b = at
        BY <4>1, <3>1, <3>2, <3>3 DEF Loop!TypeOK
      <4>2. CASE b # at
        <5>1. b < at
          BY <4>2, <3>1, <3>7
        <5> QED
          BY <5>1, <4>2, <3>1, <3>3, <3>10
      <4> QED
        BY <4>1, <4>2
    <3>12. \A b, c \in Loop!Src : b < c /\ take'[c] > 0 => take'[b] = avail'[b]
      <4> SUFFICES ASSUME NEW b \in Loop!Src, NEW c \in Loop!Src, b < c, take'[c] > 0
                   PROVE  take'[b] = avail'[b]
        OBVIOUS
      <4>1. ~(c >= at')
        BY <3>9
      <4>2. b < at /\ b # at
        BY <4>1, <3>1, <3>7
      <4> QED
        BY <4>2, <3>1, <3>3, <3>10
    <3> QED
      BY <3>4, <3>6, <3>8, <3>9, <3>11, <3>12, LoopOperators DEF Loop!LoopInv
  <2>3. CASE UNCHANGED Loop!vars
    BY <2>3 DEF Loop!vars, Loop!TypeOK, Loop!LoopInv, Loop!Done
  <2> QED
    BY <2>1, <2>2, <2>3 DEF Loop!Next
<1> QED
  BY <1>1, <1>2, PTL DEF Loop!Spec

(***************************************************************************)
(* The loop ends with a take that DrawDowns describes.                     *)
(***************************************************************************)
THEOREM LoopIsDrawDown ==
  ASSUME Loop!BoundsType
  PROVE  Loop!Spec => []Loop!LoopDrawsDown
<1>1. Loop!TypeOK /\ Loop!LoopInv => Loop!LoopDrawsDown
  <2> SUFFICES ASSUME Loop!TypeOK, Loop!LoopInv, Loop!Done PROVE /\ take \in DrawDowns(Loop!Src, avail, amount)
                                                 /\ remaining = amount - Sum(take)
    BY LoopOperators DEF Loop!LoopDrawsDown
  <2>0. IsFiniteSet(Loop!Src)
    BY FS_Interval DEF Loop!BoundsType, Loop!Src
  <2>1. /\ take \in [Loop!Src -> Nat] /\ avail \in [Loop!Src -> Nat] /\ amount \in Nat /\ remaining \in Nat
        /\ \A b \in Loop!Src : take[b] <= avail[b]
        /\ Sum(take) + remaining = amount
        /\ \A b, c \in Loop!Src : b < c /\ take[c] > 0 => take[b] = avail[b]
    BY LoopOperators DEF Loop!TypeOK, Loop!LoopInv
  <2>2. Sum(take) \in Nat /\ Sum(avail) \in Nat /\ Sum(take) <= Sum(avail)
    BY <2>0, <2>1, SumMonotone
  <2>3. take \in [Loop!Src -> 0..amount]
    <3>1. \A b \in Loop!Src : take[b] \in Nat /\ take[b] <= Sum(take)
      BY <2>0, <2>1, SumBound
    <3> QED
      BY <3>1, <2>1, <2>2
  <2>4. remaining > 0 => Sum(take) = Sum(avail)
    <3> SUFFICES ASSUME remaining > 0 PROVE Sum(take) = Sum(avail)
      OBVIOUS
    <3>1. \A b \in Loop!Src : take[b] = avail[b]
      BY DEF Loop!BoundsType, Loop!LoopInv, Loop!Done, Loop!Src
    <3> QED
      BY <3>1, <2>1
  <2>5. Sum(take) = Least(amount, Sum(avail))
    BY <2>1, <2>2, <2>4 DEF Least
  <2>6. remaining = amount - Sum(take)
    BY <2>1, <2>2
  <2> QED
    BY <2>1, <2>3, <2>5, <2>6 DEF DrawDowns
<1> QED
  BY <1>1, LoopInvHolds, PTL

(***************************************************************************)
(* No other take is described by DrawDowns.                                *)
(***************************************************************************)
THEOREM LoopIsTheDrawDown ==
  ASSUME Loop!BoundsType
  PROVE  Loop!Spec => []Loop!OnlyOneDrawDown
<1>1. Loop!TypeOK /\ Loop!LoopDrawsDown => Loop!OnlyOneDrawDown
  <2> SUFFICES ASSUME Loop!TypeOK, Loop!LoopDrawsDown, Loop!Done, NEW other \in DrawDowns(Loop!Src, avail, amount)
               PROVE  other = take
    BY LoopOperators DEF Loop!OnlyOneDrawDown
  <2>1. take \in DrawDowns(Loop!Src, avail, amount)
    BY LoopOperators DEF Loop!LoopDrawsDown
  <2>2. Loop!Src \in SUBSET Nat /\ IsFiniteSet(Loop!Src)
    BY FS_Interval DEF Loop!BoundsType, Loop!Src
  <2>3. avail \in [Loop!Src -> Nat] /\ amount \in Nat
    BY DEF Loop!TypeOK
  <2> QED
    BY <2>1, <2>2, <2>3, DrawDownUnique
<1> QED
  BY <1>1, LoopInvHolds, LoopIsDrawDown, PTL

-----------------------------------------------------------------------------
(***************************************************************************)
(* The periods of subscriptions and their buckets.                         *)
(***************************************************************************)
Keys == [sub : Subs, start : Nat, src : Nat \cup {NoSource}]
Buckets == [end : Nat, expires : Nat, granted : Nat, consumed : Nat, reserved : Nat,
            status : InUse \cup {"draining", "expired"}]
Subscriptions == [status : InUse \cup {"none", "cancel_pending", "expired"},
                  auto : BOOLEAN, start : Nat, end : Nat]

\* A bucket that was carried over has its source, which is out of use for good
\* and has room for what was taken from it.
CarriedFrom(i) ==
  i.src # NoSource =>
    LET b == bucket[Base(i.sub, i.src)]
    IN  /\ Base(i.sub, i.src) \in DOMAIN bucket
        /\ b.status \notin InUse
        /\ b.consumed + b.reserved + bucket[i].granted <= b.granted

\* What the status of a bucket says of its subscription, that no bucket of a
\* later period is in use, and of the periods' own only the current one.
Follows(i) ==
  LET b == bucket[i]
      s == sub[i.sub]
  IN  /\ b.status = "active" => s.status \in {"active", "cancel_pending"}
      /\ b.status = "paused" => s.status = "paused" \/ LeftPaused(i)
      /\ b.status = "draining" => b.reserved > 0
      /\ b.status \in InUse => i.start <= s.start
      /\ b.status \in InUse /\ i.src = NoSource => i.start = s.start

SubInv ==
  /\ TypeOK
  /\ \A s \in Subs: sub[s].status # "none" => sub[s].start < sub[s].end
  /\ \A i \in DOMAIN bucket: CarriedFrom(i) /\ Follows(i)

-----------------------------------------------------------------------------
LEMMA Types ==
  TypeOK <=> /\ now \in 0..MaxTime /\ enabled \in BOOLEAN
             /\ sub \in [Subs -> Subscriptions]
             /\ \A i \in DOMAIN bucket: i \in Keys /\ bucket[i] \in Buckets
BY DEF TypeOK, Keys, Buckets, Subscriptions

LEMMA TypesNext ==
  TypeOK' <=> /\ now' \in 0..MaxTime /\ enabled' \in BOOLEAN
              /\ sub' \in [Subs -> Subscriptions]
              /\ \A i \in DOMAIN bucket': i \in Keys /\ bucket'[i] \in Buckets
BY DEF TypeOK, Keys, Buckets, Subscriptions

\* The row of a retired bucket
LEMMA RetiredIs ==
  ASSUME NEW b \in Buckets
  PROVE  /\ Retired(b) \in Buckets /\ Retired(b).status \notin InUse
         /\ Retired(b).status = "draining" => Retired(b).reserved > 0
         /\ Retired(b).granted = b.granted /\ Retired(b).consumed = b.consumed
         /\ Retired(b).reserved = b.reserved
BY DEF Retired, Buckets, InUse

\* What is carried over is unused.
LEMMA CarryIs ==
  ASSUME NEW b \in Buckets
  PROVE  /\ Carry(b) \in Nat
         /\ Carry(b) > 0 => b.consumed + b.reserved + Carry(b) <= b.granted
<1>1. Cap \in Nat
  BY PlanAssumption
<1>2. b.granted \in Nat /\ b.consumed \in Nat /\ b.reserved \in Nat
  BY DEF Buckets
<1> QED BY <1>1, <1>2 DEF Carry, Unused, Least, Monus

\* issue_period_buckets keeps the rows there are or retires them, the source
\* among them, and adds at most a row for the period and one for the carry.
Issued(new, s, start, end, st, source) ==
  LET from == Base(s, source)
      base == Fresh(end, end, Grant, st)
      carry == Fresh(end, bucket[from].end + CarryFor, Carry(bucket[from]), st)
  IN  /\ DOMAIN bucket \subseteq DOMAIN new
      /\ \A i \in DOMAIN bucket:
           /\ new[i] = bucket[i] \/ new[i] = Retired(bucket[i])
           /\ i.sub # s => new[i] = bucket[i]
           /\ i = from /\ bucket[i].status \in InUse => new[i] = Retired(bucket[i])
      /\ \A i \in DOMAIN new \ DOMAIN bucket:
           \/ i = Base(s, start) /\ (new[i] = base \/ new[i] = Retired(base))
           \/ /\ from \in DOMAIN bucket /\ bucket[from].status \in InUse
              /\ i = CarryOf(from, start) /\ Carry(bucket[from]) > 0
              /\ new[i] = carry \/ new[i] = Retired(carry)

LEMMA IssueIs ==
  ASSUME TypeOK, NEW s \in Subs, NEW start \in Nat, NEW end \in Nat, NEW st \in InUse,
         NEW source \in Nat \cup {NoSource}, source # start, NEW t \in Nat
  PROVE  Issued(Issue(s, start, end, st, source, t), s, start, end, st, source)
<1> DEFINE from == Base(s, source)
           base == Fresh(end, end, Grant, st)
           carry == Fresh(end, bucket[from].end + CarryFor, Carry(bucket[from]), st)
           issued == OrElse(bucket, [i \in {Base(s, start)} |-> base])
           sources == {i \in {from} \cap DOMAIN issued: issued[i].status \in InUse}
           carried == {i \in sources: Carry(issued[i]) > 0 /\ issued[i].end + CarryFor > t}
           rolled == OrElse(issued,
             [j \in {CarryOf(i, start): i \in carried} |->
                LET b == issued[Base(s, j.src)]
                IN Fresh(end, b.end + CarryFor, Carry(b), st)])
           Over(i) == i.sub = s /\ rolled[i].status \in InUse /\ rolled[i].expires <= t
           new == Issue(s, start, end, st, source, t)
<1>1. new = [i \in DOMAIN rolled |-> IF i \in sources \/ Over(i) THEN Retired(rolled[i]) ELSE rolled[i]]
  BY DEF Issue
<1>2. from # Base(s, start) /\ from.sub = s /\ from.start = source /\ from.src = NoSource
  BY DEF Base
<1>3. /\ DOMAIN issued = DOMAIN bucket \cup {Base(s, start)}
      /\ \A i \in DOMAIN bucket: issued[i] = bucket[i]
      /\ Base(s, start) \notin DOMAIN bucket => issued[Base(s, start)] = base
  BY DEF OrElse
<1>4. /\ sources \subseteq {from} \cap DOMAIN bucket
      /\ \A i \in sources: bucket[i].status \in InUse
      /\ from \in DOMAIN bucket /\ bucket[from].status \in InUse => from \in sources
  BY <1>2, <1>3
<1>5. /\ carried \subseteq sources
      /\ \A i \in carried: Carry(bucket[i]) > 0
  BY <1>3, <1>4
<1> HIDE DEF issued, sources, carried
<1>6. /\ DOMAIN rolled = DOMAIN issued \cup {CarryOf(i, start): i \in carried}
      /\ \A i \in DOMAIN issued: rolled[i] = issued[i]
  BY DEF OrElse
<1>7. ASSUME NEW j \in DOMAIN rolled \ DOMAIN issued
      PROVE  /\ from \in carried /\ j = CarryOf(from, start) /\ rolled[j] = carry
  <2>1. from \in carried /\ j = CarryOf(from, start)
    BY <1>4, <1>5, <1>6, <1>7
  <2>2. Base(s, j.src) = from
    BY <1>2, <2>1 DEF CarryOf, Base
  <2>3. rolled[j] = LET b == issued[Base(s, j.src)]
                    IN Fresh(end, b.end + CarryFor, Carry(b), st)
    BY <2>1, <1>6, <1>7 DEF OrElse
  <2>4. issued[from] = bucket[from]
    BY <1>3, <1>4, <1>5, <2>1
  <2> QED BY <2>1, <2>2, <2>3, <2>4
<1> HIDE DEF rolled
<1>8. DOMAIN new = DOMAIN rolled
      /\ \A i \in DOMAIN rolled:
           /\ new[i] = rolled[i] \/ new[i] = Retired(rolled[i])
           /\ i.sub # s => i \in sources \/ new[i] = rolled[i]
           /\ i \in sources => new[i] = Retired(rolled[i])
  BY <1>1
<1> HIDE DEF new
<1>9. DOMAIN bucket \subseteq DOMAIN new
  BY <1>3, <1>6, <1>8
<1>10. ASSUME NEW i \in DOMAIN bucket
       PROVE  /\ new[i] = bucket[i] \/ new[i] = Retired(bucket[i])
              /\ i.sub # s => new[i] = bucket[i]
              /\ i = from /\ bucket[i].status \in InUse => new[i] = Retired(bucket[i])
  <2>1. i \in DOMAIN rolled /\ rolled[i] = bucket[i]
    BY <1>3, <1>6
  <2>2. i.sub # s => i \notin sources
    BY <1>2, <1>4
  <2> QED BY <1>4, <1>8, <2>1, <2>2
<1>11. ASSUME NEW i \in DOMAIN new \ DOMAIN bucket
       PROVE  \/ i = Base(s, start) /\ (new[i] = base \/ new[i] = Retired(base))
              \/ /\ from \in DOMAIN bucket /\ bucket[from].status \in InUse
                 /\ i = CarryOf(from, start) /\ Carry(bucket[from]) > 0
                 /\ new[i] = carry \/ new[i] = Retired(carry)
  <2>1. CASE i \in DOMAIN issued
    <3>1. i = Base(s, start) /\ rolled[i] = base
      BY <1>3, <1>6, <2>1
    <3> QED BY <1>8, <3>1
  <2>2. CASE i \notin DOMAIN issued
    <3>1. from \in carried /\ i = CarryOf(from, start) /\ rolled[i] = carry
      BY <1>7, <1>8, <2>2
    <3>2. from \in DOMAIN bucket /\ bucket[from].status \in InUse /\ Carry(bucket[from]) > 0
      BY <1>4, <1>5, <3>1
    <3> QED BY <1>8, <3>1, <3>2
  <2> QED BY <2>1, <2>2
<1> QED BY <1>9, <1>10, <1>11 DEF new, Issued

-----------------------------------------------------------------------------
(* What an operation may do to a row that there is.                        *)

\* The grant stays, a row out of use never comes back and takes on nothing,
\* and one that drains waits for a hold.
Tame(b, c) ==
  /\ c \in Buckets /\ c.granted = b.granted
  /\ c.status \in InUse => b.status \in InUse
  /\ b.status \notin InUse => c.consumed + c.reserved <= b.consumed + b.reserved
  /\ c.status = "draining" => c.reserved > 0

\* An unchanged row and a retired one are tame.
LEMMA TameRows ==
  ASSUME SubInv, NEW i \in DOMAIN bucket
  PROVE  Tame(bucket[i], bucket[i]) /\ Tame(bucket[i], Retired(bucket[i]))
<1>1. bucket[i] \in Buckets /\ Follows(i)
  BY Types DEF SubInv
<1>2. /\ bucket[i].consumed \in Nat /\ bucket[i].reserved \in Nat
  BY <1>1 DEF Buckets
<1> QED BY <1>1, <1>2, RetiredIs DEF Tame, Follows

\* What was carried over stays covered as long as the rows are tame.
LEMMA CarriedStays ==
  ASSUME SubInv, DOMAIN bucket \subseteq DOMAIN bucket',
         \A i \in DOMAIN bucket: Tame(bucket[i], bucket'[i])
  PROVE  \A i \in DOMAIN bucket: CarriedFrom(i)'
<1> SUFFICES ASSUME NEW i \in DOMAIN bucket, i.src # NoSource PROVE CarriedFrom(i)'
  BY DEF CarriedFrom
<1> DEFINE k == Base(i.sub, i.src)
<1>1. /\ k \in DOMAIN bucket /\ bucket[k].status \notin InUse
      /\ bucket[k].consumed + bucket[k].reserved + bucket[i].granted <= bucket[k].granted
  BY DEF SubInv, CarriedFrom
<1>2. bucket[k] \in Buckets /\ bucket[i] \in Buckets
  BY <1>1, Types DEF SubInv
<1>3. /\ k \in DOMAIN bucket' /\ Tame(bucket[k], bucket'[k]) /\ Tame(bucket[i], bucket'[i])
      /\ Base(i.sub, i.src)' = k
  BY <1>1 DEF Base, NoSource
<1> HIDE DEF k
<1>4. /\ bucket'[k].status \notin InUse
      /\ bucket'[k].consumed + bucket'[k].reserved <= bucket[k].consumed + bucket[k].reserved
      /\ bucket'[k].granted = bucket[k].granted /\ bucket'[i].granted = bucket[i].granted
  BY <1>1, <1>3 DEF Tame
<1>5. /\ bucket'[k].consumed \in Nat /\ bucket'[k].reserved \in Nat
      /\ bucket[k].consumed \in Nat /\ bucket[k].reserved \in Nat
      /\ bucket[k].granted \in Nat /\ bucket[i].granted \in Nat
  BY <1>2, <1>3 DEF Tame, Buckets
<1>6. bucket'[k].consumed + bucket'[k].reserved + bucket'[i].granted <= bucket'[k].granted
  BY <1>1, <1>4, <1>5
<1> QED BY <1>3, <1>4, <1>6 DEF CarriedFrom, k

\* An operation that adds no row and moves no period keeps the invariant if
\* its rows are tame and have a status that suits the subscription's.
LEMMA RowsChange ==
  ASSUME SubInv, now' \in 0..MaxTime, enabled' \in BOOLEAN, sub' \in [Subs -> Subscriptions],
         \A s \in Subs: /\ sub'[s].start = sub[s].start /\ sub'[s].end = sub[s].end
                        /\ sub'[s].status # "none" => sub[s].status # "none",
         DOMAIN bucket' = DOMAIN bucket,
         \A i \in DOMAIN bucket:
           /\ Tame(bucket[i], bucket'[i])
           /\ bucket'[i].status = "active" => sub'[i.sub].status \in {"active", "cancel_pending"}
           /\ bucket'[i].status = "paused" => sub'[i.sub].status = "paused" \/ LeftPaused(i)'
  PROVE  SubInv'
<1>1. TypeOK'
  BY Types, TypesNext DEF SubInv, Tame
<1>2. \A s \in Subs: sub'[s].status # "none" => sub'[s].start < sub'[s].end
  BY DEF SubInv
<1>3. \A i \in DOMAIN bucket: CarriedFrom(i)'
  BY CarriedStays
<1>4. ASSUME NEW i \in DOMAIN bucket PROVE Follows(i)'
  <2>1. i.sub \in Subs /\ Follows(i)
    BY Types DEF SubInv, Keys
  <2>2. sub'[i.sub].start = sub[i.sub].start
    BY <2>1
  <2>3. Tame(bucket[i], bucket'[i])
    OBVIOUS
  <2>4. bucket'[i].status \in InUse => bucket[i].status \in InUse
    BY <2>3 DEF Tame
  <2> QED BY <2>1, <2>2, <2>3, <2>4 DEF Follows, Tame
<1> QED BY <1>1, <1>2, <1>3, <1>4 DEF SubInv

\* A new period keeps the invariant: what was in use is the source and retired,
\* or there was nothing.
LEMMA PeriodChange ==
  ASSUME SubInv, NEW s \in Subs, NEW start \in Nat, NEW end \in Nat, NEW st \in InUse,
         NEW source \in Nat \cup {NoSource}, NEW t \in Nat,
         \/ source = sub[s].start /\ source < start
         \/ source = NoSource /\ sub[s].status \in {"none", "expired"},
         start < end, st = "active" \/ sub[s].status = "paused", UNCHANGED <<now, enabled>>,
         sub' \in [Subs -> Subscriptions],
         sub'[s].status = st, sub'[s].start = start, sub'[s].end = end,
         \A x \in Subs: x # s => sub'[x] = sub[x],
         bucket' = Issue(s, start, end, st, source, t)
  PROVE  SubInv'
<1> DEFINE from == Base(s, source)
           base == Fresh(end, end, Grant, st)
           carry == Fresh(end, bucket[from].end + CarryFor, Carry(bucket[from]), st)
<1>0. /\ sub \in [Subs -> Subscriptions] /\ now \in 0..MaxTime /\ enabled \in BOOLEAN
      /\ \A i \in DOMAIN bucket: i \in Keys /\ bucket[i] \in Buckets
      /\ TypeOK
  BY Types DEF SubInv
<1>1. source # start
  BY DEF NoSource
<1>2. /\ DOMAIN bucket \subseteq DOMAIN bucket'
      /\ \A i \in DOMAIN bucket:
           /\ bucket'[i] = bucket[i] \/ bucket'[i] = Retired(bucket[i])
           /\ i.sub # s => bucket'[i] = bucket[i]
           /\ i = from /\ bucket[i].status \in InUse => bucket'[i] = Retired(bucket[i])
      /\ \A i \in DOMAIN bucket' \ DOMAIN bucket:
           \/ i = Base(s, start) /\ (bucket'[i] = base \/ bucket'[i] = Retired(base))
           \/ /\ from \in DOMAIN bucket /\ bucket[from].status \in InUse
              /\ i = CarryOf(from, start) /\ Carry(bucket[from]) > 0
              /\ bucket'[i] = carry \/ bucket'[i] = Retired(carry)
  <2>1. Issued(bucket', s, start, end, st, source)
    BY <1>0, <1>1, IssueIs
  <2> QED BY <2>1 DEF Issued
<1>3. \A i \in DOMAIN bucket: Tame(bucket[i], bucket'[i])
  BY <1>2, TameRows
<1>5. /\ sub' \in [Subs -> Subscriptions] /\ sub'[s].status = st
      /\ sub'[s].start = start /\ sub'[s].end = end
      /\ \A x \in Subs: x # s => sub'[x] = sub[x]
  OBVIOUS
<1>6. \A x \in Subs: sub'[x].status # "none" => sub'[x].start < sub'[x].end
  BY <1>5 DEF SubInv
<1>7. ASSUME NEW i \in DOMAIN bucket PROVE Follows(i)'
  <2>1. i \in Keys /\ i.sub \in Subs /\ Follows(i) /\ Tame(bucket[i], bucket'[i])
    BY <1>0, <1>3 DEF SubInv, Keys
  <2>2. CASE i.sub # s
    BY <1>2, <1>5, <2>1, <2>2 DEF Follows, LeftPaused
  <2>3. CASE i.sub = s
    <3>1. bucket'[i].status \notin InUse \/ bucket'[i] = bucket[i]
      BY <1>0, <1>2, RetiredIs
    <3>2. bucket'[i].status \in InUse => i.src # NoSource
      <4> SUFFICES ASSUME bucket'[i].status \in InUse, i.src = NoSource PROVE FALSE
        OBVIOUS
      <4>1. bucket[i].status \in InUse /\ i.start = sub[s].start
        BY <2>1, <2>3 DEF Tame, Follows
      <4>2. sub[s].status \notin {"none", "expired"}
        BY <2>1, <2>3, <4>1 DEF Follows, LeftPaused, InUse
      <4>3. i = from
        BY <2>1, <2>3, <4>1, <4>2 DEF Keys, Base
      <4> QED BY <1>0, <1>2, <4>1, <4>3, RetiredIs
    <3>3. bucket'[i].status = "active" => st = "active"
      BY <2>1, <2>3, <3>1 DEF Follows, InUse
    <3>4. bucket'[i].status \in InUse => i.start < start
      <4> SUFFICES ASSUME bucket'[i].status \in InUse PROVE i.start < start
        OBVIOUS
      <4>1. bucket[i].status \in InUse /\ i.start <= sub[s].start
        BY <2>1, <2>3 DEF Tame, Follows
      <4>2. sub[s].status \notin {"none", "expired"}
        BY <2>1, <2>3, <4>1 DEF Follows, LeftPaused, InUse
      <4>3. i.start \in Nat /\ sub[s].start \in Nat
        BY <1>0, <2>1 DEF Keys, Subscriptions
      <4> QED BY <4>1, <4>2, <4>3
    <3>5. bucket'[i].status = "paused" => sub'[s].status = "paused" \/ LeftPaused(i)'
      <4> SUFFICES ASSUME bucket'[i].status = "paused" PROVE sub'[s].status = "paused" \/ LeftPaused(i)'
        OBVIOUS
      <4>1. i.src # NoSource /\ i.start < start
        BY <3>2, <3>4 DEF InUse
      <4> QED BY <1>5, <2>3, <4>1 DEF LeftPaused, InUse, NoSource
    <3>6. start \in Nat /\ i.start \in Nat
      BY <2>1 DEF Keys
    <3> QED BY <1>5, <2>1, <2>3, <3>2, <3>3, <3>4, <3>5, <3>6 DEF Follows, Tame, InUse, NoSource
  <2> QED BY <2>2, <2>3
<1>8. ASSUME NEW i \in DOMAIN bucket' \ DOMAIN bucket
      PROVE  i \in Keys /\ bucket'[i] \in Buckets /\ CarriedFrom(i)' /\ Follows(i)'
  <2>0. Grant \in Nat /\ CarryFor \in Nat
    BY PlanAssumption
  <2>1. ASSUME NEW expires \in Nat, NEW held \in Nat, NEW c,
               c = Fresh(end, expires, held, st) \/ c = Retired(Fresh(end, expires, held, st))
        PROVE  /\ c \in Buckets /\ c.status \in {st, "expired"} /\ c.granted = held
    <3>1. Fresh(end, expires, held, st) \in Buckets
      BY DEF Fresh, Buckets
    <3> QED BY <2>1, <3>1 DEF Fresh, Retired, Buckets
  <2>2. ASSUME i.sub = s, i.start = start, bucket'[i].status \in {st, "expired"} PROVE Follows(i)'
    BY <1>5, <2>2 DEF Follows, InUse
  <2>3. CASE i = Base(s, start) /\ (bucket'[i] = base \/ bucket'[i] = Retired(base))
    <3>1. bucket'[i] \in Buckets /\ bucket'[i].status \in {st, "expired"}
      BY <2>0, <2>1, <2>3
    <3>2. i \in Keys /\ i.sub = s /\ i.start = start /\ i.src = NoSource
      BY <2>3 DEF Base, Keys
    <3> QED BY <2>2, <3>1, <3>2 DEF CarriedFrom
  <2>4. CASE /\ from \in DOMAIN bucket /\ bucket[from].status \in InUse
             /\ i = CarryOf(from, start) /\ Carry(bucket[from]) > 0
             /\ bucket'[i] = carry \/ bucket'[i] = Retired(carry)
    <3>0. /\ from \in Keys /\ from.start = source /\ from.sub = s /\ bucket[from] \in Buckets
          /\ bucket[from].end + CarryFor \in Nat
      BY <1>0, <2>0, <2>4 DEF Base, Buckets
    <3>1. Carry(bucket[from]) \in Nat
      BY <3>0, CarryIs
    <3>2. /\ bucket'[i] \in Buckets /\ bucket'[i].status \in {st, "expired"}
          /\ bucket'[i].granted = Carry(bucket[from])
      BY <2>1, <2>4, <3>0, <3>1
    <3>3. i \in Keys /\ i.sub = s /\ i.start = start /\ i.src = source /\ Base(i.sub, i.src)' = from
      BY <2>4, <3>0 DEF CarryOf, Keys, Base
    <3>4. /\ from \in DOMAIN bucket' /\ bucket'[from] = Retired(bucket[from])
          /\ bucket'[from].status \notin InUse /\ bucket'[from].granted = bucket[from].granted
          /\ bucket'[from].consumed = bucket[from].consumed
          /\ bucket'[from].reserved = bucket[from].reserved
      BY <1>2, <2>4, <3>0, RetiredIs
    <3>5. bucket[from].consumed + bucket[from].reserved + Carry(bucket[from]) <= bucket[from].granted
      BY <2>4, <3>0, CarryIs
    <3>6. CarriedFrom(i)'
      BY <3>2, <3>3, <3>4, <3>5 DEF CarriedFrom
    <3> QED BY <2>2, <3>2, <3>3, <3>6
  <2> QED BY <1>2, <2>3, <2>4
<1>9. TypeOK'
  BY <1>0, <1>3, <1>5, <1>8, TypesNext DEF Tame
<1>10. \A i \in DOMAIN bucket: CarriedFrom(i)'
  BY <1>2, <1>3, CarriedStays
<1> QED BY <1>6, <1>7, <1>8, <1>9, <1>10 DEF SubInv

-----------------------------------------------------------------------------
(* One step per operation.                                                 *)

\* The period that contains t begins when the last one ended, or later.
LEMMA PeriodStart ==
  ASSUME NEW e \in Nat, NEW t \in Nat, e <= t
  PROVE  /\ e + Period * ((t - e) \div Period) \in Nat
         /\ e + Period * ((t - e) \div Period) >= e
<1>1. Period \in Nat /\ Period > 0
  BY PlanAssumption
<1>2. t - e \in Nat
  OBVIOUS
<1>3. (t - e) \div Period \in Nat
  BY <1>1, <1>2
<1>4. \A k \in Nat: Period * k \in Nat
  BY <1>1
<1> QED BY <1>3, <1>4

LEMMA RefreshedStep ==
  ASSUME SubInv, NEW s \in Subs, NEW t \in Nat, Refreshed(s, t), UNCHANGED <<now, enabled>>
  PROVE  SubInv'
<1> DEFINE start == sub[s].end + Period * ((t - sub[s].end) \div Period)
<1>0. /\ sub \in [Subs -> Subscriptions] /\ sub[s].status \in InUse /\ sub[s].end <= t
      /\ sub[s].start \in Nat /\ sub[s].end \in Nat /\ sub[s].auto \in BOOLEAN
      /\ Period \in Nat \ {0}
  BY Types, PlanAssumption DEF SubInv, Refreshed, Subscriptions
<1>1. sub[s].start < sub[s].end
  BY <1>0 DEF SubInv, InUse
<1>2. start \in Nat /\ start >= sub[s].end
  BY <1>0, PeriodStart
<1>3. /\ sub' = [sub EXCEPT ![s].start = start, ![s].end = start + Period]
      /\ bucket' = Issue(s, start, start + Period, sub[s].status, sub[s].start, t)
  BY DEF Refreshed
<1> HIDE DEF start
<1>4. /\ sub' \in [Subs -> Subscriptions] /\ sub'[s].status = sub[s].status
      /\ sub'[s].start = start /\ sub'[s].end = start + Period
      /\ \A x \in Subs: x # s => sub'[x] = sub[x]
  BY <1>0, <1>2, <1>3 DEF Subscriptions
<1>5. start + Period \in Nat /\ start < start + Period /\ sub[s].start < start
  BY <1>0, <1>1, <1>2
<1>6. sub[s].status = "active" \/ sub[s].status = "paused"
  BY <1>0 DEF InUse
<1> QED BY <1>0, <1>2, <1>3, <1>4, <1>5, <1>6, PeriodChange

LEMMA RestartStep ==
  ASSUME SubInv, NEW s \in Subs, NEW t \in Nat, NEW source, Restart(s, t, source),
         UNCHANGED <<now, enabled>>,
         \/ source = sub[s].start /\ sub[s].end <= t /\ sub[s].status = "paused"
         \/ source = NoSource /\ sub[s].status = "expired"
  PROVE  SubInv'
<1>0. /\ sub \in [Subs -> Subscriptions] /\ sub[s].start \in Nat /\ sub[s].end \in Nat
      /\ sub[s].auto \in BOOLEAN /\ Period \in Nat \ {0}
  BY Types, PlanAssumption DEF SubInv, Subscriptions
<1>1. sub[s].start < sub[s].end
  BY DEF SubInv
<1>2. /\ sub' = [sub EXCEPT ![s].status = "active", ![s].start = t, ![s].end = t + Period]
      /\ bucket' = Issue(s, t, t + Period, "active", source, t)
  BY DEF Restart
<1>3. /\ t + Period \in Nat /\ t < t + Period /\ source \in Nat \cup {NoSource}
      /\ source = sub[s].start /\ sub[s].end <= t => source < t
  BY <1>0, <1>1
<1>4. "active" \in InUse
  BY DEF InUse
<1>5. /\ sub' \in [Subs -> Subscriptions] /\ sub'[s].status = "active"
      /\ sub'[s].start = t /\ sub'[s].end = t + Period
      /\ \A x \in Subs: x # s => sub'[x] = sub[x]
  BY <1>0, <1>2, <1>3 DEF Subscriptions, InUse
<1> QED BY <1>0, <1>2, <1>3, <1>4, <1>5, PeriodChange

\* An UPDATE of some rows of one subscription
LEMMA SomeRows ==
  ASSUME SubInv, NEW s \in Subs, NEW R \in SUBSET Of(s), NEW f,
         DOMAIN f = R, bucket' = OrElse(f, bucket)
  PROVE  /\ DOMAIN bucket' = DOMAIN bucket
         /\ \A i \in DOMAIN bucket: bucket'[i] = IF i \in R THEN f[i] ELSE bucket[i]
         /\ \A i \in DOMAIN bucket: i.sub # s => i \notin R
<1>1. R \subseteq DOMAIN bucket
  BY DEF Of
<1> QED BY <1>1 DEF OrElse, Of

LEMMA ExpiredStep ==
  ASSUME SubInv, NEW s \in Subs, Expired(s), sub[s].status # "none", UNCHANGED <<now, enabled>>
  PROVE  SubInv'
<1> DEFINE R == Rows(s, InUse)
           f == [i \in R |-> Retired(bucket[i])]
<1>0. /\ sub \in [Subs -> Subscriptions] /\ now \in 0..MaxTime /\ enabled \in BOOLEAN
      /\ \A i \in DOMAIN bucket: i.sub \in Subs /\ bucket[i] \in Buckets
  BY Types DEF SubInv, Keys
<1>1. /\ DOMAIN bucket' = DOMAIN bucket
      /\ \A i \in DOMAIN bucket: bucket'[i] = IF i \in R THEN Retired(bucket[i]) ELSE bucket[i]
      /\ \A i \in DOMAIN bucket: i.sub # s => i \notin R
  <2>1. R \in SUBSET Of(s) /\ DOMAIN f = R /\ bucket' = OrElse(f, bucket)
    BY DEF Expired, Rows
  <2>2. \A i \in R: f[i] = Retired(bucket[i])
    OBVIOUS
  <2> HIDE DEF R, f
  <2>3. /\ DOMAIN bucket' = DOMAIN bucket
        /\ \A i \in DOMAIN bucket: bucket'[i] = IF i \in R THEN f[i] ELSE bucket[i]
        /\ \A i \in DOMAIN bucket: i.sub # s => i \notin R
    BY <2>1, SomeRows
  <2> QED BY <2>2, <2>3
<1>2. sub' = [sub EXCEPT ![s].status = "expired", ![s].auto = FALSE]
  BY DEF Expired
<1>3. /\ sub' \in [Subs -> Subscriptions]
      /\ \A x \in Subs: /\ sub'[x].start = sub[x].start /\ sub'[x].end = sub[x].end
                        /\ sub'[x].status # "none" => sub[x].status # "none"
                        /\ x # s => sub'[x] = sub[x]
  BY <1>0, <1>2 DEF Subscriptions
<1>4. ASSUME NEW i \in DOMAIN bucket
      PROVE  /\ Tame(bucket[i], bucket'[i])
             /\ bucket'[i].status = "active" => sub'[i.sub].status \in {"active", "cancel_pending"}
             /\ bucket'[i].status = "paused" => sub'[i.sub].status = "paused" \/ LeftPaused(i)'
  <2>1. Tame(bucket[i], bucket'[i])
    BY <1>1, TameRows
  <2>2. CASE i.sub = s
    <3>1. bucket'[i].status \notin InUse
      BY <1>0, <1>1, <2>2, RetiredIs DEF Rows, Of
    <3> QED BY <2>1, <3>1 DEF InUse
  <2>3. CASE i.sub # s
    BY <1>0, <1>1, <1>3, <2>1, <2>3 DEF SubInv, Follows, LeftPaused
  <2> QED BY <2>2, <2>3
<1> QED BY <1>0, <1>1, <1>3, <1>4, RowsChange

\* Rows that are used again, or retired
LEMMA UnpausedIs ==
  ASSUME SubInv, NEW i \in DOMAIN bucket, bucket[i].status = "paused", NEW t
  PROVE  /\ Tame(bucket[i], Unpaused(bucket[i], t))
         /\ Unpaused(bucket[i], t).status # "paused"
<1>1. bucket[i] \in Buckets
  BY Types DEF SubInv
<1>2. CASE bucket[i].expires > t
  <2>1. Unpaused(bucket[i], t) = [bucket[i] EXCEPT !.status = "active"]
    BY <1>2 DEF Unpaused
  <2> QED BY <1>1, <2>1 DEF Tame, Buckets, InUse
<1>3. CASE ~(bucket[i].expires > t)
  BY <1>1, <1>3, TameRows, RetiredIs DEF Unpaused, InUse
<1> QED BY <1>2, <1>3

\* A subscription that leaves its pause, resumed or cancelled
UsedAgain(s, t) == [i \in Rows(s, {"paused"}) |-> Unpaused(bucket[i], t)]

LEMMA UsedAgainRows ==
  ASSUME SubInv, NEW s \in Subs, NEW t, bucket' = OrElse(UsedAgain(s, t), bucket)
  PROVE  LET R == Rows(s, {"paused"})
         IN /\ DOMAIN bucket' = DOMAIN bucket
            /\ \A i \in DOMAIN bucket: bucket'[i] = IF i \in R THEN Unpaused(bucket[i], t) ELSE bucket[i]
            /\ \A i \in DOMAIN bucket: i.sub # s => i \notin R
<1> DEFINE R == Rows(s, {"paused"})
           f == UsedAgain(s, t)
<1>1. R \in SUBSET Of(s) /\ DOMAIN f = R /\ bucket' = OrElse(f, bucket)
  BY DEF Rows, UsedAgain
<1>2. \A i \in R: f[i] = Unpaused(bucket[i], t)
  BY DEF UsedAgain
<1> HIDE DEF R, f
<1>3. /\ DOMAIN bucket' = DOMAIN bucket
      /\ \A i \in DOMAIN bucket: bucket'[i] = IF i \in R THEN f[i] ELSE bucket[i]
      /\ \A i \in DOMAIN bucket: i.sub # s => i \notin R
  BY <1>1, SomeRows
<1>4. /\ DOMAIN bucket' = DOMAIN bucket
      /\ \A i \in DOMAIN bucket: bucket'[i] = IF i \in R THEN Unpaused(bucket[i], t) ELSE bucket[i]
      /\ \A i \in DOMAIN bucket: i.sub # s => i \notin R
  BY <1>2, <1>3
<1> QED BY <1>4 DEF R

LEMMA UnpauseStep ==
  ASSUME SubInv, NEW s \in Subs, NEW t, sub[s].status = "paused", UNCHANGED <<now, enabled>>,
         sub' \in [Subs -> Subscriptions], sub'[s].status \in {"active", "cancel_pending"},
         \A x \in Subs: /\ sub'[x].start = sub[x].start /\ sub'[x].end = sub[x].end
                        /\ x # s => sub'[x] = sub[x],
         bucket' = OrElse(UsedAgain(s, t), bucket)
  PROVE  SubInv'
<1> DEFINE R == Rows(s, {"paused"})
<1>0. /\ now \in 0..MaxTime /\ enabled \in BOOLEAN /\ \A i \in DOMAIN bucket: i.sub \in Subs
  BY Types DEF SubInv, Keys
<1>1. /\ DOMAIN bucket' = DOMAIN bucket
      /\ \A i \in DOMAIN bucket: bucket'[i] = IF i \in R THEN Unpaused(bucket[i], t) ELSE bucket[i]
      /\ \A i \in DOMAIN bucket: i.sub # s => i \notin R
  BY UsedAgainRows
<1>2. ASSUME NEW i \in DOMAIN bucket
      PROVE  /\ Tame(bucket[i], bucket'[i])
             /\ bucket'[i].status = "active" => sub'[i.sub].status \in {"active", "cancel_pending"}
             /\ bucket'[i].status = "paused" => sub'[i.sub].status = "paused" \/ LeftPaused(i)'
  <2>1. i \in R => bucket[i].status = "paused"
    BY DEF Rows
  <2>2. Tame(bucket[i], bucket'[i])
    BY <1>1, <2>1, TameRows, UnpausedIs
  <2>3. CASE i.sub = s
    <3>1. bucket'[i].status # "paused"
      BY <1>1, <2>1, <2>3, UnpausedIs DEF Rows, Of
    <3> QED BY <2>2, <2>3, <3>1
  <2>4. CASE i.sub # s
    BY <1>0, <1>1, <2>2, <2>4 DEF SubInv, Follows, LeftPaused
  <2> QED BY <2>3, <2>4
<1> QED BY <1>0, <1>1, <1>2, RowsChange

LEMMA PauseStep ==
  ASSUME SubInv, NEW s \in Subs, Pause(s)
  PROVE  SubInv'
<1> DEFINE R == Rows(s, InUse)
           f == [i \in R |-> [bucket[i] EXCEPT !.status = "paused"]]
<1>0. /\ sub \in [Subs -> Subscriptions] /\ now \in 0..MaxTime /\ enabled \in BOOLEAN
      /\ \A i \in DOMAIN bucket: i.sub \in Subs /\ bucket[i] \in Buckets
  BY Types DEF SubInv, Keys
<1>1. /\ DOMAIN bucket' = DOMAIN bucket
      /\ \A i \in DOMAIN bucket:
           bucket'[i] = IF i \in R THEN [bucket[i] EXCEPT !.status = "paused"] ELSE bucket[i]
      /\ \A i \in DOMAIN bucket: i.sub # s => i \notin R
  <2>1. R \in SUBSET Of(s) /\ DOMAIN f = R /\ bucket' = OrElse(f, bucket)
    BY DEF Pause, Rows
  <2>2. \A i \in R: f[i] = [bucket[i] EXCEPT !.status = "paused"]
    OBVIOUS
  <2> HIDE DEF R, f
  <2>3. /\ DOMAIN bucket' = DOMAIN bucket
        /\ \A i \in DOMAIN bucket: bucket'[i] = IF i \in R THEN f[i] ELSE bucket[i]
        /\ \A i \in DOMAIN bucket: i.sub # s => i \notin R
    BY <2>1, SomeRows
  <2> QED BY <2>2, <2>3
<1>2. sub' = [sub EXCEPT ![s].status = "paused"] /\ UNCHANGED <<now, enabled>>
      /\ sub[s].status = "active"
  BY DEF Pause
<1>3. /\ sub' \in [Subs -> Subscriptions] /\ sub'[s].status = "paused"
      /\ \A x \in Subs: /\ sub'[x].start = sub[x].start /\ sub'[x].end = sub[x].end
                        /\ sub'[x].status # "none" => sub[x].status # "none"
                        /\ x # s => sub'[x] = sub[x]
  BY <1>0, <1>2 DEF Subscriptions, InUse
<1>4. ASSUME NEW i \in DOMAIN bucket
      PROVE  /\ Tame(bucket[i], bucket'[i])
             /\ bucket'[i].status = "active" => sub'[i.sub].status \in {"active", "cancel_pending"}
             /\ bucket'[i].status = "paused" => sub'[i.sub].status = "paused" \/ LeftPaused(i)'
  <2>0. bucket[i] \in Buckets /\ i.sub \in Subs /\ Follows(i)
    BY <1>0 DEF SubInv
  <2>1. CASE i \in R
    <3>1. bucket'[i] = [bucket[i] EXCEPT !.status = "paused"] /\ bucket[i].status \in InUse
      BY <1>1, <2>1 DEF Rows
    <3>2. Tame(bucket[i], bucket'[i]) /\ bucket'[i].status = "paused"
      BY <2>0, <3>1 DEF Tame, Buckets, InUse
    <3>3. i.sub = s
      BY <1>1, <2>1
    <3> QED BY <1>3, <3>2, <3>3
  <2>2. CASE i \notin R
    <3>1. bucket'[i] = bucket[i] /\ Tame(bucket[i], bucket'[i])
      BY <1>1, <2>2, TameRows
    <3>2. i.sub = s => bucket'[i].status \notin InUse
      BY <3>1, <2>2 DEF Rows, Of
    <3> QED BY <1>3, <2>0, <3>1, <3>2 DEF Follows, LeftPaused, InUse
  <2> QED BY <2>1, <2>2
<1> QED BY <1>0, <1>1, <1>2, <1>3, <1>4, RowsChange

\* Holds, their ends and overages: rows in use spend, others only give back.
LEMMA SpendStep ==
  ASSUME SubInv, NEW i \in DOMAIN bucket, NEW taken \in {0, 1},
         Hold(i) \/ EndHold(i, taken) \/ Overage(i)
  PROVE  SubInv'
<1> DEFINE b == bucket[i]
<1>0. /\ sub \in [Subs -> Subscriptions] /\ now \in 0..MaxTime /\ enabled \in BOOLEAN
      /\ \A k \in DOMAIN bucket: k.sub \in Subs /\ bucket[k] \in Buckets
      /\ b \in Buckets /\ Follows(i)
  BY Types DEF SubInv, Keys
<1>1. /\ UNCHANGED <<now, enabled, sub>>
      /\ \E c: /\ bucket' = [bucket EXCEPT ![i] = c] /\ Tame(b, c)
               /\ c.status \in InUse => c.status = b.status
  <2>1. CASE Hold(i)
    <3> DEFINE c == [b EXCEPT !.reserved = @ + 1]
    <3>1. b.status = "active" /\ bucket' = [bucket EXCEPT ![i] = c] /\ UNCHANGED <<now, enabled, sub>>
      BY <1>0, <2>1 DEF Hold, Spendable
    <3>2. Tame(b, c) /\ c.status = b.status
      BY <1>0, <3>1 DEF Tame, Buckets, InUse
    <3> QED BY <3>1, <3>2
  <2>2. CASE Overage(i)
    <3> DEFINE c == [b EXCEPT !.consumed = @ + 1]
    <3>1. b.status = "active" /\ bucket' = [bucket EXCEPT ![i] = c] /\ UNCHANGED <<now, enabled, sub>>
      BY <1>0, <2>2 DEF Overage, Spendable
    <3>2. Tame(b, c) /\ c.status = b.status
      BY <1>0, <3>1 DEF Tame, Buckets, InUse
    <3> QED BY <3>1, <3>2
  <2>3. CASE EndHold(i, taken)
    <3> DEFINE d == [b EXCEPT !.reserved = @ - 1, !.consumed = @ + taken]
               c == IF d.status = "draining" THEN Retired(d) ELSE d
    <3>1. b.reserved > 0 /\ bucket' = [bucket EXCEPT ![i] = c] /\ UNCHANGED <<now, enabled, sub>>
      BY <2>3 DEF EndHold
    <3>2. /\ d \in Buckets /\ d.status = b.status /\ d.granted = b.granted
          /\ d.consumed + d.reserved <= b.consumed + b.reserved
      <4>1. b.reserved \in Nat /\ b.consumed \in Nat /\ b.reserved - 1 \in Nat
            /\ b.consumed + taken \in Nat
            /\ (b.consumed + taken) + (b.reserved - 1) <= b.consumed + b.reserved
        BY <1>0, <3>1 DEF Buckets
      <4> QED BY <1>0, <4>1 DEF Buckets
    <3>3. Tame(b, c) /\ (c.status \in InUse => c.status = b.status)
      <4> HIDE DEF d
      <4>1. CASE d.status = "draining"
        BY <3>2, <4>1, RetiredIs DEF Tame, InUse
      <4>2. CASE d.status # "draining"
        BY <3>2, <4>2 DEF Tame
      <4> QED BY <4>1, <4>2
    <3> HIDE DEF c
    <3> QED BY <3>1, <3>3
  <2> QED BY <2>1, <2>2, <2>3
<1>2. PICK c: /\ bucket' = [bucket EXCEPT ![i] = c] /\ Tame(b, c)
              /\ c.status \in InUse => c.status = b.status
  BY <1>1
<1>3. DOMAIN bucket' = DOMAIN bucket
  BY <1>2
<1>4. ASSUME NEW k \in DOMAIN bucket
      PROVE  /\ Tame(bucket[k], bucket'[k])
             /\ bucket'[k].status = "active" => sub'[k.sub].status \in {"active", "cancel_pending"}
             /\ bucket'[k].status = "paused" => sub'[k.sub].status = "paused" \/ LeftPaused(k)'
  <2>1. Follows(k) /\ sub' = sub
    BY <1>1 DEF SubInv
  <2>2. CASE k = i
    <3>1. bucket'[k] = c
      BY <1>2, <2>2
    <3> QED BY <1>2, <2>1, <2>2, <3>1 DEF Follows, LeftPaused, InUse
  <2>3. CASE k # i
    <3>1. bucket'[k] = bucket[k]
      BY <1>2, <2>3
    <3> QED BY <2>1, <3>1, TameRows DEF Follows, LeftPaused
  <2> QED BY <2>2, <2>3
<1>5. \A s \in Subs: /\ sub'[s].start = sub[s].start /\ sub'[s].end = sub[s].end
                     /\ sub'[s].status # "none" => sub[s].status # "none"
  BY <1>1
<1> HIDE DEF b
<1> QED BY <1>0, <1>1, <1>3, <1>4, <1>5, RowsChange

\* Operations that leave the buckets alone
LEMMA BucketsStay ==
  ASSUME SubInv, bucket' = bucket, now' \in 0..MaxTime, enabled' \in BOOLEAN,
         sub' \in [Subs -> Subscriptions],
         \A s \in Subs: /\ sub'[s].start = sub[s].start /\ sub'[s].end = sub[s].end
                        /\ \/ sub'[s].status = sub[s].status
                           \/ sub[s].status = "active" /\ sub'[s].status = "cancel_pending"
  PROVE  SubInv'
<1>1. ASSUME NEW i \in DOMAIN bucket
      PROVE  /\ Tame(bucket[i], bucket'[i])
             /\ bucket'[i].status = "active" => sub'[i.sub].status \in {"active", "cancel_pending"}
             /\ bucket'[i].status = "paused" => sub'[i.sub].status = "paused" \/ LeftPaused(i)'
  <2>1. Follows(i) /\ i.sub \in Subs
    BY Types DEF SubInv, Keys
  <2> QED BY <2>1, TameRows DEF Follows, LeftPaused
<1>2. \A s \in Subs: sub'[s].status # "none" => sub[s].status # "none"
  BY DEF InUse
<1> QED BY <1>1, <1>2, RowsChange

LEMMA SubInit == Init => SubInv
<1> SUFFICES ASSUME Init PROVE SubInv
  OBVIOUS
<1>1. DOMAIN bucket = {}
  BY DEF Init
<1>2. Unassigned \in Subscriptions
  BY DEF Unassigned, Subscriptions
<1>3. TypeOK
  BY <1>1, <1>2, Types, PlanAssumption DEF Init
<1>4. \A s \in Subs: sub[s].status = "none"
  BY DEF Init, Unassigned
<1> QED BY <1>1, <1>3, <1>4 DEF SubInv

LEMMA SubStep == SubInv /\ [Next]_vars => SubInv'
<1> SUFFICES ASSUME SubInv, [Next]_vars PROVE SubInv'
  OBVIOUS
<1>0. /\ sub \in [Subs -> Subscriptions] /\ now \in 0..MaxTime /\ enabled \in BOOLEAN
      /\ MaxTime \in Nat
  BY Types, PlanAssumption DEF SubInv
<1>c. \A t \in Clock: t \in Nat
  BY <1>0 DEF Clock
<1>1. ASSUME NEW s \in Subs, Assign(s) PROVE SubInv'
  <2>1. PICK t \in Clock, auto \in BOOLEAN:
          /\ sub' = [sub EXCEPT ![s] = [status |-> "active", auto |-> auto,
                                        start |-> t, end |-> t + Period]]
          /\ bucket' = Issue(s, t, t + Period, "active", NoSource, t)
    BY <1>1 DEF Assign
  <2>2. t \in Nat /\ t + Period \in Nat /\ t < t + Period /\ "active" \in InUse
    BY <1>c, PlanAssumption DEF InUse
  <2>3. [status |-> "active", auto |-> auto, start |-> t, end |-> t + Period] \in Subscriptions
    BY <2>2 DEF Subscriptions
  <2>4. /\ sub' \in [Subs -> Subscriptions] /\ sub'[s].status = "active"
        /\ sub'[s].start = t /\ sub'[s].end = t + Period
        /\ \A x \in Subs: x # s => sub'[x] = sub[x]
    BY <1>0, <2>1, <2>3
  <2>5. sub[s].status = "none" /\ UNCHANGED <<now, enabled>>
    BY <1>1 DEF Assign
  <2> QED BY <2>1, <2>2, <2>4, <2>5, PeriodChange
<1>2. ASSUME NEW s \in Subs, Refresh(s) PROVE SubInv'
  BY <1>2, <1>c, RefreshedStep DEF Refresh
<1>3. ASSUME NEW s \in Subs, Due(s) PROVE SubInv'
  <2>1. sub[s].status # "none" /\ UNCHANGED <<now, enabled>>
    BY <1>3 DEF Due, DueSubs, InUse
  <2>2. CASE Renews(s)
    BY <1>3, <1>c, <2>1, <2>2, RefreshedStep DEF Due
  <2>3. CASE ~Renews(s)
    BY <1>3, <2>1, <2>3, ExpiredStep DEF Due
  <2> QED BY <2>2, <2>3
<1>4. ASSUME NEW s \in Subs, Pause(s) PROVE SubInv'
  BY <1>4, PauseStep
<1>5. ASSUME NEW s \in Subs, Resume(s) PROVE SubInv'
  <2>1. PICK t \in Clock:
          \/ /\ sub[s].end > t
             /\ sub' = [sub EXCEPT ![s].status = "active"]
             /\ bucket' = OrElse(UsedAgain(s, t), bucket)
          \/ sub[s].end <= t /\ Restart(s, t, sub[s].start)
    BY <1>5 DEF Resume, UsedAgain
  <2>2. sub[s].status = "paused" /\ UNCHANGED <<now, enabled>> /\ t \in Nat
    BY <1>5, <1>c DEF Resume
  <2>3. CASE sub' = [sub EXCEPT ![s].status = "active"] /\ bucket' = OrElse(UsedAgain(s, t), bucket)
    <3>1. /\ sub' \in [Subs -> Subscriptions] /\ sub'[s].status = "active"
          /\ \A x \in Subs: /\ sub'[x].start = sub[x].start /\ sub'[x].end = sub[x].end
                            /\ x # s => sub'[x] = sub[x]
      BY <1>0, <2>3 DEF Subscriptions, InUse
    <3> QED BY <2>2, <2>3, <3>1, UnpauseStep
  <2>4. CASE sub[s].end <= t /\ Restart(s, t, sub[s].start)
    BY <2>2, <2>4, RestartStep
  <2> QED BY <2>1, <2>3, <2>4
<1>6. ASSUME NEW s \in Subs, Renew(s) PROVE SubInv'
  BY <1>6, <1>c, RestartStep DEF Renew
<1>7. ASSUME NEW s \in Subs, Cancel(s) PROVE SubInv'
  <2>1. /\ sub' = [sub EXCEPT ![s].status = "cancel_pending", ![s].auto = FALSE]
        /\ UNCHANGED <<now, enabled>> /\ sub[s].status \in InUse
    BY <1>7 DEF Cancel
  <2>2. /\ sub' \in [Subs -> Subscriptions] /\ sub'[s].status = "cancel_pending"
        /\ \A x \in Subs: /\ sub'[x].start = sub[x].start /\ sub'[x].end = sub[x].end
                          /\ x # s => sub'[x] = sub[x]
    BY <1>0, <2>1 DEF Subscriptions
  <2>3. CASE sub[s].status = "paused"
    <3>1. PICK t \in Clock: bucket' = OrElse(UsedAgain(s, t), bucket)
      BY <1>7, <2>3 DEF Cancel, UsedAgain
    <3> QED BY <2>1, <2>2, <2>3, <3>1, UnpauseStep
  <2>4. CASE sub[s].status # "paused"
    <3>1. bucket' = bucket
      BY <1>7, <2>4 DEF Cancel
    <3>2. sub[s].status = "active"
      BY <2>1, <2>4 DEF InUse
    <3> QED BY <1>0, <2>1, <2>2, <3>1, <3>2, BucketsStay
  <2> QED BY <2>3, <2>4
<1>8. ASSUME NEW s \in Subs, SetAutoRenew(s) PROVE SubInv'
  <2>1. /\ sub' = [sub EXCEPT ![s].auto = ~@] /\ UNCHANGED <<now, enabled, bucket>>
    BY <1>8 DEF SetAutoRenew
  <2>2. (~sub[s].auto) \in BOOLEAN
    BY Zenon
  <2>3. /\ sub' \in [Subs -> Subscriptions]
        /\ \A x \in Subs: /\ sub'[x].start = sub[x].start /\ sub'[x].end = sub[x].end
                          /\ sub'[x].status = sub[x].status
    BY <1>0, <2>1, <2>2 DEF Subscriptions
  <2> QED BY <1>0, <2>1, <2>3, BucketsStay
<1>9. ASSUME NEW i \in DOMAIN bucket, Hold(i) \/ EndHold(i, 0) \/ EndHold(i, 1) \/ Overage(i)
      PROVE  SubInv'
  BY <1>9, SpendStep
<1>10. CASE SwitchPlan \/ Tick \/ UNCHANGED vars
  <2>1. now' \in 0..MaxTime /\ enabled' \in BOOLEAN /\ UNCHANGED <<sub, bucket>>
    <3>1. CASE SwitchPlan
      <4>1. (~enabled) \in BOOLEAN
        BY Zenon
      <4> QED BY <1>0, <3>1, <4>1 DEF SwitchPlan
    <3>2. CASE Tick
      BY <1>0, <3>2 DEF Tick
    <3>3. CASE UNCHANGED vars
      BY <1>0, <3>3 DEF vars
    <3> QED BY <1>10, <3>1, <3>2, <3>3
  <2> QED BY <1>0, <2>1, BucketsStay
<1> QED BY <1>1, <1>2, <1>3, <1>4, <1>5, <1>6, <1>7, <1>8, <1>9, <1>10 DEF Next

-----------------------------------------------------------------------------
(***************************************************************************)
(* The invariant holds.                                                    *)
(***************************************************************************)
THEOREM SubscriptionsHold == Spec => []SubInv
  BY SubInit, SubStep, PTL DEF Spec

(***************************************************************************)
(* Whatever renewals, resumptions and late captures do, allowance that was *)
(* carried over is not spent a second time where it came from              *)
(* (issue_period_buckets, wiring_postgres_billing.rs).                     *)
(***************************************************************************)
THEOREM AllowanceCarriedOnce == Spec => []CarriedOnce
<1>1. SubInv => CarriedOnce
  BY DEF SubInv, CarriedFrom, CarriedOnce
<1> QED BY <1>1, SubscriptionsHold, PTL

(***************************************************************************)
(* Only one period's own bucket is in use; a subscription that is paused   *)
(* or over has no active bucket, and one that is not paused has no paused  *)
(* one, but for the carried-over buckets of earlier periods that           *)
(* reactivate_subscription leaves behind (LeftPaused).                     *)
(***************************************************************************)
THEOREM BucketsFollowSubscriptions == Spec => []BucketsFollow
<1>1. SubInv => BucketsFollow
  <2> SUFFICES ASSUME SubInv PROVE BucketsFollow
    OBVIOUS
  <2>1. ASSUME NEW s \in Subs
        PROVE  Cardinality({i \in Of(s): i.src = NoSource /\ bucket[i].status \in InUse}) <= 1
    <3> DEFINE S == {i \in Of(s): i.src = NoSource /\ bucket[i].status \in InUse}
    <3>1. ASSUME NEW i \in S PROVE i = Base(s, sub[s].start)
      <4>1. i \in Keys /\ i.sub = s /\ i.src = NoSource /\ i.start = sub[s].start
        BY Types DEF SubInv, Of, Follows
      <4> QED BY <4>1 DEF Keys, Base
    <3>2. S = {} \/ S = {Base(s, sub[s].start)}
      BY <3>1
    <3> HIDE DEF S
    <3>3. Cardinality(S) = 0 \/ Cardinality(S) = 1
      BY <3>2, FS_EmptySet, FS_Singleton
    <3>4. Cardinality(S) <= 1
      BY <3>3
    <3> QED BY <3>4 DEF S
  <2>2. ASSUME NEW i \in DOMAIN bucket
        PROVE  /\ bucket[i].status = "active" => sub[i.sub].status \in {"active", "cancel_pending"}
               /\ bucket[i].status = "paused" => sub[i.sub].status = "paused" \/ LeftPaused(i)
               /\ bucket[i].status = "draining" => bucket[i].reserved > 0
    BY DEF SubInv, Follows
  <2> QED BY <2>1, <2>2 DEF BucketsFollow
<1> QED BY <1>1, SubscriptionsHold, PTL
=============================================================================
