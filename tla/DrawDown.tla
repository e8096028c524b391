------------------------------ MODULE DrawDown ------------------------------
(***************************************************************************)
(* How an amount is taken from funding sources that are tried in order.    *)
(* The code has three loops of this kind: reserve_request over the         *)
(* eligible buckets, and settle_persisted_allocations over the held rows   *)
(* and over the buckets that pay for an overage.                           *)
(***************************************************************************)
EXTENDS Sums, Integers

\* i64::min, and saturating_sub followed by max(0).
Least(a, b) == IF a <= b THEN a ELSE b
Monus(a, b) == IF a >= b THEN a - b ELSE 0

\* What the loop computes: nobody gives more than it has, as much of amount as
\* possible is found, and a source is only touched when all the earlier ones
\* are exhausted.  Exactly one take satisfies this (DrawDownLoop).
DrawDowns(Src, avail, amount) ==
  {take \in [Src -> 0..amount] :
     /\ \A b \in Src : take[b] <= avail[b]
     /\ Sum(take) = Least(amount, Sum(avail))
     /\ \A b, c \in Src : b < c /\ take[c] > 0 => take[b] = avail[b]}
=============================================================================
