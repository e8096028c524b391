------------------------- MODULE ProjectWalletProofs -------------------------
(***************************************************************************)
(* Proofs about ProjectWallet, for any set of requests, buckets, grants    *)
(* and amounts.                                                            *)
(*                                                                         *)
(* Books(al, bk, rs, cr) says that the allocation rows al, the bucket rows *)
(* bk, the reservation rows rs and the snapshot cr agree.  Each lemma      *)
(* shows that one kind of change keeps the books; the lemmas on actions    *)
(* combine them.                                                           *)
(***************************************************************************)
EXTENDS ProjectWallet, SumLemmas

CreditColumn(al, rs) ==
  [r \in Requests |-> IF rs[r].status \in Open THEN al[r][Credit].reserved ELSE 0]
HoldColumn(al, b) == [r \in Requests |-> Outstanding(al[r][b])]

Books(al, bk, rs, cr) ==
  /\ al \in [Requests -> [Sources -> Row]]
  /\ bk \in [Buckets -> BucketRow]
  /\ rs \in [Requests -> ReservationRow]
  /\ cr \in Nat
  /\ cr = Sum(CreditColumn(al, rs))
  /\ \A b \in Buckets : /\ bk[b].reserved = Sum(HoldColumn(al, b))
                        /\ bk[b].consumed + bk[b].reserved <= Granted[b]
                        /\ bk[b].status = "draining" => bk[b].reserved > 0
  /\ \A r \in Requests : \A s \in Sources : RowFollows(rs[r].status, al[r][s])

-----------------------------------------------------------------------------
(***************************************************************************)
(* What an allocation row holds: all it reserved while it is open, nothing *)
(* once it is settled.                                                     *)
(***************************************************************************)
LEMMA OutstandingFacts ==
  ASSUME NEW row \in Row
  PROVE  /\ Outstanding(row) \in Nat
         /\ Outstanding(row) <= row.reserved
         /\ row.captured = 0 /\ row.released = 0 => Outstanding(row) = row.reserved
         /\ row.reserved = row.captured + row.released => Outstanding(row) = 0
BY DEF Row, Outstanding, Monus

(***************************************************************************)
(* The same, by the reservation's status.                                  *)
(***************************************************************************)
LEMMA OutstandingByStatus ==
  ASSUME NEW row \in Row, NEW st \in Statuses, RowFollows(st, row)
  PROVE  /\ st = "reserved" => Outstanding(row) = row.reserved
         /\ st # "reserved" => Outstanding(row) = 0
         /\ st \in Unfunded => row.reserved = 0
<1>1. st # "reserved" => st \in Closed \cup Unfunded
  BY DEF Statuses, Open, Closed, Unfunded
<1>2. NoRow.reserved = 0 /\ NoRow.captured = 0 /\ NoRow.released = 0
  BY DEF NoRow
<1>3. st \in Unfunded => row = NoRow
  BY DEF RowFollows
<1>4. st \in Closed => row.reserved = row.captured + row.released
  BY DEF RowFollows
<1>5. st = "reserved" => row.captured = 0 /\ row.released = 0
  BY DEF RowFollows
<1> QED
  BY <1>1, <1>2, <1>3, <1>4, <1>5, OutstandingFacts

(***************************************************************************)
(* A released row holds nothing and stays accounted for.                   *)
(***************************************************************************)
LEMMA ReleasedRowFacts ==
  ASSUME NEW row \in Row, NEW st \in Open, RowFollows(st, row)
  PROVE  /\ ReleasedRow(row) \in Row
         /\ ReleasedRow(row).reserved = ReleasedRow(row).captured + ReleasedRow(row).released
         /\ Outstanding(ReleasedRow(row)) = 0
<1>1. ReleasedRow(row) = [reserved |-> row.reserved, captured |-> row.captured,
                          released |-> row.released + Outstanding(row)]
  BY DEF ReleasedRow, Row
<1>2. ReleasedRow(row) \in Row
  BY <1>1, OutstandingFacts DEF Row
<1>3. row.reserved = row.captured + row.released + Outstanding(row)
  <2>1. CASE st = "reserved"
    BY <2>1, OutstandingFacts DEF RowFollows, Row
  <2>2. CASE st = "shadow_reserved"
    <3>1. row = NoRow
      BY <2>2 DEF RowFollows, Unfunded
    <3>2. row.reserved = 0 /\ row.captured = 0 /\ row.released = 0
      BY <3>1 DEF NoRow
    <3> QED
      BY <3>2, OutstandingFacts
  <2> QED
    BY <2>1, <2>2 DEF Open
<1>4. ReleasedRow(row).reserved = ReleasedRow(row).captured + ReleasedRow(row).released
  BY <1>1, <1>3, OutstandingFacts DEF Row
<1> QED
  BY <1>2, <1>4, OutstandingFacts

(***************************************************************************)
(* The columns are columns of naturals.                                    *)
(***************************************************************************)
LEMMA ColumnTypes ==
  ASSUME NEW al \in [Requests -> [Sources -> Row]], NEW rs \in [Requests -> ReservationRow]
  PROVE  /\ CreditColumn(al, rs) \in [Requests -> Nat]
         /\ \A b \in Buckets : HoldColumn(al, b) \in [Requests -> Nat]
         /\ Sum(CreditColumn(al, rs)) \in Nat
         /\ \A b \in Buckets : Sum(HoldColumn(al, b)) \in Nat
<1>1. \A r \in Requests : \A s \in Sources :
        /\ al[r][s] \in Row
        /\ al[r][s].reserved \in Nat
        /\ Outstanding(al[r][s]) \in Nat
  BY OutstandingFacts DEF Row
<1>2. Credit \in Sources /\ Buckets \subseteq Sources
  BY DEF Sources
<1>3. CreditColumn(al, rs) \in [Requests -> Nat]
  BY <1>1, <1>2 DEF CreditColumn
<1>4. \A b \in Buckets : HoldColumn(al, b) \in [Requests -> Nat]
  BY <1>1, <1>2 DEF HoldColumn
<1> QED
  BY <1>3, <1>4, SumType, RequestsFinite

(***************************************************************************)
(* A bucket row after some of its holds went away.                         *)
(***************************************************************************)
LEMMA UnreserveFacts ==
  ASSUME NEW row \in BucketRow, NEW back \in Nat, NEW touched \in BOOLEAN
  PROVE  LET new == Unreserve(row, back, touched)
         IN  /\ new \in BucketRow
             /\ new.reserved = Monus(row.reserved, back)
             /\ new.consumed = row.consumed
             /\ new.status = IF touched /\ row.status = "draining" /\ new.reserved = 0
                             THEN "expired" ELSE row.status
<1> DEFINE left == Monus(row.reserved, back)
           st == IF touched /\ row.status = "draining" /\ left = 0
                 THEN "expired" ELSE row.status
<1>1. row.reserved \in Nat /\ row.consumed \in Nat
  BY DEF BucketRow
<1>2. left \in Nat
  BY <1>1 DEF Monus
<1>3. Unreserve(row, back, touched) = [reserved |-> left, consumed |-> row.consumed, status |-> st]
  BY DEF Unreserve
<1>4. st \in {"active", "paused", "draining", "expired"}
  BY DEF BucketRow
<1> HIDE DEF left
<1> QED
  BY <1>1, <1>2, <1>3, <1>4 DEF BucketRow, left

(***************************************************************************)
(* Closing open reservations without charging them keeps the books, and    *)
(* frees credit.                                                           *)
(***************************************************************************)
LEMMA CloseBooks ==
  ASSUME Books(alloc, bucket, reservation, creditReserved),
         NEW E \in SUBSET Requests, \A q \in E : reservation[q].status \in Open,
         NEW final \in {"released", "expired"}
  PROVE  /\ Books(AllocAfter(E), BucketAfter(E), ReservationAfter(E, final),
                  CreditReservedAfter(E))
         /\ CreditReservedAfter(E) <= creditReserved
         /\ \A b \in Buckets : BucketAfter(E)[b].consumed = bucket[b].consumed
<1> DEFINE al == AllocAfter(E)
           bk == BucketAfter(E)
           rs == ReservationAfter(E, final)
           cr == CreditReservedAfter(E)
<1>1. \A q \in Requests : \A s \in Sources :
        /\ alloc[q][s] \in Row
        /\ reservation[q].status \in Statuses
        /\ RowFollows(reservation[q].status, alloc[q][s])
  BY DEF Books, ReservationRow
<1>2. \A q \in E : \A s \in Sources :
        /\ al[q][s] = ReleasedRow(alloc[q][s])
        /\ al[q][s] \in Row
        /\ al[q][s].reserved = al[q][s].captured + al[q][s].released
        /\ Outstanding(al[q][s]) = 0
  <2> SUFFICES ASSUME NEW q \in E, NEW s \in Sources
               PROVE  /\ al[q][s] = ReleasedRow(alloc[q][s])
                      /\ al[q][s] \in Row
                      /\ al[q][s].reserved = al[q][s].captured + al[q][s].released
                      /\ Outstanding(al[q][s]) = 0
    BY Zenon
  <2>1. al[q][s] = ReleasedRow(alloc[q][s])
    BY DEF AllocAfter
  <2> QED
    BY <2>1, <1>1, ReleasedRowFacts
<1>3. \A q \in Requests \ E : al[q] = alloc[q]
  BY DEF AllocAfter
<1>4. al \in [Requests -> [Sources -> Row]]
  <2>1. \A q \in E : al[q] = [s \in Sources |-> ReleasedRow(alloc[q][s])]
    BY DEF AllocAfter
  <2>2. \A q \in E : al[q] \in [Sources -> Row]
    BY <2>1, <1>2
  <2>3. \A q \in Requests \ E : al[q] \in [Sources -> Row]
    BY <1>3 DEF Books
  <2> QED
    BY <2>2, <2>3 DEF AllocAfter
<1>5. /\ rs \in [Requests -> ReservationRow]
      /\ \A q \in E : rs[q].status = final
      /\ \A q \in Requests \ E : rs[q] = reservation[q]
  <2>1. final \in Statuses
    BY DEF Statuses, Closed
  <2>2. \A q \in E : rs[q] = [status |-> final, amount |-> reservation[q].amount,
                              expires |-> reservation[q].expires]
    BY DEF ReservationAfter, Books, ReservationRow
  <2>3. \A q \in E : rs[q] \in ReservationRow
    <3> TAKE q \in E
    <3>1. reservation[q].amount \in Nat /\ reservation[q].expires \in Nat
      BY DEF Books, ReservationRow
    <3> DEFINE a == reservation[q].amount
               x == reservation[q].expires
    <3>2. rs[q] = [status |-> final, amount |-> a, expires |-> x]
      BY <2>2
    <3> HIDE DEF rs, a, x
    <3> QED
      BY <2>1, <3>1, <3>2 DEF ReservationRow, a, x
  <2>4. \A q \in Requests \ E : rs[q] = reservation[q]
    BY DEF ReservationAfter
  <2> QED
    BY <2>2, <2>3, <2>4 DEF ReservationAfter, Books
<1>6. cr \in Nat /\ cr = Sum(CreditColumn(al, rs)) /\ cr <= creditReserved
  <2> DEFINE f == CreditColumn(alloc, reservation)
             g == CreditColumn(al, rs)
             h == [q \in Requests |-> IF q \in E THEN alloc[q][Credit].reserved ELSE 0]
  <2>1. f \in [Requests -> Nat] /\ g \in [Requests -> Nat] /\ Sum(f) \in Nat /\ Sum(g) \in Nat
    BY <1>4, <1>5, ColumnTypes DEF Books
  <2>2. Credit \in Sources
    BY DEF Sources
  <2>3. h \in [Requests -> Nat]
    BY <1>1, <2>2 DEF Row
  <2>4. \A q \in Requests : f[q] = g[q] + h[q]
    <3>1. ASSUME NEW q \in E
          PROVE  f[q] = g[q] + h[q]
      <4>1. f[q] = alloc[q][Credit].reserved /\ h[q] = alloc[q][Credit].reserved
        BY DEF CreditColumn
      <4>2. g[q] = 0
        BY <1>5 DEF CreditColumn, Open
      <4> QED
        BY <4>1, <4>2, <2>1
    <3>2. ASSUME NEW q \in Requests \ E
          PROVE  f[q] = g[q] + h[q]
      BY <1>3, <1>5, <2>1 DEF CreditColumn
    <3> QED
      BY <3>1, <3>2
  <2>5. creditReserved = Sum(f) /\ cr = creditReserved - Sum(h)
    BY DEF Books, CreditReservedAfter
  <2> HIDE DEF f, g, h, cr
  <2>6. Sum(f) = Sum(g) + Sum(h) /\ Sum(h) \in Nat
    BY <2>1, <2>3, <2>4, SumAdd, RequestsFinite
  <2> QED
    BY <2>1, <2>5, <2>6 DEF g
<1>7. ASSUME NEW b \in Buckets
      PROVE  /\ bk[b] \in BucketRow
             /\ bk[b].consumed = bucket[b].consumed
             /\ bk[b].reserved = Sum(HoldColumn(al, b))
             /\ bk[b].consumed + bk[b].reserved <= Granted[b]
             /\ bk[b].status = "draining" => bk[b].reserved > 0
  <2> DEFINE f == HoldColumn(alloc, b)
             g == HoldColumn(al, b)
             h == [q \in Requests |-> IF q \in E THEN Outstanding(alloc[q][b]) ELSE 0]
             touched == \E q \in E : alloc[q][b].reserved > 0
  <2>1. f \in [Requests -> Nat] /\ g \in [Requests -> Nat] /\ Sum(f) \in Nat /\ Sum(g) \in Nat
    BY <1>4, <1>5, ColumnTypes DEF Books
  <2>2. b \in Sources
    BY DEF Sources
  <2>3. h \in [Requests -> Nat]
    BY <1>1, <2>2, OutstandingFacts
  <2>4. \A q \in Requests : f[q] = g[q] + h[q]
    <3>1. ASSUME NEW q \in E
          PROVE  f[q] = g[q] + h[q]
      BY <1>2, <2>1, <2>2 DEF HoldColumn
    <3>2. ASSUME NEW q \in Requests \ E
          PROVE  f[q] = g[q] + h[q]
      BY <1>3, <2>1 DEF HoldColumn
    <3> QED
      BY <3>1, <3>2
  <2>5. bucket[b] \in BucketRow /\ bucket[b].reserved = Sum(f)
    BY DEF Books
  <2>6. bk[b] = Unreserve(bucket[b], Sum(h), touched)
    BY DEF BucketAfter
  <2>7. ~touched => Sum(h) = 0
    <3>1. ASSUME ~touched, NEW q \in Requests
          PROVE  h[q] = 0
      <4>1. CASE q \in E
        <5>1. alloc[q][b] \in Row /\ ~(alloc[q][b].reserved > 0)
          BY <1>1, <2>2, <3>1, <4>1
        <5>2. Outstanding(alloc[q][b]) = 0
          BY <5>1, OutstandingFacts DEF Row
        <5> QED
          BY <4>1, <5>2
      <4>2. CASE q \notin E
        BY <4>2
      <4> QED
        BY <4>1, <4>2
    <3> HIDE DEF h
    <3> QED
      BY <3>1, <2>3, SumZero
  <2>8. touched \in BOOLEAN
    BY Zenon
  <2> HIDE DEF f, g, h, touched
  <2>9. Sum(f) = Sum(g) + Sum(h) /\ Sum(h) \in Nat
    BY <2>1, <2>3, <2>4, SumAdd, RequestsFinite
  <2>10. /\ bk[b] \in BucketRow
         /\ bk[b].reserved = Monus(bucket[b].reserved, Sum(h))
         /\ bk[b].consumed = bucket[b].consumed
         /\ bk[b].status = IF touched /\ bucket[b].status = "draining" /\ bk[b].reserved = 0
                           THEN "expired" ELSE bucket[b].status
    BY <2>5, <2>6, <2>8, <2>9, UnreserveFacts
  <2>11. bk[b].reserved = Sum(g)
    BY <2>1, <2>5, <2>9, <2>10 DEF Monus
  <2>12. bk[b].consumed + bk[b].reserved <= Granted[b]
    <3>1. bucket[b].consumed + bucket[b].reserved <= Granted[b]
      BY DEF Books
    <3> QED
      BY <3>1, <2>1, <2>5, <2>9, <2>10, <2>11, GrantedType DEF BucketRow
  <2>13. bk[b].status = "draining" => bk[b].reserved > 0
    <3>1. bucket[b].status = "draining" => bucket[b].reserved > 0
      BY DEF Books
    <3>2. CASE touched
      BY <3>2, <2>10 DEF BucketRow
    <3>3. CASE ~touched
      BY <3>1, <3>3, <2>1, <2>5, <2>7, <2>9, <2>10, <2>11
    <3> QED
      BY <3>2, <3>3
  <2> QED
    BY <2>10, <2>11, <2>12, <2>13 DEF g
<1>8. bk \in [Buckets -> BucketRow]
  BY <1>7 DEF BucketAfter
<1>9. \A q \in Requests : \A s \in Sources : RowFollows(rs[q].status, al[q][s])
  <2>1. ASSUME NEW q \in E, NEW s \in Sources
        PROVE  RowFollows(rs[q].status, al[q][s])
    BY <1>2, <1>5 DEF RowFollows, Unfunded
  <2>2. ASSUME NEW q \in Requests \ E, NEW s \in Sources
        PROVE  RowFollows(rs[q].status, al[q][s])
    BY <1>1, <1>3, <1>5
  <2> QED
    BY <2>1, <2>2
<1> HIDE DEF al, bk, rs, cr
<1>10. Books(al, bk, rs, cr)
  BY <1>4, <1>5, <1>6, <1>7, <1>8, <1>9 DEF Books
<1> QED
  BY <1>6, <1>7, <1>10 DEF al, bk, rs, cr

-----------------------------------------------------------------------------
(***************************************************************************)
(* A bucket row from which more is consumed, or on which more is reserved. *)
(***************************************************************************)
LEMMA ConsumeMore ==
  ASSUME NEW row \in BucketRow, NEW n \in Nat
  PROVE  LET new == Consume(row, n)
         IN  /\ new \in BucketRow
             /\ new.reserved = row.reserved
             /\ new.consumed = row.consumed + n
             /\ new.status = row.status
<1>1. Consume(row, n)
        = [reserved |-> row.reserved, consumed |-> row.consumed + n, status |-> row.status]
  BY DEF Consume, BucketRow
<1> QED
  BY <1>1 DEF BucketRow

LEMMA ReserveMore ==
  ASSUME NEW row \in BucketRow, NEW n \in Nat
  PROVE  LET new == Reserve(row, n)
         IN  /\ new \in BucketRow
             /\ new.reserved = row.reserved + n
             /\ new.consumed = row.consumed
             /\ new.status = row.status
<1>1. Reserve(row, n)
        = [reserved |-> row.reserved + n, consumed |-> row.consumed, status |-> row.status]
  BY DEF Reserve, BucketRow
<1> QED
  BY <1>1 DEF BucketRow

(***************************************************************************)
(* A reservation that holds nothing (shadow, or soft and unfunded) leaves  *)
(* the books as they are.                                                  *)
(***************************************************************************)
LEMMA InsertBooks ==
  ASSUME NEW al, NEW bk, NEW rs, NEW cr, Books(al, bk, rs, cr),
         NEW r \in Requests, rs[r].status = "none",
         NEW st \in {"shadow_reserved", "soft_insufficient"},
         NEW amount \in Nat, NEW expires \in Nat
  PROVE  Books(al, bk, [rs EXCEPT ![r] = [status |-> st, amount |-> amount,
                                          expires |-> expires]], cr)
<1> DEFINE new == [status |-> st, amount |-> amount, expires |-> expires]
           rs2 == [rs EXCEPT ![r] = new]
<1>1. new \in ReservationRow /\ new.status = st
  BY DEF ReservationRow, Statuses, Open, Unfunded
<1>2. /\ al \in [Requests -> [Sources -> Row]]
      /\ rs \in [Requests -> ReservationRow]
      /\ \A q \in Requests : \A s \in Sources : RowFollows(rs[q].status, al[q][s])
  BY DEF Books
<1> HIDE DEF new
<1>3. /\ rs2 \in [Requests -> ReservationRow]
      /\ rs2[r] = new
      /\ \A q \in Requests \ {r} : rs2[q] = rs[q]
  BY <1>1, <1>2
<1> HIDE DEF rs2
<1>4. \A s \in Sources : al[r][s] = NoRow
  BY <1>2 DEF RowFollows, Unfunded
<1>5. \A q \in Requests : \A s \in Sources : RowFollows(rs2[q].status, al[q][s])
  <2>1. \A s \in Sources : RowFollows(rs2[r].status, al[r][s])
    BY <1>1, <1>3, <1>4 DEF RowFollows, Closed
  <2> QED
    BY <2>1, <1>2, <1>3
<1>6. CreditColumn(al, rs2) = CreditColumn(al, rs)
  <2>1. Credit \in Sources
    BY DEF Sources
  <2>2. al[r][Credit].reserved = 0
    BY <2>1, <1>4 DEF NoRow
  <2>3. \A q \in Requests : CreditColumn(al, rs2)[q] = CreditColumn(al, rs)[q]
    BY <2>2, <1>3 DEF CreditColumn
  <2> QED
    BY <2>3, Zenon DEF CreditColumn
<1> QED
  BY <1>2, <1>3, <1>5, <1>6 DEF Books, rs2, new

(***************************************************************************)
(* The allocation rows of a new reservation are open, and they reserve     *)
(* what was taken from each source.                                        *)
(***************************************************************************)
LEMMA HeldRowsFacts ==
  ASSUME NEW take \in [Buckets -> Nat], NEW amount \in Nat, Sum(take) \in Nat,
         Sum(take) <= amount
  PROVE  /\ HeldRows(take, amount) \in [Sources -> Row]
         /\ HeldRows(take, amount)[Credit].reserved = amount - Sum(take)
         /\ \A b \in Buckets : Outstanding(HeldRows(take, amount)[b]) = take[b]
         /\ \A s \in Sources : RowFollows("reserved", HeldRows(take, amount)[s])
<1> DEFINE new == HeldRows(take, amount)
           n(s) == IF s = Credit THEN amount - Sum(take) ELSE take[s]
<1>1. \A s \in Sources : n(s) \in Nat
  BY DEF Sources
<1>2. \A s \in Sources : new[s] = [reserved |-> n(s), captured |-> 0, released |-> 0]
  BY DEF HeldRows, NoRow
<1> HIDE DEF new
<1>3. \A s \in Sources : /\ new[s] \in Row
                         /\ new[s].reserved = n(s)
                         /\ new[s].captured = 0 /\ new[s].released = 0
  <2> TAKE s \in Sources
  <2> DEFINE v == n(s)
  <2>1. v \in Nat /\ new[s] = [reserved |-> v, captured |-> 0, released |-> 0]
    BY <1>1, <1>2
  <2> HIDE DEF v
  <2> QED
    BY <2>1 DEF Row, v
<1>4. \A s \in Sources : RowFollows("reserved", new[s])
  BY <1>3 DEF RowFollows, Unfunded, Closed
<1>5. \A s \in Sources : Outstanding(new[s]) = n(s)
  BY <1>3, OutstandingFacts
<1>6. new \in [Sources -> Row]
  BY <1>3 DEF new, HeldRows
<1>7. \A b \in Buckets : b \in Sources /\ n(b) = take[b]
  BY CreditIsNoBucket DEF Sources
<1>8. Credit \in Sources /\ n(Credit) = amount - Sum(take)
  BY DEF Sources
<1> HIDE DEF n
<1> QED
  BY <1>3, <1>4, <1>5, <1>6, <1>7, <1>8 DEF new

(***************************************************************************)
(* A funded reservation keeps the books when no bucket gives more than it  *)
(* has.                                                                    *)
(***************************************************************************)
LEMMA OpenBooks ==
  ASSUME NEW al, NEW bk, NEW rs, NEW cr, Books(al, bk, rs, cr),
         NEW r \in Requests, rs[r].status = "none",
         NEW amount \in Nat, NEW expires \in Nat,
         NEW take \in [Buckets -> Nat],
         \A b \in Buckets : take[b] <= Available(b, bk[b]),
         Sum(take) \in Nat, Sum(take) <= amount
  PROVE  Books([al EXCEPT ![r] = HeldRows(take, amount)],
               [b \in Buckets |-> Reserve(bk[b], take[b])],
               [rs EXCEPT ![r] = [status |-> "reserved", amount |-> amount,
                                  expires |-> expires]],
               cr + (amount - Sum(take)))
<1> DEFINE new == [status |-> "reserved", amount |-> amount, expires |-> expires]
           held == HeldRows(take, amount)
           al2 == [al EXCEPT ![r] = held]
           bk2 == [b \in Buckets |-> Reserve(bk[b], take[b])]
           rs2 == [rs EXCEPT ![r] = new]
           cr2 == cr + (amount - Sum(take))
<1>1. new \in ReservationRow /\ new.status = "reserved"
  BY DEF ReservationRow, Statuses, Open
<1>2. /\ al \in [Requests -> [Sources -> Row]]
      /\ bk \in [Buckets -> BucketRow]
      /\ rs \in [Requests -> ReservationRow]
      /\ cr \in Nat /\ cr = Sum(CreditColumn(al, rs))
      /\ \A q \in Requests : \A s \in Sources : RowFollows(rs[q].status, al[q][s])
  BY DEF Books
<1>3. /\ held \in [Sources -> Row]
      /\ held[Credit].reserved = amount - Sum(take)
      /\ \A b \in Buckets : Outstanding(held[b]) = take[b]
      /\ \A s \in Sources : RowFollows("reserved", held[s])
  BY HeldRowsFacts
<1>4. \A s \in Sources : /\ al[r][s] = NoRow
                         /\ al[r][s].reserved = 0
                         /\ Outstanding(al[r][s]) = 0
  <2>1. \A s \in Sources : al[r][s] = NoRow
    BY <1>2 DEF RowFollows, Unfunded
  <2>2. NoRow.reserved = 0 /\ Outstanding(NoRow) = 0
    BY DEF NoRow, Outstanding, Monus
  <2> QED
    BY <2>1, <2>2
<1> HIDE DEF new, held
<1>5. /\ rs2 \in [Requests -> ReservationRow] /\ rs2[r] = new
      /\ \A q \in Requests \ {r} : rs2[q] = rs[q]
  BY <1>1, <1>2
<1>6. /\ al2 \in [Requests -> [Sources -> Row]] /\ al2[r] = held
      /\ \A q \in Requests \ {r} : al2[q] = al[q]
  BY <1>2, <1>3
<1> HIDE DEF rs2, al2
<1>7. cr2 \in Nat /\ cr2 = Sum(CreditColumn(al2, rs2))
  <2> DEFINE f == CreditColumn(al, rs)
             g == CreditColumn(al2, rs2)
  <2>1. f \in [Requests -> Nat] /\ g \in [Requests -> Nat]
    BY <1>2, <1>5, <1>6, ColumnTypes
  <2>2. \A q \in Requests \ {r} : g[q] = f[q]
    BY <1>5, <1>6 DEF CreditColumn
  <2>3. f[r] = 0
    BY <1>4 DEF CreditColumn, Open
  <2>4. g[r] = amount - Sum(take)
    BY <1>1, <1>3, <1>5, <1>6 DEF CreditColumn, Open
  <2>5. cr = Sum(f)
    BY <1>2
  <2> HIDE DEF f, g
  <2>6. Sum(f) \in Nat /\ Sum(g) \in Nat /\ Sum(g) + f[r] = Sum(f) + g[r]
    BY <2>1, <2>2, SumUpdate, RequestsFinite
  <2> QED
    BY <2>3, <2>4, <2>5, <2>6 DEF g
<1>8. ASSUME NEW b \in Buckets
      PROVE  /\ bk2[b] \in BucketRow
             /\ bk2[b].reserved = Sum(HoldColumn(al2, b))
             /\ bk2[b].consumed + bk2[b].reserved <= Granted[b]
             /\ bk2[b].status = "draining" => bk2[b].reserved > 0
  <2> DEFINE f == HoldColumn(al, b)
             g == HoldColumn(al2, b)
  <2>1. f \in [Requests -> Nat] /\ g \in [Requests -> Nat]
    BY <1>2, <1>5, <1>6, ColumnTypes
  <2>2. b \in Sources
    BY DEF Sources
  <2>3. \A q \in Requests \ {r} : g[q] = f[q]
    BY <1>6 DEF HoldColumn
  <2>4. f[r] = 0 /\ g[r] = take[b]
    BY <2>2, <1>3, <1>4, <1>6 DEF HoldColumn
  <2>5. /\ bk[b] \in BucketRow
        /\ bk[b].reserved = Sum(f)
        /\ bk[b].consumed + bk[b].reserved <= Granted[b]
        /\ bk[b].status = "draining" => bk[b].reserved > 0
        /\ take[b] \in Nat /\ Granted[b] \in Nat
    BY GrantedType DEF Books
  <2>6. bk2[b] = Reserve(bk[b], take[b])
    OBVIOUS
  <2> HIDE DEF f, g, bk2
  <2>7. Sum(f) \in Nat /\ Sum(g) \in Nat /\ Sum(g) + f[r] = Sum(f) + g[r]
    BY <2>1, <2>3, SumUpdate, RequestsFinite
  <2>8. /\ bk2[b] \in BucketRow
        /\ bk2[b].reserved = bk[b].reserved + take[b]
        /\ bk2[b].consumed = bk[b].consumed
        /\ bk2[b].status = bk[b].status
    <3>1. bk[b] \in BucketRow /\ take[b] \in Nat
      BY <2>5
    <3>2. /\ Reserve(bk[b], take[b]) \in BucketRow
          /\ Reserve(bk[b], take[b]).reserved = bk[b].reserved + take[b]
          /\ Reserve(bk[b], take[b]).consumed = bk[b].consumed
          /\ Reserve(bk[b], take[b]).status = bk[b].status
      BY ONLY <3>1, ReserveMore
    <3> QED
      BY <2>6, <3>2
  <2>9. bk[b].reserved \in Nat /\ bk[b].consumed \in Nat
    BY <2>5 DEF BucketRow
  <2>10. bk2[b].reserved = Sum(g)
    BY <2>4, <2>5, <2>7, <2>8, <2>9
  <2>11. bk2[b].consumed + bk2[b].reserved <= Granted[b]
    <3>1. take[b] <= Available(b, bk[b])
      OBVIOUS
    <3> QED
      BY <3>1, <2>5, <2>8, <2>9 DEF Available, Monus
  <2>12. bk2[b].status = "draining" => bk2[b].reserved > 0
    BY <2>5, <2>8, <2>9
  <2> QED
    BY <2>8, <2>10, <2>11, <2>12 DEF g
<1>9. bk2 \in [Buckets -> BucketRow]
  BY <1>8
<1>10. \A q \in Requests : \A s \in Sources : RowFollows(rs2[q].status, al2[q][s])
  BY <1>1, <1>2, <1>3, <1>5, <1>6
<1> HIDE DEF bk2, cr2
<1> QED
  BY <1>5, <1>6, <1>7, <1>8, <1>9, <1>10 DEF Books, al2, bk2, rs2, cr2, new, held

-----------------------------------------------------------------------------
(***************************************************************************)
(* An allocation row after capture is captured or released to the last     *)
(* micro.                                                                  *)
(***************************************************************************)
LEMMA CapturedRowFacts ==
  ASSUME NEW row \in Row, NEW st \in Open, RowFollows(st, row),
         NEW take \in Nat, take <= Outstanding(row), NEW extra \in Nat
  PROVE  LET new == CapturedRow(row, take, extra)
         IN  /\ new \in Row
             /\ new.reserved = new.captured + new.released
             /\ new.reserved = row.reserved + extra
             /\ Outstanding(new) = 0
<1> DEFINE new == CapturedRow(row, take, extra)
           a == row.reserved + extra
           c == row.captured + take + extra
           d == row.released + (Outstanding(row) - take)
<1>1. row.reserved \in Nat /\ row.captured \in Nat /\ row.released \in Nat
  BY DEF Row
<1>2. Outstanding(row) \in Nat /\ row.reserved = row.captured + row.released + Outstanding(row)
  <2>1. CASE st = "reserved"
    BY <2>1, <1>1, OutstandingFacts DEF RowFollows
  <2>2. CASE st = "shadow_reserved"
    <3>1. row = NoRow
      BY <2>2 DEF RowFollows, Unfunded
    <3>2. row.reserved = 0 /\ row.captured = 0 /\ row.released = 0
      BY <3>1 DEF NoRow
    <3> QED
      BY <3>2, OutstandingFacts
  <2> QED
    BY <2>1, <2>2 DEF Open
<1>3. a \in Nat /\ c \in Nat /\ d \in Nat /\ a = c + d
  BY <1>1, <1>2
<1>4. new = [reserved |-> a, captured |-> c, released |-> d]
  BY DEF CapturedRow
<1> HIDE DEF new, c, d
<1>5. new \in Row /\ new.reserved = a /\ new.captured = c /\ new.released = d
  <2> HIDE DEF a
  <2> QED
    BY <1>3, <1>4 DEF Row
<1> QED
  BY <1>3, <1>5, OutstandingFacts DEF new

(***************************************************************************)
(* A bucket row after capture: the hold is gone, what was taken is         *)
(* consumed.                                                               *)
(***************************************************************************)
LEMMA CapturedBucketFacts ==
  ASSUME NEW row \in BucketRow, NEW back \in Nat, NEW touched \in BOOLEAN,
         NEW take \in Nat, NEW extra \in Nat, back <= row.reserved,
         ~touched => back = 0,
         row.status = "draining" => row.reserved > 0,
         NEW mid, mid = Consume(Unreserve(row, back, touched), take),
         NEW new, new = Consume(mid, extra)
  PROVE  /\ mid \in BucketRow
         /\ mid.reserved = row.reserved - back
         /\ mid.consumed = row.consumed + take
         /\ new \in BucketRow
         /\ new.reserved = row.reserved - back
         /\ new.consumed = row.consumed + take + extra
         /\ new.status = "draining" => new.reserved > 0
<1> DEFINE low == Unreserve(row, back, touched)
<1>1. /\ row.reserved \in Nat /\ row.consumed \in Nat
      /\ Monus(row.reserved, back) = row.reserved - back
  BY DEF BucketRow, Monus
<1>2. /\ low \in BucketRow /\ low.reserved = row.reserved - back
      /\ low.consumed = row.consumed
      /\ low.status = IF touched /\ row.status = "draining" /\ low.reserved = 0
                      THEN "expired" ELSE row.status
  BY <1>1, UnreserveFacts
<1> HIDE DEF low
<1>3. /\ mid \in BucketRow /\ mid.reserved = low.reserved
      /\ mid.consumed = low.consumed + take /\ mid.status = low.status
  BY <1>2, ConsumeMore DEF low
<1>4. /\ new \in BucketRow /\ new.reserved = mid.reserved
      /\ new.consumed = mid.consumed + extra /\ new.status = mid.status
  BY <1>3, ConsumeMore
<1>5. new.status = "draining" => new.reserved > 0
  <2>1. CASE touched
    <3>1. low.status = "draining" => low.reserved # 0
      BY <2>1, <1>2, Zenon
    <3> QED
      BY <3>1, <1>1, <1>2, <1>3, <1>4
  <2>2. CASE ~touched
    <3>1. low.status = row.status /\ back = 0
      BY <2>2, <1>2, Zenon
    <3> QED
      BY <3>1, <1>1, <1>2, <1>3, <1>4
  <2> QED
    BY <2>1, <2>2
<1>6. /\ mid \in BucketRow /\ new \in BucketRow
      /\ mid.reserved = row.reserved - back /\ new.reserved = row.reserved - back
      /\ mid.consumed = row.consumed + take
      /\ new.consumed = row.consumed + take + extra
  BY <1>1, <1>2, <1>3, <1>4
<1> QED
  BY <1>5, <1>6

(***************************************************************************)
(* Capturing a reservation keeps the books, when no held row and no bucket *)
(* gives more than it has.                                                 *)
(***************************************************************************)
LEMMA CaptureBooks ==
  ASSUME Books(alloc, bucket, reservation, creditReserved),
         NEW r \in Requests, reservation[r].status \in Open,
         NEW take \in [Buckets -> Nat], NEW extra \in [Buckets -> Nat],
         \A b \in Buckets : take[b] <= Outstanding(alloc[r][b]),
         \A b \in Buckets : extra[b] <= Available(b, CapturedBuckets(r, TRUE, take)[b]),
         NEW creditTake \in Nat, NEW creditExtra \in Nat,
         creditTake <= Outstanding(alloc[r][Credit]),
         NEW final \in {"captured", "partially_captured", "capture_failed"}
  PROVE  /\ Books([alloc EXCEPT ![r] =
                     [s \in Sources |->
                        IF s = Credit
                        THEN CapturedRow(alloc[r][s], creditTake, creditExtra)
                        ELSE CapturedRow(alloc[r][s], take[s], extra[s])]],
                  [b \in Buckets |->
                     Consume(CapturedBuckets(r, TRUE, take)[b], extra[b])],
                  [reservation EXCEPT ![r].status = final],
                  creditReserved + creditExtra - (alloc[r][Credit].reserved + creditExtra))
         /\ alloc[r][Credit].reserved <= creditReserved
         /\ creditTake <= alloc[r][Credit].reserved
<1> DEFINE t(s) == IF s = Credit THEN creditTake ELSE take[s]
           x(s) == IF s = Credit THEN creditExtra ELSE extra[s]
           new == [s \in Sources |->
                     IF s = Credit
                     THEN CapturedRow(alloc[r][s], creditTake, creditExtra)
                     ELSE CapturedRow(alloc[r][s], take[s], extra[s])]
           al2 == [alloc EXCEPT ![r] = new]
           mid == CapturedBuckets(r, TRUE, take)
           bk2 == [b \in Buckets |-> Consume(mid[b], extra[b])]
           rs2 == [reservation EXCEPT ![r].status = final]
           cr2 == creditReserved + creditExtra - (alloc[r][Credit].reserved + creditExtra)
<1>1. /\ alloc \in [Requests -> [Sources -> Row]]
      /\ bucket \in [Buckets -> BucketRow]
      /\ reservation \in [Requests -> ReservationRow]
      /\ creditReserved \in Nat
      /\ creditReserved = Sum(CreditColumn(alloc, reservation))
      /\ \A q \in Requests : \A s \in Sources : RowFollows(reservation[q].status, alloc[q][s])
  BY DEF Books
<1>2. Credit \in Sources /\ Buckets \subseteq Sources /\ \A b \in Buckets : b # Credit
  BY CreditIsNoBucket DEF Sources
<1>3. \A s \in Sources : /\ t(s) \in Nat /\ x(s) \in Nat /\ t(s) <= Outstanding(alloc[r][s])
                         /\ new[s] = CapturedRow(alloc[r][s], t(s), x(s))
  BY <1>2 DEF Sources
<1>4. ASSUME NEW s \in Sources
      PROVE  /\ new[s] \in Row
             /\ new[s].reserved = new[s].captured + new[s].released
             /\ Outstanding(new[s]) = 0
  BY <1>1, <1>3, CapturedRowFacts
<1>5. new \in [Sources -> Row]
  BY <1>4
<1> HIDE DEF new
<1>6. /\ al2 \in [Requests -> [Sources -> Row]] /\ al2[r] = new
      /\ \A q \in Requests \ {r} : al2[q] = alloc[q]
  BY <1>1, <1>5
<1>7. /\ rs2 \in [Requests -> ReservationRow] /\ rs2[r].status = final
      /\ \A q \in Requests \ {r} : rs2[q] = reservation[q]
  <2>1. reservation[r] \in ReservationRow /\ final \in Statuses
    BY <1>1 DEF Statuses, Closed
  <2>2. [reservation[r] EXCEPT !.status = final] \in ReservationRow
    BY <2>1 DEF ReservationRow
  <2>3. rs2 = [reservation EXCEPT ![r] = [reservation[r] EXCEPT !.status = final]]
    BY <1>1
  <2>4. [reservation[r] EXCEPT !.status = final].status = final
    BY <2>1 DEF ReservationRow
  <2> QED
    BY <2>2, <2>3, <2>4, <1>1
<1> HIDE DEF al2, rs2
<1>8. /\ cr2 \in Nat /\ cr2 = Sum(CreditColumn(al2, rs2))
      /\ alloc[r][Credit].reserved <= creditReserved
  <2> DEFINE f == CreditColumn(alloc, reservation)
             g == CreditColumn(al2, rs2)
  <2>1. f \in [Requests -> Nat] /\ g \in [Requests -> Nat]
    BY <1>1, <1>6, <1>7, ColumnTypes
  <2>2. \A q \in Requests \ {r} : g[q] = f[q]
    BY <1>6, <1>7 DEF CreditColumn
  <2>3. f[r] = alloc[r][Credit].reserved
    BY DEF CreditColumn
  <2>4. g[r] = 0
    BY <1>7 DEF CreditColumn, Open
  <2>5. creditReserved = Sum(f)
    BY <1>1
  <2>6. f[r] \in Nat
    BY <2>1
  <2> HIDE DEF f, g
  <2>7. Sum(f) \in Nat /\ Sum(g) \in Nat /\ Sum(g) + f[r] = Sum(f) + g[r]
    BY <2>1, <2>2, SumUpdate, RequestsFinite
  <2>8. Sum(g) = creditReserved - alloc[r][Credit].reserved
    BY <2>3, <2>4, <2>5, <2>6, <2>7
  <2>9. cr2 = creditReserved - alloc[r][Credit].reserved
    BY <1>1, <2>3, <2>6
  <2> HIDE DEF cr2
  <2> QED
    BY <2>3, <2>6, <2>7, <2>8, <2>9, <1>1 DEF g
<1>9. ASSUME NEW b \in Buckets
      PROVE  /\ bk2[b] \in BucketRow
             /\ bk2[b].reserved = Sum(HoldColumn(al2, b))
             /\ bk2[b].consumed + bk2[b].reserved <= Granted[b]
             /\ bk2[b].status = "draining" => bk2[b].reserved > 0
  <2> DEFINE f == HoldColumn(alloc, b)
             g == HoldColumn(al2, b)
             back == Outstanding(alloc[r][b])
             touched == TRUE /\ alloc[r][b].reserved > 0
  <2>1. f \in [Requests -> Nat] /\ g \in [Requests -> Nat]
    BY <1>1, <1>6, <1>7, ColumnTypes
  <2>2. b \in Sources
    BY <1>2
  <2>3. \A q \in Requests \ {r} : g[q] = f[q]
    BY <1>6 DEF HoldColumn
  <2>4. f[r] = back /\ g[r] = 0
    BY <2>2, <1>4, <1>6 DEF HoldColumn
  <2>5. /\ bucket[b] \in BucketRow
        /\ bucket[b].reserved = Sum(f)
        /\ bucket[b].consumed + bucket[b].reserved <= Granted[b]
        /\ bucket[b].status = "draining" => bucket[b].reserved > 0
        /\ take[b] \in Nat /\ extra[b] \in Nat /\ Granted[b] \in Nat
    BY GrantedType DEF Books
  <2>6. mid[b] = Consume(Unreserve(bucket[b], back, touched), take[b])
    BY DEF CapturedBuckets, Held
  <2>7. bk2[b] = Consume(mid[b], extra[b])
    OBVIOUS
  <2>8. back \in Nat /\ touched \in BOOLEAN /\ (~touched => back = 0)
    <3>1. alloc[r][b] \in Row /\ alloc[r][b].reserved \in Nat
      BY <1>1, <2>2 DEF Row
    <3>2. back \in Nat /\ back <= alloc[r][b].reserved
      BY <3>1, OutstandingFacts
    <3>3. ~touched => back = 0
      BY <3>1, <3>2
    <3> QED
      BY <3>2, <3>3
  <2>9. take[b] <= back /\ extra[b] <= Available(b, mid[b])
    OBVIOUS
  <2> HIDE DEF f, g, mid, bk2, back, touched
  <2>10. Sum(f) \in Nat /\ Sum(g) \in Nat /\ Sum(g) + f[r] = Sum(f) + g[r]
    BY <2>1, <2>3, SumUpdate, RequestsFinite
  <2>11. back <= bucket[b].reserved /\ Sum(g) = bucket[b].reserved - back
    BY <2>4, <2>5, <2>8, <2>10
  <2>12. /\ mid[b] \in BucketRow
         /\ mid[b].reserved = bucket[b].reserved - back
         /\ mid[b].consumed = bucket[b].consumed + take[b]
         /\ bk2[b] \in BucketRow
         /\ bk2[b].reserved = bucket[b].reserved - back
         /\ bk2[b].consumed = bucket[b].consumed + take[b] + extra[b]
         /\ bk2[b].status = "draining" => bk2[b].reserved > 0
    BY <2>5, <2>6, <2>7, <2>8, <2>11, CapturedBucketFacts
  <2>13. bk2[b].consumed + bk2[b].reserved <= Granted[b]
    <3>1. bucket[b].reserved \in Nat /\ bucket[b].consumed \in Nat
      BY <2>5 DEF BucketRow
    <3> QED
      BY <3>1, <2>5, <2>8, <2>9, <2>11, <2>12 DEF Available, Monus
  <2> QED
    BY <2>11, <2>12, <2>13 DEF g
<1>10. bk2 \in [Buckets -> BucketRow]
  BY <1>9
<1>11. \A q \in Requests : \A s \in Sources : RowFollows(rs2[q].status, al2[q][s])
  <2>1. \A s \in Sources : RowFollows(rs2[r].status, al2[r][s])
    BY <1>4, <1>6, <1>7 DEF RowFollows, Unfunded
  <2> QED
    BY <2>1, <1>1, <1>6, <1>7
<1>12. creditTake <= alloc[r][Credit].reserved
  <2>1. alloc[r][Credit] \in Row /\ alloc[r][Credit].reserved \in Nat
    BY <1>1, <1>2 DEF Row
  <2> QED
    BY <2>1, OutstandingFacts
<1> HIDE DEF bk2, cr2, mid
<1>13. Books(al2, bk2, rs2, cr2)
  BY <1>6, <1>7, <1>8, <1>9, <1>10, <1>11 DEF Books
<1> QED
  BY <1>8, <1>12, <1>13 DEF al2, bk2, rs2, cr2, mid, new

(***************************************************************************)
(* Settlement without a reservation only consumes from the buckets, and    *)
(* keeps the books when no bucket gives more than it has.                  *)
(***************************************************************************)
LEMMA SpendBooks ==
  ASSUME Books(alloc, bucket, reservation, creditReserved),
         NEW r \in Requests,
         NEW take \in [Buckets -> Nat], NEW extra \in [Buckets -> Nat],
         \A b \in Buckets : take[b] = 0,
         \A b \in Buckets : extra[b] <= Available(b, CapturedBuckets(r, FALSE, take)[b])
  PROVE  Books(alloc,
               [b \in Buckets |->
                  Consume(CapturedBuckets(r, FALSE, take)[b], extra[b])],
               reservation, creditReserved)
<1> DEFINE mid == CapturedBuckets(r, FALSE, take)
           bk2 == [b \in Buckets |-> Consume(mid[b], extra[b])]
<1>1. ASSUME NEW b \in Buckets
      PROVE  /\ bk2[b] \in BucketRow
             /\ bk2[b].reserved = bucket[b].reserved
             /\ bk2[b].consumed + bk2[b].reserved <= Granted[b]
             /\ bk2[b].status = "draining" => bk2[b].reserved > 0
  <2>1. /\ bucket[b] \in BucketRow
        /\ bucket[b].consumed + bucket[b].reserved <= Granted[b]
        /\ bucket[b].status = "draining" => bucket[b].reserved > 0
        /\ take[b] = 0 /\ extra[b] \in Nat /\ Granted[b] \in Nat
    BY GrantedType DEF Books
  <2> DEFINE back == 0
             touched == FALSE /\ alloc[r][b].reserved > 0
  <2>2. mid[b] = Consume(Unreserve(bucket[b], back, touched), take[b])
    BY DEF CapturedBuckets, Held
  <2>3. bk2[b] = Consume(mid[b], extra[b])
    OBVIOUS
  <2>4. extra[b] <= Available(b, mid[b])
    OBVIOUS
  <2>5. bucket[b].reserved \in Nat /\ bucket[b].consumed \in Nat
    BY <2>1 DEF BucketRow
  <2> HIDE DEF mid, bk2
  <2>6. /\ mid[b].reserved = bucket[b].reserved - back
        /\ mid[b].consumed = bucket[b].consumed + take[b]
        /\ bk2[b] \in BucketRow
        /\ bk2[b].reserved = bucket[b].reserved - back
        /\ bk2[b].consumed = bucket[b].consumed + take[b] + extra[b]
        /\ bk2[b].status = "draining" => bk2[b].reserved > 0
    <3>1. back \in Nat /\ take[b] \in Nat /\ back <= bucket[b].reserved
      BY <2>1, <2>5
    <3>2. touched \in BOOLEAN /\ (~touched => back = 0)
      OBVIOUS
    <3> HIDE DEF back, touched
    <3> QED
      BY <3>1, <3>2, <2>1, <2>2, <2>3, CapturedBucketFacts
  <2> QED
    BY <2>1, <2>4, <2>5, <2>6 DEF Available, Monus
<1>2. bk2 \in [Buckets -> BucketRow]
  BY <1>1
<1> HIDE DEF bk2
<1> QED
  BY <1>1, <1>2 DEF Books, bk2, mid

-----------------------------------------------------------------------------
(***************************************************************************)
(* What the draw-down loop returns.                                        *)
(***************************************************************************)
LEMMA DrawDownFacts ==
  ASSUME NEW avail \in [Buckets -> Nat], NEW amount \in Nat,
         NEW take \in DrawDowns(Buckets, avail, amount)
  PROVE  /\ take \in [Buckets -> Nat]
         /\ Sum(take) \in Nat
         /\ Sum(avail) \in Nat
         /\ \A b \in Buckets : take[b] <= avail[b]
         /\ Sum(take) <= amount
         /\ Sum(take) <= Sum(avail)
         /\ Sum(take) < amount => Sum(take) = Sum(avail)
<1>1. take \in [Buckets -> 0..amount] /\ \A b \in Buckets : take[b] <= avail[b]
  BY DEF DrawDowns
<1>2. Sum(take) = Least(amount, Sum(avail))
  BY DEF DrawDowns
<1>3. take \in [Buckets -> Nat]
  BY <1>1
<1>4. Sum(take) \in Nat /\ Sum(avail) \in Nat
  BY <1>3, BucketsFinite, SumType
<1> QED
  BY <1>1, <1>2, <1>3, <1>4 DEF Least

(***************************************************************************)
(* A bucket offers a natural number of micros, and no more than it has.    *)
(***************************************************************************)
LEMMA OfferFacts ==
  ASSUME NEW rows \in [Buckets -> BucketRow], NEW r, NEW t
  PROVE  /\ Offer(rows, r, t) \in [Buckets -> Nat]
         /\ \A b \in Buckets : Offer(rows, r, t)[b] <= Available(b, rows[b])
<1>1. \A b \in Buckets : Available(b, rows[b]) \in Nat
  BY GrantedType DEF Available, Monus, BucketRow
<1>2. \A b \in Buckets : /\ Offer(rows, r, t)[b] \in Nat
                         /\ Offer(rows, r, t)[b] <= Available(b, rows[b])
  BY <1>1 DEF Offer
<1> QED
  BY <1>2 DEF Offer

(***************************************************************************)
(* The credit reserve_request finds free is free: what it subtracts from   *)
(* the snapshot it read is what the status trigger takes off.              *)
(***************************************************************************)
LEMMA FreeCreditFacts ==
  ASSUME Books(alloc, bucket, reservation, creditReserved),
         creditBalance \in Nat, creditReserved <= creditBalance,
         NEW E \in SUBSET Requests, \A q \in E : reservation[q].status \in Open
  PROVE  FreeCredit(E) = creditBalance - CreditReservedAfter(E)
<1> DEFINE f == [q \in Requests |-> IF q \in E THEN Outstanding(alloc[q][Credit]) ELSE 0]
           g == [q \in Requests |-> IF q \in E THEN alloc[q][Credit].reserved ELSE 0]
<1>1. \A q \in Requests : /\ alloc[q][Credit] \in Row
                          /\ RowFollows(reservation[q].status, alloc[q][Credit])
                          /\ reservation[q].status \in Statuses
  BY DEF Books, Sources, ReservationRow
<1>2. \A q \in E : Outstanding(alloc[q][Credit]) = alloc[q][Credit].reserved
  <2> TAKE q \in E
  <2>1. reservation[q].status = "reserved" \/ reservation[q].status \in Unfunded
    BY DEF Open, Unfunded
  <2> QED
    BY <2>1, <1>1, OutstandingByStatus DEF Unfunded
<1>3. f = g
  BY <1>2
<1>4. g \in [Requests -> Nat]
  BY <1>1 DEF Row
<1>5. CreditReservedAfter(E) = creditReserved - Sum(g)
  BY DEF CreditReservedAfter
<1>6. CreditReservedAfter(E) <= creditReserved /\ CreditReservedAfter(E) \in Nat
  BY CloseBooks DEF Books
<1>7. FreeCredit(E) = Monus(creditBalance, Monus(creditReserved, Sum(f)))
  BY DEF FreeCredit, AvailableCredit
<1> HIDE DEF f, g
<1>8. Sum(g) \in Nat /\ creditReserved \in Nat
  BY <1>4, SumType, RequestsFinite DEF Books
<1> QED
  BY <1>3, <1>5, <1>6, <1>7, <1>8 DEF Monus

-----------------------------------------------------------------------------
(***************************************************************************)
(* The inductive invariant.                                                *)
(***************************************************************************)
IInv == TypeOK /\ NoOverdraft /\ Books(alloc, bucket, reservation, creditReserved)

(***************************************************************************)
(* It holds initially.                                                     *)
(***************************************************************************)
LEMMA InitIInv == Init => IInv
<1> SUFFICES ASSUME Init PROVE IInv
  OBVIOUS
<1>1. NoRow \in Row /\ NoRow.reserved = 0 /\ Outstanding(NoRow) = 0
  BY DEF NoRow, Row, Outstanding, Monus
<1>2. TypeOK
  <2>1. NoCharge \in ChargeRow
    BY DEF NoCharge, ChargeRow
  <2>2. [status |-> "none", amount |-> 0, expires |-> 0] \in ReservationRow
    BY DEF ReservationRow, Statuses, Unfunded
  <2>3. [reserved |-> 0, consumed |-> 0, status |-> "active"] \in BucketRow
    BY DEF BucketRow
  <2> QED
    BY <1>1, <2>1, <2>2, <2>3 DEF Init, TypeOK
<1>3. NoOverdraft
  BY DEF Init, NoOverdraft
<1>4. Books(alloc, bucket, reservation, creditReserved)
  <2>1. \A r \in Requests : \A s \in Sources : alloc[r][s] = NoRow
    BY DEF Init
  <2>2. \A r \in Requests : reservation[r].status = "none"
    BY DEF Init
  <2>3. \A r \in Requests : \A s \in Sources : RowFollows(reservation[r].status, alloc[r][s])
    BY <2>1, <2>2 DEF RowFollows, Closed
  <2>4. Sum(CreditColumn(alloc, reservation)) = 0
    <3>1. CreditColumn(alloc, reservation) \in [Requests -> Nat]
      BY <1>2, ColumnTypes DEF TypeOK
    <3>2. \A r \in Requests : CreditColumn(alloc, reservation)[r] = 0
      BY <2>2 DEF CreditColumn, Open
    <3> QED
      BY <3>1, <3>2, SumZero
  <2>5. ASSUME NEW b \in Buckets
        PROVE  Sum(HoldColumn(alloc, b)) = 0
    <3>1. HoldColumn(alloc, b) \in [Requests -> Nat]
      BY <1>2, ColumnTypes DEF TypeOK
    <3>2. \A r \in Requests : HoldColumn(alloc, b)[r] = 0
      BY <1>1, <2>1 DEF HoldColumn, Sources
    <3> QED
      BY <3>1, <3>2, SumZero
  <2>6. \A b \in Buckets : /\ bucket[b].reserved = 0 /\ bucket[b].consumed = 0
                           /\ bucket[b].status = "active" /\ Granted[b] \in Nat
    BY GrantedType DEF Init
  <2>7. creditReserved = 0
    BY DEF Init
  <2> QED
    BY <1>2, <2>3, <2>4, <2>5, <2>6, <2>7 DEF Books, TypeOK
<1> QED
  BY <1>2, <1>3, <1>4 DEF IInv

-----------------------------------------------------------------------------
(***************************************************************************)
(* The steps that touch neither holds nor buckets.                         *)
(***************************************************************************)
LEMMA QuietSteps ==
  ASSUME IInv, UNCHANGED <<creditReserved, reservation, alloc, bucket>>,
         now' \in Nat, creditBalance' \in Nat, creditBalance <= creditBalance',
         credited' \in [Credits -> Nat],
         admission' \in [Requests -> {"none", "held", "unheld", "rejected"}],
         used' \subseteq Requests, incurredAt' \in [Requests -> Nat],
         charge' \in [Requests -> ChargeRow]
  PROVE  IInv'
<1>1. TypeOK'
  BY DEF IInv, TypeOK
<1>2. NoOverdraft'
  BY DEF IInv, TypeOK, NoOverdraft
<1>3. Books(alloc, bucket, reservation, creditReserved)'
  BY DEF IInv, Books
<1> QED
  BY <1>1, <1>2, <1>3 DEF IInv

(***************************************************************************)
(* release_request and the sweep.                                          *)
(***************************************************************************)
LEMMA CloseStep ==
  ASSUME IInv, NEW E \in SUBSET Requests, \A q \in E : reservation[q].status \in Open,
         NEW final \in {"released", "expired"}, CloseReservations(E, final),
         UNCHANGED <<now, creditBalance, credited, admission, used, incurredAt, charge>>
  PROVE  IInv'
<1>1. /\ Books(AllocAfter(E), BucketAfter(E), ReservationAfter(E, final), CreditReservedAfter(E))
      /\ CreditReservedAfter(E) <= creditReserved
  BY CloseBooks DEF IInv
<1>2. Books(alloc', bucket', reservation', creditReserved')
  BY <1>1 DEF CloseReservations
<1>3. creditReserved' <= creditReserved
  BY <1>1 DEF CloseReservations
<1>4. TypeOK'
  BY <1>2 DEF IInv, TypeOK, Books
<1>5. NoOverdraft'
  BY <1>2, <1>3 DEF IInv, TypeOK, NoOverdraft, Books
<1> QED
  BY <1>2, <1>4, <1>5 DEF IInv

(***************************************************************************)
(* The sweep inside reserve_request closes other reservations only.        *)
(***************************************************************************)
LEMMA SweepFacts ==
  ASSUME IInv, NEW r \in Requests, reservation[r].status = "none", NEW t
  PROVE  /\ Lapsed(t) \in SUBSET Requests
         /\ \A q \in Lapsed(t) : reservation[q].status \in Open
         /\ ReservationAfter(Lapsed(t), "expired")[r].status = "none"
         /\ Books(AllocAfter(Lapsed(t)), BucketAfter(Lapsed(t)),
                  ReservationAfter(Lapsed(t), "expired"), CreditReservedAfter(Lapsed(t)))
         /\ CreditReservedAfter(Lapsed(t)) \in Nat
         /\ CreditReservedAfter(Lapsed(t)) <= creditReserved
         /\ BucketAfter(Lapsed(t)) \in [Buckets -> BucketRow]
<1>1. /\ Lapsed(t) \in SUBSET Requests
      /\ \A q \in Lapsed(t) : reservation[q].status \in Open
      /\ r \notin Lapsed(t)
  BY DEF Lapsed, Open
<1>2. ReservationAfter(Lapsed(t), "expired")[r].status = "none"
  BY <1>1 DEF ReservationAfter
<1>3. /\ Books(AllocAfter(Lapsed(t)), BucketAfter(Lapsed(t)),
               ReservationAfter(Lapsed(t), "expired"), CreditReservedAfter(Lapsed(t)))
      /\ CreditReservedAfter(Lapsed(t)) <= creditReserved
  BY <1>1, CloseBooks DEF IInv
<1> QED
  BY <1>1, <1>2, <1>3 DEF Books

(***************************************************************************)
(* reserve_request, when it sweeps and inserts a row that holds nothing.   *)
(***************************************************************************)
LEMMA UnheldStep ==
  ASSUME IInv, NEW r \in Requests, reservation[r].status = "none",
         NEW amount \in Amounts, NEW t \in 0..now, NEW a \in {"held", "unheld"},
         NEW st \in {"shadow_reserved", "soft_insufficient"},
         InsertReservation(Lapsed(t), r, st, amount, t),
         alloc' = AllocAfter(Lapsed(t)), bucket' = BucketAfter(Lapsed(t)),
         creditReserved' = CreditReservedAfter(Lapsed(t)),
         Reply(r, a),
         UNCHANGED <<now, creditBalance, credited, used, incurredAt, charge>>
  PROVE  IInv'
<1>1. amount \in Nat /\ t + TTL \in Nat
  BY AmountsType, TimesType DEF IInv, TypeOK
<1>2. reservation' = [ReservationAfter(Lapsed(t), "expired") EXCEPT ![r] =
                        [status |-> st, amount |-> amount, expires |-> t + TTL]]
  BY DEF InsertReservation
<1>3. Books(alloc', bucket', reservation', creditReserved')
  BY <1>1, <1>2, SweepFacts, InsertBooks
<1>4. creditReserved' <= creditReserved
  BY SweepFacts
<1>5. admission' \in [Requests -> {"none", "held", "unheld", "rejected"}]
  BY DEF Reply, IInv, TypeOK
<1>6. TypeOK'
  BY <1>3, <1>5 DEF IInv, TypeOK, Books
<1>7. NoOverdraft'
  BY <1>3, <1>4 DEF IInv, TypeOK, NoOverdraft, Books
<1> QED
  BY <1>3, <1>6, <1>7 DEF IInv

(***************************************************************************)
(* reserve_request, when it finds the funds.                               *)
(***************************************************************************)
LEMMA ReserveFundsStep ==
  ASSUME IInv, NEW r \in Requests, NEW amount \in Amounts, NEW t \in 0..now,
         ReserveFunds(r, amount, t)
  PROVE  IInv'
<1> DEFINE E == Lapsed(t)
           rows == BucketAfter(E)
           offer == Offer(rows, r, t)
<1>1. amount \in Nat /\ t + TTL \in Nat
  BY AmountsType, TimesType DEF IInv, TypeOK
<1>2. reservation[r].status = "none" /\ Sum(offer) + FreeCredit(E) >= amount
  BY DEF ReserveFunds
<1>3. PICK take \in DrawDowns(Buckets, offer, amount) :
        /\ alloc' = [AllocAfter(E) EXCEPT ![r] = HeldRows(take, amount)]
        /\ bucket' = [b \in Buckets |-> Reserve(rows[b], take[b])]
        /\ creditReserved' = CreditReservedAfter(E) + (amount - Sum(take))
  BY DEF ReserveFunds
<1>4. reservation' = [ReservationAfter(E, "expired") EXCEPT ![r] =
                        [status |-> "reserved", amount |-> amount, expires |-> t + TTL]]
  BY DEF ReserveFunds, InsertReservation
<1>5. /\ E \in SUBSET Requests /\ \A q \in E : reservation[q].status \in Open
      /\ ReservationAfter(E, "expired")[r].status = "none"
      /\ Books(AllocAfter(E), rows, ReservationAfter(E, "expired"), CreditReservedAfter(E))
      /\ CreditReservedAfter(E) \in Nat
      /\ CreditReservedAfter(E) <= creditReserved
      /\ rows \in [Buckets -> BucketRow]
  BY <1>2, SweepFacts
<1> HIDE DEF E, rows
<1>6. /\ offer \in [Buckets -> Nat]
      /\ \A b \in Buckets : offer[b] \in Nat /\ offer[b] <= Available(b, rows[b])
  BY <1>5, OfferFacts
<1> HIDE DEF offer
<1>7. /\ take \in [Buckets -> Nat] /\ Sum(take) \in Nat /\ Sum(take) <= amount
      /\ Sum(offer) \in Nat
      /\ \A b \in Buckets : take[b] <= offer[b]
      /\ Sum(take) < amount => Sum(take) = Sum(offer)
  BY <1>1, <1>6, DrawDownFacts
<1>8. \A b \in Buckets : take[b] <= Available(b, rows[b])
  <2>1. \A b \in Buckets : Available(b, rows[b]) \in Nat
    BY <1>5, GrantedType DEF Available, Monus, BucketRow
  <2> QED
    BY <2>1, <1>6, <1>7
<1>9. Books(alloc', bucket', reservation', creditReserved')
  BY <1>1, <1>3, <1>4, <1>5, <1>7, <1>8, OpenBooks
<1>10. creditBalance \in Nat /\ creditReserved \in Nat /\ creditReserved <= creditBalance
       /\ Books(alloc, bucket, reservation, creditReserved)
  BY DEF IInv, TypeOK, NoOverdraft
<1>11. FreeCredit(E) = creditBalance - CreditReservedAfter(E)
  BY <1>5, <1>10, FreeCreditFacts
<1>12. creditReserved' <= creditBalance
  BY <1>1, <1>2, <1>3, <1>5, <1>7, <1>10, <1>11
<1>13. UNCHANGED <<now, creditBalance, credited, used, incurredAt, charge>> /\ Reply(r, "held")
  BY DEF ReserveFunds
<1>14. admission' \in [Requests -> {"none", "held", "unheld", "rejected"}]
  BY <1>13 DEF Reply, IInv, TypeOK
<1>15. TypeOK'
  BY <1>9, <1>13, <1>14 DEF IInv, TypeOK, Books
<1>16. NoOverdraft'
  BY <1>12, <1>13 DEF NoOverdraft
<1> QED
  BY <1>9, <1>15, <1>16 DEF IInv

(***************************************************************************)
(* What settle_usage moves: take and creditTake out of the hold, extra and *)
(* creditExtra beyond it, and short is what nobody pays.  Nothing is short *)
(* when the hold covers the amount.                                        *)
(***************************************************************************)
Payment(r, amount, keyed, take, extra, creditTake, creditExtra, short) ==
  /\ bucket' = [b \in Buckets |-> Consume(CapturedBuckets(r, keyed, take)[b], extra[b])]
  /\ creditBalance' = creditBalance - (creditTake + creditExtra)
  /\ charge' = [charge EXCEPT ![r] =
       [status |-> IF short = 0 THEN "settled" ELSE "insufficient_funds",
        amount |-> amount,
        subscription |-> Sum(take) + Sum(extra),
        credit |-> creditTake + creditExtra]]
  /\ IF keyed
     THEN /\ alloc' = [alloc EXCEPT ![r] =
               [s \in Sources |->
                  IF s = Credit
                  THEN CapturedRow(alloc[r][s], creditTake, creditExtra)
                  ELSE CapturedRow(alloc[r][s], take[s], extra[s])]]
          /\ creditReserved' = creditReserved + creditExtra
               - (alloc[r][Credit].reserved + creditExtra)
          /\ reservation' = [reservation EXCEPT ![r].status = FinalStatus(amount, short)]
     ELSE UNCHANGED <<alloc, creditReserved, reservation>>

PaymentFits(r, amount, keyed, take, extra, creditTake, creditExtra, short) ==
  /\ take \in [Buckets -> Nat] /\ extra \in [Buckets -> Nat]
  /\ creditTake \in Nat /\ creditExtra \in Nat /\ short \in Nat
  /\ Sum(take) \in Nat /\ Sum(extra) \in Nat
  /\ \A b \in Buckets : take[b] <= Held(r, keyed)[b]
  /\ \A b \in Buckets : extra[b] <= Available(b, CapturedBuckets(r, keyed, take)[b])
  /\ creditTake <= HeldCredit(r, keyed)
  /\ creditExtra <= creditBalance - creditReserved
  /\ amount = Sum(take) + Sum(extra) + creditTake + creditExtra + short
  /\ amount <= Sum(Held(r, keyed)) + HeldCredit(r, keyed) => short = 0

LEMMA SettleFacts ==
  ASSUME IInv, NEW r \in Requests, NEW amount \in Amounts, NEW keyed \in BOOLEAN,
         SettleUsage(r, amount, keyed)
  PROVE  \E take, extra, creditTake, creditExtra, short :
           /\ Payment(r, amount, keyed, take, extra, creditTake, creditExtra, short)
           /\ PaymentFits(r, amount, keyed, take, extra, creditTake, creditExtra, short)
<1> DEFINE need1(take) == amount - Sum(take)
           creditTake(take) == Least(need1(take), HeldCredit(r, keyed))
           need2(take) == need1(take) - creditTake(take)
           rows(take) == CapturedBuckets(r, keyed, take)
           offer(take) == Offer(rows(take), r, incurredAt[r])
           need3(take, extra) == need2(take) - Sum(extra)
           creditExtra(take, extra) ==
             Least(need3(take, extra), AvailableCredit(creditBalance, creditReserved))
           shortfall(take, extra) == need3(take, extra) - creditExtra(take, extra)
           free == AvailableCredit(creditBalance, creditReserved)
           Outcome(take, extra) ==
             /\ bucket' = [b \in Buckets |-> Consume(rows(take)[b], extra[b])]
             /\ creditBalance' = creditBalance - (creditTake(take) + creditExtra(take, extra))
             /\ charge' = [charge EXCEPT ![r] =
                  [status |-> IF shortfall(take, extra) = 0 THEN "settled"
                              ELSE "insufficient_funds",
                   amount |-> amount,
                   subscription |-> Sum(take) + Sum(extra),
                   credit |-> creditTake(take) + creditExtra(take, extra)]]
             /\ IF keyed
                THEN /\ alloc' = [alloc EXCEPT ![r] =
                          [s \in Sources |->
                             IF s = Credit
                             THEN CapturedRow(alloc[r][s], creditTake(take),
                                              creditExtra(take, extra))
                             ELSE CapturedRow(alloc[r][s], take[s], extra[s])]]
                     /\ creditReserved' = creditReserved + creditExtra(take, extra)
                          - (alloc[r][Credit].reserved + creditExtra(take, extra))
                     /\ reservation' = [reservation EXCEPT ![r].status =
                          FinalStatus(amount, shortfall(take, extra))]
                ELSE UNCHANGED <<alloc, creditReserved, reservation>>
<1>0. PICK take \in DrawDowns(Buckets, Held(r, keyed), amount) :
        \E extra \in DrawDowns(Buckets, offer(take), need2(take)) : Outcome(take, extra)
  BY DEF SettleUsage
<1>1. PICK extra \in DrawDowns(Buckets, offer(take), need2(take)) : Outcome(take, extra)
  BY <1>0
<1>2. /\ Books(alloc, bucket, reservation, creditReserved)
      /\ creditBalance \in Nat /\ creditReserved \in Nat /\ creditReserved <= creditBalance
      /\ alloc \in [Requests -> [Sources -> Row]] /\ bucket \in [Buckets -> BucketRow]
      /\ amount \in Nat
  BY AmountsType DEF IInv, TypeOK, NoOverdraft
<1>3. \A s \in Sources : Outstanding(alloc[r][s]) \in Nat
  BY <1>2, OutstandingFacts
<1>4. /\ Held(r, keyed) \in [Buckets -> Nat]
      /\ \A b \in Buckets : Held(r, keyed)[b] = IF keyed THEN Outstanding(alloc[r][b]) ELSE 0
      /\ HeldCredit(r, keyed) \in Nat
      /\ HeldCredit(r, keyed) = IF keyed THEN Outstanding(alloc[r][Credit]) ELSE 0
  BY <1>3 DEF Held, HeldCredit, Sources
<1>5. /\ take \in [Buckets -> Nat] /\ Sum(take) \in Nat /\ Sum(take) <= amount
      /\ \A b \in Buckets : take[b] <= Held(r, keyed)[b]
  BY <1>2, <1>4, DrawDownFacts
<1>6. /\ creditTake(take) \in Nat /\ need2(take) \in Nat
      /\ creditTake(take) <= HeldCredit(r, keyed)
  BY <1>2, <1>4, <1>5 DEF Least
<1>7. rows(take) \in [Buckets -> BucketRow]
  <2>1. ASSUME NEW b \in Buckets
        PROVE  rows(take)[b] \in BucketRow
    <3> DEFINE back == Held(r, keyed)[b]
               touched == keyed /\ alloc[r][b].reserved > 0
               low == Unreserve(bucket[b], back, touched)
    <3>1. rows(take)[b] = Consume(low, take[b])
      BY DEF CapturedBuckets
    <3>2. bucket[b] \in BucketRow /\ back \in Nat /\ touched \in BOOLEAN /\ take[b] \in Nat
      BY <1>2, <1>4, <1>5
    <3> HIDE DEF back, touched, rows
    <3>3. low \in BucketRow
      BY <3>2, UnreserveFacts
    <3> HIDE DEF low
    <3> QED
      BY <3>1, <3>2, <3>3, ConsumeMore
  <2> QED
    BY <2>1 DEF CapturedBuckets
<1>8. /\ offer(take) \in [Buckets -> Nat]
      /\ \A b \in Buckets : offer(take)[b] <= Available(b, rows(take)[b])
  BY <1>7, OfferFacts
<1>9. /\ extra \in [Buckets -> Nat] /\ Sum(extra) \in Nat /\ Sum(extra) <= need2(take)
      /\ \A b \in Buckets : extra[b] <= offer(take)[b]
  <2> HIDE DEF offer, need2
  <2> QED
    BY <1>6, <1>8, DrawDownFacts
<1>10. \A b \in Buckets : extra[b] <= Available(b, rows(take)[b])
  <2>1. \A b \in Buckets : Available(b, rows(take)[b]) \in Nat
    <3> HIDE DEF rows
    <3> QED
      BY <1>7, GrantedType DEF Available, Monus, BucketRow
  <2>2. \A b \in Buckets : extra[b] \in Nat /\ offer(take)[b] \in Nat
    BY <1>8, <1>9
  <2> HIDE DEF offer, rows
  <2> QED
    BY <2>1, <2>2, <1>8, <1>9
<1> DEFINE cT == creditTake(take)
           cE == creditExtra(take, extra)
<1>11. free \in Nat /\ free = creditBalance - creditReserved
  BY <1>2 DEF AvailableCredit, Monus
<1>12. cE \in Nat /\ cE <= free /\ shortfall(take, extra) \in Nat
  <2>1. need3(take, extra) \in Nat
    <3> HIDE DEF need2
    <3> QED
      BY <1>6, <1>9
  <2> HIDE DEF need3, free
  <2> QED
    BY <2>1, <1>11 DEF Least, free
<1> DEFINE short == shortfall(take, extra)
<1>13. amount = Sum(take) + Sum(extra) + cT + cE + short
  <2>1. need1(take) = amount - Sum(take) /\ need2(take) = need1(take) - cT
        /\ need3(take, extra) = need2(take) - Sum(extra) /\ short = need3(take, extra) - cE
    OBVIOUS
  <2>2. cT \in Nat /\ cE \in Nat /\ short \in Nat
    BY <1>6, <1>12
  <2> HIDE DEF need1, need2, need3, cT, cE, short
  <2> QED
    BY <2>1, <2>2, <1>2, <1>5, <1>9
<1>14. ASSUME amount <= Sum(Held(r, keyed)) + HeldCredit(r, keyed)
       PROVE  short = 0
  <2>1. Sum(Held(r, keyed)) \in Nat
    BY <1>4, BucketsFinite, SumType
  <2>2. Sum(take) < amount => Sum(take) = Sum(Held(r, keyed))
    BY <1>2, <1>4, DrawDownFacts
  <2>3. need2(take) = 0
    BY <1>2, <1>4, <1>5, <1>14, <2>1, <2>2 DEF Least
  <2>4. need3(take, extra) = 0
    <3> HIDE DEF need2
    <3> QED
      BY <1>9, <2>3
  <2> HIDE DEF need3
  <2> QED
    BY <1>11, <2>4 DEF Least
<1>15. Payment(r, amount, keyed, take, extra, cT, cE, short)
  BY <1>1 DEF Payment
<1>16. PaymentFits(r, amount, keyed, take, extra, cT, cE, short)
  <2>1. cT \in Nat /\ cT <= HeldCredit(r, keyed)
    BY <1>6
  <2>2. \A b \in Buckets : extra[b] <= Available(b, CapturedBuckets(r, keyed, take)[b])
    BY <1>10
  <2>3. cE \in Nat /\ cE <= creditBalance - creditReserved /\ short \in Nat
    <3> HIDE DEF cE, short, free
    <3> QED
      BY <1>11, <1>12 DEF cE, short
  <2> HIDE DEF cT, cE, short
  <2> QED
    BY <1>5, <1>9, <1>13, <1>14, <2>1, <2>2, <2>3 DEF PaymentFits
<1> HIDE DEF cT, cE, short
<1> QED
  BY <1>15, <1>16

(***************************************************************************)
(* settle_usage keeps the books and pays with credit that is there.        *)
(***************************************************************************)
LEMMA SettleStep ==
  ASSUME IInv, NEW r \in Requests, NEW amount \in Amounts, NEW keyed \in BOOLEAN,
         SettleUsage(r, amount, keyed)
  PROVE  IInv'
<1>1. PICK take, extra, creditTake, creditExtra, short :
        /\ Payment(r, amount, keyed, take, extra, creditTake, creditExtra, short)
        /\ PaymentFits(r, amount, keyed, take, extra, creditTake, creditExtra, short)
  BY SettleFacts
<1>2. /\ Books(alloc, bucket, reservation, creditReserved)
      /\ creditBalance \in Nat /\ creditReserved \in Nat /\ creditReserved <= creditBalance
      /\ alloc \in [Requests -> [Sources -> Row]] /\ bucket \in [Buckets -> BucketRow]
      /\ amount \in Nat
  BY AmountsType DEF IInv, TypeOK, NoOverdraft
<1>3. /\ take \in [Buckets -> Nat] /\ extra \in [Buckets -> Nat]
      /\ creditTake \in Nat /\ creditExtra \in Nat /\ short \in Nat
      /\ Sum(take) \in Nat /\ Sum(extra) \in Nat
      /\ creditExtra <= creditBalance - creditReserved
      /\ creditTake <= HeldCredit(r, keyed)
      /\ \A b \in Buckets : take[b] <= Held(r, keyed)[b]
      /\ \A b \in Buckets : extra[b] <= Available(b, CapturedBuckets(r, keyed, take)[b])
  BY <1>1 DEF PaymentFits
<1>4. /\ \A b \in Buckets : Held(r, keyed)[b] = IF keyed THEN Outstanding(alloc[r][b]) ELSE 0
      /\ HeldCredit(r, keyed) = IF keyed THEN Outstanding(alloc[r][Credit]) ELSE 0
  BY DEF Held, HeldCredit
<1>5. charge' \in [Requests -> ChargeRow]
  <2> DEFINE st == IF short = 0 THEN "settled" ELSE "insufficient_funds"
             sub == Sum(take) + Sum(extra)
             cre == creditTake + creditExtra
             row == [status |-> st, amount |-> amount, subscription |-> sub, credit |-> cre]
  <2>1. st \in {"settled", "insufficient_funds"} /\ sub \in Nat /\ cre \in Nat
    BY <1>3
  <2>2. charge' = [charge EXCEPT ![r] = row]
    BY <1>1 DEF Payment
  <2>3. row \in ChargeRow
    <3> HIDE DEF st, sub, cre
    <3> QED
      BY <2>1, <1>2 DEF ChargeRow
  <2> HIDE DEF row
  <2> QED
    BY <2>2, <2>3 DEF IInv, TypeOK
<1>6. /\ Books(alloc', bucket', reservation', creditReserved')
      /\ creditBalance' \in Nat /\ creditReserved' <= creditBalance'
  <2>1. CASE keyed
    <3> DEFINE final == FinalStatus(amount, short)
    <3>1. reservation[r].status \in Open
      BY <2>1 DEF SettleUsage, Capturable
    <3>2. final \in {"captured", "partially_captured", "capture_failed"}
      BY DEF FinalStatus
    <3>3. \A b \in Buckets : take[b] <= Outstanding(alloc[r][b])
      BY <2>1, <1>3, <1>4
    <3>4. \A b \in Buckets : extra[b] <= Available(b, CapturedBuckets(r, TRUE, take)[b])
      BY <2>1, <1>3
    <3>5. creditTake <= Outstanding(alloc[r][Credit])
      BY <2>1, <1>3, <1>4
    <3>6. /\ bucket' = [b \in Buckets |-> Consume(CapturedBuckets(r, TRUE, take)[b], extra[b])]
          /\ alloc' = [alloc EXCEPT ![r] =
               [s \in Sources |->
                  IF s = Credit
                  THEN CapturedRow(alloc[r][s], creditTake, creditExtra)
                  ELSE CapturedRow(alloc[r][s], take[s], extra[s])]]
          /\ creditReserved' = creditReserved + creditExtra
               - (alloc[r][Credit].reserved + creditExtra)
          /\ reservation' = [reservation EXCEPT ![r].status = final]
          /\ creditBalance' = creditBalance - (creditTake + creditExtra)
      BY <2>1, <1>1 DEF Payment
    <3> HIDE DEF final
    <3>7. /\ Books(alloc', bucket', reservation', creditReserved')
          /\ alloc[r][Credit].reserved <= creditReserved
          /\ creditTake <= alloc[r][Credit].reserved
      BY <1>2, <1>3, <3>1, <3>2, <3>3, <3>4, <3>5, <3>6, CaptureBooks
    <3>8. alloc[r][Credit].reserved \in Nat
      BY <1>2 DEF Row, Sources
    <3>9. creditBalance' \in Nat /\ creditReserved' <= creditBalance'
      BY <1>2, <1>3, <3>6, <3>7, <3>8
    <3> QED
      BY <3>7, <3>9
  <2>2. CASE ~keyed
    <3>1. \A b \in Buckets : take[b] = 0
      BY <2>2, <1>3, <1>4
    <3>2. \A b \in Buckets : extra[b] <= Available(b, CapturedBuckets(r, FALSE, take)[b])
      BY <2>2, <1>3
    <3>3. creditTake = 0
      BY <2>2, <1>3, <1>4
    <3>4. /\ bucket' = [b \in Buckets |-> Consume(CapturedBuckets(r, FALSE, take)[b], extra[b])]
          /\ UNCHANGED <<alloc, creditReserved, reservation>>
          /\ creditBalance' = creditBalance - (creditTake + creditExtra)
      BY <2>2, <1>1 DEF Payment
    <3>5. Books(alloc', bucket', reservation', creditReserved')
      BY <1>2, <1>3, <3>1, <3>2, <3>4, SpendBooks
    <3> QED
      BY <1>2, <1>3, <3>3, <3>4, <3>5
  <2> QED
    BY <2>1, <2>2
<1>7. UNCHANGED <<now, credited, admission, used, incurredAt>>
  BY DEF SettleUsage
<1>8. TypeOK'
  BY <1>5, <1>6, <1>7 DEF IInv, TypeOK, Books
<1>9. NoOverdraft'
  BY <1>6 DEF NoOverdraft
<1> QED
  BY <1>6, <1>8, <1>9 DEF IInv

(***************************************************************************)
(* A bucket changes status and nothing else.                               *)
(***************************************************************************)
LEMMA BucketStep ==
  ASSUME IInv, NEW b \in Buckets, NEW st \in {"active", "paused", "draining", "expired"},
         st = "draining" => bucket[b].reserved > 0,
         bucket' = [bucket EXCEPT ![b].status = st],
         UNCHANGED <<now, creditBalance, creditReserved, credited, reservation,
                     alloc, admission, used, incurredAt, charge>>
  PROVE  IInv'
<1>1. Books(alloc, bucket, reservation, creditReserved) /\ bucket \in [Buckets -> BucketRow]
  BY DEF IInv, Books
<1> DEFINE new == [bucket[b] EXCEPT !.status = st]
<1>2. new = [reserved |-> bucket[b].reserved, consumed |-> bucket[b].consumed, status |-> st]
  BY <1>1 DEF BucketRow
<1>3. /\ new \in BucketRow /\ new.reserved = bucket[b].reserved
      /\ new.consumed = bucket[b].consumed /\ new.status = st
  BY <1>1, <1>2 DEF BucketRow
<1>4. bucket' = [bucket EXCEPT ![b] = new]
  BY <1>1
<1> HIDE DEF new
<1>5. /\ bucket' \in [Buckets -> BucketRow] /\ bucket'[b] = new
      /\ \A c \in Buckets \ {b} : bucket'[c] = bucket[c]
  BY <1>1, <1>3, <1>4
<1>6. \A c \in Buckets : /\ bucket'[c].reserved = bucket[c].reserved
                         /\ bucket'[c].consumed = bucket[c].consumed
                         /\ bucket'[c].status = "draining" => bucket'[c].reserved > 0
  BY <1>1, <1>3, <1>5 DEF Books
<1>7. Books(alloc', bucket', reservation', creditReserved')
  BY <1>1, <1>5, <1>6 DEF Books
<1>8. TypeOK'
  BY <1>5 DEF IInv, TypeOK
<1>9. NoOverdraft'
  BY DEF IInv, NoOverdraft
<1> QED
  BY <1>7, <1>8, <1>9 DEF IInv

(***************************************************************************)
(* Every step keeps the invariant.                                         *)
(***************************************************************************)
LEMMA NextIInv == IInv /\ [Next]_vars => IInv'
<1> SUFFICES ASSUME IInv, [Next]_vars PROVE IInv'
  OBVIOUS
<1> USE DEF TypeOK
<1>1. CASE Tick
  BY <1>1, QuietSteps DEF Tick, IInv
<1>2. ASSUME NEW c \in Credits, NEW amount \in Amounts, GrantCredit(c, amount)
      PROVE  IInv'
  <2>1. amount \in Nat
    BY AmountsType
  <2>2. /\ creditBalance' \in Nat /\ creditBalance <= creditBalance'
        /\ credited' \in [Credits -> Nat]
    BY <1>2, <2>1 DEF GrantCredit, IInv
  <2> QED
    BY <1>2, <2>2, QuietSteps DEF GrantCredit, IInv
<1>3. ASSUME NEW r \in Requests, AdmitWithoutReservation(r)
      PROVE  IInv'
  <2>1. admission' \in [Requests -> {"none", "held", "unheld", "rejected"}]
    BY <1>3 DEF AdmitWithoutReservation, IInv
  <2> QED
    BY <1>3, <2>1, QuietSteps DEF AdmitWithoutReservation, IInv
<1>4. ASSUME NEW r \in Requests, ReleaseRequest(r)
      PROVE  IInv'
  <2>1. /\ {r} \in SUBSET Requests /\ \A q \in {r} : reservation[q].status \in Open
        /\ CloseReservations({r}, "released")
        /\ UNCHANGED <<now, creditBalance, credited, admission, used, incurredAt, charge>>
    BY <1>4 DEF ReleaseRequest
  <2> QED
    BY <2>1, CloseStep
<1>5. ASSUME NEW r \in Requests, PersistUsage(r)
      PROVE  IInv'
  <2>1. used' \subseteq Requests /\ incurredAt' \in [Requests -> Nat]
    BY <1>5 DEF PersistUsage, IInv
  <2> QED
    BY <1>5, <2>1, QuietSteps DEF PersistUsage, IInv
<1>6. ASSUME NEW r \in Requests, RecordUnsettled(r)
      PROVE  IInv'
  <2>1. charge[r] \in ChargeRow
    BY DEF IInv
  <2> DEFINE row == [charge[r] EXCEPT !.status = "unbilled"]
  <2>2. row \in ChargeRow
    BY <2>1 DEF ChargeRow
  <2>3. charge' = [charge EXCEPT ![r] = row]
    BY <1>6 DEF RecordUnsettled, IInv
  <2> HIDE DEF row
  <2>4. charge' \in [Requests -> ChargeRow]
    BY <2>2, <2>3 DEF IInv
  <2> QED
    BY <1>6, <2>4, QuietSteps DEF RecordUnsettled, IInv
<1>7. ASSUME NEW r \in Requests, NEW t \in 0..now, ReuseReservation(r, t)
      PROVE  IInv'
  <2>1. admission' \in [Requests -> {"none", "held", "unheld", "rejected"}]
    BY <1>7 DEF ReuseReservation, IInv
  <2> QED
    BY <1>7, <2>1, QuietSteps DEF ReuseReservation, IInv
<1>8. ASSUME NEW r \in Requests, NEW amount \in Amounts, NEW t \in 0..now,
             ReserveShadow(r, amount, t)
      PROVE  IInv'
  BY <1>8, UnheldStep DEF ReserveShadow
<1>9. ASSUME NEW r \in Requests, NEW amount \in Amounts, NEW t \in 0..now,
             ReserveFunds(r, amount, t)
      PROVE  IInv'
  BY <1>9, ReserveFundsStep
<1>10. ASSUME NEW r \in Requests, NEW amount \in Amounts, NEW t \in 0..now,
              RefuseFunds(r, amount, t)
       PROVE  IInv'
  <2>1. CASE /\ admission' = [admission EXCEPT ![r] = "rejected"]
             /\ UNCHANGED <<reservation, alloc, bucket, creditReserved>>
    <3>1. admission' \in [Requests -> {"none", "held", "unheld", "rejected"}]
      BY <2>1 DEF IInv
    <3> QED
      BY <1>10, <2>1, <3>1, QuietSteps DEF RefuseFunds, IInv
  <2>2. CASE /\ InsertReservation(Lapsed(t), r, "soft_insufficient", amount, t)
             /\ alloc' = AllocAfter(Lapsed(t))
             /\ bucket' = BucketAfter(Lapsed(t))
             /\ creditReserved' = CreditReservedAfter(Lapsed(t))
             /\ Reply(r, "unheld")
    BY <1>10, <2>2, UnheldStep DEF RefuseFunds
  <2> QED
    BY <1>10, <2>1, <2>2 DEF RefuseFunds
<1>11. CASE Cleanup
  <2>1. PICK t \in 0..now : CleanupExpired(t)
    BY <1>11 DEF Cleanup
  <2>2. /\ Lapsed(t) \in SUBSET Requests
        /\ \A q \in Lapsed(t) : reservation[q].status \in Open
        /\ CloseReservations(Lapsed(t), "expired")
        /\ UNCHANGED <<now, creditBalance, credited, admission, used, incurredAt, charge>>
    BY <2>1 DEF CleanupExpired, Lapsed
  <2> QED
    BY <2>2, CloseStep
<1>12. ASSUME NEW r \in Requests, NEW amount \in Amounts, NEW keyed \in BOOLEAN,
              SettleUsage(r, amount, keyed)
       PROVE  IInv'
  BY <1>12, SettleStep
<1>13. ASSUME NEW b \in Buckets, RetireBucket(b) \/ PauseBucket(b) \/ ResumeBucket(b)
       PROVE  IInv'
  <2>1. CASE RetireBucket(b)
    BY <2>1, BucketStep DEF RetireBucket, RetiredStatus
  <2>2. CASE PauseBucket(b)
    BY <2>2, BucketStep DEF PauseBucket
  <2>3. CASE ResumeBucket(b)
    BY <2>3, BucketStep DEF ResumeBucket, RetiredStatus
  <2> QED
    BY <1>13, <2>1, <2>2, <2>3
<1>14. CASE UNCHANGED vars
  BY <1>14, QuietSteps DEF vars, IInv
<1> QED
  BY <1>1, <1>2, <1>3, <1>4, <1>5, <1>6, <1>7, <1>8, <1>9, <1>10, <1>11, <1>12,
     <1>13, <1>14 DEF Next

(***************************************************************************)
(* The inductive invariant holds in every reachable state.                 *)
(***************************************************************************)
THEOREM IInvHolds == Spec => []IInv
BY InitIInv, NextIInv, PTL DEF Spec

(***************************************************************************)
(* The rows always have their types; the wallet's snapshots never become   *)
(* negative.                                                               *)
(***************************************************************************)
THEOREM TypesHold == Spec => []TypeOK
<1>1. IInv => TypeOK
  BY DEF IInv
<1> QED
  BY <1>1, IInvHolds, PTL

(***************************************************************************)
(* Credit promised to open reservations is always in the balance.          *)
(***************************************************************************)
THEOREM CreditIsNeverOverdrawn == Spec => []NoOverdraft
<1>1. IInv => NoOverdraft
  BY DEF IInv
<1> QED
  BY <1>1, IInvHolds, PTL

(***************************************************************************)
(* The reserved snapshot of the wallet is what its open reservations hold. *)
(***************************************************************************)
THEOREM SnapshotIsExact == Spec => []ReservedSnapshot
<1>1. IInv => ReservedSnapshot
  BY DEF IInv, Books, CreditColumn, ReservedSnapshot, OpenCredit
<1> QED
  BY <1>1, IInvHolds, PTL

(***************************************************************************)
(* A bucket never owes more than it was granted, and a draining bucket     *)
(* waits for a hold.                                                       *)
(***************************************************************************)
THEOREM BucketsAreNeverOversold == Spec => [](BucketsNotOversold /\ DrainingHasHolds)
<1>1. IInv => BucketsNotOversold /\ DrainingHasHolds
  BY DEF IInv, Books, HoldColumn, BucketsNotOversold, BucketHolds, DrainingHasHolds
<1> QED
  BY <1>1, IInvHolds, PTL

(***************************************************************************)
(* Allocation rows follow the status of their reservation.                 *)
(***************************************************************************)
THEOREM HoldsAreSettledOnce == Spec => []RowsFollowStatus
<1>1. IInv => RowsFollowStatus
  BY DEF IInv, Books, RowsFollowStatus
<1> QED
  BY <1>1, IInvHolds, PTL

-----------------------------------------------------------------------------
(***************************************************************************)
(* The accounts: what was charged, next to what the buckets and the ledger *)
(* gave, and what a funded hold is worth.                                  *)
(***************************************************************************)
HoldTotal(rows) == Sum([b \in Buckets |-> rows[b].reserved]) + rows[Credit].reserved

Whole(al, rs) ==
  \A r \in Requests : rs[r].status = "reserved" => HoldTotal(al[r]) = rs[r].amount

ConsumedColumn(bk) == [b \in Buckets |-> bk[b].consumed]
TakenColumn(ch) == [r \in Requests |-> ch[r].subscription]
SpentColumn(ch) == [r \in Requests |-> ch[r].credit]

\* A charge row says it is settled exactly when it is paid in full.
AddsUp(row) ==
  CASE row.status = "settled" -> row.subscription + row.credit = row.amount
    [] row.status = "insufficient_funds" -> row.subscription + row.credit < row.amount
    [] OTHER -> row.subscription + row.credit = 0

Explained(bk, ch, balance, entries) ==
  /\ balance + Sum(SpentColumn(ch)) = Sum(entries)
  /\ Sum(ConsumedColumn(bk)) = Sum(TakenColumn(ch))
  /\ \A r \in Requests : AddsUp(ch[r])

Accounts ==
  /\ IInv
  /\ Explained(bucket, charge, creditBalance, credited)
  /\ Whole(alloc, reservation)

LEMMA ExplainedIsExplained ==
  Explained(bucket, charge, creditBalance, credited) => ChargesExplainSpending
BY DEF Explained, AddsUp, SpentColumn, TakenColumn, ConsumedColumn,
       ChargesExplainSpending, LedgerSnapshot

(***************************************************************************)
(* The columns are columns of naturals.                                    *)
(***************************************************************************)
LEMMA AccountColumns ==
  ASSUME NEW bk \in [Buckets -> BucketRow], NEW ch \in [Requests -> ChargeRow]
  PROVE  /\ ConsumedColumn(bk) \in [Buckets -> Nat] /\ Sum(ConsumedColumn(bk)) \in Nat
         /\ TakenColumn(ch) \in [Requests -> Nat] /\ Sum(TakenColumn(ch)) \in Nat
         /\ SpentColumn(ch) \in [Requests -> Nat] /\ Sum(SpentColumn(ch)) \in Nat
<1>1. ConsumedColumn(bk) \in [Buckets -> Nat]
  BY DEF ConsumedColumn, BucketRow
<1>2. TakenColumn(ch) \in [Requests -> Nat]
  BY DEF TakenColumn, ChargeRow
<1>3. SpentColumn(ch) \in [Requests -> Nat]
  BY DEF SpentColumn, ChargeRow
<1> QED
  BY <1>1, <1>2, <1>3, SumType, RequestsFinite, BucketsFinite

(***************************************************************************)
(* A step that moves no money and consumes nothing.                        *)
(***************************************************************************)
LEMMA NothingSpent ==
  ASSUME Explained(bucket, charge, creditBalance, credited),
         UNCHANGED <<creditBalance, credited, charge>>,
         \A b \in Buckets : bucket'[b].consumed = bucket[b].consumed
  PROVE  Explained(bucket', charge', creditBalance', credited')
<1>1. ConsumedColumn(bucket') = ConsumedColumn(bucket)
  BY DEF ConsumedColumn
<1> QED
  BY <1>1 DEF Explained

(***************************************************************************)
(* Closing reservations leaves the other holds whole.                      *)
(***************************************************************************)
LEMMA WholeAfterClose ==
  ASSUME Whole(alloc, reservation), NEW E \in SUBSET Requests,
         reservation \in [Requests -> ReservationRow],
         NEW final \in {"released", "expired"}
  PROVE  Whole(AllocAfter(E), ReservationAfter(E, final))
<1> SUFFICES ASSUME NEW q \in Requests,
                    ReservationAfter(E, final)[q].status = "reserved"
             PROVE  HoldTotal(AllocAfter(E)[q]) = ReservationAfter(E, final)[q].amount
  BY DEF Whole
<1>1. q \notin E
  BY DEF ReservationAfter, ReservationRow
<1>2. AllocAfter(E)[q] = alloc[q] /\ ReservationAfter(E, final)[q] = reservation[q]
  BY <1>1 DEF AllocAfter, ReservationAfter
<1> QED
  BY <1>2 DEF Whole

(***************************************************************************)
(* A new reservation is whole when what it takes adds up to its amount.    *)
(***************************************************************************)
LEMMA WholeAfterInsert ==
  ASSUME NEW al \in [Requests -> [Sources -> Row]], NEW rs \in [Requests -> ReservationRow],
         Whole(al, rs), NEW r \in Requests, NEW rows, NEW new,
         new.status = "reserved" => HoldTotal(rows) = new.amount
  PROVE  Whole([al EXCEPT ![r] = rows], [rs EXCEPT ![r] = new])
BY DEF Whole

LEMMA HeldRowsTotal ==
  ASSUME NEW take \in [Buckets -> Nat], NEW amount \in Nat, Sum(take) \in Nat
  PROVE  HoldTotal(HeldRows(take, amount)) = amount
<1>1. /\ HeldRows(take, amount)[Credit].reserved = amount - Sum(take)
      /\ \A b \in Buckets : HeldRows(take, amount)[b].reserved = take[b]
  BY CreditIsNoBucket DEF HeldRows, Sources, NoRow
<1>2. [b \in Buckets |-> HeldRows(take, amount)[b].reserved] = take
  BY <1>1
<1> QED
  BY <1>1, <1>2 DEF HoldTotal

(***************************************************************************)
(* The accounts initially.                                                 *)
(***************************************************************************)
LEMMA InitAccounts == Init => Accounts
<1> SUFFICES ASSUME Init PROVE Accounts
  OBVIOUS
<1>1. IInv
  BY InitIInv
<1>2. Whole(alloc, reservation)
  BY DEF Init, Whole
<1>3. /\ \A b \in Buckets : bucket[b].consumed = 0
      /\ \A r \in Requests : charge[r] = NoCharge
      /\ credited \in [Credits -> Nat] /\ \A c \in Credits : credited[c] = 0
      /\ creditBalance = 0
  BY DEF Init
<1>4. /\ ConsumedColumn(bucket) \in [Buckets -> Nat]
      /\ TakenColumn(charge) \in [Requests -> Nat]
      /\ SpentColumn(charge) \in [Requests -> Nat]
  BY <1>1, AccountColumns DEF IInv, TypeOK
<1>5. /\ \A b \in Buckets : ConsumedColumn(bucket)[b] = 0
      /\ \A r \in Requests : TakenColumn(charge)[r] = 0 /\ SpentColumn(charge)[r] = 0
  BY <1>3 DEF ConsumedColumn, TakenColumn, SpentColumn, NoCharge
<1>6. /\ Sum(ConsumedColumn(bucket)) = 0 /\ Sum(TakenColumn(charge)) = 0
      /\ Sum(SpentColumn(charge)) = 0 /\ Sum(credited) = 0
  BY <1>3, <1>4, <1>5, SumZero
<1>7. \A r \in Requests : AddsUp(charge[r])
  BY <1>3 DEF AddsUp, NoCharge
<1> QED
  BY <1>1, <1>2, <1>3, <1>6, <1>7 DEF Accounts, Explained

(***************************************************************************)
(* A grant adds its amount to the balance and to the ledger.               *)
(***************************************************************************)
LEMMA GrantAccounts ==
  ASSUME Accounts, NEW c \in Credits, NEW amount \in Amounts, GrantCredit(c, amount)
  PROVE  Explained(bucket', charge', creditBalance', credited')
<1>1. /\ credited[c] = 0 /\ credited' = [credited EXCEPT ![c] = amount]
      /\ creditBalance' = creditBalance + amount
      /\ UNCHANGED <<bucket, charge>>
  BY DEF GrantCredit
<1>2. credited \in [Credits -> Nat] /\ amount \in Nat /\ creditBalance \in Nat
  BY AmountsType DEF Accounts, IInv, TypeOK
<1>3. /\ credited' \in [Credits -> Nat] /\ credited'[c] = amount
      /\ \A d \in Credits \ {c} : credited'[d] = credited[d]
  BY <1>1, <1>2
<1>4. /\ Sum(credited) \in Nat /\ Sum(credited') \in Nat
      /\ Sum(credited') + credited[c] = Sum(credited) + credited'[c]
  BY <1>2, <1>3, SumUpdate, CreditsFinite
<1>5. Sum(SpentColumn(charge)) \in Nat
  BY AccountColumns DEF Accounts, IInv, TypeOK
<1>6. creditBalance + Sum(SpentColumn(charge)) = Sum(credited)
  BY DEF Accounts, Explained
<1>7. creditBalance' + Sum(SpentColumn(charge)) = Sum(credited')
  BY <1>1, <1>2, <1>3, <1>4, <1>5, <1>6
<1> QED
  BY <1>1, <1>7 DEF Accounts, Explained

(***************************************************************************)
(* A first charge row adds what it took to the totals.                     *)
(***************************************************************************)
LEMMA ChargeTotals ==
  ASSUME Accounts, NEW r \in Requests, charge[r].status = "none",
         NEW row \in ChargeRow, charge' = [charge EXCEPT ![r] = row], AddsUp(row)
  PROVE  /\ Sum(TakenColumn(charge')) = Sum(TakenColumn(charge)) + row.subscription
         /\ Sum(SpentColumn(charge')) = Sum(SpentColumn(charge)) + row.credit
         /\ \A q \in Requests : AddsUp(charge'[q])
<1>1. charge \in [Requests -> ChargeRow]
  BY DEF Accounts, IInv, TypeOK
<1>2. /\ charge' \in [Requests -> ChargeRow] /\ charge'[r] = row
      /\ \A q \in Requests \ {r} : charge'[q] = charge[q]
  BY <1>1
<1>3. \A q \in Requests : AddsUp(charge[q])
  BY DEF Accounts, Explained
<1>4. charge[r].subscription \in Nat /\ charge[r].credit \in Nat
      /\ row.subscription \in Nat /\ row.credit \in Nat
  BY <1>1 DEF ChargeRow
<1>5. charge[r].subscription + charge[r].credit = 0
  BY <1>3 DEF AddsUp
<1>6. /\ TakenColumn(charge) \in [Requests -> Nat] /\ TakenColumn(charge') \in [Requests -> Nat]
      /\ SpentColumn(charge) \in [Requests -> Nat] /\ SpentColumn(charge') \in [Requests -> Nat]
  BY <1>1, <1>2 DEF TakenColumn, SpentColumn, ChargeRow
<1>7. /\ TakenColumn(charge)[r] = 0 /\ SpentColumn(charge)[r] = 0
      /\ TakenColumn(charge')[r] = row.subscription /\ SpentColumn(charge')[r] = row.credit
      /\ \A q \in Requests \ {r} : /\ TakenColumn(charge')[q] = TakenColumn(charge)[q]
                                   /\ SpentColumn(charge')[q] = SpentColumn(charge)[q]
  BY <1>2, <1>4, <1>5 DEF TakenColumn, SpentColumn
<1>8. /\ Sum(TakenColumn(charge)) \in Nat /\ Sum(TakenColumn(charge')) \in Nat
      /\ Sum(TakenColumn(charge')) + TakenColumn(charge)[r]
           = Sum(TakenColumn(charge)) + TakenColumn(charge')[r]
  <2> DEFINE f == TakenColumn(charge)
             g == TakenColumn(charge')
  <2>1. f \in [Requests -> Nat] /\ g \in [Requests -> Nat]
    BY <1>6
  <2>2. \A q \in Requests \ {r} : g[q] = f[q]
    BY <1>7
  <2> HIDE DEF f, g
  <2>3. /\ Sum(f) \in Nat /\ Sum(g) \in Nat
        /\ Sum(g) + f[r] = Sum(f) + g[r]
    BY <2>1, <2>2, SumUpdate, RequestsFinite
  <2> QED
    BY <2>3 DEF f, g
<1>9. /\ Sum(SpentColumn(charge)) \in Nat /\ Sum(SpentColumn(charge')) \in Nat
      /\ Sum(SpentColumn(charge')) + SpentColumn(charge)[r]
           = Sum(SpentColumn(charge)) + SpentColumn(charge')[r]
  <2> DEFINE f == SpentColumn(charge)
             g == SpentColumn(charge')
  <2>1. f \in [Requests -> Nat] /\ g \in [Requests -> Nat]
    BY <1>6
  <2>2. \A q \in Requests \ {r} : g[q] = f[q]
    BY <1>7
  <2> HIDE DEF f, g
  <2>3. /\ Sum(f) \in Nat /\ Sum(g) \in Nat
        /\ Sum(g) + f[r] = Sum(f) + g[r]
    BY <2>1, <2>2, SumUpdate, RequestsFinite
  <2> QED
    BY <2>3 DEF f, g
<1>10. \A q \in Requests : AddsUp(charge'[q])
  BY <1>2, <1>3
<1> QED
  BY <1>4, <1>7, <1>8, <1>9, <1>10

(***************************************************************************)
(* A payment consumes what it takes from the buckets, within the hold and  *)
(* beyond it.                                                              *)
(***************************************************************************)
LEMMA PaymentConsumes ==
  ASSUME IInv, NEW r \in Requests, NEW amount, NEW keyed \in BOOLEAN,
         NEW take, NEW extra, NEW creditTake, NEW creditExtra, NEW short,
         Payment(r, amount, keyed, take, extra, creditTake, creditExtra, short),
         PaymentFits(r, amount, keyed, take, extra, creditTake, creditExtra, short)
  PROVE  Sum(ConsumedColumn(bucket'))
           = Sum(ConsumedColumn(bucket)) + Sum(take) + Sum(extra)
<1> DEFINE before == ConsumedColumn(bucket)
           between == [b \in Buckets |-> before[b] + take[b]]
           after == ConsumedColumn(bucket')
<1>1. take \in [Buckets -> Nat] /\ extra \in [Buckets -> Nat]
  BY DEF PaymentFits
<1>2. before \in [Buckets -> Nat]
  BY AccountColumns DEF IInv, TypeOK
<1>3. ASSUME NEW b \in Buckets
      PROVE  after[b] = before[b] + take[b] + extra[b]
  <2>1. bucket'[b] = Consume(CapturedBuckets(r, keyed, take)[b], extra[b])
    BY DEF Payment
  <2> DEFINE low == Unreserve(bucket[b], Held(r, keyed)[b], keyed /\ alloc[r][b].reserved > 0)
             mid == Consume(low, take[b])
  <2>2. CapturedBuckets(r, keyed, take)[b] = mid
    BY DEF CapturedBuckets
  <2>3. low.consumed = bucket[b].consumed
    BY DEF Unreserve
  <2>4. DOMAIN low = {"reserved", "consumed", "status"}
    BY DEF Unreserve
  <2> HIDE DEF low
  <2>5. mid.consumed = low.consumed + take[b] /\ DOMAIN mid = {"reserved", "consumed", "status"}
    BY <2>4 DEF Consume
  <2> HIDE DEF mid
  <2>6. bucket'[b].consumed = mid.consumed + extra[b]
    BY <2>1, <2>2, <2>5 DEF Consume
  <2> QED
    BY <2>3, <2>5, <2>6 DEF ConsumedColumn
<1>4. between \in [Buckets -> Nat] /\ \A b \in Buckets : between[b] = before[b] + take[b]
  BY <1>1, <1>2
<1>5. after \in [Buckets -> Nat] /\ \A b \in Buckets : after[b] = between[b] + extra[b]
  <2>1. \A b \in Buckets : after[b] \in Nat /\ after[b] = between[b] + extra[b]
    BY <1>1, <1>2, <1>3, <1>4
  <2> QED
    BY <2>1 DEF ConsumedColumn
<1> HIDE DEF before, between, after
<1>6. IsFiniteSet(Buckets)
  BY BucketsFinite
<1>7. /\ Sum(before) \in Nat /\ Sum(take) \in Nat
      /\ Sum(between) = Sum(before) + Sum(take)
  BY <1>1, <1>2, <1>4, <1>6, SumAdd
<1>8. Sum(extra) \in Nat /\ Sum(after) = Sum(between) + Sum(extra)
  BY <1>1, <1>4, <1>5, <1>6, SumAdd
<1> QED
  BY <1>7, <1>8 DEF before, after

(***************************************************************************)
(* Settlement: what it bills is what it took, and it is settled exactly    *)
(* when nothing is short.                                                  *)
(***************************************************************************)
LEMMA SettleAccounts ==
  ASSUME Accounts, NEW r \in Requests, NEW amount \in Amounts, NEW keyed \in BOOLEAN,
         SettleUsage(r, amount, keyed)
  PROVE  /\ Explained(bucket', charge', creditBalance', credited')
         /\ Whole(alloc', reservation')
<1>1. PICK take, extra, creditTake, creditExtra, short :
        /\ Payment(r, amount, keyed, take, extra, creditTake, creditExtra, short)
        /\ PaymentFits(r, amount, keyed, take, extra, creditTake, creditExtra, short)
  BY SettleFacts DEF Accounts
<1>2. /\ creditTake \in Nat /\ creditExtra \in Nat /\ short \in Nat
      /\ Sum(take) \in Nat /\ Sum(extra) \in Nat
      /\ amount = Sum(take) + Sum(extra) + creditTake + creditExtra + short
  BY <1>1 DEF PaymentFits
<1> DEFINE row == [status |-> IF short = 0 THEN "settled" ELSE "insufficient_funds",
                   amount |-> amount,
                   subscription |-> Sum(take) + Sum(extra),
                   credit |-> creditTake + creditExtra]
<1>3. /\ charge' = [charge EXCEPT ![r] = row] /\ charge[r].status = "none"
      /\ creditBalance' = creditBalance - row.credit
      /\ credited' = credited
  BY <1>1 DEF Payment, SettleUsage
<1>4. row \in ChargeRow
  <2>1. /\ (IF short = 0 THEN "settled" ELSE "insufficient_funds")
             \in {"none", "settled", "insufficient_funds", "unbilled"}
        /\ Sum(take) + Sum(extra) \in Nat /\ creditTake + creditExtra \in Nat
        /\ amount \in Nat
    BY <1>2, AmountsType
  <2> QED
    BY <2>1 DEF ChargeRow
<1>5. AddsUp(row)
  <2>1. CASE short = 0
    BY <2>1, <1>2 DEF AddsUp
  <2>2. CASE short # 0
    BY <2>2, <1>2 DEF AddsUp
  <2> QED
    BY <2>1, <2>2
<1>6. row.subscription = Sum(take) + Sum(extra) /\ row.credit \in Nat
  BY <1>2
<1> HIDE DEF row
<1>7. /\ Sum(TakenColumn(charge')) = Sum(TakenColumn(charge)) + row.subscription
      /\ Sum(SpentColumn(charge')) = Sum(SpentColumn(charge)) + row.credit
      /\ \A q \in Requests : AddsUp(charge'[q])
  BY <1>3, <1>4, <1>5, ChargeTotals
<1>8. Sum(ConsumedColumn(bucket')) = Sum(ConsumedColumn(bucket)) + Sum(take) + Sum(extra)
  BY <1>1, PaymentConsumes DEF Accounts
<1>9. /\ Sum(SpentColumn(charge)) \in Nat /\ Sum(TakenColumn(charge)) \in Nat
      /\ Sum(ConsumedColumn(bucket)) \in Nat /\ creditBalance \in Nat
  BY AccountColumns DEF Accounts, IInv, TypeOK
<1>10. /\ creditBalance + Sum(SpentColumn(charge)) = Sum(credited)
       /\ Sum(ConsumedColumn(bucket)) = Sum(TakenColumn(charge))
  BY DEF Accounts, Explained
<1>11. Sum(ConsumedColumn(bucket')) = Sum(TakenColumn(charge'))
  BY <1>2, <1>6, <1>7, <1>8, <1>9, <1>10
<1>12. creditBalance' + Sum(SpentColumn(charge')) = Sum(credited')
  BY <1>3, <1>6, <1>7, <1>9, <1>10
<1>13. Explained(bucket', charge', creditBalance', credited')
  BY <1>7, <1>11, <1>12 DEF Explained
<1>14. Whole(alloc', reservation')
  <2>1. CASE keyed
    <3> DEFINE final == FinalStatus(amount, short)
    <3>1. final # "reserved"
      BY DEF FinalStatus
    <3> HIDE DEF final
    <3>2. /\ reservation' = [reservation EXCEPT ![r].status = final]
          /\ \A q \in Requests \ {r} : alloc'[q] = alloc[q]
      BY <2>1, <1>1 DEF Payment, final, Accounts, IInv, TypeOK
    <3>3. /\ reservation'[r].status = final
          /\ \A q \in Requests \ {r} : reservation'[q] = reservation[q]
      BY <3>2 DEF Accounts, IInv, TypeOK, ReservationRow
    <3> QED
      BY <3>1, <3>2, <3>3 DEF Accounts, Whole
  <2>2. CASE ~keyed
    BY <2>2, <1>1 DEF Payment, Accounts, Whole
  <2> QED
    BY <2>1, <2>2
<1> QED
  BY <1>13, <1>14

(***************************************************************************)
(* reserve_request: a sweep, then a row that holds nothing or a hold that  *)
(* is worth its amount.                                                    *)
(***************************************************************************)
LEMMA SweepAccounts ==
  ASSUME Accounts, NEW t
  PROVE  /\ AllocAfter(Lapsed(t)) \in [Requests -> [Sources -> Row]]
         /\ ReservationAfter(Lapsed(t), "expired") \in [Requests -> ReservationRow]
         /\ BucketAfter(Lapsed(t)) \in [Buckets -> BucketRow]
         /\ \A b \in Buckets : BucketAfter(Lapsed(t))[b].consumed = bucket[b].consumed
         /\ Whole(AllocAfter(Lapsed(t)), ReservationAfter(Lapsed(t), "expired"))
<1>1. Lapsed(t) \in SUBSET Requests /\ \A q \in Lapsed(t) : reservation[q].status \in Open
  BY DEF Lapsed
<1>2. /\ Books(AllocAfter(Lapsed(t)), BucketAfter(Lapsed(t)),
               ReservationAfter(Lapsed(t), "expired"), CreditReservedAfter(Lapsed(t)))
      /\ \A b \in Buckets : BucketAfter(Lapsed(t))[b].consumed = bucket[b].consumed
  BY <1>1, CloseBooks DEF Accounts, IInv
<1>3. Whole(AllocAfter(Lapsed(t)), ReservationAfter(Lapsed(t), "expired"))
  BY <1>1, WholeAfterClose DEF Accounts, IInv, TypeOK
<1> QED
  BY <1>2, <1>3 DEF Books

LEMMA UnheldAccounts ==
  ASSUME Accounts, NEW r \in Requests, NEW amount, NEW t,
         NEW st \in {"shadow_reserved", "soft_insufficient"},
         InsertReservation(Lapsed(t), r, st, amount, t),
         reservation[r].status = "none",
         alloc' = AllocAfter(Lapsed(t)), bucket' = BucketAfter(Lapsed(t)),
         UNCHANGED <<creditBalance, credited, charge>>
  PROVE  /\ Explained(bucket', charge', creditBalance', credited')
         /\ Whole(alloc', reservation')
<1> DEFINE new == [status |-> st, amount |-> amount, expires |-> t + TTL]
<1>1. reservation' = [ReservationAfter(Lapsed(t), "expired") EXCEPT ![r] = new]
  BY DEF InsertReservation
<1>2. new.status # "reserved"
  OBVIOUS
<1> HIDE DEF new
<1>3. Whole(alloc', reservation')
  BY <1>1, <1>2, SweepAccounts DEF Whole
<1>4. Explained(bucket', charge', creditBalance', credited')
  BY SweepAccounts, NothingSpent DEF Accounts
<1> QED
  BY <1>3, <1>4

LEMMA ReserveAccounts ==
  ASSUME Accounts, NEW r \in Requests, NEW amount \in Amounts, NEW t \in 0..now,
         ReserveFunds(r, amount, t)
  PROVE  /\ Explained(bucket', charge', creditBalance', credited')
         /\ Whole(alloc', reservation')
<1> DEFINE rows == BucketAfter(Lapsed(t))
           offer == Offer(rows, r, t)
           new == [status |-> "reserved", amount |-> amount, expires |-> t + TTL]
<1>1. PICK take \in DrawDowns(Buckets, offer, amount) :
        /\ alloc' = [AllocAfter(Lapsed(t)) EXCEPT ![r] = HeldRows(take, amount)]
        /\ bucket' = [b \in Buckets |-> Reserve(rows[b], take[b])]
  BY DEF ReserveFunds
<1>2. /\ reservation' = [ReservationAfter(Lapsed(t), "expired") EXCEPT ![r] = new]
      /\ UNCHANGED <<creditBalance, credited, charge>>
  BY DEF ReserveFunds, InsertReservation
<1>3. /\ rows \in [Buckets -> BucketRow]
      /\ \A b \in Buckets : rows[b].consumed = bucket[b].consumed
  BY SweepAccounts
<1> HIDE DEF rows
<1>4. offer \in [Buckets -> Nat]
  BY <1>3, OfferFacts
<1>5. amount \in Nat
  BY AmountsType
<1> HIDE DEF offer
<1>6. take \in [Buckets -> Nat] /\ Sum(take) \in Nat
  BY <1>4, <1>5, DrawDownFacts
<1>7. \A b \in Buckets : bucket'[b].consumed = bucket[b].consumed
  <2> TAKE b \in Buckets
  <2>1. rows[b] \in BucketRow /\ take[b] \in Nat /\ bucket'[b] = Reserve(rows[b], take[b])
    BY <1>1, <1>3, <1>6
  <2> QED
    BY <2>1, <1>3, ReserveMore
<1>8. HoldTotal(HeldRows(take, amount)) = amount
  BY <1>5, <1>6, HeldRowsTotal
<1>9. new.amount = amount
  OBVIOUS
<1> HIDE DEF new
<1>10. Whole(alloc', reservation')
  BY <1>1, <1>2, <1>8, <1>9, SweepAccounts, WholeAfterInsert
<1>11. Explained(bucket', charge', creditBalance', credited')
  BY <1>2, <1>7, NothingSpent DEF Accounts
<1> QED
  BY <1>10, <1>11

(***************************************************************************)
(* Every step keeps the accounts.                                          *)
(***************************************************************************)
LEMMA NextAccounts == Accounts /\ [Next]_vars => Accounts'
<1> SUFFICES ASSUME Accounts, [Next]_vars
             PROVE  /\ Explained(bucket', charge', creditBalance', credited')
                    /\ Whole(alloc', reservation')
  BY NextIInv DEF Accounts, Explained, Whole
<1> DEFINE Kept == /\ Explained(bucket', charge', creditBalance', credited')
                   /\ Whole(alloc', reservation')
<1>1. ASSUME UNCHANGED <<creditBalance, credited, reservation, alloc, bucket, charge>>
      PROVE  Kept
  BY <1>1 DEF Accounts, Explained, Whole
<1>2. ASSUME NEW c \in Credits, NEW amount \in Amounts, GrantCredit(c, amount)
      PROVE  Kept
  <2>1. Whole(alloc', reservation')
    BY <1>2 DEF GrantCredit, Accounts, Whole
  <2> QED
    BY <1>2, <2>1, GrantAccounts
<1>3. ASSUME NEW E \in SUBSET Requests, \A q \in E : reservation[q].status \in Open,
             NEW final \in {"released", "expired"}, CloseReservations(E, final),
             UNCHANGED <<creditBalance, credited, charge>>
      PROVE  Kept
  <2>1. alloc' = AllocAfter(E) /\ bucket' = BucketAfter(E)
        /\ reservation' = ReservationAfter(E, final)
    BY <1>3 DEF CloseReservations
  <2>2. \A b \in Buckets : BucketAfter(E)[b].consumed = bucket[b].consumed
    BY <1>3, CloseBooks DEF Accounts, IInv
  <2>3. Whole(alloc', reservation')
    BY <1>3, <2>1, WholeAfterClose DEF Accounts, IInv, TypeOK
  <2> QED
    BY <1>3, <2>1, <2>2, <2>3, NothingSpent DEF Accounts
<1>4. ASSUME NEW r \in Requests, RecordUnsettled(r)
      PROVE  Kept
  <2> DEFINE row == [charge[r] EXCEPT !.status = "unbilled"]
  <2>1. /\ charge[r] \in ChargeRow /\ AddsUp(charge[r]) /\ charge[r].status = "none"
        /\ charge \in [Requests -> ChargeRow]
    BY <1>4 DEF RecordUnsettled, Accounts, IInv, TypeOK, Explained
  <2>2. row \in ChargeRow
    BY <2>1 DEF ChargeRow
  <2>3. row.subscription = 0 /\ row.credit = 0 /\ row.status = "unbilled"
    BY <2>1 DEF ChargeRow, AddsUp
  <2>4. charge' = [charge EXCEPT ![r] = row]
    BY <1>4, <2>1 DEF RecordUnsettled
  <2> HIDE DEF row
  <2>5. AddsUp(row)
    BY <2>3 DEF AddsUp
  <2>6. /\ Sum(TakenColumn(charge')) = Sum(TakenColumn(charge)) + 0
        /\ Sum(SpentColumn(charge')) = Sum(SpentColumn(charge)) + 0
        /\ \A q \in Requests : AddsUp(charge'[q])
    BY <2>1, <2>2, <2>3, <2>4, <2>5, ChargeTotals
  <2>7. Sum(TakenColumn(charge)) \in Nat /\ Sum(SpentColumn(charge)) \in Nat
    BY AccountColumns DEF Accounts, IInv, TypeOK
  <2>8. UNCHANGED <<bucket, creditBalance, credited, alloc, reservation>>
    BY <1>4 DEF RecordUnsettled
  <2>9. Whole(alloc', reservation')
    BY <2>8 DEF Accounts, Whole
  <2> QED
    BY <2>6, <2>7, <2>8, <2>9 DEF Accounts, Explained
<1>5. ASSUME NEW r \in Requests, NEW amount \in Amounts, NEW t \in 0..now,
             ReserveShadow(r, amount, t)
      PROVE  Kept
  BY <1>5, UnheldAccounts DEF ReserveShadow
<1>6. ASSUME NEW r \in Requests, NEW amount \in Amounts, NEW t \in 0..now,
             RefuseFunds(r, amount, t)
      PROVE  Kept
  <2>1. CASE UNCHANGED <<reservation, alloc, bucket, creditReserved>>
    BY <1>6, <2>1, <1>1 DEF RefuseFunds
  <2>2. CASE /\ InsertReservation(Lapsed(t), r, "soft_insufficient", amount, t)
             /\ alloc' = AllocAfter(Lapsed(t))
             /\ bucket' = BucketAfter(Lapsed(t))
    BY <1>6, <2>2, UnheldAccounts DEF RefuseFunds
  <2> QED
    BY <1>6, <2>1, <2>2 DEF RefuseFunds
<1>7. ASSUME NEW b \in Buckets, NEW st, bucket' = [bucket EXCEPT ![b].status = st],
             UNCHANGED <<creditBalance, credited, reservation, alloc, charge>>
      PROVE  Kept
  <2>1. \A c \in Buckets : bucket'[c].consumed = bucket[c].consumed
    BY <1>7 DEF Accounts, IInv, TypeOK, BucketRow
  <2>2. Whole(alloc', reservation')
    BY <1>7 DEF Accounts, Whole
  <2> QED
    BY <1>7, <2>1, <2>2, NothingSpent DEF Accounts
<1>8. CASE Tick
  BY <1>8, <1>1 DEF Tick
<1>9. ASSUME NEW r \in Requests, AdmitWithoutReservation(r) \/ PersistUsage(r)
      PROVE  Kept
  BY <1>9, <1>1 DEF AdmitWithoutReservation, PersistUsage
<1>10. ASSUME NEW r \in Requests, NEW t \in 0..now, ReuseReservation(r, t)
       PROVE  Kept
  BY <1>10, <1>1 DEF ReuseReservation
<1>11. ASSUME NEW r \in Requests, ReleaseRequest(r)
       PROVE  Kept
  <2>1. {r} \in SUBSET Requests /\ \A q \in {r} : reservation[q].status \in Open
    BY <1>11 DEF ReleaseRequest
  <2> QED
    BY <1>11, <2>1, <1>3 DEF ReleaseRequest
<1>12. CASE Cleanup
  <2>1. PICK t \in 0..now : CleanupExpired(t)
    BY <1>12 DEF Cleanup
  <2>2. Lapsed(t) \in SUBSET Requests /\ \A q \in Lapsed(t) : reservation[q].status \in Open
    BY DEF Lapsed
  <2> QED
    BY <2>1, <2>2, <1>3 DEF CleanupExpired
<1>13. ASSUME NEW b \in Buckets, RetireBucket(b) \/ PauseBucket(b) \/ ResumeBucket(b)
       PROVE  Kept
  BY <1>13, <1>7 DEF RetireBucket, PauseBucket, ResumeBucket
<1>14. ASSUME NEW r \in Requests, NEW amount \in Amounts, NEW t \in 0..now,
              ReserveFunds(r, amount, t)
       PROVE  Kept
  BY <1>14, ReserveAccounts
<1>15. ASSUME NEW r \in Requests, NEW amount \in Amounts, NEW keyed \in BOOLEAN,
              SettleUsage(r, amount, keyed)
       PROVE  Kept
  BY <1>15, SettleAccounts
<1>16. CASE UNCHANGED vars
  BY <1>16, <1>1 DEF vars
<1>17. CASE Next
  <2>1. CASE \E r \in Requests : \/ AdmitWithoutReservation(r)
                                \/ ReleaseRequest(r)
                                \/ PersistUsage(r)
                                \/ RecordUnsettled(r)
    BY <2>1, <1>4, <1>9, <1>11
  <2>2. CASE \E r \in Requests, amount \in Amounts, t \in 0..now :
               \/ ReserveShadow(r, amount, t)
               \/ ReserveFunds(r, amount, t)
               \/ RefuseFunds(r, amount, t)
    BY <2>2, <1>5, <1>6, <1>14
  <2>3. CASE \E b \in Buckets : RetireBucket(b) \/ PauseBucket(b) \/ ResumeBucket(b)
    BY <2>3, <1>13
  <2>4. CASE \E r \in Requests, amount \in Amounts, keyed \in BOOLEAN :
               SettleUsage(r, amount, keyed)
    BY <2>4, <1>15
  <2>5. CASE \E r \in Requests, t \in 0..now : ReuseReservation(r, t)
    BY <2>5, <1>10
  <2>6. CASE \E c \in Credits, amount \in Amounts : GrantCredit(c, amount)
    BY <2>6, <1>2
  <2> QED
    BY <1>17, <2>1, <2>2, <2>3, <2>4, <2>5, <2>6, <1>8, <1>12 DEF Next
<1> QED
  BY <1>16, <1>17 DEF Kept

THEOREM AccountsHold == Spec => []Accounts
BY InitAccounts, NextAccounts, PTL DEF Spec

(***************************************************************************)
(* Every micro taken is billed once, and the ledger explains the balance.  *)
(***************************************************************************)
THEOREM EveryMicroIsBilled == Spec => []ChargesExplainSpending
<1>1. Accounts => ChargesExplainSpending
  BY ExplainedIsExplained DEF Accounts
<1> QED
  BY <1>1, AccountsHold, PTL

-----------------------------------------------------------------------------
(***************************************************************************)
(* The three parts of ChargedOnce, as relations of a step.                 *)
(***************************************************************************)
ChargesStay ==
  \A r \in Requests : charge[r].status # "none" => charge'[r] = charge[r]
ClosedStays ==
  \A r \in Requests : reservation[r].status \notin Open \cup {"none"} =>
                        reservation'[r] = reservation[r]
SpendingIsCharged ==
  creditBalance' < creditBalance =>
    \E r \in Requests : /\ charge[r].status = "none"
                        /\ charge'[r].credit = creditBalance - creditBalance'

(***************************************************************************)
(* Only settlement writes a charge event, and it writes the first one.     *)
(***************************************************************************)
LEMMA ChargeSteps ==
  ASSUME Accounts, Next
  PROVE  \/ UNCHANGED charge /\ creditBalance <= creditBalance'
         \/ \E r \in Requests : RecordUnsettled(r)
         \/ \E r \in Requests, amount \in Amounts, keyed \in BOOLEAN :
              SettleUsage(r, amount, keyed)
<1>1. creditBalance \in Nat
  BY DEF Accounts, IInv, TypeOK
<1> DEFINE Still == UNCHANGED charge /\ creditBalance <= creditBalance'
<1>2. ASSUME UNCHANGED <<charge, creditBalance>>
      PROVE  Still
  BY <1>1, <1>2
<1>3. CASE Tick
  BY <1>2, <1>3 DEF Tick
<1>4. ASSUME NEW c \in Credits, NEW amount \in Amounts, GrantCredit(c, amount)
      PROVE  Still
  BY <1>1, <1>4, AmountsType DEF GrantCredit
<1>5. ASSUME NEW r \in Requests,
             AdmitWithoutReservation(r) \/ ReleaseRequest(r) \/ PersistUsage(r)
      PROVE  Still
  BY <1>2, <1>5 DEF AdmitWithoutReservation, ReleaseRequest, PersistUsage
<1>6. ASSUME NEW r \in Requests, NEW t \in 0..now, ReuseReservation(r, t)
      PROVE  Still
  BY <1>2, <1>6 DEF ReuseReservation
<1>7. ASSUME NEW r \in Requests, NEW amount \in Amounts, NEW t \in 0..now,
             ReserveShadow(r, amount, t) \/ ReserveFunds(r, amount, t)
               \/ RefuseFunds(r, amount, t)
      PROVE  Still
  BY <1>2, <1>7 DEF ReserveShadow, ReserveFunds, RefuseFunds
<1>8. CASE Cleanup
  BY <1>2, <1>8 DEF Cleanup, CleanupExpired
<1>9. ASSUME NEW b \in Buckets, RetireBucket(b) \/ PauseBucket(b) \/ ResumeBucket(b)
      PROVE  Still
  BY <1>2, <1>9 DEF RetireBucket, PauseBucket, ResumeBucket
<1>10. CASE \E r \in Requests : \/ AdmitWithoutReservation(r)
                                \/ ReleaseRequest(r)
                                \/ PersistUsage(r)
                                \/ RecordUnsettled(r)
  BY <1>5, <1>10
<1>11. CASE \E r \in Requests, amount \in Amounts, t \in 0..now :
              \/ ReserveShadow(r, amount, t)
              \/ ReserveFunds(r, amount, t)
              \/ RefuseFunds(r, amount, t)
  BY <1>7, <1>11
<1>12. CASE \E r \in Requests, t \in 0..now : ReuseReservation(r, t)
  BY <1>6, <1>12
<1>13. CASE \E c \in Credits, amount \in Amounts : GrantCredit(c, amount)
  BY <1>4, <1>13
<1>14. CASE \E b \in Buckets : RetireBucket(b) \/ PauseBucket(b) \/ ResumeBucket(b)
  BY <1>9, <1>14
<1> QED
  BY <1>3, <1>8, <1>10, <1>11, <1>12, <1>13, <1>14 DEF Next

(***************************************************************************)
(* Charge events stay, and credit leaves the wallet only with one.         *)
(***************************************************************************)
LEMMA ChargesStayStep ==
  ASSUME Accounts, Next
  PROVE  ChargesStay /\ SpendingIsCharged
<1>1. creditBalance \in Nat /\ charge \in [Requests -> ChargeRow]
  BY DEF Accounts, IInv, TypeOK
<1>2. CASE UNCHANGED charge /\ creditBalance <= creditBalance'
  <2>1. creditBalance' \in Nat
    BY NextIInv DEF Accounts, IInv, TypeOK
  <2> QED
    BY <1>1, <1>2, <2>1 DEF ChargesStay, SpendingIsCharged
<1>3. ASSUME NEW r \in Requests, RecordUnsettled(r)
      PROVE  ChargesStay /\ SpendingIsCharged
  <2>1. /\ charge[r].status = "none" /\ charge' = [charge EXCEPT ![r].status = "unbilled"]
        /\ creditBalance' = creditBalance
    BY <1>3 DEF RecordUnsettled
  <2> QED
    BY <2>1, <1>1 DEF ChargesStay, SpendingIsCharged
<1>4. ASSUME NEW r \in Requests, NEW amount \in Amounts, NEW keyed \in BOOLEAN,
             SettleUsage(r, amount, keyed)
      PROVE  ChargesStay /\ SpendingIsCharged
  <2>1. PICK take, extra, creditTake, creditExtra, short :
          /\ Payment(r, amount, keyed, take, extra, creditTake, creditExtra, short)
          /\ PaymentFits(r, amount, keyed, take, extra, creditTake, creditExtra, short)
    BY <1>4, SettleFacts DEF Accounts
  <2> DEFINE row == [status |-> IF short = 0 THEN "settled" ELSE "insufficient_funds",
                     amount |-> amount,
                     subscription |-> Sum(take) + Sum(extra),
                     credit |-> creditTake + creditExtra]
  <2>2. charge[r].status = "none"
    BY <1>4 DEF SettleUsage
  <2>3. /\ charge' = [charge EXCEPT ![r] = row]
        /\ creditBalance' = creditBalance - (creditTake + creditExtra)
    BY <2>1 DEF Payment
  <2>4. creditTake \in Nat /\ creditExtra \in Nat
    BY <2>1 DEF PaymentFits
  <2>5. row.credit = creditTake + creditExtra
    OBVIOUS
  <2> HIDE DEF row
  <2>6. charge'[r] = row /\ \A q \in Requests \ {r} : charge'[q] = charge[q]
    BY <1>1, <2>3
  <2>7. creditBalance - creditBalance' = row.credit
    BY <1>1, <2>3, <2>4, <2>5
  <2> QED
    BY <2>2, <2>6, <2>7 DEF ChargesStay, SpendingIsCharged
<1> QED
  BY <1>2, <1>3, <1>4, ChargeSteps

(***************************************************************************)
(* A reservation is only written when it is new or still open.             *)
(***************************************************************************)
LEMMA ClosedStaysStep ==
  ASSUME Accounts, Next
  PROVE  ClosedStays
<1>1. reservation \in [Requests -> ReservationRow]
  BY DEF Accounts, IInv, TypeOK
<1>2. ASSUME UNCHANGED reservation
      PROVE  ClosedStays
  BY <1>2 DEF ClosedStays
<1>3. ASSUME NEW E \in SUBSET Requests, \A q \in E : reservation[q].status \in Open,
             NEW final, reservation' = ReservationAfter(E, final)
      PROVE  ClosedStays
  BY <1>3 DEF ClosedStays, ReservationAfter
<1>4. ASSUME NEW r \in Requests, reservation[r].status = "none", NEW st, NEW amount, NEW t,
             InsertReservation(Lapsed(t), r, st, amount, t)
      PROVE  ClosedStays
  <2>1. \A q \in Lapsed(t) : reservation[q].status \in Open
    BY DEF Lapsed
  <2>2. \A q \in Requests : q # r /\ q \notin Lapsed(t) => reservation'[q] = reservation[q]
    BY <1>4 DEF InsertReservation, ReservationAfter
  <2> QED
    BY <1>4, <2>1, <2>2 DEF ClosedStays
<1>5. ASSUME NEW r \in Requests, NEW amount \in Amounts, NEW keyed \in BOOLEAN,
             SettleUsage(r, amount, keyed)
      PROVE  ClosedStays
  <2>1. PICK take, extra, creditTake, creditExtra, short :
          Payment(r, amount, keyed, take, extra, creditTake, creditExtra, short)
    BY <1>5, SettleFacts DEF Accounts
  <2>2. CASE keyed
    <3>1. reservation[r].status \in Open
      BY <1>5, <2>2 DEF SettleUsage, Capturable
    <3>2. \A q \in Requests \ {r} : reservation'[q] = reservation[q]
      BY <1>1, <2>1, <2>2 DEF Payment
    <3> QED
      BY <3>1, <3>2 DEF ClosedStays
  <2>3. CASE ~keyed
    BY <2>1, <2>3, <1>2 DEF Payment
  <2> QED
    BY <2>2, <2>3
<1>6. CASE Tick
  BY <1>2, <1>6 DEF Tick
<1>7. CASE \E c \in Credits, amount \in Amounts : GrantCredit(c, amount)
  BY <1>2, <1>7 DEF GrantCredit
<1>8. ASSUME NEW r \in Requests, ReleaseRequest(r)
      PROVE  ClosedStays
  <2>1. /\ {r} \in SUBSET Requests /\ \A q \in {r} : reservation[q].status \in Open
        /\ reservation' = ReservationAfter({r}, "released")
    BY <1>8 DEF ReleaseRequest, CloseReservations
  <2> QED
    BY <2>1, <1>3
<1>9. ASSUME NEW r \in Requests,
             AdmitWithoutReservation(r) \/ PersistUsage(r) \/ RecordUnsettled(r)
      PROVE  ClosedStays
  BY <1>2, <1>9 DEF AdmitWithoutReservation, PersistUsage, RecordUnsettled
<1>10. CASE \E r \in Requests : \/ AdmitWithoutReservation(r)
                                \/ ReleaseRequest(r)
                                \/ PersistUsage(r)
                                \/ RecordUnsettled(r)
  BY <1>8, <1>9, <1>10
<1>11. CASE \E r \in Requests, t \in 0..now : ReuseReservation(r, t)
  BY <1>2, <1>11 DEF ReuseReservation
<1>12. ASSUME NEW r \in Requests, NEW amount \in Amounts, NEW t \in 0..now,
              ReserveShadow(r, amount, t) \/ ReserveFunds(r, amount, t)
       PROVE  ClosedStays
  BY <1>4, <1>12 DEF ReserveShadow, ReserveFunds
<1>13. ASSUME NEW r \in Requests, NEW amount \in Amounts, NEW t \in 0..now,
              RefuseFunds(r, amount, t)
       PROVE  ClosedStays
  <2>1. CASE UNCHANGED reservation
    BY <2>1, <1>2
  <2>2. CASE InsertReservation(Lapsed(t), r, "soft_insufficient", amount, t)
    BY <1>13, <2>2, <1>4 DEF RefuseFunds
  <2> QED
    BY <1>13, <2>1, <2>2 DEF RefuseFunds
<1>14. CASE \E r \in Requests, amount \in Amounts, t \in 0..now :
              \/ ReserveShadow(r, amount, t)
              \/ ReserveFunds(r, amount, t)
              \/ RefuseFunds(r, amount, t)
  BY <1>12, <1>13, <1>14
<1>15. CASE Cleanup
  <2>1. PICK t \in 0..now : reservation' = ReservationAfter(Lapsed(t), "expired")
    BY <1>15 DEF Cleanup, CleanupExpired, CloseReservations
  <2>2. Lapsed(t) \in SUBSET Requests /\ \A q \in Lapsed(t) : reservation[q].status \in Open
    BY DEF Lapsed
  <2> QED
    BY <2>1, <2>2, <1>3
<1>16. CASE \E r \in Requests, amount \in Amounts, keyed \in BOOLEAN :
              SettleUsage(r, amount, keyed)
  BY <1>5, <1>16
<1>17. CASE \E b \in Buckets : RetireBucket(b) \/ PauseBucket(b) \/ ResumeBucket(b)
  BY <1>2, <1>17 DEF RetireBucket, PauseBucket, ResumeBucket
<1> QED
  BY <1>6, <1>7, <1>10, <1>11, <1>14, <1>15, <1>16, <1>17 DEF Next

(***************************************************************************)
(* Usage is charged once: charge events and closed reservations never      *)
(* change, and no credit leaves the wallet without a charge event of the   *)
(* same transaction (settle_usage, whoever calls it and however often).    *)
(***************************************************************************)
THEOREM UsageIsChargedOnce == Spec => ChargedOnce
<1> DEFINE A == /\ ChargesStay
                /\ ClosedStays
                /\ SpendingIsCharged
<1>1. Accounts /\ [Next]_vars => [A]_vars
  BY ChargesStayStep, ClosedStaysStep
<1>2. ChargedOnce <=> [][A]_vars
  BY DEF ChargedOnce, ChargesStay, ClosedStays, SpendingIsCharged
<1> QED
  BY <1>1, <1>2, AccountsHold, PTL DEF Spec

(***************************************************************************)
(* A step that charges a funded hold and closes it, for no more than its   *)
(* amount, pays in full.                                                   *)
(***************************************************************************)
HoldPays ==
  \A r \in Requests :
    /\ reservation[r].status = "reserved"
    /\ charge'[r].status # charge[r].status
    /\ reservation'[r].status # "reserved"
    /\ charge'[r].amount <= reservation[r].amount
    => charge'[r].status = "settled"

LEMMA HoldPaysStep ==
  ASSUME Accounts, Next
  PROVE  HoldPays
<1>1. charge \in [Requests -> ChargeRow] /\ alloc \in [Requests -> [Sources -> Row]]
  BY DEF Accounts, IInv, TypeOK
<1>2. CASE UNCHANGED charge \/ UNCHANGED reservation
  BY <1>2 DEF HoldPays
<1>3. ASSUME NEW r \in Requests, NEW amount \in Amounts, SettleUsage(r, amount, TRUE)
      PROVE  HoldPays
  <2>1. PICK take, extra, creditTake, creditExtra, short :
          /\ Payment(r, amount, TRUE, take, extra, creditTake, creditExtra, short)
          /\ PaymentFits(r, amount, TRUE, take, extra, creditTake, creditExtra, short)
    BY <1>3, SettleFacts DEF Accounts
  <2> DEFINE row == [status |-> IF short = 0 THEN "settled" ELSE "insufficient_funds",
                     amount |-> amount,
                     subscription |-> Sum(take) + Sum(extra),
                     credit |-> creditTake + creditExtra]
  <2>2. /\ charge' = [charge EXCEPT ![r] = row] /\ row.amount = amount
        /\ short = 0 => row.status = "settled"
    BY <2>1 DEF Payment
  <2> HIDE DEF row
  <2>3. charge'[r] = row /\ \A q \in Requests \ {r} : charge'[q] = charge[q]
    BY <1>1, <2>2
  <2>4. ASSUME reservation[r].status = "reserved", amount <= reservation[r].amount
        PROVE  short = 0
    <3>1. \A s \in Sources : Outstanding(alloc[r][s]) = alloc[r][s].reserved
      <4> TAKE s \in Sources
      <4>1. alloc[r][s] \in Row /\ RowFollows("reserved", alloc[r][s])
        BY <1>1, <2>4 DEF Accounts, IInv, Books
      <4> QED
        BY <4>1, OutstandingByStatus DEF Statuses, Open
    <3>2. Held(r, TRUE) = [b \in Buckets |-> alloc[r][b].reserved]
      BY <3>1 DEF Held, Sources
    <3>3. HeldCredit(r, TRUE) = alloc[r][Credit].reserved
      BY <3>1 DEF HeldCredit, Sources
    <3>4. Sum(Held(r, TRUE)) + HeldCredit(r, TRUE) = reservation[r].amount
      BY <2>4, <3>2, <3>3 DEF Accounts, Whole, HoldTotal
    <3> QED
      BY <2>1, <2>4, <3>4 DEF PaymentFits
  <2> QED
    BY <2>2, <2>3, <2>4 DEF HoldPays
<1>4. ASSUME NEW r \in Requests, NEW amount \in Amounts, SettleUsage(r, amount, FALSE)
      PROVE  UNCHANGED reservation
  BY <1>4 DEF SettleUsage
<1>5. ASSUME NEW r \in Requests, RecordUnsettled(r)
      PROVE  UNCHANGED reservation
  BY <1>5 DEF RecordUnsettled
<1>6. CASE \E r \in Requests, amount \in Amounts, keyed \in BOOLEAN :
             SettleUsage(r, amount, keyed)
  <2>1. PICK r \in Requests, amount \in Amounts, keyed \in BOOLEAN :
          SettleUsage(r, amount, keyed)
    BY <1>6
  <2>2. CASE keyed = TRUE
    BY <2>1, <2>2, <1>3
  <2>3. CASE keyed = FALSE
    BY <2>1, <2>3, <1>2, <1>4
  <2> QED
    BY <2>2, <2>3
<1> QED
  BY <1>2, <1>5, <1>6, ChargeSteps

(***************************************************************************)
(* A hold is worth its amount: a charge within the estimate never comes    *)
(* out short (settle_persisted_allocations after reserve_request).         *)
(***************************************************************************)
THEOREM HoldsCoverTheirEstimate == Spec => HoldCoversEstimate
<1>1. Accounts /\ [Next]_vars => [HoldPays]_vars
  BY HoldPaysStep
<1>2. HoldCoversEstimate <=> [][HoldPays]_vars
  BY DEF HoldCoversEstimate, HoldPays
<1> QED
  BY <1>1, <1>2, AccountsHold, PTL DEF Spec
=============================================================================
