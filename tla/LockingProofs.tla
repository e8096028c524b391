---------------------------- MODULE LockingProofs ----------------------------
(***************************************************************************)
(* Proofs about what the locks of the database are for.                    *)
(*                                                                         *)
(* WalletLocks: transactions that spend from a wallet take their locks     *)
(* stage by stage, and the wallet's before those of reservations and       *)
(* buckets; so they never wait for each other in a circle, and those of    *)
(* one gate have one connection.                                           *)
(*                                                                         *)
(* QuotaAdmission and CreditRedemption count rows under a lock and then    *)
(* add their own.  With a calendar period of one bucket the windows of two *)
(* instants are equal or disjoint, and then the advisory lock is enough,   *)
(* however old the time is that a caller has read.  A code pays at most    *)
(* what it promises, never after its end, and to members only.             *)
(***************************************************************************)
EXTENDS WalletLocks, QuotaAdmission, CreditRedemption, FiniteSetTheorems, TLAPS

\* Reservations and buckets: what is locked under the lock of the wallet
Posts == {ReservationOf(q): q \in Requests} \cup {BucketOf(b): b \in Buckets}

\* The stages in which every transaction takes its locks, each but the last once
Stage(r) ==
  IF r[1] = "gate" THEN 0
  ELSE IF r[1] = "conn" THEN 1
  ELSE IF r[1] \in {"key", "event", "code", "subscription"} THEN 2
  ELSE IF r[1] \in {"wallet", "groups"} THEN 3
  ELSE 4
Before(r, s) == Stage(r) < Stage(s) \/ (Stage(r) = 4 /\ Stage(s) = 4)

In(t, r) == \E i \in DOMAIN queue[r]: queue[r][i] = t
Planned(t, r) == \E i \in DOMAIN plan[t]: plan[t][i] = r

\* What a transaction of this kind and process locks only under another lock
Needs(j, r) ==
  {w \in {Wallet}: j.kind # "lifecycle" /\ Stage(r) = 4}
    \cup {g \in {GateOf(j.proc)}: j.kind \in GatedKinds /\ Stage(r) = 1}

\* A plan as the code makes them
Sound(j, s) ==
  /\ s \in Seq(Resources)
  /\ \A a, b \in DOMAIN s: a < b => Before(s[a], s[b])
  /\ \A a \in DOMAIN s: \A w \in Needs(j, s[a]): \E b \in DOMAIN s: s[b] = w
  /\ \A a \in DOMAIN s: Stage(s[a]) = 1 => s[a] = ConnOf(j.proc)

\* What t has and what it has yet to ask for is a sound plan, asked for in order.
InOrder(t) ==
  /\ \A a, b \in DOMAIN plan[t]: a < b => Before(plan[t][a], plan[t][b])
  /\ \A r \in Resources: In(t, r) => \A a \in DOMAIN plan[t]: Before(r, plan[t][a])
  /\ \A r \in Resources: In(t, r) /\ r # asked[t] => Has(t, r) /\ Before(r, asked[t])
  /\ \A r \in Resources: In(t, r) \/ Planned(t, r) =>
       /\ \A w \in Needs(job[t], r): In(t, w) \/ Planned(t, w)
       /\ Stage(r) = 1 => r = ConnOf(job[t].proc)
  /\ state[t] # "open" => plan[t] = << >> /\ \A r \in Resources: ~In(t, r)

LockTypes ==
  /\ job \in Jobs
  /\ queue \in [Resources -> Seq(Txs)]
  /\ plan \in [Txs -> Seq(Resources)]
  /\ asked \in [Txs -> Resources]
  /\ state \in [Txs -> {"new", "open", "ended"}]

LockInv ==
  /\ LockTypes
  /\ \A r \in Resources: IsInjective(queue[r])
  /\ \A t \in Txs: InOrder(t)
-----------------------------------------------------------------------------
LEMMA ResourceStages ==
  /\ \A p \in Procs: /\ GateOf(p) \in Resources /\ Stage(GateOf(p)) = 0
                     /\ ConnOf(p) \in Resources /\ Stage(ConnOf(p)) = 1
  /\ \A q \in Requests: /\ KeyOf(q) \in Resources /\ Stage(KeyOf(q)) = 2
                        /\ EventOf(q) \in Resources /\ Stage(EventOf(q)) = 2
  /\ Code \in Resources /\ Stage(Code) = 2
  /\ Subscription \in Resources /\ Stage(Subscription) = 2
  /\ Wallet \in Resources /\ Stage(Wallet) = 3
  /\ Groups \in Resources /\ Stage(Groups) = 3
  /\ \A r \in Posts: r \in Resources /\ Stage(r) = 4
<1>1. \A p \in Procs: Stage(GateOf(p)) = 0 /\ Stage(ConnOf(p)) = 1
  BY DEF Stage, GateOf, ConnOf
<1>2. \A q \in Requests: Stage(KeyOf(q)) = 2 /\ Stage(EventOf(q)) = 2
  BY DEF Stage, KeyOf, EventOf
<1>3. Stage(Code) = 2 /\ Stage(Subscription) = 2 /\ Stage(Wallet) = 3 /\ Stage(Groups) = 3
  BY DEF Stage, Code, Subscription, Wallet, Groups
<1>4. /\ \A q \in Requests: Stage(ReservationOf(q)) = 4
      /\ \A b \in Buckets: Stage(BucketOf(b)) = 4
  BY DEF Stage, ReservationOf, BucketOf
<1>5. \A r \in Posts: Stage(r) = 4
  BY <1>4 DEF Posts
<1>6. /\ \A p \in Procs: GateOf(p) \in Resources /\ ConnOf(p) \in Resources
      /\ \A q \in Requests: KeyOf(q) \in Resources /\ EventOf(q) \in Resources
      /\ {Code, Subscription, Wallet, Groups} \subseteq Resources
      /\ Posts \subseteq Resources
  BY DEF Resources, Posts
<1> QED BY <1>1, <1>2, <1>3, <1>5, <1>6

\* Which of the resources have which stage
LEMMA StageOf ==
  ASSUME NEW r \in Resources
  PROVE  /\ Stage(r) \in 0..4
         /\ Stage(r) = 1 <=> IsConn(r)
         /\ Stage(r) \in {0, 1} <=> r[1] \in {"gate", "conn"}
<1>1. Stage(r) \in 0..4 /\ (Stage(r) \in {0, 1} <=> r[1] \in {"gate", "conn"})
  BY DEF Stage
<1>2. IsConn(r) => Stage(r) = 1
  BY ResourceStages DEF IsConn
<1>3. ~IsConn(r) => Stage(r) # 1
  <2>1. \/ \E p \in Procs: r = GateOf(p)
        \/ \E q \in Requests: r = KeyOf(q) \/ r = EventOf(q)
        \/ r \in Posts \cup {Wallet, Subscription, Groups, Code}
        \/ IsConn(r)
    BY DEF Resources, Posts, IsConn
  <2> QED BY <2>1, ResourceStages
<1> QED BY <1>1, <1>2, <1>3

-----------------------------------------------------------------------------
\* s begins with the locks of h, and then takes locks under that of the wallet.
Leads(h, s) ==
  /\ s \in Seq(Resources) /\ h \in Seq(Resources) /\ Len(h) <= Len(s)
  /\ \A i \in 1..Len(h): s[i] = h[i]
  /\ \A i \in 1..Len(s): i > Len(h) => s[i] \in Posts

LEMMA LeadsOn ==
  ASSUME NEW h, NEW s, Leads(h, s), NEW rows \in Seq(Posts)
  PROVE  Leads(h, s \o rows)
<1>1. s \in Seq(Resources) /\ rows \in Seq(Resources)
  <2>1. \A i \in 1..Len(rows): rows[i] \in Resources
    BY ResourceStages
  <2> QED BY <2>1 DEF Leads
<1> DEFINE c == s \o rows
<1>2. /\ c \in Seq(Resources) /\ Len(c) = Len(s) + Len(rows)
      /\ \A i \in 1..Len(s): c[i] = s[i]
      /\ \A i \in 1..Len(c): i > Len(s) => c[i] = rows[i - Len(s)]
  BY <1>1
<1>3. Len(s) \in Nat /\ Len(h) \in Nat /\ Len(rows) \in Nat
  BY <1>1 DEF Leads
<1> HIDE DEF c
<1>4. ASSUME NEW i \in 1..Len(c), i > Len(h) PROVE c[i] \in Posts
  <2>1. CASE i <= Len(s)
    BY <2>1, <1>2, <1>3, <1>4 DEF Leads
  <2>2. CASE i > Len(s)
    <3>1. i - Len(s) \in 1..Len(rows)
      BY <2>2, <1>2, <1>3
    <3> QED BY <3>1, <2>2, <1>2
  <2> QED BY <2>1, <2>2, <1>3
<1>5. \A i \in 1..Len(h): c[i] = h[i]
  BY <1>2, <1>3 DEF Leads
<1>6. Leads(h, c)
  BY <1>2, <1>3, <1>4, <1>5 DEF Leads
<1> QED BY <1>6 DEF c

LEMMA RowsArePosts ==
  ASSUME LocksAssumption
  PROVE  /\ AnyRows \subseteq Seq(Posts) /\ OrderedRows \subseteq Seq(Posts)
         /\ Rows(Spending) \in Seq(Posts)
         /\ << >> \in Seq(Posts)
<1>1. IsFiniteSet(Buckets)
  <2>1. DOMAIN Spending = 1..Len(Spending) /\ Len(Spending) \in Nat
    BY DEF LocksAssumption
  <2>2. IsFiniteSet(DOMAIN Spending)
    BY <2>1, FS_Interval
  <2>3. Spending \in [DOMAIN Spending -> Buckets]
    BY <2>1 DEF LocksAssumption
  <2>4. \A b \in Buckets: \E i \in DOMAIN Spending: Spending[i] = b
    BY DEF Buckets, ToSet
  <2>5. Spending \in Surjection(DOMAIN Spending, Buckets)
    BY <2>3, <2>4 DEF Surjection
  <2> QED BY <2>2, <2>5, FS_Surjection
<1>2. ASSUME NEW n \in Nat, NEW bs \in [1..n -> Buckets] PROVE Rows(bs) \in Seq(Posts)
  <2>1. DOMAIN bs = 1..n /\ \A i \in 1..n: BucketOf(bs[i]) \in Posts
    BY DEF Posts
  <2>2. Rows(bs) = [i \in 1..n |-> BucketOf(bs[i])]
    BY <2>1 DEF Rows
  <2> QED BY <2>1, <2>2
<1>3. ASSUME NEW bs \in Arrangements PROVE Rows(bs) \in Seq(Posts)
  <2>1. PICK B \in SUBSET Buckets: bs \in SetToSeqs(B)
    BY DEF Arrangements, SetToAllKPermutations
  <2>2. Cardinality(B) \in Nat
    BY <1>1, FS_Subset, FS_CardinalityType
  <2>3. bs \in [1..Cardinality(B) -> Buckets]
    BY <2>1 DEF SetToSeqs
  <2> QED BY <2>2, <2>3, <1>2
<1>4. Rows(Spending) \in Seq(Posts)
  <2>1. Len(Spending) \in Nat /\ Spending \in [1..Len(Spending) -> Buckets]
    BY DEF LocksAssumption
  <2> QED BY <2>1, <1>2
<1>5. AnyRows \subseteq Seq(Posts) /\ OrderedRows \subseteq Seq(Posts)
  BY <1>3 DEF AnyRows, OrderedRows
<1> QED BY <1>4, <1>5
-----------------------------------------------------------------------------
(***************************************************************************)
(* The plans of the code are sound.                                        *)
(***************************************************************************)
LEMMA LeadsSound ==
  ASSUME NEW j \in [proc: Procs, kind: Kinds, req: Requests], NEW h, NEW s, Leads(h, s),
         \A a, b \in 1..Len(h): a < b => Stage(h[a]) < Stage(h[b]),
         \A a \in 1..Len(h): Stage(h[a]) < 4,
         \A a \in 1..Len(h): Stage(h[a]) = 1 => h[a] = ConnOf(j.proc),
         j.kind # "lifecycle" => \E a \in 1..Len(h): h[a] = Wallet,
         j.kind \in GatedKinds => \E a \in 1..Len(h): h[a] = GateOf(j.proc)
  PROVE  Sound(j, s)
<1>0. /\ s \in Seq(Resources) /\ h \in Seq(Resources) /\ Len(h) <= Len(s)
      /\ Len(h) \in Nat /\ Len(s) \in Nat /\ DOMAIN s = 1..Len(s)
  BY DEF Leads
<1>1. /\ \A i \in 1..Len(h): s[i] = h[i] /\ h[i] \in Resources /\ i \in 1..Len(s)
      /\ \A i \in 1..Len(s): i > Len(h) => s[i] \in Posts /\ Stage(s[i]) = 4
  BY <1>0, ResourceStages DEF Leads
<1>2. \A i \in 1..Len(h): Stage(h[i]) \in 0..4
  BY <1>1, StageOf
<1>3. ASSUME NEW a \in DOMAIN s, NEW b \in DOMAIN s, a < b PROVE Before(s[a], s[b])
  <2>1. CASE b <= Len(h)
    <3>1. a \in 1..Len(h) /\ b \in 1..Len(h)
      BY <1>0, <1>3, <2>1
    <3>2. Stage(h[a]) < Stage(h[b])
      BY <3>1, <1>3
    <3> QED BY <3>1, <3>2, <1>1 DEF Before
  <2>2. CASE b > Len(h) /\ a <= Len(h)
    <3>1. a \in 1..Len(h) /\ Stage(s[b]) = 4
      BY <1>0, <1>1, <2>2
    <3> QED BY <3>1, <1>1 DEF Before
  <2>3. CASE a > Len(h)
    <3>1. Stage(s[a]) = 4 /\ Stage(s[b]) = 4
      BY <1>0, <1>1, <1>3, <2>3
    <3> QED BY <3>1 DEF Before
  <2> QED BY <2>1, <2>2, <2>3, <1>0, <1>3
<1>4. ASSUME NEW w, \E a \in 1..Len(h): h[a] = w PROVE \E b \in DOMAIN s: s[b] = w
  BY <1>0, <1>1, <1>4
<1>5. ASSUME NEW a \in DOMAIN s, NEW w \in Needs(j, s[a]) PROVE \E b \in DOMAIN s: s[b] = w
  BY <1>4 DEF Needs
<1>6. ASSUME NEW a \in DOMAIN s, Stage(s[a]) = 1 PROVE s[a] = ConnOf(j.proc)
  <2>1. a \in 1..Len(h)
    BY <1>0, <1>1, <1>6
  <2> QED BY <2>1, <1>1, <1>6
<1> QED BY <1>0, <1>3, <1>5, <1>6 DEF Sound

\* The four beginnings of a plan, and the two of a transition
LEMMA Beginnings ==
  ASSUME NEW j \in [proc: Procs, kind: Kinds, req: Requests], NEW s
  PROVE  /\ \A k \in {KeyOf(j.req), EventOf(j.req)}:
              Leads(<<GateOf(j.proc), ConnOf(j.proc), k, Wallet>>, s) => Sound(j, s)
         /\ Leads(<<GateOf(j.proc), ConnOf(j.proc), Wallet>>, s) => Sound(j, s)
         /\ \A k \in {KeyOf(j.req), Code}:
              j.kind \in {"grant", "redeem"} /\ Leads(<<ConnOf(j.proc), k, Wallet>>, s)
                => Sound(j, s)
         /\ j.kind = "lifecycle" /\ Leads(<<ConnOf(j.proc), Subscription>>, s) => Sound(j, s)
         /\ j.kind = "lifecycle" /\ Leads(<<ConnOf(j.proc), Subscription, Groups>>, s)
              => Sound(j, s)
<1>0. j.proc \in Procs /\ j.req \in Requests
  OBVIOUS
<1>1. ASSUME NEW k \in {KeyOf(j.req), EventOf(j.req)},
             Leads(<<GateOf(j.proc), ConnOf(j.proc), k, Wallet>>, s)
      PROVE  Sound(j, s)
  <2> DEFINE h == <<GateOf(j.proc), ConnOf(j.proc), k, Wallet>>
  <2>1. /\ Len(h) = 4 /\ Leads(h, s)
        /\ h[1] = GateOf(j.proc) /\ h[2] = ConnOf(j.proc) /\ h[3] = k /\ h[4] = Wallet
    BY <1>1
  <2>2. Stage(h[1]) = 0 /\ Stage(h[2]) = 1 /\ Stage(h[3]) = 2 /\ Stage(h[4]) = 3
    BY <1>0, <2>1, ResourceStages
  <2> HIDE DEF h
  <2>3. 1..Len(h) = {1, 2, 3, 4}
    BY <2>1
  <2> QED BY <2>1, <2>2, <2>3, LeadsSound
<1>2. ASSUME Leads(<<GateOf(j.proc), ConnOf(j.proc), Wallet>>, s)
      PROVE  Sound(j, s)
  <2> DEFINE h == <<GateOf(j.proc), ConnOf(j.proc), Wallet>>
  <2>1. /\ Len(h) = 3 /\ Leads(h, s)
        /\ h[1] = GateOf(j.proc) /\ h[2] = ConnOf(j.proc) /\ h[3] = Wallet
    BY <1>2
  <2>2. Stage(h[1]) = 0 /\ Stage(h[2]) = 1 /\ Stage(h[3]) = 3
    BY <1>0, <2>1, ResourceStages
  <2> HIDE DEF h
  <2>3. 1..Len(h) = {1, 2, 3}
    BY <2>1
  <2> QED BY <2>1, <2>2, <2>3, LeadsSound
<1>3. ASSUME NEW k \in {KeyOf(j.req), Code}, j.kind \in {"grant", "redeem"},
             Leads(<<ConnOf(j.proc), k, Wallet>>, s)
      PROVE  Sound(j, s)
  <2> DEFINE h == <<ConnOf(j.proc), k, Wallet>>
  <2>1. /\ Len(h) = 3 /\ Leads(h, s)
        /\ h[1] = ConnOf(j.proc) /\ h[2] = k /\ h[3] = Wallet
    BY <1>3
  <2>2. Stage(h[1]) = 1 /\ Stage(h[2]) = 2 /\ Stage(h[3]) = 3
    BY <1>0, <2>1, ResourceStages
  <2> HIDE DEF h
  <2>3. 1..Len(h) = {1, 2, 3} /\ j.kind \notin GatedKinds
    BY <2>1, <1>3 DEF GatedKinds
  <2> QED BY <2>1, <2>2, <2>3, LeadsSound
<1>4. ASSUME j.kind = "lifecycle", Leads(<<ConnOf(j.proc), Subscription>>, s)
      PROVE  Sound(j, s)
  <2> DEFINE h == <<ConnOf(j.proc), Subscription>>
  <2>1. /\ Len(h) = 2 /\ Leads(h, s)
        /\ h[1] = ConnOf(j.proc) /\ h[2] = Subscription
    BY <1>4
  <2>2. Stage(h[1]) = 1 /\ Stage(h[2]) = 2
    BY <1>0, <2>1, ResourceStages
  <2> HIDE DEF h
  <2>3. 1..Len(h) = {1, 2} /\ j.kind \notin GatedKinds
    BY <2>1, <1>4 DEF GatedKinds
  <2> QED BY <2>1, <2>2, <2>3, <1>4, LeadsSound
<1>5. ASSUME j.kind = "lifecycle", Leads(<<ConnOf(j.proc), Subscription, Groups>>, s)
      PROVE  Sound(j, s)
  <2> DEFINE h == <<ConnOf(j.proc), Subscription, Groups>>
  <2>1. /\ Len(h) = 3 /\ Leads(h, s)
        /\ h[1] = ConnOf(j.proc) /\ h[2] = Subscription /\ h[3] = Groups
    BY <1>5
  <2>2. Stage(h[1]) = 1 /\ Stage(h[2]) = 2 /\ Stage(h[3]) = 3
    BY <1>0, <2>1, ResourceStages
  <2> HIDE DEF h
  <2>3. 1..Len(h) = {1, 2, 3} /\ j.kind \notin GatedKinds
    BY <2>1, <1>5 DEF GatedKinds
  <2> QED BY <2>1, <2>2, <2>3, <1>5, LeadsSound
<1> QED BY <1>1, <1>2, <1>3, <1>4, <1>5
LEMMA Concatenation ==
  ASSUME NEW S, NEW x \in Seq(S), NEW y \in Seq(S), NEW e, e = x \o y
  PROVE  /\ e \in Seq(S) /\ Len(e) = Len(x) + Len(y)
         /\ \A i \in 1..Len(x): e[i] = x[i]
         /\ \A i \in 1..Len(y): e[Len(x) + i] = y[i]
OBVIOUS

LEMMA Pairs ==
  ASSUME NEW S, NEW a \in S, NEW b \in S, NEW c \in S, NEW d \in S
  PROVE  <<a, b>> \o <<c, d>> = <<a, b, c, d>>
<1> DEFINE x == <<a, b>>
           y == <<c, d>>
           z == <<a, b, c, d>>
<1>1. /\ Len(x) = 2 /\ Len(y) = 2 /\ Len(z) = 4
      /\ x[1] = a /\ x[2] = b /\ y[1] = c /\ y[2] = d
      /\ z[1] = a /\ z[2] = b /\ z[3] = c /\ z[4] = d
  OBVIOUS
<1>2. x \in Seq(S) /\ y \in Seq(S) /\ z \in Seq(S)
  OBVIOUS
<1> HIDE DEF x, y, z
<1> SUFFICES ASSUME NEW e, e = x \o y PROVE e = z
  BY DEF x, y, z
<1>3. /\ e \in Seq(S) /\ Len(e) = Len(x) + Len(y)
      /\ \A i \in 1..Len(x): e[i] = x[i]
      /\ \A i \in 1..Len(y): e[Len(x) + i] = y[i]
  BY <1>2, Concatenation
<1>4. Len(e) = 4 /\ e[1] = a /\ e[2] = b /\ e[3] = c /\ e[4] = d
  <2>1. {1, 2} \subseteq 1..Len(x) /\ {1, 2} \subseteq 1..Len(y)
    BY <1>1
  <2>2. e[1] = x[1] /\ e[2] = x[2] /\ e[Len(x) + 1] = y[1] /\ e[Len(x) + 2] = y[2]
    BY <2>1, <1>3
  <2>3. Len(x) + 1 = 3 /\ Len(x) + 2 = 4 /\ Len(e) = 4
    BY <1>1, <1>3
  <2> QED BY <2>2, <2>3, <1>1
<1>5. \A i \in 1..4: e[i] = z[i]
  BY <1>1, <1>4
<1> QED BY <1>1, <1>2, <1>3, <1>4, <1>5

LEMMA KindPlans ==
  ASSUME NEW t
  PROVE  /\ job[t].kind = "reserve" => Plans(t) = ReservePlans(t)
         /\ job[t].kind = "settle" => Plans(t) = SettlePlans(t)
         /\ job[t].kind = "release" => Plans(t) = ReleasePlans(t)
         /\ job[t].kind = "cleanup" => Plans(t) = CleanupPlans(t)
         /\ job[t].kind = "grant" => Plans(t) = GrantPlans(t)
         /\ job[t].kind = "redeem" => Plans(t) = RedeemPlans(t)
         /\ job[t].kind = "lifecycle" => Plans(t) = LifecyclePlans(t)
BY DEF Plans

LEMMA PlansAreSound ==
  ASSUME LocksAssumption, job \in Jobs, NEW t \in Txs, NEW s \in Plans(t)
  PROVE  Sound(job[t], s)
<1> DEFINE j == job[t]
<1>0. j \in [proc: Procs, kind: Kinds, req: Requests]
  BY DEF LocksAssumption
<1>1. /\ j.proc \in Procs /\ j.kind \in Kinds /\ j.req \in Requests
      /\ GateOf(j.proc) \in Resources /\ ConnOf(j.proc) \in Resources
      /\ KeyOf(j.req) \in Resources /\ EventOf(j.req) \in Resources
      /\ Wallet \in Resources /\ Code \in Resources
      /\ Subscription \in Resources /\ Groups \in Resources
  BY <1>0, ResourceStages
<1>2. \A q \in Requests: ReservationOf(q) \in Posts
  BY DEF Posts
<1>3. \A r \in Posts: r \in Resources
  BY ResourceStages
<1>4. Gated(t) = <<GateOf(j.proc), ConnOf(j.proc)>>
  BY DEF Gated
<1>5. ASSUME NEW q \in Requests, NEW rows \in Seq(Posts)
      PROVE  <<ReservationOf(q)>> \o rows \in Seq(Posts)
  BY <1>2
<1>6. ExpirePlans \subseteq Seq(Posts)
  <2> SUFFICES ASSUME NEW e \in ExpirePlans PROVE e \in Seq(Posts)
    OBVIOUS
  <2>1. e = << >> \/ e \in Then({<<ReservationOf(q)>>: q \in Requests}, AnyRows)
    BY DEF ExpirePlans
  <2>2. e = << >> \/ \E q \in Requests: \E rows \in AnyRows: e = <<ReservationOf(q)>> \o rows
    BY <2>1 DEF Then
  <2> QED BY <2>2, <1>5, RowsArePosts
<1>7. ASSUME NEW k \in Resources
      PROVE  /\ Gated(t) \o <<k, Wallet>> = <<GateOf(j.proc), ConnOf(j.proc), k, Wallet>>
             /\ Leads(<<GateOf(j.proc), ConnOf(j.proc), k, Wallet>>,
                      <<GateOf(j.proc), ConnOf(j.proc), k, Wallet>>)
  <2>1. Gated(t) \o <<k, Wallet>> = <<GateOf(j.proc), ConnOf(j.proc), k, Wallet>>
    BY <1>1, <1>4, Pairs
  <2> DEFINE h == <<GateOf(j.proc), ConnOf(j.proc), k, Wallet>>
  <2>2. h \in Seq(Resources) /\ Len(h) = 4
    BY <1>1
  <2> HIDE DEF h
  <2>3. Leads(h, h)
    BY <2>2 DEF Leads
  <2> QED BY <2>1, <2>3 DEF h
<1> HIDE DEF j
<1>8. CASE j.kind = "reserve"
  <2>1. PICK e \in ExpirePlans: s = Gated(t) \o <<KeyOf(j.req), Wallet>> \o e \o Rows(Spending)
    BY <1>8, KindPlans DEF ReservePlans, j
  <2> DEFINE h == <<GateOf(j.proc), ConnOf(j.proc), KeyOf(j.req), Wallet>>
  <2>2. Leads(h, h) /\ s = h \o e \o Rows(Spending)
    BY <2>1, <1>1, <1>7
  <2> HIDE DEF h
  <2>3. Leads(h, h \o e)
    BY <2>2, <1>6, LeadsOn
  <2>4. Leads(h, s)
    BY <2>2, <2>3, RowsArePosts, LeadsOn
  <2> QED BY <2>4, <1>0, Beginnings DEF h, j
<1>9. CASE j.kind = "settle"
  <2>1. PICK rows \in {<< >>} \cup {<<ReservationOf(j.req)>> \o r: r \in OrderedRows},
             extra \in {<< >>, Rows(Spending)}:
             s = Gated(t) \o <<EventOf(j.req), Wallet>> \o rows \o extra
    <3> DEFINE held == {<< >>} \cup Then({<<ReservationOf(j.req)>>}, OrderedRows)
               begin == {Gated(t) \o <<EventOf(j.req), Wallet>>}
    <3>1. s \in Then(Then(begin, held), {<< >>, Rows(Spending)})
      BY <1>9, KindPlans DEF SettlePlans, j
    <3>2. PICK a \in Then(begin, held), b \in {<< >>, Rows(Spending)}: s = a \o b
      BY <3>1 DEF Then
    <3>3. PICK c \in held: a = Gated(t) \o <<EventOf(j.req), Wallet>> \o c
      BY DEF Then
    <3>4. c \in {<< >>} \cup {<<ReservationOf(j.req)>> \o r: r \in OrderedRows}
      BY DEF Then
    <3> QED BY <3>2, <3>3, <3>4
  <2> DEFINE h == <<GateOf(j.proc), ConnOf(j.proc), EventOf(j.req), Wallet>>
  <2>2. Leads(h, h) /\ s = h \o rows \o extra
    BY <2>1, <1>1, <1>7
  <2>3. rows \in Seq(Posts) /\ extra \in Seq(Posts)
    BY <1>1, <1>5, RowsArePosts
  <2> HIDE DEF h
  <2>4. Leads(h, h \o rows)
    BY <2>2, <2>3, LeadsOn
  <2>5. Leads(h, s)
    BY <2>2, <2>3, <2>4, LeadsOn
  <2> QED BY <2>5, <1>0, Beginnings DEF h, j
<1>10. CASE j.kind = "release"
  <2>1. PICK rows \in AnyRows: s = Gated(t) \o <<Wallet, ReservationOf(j.req)>> \o rows
    BY <1>10, KindPlans DEF ReleasePlans, j
  <2> DEFINE h == <<GateOf(j.proc), ConnOf(j.proc), Wallet>>
             g == <<GateOf(j.proc), ConnOf(j.proc), Wallet, ReservationOf(j.req)>>
  <2>2. Leads(h, g) /\ s = g \o rows
    BY <2>1, <1>1, <1>2, <1>3, <1>4 DEF Leads
  <2> HIDE DEF h, g
  <2>3. Leads(h, s)
    BY <2>2, RowsArePosts, LeadsOn
  <2> QED BY <2>3, <1>0, Beginnings DEF h, j
<1>11. CASE j.kind = "cleanup"
  <2>1. PICK e \in ExpirePlans: s = Gated(t) \o <<Wallet>> \o e
    BY <1>11, KindPlans DEF CleanupPlans, j
  <2> DEFINE h == <<GateOf(j.proc), ConnOf(j.proc), Wallet>>
  <2>2. Leads(h, h) /\ s = h \o e
    BY <2>1, <1>1, <1>4 DEF Leads
  <2> HIDE DEF h
  <2>3. Leads(h, s)
    BY <2>2, <1>6, LeadsOn
  <2> QED BY <2>3, <1>0, Beginnings DEF h, j
<1>12. CASE j.kind \in {"grant", "redeem"}
  <2>1. PICK k \in {KeyOf(j.req), Code}: s = <<ConnOf(j.proc), k, Wallet>>
    BY <1>12, KindPlans DEF GrantPlans, RedeemPlans, j
  <2>2. Leads(s, s)
    BY <2>1, <1>1 DEF Leads
  <2> QED BY <2>1, <2>2, <1>0, <1>12, Beginnings DEF j
<1>13. CASE j.kind = "lifecycle"
  <2>1. PICK g \in {<< >>, <<Groups>>}, rows \in AnyRows:
             s = <<ConnOf(j.proc), Subscription>> \o g \o rows
    <3>1. s \in LifecyclePlans(t)
      BY <1>13, KindPlans DEF j
    <3>2. PICK a \in Then({<<ConnOf(j.proc), Subscription>>}, {<< >>, <<Groups>>}), b \in AnyRows:
               s = a \o b
      BY <3>1 DEF Then, LifecyclePlans, j
    <3>3. \E g \in {<< >>, <<Groups>>}: a = <<ConnOf(j.proc), Subscription>> \o g
      BY DEF Then
    <3> QED BY <3>2, <3>3
  <2>2. CASE g = << >>
    <3> DEFINE h == <<ConnOf(j.proc), Subscription>>
    <3>1. Leads(h, h) /\ s = h \o rows
      BY <2>1, <2>2, <1>1 DEF Leads
    <3> HIDE DEF h
    <3>2. Leads(h, s)
      BY <3>1, RowsArePosts, LeadsOn
    <3> QED BY <3>2, <1>0, <1>13, Beginnings DEF h, j
  <2>3. CASE g = <<Groups>>
    <3> DEFINE h == <<ConnOf(j.proc), Subscription, Groups>>
    <3>1. Leads(h, h) /\ s = h \o rows
      BY <2>1, <2>3, <1>1 DEF Leads
    <3> HIDE DEF h
    <3>2. Leads(h, s)
      BY <3>1, RowsArePosts, LeadsOn
    <3> QED BY <3>2, <1>0, <1>13, Beginnings DEF h, j
  <2> QED BY <2>2, <2>3
<1> QED BY <1>1, <1>8, <1>9, <1>10, <1>11, <1>12, <1>13 DEF Kinds, GatedKinds
-----------------------------------------------------------------------------
(***************************************************************************)
(* What leaves a queue and what stays.                                     *)
(***************************************************************************)
LEMMA WithoutIs ==
  ASSUME NEW s \in Seq(Txs), IsInjective(s), NEW t, NEW w, w = Without(s, t)
  PROVE  /\ w \in Seq(Txs) /\ IsInjective(w)
         /\ \A k \in DOMAIN w: w[k] # t /\ \E i \in DOMAIN s: s[i] = w[k]
         /\ \A i \in DOMAIN s: s[i] # t => \E k \in DOMAIN w: k <= i /\ w[k] = s[i]
<1>0. DOMAIN s = 1..Len(s) /\ Len(s) \in Nat
  OBVIOUS
<1>1. CASE t \notin ToSet(s)
  <2>1. w = s /\ \A i \in DOMAIN s: s[i] # t
    BY <1>1 DEF Without, ToSet
  <2> QED BY <2>1, <1>0
<1>2. CASE t \in ToSet(s)
  <2> DEFINE n == CHOOSE i \in DOMAIN s: s[i] = t
  <2>1. n \in DOMAIN s /\ s[n] = t
    BY <1>2 DEF ToSet
  <2>2. w = SubSeq(s, 1, n - 1) \o SubSeq(s, n + 1, Len(s))
    BY <1>2 DEF Without, RemoveAt
  <2> HIDE DEF n
  <2>3. n \in 1..Len(s)
    BY <1>0, <2>1
  <2> DEFINE x == SubSeq(s, 1, n - 1)
             y == SubSeq(s, n + 1, Len(s))
  <2>4. /\ x \in Seq(Txs) /\ Len(x) = n - 1 /\ \A i \in 1..(n - 1): x[i] = s[i]
        /\ y \in Seq(Txs) /\ Len(y) = Len(s) - n
        /\ \A i \in 1..(Len(s) - n): y[i] = s[n + i]
    BY <2>3
  <2>5. w = x \o y
    BY <2>2
  <2> HIDE DEF x, y
  <2>6. /\ w \in Seq(Txs) /\ Len(w) = Len(x) + Len(y)
        /\ \A i \in 1..Len(x): w[i] = x[i]
        /\ \A i \in 1..Len(y): w[Len(x) + i] = y[i]
    <3>1. x \in Seq(Txs) /\ y \in Seq(Txs)
      BY <2>4
    <3> QED BY <3>1, <2>5, Concatenation
  <2>7. Len(w) = Len(s) - 1 /\ DOMAIN w = 1..(Len(s) - 1)
    BY <2>3, <2>4, <2>6
  <2>8. \A k \in 1..(Len(s) - 1): k < n => w[k] = s[k]
    BY <2>3, <2>4, <2>6
  <2>9. ASSUME NEW k \in 1..(Len(s) - 1), k >= n PROVE w[k] = s[k + 1]
    <3>1. k - (n - 1) \in 1..Len(y) /\ Len(x) + (k - (n - 1)) = k /\ n + (k - (n - 1)) = k + 1
      BY <2>3, <2>4, <2>9
    <3>2. w[Len(x) + (k - (n - 1))] = y[k - (n - 1)]
      BY <3>1, <2>6
    <3>3. y[k - (n - 1)] = s[n + (k - (n - 1))]
      BY <3>1, <2>4
    <3> QED BY <3>1, <3>2, <3>3
  <2>10. \A i, j \in 1..Len(s): s[i] = s[j] => i = j
    BY <1>0 DEF IsInjective
  <2>11. ASSUME NEW k \in DOMAIN w PROVE w[k] # t /\ \E i \in DOMAIN s: s[i] = w[k]
    <3>1. CASE k < n
      <4>1. w[k] = s[k] /\ k \in 1..Len(s) /\ k # n
        BY <3>1, <2>3, <2>7, <2>8
      <4> QED BY <4>1, <2>1, <2>3, <2>10, <1>0
    <3>2. CASE k >= n
      <4>1. w[k] = s[k + 1] /\ k + 1 \in 1..Len(s) /\ k + 1 # n
        BY <3>2, <2>3, <2>7, <2>9
      <4> QED BY <4>1, <2>1, <2>3, <2>10, <1>0
    <3> QED BY <3>1, <3>2, <2>3, <2>7
  <2>12. ASSUME NEW i \in DOMAIN s, s[i] # t PROVE \E k \in DOMAIN w: k <= i /\ w[k] = s[i]
    <3>1. CASE i < n
      <4>1. i \in DOMAIN w /\ i <= i /\ w[i] = s[i]
        BY <3>1, <2>3, <2>7, <2>8, <1>0
      <4> QED BY <4>1
    <3>2. CASE i > n
      <4>1. i - 1 \in 1..(Len(s) - 1) /\ i - 1 >= n /\ i - 1 <= i /\ (i - 1) + 1 = i
        BY <3>2, <2>3, <1>0
      <4>2. w[i - 1] = s[i]
        BY <4>1, <2>9
      <4> QED BY <4>1, <4>2, <2>7
    <3>3. i # n
      BY <2>1, <2>12
    <3> QED BY <3>1, <3>2, <3>3, <2>3, <1>0
  <2>13. ASSUME NEW k \in DOMAIN w, NEW l \in DOMAIN w, w[k] = w[l] PROVE k = l
    <3> DEFINE place(m) == IF m < n THEN m ELSE m + 1
    <3>1. ASSUME NEW m \in DOMAIN w PROVE place(m) \in 1..Len(s) /\ w[m] = s[place(m)]
      <4>1. CASE m < n
        BY <4>1, <2>3, <2>7, <2>8
      <4>2. CASE m >= n
        BY <4>2, <2>3, <2>7, <2>9
      <4> QED BY <4>1, <4>2, <2>3, <2>7
    <3>2. place(k) = place(l)
      <4>1. place(k) \in 1..Len(s) /\ place(l) \in 1..Len(s) /\ s[place(k)] = s[place(l)]
        BY <3>1, <2>13
      <4> HIDE DEF place
      <4> QED BY <4>1, <2>10
    <3> QED BY <3>2, <2>3, <2>7
  <2> QED BY <2>6, <2>11, <2>12, <2>13 DEF IsInjective
<1> QED BY <1>1, <1>2

\* A transaction keeps its order while others move.
LEMMA OthersKeepOrder ==
  ASSUME LocksAssumption, LockTypes, NEW u \in Txs, InOrder(u), job' = job,
         plan'[u] = plan[u], asked'[u] = asked[u], state'[u] = state[u],
         \A r \in Resources: /\ In(u, r)' <=> In(u, r)
                             /\ Has(u, r) => Has(u, r)'
  PROVE  InOrder(u)'
<1>1. job[u] \in [proc: Procs, kind: Kinds, req: Requests]
  BY DEF LockTypes, LocksAssumption
<1>2. \A r \in Resources: Needs(job[u], r) \subseteq Resources
  BY <1>1, ResourceStages DEF Needs
<1>3. \A r: Planned(u, r)' <=> Planned(u, r)
  BY DEF Planned
<1>4. \A r: Needs(job[u], r)' = Needs(job[u], r) /\ Stage(r)' = Stage(r)
  BY DEF Needs, Stage
<1>5. /\ \A a, b \in DOMAIN plan'[u]: a < b => Before(plan'[u][a], plan'[u][b])
      /\ \A r \in Resources: In(u, r)' => \A a \in DOMAIN plan'[u]: Before(r, plan'[u][a])
  BY DEF InOrder
<1>6. \A r \in Resources: In(u, r)' /\ r # asked'[u] => Has(u, r)' /\ Before(r, asked'[u])
  BY DEF InOrder
<1>7. \A r \in Resources: In(u, r)' \/ Planned(u, r)' =>
        /\ \A w \in Needs(job[u], r): In(u, w)' \/ Planned(u, w)'
        /\ Stage(r) = 1 => r = ConnOf(job[u].proc)
  BY <1>2, <1>3 DEF InOrder
<1>8. state'[u] # "open" => plan'[u] = << >> /\ \A r \in Resources: ~In(u, r)'
  BY DEF InOrder
<1> QED BY <1>4, <1>5, <1>6, <1>7, <1>8 DEF InOrder

-----------------------------------------------------------------------------
(***************************************************************************)
(* Every step keeps the order.                                             *)
(***************************************************************************)
LEMMA LockInit == LocksAssumption /\ Init => LockInv
<1> SUFFICES ASSUME LocksAssumption, Init PROVE LockInv
  OBVIOUS
<1>1. /\ LockTypes
      /\ \A r \in Resources: queue[r] = << >> /\ DOMAIN queue[r] = {}
      /\ \A t \in Txs: plan[t] = << >> /\ DOMAIN plan[t] = {}
  BY ResourceStages DEF Init, LockTypes
<1>2. \A r \in Resources: IsInjective(queue[r])
  BY <1>1 DEF IsInjective
<1>3. ASSUME NEW t \in Txs PROVE InOrder(t)
  <2>1. \A r \in Resources: ~In(t, r) /\ ~Planned(t, r)
    BY <1>1 DEF In, Planned
  <2> QED BY <1>1, <2>1 DEF InOrder
<1> QED BY <1>1, <1>2, <1>3 DEF LockInv

LEMMA CapacityIs ==
  ASSUME LocksAssumption, NEW r
  PROVE  Capacity(r) \in Nat \ {0} /\ (~IsConn(r) => Capacity(r) = 1)
BY DEF Capacity, LocksAssumption

LEMMA LeaveKeeps ==
  ASSUME LocksAssumption, LockInv, NEW t \in Txs, Leave(t)
  PROVE  LockInv'
<1>0. /\ LockTypes /\ \A r \in Resources: queue[r] \in Seq(Txs) /\ IsInjective(queue[r])
      /\ plan \in [Txs -> Seq(Resources)] /\ asked \in [Txs -> Resources]
      /\ state \in [Txs -> {"new", "open", "ended"}]
  BY DEF LockInv, LockTypes
<1>1. /\ queue' = [r \in Resources |-> Without(queue[r], t)] /\ job' = job
      /\ plan' = [plan EXCEPT ![t] = << >>] /\ asked' = [asked EXCEPT ![t] = Code]
      /\ state' = [state EXCEPT ![t] = "ended"]
  BY DEF Leave
<1>2. ASSUME NEW r \in Resources
      PROVE  /\ queue'[r] \in Seq(Txs) /\ IsInjective(queue'[r])
             /\ \A k \in DOMAIN queue'[r]:
                  queue'[r][k] # t /\ \E i \in DOMAIN queue[r]: queue[r][i] = queue'[r][k]
             /\ \A i \in DOMAIN queue[r]:
                  queue[r][i] # t => \E k \in DOMAIN queue'[r]: k <= i /\ queue'[r][k] = queue[r][i]
  <2> DEFINE s == queue[r]
             w == queue'[r]
  <2>1. s \in Seq(Txs) /\ IsInjective(s) /\ w = Without(s, t)
    BY <1>0, <1>1
  <2> HIDE DEF s, w
  <2>2. /\ w \in Seq(Txs) /\ IsInjective(w)
        /\ \A k \in DOMAIN w: w[k] # t /\ \E i \in DOMAIN s: s[i] = w[k]
        /\ \A i \in DOMAIN s: s[i] # t => \E k \in DOMAIN w: k <= i /\ w[k] = s[i]
    BY <2>1, WithoutIs
  <2> QED BY <2>2 DEF s, w
<1>3. LockTypes'
  <2>1. queue' \in [Resources -> Seq(Txs)]
    BY <1>1, <1>2
  <2>2. << >> \in Seq(Resources) /\ Code \in Resources
    BY ResourceStages
  <2> QED BY <1>0, <1>1, <2>1, <2>2 DEF LockTypes
<1>4. ASSUME NEW u \in Txs, u # t PROVE InOrder(u)'
  <2>1. ASSUME NEW r \in Resources PROVE (In(u, r)' <=> In(u, r)) /\ (Has(u, r) => Has(u, r)')
    <3>1. In(u, r)' => In(u, r)
      BY <1>2 DEF In
    <3>2. In(u, r) => In(u, r)'
      BY <1>2, <1>4 DEF In
    <3>3. Has(u, r) => Has(u, r)'
      <4> SUFFICES ASSUME Has(u, r) PROVE Has(u, r)'
        OBVIOUS
      <4>1. PICK i \in DOMAIN queue[r]: i <= Capacity(r) /\ queue[r][i] = u
        BY DEF Has
      <4>2. PICK k \in DOMAIN queue'[r]: k <= i /\ queue'[r][k] = u
        BY <4>1, <1>2, <1>4
      <4>3. i \in Nat /\ k \in Nat /\ Capacity(r) \in Nat
        <5>1. queue[r] \in Seq(Txs) /\ queue'[r] \in Seq(Txs)
          BY <1>0, <1>2
        <5>2. i \in Nat /\ k \in Nat
          BY <5>1
        <5> QED BY <5>2, CapacityIs
      <4>4. k <= Capacity(r)
        BY <4>1, <4>2, <4>3
      <4> QED BY <4>2, <4>4 DEF Has, Capacity, IsConn
    <3> QED BY <3>1, <3>2, <3>3
  <2>2. plan'[u] = plan[u] /\ asked'[u] = asked[u] /\ state'[u] = state[u] /\ job' = job
    BY <1>0, <1>1, <1>4
  <2>3. InOrder(u)
    BY DEF LockInv
  <2> QED BY <1>0, <2>1, <2>2, <2>3, OthersKeepOrder
<1>5. InOrder(t)'
  <2>1. plan'[t] = << >> /\ DOMAIN plan'[t] = {}
    BY <1>0, <1>1
  <2>2. \A r \in Resources: ~In(t, r)' /\ ~Planned(t, r)'
    BY <2>1, <1>2 DEF In, Planned
  <2> QED BY <2>1, <2>2 DEF InOrder
<1> QED BY <1>2, <1>3, <1>4, <1>5 DEF LockInv

LEMMA BeginKeeps ==
  ASSUME LocksAssumption, LockInv, NEW t \in Txs, Begin(t)
  PROVE  LockInv'
<1>0. /\ LockTypes /\ job \in Jobs /\ \A u \in Txs: InOrder(u)
      /\ plan \in [Txs -> Seq(Resources)] /\ state \in [Txs -> {"new", "open", "ended"}]
  BY DEF LockInv, LockTypes
<1>1. PICK s \in Plans(t): plan' = [plan EXCEPT ![t] = s]
  BY DEF Begin
<1>2. /\ state[t] = "new" /\ state' = [state EXCEPT ![t] = "open"]
      /\ job' = job /\ queue' = queue /\ asked' = asked
  BY DEF Begin
<1>3. Sound(job[t], s)
  BY <1>0, PlansAreSound
<1>4. LockTypes'
  BY <1>0, <1>1, <1>2, <1>3 DEF LockTypes, Sound
<1>5. \A r \in Resources: IsInjective(queue'[r])
  BY <1>2 DEF LockInv
<1>6. ASSUME NEW u, NEW r PROVE (In(u, r)' <=> In(u, r)) /\ (Has(u, r)' <=> Has(u, r))
  BY <1>2 DEF In, Has, Capacity, IsConn
<1>7. ASSUME NEW u \in Txs, u # t PROVE InOrder(u)'
  <2>1. plan'[u] = plan[u] /\ asked'[u] = asked[u] /\ state'[u] = state[u]
    BY <1>0, <1>1, <1>2, <1>7
  <2> QED BY <1>0, <1>2, <1>6, <2>1, OthersKeepOrder
<1>8. InOrder(t)'
  <2>1. \A r \in Resources: ~In(t, r)'
    BY <1>0, <1>2, <1>6 DEF InOrder
  <2>2. plan'[t] = s /\ state'[t] = "open" /\ job'[t] = job[t]
    BY <1>0, <1>1, <1>2
  <2>3. \A a, b \in DOMAIN plan'[t]: a < b => Before(plan'[t][a], plan'[t][b])
    BY <2>2, <1>3 DEF Sound
  <2>4. ASSUME NEW r \in Resources, Planned(t, r)'
        PROVE  /\ \A w \in Needs(job[t], r): Planned(t, w)'
               /\ Stage(r) = 1 => r = ConnOf(job[t].proc)
    <3>1. PICK a \in DOMAIN s: s[a] = r
      BY <2>2, <2>4 DEF Planned
    <3> QED BY <3>1, <2>2, <1>3 DEF Sound, Planned
  <2>5. Needs(job[t], Code)' = Needs(job[t], Code) /\ \A r: Needs(job[t], r)' = Needs(job[t], r)
    BY <1>2 DEF Needs, Stage
  <2> QED BY <2>1, <2>2, <2>3, <2>4, <2>5, <1>2 DEF InOrder
<1> QED BY <1>4, <1>5, <1>7, <1>8 DEF LockInv

LEMMA AskKeeps ==
  ASSUME LocksAssumption, LockInv, NEW t \in Txs, Ask(t)
  PROVE  LockInv'
<1> DEFINE r == Head(plan[t])
<1>0. /\ LockTypes /\ queue \in [Resources -> Seq(Txs)] /\ job \in Jobs
      /\ plan \in [Txs -> Seq(Resources)] /\ asked \in [Txs -> Resources]
      /\ state \in [Txs -> {"new", "open", "ended"}]
      /\ \A u \in Txs: InOrder(u)
      /\ \A s \in Resources: IsInjective(queue[s])
  BY DEF LockInv, LockTypes
<1>1. /\ plan[t] # << >> /\ Granted(t) /\ asked' = [asked EXCEPT ![t] = r]
      /\ plan' = [plan EXCEPT ![t] = Tail(@)] /\ job' = job /\ state' = state
      /\ queue' = IF Has(t, r) /\ ~IsConn(r) THEN queue
                  ELSE [queue EXCEPT ![r] = Append(@, t)]
  BY DEF Ask
<1>2. /\ r \in Resources /\ 1 \in DOMAIN plan[t] /\ plan[t][1] = r
      /\ Tail(plan[t]) \in Seq(Resources)
      /\ \A a \in DOMAIN Tail(plan[t]): /\ a + 1 \in DOMAIN plan[t] /\ 1 < a + 1
                                        /\ Tail(plan[t])[a] = plan[t][a + 1]
      /\ \A a \in DOMAIN plan[t]: a # 1 => /\ a - 1 \in DOMAIN Tail(plan[t])
                                           /\ Tail(plan[t])[a - 1] = plan[t][a]
  <2>1. plan[t] \in Seq(Resources)
    BY <1>0
  <2> QED BY <2>1, <1>1
<1> HIDE DEF r
<1>3. /\ plan'[t] = Tail(plan[t]) /\ asked'[t] = r
      /\ \A u \in Txs \ {t}: plan'[u] = plan[u] /\ asked'[u] = asked[u]
  BY <1>0, <1>1
\* What t has asked for before is granted.
<1>4. ASSUME NEW s \in Resources, In(t, s) PROVE Has(t, s)
  <2>1. CASE s # asked[t]
    BY <2>1, <1>0, <1>4 DEF InOrder
  <2>2. CASE s = asked[t]
    BY <2>2, <1>1, <1>4 DEF Granted, In, Has
  <2> QED BY <2>1, <2>2
\* What is appended is new in the queue.
<1>5. \/ queue' = queue /\ In(t, r)
      \/ queue' = [queue EXCEPT ![r] = Append(@, t)] /\ ~In(t, r)
  <2>1. CASE In(t, r)
    <3>1. Before(r, r)
      BY <2>1, <1>0, <1>2 DEF InOrder
    <3>2. ~IsConn(r)
      BY <3>1, <1>2, StageOf DEF Before
    <3> QED BY <2>1, <3>2, <1>1, <1>2, <1>4
  <2>2. CASE ~In(t, r)
    BY <2>2, <1>1 DEF In, Has
  <2> QED BY <2>1, <2>2
<1>6. /\ queue' \in [Resources -> Seq(Txs)]
      /\ \A s \in Resources \ {r}: queue'[s] = queue[s]
      /\ \A i \in DOMAIN queue[r]: i \in DOMAIN queue'[r] /\ queue'[r][i] = queue[r][i]
      /\ \A i \in DOMAIN queue'[r]: i \in DOMAIN queue[r] \/ queue'[r][i] = t
      /\ \E i \in DOMAIN queue'[r]: queue'[r][i] = t
      /\ IsInjective(queue'[r])
  <2>1. CASE queue' = queue /\ In(t, r)
    BY <2>1, <1>0, <1>2 DEF In
  <2>2. CASE queue' = [queue EXCEPT ![r] = Append(@, t)] /\ ~In(t, r)
    <3> DEFINE s == queue[r]
               w == Append(s, t)
    <3>1. s \in Seq(Txs) /\ IsInjective(s) /\ \A i \in DOMAIN s: s[i] # t
      BY <1>0, <1>2, <2>2 DEF In
    <3>2. queue' = [queue EXCEPT ![r] = w]
      BY <2>2
    <3> HIDE DEF s
    <3>3. /\ w \in Seq(Txs) /\ DOMAIN w = 1..(Len(s) + 1) /\ DOMAIN s = 1..Len(s)
          /\ Len(s) \in Nat
          /\ \A i \in DOMAIN s: w[i] = s[i]
          /\ w[Len(s) + 1] = t
      BY <3>1
    <3> HIDE DEF w
    <3>4. \A i \in DOMAIN w: i \in DOMAIN s \/ i = Len(s) + 1
      BY <3>3
    <3>5. IsInjective(w)
      <4> SUFFICES ASSUME NEW i \in DOMAIN w, NEW k \in DOMAIN w, w[i] = w[k] PROVE i = k
        BY DEF IsInjective
      <4>1. CASE i \in DOMAIN s /\ k \in DOMAIN s
        BY <4>1, <3>1, <3>3 DEF IsInjective
      <4>2. CASE i = Len(s) + 1 /\ k \in DOMAIN s
        BY <4>2, <3>1, <3>3
      <4>3. CASE i \in DOMAIN s /\ k = Len(s) + 1
        BY <4>3, <3>1, <3>3
      <4> QED BY <4>1, <4>2, <4>3, <3>4
    <3>6. queue' \in [Resources -> Seq(Txs)] /\ queue'[r] = w /\ \A x \in Resources \ {r}: queue'[x] = queue[x]
      BY <3>2, <3>3, <1>0, <1>2
    <3>7. Len(s) + 1 \in DOMAIN w /\ \A i \in DOMAIN s: i \in DOMAIN w
      BY <3>3
    <3> QED BY <3>3, <3>4, <3>5, <3>6, <3>7 DEF s
  <2> QED BY <2>1, <2>2, <1>5
<1>7. LockTypes' /\ \A s \in Resources: IsInjective(queue'[s])
  <2>1. plan' \in [Txs -> Seq(Resources)] /\ asked' \in [Txs -> Resources]
    BY <1>0, <1>1, <1>2
  <2>2. \A s \in Resources: IsInjective(queue'[s])
    BY <1>0, <1>6
  <2> QED BY <2>1, <2>2, <1>0, <1>1, <1>6 DEF LockTypes
<1>8. ASSUME NEW u \in Txs, NEW s \in Resources
      PROVE  /\ In(u, s)' <=> In(u, s) \/ (u = t /\ s = r)
             /\ Has(u, s) => Has(u, s)'
  <2>1. CASE s # r
    BY <2>1, <1>6 DEF In, Has, Capacity, IsConn
  <2>2. CASE s = r
    <3>1. In(u, s)' <=> In(u, s) \/ u = t
      BY <2>2, <1>6 DEF In
    <3>2. Has(u, s) => Has(u, s)'
      BY <2>2, <1>6 DEF Has, Capacity, IsConn
    <3> QED BY <2>2, <3>1, <3>2
  <2> QED BY <2>1, <2>2
<1>9. ASSUME NEW u \in Txs, u # t PROVE InOrder(u)'
  BY <1>0, <1>1, <1>3, <1>8, <1>9, OthersKeepOrder
<1>10. InOrder(t)'
  <2>0. InOrder(t)
    BY <1>0
  <2>1. \A a, b \in DOMAIN plan'[t]: a < b => Before(plan'[t][a], plan'[t][b])
    <3> SUFFICES ASSUME NEW a \in DOMAIN Tail(plan[t]), NEW b \in DOMAIN Tail(plan[t]), a < b
                 PROVE  Before(Tail(plan[t])[a], Tail(plan[t])[b])
      BY <1>3
    <3>1. Tail(plan[t]) \in Seq(Resources)
      BY <1>2
    <3>2. a \in Nat /\ b \in Nat
      BY <3>1
    <3>3. a + 1 < b + 1
      BY <3>2
    <3> QED BY <3>3, <2>0, <1>2 DEF InOrder
  <2>2. \A a \in DOMAIN plan'[t]: Before(r, plan'[t][a])
    BY <2>0, <1>2, <1>3 DEF InOrder
  <2>3. \A s \in Resources: In(t, s) => Before(s, r) /\ \A a \in DOMAIN plan'[t]: Before(s, plan'[t][a])
    BY <2>0, <1>2, <1>3 DEF InOrder
  <2>4. \A s \in Resources: In(t, s)' => \A a \in DOMAIN plan'[t]: Before(s, plan'[t][a])
    BY <2>2, <2>3, <1>8
  <2>5. \A s \in Resources: In(t, s)' /\ s # asked'[t] => Has(t, s)' /\ Before(s, asked'[t])
    BY <2>3, <1>3, <1>4, <1>8
  <2>6. \A s \in Resources: In(t, s)' \/ Planned(t, s)' <=> In(t, s) \/ Planned(t, s)
    <3>1. ASSUME NEW s \in Resources, Planned(t, s)' PROVE Planned(t, s)
      BY <3>1, <1>2, <1>3 DEF Planned
    <3>2. ASSUME NEW s \in Resources, Planned(t, s) PROVE Planned(t, s)' \/ s = r
      <4>1. PICK a \in DOMAIN plan[t]: plan[t][a] = s
        BY <3>2 DEF Planned
      <4>2. a # 1 => a - 1 \in DOMAIN plan'[t] /\ plan'[t][a - 1] = s
        BY <4>1, <1>2, <1>3
      <4> QED BY <4>1, <4>2, <1>2 DEF Planned
    <3>3. Planned(t, r)
      BY <1>2 DEF Planned
    <3> QED BY <3>1, <3>2, <3>3, <1>8
  <2>7. job[t] \in [proc: Procs, kind: Kinds, req: Requests] /\ job'[t] = job[t]
    BY <1>0, <1>1 DEF LocksAssumption
  <2>8. \A s \in Resources: Needs(job[t], s) \subseteq Resources /\ Needs(job[t], s)' = Needs(job[t], s)
    BY <2>7, <1>1, ResourceStages DEF Needs, Stage
  <2>9. \A s \in Resources: In(t, s)' \/ Planned(t, s)' =>
          /\ \A w \in Needs(job[t], s): In(t, w)' \/ Planned(t, w)'
          /\ Stage(s) = 1 => s = ConnOf(job[t].proc)
    BY <2>0, <2>6, <2>8 DEF InOrder
  <2>10. state'[t] = "open"
    BY <2>0, <1>0, <1>1 DEF InOrder
  <2> QED BY <2>1, <2>4, <2>5, <2>7, <2>8, <2>9, <2>10 DEF InOrder
<1> QED BY <1>7, <1>9, <1>10 DEF LockInv

LEMMA LockStep == LocksAssumption /\ LockInv /\ [Next]_vars => LockInv'
<1> SUFFICES ASSUME LocksAssumption, LockInv, [Next]_vars PROVE LockInv'
  OBVIOUS
<1>1. ASSUME NEW t \in Txs, Begin(t) PROVE LockInv'
  BY <1>1, BeginKeeps
<1>2. ASSUME NEW t \in Txs, Ask(t) PROVE LockInv'
  BY <1>2, AskKeeps
<1>3. ASSUME NEW t \in Txs, End(t) \/ Detect(t) PROVE LockInv'
  BY <1>3, LeaveKeeps DEF End, Detect
<1>4. CASE UNCHANGED vars
  <2>1. /\ job' = job /\ queue' = queue /\ plan' = plan /\ asked' = asked /\ state' = state
    BY <1>4 DEF vars
  <2>2. \A t \in Txs: InOrder(t)' <=> InOrder(t)
    BY <2>1 DEF InOrder, In, Planned, Has, Capacity, IsConn, Needs, Stage
  <2> QED BY <2>1, <2>2 DEF LockInv, LockTypes
<1> QED BY <1>1, <1>2, <1>3, <1>4 DEF Next

-----------------------------------------------------------------------------
(***************************************************************************)
(* Every transaction takes its locks stage by stage, and those that spend  *)
(* from a wallet have its lock when they lock reservations or buckets.     *)
(***************************************************************************)
THEOREM LocksAreOrdered ==
  ASSUME LocksAssumption
  PROVE  Spec => []LockInv
  BY LockInit, LockStep, PTL DEF Spec

\* A transaction that waits does not have what it waits for, and holds only
\* locks of earlier stages, or of the last.
LEMMA Waiting ==
  ASSUME LocksAssumption, LockInv, NEW t \in Txs, ~Granted(t)
  PROVE  /\ In(t, asked[t]) /\ ~Has(t, asked[t]) /\ asked[t] \in Resources
         /\ \A r \in Resources: Has(t, r) => r # asked[t] /\ Before(r, asked[t])
<1>1. asked[t] \in Resources /\ queue[asked[t]] \in Seq(Txs) /\ IsInjective(queue[asked[t]])
  BY DEF LockInv, LockTypes
<1>2. PICK i \in DOMAIN queue[asked[t]]: queue[asked[t]][i] = t /\ ~(i <= Capacity(asked[t]))
  BY DEF Granted
<1>3. ~Has(t, asked[t])
  BY <1>1, <1>2 DEF Has, IsInjective
<1>4. In(t, asked[t])
  BY <1>2 DEF In
<1>5. ASSUME NEW r \in Resources, Has(t, r) PROVE r # asked[t] /\ Before(r, asked[t])
  <2>1. In(t, r) /\ r # asked[t]
    BY <1>3, <1>5 DEF In, Has
  <2> QED BY <2>1 DEF LockInv, InOrder
<1> QED BY <1>1, <1>3, <1>4, <1>5

\* Who is in a queue of the last stage and spends from the wallet has its lock.
LEMMA UnderTheWallet ==
  ASSUME LocksAssumption, LockInv, NEW t \in Txs, job[t].kind # "lifecycle",
         NEW r \in Resources, Stage(r) = 4, In(t, r)
  PROVE  Has(t, Wallet)
<1>1. InOrder(t) /\ Wallet \in Needs(job[t], r) /\ Wallet \in Resources /\ Stage(Wallet) = 3
  BY ResourceStages DEF LockInv, Needs
<1>2. ~Before(r, Wallet)
  BY <1>1 DEF Before
<1>3. ~Planned(t, Wallet)
  BY <1>1, <1>2 DEF InOrder, Planned
<1>4. In(t, Wallet)
  BY <1>1, <1>3 DEF InOrder
<1>5. asked[t] # Wallet
  <2>1. r # asked[t] => Before(r, asked[t])
    BY <1>1 DEF InOrder
  <2> QED BY <2>1, <1>1, <1>2
<1> QED BY <1>1, <1>4, <1>5 DEF InOrder

\* Of what is not a connection there is one.
LEMMA OneHolder ==
  ASSUME LocksAssumption, LockInv, NEW r \in Resources, ~IsConn(r), NEW t, NEW u,
         Has(t, r), Has(u, r)
  PROVE  t = u
<1>1. Capacity(r) = 1 /\ queue[r] \in Seq(Txs)
  BY CapacityIs DEF LockInv, LockTypes
<1>2. PICK i \in DOMAIN queue[r]: i <= 1 /\ queue[r][i] = t
  BY <1>1 DEF Has
<1>3. PICK k \in DOMAIN queue[r]: k <= 1 /\ queue[r][k] = u
  BY <1>1 DEF Has
<1>4. i = 1 /\ k = 1
  BY <1>1, <1>2, <1>3
<1> QED BY <1>2, <1>3, <1>4

(***************************************************************************)
(* No deadlock without a transition of a subscription, for any number of   *)
(* transactions, processes, requests and buckets: who waits in one stage   *)
(* is blocked by who waits in a later one, and nobody of the wallet's side *)
(* waits in the last (settle_usage, usage_charge_settler_postgres.rs).     *)
(***************************************************************************)
THEOREM WalletSideIsAcyclic ==
  ASSUME LocksAssumption
  PROVE  Spec => []NoReverseCycle
<1>1. LockInv => NoReverseCycle
  <2> SUFFICES ASSUME LockInv, NEW C \in Deadlocks(WalletSide) PROVE FALSE
    BY DEF NoReverseCycle
  <2>1. /\ C \subseteq {t \in WalletSide: ~Granted(t)} /\ C # {}
        /\ \A t \in C: \E u \in C: Blocks(u, t)
    BY DEF Deadlocks
  <2>2. ASSUME NEW t \in C PROVE t \in Txs /\ job[t].kind # "lifecycle" /\ ~Granted(t)
    BY <2>1 DEF WalletSide
  <2>3. ASSUME NEW t \in C
        PROVE  /\ asked[t] \in Resources /\ Stage(asked[t]) \in 2..4
               /\ \E u \in C: Has(u, asked[t])
    <3>1. PICK u \in C: Blocks(u, t)
      BY <2>1
    <3>2. asked[t] \in Resources /\ asked[t][1] \notin {"gate", "conn"} /\ Has(u, asked[t])
      BY <3>1, <2>2, Waiting DEF Blocks
    <3>3. Stage(asked[t]) \in 0..4 /\ Stage(asked[t]) \notin {0, 1}
      BY <3>2, StageOf
    <3> QED BY <3>2, <3>3
  <2>4. ASSUME NEW t \in C, Stage(asked[t]) = 4 PROVE FALSE
    <3>1. PICK u \in C: Has(u, asked[t])
      BY <2>3
    <3>2. In(u, asked[t]) /\ In(t, asked[t]) /\ ~Has(t, asked[t]) /\ asked[t] \in Resources
      BY <3>1, <2>2, Waiting DEF Has, In
    <3>3. Has(u, Wallet) /\ Has(t, Wallet)
      BY <3>2, <2>2, <2>4, UnderTheWallet
    <3>4. Wallet \in Resources /\ ~IsConn(Wallet)
      BY ResourceStages, StageOf
    <3>5. u = t
      BY <3>3, <3>4, OneHolder
    <3> QED BY <3>1, <3>2, <3>5
  <2>5. ASSUME NEW t \in C, NEW u \in C, Has(u, asked[t])
        PROVE  Stage(asked[t]) < Stage(asked[u])
    <3>1. Before(asked[t], asked[u])
      BY <2>2, <2>3, <2>5, Waiting
    <3> QED BY <3>1, <2>4 DEF Before
  <2>6. ASSUME NEW t \in C PROVE Stage(asked[t]) # 3
    BY <2>3, <2>4, <2>5, <2>6
  <2>7. ASSUME NEW t \in C PROVE Stage(asked[t]) # 2
    BY <2>3, <2>4, <2>5, <2>6, <2>7
  <2> QED BY <2>1, <2>3, <2>4, <2>6, <2>7
<1> QED BY <1>1, LocksAreOrdered, PTL

(***************************************************************************)
(* For any pool and any number of transactions, those that go through the  *)
(* gate of a process have one of its connections at a time between them    *)
(* (WalletAdmissionGates::acquire before pool.begin).                      *)
(***************************************************************************)
THEOREM GateHoldsOneConnection ==
  ASSUME LocksAssumption
  PROVE  Spec => []GateSparesPool
<1>1. LockInv => GateSparesPool
  <2> SUFFICES ASSUME LockInv, NEW p \in Procs, NEW s \in Txs, NEW t \in Txs,
                      job[s].kind \in GatedKinds, job[t].kind \in GatedKinds,
                      Has(s, ConnOf(p)), Has(t, ConnOf(p))
               PROVE  s = t
    BY DEF GateSparesPool
  <2>1. ASSUME NEW u \in Txs, job[u].kind \in GatedKinds, Has(u, ConnOf(p))
        PROVE  Has(u, GateOf(p))
    <3>1. /\ InOrder(u) /\ ConnOf(p) \in Resources /\ In(u, ConnOf(p)) /\ Stage(ConnOf(p)) = 1
          /\ GateOf(p) \in Resources /\ Stage(GateOf(p)) = 0
      BY <2>1, ResourceStages DEF LockInv, Has, In
    <3>2. ConnOf(p) = ConnOf(job[u].proc)
      BY <3>1 DEF InOrder
    <3>3. p = job[u].proc
      BY <3>2 DEF ConnOf
    <3>4. GateOf(p) \in Needs(job[u], ConnOf(p))
      BY <3>1, <3>3, <2>1 DEF Needs
    <3>5. ~Before(ConnOf(p), GateOf(p))
      BY <3>1 DEF Before
    <3>6. ~Planned(u, GateOf(p))
      BY <3>1, <3>5 DEF InOrder, Planned
    <3>7. In(u, GateOf(p))
      BY <3>1, <3>4, <3>6 DEF InOrder
    <3>8. asked[u] # GateOf(p)
      <4>1. ConnOf(p) # asked[u] => Before(ConnOf(p), asked[u])
        BY <3>1 DEF InOrder
      <4> QED BY <4>1, <3>1, <3>5
    <3> QED BY <3>1, <3>7, <3>8 DEF InOrder
  <2>2. GateOf(p) \in Resources /\ ~IsConn(GateOf(p))
    BY ResourceStages, StageOf
  <2> QED BY <2>1, <2>2, OneHolder
<1> QED BY <1>1, LocksAreOrdered, PTL

-----------------------------------------------------------------------------
(***************************************************************************)
(* The request quota of a key.                                             *)
(***************************************************************************)
\* A set of callers is finite, and one more caller adds at most one.
LEMMA CallerSets ==
  ASSUME QuotaConstants, NEW S \in SUBSET Callers
  PROVE  /\ IsFiniteSet(S)
         /\ Cardinality(S) \in Nat
         /\ \A c \in Callers: Cardinality(S \cup {c}) <= Cardinality(S) + 1
         /\ \A T \in SUBSET S: Cardinality(T) <= Cardinality(S)
<1>1. IsFiniteSet(S)
  BY FS_Subset DEF QuotaConstants
<1>2. Cardinality(S) \in Nat
  BY <1>1, FS_CardinalityType
<1>3. ASSUME NEW c \in Callers PROVE Cardinality(S \cup {c}) <= Cardinality(S) + 1
  BY <1>1, <1>2, FS_AddElement
<1>4. ASSUME NEW T \in SUBSET S PROVE Cardinality(T) <= Cardinality(S)
  BY <1>1, FS_Subset
<1> QED BY <1>1, <1>2, <1>3, <1>4

\* Two windows of one calendar bucket that meet are the same window.
LEMMA WindowsMeet ==
  ASSUME QuotaConstants, Kind = "calendar", Amount = 1, NEW t \in Times, NEW s \in Window(t)
  PROVE  Window(s) = Window(t)
<1>1. Window(t) = {u \in Times: (t \div Span) - (Amount - 1) <= u \div Span
                                /\ u \div Span <= t \div Span}
  BY DEF Window
<1>2. s \in Times /\ t \in Int /\ s \in Int /\ Span \in Nat \ {0}
  BY <1>1 DEF QuotaConstants, Times
<1>3. t \div Span \in Int /\ s \div Span \in Int
  BY <1>2
<1>4. s \div Span = t \div Span
  BY <1>1, <1>3
<1>5. Window(s) = {u \in Times: (s \div Span) - (Amount - 1) <= u \div Span
                                /\ u \div Span <= s \div Span}
  BY DEF Window
<1> QED BY <1>1, <1>4, <1>5

\* A window holds instants only.
LEMMA WindowTimes ==
  ASSUME QuotaConstants, NEW t \in Times
  PROVE  Window(t) \subseteq Times
<1>1. CASE Kind = "all_time"
  BY <1>1 DEF Window
<1>2. CASE Kind = "past"
  BY <1>2 DEF Window
<1>3. CASE Kind = "calendar"
  BY <1>3 DEF Window
<1> QED BY <1>1, <1>2, <1>3 DEF QuotaConstants

\* The types and the lock, whatever the period.
LEMMA QuotaLockStep ==
  QuotaConstants /\ TypeOK /\ LockHeld /\ [QuotaNext]_quotaVars => TypeOK' /\ LockHeld'
<1> SUFFICES ASSUME QuotaConstants, TypeOK, LockHeld, [QuotaNext]_quotaVars
             PROVE  TypeOK' /\ LockHeld'
  OBVIOUS
<1> USE DEF TypeOK, LockHeld, Steps, Times, Nobody, Goto
<1>1. CASE ClockTicks
  BY <1>1 DEF QuotaConstants, ClockTicks
<1>2. ASSUME NEW c \in Callers, Arrive(c) PROVE TypeOK' /\ LockHeld'
  BY <1>2 DEF Arrive
<1>3. ASSUME NEW c \in Callers, CheckUsage(c) PROVE TypeOK' /\ LockHeld'
  BY <1>3 DEF CheckUsage
<1>4. ASSUME NEW c \in Callers, Lock(c) PROVE TypeOK' /\ LockHeld'
  <2>1. \A d \in Callers: pc[d] \notin {"count", "insert"}
    BY <1>4 DEF Lock
  <2> QED BY <1>4, <2>1 DEF Lock
<1>5. ASSUME NEW c \in Callers, Count(c) PROVE TypeOK' /\ LockHeld'
  <2>1. locked = {c} /\ \A d \in Callers: d # c => pc[d] \notin {"count", "insert"}
    BY <1>5 DEF Count
  <2> QED BY <1>5, <2>1 DEF Count
<1>6. ASSUME NEW c \in Callers, Insert(c) PROVE TypeOK' /\ LockHeld'
  <2>1. locked = {c} /\ \A d \in Callers: d # c => pc[d] \notin {"count", "insert"}
    BY <1>6 DEF Insert
  <2> QED BY <1>6, <2>1 DEF Insert
<1>7. ASSUME NEW c \in Callers, Fail(c) PROVE TypeOK' /\ LockHeld'
  <2>1. \A d \in Callers: d # c => (pc'[d] = pc[d])
    BY <1>7 DEF Fail
  <2>2. pc'[c] = "failed" /\ locked' = locked \ {c}
    BY <1>7 DEF Fail
  <2>3. LockHeld'
    <3> SUFFICES ASSUME NEW d \in Callers, pc'[d] \in {"count", "insert"} PROVE locked' = {d}
      OBVIOUS
    <3>1. d # c /\ locked = {d}
      BY <2>1, <2>2
    <3> QED BY <2>2, <3>1
  <2> QED BY <1>7, <2>3 DEF Fail
<1>8. CASE UNCHANGED quotaVars
  BY <1>8 DEF quotaVars
<1> QED BY <1>1, <1>2, <1>3, <1>4, <1>5, <1>6, <1>7, <1>8 DEF QuotaNext, Answer

\* A step other than an insertion leaves the rows alone.
LEMMA RowsStay ==
  ASSUME TypeOK, [QuotaNext]_quotaVars, \A c \in Callers: ~Insert(c)
  PROVE  at' = at
  BY DEF QuotaNext, Answer, quotaVars, ClockTicks, Arrive, CheckUsage, Lock, Count, Fail

\* Every step keeps the quota and the room that was found, if the period is
\* one calendar bucket.
LEMMA QuotaStep ==
  ASSUME QuotaConstants, Kind = "calendar", Amount = 1, QuotaInv, [QuotaNext]_quotaVars
  PROVE  RoomFound' /\ NoOvershoot'
<1>t. TypeOK /\ LockHeld /\ RoomFound /\ NoOvershoot /\ Limit \in Int
  BY DEF QuotaConstants, QuotaInv
<1>n. CASE ~(Limit >= 0)
  BY <1>n DEF RoomFound, NoOvershoot
<1>p. CASE Limit >= 0
  <2>1. ASSUME NEW c \in Callers, Insert(c) PROVE RoomFound' /\ NoOvershoot'
    <3>1. stamp[c] \in Times /\ pc[c] = "insert" /\ stamp' = stamp
          /\ at' = [at EXCEPT ![c] = stamp[c]]
      BY <1>t, <2>1 DEF Insert, TypeOK
    <3>2. Cardinality(Admissions(Window(stamp[c]))) < Limit
      BY <1>p, <1>t, <3>1 DEF RoomFound
    <3>3. ASSUME NEW t \in Times
          PROVE  Cardinality(Admissions(Window(t))') <= Limit
      <4> DEFINE A == Admissions(Window(t))
      <4>0. Window(t)' = Window(t)
        BY DEF Window, Times
      <4>1. A \subseteq Callers /\ Admissions(Window(t))' \subseteq A \cup {c}
        BY <1>t, <3>1, <4>0 DEF Admissions, TypeOK
      <4>2. A \in SUBSET Callers /\ A \cup {c} \in SUBSET Callers
        BY <4>1
      <4>3. CASE stamp[c] \in Window(t)
        <5>1. Window(stamp[c]) = Window(t)
          BY <3>1, <4>3, WindowsMeet
        <5>2. Cardinality(A) < Limit /\ Cardinality(A) \in Nat
          BY <3>2, <5>1, <4>2, CallerSets
        <5>3. Cardinality(A \cup {c}) <= Cardinality(A) + 1 /\ Cardinality(A \cup {c}) \in Nat
          BY <4>2, CallerSets
        <5>4. Cardinality(Admissions(Window(t))') <= Cardinality(A \cup {c})
          BY <4>1, <4>2, CallerSets
        <5>5. Cardinality(Admissions(Window(t))') \in Nat
          <6>1. Admissions(Window(t))' \in SUBSET Callers
            BY DEF Admissions
          <6> QED BY <6>1, CallerSets
        <5> QED BY <1>t, <5>2, <5>3, <5>4, <5>5
      <4>4. CASE stamp[c] \notin Window(t)
        <5>1. Admissions(Window(t))' \in SUBSET A
          BY <1>t, <3>1, <4>0, <4>4 DEF Admissions, TypeOK
        <5>2. Cardinality(Admissions(Window(t))') <= Cardinality(A)
              /\ Cardinality(A) \in Nat /\ Cardinality(A) <= Limit
          BY <1>p, <1>t, <4>2, <5>1, CallerSets DEF NoOvershoot
        <5>3. Cardinality(Admissions(Window(t))') \in Nat
          <6>1. Admissions(Window(t))' \in SUBSET Callers
            BY DEF Admissions
          <6> QED BY <6>1, CallerSets
        <5> QED BY <1>t, <5>2, <5>3
      <4> QED BY <4>3, <4>4
    <3>4. \A d \in Callers: pc'[d] # "insert"
      <4>1. pc'[c] # "insert" /\ \A d \in Callers: d # c => pc'[d] = pc[d]
        BY <1>t, <2>1 DEF Insert, Goto, TypeOK
      <4>2. \A d \in Callers: d # c => pc[d] # "insert"
        BY <1>t, <3>1 DEF LockHeld
      <4> QED BY <4>1, <4>2
    <3> QED BY <3>3, <3>4 DEF RoomFound, NoOvershoot, Times
  <2>2. ASSUME \A c \in Callers: ~Insert(c) PROVE RoomFound' /\ NoOvershoot'
    <3>1. at' = at
      BY <1>t, <2>2, RowsStay
    <3>2. \A t \in Times: Admissions(Window(t))' = Admissions(Window(t))
      BY <3>1 DEF Admissions, Window, Times
    <3>3. NoOvershoot'
      BY <1>p, <1>t, <3>2 DEF NoOvershoot, Times
    <3>4. ASSUME NEW c \in Callers, pc'[c] = "insert"
          PROVE  /\ stamp'[c] \in Times /\ stamp'[c] = stamp[c]
                 /\ Cardinality(Admissions(Window(stamp[c]))) < Limit
      <4>1. CASE pc[c] = "insert"
        <5>1. stamp'[c] = stamp[c]
          BY <1>t, <2>2, <3>4, <4>1
             DEF QuotaNext, Answer, quotaVars, ClockTicks, Arrive, CheckUsage, Lock, Count, Fail,
                                   Goto, TypeOK
        <5> QED BY <1>p, <1>t, <4>1, <5>1 DEF RoomFound, TypeOK
      <4>2. CASE pc[c] # "insert"
        <5>1. Count(c)
          BY <1>t, <2>2, <3>4, <4>2
             DEF QuotaNext, Answer, quotaVars, ClockTicks, Arrive, CheckUsage, Lock, Count, Fail,
                                   Goto, TypeOK
        <5>2. stamp' = stamp /\ ~(Cardinality(Admissions(Window(stamp[c]))) >= Limit)
          BY <1>p, <1>t, <3>4, <5>1 DEF Count, Goto, TypeOK
        <5>3. Cardinality(Admissions(Window(stamp[c]))) \in Nat
          <6>1. Admissions(Window(stamp[c])) \in SUBSET Callers
            BY DEF Admissions
          <6> QED BY <6>1, CallerSets
        <5> QED BY <1>t, <5>2, <5>3 DEF TypeOK
      <4> QED BY <4>1, <4>2
    <3>5. RoomFound'
      <4> SUFFICES ASSUME NEW c \in Callers, pc'[c] = "insert"
                   PROVE  Cardinality(Admissions(Window(stamp[c]))') < Limit
        BY DEF RoomFound
      <4>1. stamp[c] \in Times /\ stamp'[c] = stamp[c]
            /\ Cardinality(Admissions(Window(stamp[c]))) < Limit
        BY <3>4
      <4>2. Admissions(Window(stamp[c]))' = Admissions(Window(stamp[c]))
        BY <3>1, <4>1 DEF Admissions, Window, Times
      <4> QED BY <4>1, <4>2
    <3> QED BY <3>3, <3>5
  <2> QED BY <2>1, <2>2
<1> QED BY <1>n, <1>p

\* With a calendar period of one bucket no window ever holds more admissions
\* than the limit, for any number of requests and any delay between the
\* reading of the clock and the insertion.
THEOREM CalendarQuotaHolds ==
  ASSUME QuotaConstants, Kind = "calendar", Amount = 1
  PROVE  QuotaSpec => []NoOvershoot
<1>1. QuotaInit => QuotaInv
  <2> SUFFICES ASSUME QuotaInit PROVE QuotaInv
    OBVIOUS
  <2>1. TypeOK /\ LockHeld /\ RoomFound
    BY DEF QuotaConstants, QuotaInit, TypeOK, LockHeld, RoomFound, Steps, Times, Nobody, Never
  <2>2. ASSUME NEW t \in Times PROVE Admissions(Window(t)) = {}
    <3>1. Window(t) \subseteq Times
      BY WindowTimes
    <3> QED BY <3>1 DEF QuotaInit, Admissions, Times, Never
  <2>3. Cardinality({}) = 0
    BY FS_EmptySet
  <2>4. NoOvershoot
    BY <2>2, <2>3 DEF QuotaConstants, NoOvershoot
  <2> QED BY <2>1, <2>4 DEF QuotaInv
<1>2. QuotaInv /\ [QuotaNext]_quotaVars => QuotaInv'
  <2> SUFFICES ASSUME QuotaInv, [QuotaNext]_quotaVars PROVE QuotaInv'
    OBVIOUS
  <2>1. TypeOK' /\ LockHeld'
    BY QuotaLockStep DEF QuotaInv
  <2>2. RoomFound' /\ NoOvershoot'
    BY QuotaStep
  <2> QED BY <2>1, <2>2 DEF QuotaInv
<1>3. QuotaInv => NoOvershoot
  BY DEF QuotaInv
<1> QED BY <1>1, <1>2, <1>3, PTL DEF QuotaSpec

-----------------------------------------------------------------------------
(***************************************************************************)
(* Redemption codes.                                                       *)
(***************************************************************************)
CodeSteps == {"idle", "lock", "decide", "commit"}
CodeStates == {"none", "active", "redeemed", "revoked"}
CodeTx == [pc : CodeSteps, by : Users \cup {NoOne}, for : Projects \cup {NoOne},
           begun : Nat, got : Nat, at : Nat]

CodeTypeOK ==
  /\ now \in Nat /\ status \in CodeStates /\ holder \in Submissions \cup {NoOne}
  /\ members \subseteq Users \X Projects
  /\ tx \in [Submissions -> CodeTx]
  /\ receipts \subseteq [user : Users, project : Projects, got : Nat]
  /\ IsFiniteSet(receipts)
  /\ credit \in [Projects -> Nat]

\* Whoever has read the code holds its row, and nobody else does; it decides
\* with the time at which it got the lock; and its membership is kept locked.
Locked(c) ==
  /\ tx[c].pc \in {"decide", "commit"} <=> holder = c
  /\ holder = c => tx[c].at = tx[c].got
  /\ tx[c].pc # "idle" => /\ tx[c].by \in Users /\ tx[c].for \in Projects
                       /\ <<tx[c].by, tx[c].for>> \in members

\* What a redemption has found out still holds when it commits.
Ready(c) ==
  tx[c].pc = "commit" => /\ status = "active" /\ Receipt(c) = {}
                         /\ tx[c].got < Expiry /\ Cardinality(receipts) < Most

\* A code is used up exactly when its last receipt is written.
UsedUp ==
  /\ Cardinality(receipts) <= Most
  /\ Cardinality(receipts) = Most <=> status = "redeemed"

OnePerUser == \A r, s \in receipts: r.user = s.user => r = s
PaidTo(p) == {r \in receipts: r.project = p}
Credited == \A p \in Projects: credit[p] = Cardinality(PaidTo(p))

RedemptionInv ==
  /\ CodeTypeOK /\ UsedUp /\ OnePerUser /\ Credited
  /\ \A c \in Submissions: Locked(c) /\ Ready(c)

-----------------------------------------------------------------------------
\* The code does not exist yet, and nobody has begun.
LEMMA RedemptionInit ==
  ASSUME CodeAssumption
  PROVE  CodeInit => RedemptionInv
<1> SUFFICES ASSUME CodeInit PROVE RedemptionInv
  OBVIOUS
<1>1. IsFiniteSet({}) /\ Cardinality({}) = 0
  BY FS_EmptySet
<1>2. CodeTypeOK
  BY <1>1 DEF CodeInit, CodeTypeOK, CodeTx, NoTx, CodeSteps, CodeStates
<1>3. UsedUp /\ OnePerUser
  BY <1>1 DEF CodeAssumption, CodeInit, UsedUp, OnePerUser
<1>4. \A p \in Projects: PaidTo(p) = {}
  BY DEF CodeInit, PaidTo
<1>5. Credited
  BY <1>1, <1>4 DEF CodeInit, Credited
<1>6. \A c \in Submissions: Locked(c) /\ Ready(c)
  BY DEF CodeAssumption, CodeInit, Locked, Ready, NoTx
<1> QED BY <1>2, <1>3, <1>5, <1>6 DEF RedemptionInv

\* The types are kept.
LEMMA RedemptionTypes ==
  ASSUME CodeAssumption
  PROVE  RedemptionInv /\ [CodeNext]_codeVars => CodeTypeOK'
<1> SUFFICES ASSUME RedemptionInv, [CodeNext]_codeVars PROVE CodeTypeOK'
  OBVIOUS
<1> USE DEF CodeAssumption, RedemptionInv, CodeTypeOK, CodeSteps, CodeStates, CodeTx
<1>1. NoTx \in CodeTx
  BY DEF NoTx
<1>2. CASE Create \/ Revoke \/ Tick \/ UNCHANGED codeVars
  BY <1>2 DEF Create, Revoke, Tick, codeVars
<1>3. ASSUME NEW c \in Submissions, LockCode(c) PROVE CodeTypeOK'
  <2>1. tx' = [tx EXCEPT ![c].pc = "decide", ![c].got = now, ![c].at = now]
    BY <1>3 DEF LockCode, RedeemedAt
  <2>2. holder' = c /\ UNCHANGED <<now, status, members, receipts, credit>>
    BY <1>3 DEF LockCode
  <2>3. [tx[c] EXCEPT !.pc = "decide", !.got = now, !.at = now]
          \in CodeTx
    <3>1. /\ now \in Nat
          /\ tx[c] \in CodeTx
      OBVIOUS
    <3> QED BY <3>1
  <2>4. tx' \in [Submissions -> CodeTx]
    BY <2>1, <2>3
  <2> QED BY <2>2, <2>4
<1>4. ASSUME NEW c \in Submissions, Refuse(c) \/ Replay(c) \/ RollBack(c)
      PROVE  CodeTypeOK'
  BY <1>1, <1>4 DEF Refuse, Replay, RollBack, Idle, Unlock
<1>5. ASSUME NEW c \in Submissions, Grant(c) PROVE CodeTypeOK'
  BY <1>5 DEF Grant
<1>6. ASSUME NEW c \in Submissions, Commit(c) PROVE CodeTypeOK'
  <2>1. tx[c].by \in Users /\ tx[c].for \in Projects /\ tx[c].got \in Nat
    BY <1>6 DEF Commit, Locked
  <2>2. IsFiniteSet(receipts')
    BY <1>6, FS_AddElement DEF Commit
  <2>3. receipts' \subseteq [user : Users, project : Projects, got : Nat]
    BY <1>6, <2>1 DEF Commit
  <2>4. credit' \in [Projects -> Nat]
    BY <1>6, <2>1 DEF Commit
  <2> QED BY <1>1, <1>6, <2>2, <2>3, <2>4 DEF Commit, Idle, Unlock
<1>7. ASSUME NEW c \in Submissions, NEW u \in Users, NEW p \in Projects, Authorize(c, u, p)
      PROVE  CodeTypeOK'
  BY <1>7 DEF Authorize, NoTx
<1>8. ASSUME NEW u \in Users, NEW p \in Projects, RemoveMember(u, p) PROVE CodeTypeOK'
  BY <1>8 DEF RemoveMember
<1> QED BY <1>2, <1>3, <1>4, <1>5, <1>6, <1>7, <1>8 DEF CodeNext

\* What a commit writes: one receipt of a member who had none, in time.
LEMMA CommitPays ==
  ASSUME RedemptionInv, NEW c \in Submissions, Commit(c)
  PROVE  \E r \in [user : Users, project : Projects, got : Nat]:
           /\ r.user = tx[c].by /\ r.project = tx[c].for /\ r.got < Expiry /\ r \notin receipts
           /\ \A s \in receipts: s.user # tx[c].by
           /\ receipts' = receipts \cup {r}
           /\ Cardinality(receipts') = Cardinality(receipts) + 1
           /\ status = "active" /\ Cardinality(receipts) < Most
           /\ status' = IF Cardinality(receipts') = Most THEN "redeemed" ELSE status
<1> DEFINE r == [user |-> tx[c].by, project |-> tx[c].for, got |-> tx[c].got]
<1>1. tx[c].pc = "commit" /\ tx[c].by \in Users /\ tx[c].for \in Projects /\ tx[c].got \in Nat
  BY DEF Commit, RedemptionInv, Locked, CodeTypeOK, CodeTx
<1>2. /\ status = "active" /\ Receipt(c) = {} /\ tx[c].got < Expiry
      /\ Cardinality(receipts) < Most
  BY <1>1 DEF RedemptionInv, Ready
<1>3. \A s \in receipts: s.user # tx[c].by
  BY <1>2 DEF Receipt
<1>4. r \notin receipts
  BY <1>3
<1>5. receipts' = receipts \cup {r}
  BY DEF Commit
<1>6. Cardinality(receipts') = Cardinality(receipts) + 1
  BY <1>4, <1>5, FS_AddElement DEF RedemptionInv, CodeTypeOK
<1>7. r \in [user : Users, project : Projects, got : Nat]
  BY <1>1
<1>8. status' = IF Cardinality(receipts') = Most THEN "redeemed" ELSE status
  BY <1>6 DEF Commit
<1> QED BY <1>2, <1>3, <1>4, <1>5, <1>6, <1>7, <1>8

\* Receipts are written by commits only.
LEMMA ReceiptsMove ==
  ASSUME [CodeNext]_codeVars
  PROVE  \/ UNCHANGED <<receipts, credit>>
         \/ \E c \in Submissions: Commit(c)
BY DEF CodeNext, codeVars, Create, Revoke, Tick, LockCode, Refuse,
       Replay, Grant, RollBack, Authorize, RemoveMember

\* The receipts, the code's end and the ledger agree.
LEMMA RedemptionCounts ==
  ASSUME CodeAssumption
  PROVE  RedemptionInv /\ [CodeNext]_codeVars => UsedUp' /\ OnePerUser' /\ Credited'
<1> SUFFICES ASSUME RedemptionInv, [CodeNext]_codeVars
             PROVE  UsedUp' /\ OnePerUser' /\ Credited'
  OBVIOUS
<1>0. Cardinality(receipts) \in Nat /\ Most \in Nat
  BY FS_CardinalityType DEF CodeAssumption, RedemptionInv, CodeTypeOK
<1>1. CASE UNCHANGED <<receipts, credit>>
  <2>1. OnePerUser' /\ Credited'
    BY <1>1 DEF RedemptionInv, OnePerUser, Credited, PaidTo
  <2>2. status' = "redeemed" <=> status = "redeemed"
    <3>1. CASE \E c \in Submissions: Commit(c)
      <4> PICK c \in Submissions: Commit(c)
        BY <3>1
      <4>1. receipts' # receipts
        BY CommitPays
      <4> QED BY <1>1, <4>1
    <3>2. CASE ~\E c \in Submissions: Commit(c)
      BY <3>2
         DEF CodeNext, codeVars, Create, Revoke, Tick, LockCode,
                  Refuse, Replay, Grant,
                  RollBack, Authorize, RemoveMember
    <3> QED BY <3>1, <3>2
  <2> QED BY <1>1, <2>1, <2>2 DEF RedemptionInv, UsedUp
<1>2. ASSUME NEW c \in Submissions, Commit(c) PROVE UsedUp' /\ OnePerUser' /\ Credited'
  <2>1. PICK r \in [user : Users, project : Projects, got : Nat]:
           /\ r.user = tx[c].by /\ r.project = tx[c].for /\ r.got < Expiry /\ r \notin receipts
           /\ \A s \in receipts: s.user # tx[c].by
           /\ receipts' = receipts \cup {r}
           /\ Cardinality(receipts') = Cardinality(receipts) + 1
           /\ status = "active" /\ Cardinality(receipts) < Most
           /\ status' = IF Cardinality(receipts') = Most THEN "redeemed" ELSE status
    BY <1>2, CommitPays
  <2>2. UsedUp'
    BY <1>0, <2>1 DEF UsedUp
  <2>3. OnePerUser'
    BY <2>1 DEF RedemptionInv, OnePerUser
  <2>4. ASSUME NEW p \in Projects PROVE (credit[p] = Cardinality(PaidTo(p)))'
    <3>1. IsFiniteSet(PaidTo(p)) /\ credit[p] = Cardinality(PaidTo(p))
      BY FS_Subset DEF PaidTo, RedemptionInv, CodeTypeOK, Credited
    <3>2. CASE p = tx[c].for
      <4>1. PaidTo(p)' = PaidTo(p) \cup {r} /\ r \notin PaidTo(p)
        BY <2>1, <3>2 DEF PaidTo
      <4>2. Cardinality(PaidTo(p)') = Cardinality(PaidTo(p)) + 1
        BY <3>1, <4>1, FS_AddElement
      <4>3. credit'[p] = credit[p] + 1
        BY <1>2, <3>2 DEF Commit, RedemptionInv, CodeTypeOK
      <4> QED BY <3>1, <4>2, <4>3
    <3>3. CASE p # tx[c].for
      <4>1. PaidTo(p)' = PaidTo(p)
        BY <2>1, <3>3 DEF PaidTo
      <4>2. credit'[p] = credit[p]
        BY <1>2, <3>3 DEF Commit, RedemptionInv, CodeTypeOK
      <4> QED BY <3>1, <4>1, <4>2
    <3> QED BY <3>2, <3>3
  <2>5. Credited'
    BY <2>4 DEF Credited
  <2> QED BY <2>2, <2>3, <2>5
<1> QED BY <1>1, <1>2, ReceiptsMove

\* The row's lock has one holder, and a membership in use is not removed.
LEMMA LockedStep ==
  ASSUME CodeAssumption
  PROVE  RedemptionInv /\ [CodeNext]_codeVars => \A c \in Submissions: Locked(c)'
<1> SUFFICES ASSUME RedemptionInv, [CodeNext]_codeVars, NEW d \in Submissions PROVE Locked(d)'
  OBVIOUS
<1>1. /\ Locked(d) /\ d # NoOne
      /\ tx \in [Submissions -> CodeTx]
  BY DEF CodeAssumption, RedemptionInv, CodeTypeOK
<1> USE DEF Locked
<1>2. CASE Create \/ Revoke \/ Tick \/ UNCHANGED codeVars
  BY <1>1, <1>2 DEF Create, Revoke, Tick, codeVars
<1>3. ASSUME NEW c \in Submissions, LockCode(c) PROVE Locked(d)'
  BY <1>1, <1>3 DEF LockCode, RedeemedAt
<1>4. ASSUME NEW c \in Submissions, Refuse(c) \/ Replay(c) \/ RollBack(c) \/ Commit(c)
      PROVE  Locked(d)'
  <2>1. tx' = [tx EXCEPT ![c] = NoTx] /\ members' = members
        /\ holder' = IF holder = c THEN NoOne ELSE holder
    BY <1>4
       DEF Refuse, Replay, RollBack, Commit, Idle, Unlock
  <2> QED BY <1>1, <2>1 DEF NoTx
<1>5. ASSUME NEW c \in Submissions, Grant(c) PROVE Locked(d)'
  BY <1>1, <1>5 DEF Grant
<1>6. ASSUME NEW c \in Submissions, NEW u \in Users, NEW p \in Projects, Authorize(c, u, p)
      PROVE  Locked(d)'
  BY <1>1, <1>6 DEF Authorize, NoTx
<1>7. ASSUME NEW u \in Users, NEW p \in Projects, RemoveMember(u, p) PROVE Locked(d)'
  BY <1>1, <1>7 DEF RemoveMember, Shares
<1> QED BY <1>2, <1>3, <1>4, <1>5, <1>6, <1>7 DEF CodeNext

\* Whoever is about to commit holds the row, so nobody takes away what it found.
LEMMA ReadyStep ==
  ASSUME CodeAssumption
  PROVE  RedemptionInv /\ [CodeNext]_codeVars => \A c \in Submissions: Ready(c)'
<1> SUFFICES ASSUME RedemptionInv, [CodeNext]_codeVars, NEW d \in Submissions, tx'[d].pc = "commit"
             PROVE  /\ status' = "active" /\ Receipt(d)' = {}
                    /\ tx'[d].got < Expiry /\ Cardinality(receipts') < Most
  BY DEF Ready
<1>1. /\ Locked(d) /\ Ready(d) /\ d # NoOne
      /\ tx \in [Submissions -> CodeTx]
  BY DEF CodeAssumption, RedemptionInv, CodeTypeOK
<1>2. CASE \E c \in Submissions: Grant(c)
  <2> PICK c \in Submissions: Grant(c)
    BY <1>2
  <2>1. CASE c = d
    <3>1. /\ tx[d].pc = "decide" /\ Receipt(d) = {} /\ ~Unavailable(d)
          /\ tx'[d].got = tx[d].got /\ tx'[d].by = tx[d].by /\ UNCHANGED <<status, receipts>>
      BY <1>1, <2>1 DEF Grant
    <3>2. status = "active" /\ ~(Expiry <= tx[d].at) /\ ~(Cardinality(receipts) >= Most)
      BY <3>1 DEF Unavailable
    <3>3. tx[d].at = tx[d].got /\ tx[d].got \in Nat
      BY <1>1, <3>1 DEF Locked, CodeTx
    <3>4. Cardinality(receipts) \in Nat
      BY FS_CardinalityType DEF RedemptionInv, CodeTypeOK
    <3> QED BY <3>1, <3>2, <3>3, <3>4 DEF CodeAssumption, Receipt
  <2>2. CASE c # d
    BY <1>1, <2>2 DEF Grant, Ready, Receipt
  <2> QED BY <2>1, <2>2
<1>3. CASE ~\E c \in Submissions: Grant(c)
  <2>1. tx[d] = tx'[d] /\ holder = d
    <3>1. CASE \E c \in Submissions: LockCode(c)
      <4> PICK c \in Submissions: LockCode(c)
        BY <3>1
      <4>1. tx'[c].pc = "decide"
        BY <1>1 DEF LockCode
      <4>2. tx'[d] = tx[d]
        BY <1>1, <4>1 DEF LockCode
      <4> QED BY <1>1, <4>2 DEF Locked
    <3>2. CASE \E c \in Submissions: Refuse(c) \/ Replay(c) \/ RollBack(c) \/ Commit(c)
      <4> PICK c \in Submissions: tx' = [tx EXCEPT ![c] = NoTx]
        BY <3>2 DEF Refuse, Replay, RollBack, Commit, Idle
      <4>1. c # d
        BY <1>1 DEF NoTx
      <4>2. tx'[d] = tx[d]
        BY <1>1, <4>1
      <4> QED BY <1>1, <4>2 DEF Locked
    <3>3. CASE \E c \in Submissions, u \in Users, p \in Projects: Authorize(c, u, p)
      <4> PICK c \in Submissions, u \in Users, p \in Projects: Authorize(c, u, p)
        BY <3>3
      <4>1. tx'[c].pc = "lock"
        BY <1>1 DEF Authorize, NoTx
      <4>2. tx'[d] = tx[d]
        BY <1>1, <4>1 DEF Authorize
      <4> QED BY <1>1, <4>2 DEF Locked
    <3>4. CASE tx' = tx
      BY <1>1, <3>4 DEF Locked
    <3>5. \/ \E c \in Submissions: LockCode(c)
          \/ \E c \in Submissions: Refuse(c) \/ Replay(c) \/ RollBack(c) \/ Commit(c)
          \/ \E c \in Submissions, u \in Users, p \in Projects: Authorize(c, u, p)
          \/ tx' = tx
      BY <1>3
         DEF CodeNext, codeVars, Create, Revoke, Tick, RemoveMember
    <3> QED BY <3>1, <3>2, <3>3, <3>4, <3>5
  <2>2. Ready(d) /\ tx[d].pc = "commit"
    BY <1>1, <2>1
  <2>3. UNCHANGED <<status, receipts>>
    <3>1. ASSUME NEW c \in Submissions, Commit(c) PROVE FALSE
      <4>1. tx[c].pc = "commit" /\ tx'[c].pc = "idle"
        BY <1>1, <3>1 DEF Commit, Idle, NoTx
      <4>2. Locked(c)
        BY DEF RedemptionInv
      <4> QED BY <2>1, <2>2, <4>1, <4>2 DEF Locked
    <3>2. ~Revoke /\ ~Create
      BY <1>1, <2>1, <2>2 DEF Revoke, Create, Ready
    <3> QED BY <1>3, <3>1, <3>2
               DEF CodeNext, codeVars, Tick, LockCode, Refuse,
                                    Replay, RollBack,
                                    Authorize, RemoveMember
  <2> QED BY <2>1, <2>2, <2>3 DEF Ready, Receipt
<1> QED BY <1>2, <1>3

-----------------------------------------------------------------------------
(***************************************************************************)
(* The inductive invariant holds.                                          *)
(***************************************************************************)
THEOREM RedemptionHolds ==
  ASSUME CodeAssumption
  PROVE  CodeSpec => []RedemptionInv
<1>1. RedemptionInv /\ [CodeNext]_codeVars => RedemptionInv'
  BY RedemptionTypes, RedemptionCounts, LockedStep, ReadyStep DEF RedemptionInv
<1> QED BY RedemptionInit, <1>1, PTL DEF CodeSpec

(***************************************************************************)
(* A code pays out at most max_redemptions times and once per user, and    *)
(* the ledgers hold exactly these payments, for any number of users and    *)
(* projects (redeem, wiring_postgres_redemption.rs).                       *)
(***************************************************************************)
THEOREM CodePaysAtMost ==
  ASSUME CodeAssumption
  PROVE  CodeSpec => []PaysAtMost
<1>1. RedemptionInv => PaysAtMost
  BY DEF RedemptionInv, UsedUp, OnePerUser, Credited, PaidTo, PaysAtMost
<1> QED BY <1>1, RedemptionHolds, PTL

(***************************************************************************)
(* After a code is revoked or used up nothing is paid, and nobody is paid  *)
(* for having waited past the expiry.                                      *)
(***************************************************************************)
THEOREM EndIsFinal ==
  ASSUME CodeAssumption
  PROVE  CodeSpec => NothingAfterEnd
<1> DEFINE A == /\ status \in {"revoked", "redeemed"} => receipts' = receipts /\ status' = status
                /\ Cardinality(receipts') = Most => status' # "active"
                /\ \A r \in receipts' \ receipts: r.got < Expiry
<1>1. RedemptionInv /\ [CodeNext]_codeVars => A
  <2> SUFFICES ASSUME RedemptionInv, [CodeNext]_codeVars PROVE A
    OBVIOUS
  <2>1. UsedUp'
    BY RedemptionCounts
  <2>2. CASE \E c \in Submissions: Commit(c)
    <3> PICK c \in Submissions: Commit(c)
      BY <2>2
    <3>1. status = "active" /\ \A r \in receipts' \ receipts: r.got < Expiry
      BY CommitPays
    <3> QED BY <2>1, <3>1 DEF UsedUp
  <2>3. CASE ~\E c \in Submissions: Commit(c)
    <3>1. receipts' = receipts
      BY <2>3, ReceiptsMove
    <3>2. status \in {"revoked", "redeemed"} => status' = status
      BY <2>3
         DEF CodeNext, codeVars, Create, Revoke, Tick, LockCode,
                  Refuse, Replay, Grant,
                  RollBack, Authorize, RemoveMember
    <3> QED BY <2>1, <3>1, <3>2 DEF UsedUp
  <2> QED BY <2>2, <2>3
<1>2. NothingAfterEnd <=> [][A]_codeVars
  BY DEF NothingAfterEnd
<1> QED BY <1>1, <1>2, RedemptionHolds, PTL DEF CodeSpec

(***************************************************************************)
(* Credit goes to projects of which the user is a member at that moment.   *)
(***************************************************************************)
THEOREM MembersAreCredited ==
  ASSUME CodeAssumption
  PROVE  CodeSpec => MembersOnly
<1> DEFINE A == \A r \in receipts' \ receipts: <<r.user, r.project>> \in members'
<1>1. RedemptionInv /\ [CodeNext]_codeVars => A
  <2> SUFFICES ASSUME RedemptionInv, [CodeNext]_codeVars PROVE A
    OBVIOUS
  <2>1. CASE \E c \in Submissions: Commit(c)
    <3> PICK c \in Submissions: Commit(c)
      BY <2>1
    <3>1. \A r \in receipts' \ receipts: r.user = tx[c].by /\ r.project = tx[c].for
      BY CommitPays
    <3>2. members' = members /\ <<tx[c].by, tx[c].for>> \in members
      BY DEF Commit, RedemptionInv, Locked
    <3> QED BY <3>1, <3>2
  <2>2. CASE ~\E c \in Submissions: Commit(c)
    BY <2>2, ReceiptsMove
  <2> QED BY <2>1, <2>2
<1>2. MembersOnly <=> [][A]_codeVars
  BY DEF MembersOnly
<1> QED BY <1>1, <1>2, RedemptionHolds, PTL DEF CodeSpec
==============================================================================
