----------------------------- MODULE SumLemmas ------------------------------
(***************************************************************************)
(* What the proofs need to know of Sum: its type, its value on a changed   *)
(* row, on a set of rows that are cleared, and bounds.                     *)
(***************************************************************************)
EXTENDS Sums, Integers, FunctionTheorems, FiniteSetTheorems, TLAPS

(***************************************************************************)
(* The tokens of one row are finite and there are f[x] of them.            *)
(***************************************************************************)
LEMMA TokensOfRow ==
  ASSUME NEW S, NEW f \in [S -> Nat], NEW x \in S
  PROVE  /\ IsFiniteSet(TokensOf(f, x))
         /\ Cardinality(TokensOf(f, x)) = f[x]
<1>1. f[x] \in Nat
  OBVIOUS
<1>2. IsFiniteSet({x}) /\ Cardinality({x}) = 1
  BY FS_Singleton
<1>3. IsFiniteSet(1..f[x]) /\ Cardinality(1..f[x]) = f[x]
  BY <1>1, FS_Interval
<1>4. /\ IsFiniteSet({x} \X (1..f[x]))
      /\ Cardinality({x} \X (1..f[x])) = Cardinality({x}) * Cardinality(1..f[x])
  BY <1>2, <1>3, FS_Product
<1> QED
  BY <1>1, <1>2, <1>3, <1>4 DEF TokensOf

(***************************************************************************)
(* The tokens of a function with a finite domain are finite.               *)
(***************************************************************************)
LEMMA TokensFinite ==
  ASSUME NEW S, IsFiniteSet(S), NEW f \in [S -> Nat]
  PROVE  IsFiniteSet(Tokens(f))
<1> DEFINE R == {TokensOf(f, x) : x \in S}
           g == [x \in S |-> TokensOf(f, x)]
<1>1. g \in Surjection(S, R)
  BY DEF Surjection
<1>2. IsFiniteSet(R)
  BY <1>1, FS_Surjection
<1>3. \A T \in R : IsFiniteSet(T)
  BY TokensOfRow
<1>4. IsFiniteSet(UNION R)
  BY <1>2, <1>3, FS_UNION
<1> QED
  BY <1>4 DEF Tokens

(***************************************************************************)
(* A total is a natural number.                                            *)
(***************************************************************************)
LEMMA SumType ==
  ASSUME NEW S, IsFiniteSet(S), NEW f \in [S -> Nat]
  PROVE  Sum(f) \in Nat
BY TokensFinite, FS_CardinalityType DEF Sum

(***************************************************************************)
(* Which pairs are tokens.                                                 *)
(***************************************************************************)
LEMMA TokenMember ==
  ASSUME NEW S, NEW f \in [S -> Nat], NEW p
  PROVE  p \in Tokens(f) <=> \E x \in S : p \in TokensOf(f, x)
BY DEF Tokens

(***************************************************************************)
(* Tokens of different rows are different.                                 *)
(***************************************************************************)
LEMMA TokensDisjoint ==
  ASSUME NEW f, NEW g, NEW x, NEW y, x # y
  PROVE  TokensOf(f, x) \cap TokensOf(g, y) = {}
BY DEF TokensOf

(***************************************************************************)
(* Changing one row changes the total by the difference of the two values. *)
(***************************************************************************)
LEMMA SumUpdate ==
  ASSUME NEW S, IsFiniteSet(S), NEW f \in [S -> Nat], NEW g \in [S -> Nat],
         NEW x \in S, \A y \in S \ {x} : g[y] = f[y]
  PROVE  /\ Sum(f) \in Nat /\ Sum(g) \in Nat
         /\ Sum(g) + f[x] = Sum(f) + g[x]
<1> DEFINE Rest == Tokens(f) \ TokensOf(f, x)
<1>1. \A y \in S \ {x} : TokensOf(g, y) = TokensOf(f, y)
  BY DEF TokensOf
<1>2. TokensOf(f, x) \subseteq Tokens(f)
  BY DEF Tokens
<1>3. Rest = UNION {TokensOf(f, y) : y \in S \ {x}}
  <2>1. ASSUME NEW p \in Rest
        PROVE  \E y \in S \ {x} : p \in TokensOf(f, y)
    BY <2>1, TokenMember
  <2>2. ASSUME NEW y \in S \ {x}, NEW p \in TokensOf(f, y)
        PROVE  p \in Rest
    BY <2>2, TokenMember, TokensDisjoint
  <2> QED
    BY <2>1, <2>2
<1>4. Tokens(g) = Rest \cup TokensOf(g, x)
  <2>1. ASSUME NEW p \in Tokens(g)
        PROVE  p \in Rest \cup TokensOf(g, x)
    <3>1. PICK y \in S : p \in TokensOf(g, y)
      BY TokenMember
    <3>2. CASE y = x
      BY <3>1, <3>2
    <3>3. CASE y # x
      BY <3>1, <3>3, <1>1, <1>3
    <3> QED
      BY <3>2, <3>3
  <2>2. ASSUME NEW p \in Rest \cup TokensOf(g, x)
        PROVE  p \in Tokens(g)
    <3>1. CASE p \in TokensOf(g, x)
      BY <3>1, TokenMember
    <3>2. CASE p \in Rest
      <4>1. PICK y \in S \ {x} : p \in TokensOf(f, y)
        BY <3>2, <1>3
      <4>2. p \in TokensOf(g, y)
        BY <4>1, <1>1
      <4> QED
        BY <4>2, TokenMember
    <3> QED
      BY <3>1, <3>2
  <2> QED
    BY <2>1, <2>2
<1>5. Rest \cap TokensOf(g, x) = {}
  BY <1>3, TokensDisjoint
<1>6. IsFiniteSet(Tokens(f)) /\ IsFiniteSet(Tokens(g))
  BY TokensFinite
<1>7. /\ IsFiniteSet(TokensOf(f, x)) /\ Cardinality(TokensOf(f, x)) = f[x]
      /\ IsFiniteSet(TokensOf(g, x)) /\ Cardinality(TokensOf(g, x)) = g[x]
  BY TokensOfRow
<1>8. /\ IsFiniteSet(Rest)
      /\ Cardinality(Rest) = Cardinality(Tokens(f)) - f[x]
  <2>1. Tokens(f) \cap TokensOf(f, x) = TokensOf(f, x)
    BY <1>2
  <2>2. /\ IsFiniteSet(Rest)
        /\ Cardinality(Rest)
             = Cardinality(Tokens(f)) - Cardinality(Tokens(f) \cap TokensOf(f, x))
    BY <1>6, FS_Difference
  <2> HIDE DEF Rest
  <2> QED
    BY <2>1, <2>2, <1>7
<1>9. Cardinality(Tokens(g)) = Cardinality(Rest) + g[x]
  <2>1. Cardinality(Rest \cup TokensOf(g, x))
          = Cardinality(Rest) + Cardinality(TokensOf(g, x)) - Cardinality({})
    BY <1>5, <1>7, <1>8, FS_Union
  <2>2. Cardinality({}) = 0
    BY FS_EmptySet
  <2>3. Cardinality(Rest) \in Nat /\ g[x] \in Nat
    BY <1>8, FS_CardinalityType
  <2> QED
    BY <2>1, <2>2, <2>3, <1>4, <1>7
<1>10. /\ Cardinality(Tokens(f)) \in Nat /\ Cardinality(Tokens(g)) \in Nat
       /\ f[x] \in Nat /\ g[x] \in Nat
  BY <1>6, FS_CardinalityType
<1> QED
  BY <1>8, <1>9, <1>10 DEF Sum

(***************************************************************************)
(* Adding two columns row by row adds their totals.                        *)
(***************************************************************************)
LEMMA SumAdd ==
  ASSUME NEW S, IsFiniteSet(S),
         NEW f \in [S -> Nat], NEW g \in [S -> Nat], NEW h \in [S -> Nat],
         \A x \in S : h[x] = f[x] + g[x]
  PROVE  /\ Sum(f) \in Nat /\ Sum(g) \in Nat /\ Sum(h) \in Nat
         /\ Sum(h) = Sum(f) + Sum(g)
<1> DEFINE Top  == Tokens(h) \ Tokens(f)
           move == [p \in Tokens(g) |-> <<p[1], f[p[1]] + p[2]>>]
<1>1. \A k \in {f, g, h} : \A p :
        p \in Tokens(k) <=> \E x \in S : \E i \in 1..k[x] : p = <<x, i>>
  BY DEF Tokens, TokensOf
<1>2. \A k \in {f, g, h} : \A x \in S : k[x] \in Nat
  OBVIOUS
<1>3. Tokens(f) \subseteq Tokens(h)
  <2> SUFFICES ASSUME NEW p \in Tokens(f)
               PROVE  p \in Tokens(h)
    OBVIOUS
  <2>1. PICK x \in S, i \in Nat : i \in 1..f[x] /\ p = <<x, i>>
    BY <1>1
  <2>2. i \in 1..h[x]
    BY <1>2, <2>1
  <2> QED
    BY <1>1, <2>1, <2>2
<1>4. \A x \in S : \A i \in 1..g[x] : move[<<x, i>>] = <<x, f[x] + i>>
  BY <1>1
<1>5. move \in [Tokens(g) -> Top]
  <2> SUFFICES ASSUME NEW p \in Tokens(g)
               PROVE  <<p[1], f[p[1]] + p[2]>> \in Top
    OBVIOUS
  <2>1. PICK x \in S, i \in Nat : i \in 1..g[x] /\ p = <<x, i>>
    BY <1>1
  <2>2. f[x] + i \in 1..h[x] /\ f[x] + i \notin 1..f[x]
    BY <1>2, <2>1
  <2>3. <<x, f[x] + i>> \in Tokens(h) /\ <<x, f[x] + i>> \notin Tokens(f)
    BY <1>1, <2>2
  <2> QED
    BY <2>1, <2>3
<1>6. \A p, q \in Tokens(g) : move[p] = move[q] => p = q
  <2> SUFFICES ASSUME NEW p \in Tokens(g), NEW q \in Tokens(g), move[p] = move[q]
               PROVE  p = q
    OBVIOUS
  <2>1. PICK x \in S, i \in Nat : i \in 1..g[x] /\ p = <<x, i>>
    BY <1>1
  <2>2. PICK y \in S, j \in Nat : j \in 1..g[y] /\ q = <<y, j>>
    BY <1>1
  <2>3. <<x, f[x] + i>> = <<y, f[y] + j>>
    BY <1>4, <2>1, <2>2
  <2>4. x = y /\ f[x] + i = f[y] + j
    BY <2>3
  <2>5. i = j
    BY <2>4, <1>2
  <2> QED
    BY <2>1, <2>2, <2>4, <2>5
<1>7. \A t \in Top : \E p \in Tokens(g) : move[p] = t
  <2> SUFFICES ASSUME NEW t \in Top
               PROVE  \E p \in Tokens(g) : move[p] = t
    OBVIOUS
  <2>1. PICK x \in S, i \in Nat : i \in 1..h[x] /\ t = <<x, i>>
    BY <1>1
  <2>2. i \notin 1..f[x]
    BY <1>1, <2>1
  <2>3. i - f[x] \in 1..g[x] /\ f[x] + (i - f[x]) = i
    BY <1>2, <2>1, <2>2
  <2>4. <<x, i - f[x]>> \in Tokens(g)
    BY <1>1, <2>3
  <2>5. move[<<x, i - f[x]>>] = <<x, i>>
    BY <1>4, <2>3
  <2> QED
    BY <2>1, <2>4, <2>5
<1>8. ExistsBijection(Tokens(g), Top)
  <2>1. DOMAIN move = Tokens(g)
    OBVIOUS
  <2> HIDE DEF move, Top
  <2>2. move \in Injection(Tokens(g), Top)
    BY <1>5, <1>6, <2>1, Zenon DEF Injection, IsInjective
  <2>3. move \in Surjection(Tokens(g), Top)
    BY <1>5, <1>7, Zenon DEF Surjection
  <2>4. move \in Bijection(Tokens(g), Top)
    BY <2>2, <2>3, Zenon DEF Bijection
  <2> QED
    BY <2>4, Zenon DEF ExistsBijection
<1>9. IsFiniteSet(Tokens(f)) /\ IsFiniteSet(Tokens(g)) /\ IsFiniteSet(Tokens(h))
  BY TokensFinite
<1>10. Cardinality(Top) = Cardinality(Tokens(g))
  BY <1>8, <1>9, FS_Bijection, Zenon
<1>11. Cardinality(Top)
         = Cardinality(Tokens(h)) - Cardinality(Tokens(h) \cap Tokens(f))
  BY <1>9, FS_Difference
<1>12. Tokens(h) \cap Tokens(f) = Tokens(f)
  BY <1>3
<1>13. /\ Cardinality(Tokens(f)) \in Nat /\ Cardinality(Tokens(g)) \in Nat
       /\ Cardinality(Tokens(h)) \in Nat
  BY <1>9, FS_CardinalityType
<1> HIDE DEF Top, move
<1>14. Cardinality(Top) = Cardinality(Tokens(h)) - Cardinality(Tokens(f))
  BY <1>11, <1>12, Zenon
<1> QED
  BY <1>10, <1>13, <1>14 DEF Sum

(***************************************************************************)
(* One row never exceeds the total.                                        *)
(***************************************************************************)
LEMMA SumBound ==
  ASSUME NEW S, IsFiniteSet(S), NEW f \in [S -> Nat], NEW x \in S
  PROVE  Sum(f) \in Nat /\ f[x] <= Sum(f)
<1> DEFINE g == [f EXCEPT ![x] = 0]
<1>1. g \in [S -> Nat] /\ g[x] = 0 /\ \A y \in S \ {x} : g[y] = f[y]
  OBVIOUS
<1> HIDE DEF g
<1>2. Sum(f) \in Nat /\ Sum(g) \in Nat /\ Sum(g) + f[x] = Sum(f) + g[x]
  BY <1>1, SumUpdate
<1> QED
  BY <1>1, <1>2

(***************************************************************************)
(* A column of zeros has total zero.                                       *)
(***************************************************************************)
LEMMA SumZero ==
  ASSUME NEW S, NEW f \in [S -> Nat], \A x \in S : f[x] = 0
  PROVE  Sum(f) = 0
<1>1. Tokens(f) = {}
  BY DEF Tokens, TokensOf
<1> QED
  BY <1>1, FS_EmptySet DEF Sum

(***************************************************************************)
(* A column that is nowhere larger has no larger total, and an equal total *)
(* only if it is the same column.                                          *)
(***************************************************************************)
LEMMA SumMonotone ==
  ASSUME NEW S, IsFiniteSet(S), NEW f \in [S -> Nat], NEW g \in [S -> Nat],
         \A x \in S : f[x] <= g[x]
  PROVE  /\ Sum(f) \in Nat /\ Sum(g) \in Nat
         /\ Sum(f) <= Sum(g)
         /\ Sum(f) = Sum(g) => \A x \in S : f[x] = g[x]
<1> DEFINE h == [x \in S |-> g[x] - f[x]]
<1>1. h \in [S -> Nat] /\ \A x \in S : g[x] = f[x] + h[x]
  OBVIOUS
<1> HIDE DEF h
<1>2. Sum(f) \in Nat /\ Sum(h) \in Nat /\ Sum(g) \in Nat /\ Sum(g) = Sum(f) + Sum(h)
  BY <1>1, SumAdd
<1>3. ASSUME Sum(f) = Sum(g), NEW x \in S
      PROVE  f[x] = g[x]
  <2>1. h[x] \in Nat /\ h[x] <= Sum(h)
    BY <1>1, SumBound
  <2>2. Sum(h) = 0
    BY <1>2, <1>3
  <2> QED
    BY <1>1, <2>1, <2>2
<1> QED
  BY <1>2, <1>3
=============================================================================
