-------------------------------- MODULE Sums --------------------------------
(***************************************************************************)
(* The total of a column: Sum(f) adds up f[x] over the domain of f, for a  *)
(* function f with a finite domain and natural values.  SQL writes it      *)
(* SUM(reserved_micros).  It is defined by counting unit tokens: every x   *)
(* contributes the f[x] pairs <<x, 1>>, ..., <<x, f[x]>>.  The definition  *)
(* needs no recursion, so a proof reasons about a total with the theorems  *)
(* on the cardinality of finite sets.                                      *)
(***************************************************************************)
EXTENDS Naturals, FiniteSets

\* The unit tokens that x contributes to the total of f.
TokensOf(f, x) == {x} \X (1..f[x])

\* All the unit tokens of f.
Tokens(f) == UNION {TokensOf(f, x) : x \in DOMAIN f}

\* The total of f.
Sum(f) == Cardinality(Tokens(f))
=============================================================================
