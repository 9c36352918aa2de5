------------------------------- MODULE Totals -------------------------------
(***************************************************************************)
(* The sum of a function of amounts, Total(f) = the sum of f[x] over its   *)
(* domain.  It is the number of "units" f hands out: f[x] tagged copies of *)
(* every x.  Counting units instead of folding keeps the definition free   *)
(* of recursion, so that the sums of the vault can be reasoned about with  *)
(* the theorems on cardinalities alone.                                    *)
(***************************************************************************)
EXTENDS Naturals, FiniteSets

Units(f) == UNION {{x} \X (1..f[x]) : x \in DOMAIN f}

Total(f) == Cardinality(Units(f))
=============================================================================
