------------------------------ MODULE FeeMath -------------------------------
(***************************************************************************)
(* libraries/FeeMath.sol: basis-point arithmetic on unsigned integers, and *)
(* the two roundings of OpenZeppelin's Math.mulDiv the vault relies on.    *)
(* BPS is the denominator (10_000 in the code; a small one in the model-   *)
(* checked instances, so that fees on small amounts are not all zero).     *)
(***************************************************************************)
EXTENDS Integers

CONSTANTS BPS,          \* denominator of a fee
          MaxFeeBps     \* hard cap on every protocol fee

ASSUME FeeAssumption == /\ BPS \in Nat \ {0}
                        /\ MaxFeeBps \in Nat
                        /\ MaxFeeBps < BPS

Smaller(a, b) == IF a < b THEN a ELSE b

MulDiv(a, b, d) == (a * b) \div d
MulDivUp(a, b, d) == (a * b + d - 1) \div d

FeeOf(a, bps) == MulDiv(a, bps, BPS)
NetOf(a, bps) == a - FeeOf(a, bps)
Halve(bps) == bps \div 2
=============================================================================
