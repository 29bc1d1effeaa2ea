--------------------------- MODULE MCPaidHttpPayment ---------------------------
(***************************************************************************)
(* Instances of PaidHttpPayment for TLC.  Amounts, caps and budgets are    *)
(* the smallest for which one payment fits, two payments do not, and only  *)
(* the larger one reaches the approval threshold.                          *)
(***************************************************************************)
EXTENDS PaidHttpPayment, TLC

CONSTANTS k1, k2, c1, c2

MCAmount == [k \in Keys |-> IF k = k1 THEN 2 ELSE 1]

\* Tight: either key fits the budget, both together do not, and k1 needs approval.
Tight == [active |-> TRUE, budget |-> 2, cap |-> 2, threshold |-> 2]
Ample == [active |-> TRUE, budget |-> 3, cap |-> 0, threshold |-> 0]
Low   == [active |-> TRUE, budget |-> 1, cap |-> 1, threshold |-> 1]
Off   == [active |-> FALSE, budget |-> 0, cap |-> 0, threshold |-> 0]

BudgetSettings == {Tight, Low}
AccessSettings == {Ample, Off}

CallSymmetry == Permutations(Calls)
=============================================================================
