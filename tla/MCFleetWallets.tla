----------------------------- MODULE MCFleetWallets -----------------------------
(***************************************************************************)
(* Two agents, two workers, two overlapping API calls: two of the smaller  *)
(* allocations fit the opening deposits, one of each size does not.        *)
(***************************************************************************)
EXTENDS FleetWallets, TLC

MCPlans == [amount : {10, 11}, reserve : {0}, low : {5}, ceiling : {11}]

FleetSymmetry == Permutations(Workers) \cup Permutations(Callers)
=============================================================================
