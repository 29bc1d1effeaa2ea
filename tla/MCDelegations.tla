----------------------------- MODULE MCDelegations -----------------------------
(***************************************************************************)
(* Two delegations of the treasury or of a user, to a fleet agent or to an *)
(* outsider with a completed escrow job; either fits the org ceiling, both *)
(* together do not.                                                        *)
(***************************************************************************)
EXTENDS Delegations, TLC

IdSymmetry == Permutations(Ids)
=============================================================================
