---------------------------- MODULE MCAgentAccess -----------------------------
(***************************************************************************)
(* Two calls at a time over two agents, two connections and three secrets, *)
(* an invite for one agent, and one failure.                               *)
(***************************************************************************)
EXTENDS AgentAccess, TLC

CallSymmetry == Permutations(Calls)
=============================================================================
