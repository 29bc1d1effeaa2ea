----------------------------- MODULE MCTreasuryJobs -----------------------------
(***************************************************************************)
(* One worker and one operator.  The destination wallet and the Gateway    *)
(* are empty, so preparations have to bridge before they deposit, and the  *)
(* source holds two payments' worth.                                       *)
(***************************************************************************)
EXTENDS TreasuryJobs

MCPurse == [source |-> 2, wallet |-> 0, gateway |-> 0]
=============================================================================
