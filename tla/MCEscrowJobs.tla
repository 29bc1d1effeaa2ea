----------------------------- MODULE MCEscrowJobs -----------------------------
(***************************************************************************)
(* One paying agent, one fleet agent, one outsider and two jobs.  A small  *)
(* job of an outsider that the client evaluates itself, and a larger one   *)
(* of a fleet agent that the outsider evaluates.                           *)
(***************************************************************************)
EXTENDS EscrowJobs, TLC

CONSTANTS client, fleet, outsider

MCParties   == {client, fleet, outsider}
MCCustodied == {client, fleet}
MCHires     == {[provider |-> outsider, evaluator |-> client, quote |-> 1],
                [provider |-> fleet, evaluator |-> outsider, quote |-> 2]}
JobSymmetry == Permutations(Jobs)
=============================================================================
