----------------------------- MODULE MCAuditChain -----------------------------
(***************************************************************************)
(* Instances of AuditChain: a request, its retry, one that reuses its key  *)
(* for something else, and two payers.                                     *)
(***************************************************************************)
EXTENDS AuditChain

CONSTANTS r1, r2, r3, p1, p2

MCKey  == [r \in Requests |-> <<"key", "request">>]
MCBody == [r \in Requests |-> IF r = r3 THEN "other" ELSE "body"]
=============================================================================
