------------------------- MODULE MCExecutionLifecycle -------------------------
(***************************************************************************)
(* Instances of ExecutionLifecycle small enough for TLC.  The cheap spend  *)
(* is auto-approved, the dear one needs a human, and an agent's cap covers *)
(* two cheap ones but not a cheap and a dear one.                          *)
(***************************************************************************)
EXTENDS ExecutionLifecycle

Cheap == 2
Dear  == 3

MCCap         == [a \in Agents |-> 4]
MCSpends      == {Cheap, Dear}
MCRisks       == {Low}
\* Calls above the policy's risk, and grants below and above them.
RisksAbove    == {Low, High}
MCPermissions == {[granted |-> TRUE, maxSpend |-> Dear, risk |-> Low]}
GrantsAbove   == {[granted |-> TRUE, maxSpend |-> Dear, risk |-> r] : r \in {Low, High}}
MCPolicies    == {[exists |-> TRUE, maxRisk |-> Low, threshold |-> Cheap, multiSig |-> FALSE]}

\* A cap two dear settlements fit into.
WideCap == [a \in Agents |-> 2 * Dear]
=============================================================================
