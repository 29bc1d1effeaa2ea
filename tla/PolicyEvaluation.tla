--------------------------- MODULE PolicyEvaluation ---------------------------
(***************************************************************************)
(* The decision logic of the .NET governance core, as operators: the daily *)
(* budget of AgentIdentity, the spend rule of GovernancePolicy, the        *)
(* ordered checks of PolicyEvaluationService and the deterministic risk    *)
(* screen.  Amounts are whole dollars; risk levels are the enum's ordinals.*)
(*                                                                         *)
(* GovernancePolicy.IsActive and ToolPermission.IsEnabled are not carried: *)
(* both are true from construction and no service ever clears them.        *)
(***************************************************************************)
EXTENDS Integers

Low      == 0
Moderate == 1
High     == 2
Critical == 3

RiskLevel == Low..Critical

\* What an agent has instead of a permission for a tool never granted, and
\* what an organization has instead of a policy before its first one.
NoPermission == [granted |-> FALSE, maxSpend |-> 0, risk |-> Low]
NoPolicy     == [exists |-> FALSE, maxRisk |-> Low, threshold |-> 0, multiSig |-> FALSE]

Permission == [granted : BOOLEAN, maxSpend : Nat, risk : RiskLevel]
Policy     == [exists : BOOLEAN, maxRisk : RiskLevel, threshold : Nat, multiSig : BOOLEAN]

AgentStatus == {"Active", "Suspended"}

\* The columns of an AgentIdentities row that change after registration.
AgentRow == [status : AgentStatus, spent : Nat, resetDay : Nat]

Denials ==
    {"AgentSuspended", "ToolNotPermitted", "ToolRiskCeilingExceeded",
     "SpendPerCallExceeded", "DailyBudgetExceeded", "NoActivePolicy", "PolicyDeny"}
Escalations == {"RequireHumanApproval", "RequireMultiSig"}
Verdicts == {"Allow"} \cup Escalations \cup Denials

-----------------------------------------------------------------------------
(* AgentIdentity's daily budget. *)

\* ResetDailyBudgetIfExpired: the first budget call of a new UTC day zeroes
\* the counter on the tracked entity.
ResetDailyBudgetIfExpired(row, today) ==
    IF today > row.resetDay
    THEN [status |-> row.status, spent |-> 0, resetDay |-> today]
    ELSE row

\* Faulty variant: compares what was spent before, not after, the call.
CanSpendBefore(row, cap, amount, today) ==
    /\ ResetDailyBudgetIfExpired(row, today).spent <= cap
    /\ row.status = "Active"

CanSpend(row, cap, amount, today) ==
    /\ ResetDailyBudgetIfExpired(row, today).spent + amount <= cap
    /\ row.status = "Active"

RecordSpend(row, amount, today) ==
    LET reset == ResetDailyBudgetIfExpired(row, today)
    IN  [status |-> reset.status, spent |-> reset.spent + amount, resetDay |-> reset.resetDay]

-----------------------------------------------------------------------------
(* The verdict on one requested action. *)

\* GovernancePolicy.EvaluateSpend.
EvaluateSpend(policy, spend, risk) ==
    IF risk > policy.maxRisk THEN "PolicyDeny"
    ELSE IF spend <= policy.threshold THEN "Allow"
    ELSE IF policy.multiSig THEN "RequireMultiSig" ELSE "RequireHumanApproval"

\* EvaluateExecutionAsync down to the budget check, in the order the service
\* makes the checks; "Continue" when the policy is consulted next.
EvaluateAgent(row, cap, perm, spend, risk, today) ==
    IF row.status # "Active" THEN "AgentSuspended"
    ELSE IF ~perm.granted THEN "ToolNotPermitted"
    ELSE IF risk > perm.risk THEN "ToolRiskCeilingExceeded"
    ELSE IF spend > perm.maxSpend THEN "SpendPerCallExceeded"
    ELSE IF ~CanSpend(row, cap, spend, today) THEN "DailyBudgetExceeded"
    ELSE "Continue"

\* The rest of EvaluateExecutionAsync: the organization's newest policy decides,
\* and an organization that has none is denied.
EvaluatePolicy(policy, spend, risk) ==
    IF ~policy.exists THEN "NoActivePolicy" ELSE EvaluateSpend(policy, spend, risk)

\* CanSpend, and with it the reset, is reached only past the first four checks.
ReachesBudget(verdict) == verdict \in {"DailyBudgetExceeded", "Continue"}
=============================================================================
