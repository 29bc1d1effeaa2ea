---------------------------- MODULE PolicyDecision ----------------------------
(***************************************************************************)
(* The decision engine and the statement validator of the TypeScript       *)
(* policy engine (engines/policy/decision-engine.ts, validator.ts).        *)
(*                                                                         *)
(* A statement lists the actions it is about ("*" is any), restrictions on *)
(* the actor's role and on the target, conditions on the request's         *)
(* context, and a decision.  An empty list restricts nothing.  A field a   *)
(* statement or a request may leave out is a set with at most one element. *)
(* A condition group that is absent is the empty set as well.              *)
(***************************************************************************)
EXTENDS Integers, FiniteSets

AnyAction == "*"

DecisionValues == {"allow", "observe", "approval_required", "deny"}

\* decisionRank: the strictest matching decision wins.
DecisionRank == [allow |-> 0, observe |-> 1, approval_required |-> 2, deny |-> 3]

\* includesIfPresent: an empty list admits every value, even a missing one.
IncludesIfPresent(allowed, actual) ==
    allowed = {} \/ actual \cap allowed # {}

\* A bound on the amount fails when the request names no amount.
MatchesPaymentCondition(c, payment) ==
    /\ \A m \in c.minAmount : \E a \in payment.amount : a >= m
    /\ \A m \in c.maxAmount : \E a \in payment.amount : a <= m
    /\ IncludesIfPresent(c.assets, payment.asset)
    /\ IncludesIfPresent(c.networks, payment.network)
    /\ IncludesIfPresent(c.recipients, payment.recipient)

MatchesToolCondition(c, tool) ==
    /\ IncludesIfPresent(c.names, tool.name)
    /\ IncludesIfPresent(c.riskLevels, tool.riskLevel)

MatchesResourceCondition(c, resource) ==
    /\ IncludesIfPresent(c.categories, resource.category)
    /\ IncludesIfPresent(c.domains, resource.domain)

MatchesConditions(s, context) ==
    /\ \A c \in s.resource : MatchesResourceCondition(c, context.resource)
    /\ \A c \in s.payment  : MatchesPaymentCondition(c, context.payment)
    /\ \A c \in s.tool     : MatchesToolCondition(c, context.tool)

MatchesStatement(s, r) ==
    /\ AnyAction \in s.actions \/ r.action \in s.actions
    /\ IncludesIfPresent(s.roles, r.role)
    /\ IncludesIfPresent(s.targetTypes, {r.targetType})
    /\ IncludesIfPresent(s.targetIds, r.targetId)
    /\ MatchesConditions(s, r.context)

\* The decisions of the statements of these policies that match the request.
Matched(r, policies) ==
    {s.decision : s \in {t \in UNION policies : MatchesStatement(t, r)}}

\* Fail closed: with nothing matched the org's default decides, and the
\* default is to deny.  Otherwise the strictest match decides.
EvaluatePolicyDecision(r, policies, defaultEffect) ==
    LET matched == Matched(r, policies)
    IN  IF matched = {}
        THEN IF defaultEffect = "allow" THEN "allow" ELSE "deny"
        ELSE CHOOSE d \in matched : \A e \in matched : DecisionRank[e] <= DecisionRank[d]

(***************************************************************************)
(* Validation.  catalog maps each registered action to the condition       *)
(* groups it supports; "*" supports all of them.                           *)
(***************************************************************************)
ConditionGroups == {"resource", "payment", "tool"}

UsedConditionGroups(s) == {g \in ConditionGroups : s[g] # {}}

HasPaymentCondition(c) ==
    \/ c.minAmount # {} \/ c.maxAmount # {}
    \/ c.assets # {} \/ c.networks # {} \/ c.recipients # {}

EmptyConditions(s) ==
    \/ \E c \in s.resource : c.categories = {} /\ c.domains = {}
    \/ \E c \in s.payment  : ~HasPaymentCondition(c)
    \/ \E c \in s.tool     : c.names = {} /\ c.riskLevels = {}

SupportedConditionGroups(action, catalog) ==
    IF action = AnyAction THEN ConditionGroups
    ELSE IF action \in DOMAIN catalog THEN catalog[action] ELSE {}

\* validatePolicyStatements: whether the draft may be activated.
ValidStatements(statements, catalog) ==
    /\ statements # {}
    /\ \A s, t \in statements : s.id = t.id => s = t
    /\ \A s \in statements :
          /\ s.decision \in DecisionValues
          /\ s.actions # {}
          /\ s.actions \subseteq DOMAIN catalog \cup {AnyAction}
          /\ \A a \in s.actions :
                UsedConditionGroups(s) \subseteq SupportedConditionGroups(a, catalog)
          /\ ~EmptyConditions(s)
=============================================================================
