---------------------------- MODULE MCApprovalDesk ----------------------------
(***************************************************************************)
(* Instances of ApprovalDesk: an agent that pays, a policy that allows but *)
(* asks from an amount on, and one that does not validate.  Without a      *)
(* policy in force the payment is denied.                                  *)
(***************************************************************************)
EXTENDS ApprovalDesk, TLC

NoGroup == [resource |-> {}, payment |-> {}, tool |-> {}]

Statement(id, decision, conditions) ==
    [id |-> id, decision |-> decision, actions |-> {"pay"}, roles |-> {},
     targetTypes |-> {}, targetIds |-> {}] @@ conditions

AboveOne == [NoGroup EXCEPT !.payment =
    {[minAmount |-> {1}, maxAmount |-> {}, assets |-> {}, networks |-> {}, recipients |-> {}]}]

AnyTool == [NoGroup EXCEPT !.tool = {[names |-> {}, riskLevels |-> {"high"}]}]

Ask     == {Statement("s1", "approval_required", AboveOne), Statement("s2", "allow", NoGroup)}
Invalid == {Statement("s1", "deny", AnyTool)}

MCStatements == [c \in Contents |-> IF c = "ask" THEN Ask ELSE Invalid]
MCCatalog == [pay |-> {"payment", "resource"}]
MCBindingTypes == [pay |-> {"org", "agent"}]
\* A new org, and one with a policy whose draft is long activated.
MCHistories == {[p \in Policies |-> <<>>],
                [p \in Policies |-> <<[status |-> "active", statements |-> "ask"]>>]}
MCTargetType == [t \in Targets |-> t]

CONSTANTS d1, d2, o1, o2, c1, c2

MCSymmetry == Permutations(Drafts) \cup Permutations(Operators) \cup Permutations(Consumers)

MCRequest == [action |-> "pay", role |-> {}, targetType |-> "agent", targetId |-> {"agent"},
              context |-> [resource |-> [category |-> {}, domain |-> {}],
                           payment |-> [amount |-> {1}, asset |-> {}, network |-> {}, recipient |-> {}],
                           tool |-> [name |-> {}, riskLevel |-> {}]]]
=============================================================================
