SPECIFICATION Spec
CONSTANTS
    d1 = d1
    d2 = d2
    o1 = o1
    o2 = o2
    c1 = c1
    c2 = c2
    Drafts = {d1, d2}
    Policies = {p1}
    NoPolicy = NoPolicy
    MaxVersion = 3
    Contents = {"ask", "invalid"}
    NoContent = NoContent
    Statements <- MCStatements
    Histories <- MCHistories
    Targets = {"agent"}
    TargetType <- MCTargetType
    BindingTypes <- MCBindingTypes
    Catalog <- MCCatalog
    Binders = {b1}
    DefaultEffect = "deny"
    Approvals = {a1}
    Operators = {o1, o2}
    Consumers = {c1, c2}
    Request <- MCRequest
    Candidates = {"agent"}
    Quorums = {2}
SYMMETRY MCSymmetry
INVARIANTS
    QuorumBehindConsent
    UsedOnce
PROPERTIES
    RevisionKeepsTargets
    PolicyStopsConsumption
CHECK_DEADLOCK FALSE
