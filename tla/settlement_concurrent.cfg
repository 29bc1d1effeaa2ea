SPECIFICATION FairSpec
CONSTANTS
    Sessions = {s1}
    NoSession = NoSession
    Agents = {a1}
    Workers = {w1, w2}
    Deciders = {d1, d2}
    Cap <- MCCap
    Spends <- MCSpends
    Risks <- RisksAbove
    Permissions <- GrantsAbove
    Policies <- MCPolicies
    Statuses = {"Active", "Suspended"}
    MaxDay = 1
    MaxDecisions = 2
    MaxDuplicates = 1
    Crashes = FALSE
INVARIANT CounterWithinCap
CHECK_DEADLOCK FALSE
PROPERTY DispatchedActionSettles
