SPECIFICATION Spec
CONSTANTS
    Sessions = {s1}
    NoSession = NoSession
    Agents = {a1}
    Workers = {w1}
    Deciders = {d1, d2}
    Cap <- WideCap
    Spends <- MCSpends
    Risks <- MCRisks
    Permissions <- MCPermissions
    Policies <- MCPolicies
    Statuses = {}
    MaxDay = 0
    MaxDecisions = 2
    MaxDuplicates = 0
    Crashes = FALSE
CHECK_DEADLOCK FALSE
INVARIANT SettledAtMostOnce
