SPECIFICATION Spec
CONSTANTS
    Sessions = {s1, s2}
    NoSession = NoSession
    Agents = {a1}
    Workers = {w1}
    Deciders = {d1}
    Cap <- MCCap
    Spends <- MCSpends
    Risks <- MCRisks
    Permissions <- MCPermissions
    Policies <- MCPolicies
    Statuses = {"Active", "Suspended"}
    MaxDay = 0
    MaxDecisions = 2
    MaxDuplicates = 1
    Crashes = TRUE
INVARIANTS
    TypeOK
    SettledOnlyWithAuthority
    SettledAtMostOnce
    RecordsAgree
CHECK_DEADLOCK FALSE
PROPERTIES
    ImplementsContract
