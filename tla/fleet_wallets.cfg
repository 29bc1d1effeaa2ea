SPECIFICATION FleetSpec
CONSTANTS
    Agents = {a1, a2}
    Workers = {w1, w2}
    Callers = {c1, c2}
    Provisioned = {a1}
    Plans <- MCPlans
    Reputations = {100}
    Opening = 20
    Deposited = {10, 20}
    Gas = 1
    Treasury = 11
    Payments = {10}
    MaxJobs = 2
    MaxCalls = 2
    MaxCrashes = 1
SYMMETRY FleetSymmetry
CHECK_DEADLOCK FALSE
INVARIANTS
    AllocationsWithinDeposits
    OnePendingTopUp
    PostingsBacked
 
