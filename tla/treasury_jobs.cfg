SPECIFICATION TreasurySpec
CONSTANTS
    Workers = {w1}
    Operators = {p1}
    Quotes = {q1}
    NoQuote = NoQuote
    Routes = {"gateway", "exact"}
    ProofRails = {"gateway", "exact"}
    Need = 1
    MinDeposit = 1
    Fee = 0
    Purse <- MCPurse
    MaxJobs = 2
    MaxCalls = 2
    MaxFaults = 1
CHECK_DEADLOCK FALSE
INVARIANTS
    
    PreparedMeansFunded
PROPERTIES
    PreparationEnds
    
