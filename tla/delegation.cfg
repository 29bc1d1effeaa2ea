SPECIFICATION DelegationSpec
CONSTANTS
    Ids = {d1, d2}
    Kinds = {"treasury", "user"}
    Payees = {fleet, outsider}
    External = {outsider}
    Proven = {outsider}
    Ceilings = {2}
    Amounts = {1, 2}
    Caps = {3}
    Funds = 4
SYMMETRY IdSymmetry
CHECK_DEADLOCK FALSE
INVARIANTS
    ExposureBounded
    LedgerBelowChain
    RevokedMeansNoAllowance
    CheckmarkBacked
