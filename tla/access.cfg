SPECIFICATION AccessSpec
CONSTANTS
    Calls = {x1, x2}
    MaxAgents = 2
    MaxConnections = 2
    MaxSecrets = 3
    MaxUses = 1
    MaxFaults = 1
SYMMETRY CallSymmetry
CHECK_DEADLOCK FALSE
INVARIANTS
    LiveSecrets
    InviteBounded
