SPECIFICATION EscrowSpec
CONSTANTS
    client = client
    fleet = fleet
    outsider = outsider
    Jobs = {j1, j2}
    Parties <- MCParties
    Client = client
    Custodied <- MCCustodied
    Hires <- MCHires
    Raises = {2}
    MinimumBudget = 1
SYMMETRY JobSymmetry
CHECK_DEADLOCK FALSE
INVARIANTS
    NeverOvercharged
    MirrorNeverAhead
PROPERTY BooksFinal
