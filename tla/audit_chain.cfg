SPECIFICATION FairSpec
CONSTANTS
    r1 = r1
    r2 = r2
    r3 = r3
    p1 = p1
    p2 = p2
    Requests = {r1, r2, r3, p1, p2}
    Payers = {p1, p2}
    Key <- MCKey
    Body <- MCBody
    PoolSize = 3
    PageSize = 2
    None = None
INVARIANTS
    ChainIntact
    EventsMatchCommits
    HonestChainLinks
 
CHECK_DEADLOCK FALSE
