SPECIFICATION FairSpec
CONSTANTS
    k1 = k1
    k2 = k2
    c1 = c1
    c2 = c2
    NoKey = NoKey
    Keys = {k1}
    Calls = {c1, c2}
    Routes = {"runtime", "hire"}
    Amount <- MCAmount
    Settings <- AccessSettings
    Decisions = {"allow", "approval_required", "deny"}
    Outcomes = {"settled", "failed", "unknown"}
    MaxCrashes = 1
INVARIANT CountersMatch
 
INVARIANT AtMostOnePayment
INVARIANT ApprovedBeforePaid
 
PROPERTY DecidedForGood
PROPERTY PreSubmitHoldEnds
