SPECIFICATION Spec
CONSTANTS
    k1 = k1
    k2 = k2
    c1 = c1
    c2 = c2
    NoKey = NoKey
    Keys = {k1, k2}
    Calls = {c1, c2}
    Routes = {"runtime"}
    Amount <- MCAmount
    Settings <- BudgetSettings
    Decisions = {"allow"}
    Outcomes = {"settled"}
    MaxCrashes = 0
SYMMETRY CallSymmetry
PROPERTY GrowsWithinBudget
