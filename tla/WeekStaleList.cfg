\* Two swaps of one plan race.
CONSTANTS
    r1 = r1
    r2 = r2
    r3 = r3
    r4 = r4
    None = None
    Requests <- FourRequests
    Servings <- OneOrTwo
    TargetPortions <- Five
    OneAtATime = FALSE
SPECIFICATION Spec
INVARIANTS ListMatchesRecipes
CHECK_DEADLOCK FALSE
