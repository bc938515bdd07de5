\* Three requests, one after the other.
CONSTANTS
    r1 = r1
    r2 = r2
    r3 = r3
    r4 = r4
    None = None
    Requests <- ThreeRequests
    Servings <- UpToTwo
    TargetPortions <- Four
    OneAtATime = TRUE
SPECIFICATION Spec
INVARIANTS SingleActivePlan ListMatchesRecipes WeekPortioned
PROPERTIES ArchivedWeeksFrozen KeepsPromise
CHECK_DEADLOCK FALSE
