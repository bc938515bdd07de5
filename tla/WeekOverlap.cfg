\* Four requests overlap freely; the run ends when all have.
CONSTANTS
    r1 = r1
    r2 = r2
    r3 = r3
    r4 = r4
    None = None
    Requests <- FourRequests
    Servings <- OneOrTwo
    TargetPortions <- Five
    OneAtATime = FALSE
SPECIFICATION Spec
INVARIANTS TypeOK ActivePlanRemains ReferencesResolve RecipesNotShared OneWinnerPerRecipe NoRecipeLost
PROPERTIES LatestGenerationIsCurrent UncontendedSwapHeals
SYMMETRY Interchangeable
CHECK_DEADLOCK FALSE
