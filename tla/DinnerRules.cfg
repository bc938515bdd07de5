CONSTANTS
    Letters <- MCLetters
    Separators <- MCSeparators
    Folded <- MCFolded
    Terms <- MCTerms
    Households <- MCHouseholds
    Dinners <- MCDinners
    Keywords <- MCKeywords
SPECIFICATION Spec
PROPERTIES
    NothingForbidden
    VarietyStands
    PortionsStand
CHECK_DEADLOCK FALSE
