CONSTANTS
    Taps = {t1, t2}
    Pages = {p1, p2}
    Items = {i1, i2}
    Recipes = {r1}
    Reactions = {liked, cookAgain}
    MaxLines = 1
    MaxRepeats = 1
SPECIFICATION Spec
SYMMETRY Symmetry
INVARIANTS
    TypeOK
    SettledPageTellsTruth
PROPERTIES
    MarksAreMeant
    GhostsStayGone
CHECK_DEADLOCK FALSE
