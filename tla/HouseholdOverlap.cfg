\* Three requests overlap freely on a household that some of them create.
CONSTANTS
    r1 = r1
    r2 = r2
    r3 = r3
    Blank = Blank
    Requests <- ThreeRequests
    Languages = {"en"}
    Words = {"salt"}
    Spellings = {"lower", "upper"}
    FormSizes <- BoundarySizes
    OneAtATime = FALSE
SPECIFICATION Spec
INVARIANTS TypeOK TermsDistinct
PROPERTIES IdentitySettles UncontendedKeepsPromise
SYMMETRY Interchangeable
CHECK_DEADLOCK FALSE
