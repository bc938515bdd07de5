\* Two requests of a first visit overlap: the wizard comes back.
CONSTANTS
    r1 = r1
    r2 = r2
    r3 = r3
    Blank = Blank
    Requests <- TwoRequests
    Languages = {"en"}
    Words = {"salt"}
    Spellings = {"lower", "upper"}
    FormSizes <- BoundarySizes
    OneAtATime = FALSE
SPECIFICATION Spec
PROPERTIES WizardStaysDone
SYMMETRY Interchangeable
CHECK_DEADLOCK FALSE
