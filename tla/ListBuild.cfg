\* Two builds of short lists overlap and fail anywhere.
CONSTANTS
    b1 = b1
    b2 = b2
    Builds <- TwoBuilds
    Names = {"onion", "sumac", "tahini", "salt"}
    Spellings = {"lower", "upper"}
    Dictionary <- OnionKnown
    Staples = {"salt"}
    Sections = {"produce"}
    Other = "other"
    None = "none"
    Replies = {"produce", "spices"}
    Weeks <- SomeWeeks
SPECIFICATION Spec
INVARIANTS TypeOK ListAddsUp OneSectionPerName CacheHoldsAnswers ListsAgree
SYMMETRY Interchangeable
CHECK_DEADLOCK FALSE
