\* One request with every outcome of every provider call.
CONSTANTS
    Names = {"asafoetida", "sumac"}
    Latencies <- SomeLatencies
SPECIFICATION Spec
INVARIANTS TypeOK FailClosed WithinDeadline CallBudget
PROPERTIES OnlyTimeLosesAcceptedWeek Answered
CHECK_DEADLOCK FALSE
