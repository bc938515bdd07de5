\* The server's WriteTimeout is shorter than the request's own deadline.
CONSTANTS
    Names = {"asafoetida"}
    Latencies <- SomeLatencies
SPECIFICATION Spec
INVARIANTS CardsReachUser
CHECK_DEADLOCK FALSE
