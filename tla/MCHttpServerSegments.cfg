SPECIFICATION Spec
CONSTANTS
    NumRequests = 1
    TokenLen = 2
    SpanLen = 2
    Workers = {w1}
    MaxTasks = 1
    Pools = {FALSE}
INVARIANTS SegmentationInvisible
CHECK_DEADLOCK FALSE
