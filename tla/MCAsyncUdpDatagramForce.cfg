SPECIFICATION Spec
CONSTANTS
    MaxSends = 1
    MaxQueue = 1
    MaxDepth = 3
INVARIANTS ForceCloseIsSafe
CHECK_DEADLOCK FALSE
