SPECIFICATION Spec
CONSTANTS
    MaxTimers = 2
    MaxTime = 3
    Delays = {0, 1}
    Intervals = {0, 1}
    MaxPending = 0
PROPERTIES CancelIsFinal
CHECK_DEADLOCK FALSE
