SPECIFICATION Spec
CONSTANTS
    MaxTimers = 3
    MaxTime = 3
    Delays = {0, 2}
    Intervals = {0, 1}
    MaxPending = 1
INVARIANTS TypeOK RegistersAgree TimerFdArmed
PROPERTIES DeadTimersStayDead RunWhenDue
CHECK_DEADLOCK FALSE
