SPECIFICATION Spec
CONSTANTS
    Tasks = {t1, t2}
    TimedTasks = {t1}
    Submitters = {s1, s2}
    MaxSpawn = 3
    MaxIdleTimeouts = 1
    Controller = ctl
    MaxThreads = 2
    MaxTasks = 1
    NoThread = nobody
    NoTask = nothing
INVARIANTS PoolAccounting QuietAfterStop NoMissedNotification
PROPERTIES AcceptedRuns CacheStopReturns
CHECK_DEADLOCK FALSE
