SPECIFICATION Spec
CONSTANTS
    Tasks = {t1, t2}
    TimedTasks = {t1}
    Submitters = {s1, s2}
    MaxSpawn = 2
    MaxIdleTimeouts = 0
    Controller = ctl
    MaxThreads = 2
    MaxTasks = 1
    NoThread = nobody
    NoTask = nothing
PROPERTIES StopReturns
CHECK_DEADLOCK FALSE
