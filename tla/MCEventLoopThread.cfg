SPECIFICATION ThreadSpec
CONSTANTS
    Threads = {owner, t1}
    LoopThread = loop
    Owner = owner
    Funcs = {f1, f2, f3}
    EvfdMax = 2
    MaxOwnLoops = 1
INVARIANTS
    NoLostWakeup
    LentLoopAlive
PROPERTIES
    ImplementsExecutor
    QueuedRuns
    LiveQuitJoins
CHECK_DEADLOCK FALSE
