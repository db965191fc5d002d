SPECIFICATION TimeoutSpec
CONSTANTS
    Threads = {owner}
    LoopThread = loop
    Owner = owner
    Funcs = {f1, f2}
    EvfdMax = 2
    MaxOwnLoops = 1

PROPERTIES DestructorReturns
CHECK_DEADLOCK FALSE
