CONSTANTS
    Channels = {c1, c2, c3}
    MaxFd = 2
SPECIFICATION Spec
INVARIANTS
    WatchedAsAsked
    IndexLeadsBack
PROPERTIES
    ImplementsPoller
