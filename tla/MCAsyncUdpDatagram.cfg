SPECIFICATION Spec
CONSTANTS
    MaxSends = 3
    MaxQueue = 2
    MaxDepth = 3
INVARIANTS DatagramOrder WritingIffPending ClosedIsUnregistered OnlyForceLoses DeletedIffUnused
PROPERTIES CloseCompletes
CHECK_DEADLOCK FALSE
