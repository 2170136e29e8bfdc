SPECIFICATION FairSpec
CONSTANTS
    Margin = 1
    LoopWait = 1
    Fixed = 2
    MaxEvents = 3
INVARIANTS DeviceWithinLease
PROPERTIES RestartedOnce Converges
CHECK_DEADLOCK FALSE
