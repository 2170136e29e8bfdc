SPECIFICATION Spec
CONSTANTS
    Margin = 1
    LoopWait = 1
    Fixed = 2
    MaxEvents = 3
INVARIANTS TimeoutMatches
CHECK_DEADLOCK FALSE
