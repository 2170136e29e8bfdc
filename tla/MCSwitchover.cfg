SPECIFICATION Spec
CONSTANTS
    a = a
    b = b
    c = c
    Node = {a, b, c}
    None = None
    Tagged = {}
    MaxWal = 1
    MaxLag = 0
    MaxRequests = 2
    MaxEvents = 3
SYMMETRY Symmetry
INVARIANTS SwitchoverInv SomeoneRaces
PROPERTIES CandidateTakesOver FailedIsFinal
CHECK_DEADLOCK FALSE
