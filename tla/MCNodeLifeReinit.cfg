SPECIFICATION Spec
CONSTANTS
    a = a
    b = b
    Node = {a, b}
    None = None
    MaxWal = 2
    MaxEvents = 2
SYMMETRY Symmetry
PROPERTIES LeaderKeepsData
CHECK_DEADLOCK FALSE
