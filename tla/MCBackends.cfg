SPECIFICATION Spec
CONSTANTS
    a = a
    b = b
    Node = {a, b}
    None = None
    MaxRev = 3
    MaxGrants = 1
    MaxFaults = 1
    MaxStream = 1
SYMMETRY Symmetry
INVARIANTS StoreInv TrueUpdate NoLostUpdate OneInitializer RemovesOwn
PROPERTY NoTakeOver
CHECK_DEADLOCK FALSE
