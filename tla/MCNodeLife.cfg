SPECIFICATION Spec
CONSTANTS
    a = a
    b = b
    Node = {a, b}
    None = None
    MaxWal = 2
    MaxEvents = 2
SYMMETRY Symmetry
INVARIANTS LifeInv OneCluster FormerIsChecked
PROPERTIES RewindWorks
CHECK_DEADLOCK FALSE
