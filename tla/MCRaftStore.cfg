SPECIFICATION Spec
CONSTANTS
    n1 = n1
    n2 = n2
    Node = {n1, n2}
    None = None
    Ttl = 1
    RetryTimeout = 1
    Skew = 0
    EarlyTail = FALSE
    MaxTime = 1
    MaxBehind = 1
    MaxFlight = 2
SYMMETRY NodeSymmetry
VIEW View
INVARIANTS LeaseHeld ReleasedStays StoreInv
