SPECIFICATION Spec
CONSTANTS
    n1 = n1
    n2 = n2
    Node = {n1, n2}
    None = None
    Ttl = 1
    RetryTimeout = 1
    Skew = 0
    EarlyTail = TRUE
    MaxTime = 1
    MaxBehind = 1
    MaxFlight = 1
SYMMETRY NodeSymmetry
VIEW View
INVARIANTS RequestInv
PROPERTIES RegisterRefined
