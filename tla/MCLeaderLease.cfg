SPECIFICATION Spec
CONSTANTS
    n1 = n1
    n2 = n2
    None = None
    Node = {n1, n2}
    Ttl = 2
    WdTimeout = 1
    Lag = 1
    PlainStart = {"standby", "primary"}
SYMMETRY NodeSymmetry
INVARIANTS
    TypeOK
    NoTwoPrimaries
    PrimaryIsWatched
    LeaderAnswerEnds
    FencedInv
PROPERTIES
    DisarmAfterFence
    LockKept
