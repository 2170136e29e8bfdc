SPECIFICATION Spec
CONSTANTS
    a = a
    b = b
    c = c
    Node = {a, b, c}
    None = None
    CommitId = {c1, c2}
    Names <- AllOthers
    LateRacers = FALSE
SYMMETRY Symmetry
INVARIANT NoLostCommit
