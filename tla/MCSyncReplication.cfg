SPECIFICATION Spec
CONSTANTS
    a = a
    b = b
    c = c
    Node = {a, b, c}
    None = None
    CommitId = {c1, c2}
    Names <- Ring
    LateRacers = FALSE
SYMMETRY Symmetry
INVARIANTS NoLostCommit Electable SyncInv
