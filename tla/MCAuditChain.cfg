SPECIFICATION Spec
CONSTANTS
    Tx = {t1, t2}
    Workspace = {w1, w2}
    Nobody = Nobody
    MaxClock = 1
    MaxSeq = 4
    MaxBatch = 2
    PageLimit = 2
INVARIANTS
    LinkIsTail
    VerifiesWithoutInversion
    AnchorIsPrefix
    WalkSeesAllWithoutInversion
PROPERTIES
    ImplementsLedger
