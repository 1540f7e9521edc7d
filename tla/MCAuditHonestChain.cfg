SPECIFICATION Spec
CONSTANTS
    Tx = {t1, t2}
    Workspace = {w1}
    Nobody = Nobody
    MaxClock = 1
    MaxSeq = 3
    MaxBatch = 2
    PageLimit = 1
INVARIANT ChainVerifies
