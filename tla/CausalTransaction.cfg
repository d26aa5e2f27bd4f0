\* Four commits fit: up to three in one epoch, and the rest in another.
CONSTANTS
    Epochs = {e1, e2}
    First = e1
    Ids = {1, 2, 3, 4}
    Digests = {d1, d2}
    Sources = {xr}
    MaxTick = 2
    MaxSequence = 2
    None = None
SPECIFICATION MCSpec
CHECK_DEADLOCK FALSE
INVARIANTS
    TypeOK
    ChainIsPaired
    EpochsAreContiguous
    IdentitiesUsedOnce
    TimeMovesForward
