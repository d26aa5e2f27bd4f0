\* The code's own queue of two; every write of a finalization may fail, and of
\* two neighbours the failure and queue markers too.
CONSTANTS
    MaxEpisodes = 4
    MaxPending = 2
    Unmarkable = {2, 3}
SPECIFICATION FairSpec
INVARIANTS
    TypeOK
    FinalizedIsComplete
    
    HandOverInOrder
    ClosedIsQuiet
PROPERTIES
    VerdictsStand
    FailureBlocksRecording
    CloseReturns
