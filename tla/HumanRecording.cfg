\* Any tick may miss a controller or the whole frame.
CONSTANTS
    MaxDemos = 2
    MaxEpisodes = 3
    DropFrames = TRUE
SPECIFICATION FairSpec
INVARIANTS
    TypeOK
    SavedIsFinalized
    OneDisposition
    QuietWhenAsked
    ExitIsSettled
    SeenPressFiresOnce
PROPERTIES
    LeavingEnds
