\* A tick may miss a controller or the whole frame.
CONSTANTS
    MaxDemos = 1
    MaxEpisodes = 1
    DropFrames = TRUE
SPECIFICATION Spec
INVARIANTS
    OnePressOneEvent
