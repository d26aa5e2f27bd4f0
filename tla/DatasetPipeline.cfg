\* Two episodes of a session that is still recording and finalizing them.
CONSTANTS
    MaxEpisodes = 2
    MaxPending = 1
    Unmarkable = {1, 2}
SPECIFICATION PipelineSpec
INVARIANTS
    MadeOfOneFinalized
PROPERTIES
    KeepsContract
    PublishedOnce
