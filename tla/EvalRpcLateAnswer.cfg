\* One endpoint process that does not crash.
CONSTANTS
    Ids = {i1, i2}
    Episodes = {e1}
    NEpisodes = 1
    Horizon = 1
    Asked <- FewRequests
    MaxInstances = 1
    None = None
SPECIFICATION Spec
INVARIANTS
    ServesUntilClosed
