\* Timeouts, retries, reconnects and a restarted endpoint.
CONSTANTS
    Ids = {i1, i2}
    Episodes = {e1}
    NEpisodes = 1
    Horizon = 1
    Asked <- FewRequests
    MaxInstances = 2
    None = None
SPECIFICATION FairSpec
INVARIANTS
    ExactlyOnce
PROPERTIES
    NobodyWaitsForever
