\* The left arm sends two components and has the camera.
CONSTANTS
    None = None
    Feeds <- MCFeeds
    Cameras = {"left"}
    MaxNow = 3
    MaxConnects = 2
    StateAge = 1
    CameraAge = 1
    Skew = 1
    MaxRows = 2
    Offers <- MCOffers
SPECIFICATION Spec
INVARIANTS
    EpisodeIsWhatMoved
    RowsAreFresh
    FailedConnectPowersNothing
    ArmsMoveTogether
CHECK_DEADLOCK FALSE
