CONSTANTS
    Urls = {"a", "b"}
    MaxWants = 2
    MaxReconnects = 1
    MaxStreamFaults = 2
    Cameras = {1, 2}
    Footage <- MCFootage
    End = 3
    Chunk = 1
    MaxCameras = 2
    MaxSeeks = 1
    MaxChanges = 3
    MaxTileFaults = 1
    LastToken = 2
    MaxRequests = 2
    MaxAnswerFaults = 1
    MaxZones = 2
    Slots = {s1, s2}
    MinVertices = 1
    MaxVertices = 2
    MaxActs = 6
    MaxEditorFaults = 1
    None = None
SPECIFICATION BoundedSpec
INVARIANTS
    SessionsAreHeld
PROPERTIES
    PlayerSettles
    ClockRuns
    SessionsEndWithTheirToken
    EditorSettles
    FeedConverges
CHECK_DEADLOCK FALSE
