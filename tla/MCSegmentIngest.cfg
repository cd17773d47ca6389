CONSTANTS
    h1 = h1
    h2 = h2
    LastFile = 2
    MaxTime = 5
    Handlers = {h1, h2}
    PreBuffer = 1
    PostBuffer = 1
    LateMotionGrace = 2
    QuietPeriod = 1
    Latency = 2
    StatFails = TRUE
    MaxFaults = 1
    MaxCrashes = 1
    Modes = {"MOTION_ONLY", "CONTINUOUS"}
SPECIFICATION Spec
INVARIANTS
    PromisedIsKept
    AvailableIsAnnounced
CHECK_DEADLOCK FALSE
SYMMETRY Symmetry
