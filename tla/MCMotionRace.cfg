CONSTANTS
    h1 = h1
    h2 = h2
    LastFile = 2
    MaxTime = 4
    Handlers = {h1}
    PreBuffer = 1
    PostBuffer = 1
    LateMotionGrace = 1
    QuietPeriod = 1
    Latency = 1
    StatFails = FALSE
    MaxFaults = 0
    MaxCrashes = 0
    Modes = {"MOTION_ONLY"}
SPECIFICATION Spec
INVARIANTS
    NearMotionIsKept
CHECK_DEADLOCK FALSE
