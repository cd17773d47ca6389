CONSTANTS
    j1 = j1
    j2 = j2
    NoJob = NoJob
    Jobs <- MCJobs
    Segments = {1, 2}
    Window <- MCWindow
    CopyJobs <- MCCopyJobs
    MaxSegments = 2
    Deleters = {d1}
    Pruners = {p1}
    Faults = {"ffmpegFails", "cameraRemoved"}
    MaxCrashes = 1
SPECIFICATION FairSpec
INVARIANTS
    HeldExportIsWhole
    ChecksumIsOfTheFile
    OverHoldsNothing
PROPERTIES
    ExpiredIsPruned
CHECK_DEADLOCK FALSE
