CONSTANTS
    tick = tick
    index = index
    motion = motion
    api1 = api1
    api2 = api2
    TickWorker = tick
    IndexWorker = index
    MotionWorker = motion
    NoSegment = NoSegment
    Segments = {1}
    Faults = {"unlinkFails"}
    ApiWorkers = {api1}
    BatchSize = 1
    MaxIterations = 1
    Critical = 1
    Target = 0
    Holdable = {1}
    Promotable = {1}
    Volumes = {"ok", "readonly"}
    MaxCrashes = 1
    Fates = {"AVAILABLE", "BUFFERED"}
    MaxAge = 1
SPECIFICATION Spec
INVARIANTS
    HoldKeepsFootage
PROPERTIES
    ImplementsCatalog
CHECK_DEADLOCK FALSE
