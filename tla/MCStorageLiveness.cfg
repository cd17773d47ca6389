CONSTANTS
    NoSegment = NoSegment
    tick = tick
    index = index
    motion = motion
    api1 = api1
SPECIFICATION Spec
PROPERTIES
    PendingIsResolved
    PressureIsRelieved
CHECK_DEADLOCK FALSE
