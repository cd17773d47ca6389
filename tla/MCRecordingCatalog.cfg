CONSTANTS
    s1 = s1
    s2 = s2
    w1 = w1
    w2 = w2
    NoSegment = NoSegment
    Segments <- MCSegments
    Workers <- MCWorkers
    Faults = {"deleteFails", "unlinkFails"}
SPECIFICATION Spec
INVARIANTS
    ListedHasFile
    FileHasRow
PROPERTIES
    UnlinkOnlyDoomed
    ImplementsLifecycle
CHECK_DEADLOCK FALSE
