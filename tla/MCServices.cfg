CONSTANTS
    NoTick = NoTick
SPECIFICATION Spec
PROPERTIES
    PathsAreKept
    BackupsAreUsable
    EveryFileIsCatalogued
CHECK_DEADLOCK FALSE
