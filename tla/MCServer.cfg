CONSTANTS
    None = None
    ApiCameras = {"c1", "c2"}
    ApiSites = {"s1"}
    NoSite = NoSite
    MaxFlags = 1
    MaxGrants = 1
    SessionUsers = {"u1", "u2"}
    SessionOps = {"o1"}
    SessionChecks = {"k1"}
    SessionLogins = {"l1"}
    MaxVersion = 1
    Recipients = 2
    Providers = {"twilio"}
    AlertHandlers = {"h1"}
    Admins = {"a1"}
    Alerts = {"motion.detected", "camera.offline", "covered.camera.offline"}
    Wanted = {"motion.detected", "camera.offline"}
    Capacity = 1
    RefillInterval = 2
    Cooldowns = {1, 3}
    PartialUpdates = FALSE
    MaxUpdates = 1
    Window = 3
    Usernames = {"n1", "n2"}
    LoginSlots = {"a1", "a2"}
    MaxPerUser = 2
    MaxPerIp = 3
    LoginWindow = 2
    MaxTime = 5
    MaxWrites = 3
    JobHandlers = {"h1", "h2"}
    JobConsumers = {"c1"}
    Items = 2
    MaxAttempts = 2
    MaxJobFaults = 2
    Tasks = {"t1", "t2", "t3"}
    ObjectKeys = {"k1", "k2"}
    MaxConcurrent = 2
    Devices = {"d1"}
    WizardSlots = {"s1", "s2"}
    MaxOpens = 2
    MaxPreviews = 1
    MaxWizardFaults = 1
    ZoneIds = {"z1", "z2"}
    ZoneRequests = {"r1", "r2"}
    Polygons <- MCPolygons
    Cells <- MCCells
    MaxZoneChanges = 2
    MaxZoneFaults = 1
    MaxZoneBoots = 1
    PtzSlots = {"s1", "s2"}
    PtzTimers = {"t1", "t2"}
    MaxPresets = 2
    MaxPtzFaults = 1
    Accounts = {"a1", "a2"}
    RightsSlots = {"s1", "s2"}
    MaxRightsActs = 5
    MaxRightsFaults = 1
SPECIFICATION BoundedSpec
INVARIANTS
    AccessIsExact
    EntryIsGuarded
    LimiterIsExact
    CredentialsAreKept
    CompletedIsAnalysed
    UploadsFillTheirSlots
    OneCameraPerOpening
    ZonesAreApplied
    MovesAreWatched
    SavesAreWhole
PROPERTIES
    RestoreAnswered
CHECK_DEADLOCK FALSE
