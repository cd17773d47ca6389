CONSTANTS
    c1 = c1
    c2 = c2
    c3 = c3
    s1 = s1
    s2 = s2
    NoSite = NoSite
    Cameras <- TwoCameras
    Sites <- OneSite
    Probed <- TwoCameras
    MaxChecks = 1
    MinCameras = 2
    OfflineAfter = 2
    FormerAlerts = {"OFFLINE"}
    FormerNews = {}
    MaxMoves = 1
SPECIFICATION FairSpec
INVARIANTS
    FailingIsAnnounced
    RecoveryIsAnnounced
PROPERTIES
    SilentSiteIsOneAlert
