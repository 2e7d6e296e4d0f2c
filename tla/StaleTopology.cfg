CONSTANTS
    MonitoringThreshold = 4
    Threshold1 = 8
    Threshold2 = 2
    Traffic <- BusyTraffic
    MayBecome <- Worse
    MayClear <- Never
    MaxLoads = 2
    MaxCrashes = 0
    MaxMessages = 2
SPECIFICATION FairSpec
INVARIANTS
    CachedTopologyFresh
