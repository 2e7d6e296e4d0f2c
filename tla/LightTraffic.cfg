CONSTANTS
    MonitoringThreshold = 4
    Threshold1 = 8
    Threshold2 = 2
    Traffic <- LightTraffic
    MayBecome <- Worse
    MayClear <- Never
    MaxLoads = 1
    MaxCrashes = 0
    MaxMessages = 2
SPECIFICATION FairSpec
PROPERTIES
    BadLinkIsProtected
