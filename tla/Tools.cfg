CONSTANTS
    Fabrics <- MCFabrics
    PodOrders <- MCPodOrders
    MaxPortsPerPipe = 3
    Scripts <- MCScripts
    Target = 1
    PktgenLimit = 0
    MaxFrames = 1
    MaxLosses = 3
    MaxDrops = 1
    MaxRuns = 2
    MonitoringThreshold = 4
    Threshold1 = 8
    Threshold2 = 2
    Traffic <- BusyTraffic
    MayBecome <- Fluctuates
    MayClear <- Never
    MaxLoads = 2
    MaxCrashes = 1
    MaxMessages = 2
SPECIFICATION MCSpec
INVARIANTS
    BuiltAsAssumed
    TracedLinksExist
    CleanStart
    MeasurementExact
    LeavesNothing
PROPERTIES
    KeyStaysBacked
    ProtectedUnlessKeyAhead
    RunEnds
CHECK_DEADLOCK FALSE
