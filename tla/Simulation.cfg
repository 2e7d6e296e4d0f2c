CONSTANTS
    Tors <- MCTors
    Aggs <- MCAggs
    Cores <- MCCores
    PodOf <- MCPodOf
    PlaneOf <- MCPlaneOf
    PipeOf <- MCPipeOf
    LgCapable <- MCLgCapable
    LinkCapacity = 10
    InitialLossRate = 1
    CapacityConstraintPercent = 50
    Solutions <- AllSolutions
    FailureTimes <- MCFailureTimes
    LossRates <- MCLossRates
    ShortRepair = 2
    LongRepair = 4
    LgPerf <- MCLgPerf
    StartOffset = 4
    TraceLinks = 2
    EventsPerLink = 2
    Gaps <- MCGaps
    Hour = 1
    MaxDuration = 3
    StartEndOffset = 2
    Whole = 6
    Shares <- MCShares
    MaxNops = 2
SPECIFICATION MCSpec
INVARIANTS
    CachesExact
    LgExactlyOnCorrupting
    CapacityConstraintHolds
    NothingMoreToDisable
    RepairScheduled
    RowDescribesNetwork
    TraceComplete
PROPERTIES
    OptimizerIsOptimal
    TraceWritten
CHECK_DEADLOCK FALSE
