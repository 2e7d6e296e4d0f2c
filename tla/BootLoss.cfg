CONSTANTS
    HalfRange = 3
    RetxCopies = 2
    MaxLoss = 1
    LossyIds <- MCAllIds
    NumHoles = 2
    DummyMax = 2
    NumPackets = 3
    BlockingMode = FALSE
    LackMax = 1
    HoleSizeRange = 256
    TimeoutVal = 0
    MayTimeout <- MCMayTimeout
    CrossPortRace = TRUE
SPECIFICATION MCSpec
INVARIANT BufferedUntilRecovered
CHECK_DEADLOCK FALSE
