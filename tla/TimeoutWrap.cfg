CONSTANTS
    HalfRange = 2
    RetxCopies = 1
    MaxLoss = 2
    LossyIds <- MCLossyIds
    NumHoles = 2
    DummyMax = 2
    NumPackets = 7
    BlockingMode = TRUE
    LackMax = 1
    HoleSizeRange = 256
    TimeoutVal = 0
    MayTimeout <- SeqNo
    CrossPortRace = FALSE
SPECIFICATION MCSpec
INVARIANT NothingVanishes
CHECK_DEADLOCK FALSE
