CONSTANTS
    HalfRange = 2
    RetxCopies = 1
    MaxLoss = 2
    LossyIds <- MCWrapSafeIds
    NumHoles = 2
    DummyMax = 2
    NumPackets = 6
    BlockingMode = TRUE
    LackMax = 1
    HoleSizeRange = 256
    TimeoutVal = 1
    MayTimeout <- MCMayTimeout
    CrossPortRace = FALSE
SPECIFICATION FairSpec
PROPERTIES
    LostIsRetransmitted
    BufferDrains
    OrderedLinkFair
CHECK_DEADLOCK FALSE
