CONSTANTS
    HalfRange = 3
    RetxCopies = 2
    MaxLoss = 2
    LossyIds <- MCLossyIds
    NumHoles = 2
    DummyMax = 2
    NumPackets = 7
    BlockingMode = TRUE
    LackMax = 1
    HoleSizeRange = 256
    TimeoutVal = 0
    MayTimeout <- MCMayTimeout
    CrossPortRace = FALSE
SPECIFICATION MCSpec
INVARIANTS
    AckTracksExpected
PROPERTIES
    OrderedLinkSpec
    LackNeverRegresses
CHECK_DEADLOCK TRUE
