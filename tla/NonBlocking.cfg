CONSTANTS
    HalfRange = 3
    RetxCopies = 2
    MaxLoss = 3
    LossyIds <- MCLossyIds
    NumHoles = 2
    DummyMax = 2
    NumPackets = 8
    BlockingMode = FALSE
    LackMax = 1
    HoleSizeRange = 256
    TimeoutVal = 0
    MayTimeout <- MCMayTimeout
    CrossPortRace = TRUE
SPECIFICATION MCSpec
INVARIANTS
    TypeOK
    HeadersFaithful
    BufferedUntilRecovered
    NoStaleHole
    NoSpuriousDuplicate
    NothingVanishes
CHECK_DEADLOCK FALSE
