CONSTANTS
    HalfRange = 3
    RetxCopies = 1
    MaxLoss = 1
    LossyIds <- MCLossyIds
    NumHoles = 1
    DummyMax = 1
    NumPackets = 5
    BlockingMode = TRUE
    LackMax = 1
    HoleSizeRange = 256
    TimeoutVal = 0
    MayTimeout <- MCNoTimeout
    CrossPortRace = FALSE
    PauseThreshold = 2
    ResumeThreshold = 1
    MaxFrames = 2
SPECIFICATION FlowControlFairSpec
INVARIANTS
    FlowControlTypeOK
    ResumedWhenDrained
    ResumeIsLastWord
PROPERTIES
    PausedIsResumed
CHECK_DEADLOCK FALSE
