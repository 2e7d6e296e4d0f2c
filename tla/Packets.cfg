CONSTANTS
    UserTypes <- MCUserTypes
    Modes <- MCModes
    SetupSpeeds = {10, 100}
    NewSpeeds = {10}
    Copies = {0, 1, 3}
    MaxCommands = 1
SPECIFICATION MCSpec
INVARIANTS
    ParsersFit
    FramesRestored
    InternalHeadersStayInside
    FramesOnTheirWay
    SeedsCirculate
    RetxGroupWhole
    AllUpMeansUp
CHECK_DEADLOCK FALSE
