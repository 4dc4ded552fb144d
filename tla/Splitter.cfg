SPECIFICATION SplitterSpec
CONSTANTS
    Source <- CardEdid
    Sinks <- SinkEdids
    CeaTimings <- CeaModes
    Colours = {"rgb", "yuv"}
    Quick = FALSE
    Transmitting = TRUE
    Coalescing = FALSE
    Crossing = FALSE
    MaxMoves = 8
    MaxFails = 0
    NotReadyLimit = 2
    RecoveryLimit = 1
    Lane2Limit = 1
    Displays = {a, b}
    Unmergeable = {b}
    Merging = {TRUE, FALSE}
    NoEdid = NoEdid
    Torn = Torn
    Card = Card
    Merge <- Passed
    QuickPins = FALSE
    MaxEvents = 2
    OutputFails = 1
    MaxSleeps = 1
INVARIANTS SplitterSound 
PROPERTIES  EdidShown
CHECK_DEADLOCK FALSE
