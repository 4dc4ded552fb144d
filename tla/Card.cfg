SPECIFICATION CardSpec
CONSTANTS
    w1 = w1
    Callers = {"receiver", "splitter"}
    BusCount = 1
    Requests <- MCRequests
    MaxAttempts = 2
    PollCount = 1
    MaxLen = 255
    MaxOps = 2
    MayVanish = TRUE
    MaxSuspends = 2
    Board = "gc555"
    Writers = {w1}
    LedModes = {0, 1, 2}
    MaxBrightness = 2
    MaxLedFailures = 1
    MaxLedSleeps = 1
    Transports = {"full", "limited", "yuv422"}
    Colors = {"bt709", "bt2020"}
    Rates = {50, 60}
    Formats = {"yuyv", "bgr24"}
    MaxFpgaSleeps = 1
    Widths <- PhaseWidths
    Controls = {"brightness", "hue"}
INVARIANTS TransfersSound ProcessorSound FramesWhole 
CHECK_DEADLOCK FALSE
