\* Two engines with rings of three buffers.  One HDMI capture: the format
\* changes twice, the system sleeps and the card is removed.  A ring of 5.1
\* channels; DMA buffers below, at and above the period and the ring.
SPECIFICATION AudioSpec
CONSTANTS
    hdmi = hdmi
    line = line
    captured = captured
    f1 = f1
    f2 = f2
    none = none
    Streams = {hdmi, line}
    RingLen = 3
    CanLose = TRUE
    Pcms = {captured}
    Hdmi = captured
    Formats = {f1, f2}
    NoFormat = none
    MaxChanges = 2
    CanSuspend = TRUE
    CanRemove = TRUE
    BufferSize = 7
    PeriodSize = 3
    Channels = 6
    Chunks = {1, 2, 5, 9}
    MaxFrames = 80
INVARIANTS EnginesSound CaptureSound RingSound
PROPERTY GateKept
SYMMETRY Symm
CHECK_DEADLOCK FALSE
