SPECIFICATION LiveSpec
CONSTANTS
    b1 = b1
    b2 = b2
    b3 = b3
    Buffers = {b1}
    NoBuf = NoBuf
    NChannels = 1
    MaxGlitches = 1
    CanLose = FALSE
    SharedVector = TRUE
PROPERTIES StopCompletes MissedFrameRecovered WorkServed
