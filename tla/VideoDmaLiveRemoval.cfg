SPECIFICATION LiveSpec
CONSTANTS
    b1 = b1
    b2 = b2
    b3 = b3
    Buffers = {b1}
    NoBuf = NoBuf
    NChannels = 1
    MaxGlitches = 0
    CanLose = TRUE
    SharedVector = FALSE
PROPERTY RemovalServed
