SPECIFICATION Spec
CONSTANTS
    b1 = b1
    b2 = b2
    b3 = b3
    Buffers = {b1, b2, b3}
    NoBuf = NoBuf
    NChannels = 2
    MaxGlitches = 0
    CanLose = FALSE
    SharedVector = FALSE
PROPERTY FramesInOrder
SYMMETRY Symm
CONSTRAINT AllPrepared
