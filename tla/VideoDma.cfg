SPECIFICATION Spec
CONSTANTS
    b1 = b1
    b2 = b2
    b3 = b3
    Buffers = {b1, b2}
    NoBuf = NoBuf
    NChannels = 2
    MaxGlitches = 0
    CanLose = TRUE
    SharedVector = FALSE
INVARIANTS TypeOK Placement References NoLostWakeup DmaTargetsActive
SYMMETRY Symm
