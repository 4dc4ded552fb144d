SPECIFICATION Spec
CONSTANTS
    b1 = b1
    b2 = b2
    b3 = b3
    Buffers = {b1}
    NoBuf = NoBuf
    NChannels = 2
    MaxGlitches = 1
    CanLose = TRUE
    SharedVector = TRUE
INVARIANTS WatchdogArmed QuietWhenStopped
SYMMETRY Symm
