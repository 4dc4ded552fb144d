SPECIFICATION Spec
CONSTANTS
    Buffers = {b1, b2, b3}
    Nobody = Nobody
    MinQueued = 2
    CanLose = TRUE
INVARIANTS TypeOK OneOwner EngineHoldsActive CleanStop DeadStreamReported ErrorCleared
