SPECIFICATION LiveSpec
CONSTANTS
    Buffers = {b1}
    Nobody = Nobody
    MinQueued = 1
    CanLose = TRUE
PROPERTIES CallReturns LostReported
