\* One burst, and Ctrl + C.
SPECIFICATION Spec
CONSTANTS
    Args <- OneBurst
    Floats <- ThreeBits
    Unit = 8
    StepSize = 1
    MayInterrupt = TRUE
INVARIANTS
    StopIsHeeded
CHECK_DEADLOCK FALSE
