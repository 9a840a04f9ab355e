\* A constant rate and small bursts, any answers or none.
SPECIFICATION FairSpec
CONSTANTS
    Args <- SmallPlans
    Floats <- ThreeBits
    Unit = 8
    StepSize = 1
    MayInterrupt = TRUE
INVARIANTS
    TypeOK
    EveryRequestIsSomewhere
    LineIsConsistent
    RateStaysNear
    BurstsAreAlike
PROPERTIES
    GeneratorEnds
CHECK_DEADLOCK FALSE
