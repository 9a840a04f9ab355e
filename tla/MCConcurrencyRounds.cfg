\* Small rounds behind two requests of warm-up, any answers or none.
SPECIFICATION FairSpec
CONSTANTS
    Args <- SmallArgs
    Warmup = 2
INVARIANTS
    RecordIsExact
    RoundsDoNotOverlap
PROPERTIES
    EndsUnlessUnanswered
CHECK_DEADLOCK FALSE
