\* Two orders, three functions, two handlers; the functions of one order may fail.
SPECIFICATION FairPipelineSpec
CONSTANTS
    o1 = o1
    o2 = o2
    Order = {o1, o2}
    Report <- Reported
    Handler = {h1, h2}
    NoReport = NoReport
    Tasks = 3
    MaxDeliveries = 1
    MayRestart = FALSE
    PlacedAt <- PlacedAtOf2
    Duration <- DurationOf2
    Fragile = {o1}
    MaxCopies = 1
INVARIANTS
    MidsCoverTasks
    SettledOutcome
PROPERTIES
    ImplementsLedger
    EveryOrderSettles
CHECK_DEADLOCK FALSE
