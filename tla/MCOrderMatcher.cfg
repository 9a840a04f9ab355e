\* Two goroutines, reports delivered twice, a second output report, restarts.
SPECIFICATION Spec
CONSTANTS
    o1 = o1
    Order = {o1}
    Report <- Poisoned
    Handler = {h1, h2}
    NoReport = NoReport
    Tasks = 3
    MaxDeliveries = 2
    MayRestart = TRUE
SYMMETRY HandlerSymmetry
INVARIANTS
    TypeOK
    Conservation
    MeasuredPerInput
CHECK_DEADLOCK FALSE
