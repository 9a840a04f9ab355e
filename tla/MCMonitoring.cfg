\* Two orders on their way in many ways, or pods that come and go.
SPECIFICATION FairSpec
CONSTANTS
    a = a
    b = b
    Services = 3
    Task = {1, 2, 3}
    ReplicaSet = {a, b}
    TasksIn <- Sets
    Absent = Absent
    MaxPods = 1
    ResyncPeriod = 2
    Second = 2
    Resolution = 4
    Gap = 2
    End = 4
    Experiments <- AllRuns
INVARIANTS
    OnlyStraysFail
    RatesCountOrders
    FirstDemands
    TailGrowsAlongTheChain
    GenerationIsComplete
    PodsAreTheLastKnown
PROPERTIES
    PodsConverge
CHECK_DEADLOCK FALSE
