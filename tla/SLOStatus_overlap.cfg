\* Two overlapping runs of the job, two metrics kept, writes of others and restarts.
SPECIFICATION Spec
CONSTANTS
    Job = {j1, j2}
    TrackingLength = 2
    Period = 1
    Load = 1
    MaxTicks = 3
    MaxWrites = 2
INVARIANTS
    TypeOK
    CountedOnce
    WindowsAreOrdered
    StatusIsRecentHistory
    RateIsBounded
CHECK_DEADLOCK FALSE
