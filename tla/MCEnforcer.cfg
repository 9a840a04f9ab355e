\* Any rates, templates and annotations; the enforcer is killed and services deployed again.
SPECIFICATION FairSpec
CONSTANTS
    s1 = s1
    s2 = s2
    Service = {s1, s2}
    Tasks <- TwoTasks
    RateLimit = 2
    Rates = {1, 2}
    MinScales <- AnyMinScale
    Bare = {FALSE, TRUE}
    MaxDeploys = 1
    MaxDeletes = 1
    MaxKills = 1
INVARIANTS
    TypeOK
    UpdatesAreDue
PROPERTIES
    ReservedIsLeftAlone
    EveryTaskIsReserved
CHECK_DEADLOCK FALSE
