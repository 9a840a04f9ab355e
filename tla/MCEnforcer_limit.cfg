\* The rate is the limit, services as yaml/forwards.yaml deploys them.
SPECIFICATION FairSpec
CONSTANTS
    s1 = s1
    s2 = s2
    Service = {s1, s2}
    Tasks <- TwoTasks
    RateLimit = 2
    Rates = {2}
    MinScales <- NoMinScale
    Bare = {FALSE}
    MaxDeploys = 1
    MaxDeletes = 0
    MaxKills = 0
PROPERTIES
    LimitIsSupported
CHECK_DEADLOCK FALSE
