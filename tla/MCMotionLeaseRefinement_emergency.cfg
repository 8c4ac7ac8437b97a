SPECIFICATION Spec
CONSTANTS
    U64Max = 7
    MaxTtl = 2
    VelocityLimit = 2
    MovingEpsilon = 0
    RetiredCapacity = 1
    NonFinite = NonFinite
    RetiredStreams = 2
    Infeasible = {2}
    Requests <- OneOperator
    MaxTime = 2
    MaxLag = 1
    LastPublish = 1
    MaxFailures = 0
    SerialStops = TRUE
INVARIANTS
    LeaseIsNewerThanStop
CHECK_DEADLOCK FALSE
