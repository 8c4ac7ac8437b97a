SPECIFICATION Spec
CONSTANTS
    U64Max = 7
    MaxTtl = 1
    VelocityLimit = 2
    MovingEpsilon = 0
    RetiredCapacity = 1
    NonFinite = NonFinite
    RetiredStreams = 2
    Infeasible = {2}
    Requests <- TwoOperators
    MaxTime = 2
    MaxLag = 1
    LastPublish = 1
    MaxFailures = 1
    SerialStops = FALSE
INVARIANTS
    WheelsAnswerToFreshIntent
PROPERTIES
    LeaseIsShared
CHECK_DEADLOCK FALSE
