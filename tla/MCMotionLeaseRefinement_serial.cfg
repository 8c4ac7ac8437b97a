SPECIFICATION Spec
CONSTANTS
    U64Max = 7
    MaxTtl = 1
    VelocityLimit = 2
    MovingEpsilon = 0
    RetiredCapacity = 1
    NonFinite = NonFinite
    RetiredStreams = 2
    Infeasible = {2}
    Requests <- OneOperator
    MaxTime = 2
    MaxLag = 0
    LastPublish = 1
    MaxFailures = 0
    SerialStops = TRUE
INVARIANTS
    WheelsAreCovered
PROPERTIES
    ImplementsLease
    ComesToRest
CHECK_DEADLOCK FALSE
