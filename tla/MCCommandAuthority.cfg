SPECIFICATION Spec
CONSTANTS
    U64Max = 3
    MaxTtl = 2
    VelocityLimit = 2
    MovingEpsilon = 0
    NonFinite = NonFinite
    RetiredCapacity = 1
    Requests <- SourcesCompete
    MaxLag = 1
    MaxTime = 2
INVARIANTS
    TypeOK
    OutputNeedsAuthority
    GrantedAfterBarrier
    OneHolderPerEpoch
PROPERTIES
    NoReplay
    HandoverIsClean
CHECK_DEADLOCK FALSE
