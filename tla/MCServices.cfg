SPECIFICATION ServicesSpec
CONSTANTS
    MaxBuild = 3
    Networks = {"home"}
    MaxRetries = 1
    MaxEvents = 3
    MaxCommands = 2
INVARIANTS
    ServicesAreSound
    UpdateIsSafe
PROPERTIES
    OnlyGoodUpdatesStay
    ReachesNetwork
CHECK_DEADLOCK FALSE
