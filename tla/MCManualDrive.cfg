SPECIFICATION ManualSpec
CONSTANTS
    Callers = {"motion", "gateway"}
    Endpoints <- Pair
    Required = {"left", "right"}
    Requests <- PairAndSingle
    Stoppers = {"gateway"}
    MaxFaults = 2
    Operators = {"gateway"}
    Moves <- Turn
INVARIANTS
    StartsAreInStep
    SuccessIsExact
    FailuresStop
    UpdateFindsRest
