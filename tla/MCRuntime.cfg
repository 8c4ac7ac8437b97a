SPECIFICATION RuntimeSpec
CONSTANTS
    Drives = 2
    Period = 1
    BackoffBase = 2
    BackoffMax = 15
    SlowDivider = 3
    MuteDrives = {2}
    WarningAge = 1
    StaleAge = 10
    OfflineAge = 20
    SuspectFailures = 2
    DegradedFailures = 3
    RecoveryGoods = 2
    Sources = {"BOOT", "ESTOP"}
    Reported = {"RC_INVALID", "ESTOP_ACTIVE", "SELF_TEST_FAILED"}
    MaxEpoch = 2
    Profiles <- MCProfiles
    Failures = 2
    Calls = 4
    Intervals = {1, 2}
    InitialBackoff = 1
    MaxBackoff = 2
INVARIANTS
    CompositionIsWhole
    SuccessIsRest
    RecoveryIsConfirmed
    OthersStayFresh
    StateIsExact
PROPERTIES
    PolledLinkRecovers
    ChecksFollowSwitch
CHECK_DEADLOCK FALSE
