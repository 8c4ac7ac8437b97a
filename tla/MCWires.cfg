SPECIFICATION WiresSpec
CONSTANTS
    FrameCounter = 3
    StreamCounter = 3
    Streams = {1, 2}
    ArmPendingMax = 2
    FramesPerStep = 1
    channel_count = 3
    min_pulse_us = 2
    max_pulse_us = 3
    sync_threshold_us = 5
    stale_timeout = 1
    Wrap = 8
    CountMax = 5
    MaxFrames = 2
    MaxSilence = 8
    MaxWait = 2
    Values = {2, 4, 6, 9}
    ErrorGap = 3
    StaleTimeout = 3
    Addresses = {"a"}
    Retries = 1
    SlowEvery = 2
    GatewaySpeeds = {1}
INVARIANTS
    SignalsAreSound
    FeedbackIsItsOwn
PROPERTIES
    HandshakeAfterOwnStop
    FramesAreWhole
    ChannelsWereSent
    AcknowledgedWriteHolds
