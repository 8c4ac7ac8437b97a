SPECIFICATION Spec
CONSTANTS
    FrameCounter = 3
    StreamCounter = 3
    Streams = {1, 2}
    ArmPendingMax = 2
    FramesPerStep = 1
PROPERTIES
    HandshakeAfterAnyStop
