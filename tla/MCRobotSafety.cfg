SPECIFICATION Spec
CONSTANTS
    Enabled = TRUE
    ConfirmFrames = 3
    Counter = 7
    StopOnRcLoss = TRUE
    StopOnMotorFault = TRUE
    StaleTimeout = 1
    LossTimeout = 2
    StopRepeat = 2
    TickCounter = 5
    Pulses = {"low", "high", "absent"}
    MaxAge = 2
    FramesPerTick = 2
    MaxStopTime = 1
PROPERTIES
    InterlockHolds
    StopIsTimely
