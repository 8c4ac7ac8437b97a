CONSTANTS
  Cycle = 8
  MaxPosition = 3
  MaxRawStep = 3
  ReacquireError = 1
  StableSamples = 2
  ReacquireSamples = 1
  StaleTimeout = 2
  FaultTimeout = 4
  CommandTtl = 3
  MoveTimeout = 5
  ReversalSettle = 2
  SensorPeriod = 2
  WriteFailures = 1
  Pushes = 1
  Magnets = {"GOOD"}
SPECIFICATION AxisSpec
INVARIANTS
    AxisHolds
PROPERTIES
    PositionIsTrue
    DriveRests
