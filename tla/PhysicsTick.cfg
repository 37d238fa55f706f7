CONSTANTS
  sat = sat
  ground = ground
  None = None
  Nodes = {sat, ground}
  Graphs <- MCGraphs
  Models <- MCModels
  Fragile <- MCFragile
  Distances = {1, 3}
  Shadows <- MCShadows
  DoseRates = {1, 3}
  MaxDose = 4
  LatchDose = 4
  EclipseTemp = 0
  SolarTemp = 3
  ThrottleTemp = 1
  CriticalTemp = 2
  FaultTemp = 3
  Capacity = 4
  Generated = 2
  Gain = 1
  DischargePower = 2
  Loss = 2
  MaxTicks = 4
SPECIFICATION Spec
INVARIANTS
  TypeOK
  FaultsAreExplained
  BatteryIsReported
  PenaltyMatchesShift
  BlameAgreesWithFaults
PROPERTIES
  BatteryGivesWhatItLoses
  ShiftIsOverOneTick
