CONSTANTS
  Waits = {1, 2}
  Endless = Endless
  View <- MCView
  Duration = 4
  TopologyInterval = 2
  MaxHops = 1
  MaxRuns = 2
  Followed = 2
  DefaultConfig <- MCDefaultConfig
  Scales <- MCScales
  Seeds <- MCSeeds
  Modes <- MCModes
  Workers = 2
  Requests <- MCRequests
SPECIFICATION Spec
INVARIANTS
  TypeOK
  TalliesMatchFates
  LoopsKeepTheBeat
  GraphHoldsTogether
  RoundsAreComplete
  AskedIsBuilt
  SweepIsOrderFree
PROPERTIES
  RunsEnd
CHECK_DEADLOCK FALSE
