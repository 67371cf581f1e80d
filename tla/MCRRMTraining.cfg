SPECIFICATION FairSpec
CONSTANTS
  None = None
  Groups <- MCGroups
  BatchSize = 2
  Settings <- MCSettings
  Schedules <- MCSchedules
  Tapes <- MCTapes
INVARIANTS
  TypeOK
  RanksAgree
  LaggedWeights
  OneGradient
  RandomnessFollowsSteps
PROPERTIES
  RunEnds
  ImplementsReference
CHECK_DEADLOCK FALSE
