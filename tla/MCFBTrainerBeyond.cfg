SPECIFICATION Spec
CONSTANTS
  NoId = NoId
  NoSeed = NoSeed
  NoGen = NoGen
  NoFile = NoFile
  Ranks <- MCOneRank
  TotalSteps = 3
  SaveFreq = 2
  EvalSeed = 100
  TrainSeed = 3
  Jobs <- MCPlain
  MaxCrashes = 1
INVARIANT NeverBeyondTotal
CHECK_DEADLOCK FALSE
