SPECIFICATION FairSpec
CONSTANTS
  NoId = NoId
  NoSeed = NoSeed
  NoGen = NoGen
  NoFile = NoFile
  Ranks <- MCRanks
  TotalSteps = 4
  SaveFreq = 3
  EvalSeed = 100
  TrainSeed = 3
  Jobs <- MCJobs
  MaxCrashes = 2
INVARIANTS
  TypeOK
  ContractNeverRefuses
  OnPolicyDraw
  CheckpointCoherent
  DrawIsFunctionOfStep
  GenerateSeesCurrent
PROPERTIES
  FitEnds
  ImplementsTransaction
CHECK_DEADLOCK FALSE
