SPECIFICATION FairSpec
CONSTANTS
  Required = 1
  Trigger = 2
  MaxRequireds <- MCMaxRequireds
  MaxConcurrent = 2
  PendingSize = 1
  TotalRollout = 4
  TestFreq = 2
  SaveFreq = 1
  MaxFaults = 1
  MaxSample = 8
INVARIANTS
  TypeOK
  OutstandingBounded
  SynchronousWhenZero
  TrainedOnce
PROPERTIES
  TrainerFinishes
CHECK_DEADLOCK FALSE
