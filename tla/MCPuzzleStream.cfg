SPECIFICATION FairSpec
CONSTANTS
  None = None
  BatchSize = 3
  Epochs = 2
  GroupCount = 2
  ModelDraws = 1
  MaxBatches = 4
  MaxRestarts = 2
  Tapes <- MCTapes
INVARIANTS
  TypeOK
  FreshDraws
PROPERTIES
  SameBatchAgain
  BatchesReturn
CHECK_DEADLOCK FALSE
