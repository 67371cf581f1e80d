SPECIFICATION FairSpec
CONSTANTS
  Receivers <- MCReceivers
  BucketSize = 2
  WeightLists <- MCWeightLists
  MaxRaises = 1
INVARIANTS
  TypeOK
  LoadedFaithfully
  AssertionsHold
PROPERTIES
  TransferEnds
CHECK_DEADLOCK FALSE
