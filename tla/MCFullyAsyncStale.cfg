SPECIFICATION Spec
CONSTANTS
  Required = 1
  Trigger = 2
  MaxRequireds <- MCAhead
  MaxConcurrent = 2
  PendingSize = 1
  TotalRollout = 6
  TestFreq = 2
  SaveFreq = 1
  MaxFaults = 0
  MaxSample = 6
INVARIANTS
  StaleProportion
CHECK_DEADLOCK FALSE
