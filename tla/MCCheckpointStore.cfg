SPECIFICATION Spec
CONSTANTS
  Ranks <- MCRanks
  MaxKeeps <- MCKeeps
  MaxStep = 4
  MaxRuns = 3
INVARIANTS
  TypeOK
  TrackedLoadable
  KeepsAtMost
CHECK_DEADLOCK FALSE
