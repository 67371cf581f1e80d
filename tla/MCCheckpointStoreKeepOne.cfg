SPECIFICATION Spec
CONSTANTS
  Ranks <- MCOneRank
  MaxKeeps <- MCKeepOne
  MaxStep = 2
  MaxRuns = 2
INVARIANT TrackedWhole
CHECK_DEADLOCK FALSE
