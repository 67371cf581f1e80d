SPECIFICATION Spec
CONSTANTS
  s1 = s1
  s2 = s2
  h1 = h1
  r1 = r1
  q1 = q1
  None = None
  Standalone <- MCStandalone
  Hybrid <- MCHybrid
  Clients <- MCClients
  Validators <- MCValidators
  TestFreq = 1
  MaxVersion = 2
INVARIANTS
  NeverServedAsleep
CHECK_DEADLOCK FALSE
