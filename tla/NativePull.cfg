SPECIFICATION FairSpec
CONSTANTS
  a = a
  b = b
  Lanes = {a, b}
  Count <- TwoCount
  Window <- TwoWindow
  MaxWorkers = 2
  Willing = {b}
  MaxRefusals = 1
INVARIANTS CreditsExact NoStrandedWork 
PROPERTIES FairShareFirst StreamsFinish
CHECK_DEADLOCK FALSE
