SPECIFICATION Spec
CONSTANTS
  Work = {0, 1, 2, 3, 4, 5}
  Initial <- RelayInitial
  View <- RelayView
  Generation <- RelayGeneration
  Cost <- CostFirst
  Deps <- RelayDeps
  TailEligible <- RelayEligible
  Devices = {0, 1}
  Owner <- MCOwner
  WorkersPerDevice = 1
  MaxGeneration = 1
  AllowTailAssist = TRUE
  HeadOrder = TRUE
  MaxFailures = 1
  Pending = Pending
  Skipped = Skipped
INVARIANTS
  GenerationsInOrder OnePlaceOneUse LateAnswersAreRefused
PROPERTY ImplementsPublication
CHECK_DEADLOCK FALSE
